------------------------------- MODULE RunControl -------------------------------
(***************************************************************************)
(* A RunControl and its RunWorkers (projectexplorer/runcontrol.cpp), with  *)
(* the buttons of the Application Output pane (appoutputpane.cpp).         *)
(*                                                                         *)
(* Everything happens in the GUI thread: one action is one event.  A call  *)
(* that RunControl queues to a worker with a timer of 0 ms waits in        *)
(* calls[w]; the calls of a worker are in order, and those of two workers  *)
(* are not.  Workers are numbered in the order of m_workers.               *)
(*                                                                         *)
(* What a worker does is in job[w].  Its kind says which implementation of *)
(* RunWorker it is:                                                        *)
(*   "local", "device"  SimpleTargetRunner, for this and another machine   *)
(*   "tool"             one whose stop() reports at once (PortsGatherer,   *)
(*                      RunWorker itself)                                  *)
(*   "engine"           one that reports some time later (DebuggerRunTool) *)
(*   "closing"          QdbDeviceInferiorRunner of the Boot2Qt plugin      *)
(***************************************************************************)
EXTENDS Naturals, Sequences

CONSTANTS
    NumWorkers,
    Setups,         \* which workers there may be, and how they depend on each other
    MaxReRuns       \* bound: how often the user runs it again

Worker == 1 .. NumWorkers

Process == {"local", "device"}
Kind == Process \cup {"tool", "engine", "closing"}

Setup == [m_workers : SUBSET Worker, kind : [Worker -> Kind],
          startDependencies : [Worker -> SUBSET Worker],
          stopDependencies : [Worker -> SUBSET Worker],
          essential : SUBSET Worker]

ASSUME ConstantsAssumption ==
    /\ NumWorkers \in Nat \ {0}
    /\ \A s \in Setups :
          /\ s \in Setup
          /\ \A w \in s.m_workers : /\ s.startDependencies[w] \subseteq s.m_workers
                                    /\ s.stopDependencies[w] \subseteq s.m_workers
    /\ MaxReRuns \in Nat

VARIABLES
    setup,          \* what the constructors of the workers have put together
    state,          \* RunControlPrivate::state, or "Deleted"
    workerState,    \* RunWorkerPrivate::state, by worker
    calls,          \* queued initiateStart() and initiateStop(), by worker
    finishQueued,   \* is RunControlPrivate::initiateFinish queued?
    job,            \* what the worker's process or tool does
    m_stopReported, \* SimpleTargetRunnerPrivate::m_stopReported, by worker
    lateDone,       \* workers whose forwardDone() timer (100 ms) is pending
    buttons,        \* which buttons of the pane are enabled
    refresh,        \* is AppOutputPane::runControlFinished queued?
    prompt,         \* is the user asked whether to stop?
    tab,            \* is the RunControl's tab still open?
    deleteLater,    \* has the RunControl, finished, asked for its deletion?
    reRuns,         \* how often it has been run again
    disturbed       \* history: what has taken the RunControl out of its order

vars == <<setup, state, workerState, calls, finishQueued, job, m_stopReported,
          lateDone, buttons, refresh, prompt, tab, deleteLater,
          reRuns, disturbed>>
control == <<state, workerState, calls>>
pane == <<buttons, refresh, prompt, tab, deleteLater>>
jobs == <<job, m_stopReported, lateDone>>
history == <<reRuns, disturbed>>

RunControlState == {"Initialized", "Starting", "Running", "Stopping", "Stopped",
                    "Finishing", "Finished", "Deleted"}
RunWorkerState == {"Initialized", "Starting", "Running", "Stopping", "Done"}

m_workers == setup.m_workers
kind == setup.kind
startDependencies == setup.startDependencies
stopDependencies == setup.stopDependencies

TypeOK ==
    /\ setup \in Setups
    /\ state \in RunControlState
    /\ workerState \in [Worker -> RunWorkerState]
    /\ calls \in [Worker -> Seq({"start", "stop"})]
    /\ finishQueued \in BOOLEAN
    /\ job \in [Worker -> {"NotRunning", "Starting", "Running", "Stopping"}]
    /\ m_stopReported \in [Worker -> BOOLEAN]
    /\ lateDone \in SUBSET Worker
    /\ buttons \in [stop : BOOLEAN, reRun : BOOLEAN]
    /\ refresh \in BOOLEAN
    /\ prompt \in BOOLEAN
    /\ tab \in BOOLEAN
    /\ deleteLater \in BOOLEAN
    /\ reRuns \in 0 .. MaxReRuns
    /\ disturbed \in SUBSET {"reRun", "earlyReRun", "forceStop"}

Init ==
    /\ setup \in Setups
    /\ state = "Initialized"
    /\ workerState = [w \in Worker |-> "Initialized"]
    /\ calls = [w \in Worker |-> <<>>]
    /\ finishQueued = FALSE
    /\ job = [w \in Worker |-> "NotRunning"]
    /\ m_stopReported = [w \in Worker |-> FALSE]
    /\ lateDone = {}
    /\ buttons = [stop |-> FALSE, reRun |-> FALSE]
    /\ refresh = FALSE
    /\ prompt = FALSE
    /\ tab = TRUE
    /\ deleteLater = FALSE
    /\ reRuns = 0
    /\ disturbed = {}

------------------------------------------------------------------------------
(* RunControlPrivate.  The operators say what state, workerState and calls  *)
(* become when ws are the states of the workers and cs the queued calls at  *)
(* the time of the call.                                                    *)

Queue(cs, ws, call) ==
    [w \in Worker |-> IF w \in ws THEN Append(cs[w], call) ELSE cs[w]]

(* Faulty: only the dependencies that come first in the list are asked.     *)
CanStartAfterEarlierOnes(ws, w) ==
    /\ ws[w] = "Initialized"
    /\ \A d \in startDependencies[w] : d < w => ws[d] \in {"Running", "Done"}

CanStart(ws, w) ==
    /\ ws[w] = "Initialized"
    /\ \A d \in startDependencies[w] : ws[d] \in {"Running", "Done"}

(* continueStart: the first worker that can start is told to, or all have   *)
(* started.                                                                 *)
ContinueStart(ws, cs) ==
    LET able == {w \in m_workers : CanStart(ws, w)}
    IN  \/ \E w \in able :
              /\ \A v \in able : w <= v
              /\ workerState' = [ws EXCEPT ![w] = "Starting"]
              /\ calls' = Queue(cs, {w}, "start")
              /\ state' = "Starting"
        \/ /\ able = {}
           /\ workerState' = ws
           /\ calls' = cs
           /\ state' = IF \A w \in m_workers : ws[w] \notin {"Initialized", "Starting"}
                       THEN "Running" ELSE "Starting"

(* Faulty: a worker that is being stopped counts as stopped.                *)
CanStopWithDependents(ws, w) ==
    /\ ws[w] \in {"Starting", "Running"}
    /\ \A d \in stopDependencies[w] :
          ws[d] \in {"Done", "Stopping"} \/ (d < w /\ ws[d] = "Initialized")

(* canStop, when continueStopOrFinish comes to w: it has already set the    *)
(* Initialized workers before w to Done.                                    *)
CanStop(ws, w) ==
    /\ ws[w] \in {"Starting", "Running"}
    /\ \A d \in stopDependencies[w] : ws[d] = "Done" \/ (d < w /\ ws[d] = "Initialized")

(* continueStopOrFinish in state s.                                         *)
ContinueStopOrFinish(s, ws, cs) ==
    LET able == {w \in m_workers : CanStop(ws, w)}
    IN  /\ workerState' = [w \in Worker |->
              IF w \in able THEN "Stopping"
              ELSE IF w \in m_workers /\ ws[w] = "Initialized" THEN "Done" ELSE ws[w]]
        /\ calls' = Queue(cs, able, "stop")
        /\ state' = IF \E w \in m_workers : ws[w] \notin {"Initialized", "Done"}
                    THEN s
                    ELSE IF s = "Finishing" THEN "Finished" ELSE "Stopped"

InitiateStop(ws, cs) == ContinueStopOrFinish("Stopping", ws, cs)

OnWorkerStarted(w, cs) ==
    LET ws == [workerState EXCEPT ![w] = "Running"]
    IN  IF state = "Starting"
        THEN ContinueStart(ws, cs)
        ELSE /\ workerState' = ws
             /\ calls' = cs
             /\ UNCHANGED state

(* Faulty: what waits for the failed worker goes on waiting.                *)
OnWorkerFailedWhileStarting(w, cs) ==
    LET ws == [workerState EXCEPT ![w] = "Done"]
    IN  IF state = "Starting"
        THEN workerState' = ws /\ calls' = cs /\ UNCHANGED state
        ELSE IF state = "Running"
             THEN InitiateStop(ws, cs)
             ELSE ContinueStopOrFinish(state, ws, cs)

(* Faulty: in any state, the other workers are stopped as on the button.    *)
OnWorkerFailedAlwaysStops(w, cs) ==
    InitiateStop([workerState EXCEPT ![w] = "Done"], cs)

OnWorkerFailed(w, cs) ==
    LET ws == [workerState EXCEPT ![w] = "Done"]
    IN  IF state \in {"Starting", "Running"}
        THEN InitiateStop(ws, cs)
        ELSE ContinueStopOrFinish(state, ws, cs)

(* The last part of onWorkerStopped: a worker has stopped by itself.  Those *)
(* it should have outlived follow, and RunControl may have nothing left.    *)
StopDependents(w, ws, cs) ==
    LET kill == {d \in stopDependencies[w] : ws[d] \notin {"Done", "Initialized"}}
        ws2 == [d \in Worker |->
                  IF d \in kill THEN "Stopping"
                  ELSE IF d \in stopDependencies[w] THEN "Done" ELSE ws[d]]
    IN  /\ workerState' = ws2
        /\ calls' = Queue(cs, kill, "stop")
        /\ state' = IF \A v \in m_workers : ws2[v] \in {"Initialized", "Done"}
                    THEN "Stopped" ELSE state

OnWorkerStopped(w, cs) ==
    LET ws == [workerState EXCEPT ![w] = "Done"]
    IN  IF workerState[w] = "Done"
        THEN /\ calls' = cs
             /\ workerState' = ws
             /\ UNCHANGED state
        ELSE IF state \in {"Finishing", "Stopping"}
             THEN ContinueStopOrFinish(state, ws, cs)
             ELSE IF w \in setup.essential
                  THEN InitiateStop(ws, cs)
                  ELSE StopDependents(w, ws, cs)

------------------------------------------------------------------------------
(* The user, and others that start or stop a RunControl.                    *)

(* AppOutputPane::enableButtons in state s.                                 *)
Buttons(s, ws) ==
    [stop |-> s = "Running",
     reRun |-> s = "Stopped" /\ \A w \in m_workers : ws[w] = "Done"]

(* setState: the pane enables the buttons when it hears started, and some   *)
(* time after it has heard stopped; what has finished deletes itself.       *)
Signals ==
    /\ buttons' = IF state # "Running" /\ state' = "Running"
                  THEN Buttons(state', workerState') ELSE buttons
    /\ refresh' = (refresh \/ (state # "Stopped" /\ state' = "Stopped"))
    /\ deleteLater' = (deleteLater \/ state' = "Finished")
    /\ UNCHANGED <<prompt, tab>>

(* A user is slower than timers of 0 ms.                                    *)
NothingQueued == ~refresh /\ \A w \in Worker : calls[w] = <<>>

UserActs == state # "Deleted" /\ tab /\ ~prompt /\ NothingQueued

(* ProjectExplorerPlugin::startRunControl, RunControl::initiateStart.       *)
Start ==
    /\ UserActs
    /\ state = "Initialized"
    /\ ContinueStart(workerState, calls)
    /\ Signals
    /\ UNCHANGED <<setup, finishQueued, jobs, history>>

(* AppOutputPane::reRunRunControl, RunControl::initiateReStart, whose       *)
(* aboutToStart has the pane look at the state before.                      *)
ReRun ==
    /\ UserActs
    /\ buttons.reRun
    /\ state # "Running"
    /\ reRuns < MaxReRuns
    /\ reRuns' = reRuns + 1
    /\ disturbed' = disturbed \cup (IF state # "Stopped" THEN {"reRun"} ELSE {})
                               \cup (IF lateDone # {} THEN {"earlyReRun"} ELSE {})
    /\ ContinueStart([w \in Worker |->
                         IF w \in m_workers /\ workerState[w] = "Done"
                         THEN "Initialized" ELSE workerState[w]],
                     calls)
    /\ buttons' = Buttons(IF state' = "Running" THEN state' ELSE state, workerState)
    /\ UNCHANGED <<setup, finishQueued, jobs, refresh, prompt, tab, deleteLater>>

(* AppOutputPane::stopRunControl asks before it stops a running one; one    *)
(* that is not running it stops forcefully, RunControlPrivate::forceStop.   *)
StopClicked ==
    /\ UserActs
    /\ buttons.stop
    /\ IF state = "Running"
       THEN /\ prompt' = TRUE
            /\ UNCHANGED <<control, buttons, refresh, disturbed>>
       ELSE /\ state # "Finished"
            /\ workerState' = [w \in Worker |->
                  IF w \in m_workers THEN "Done" ELSE workerState[w]]
            /\ state' = "Stopped"
            /\ refresh' = TRUE
            /\ disturbed' = disturbed \cup {"forceStop"}
            /\ UNCHANGED <<calls, buttons, prompt>>
    /\ UNCHANGED <<setup, finishQueued, jobs, tab, deleteLater, reRuns>>

(* The answer comes when it comes: RunControl may have stopped meanwhile.   *)
AnswerPrompt ==
    /\ state # "Deleted"
    /\ NothingQueued
    /\ prompt
    /\ prompt' = FALSE
    /\ \/ UNCHANGED <<control, buttons, refresh>>
       \/ /\ InitiateStop(workerState, calls)
          /\ buttons' = Buttons(state', workerState')
          /\ refresh' = (refresh \/ state' = "Stopped")
    /\ UNCHANGED <<setup, finishQueued, jobs, tab, deleteLater, history>>

(* BuildManager::queue, callgrind, the QML preview: initiateStop without    *)
(* the pane.                                                                *)
StopElsewhere ==
    /\ state = "Running"
    /\ InitiateStop(workerState, calls)
    /\ Signals
    /\ UNCHANGED <<setup, finishQueued, jobs, history>>

(* AppOutputPane::closeTab, and a new RunControl that takes over the tab.   *)
CloseTab ==
    /\ UserActs
    /\ state # "Initialized"
    /\ tab' = FALSE
    /\ finishQueued' = TRUE
    /\ UNCHANGED <<setup, control, jobs, buttons, refresh, prompt, deleteLater, history>>

(* AppOutputPane::tabChanged enables the buttons for the current state.     *)
TabChanged ==
    /\ UserActs
    /\ buttons' = Buttons(state, workerState)
    /\ UNCHANGED <<setup, control, refresh, finishQueued, jobs, prompt, tab, deleteLater, history>>

------------------------------------------------------------------------------
(* Queued calls.                                                            *)

RunControlFinished ==
    /\ refresh
    /\ refresh' = FALSE
    /\ buttons' = IF tab THEN Buttons(state, workerState) ELSE buttons
    /\ UNCHANGED <<setup, control, finishQueued, jobs, prompt, tab, deleteLater, history>>

(* RunControlPrivate::initiateFinish.                                       *)
InitiateFinish ==
    /\ finishQueued
    /\ finishQueued' = FALSE
    /\ ContinueStopOrFinish("Finishing", workerState, calls)
    /\ Signals
    /\ UNCHANGED <<setup, jobs, history>>

(* deleteLater(): what is queued for the workers goes with them.            *)
Delete ==
    /\ deleteLater
    /\ state # "Deleted"
    /\ state' = "Deleted"
    /\ calls' = [w \in Worker |-> <<>>]
    /\ job' = [w \in Worker |-> "NotRunning"]
    /\ lateDone' = {}
    /\ finishQueued' = FALSE
    /\ UNCHANGED <<setup, workerState, m_stopReported, pane, history>>

Popped(w) == [calls EXCEPT ![w] = Tail(@)]

NextCall(w, call) == calls[w] # <<>> /\ Head(calls[w]) = call

SetJob(w, j) == job' = [job EXCEPT ![w] = j]

JustPop(w) == calls' = Popped(w) /\ UNCHANGED <<state, workerState>>

(* start(): it begins, or sees at once that it cannot.  The process of a    *)
(* SimpleTargetRunner that still runs is left alone.                        *)
WorkerStart(w) ==
    /\ \/ /\ SetJob(w, IF kind[w] \in Process /\ job[w] # "NotRunning"
                      THEN job[w] ELSE "Starting")
          /\ JustPop(w)
       \/ /\ kind[w] \in {"local", "engine", "closing"}
          /\ OnWorkerFailed(w, Popped(w))
          /\ UNCHANGED job
    /\ m_stopReported' = IF kind[w] \in Process
                         THEN [m_stopReported EXCEPT ![w] = FALSE] ELSE m_stopReported
    /\ UNCHANGED lateDone

(* RunWorker::initiateStart.                                                *)
WorkerInitiateStart(w) ==
    /\ NextCall(w, "start")
    /\ WorkerStart(w)
    /\ Signals
    /\ UNCHANGED <<setup, finishQueued, history>>

(* SimpleTargetRunnerPrivate::forwardDone: reports only once.               *)
ForwardDone(w, cs) ==
    IF m_stopReported[w]
    THEN /\ calls' = cs
         /\ UNCHANGED <<state, workerState, m_stopReported>>
    ELSE /\ m_stopReported' = [m_stopReported EXCEPT ![w] = TRUE]
         /\ OnWorkerStopped(w, cs)

(* Faulty: it only asks the process to end.                                 *)
StopProcessWithoutWaiting(w) ==
    /\ kind[w] \in Process
    /\ UNCHANGED job
    /\ lateDone' = IF kind[w] = "local" /\ job[w] # "NotRunning"
                   THEN lateDone \cup {w} ELSE lateDone
    /\ IF job[w] = "NotRunning"
       THEN JustPop(w) /\ UNCHANGED m_stopReported
       ELSE ForwardDone(w, Popped(w))

(* SimpleTargetRunnerPrivate::stop waits until the process has ended, and   *)
(* handleDone has reported it.  On this machine it makes sure of that with  *)
(* a timer.                                                                 *)
StopProcess(w) ==
    /\ kind[w] \in Process
    /\ IF job[w] = "NotRunning"
       THEN JustPop(w) /\ UNCHANGED jobs
       ELSE /\ SetJob(w, "NotRunning")
            /\ lateDone' = IF kind[w] = "local" THEN lateDone \cup {w} ELSE lateDone
            /\ ForwardDone(w, Popped(w))

(* PortsGatherer::stop, RunWorker::stop.                                    *)
StopTool(w) ==
    /\ kind[w] = "tool"
    /\ SetJob(w, "NotRunning")
    /\ OnWorkerStopped(w, Popped(w))
    /\ UNCHANGED <<m_stopReported, lateDone>>

(* DebuggerRunTool::stop asks the engine to quit.                           *)
StopEngine(w) ==
    /\ kind[w] = "engine"
    /\ IF job[w] = "NotRunning"
       THEN OnWorkerStopped(w, Popped(w)) /\ UNCHANGED job
       ELSE SetJob(w, "Stopping") /\ JustPop(w)
    /\ UNCHANGED <<m_stopReported, lateDone>>

(* QdbDeviceInferiorRunner::stop: QtcProcess::close() tells nobody.         *)
StopClosing(w) ==
    /\ kind[w] = "closing"
    /\ SetJob(w, "NotRunning")
    /\ JustPop(w)
    /\ UNCHANGED <<m_stopReported, lateDone>>

(* RunWorker::initiateStop.                                                 *)
WorkerInitiateStop(w) ==
    /\ NextCall(w, "stop")
    /\ StopProcess(w) \/ StopTool(w) \/ StopEngine(w) \/ StopClosing(w)
    /\ Signals
    /\ UNCHANGED <<setup, finishQueued, history>>

------------------------------------------------------------------------------
(* What processes and tools report.                                         *)

(* RunWorker::reportStarted.                                                *)
ReportStarted(w) ==
    /\ job[w] = "Starting"
    /\ SetJob(w, "Running")
    /\ OnWorkerStarted(w, calls)
    /\ Signals
    /\ UNCHANGED <<setup, finishQueued, m_stopReported, lateDone, history>>

(* The process ends, or fails to start: handleDone.                         *)
HandleDone(w) ==
    /\ kind[w] \in Process
    /\ job[w] # "NotRunning"
    /\ SetJob(w, "NotRunning")
    /\ ForwardDone(w, calls)
    /\ Signals
    /\ UNCHANGED <<setup, finishQueued, lateDone, history>>

(* The timer of SimpleTargetRunnerPrivate::stop.                            *)
LateDone(w) ==
    /\ w \in lateDone
    /\ lateDone' = lateDone \ {w}
    /\ ForwardDone(w, calls)
    /\ Signals
    /\ UNCHANGED <<setup, finishQueued, job, history>>

(* RunWorker::reportStopped by the others; a tool only answers its stop(),  *)
(* and for QdbDeviceInferiorRunner every end is a stop.                     *)
ReportStopped(w) ==
    /\ \/ kind[w] = "engine" /\ job[w] \in {"Running", "Stopping"}
       \/ kind[w] = "closing" /\ job[w] # "NotRunning"
    /\ SetJob(w, "NotRunning")
    /\ OnWorkerStopped(w, calls)
    /\ Signals
    /\ UNCHANGED <<setup, finishQueued, m_stopReported, lateDone, history>>

(* RunWorker::reportFailure some time after start().                        *)
ReportFailure(w) ==
    /\ kind[w] \in {"tool", "engine"}
    /\ job[w] = "Starting"
    /\ SetJob(w, "NotRunning")
    /\ OnWorkerFailed(w, calls)
    /\ Signals
    /\ UNCHANGED <<setup, finishQueued, m_stopReported, lateDone, history>>

UserNext ==
    Start \/ ReRun \/ StopClicked \/ AnswerPrompt \/ StopElsewhere \/ CloseTab \/ TabChanged

Next ==
    \/ UserNext
    \/ RunControlFinished \/ InitiateFinish \/ Delete
    \/ \E w \in Worker :
          \/ WorkerInitiateStart(w) \/ WorkerInitiateStop(w)
          \/ ReportStarted(w) \/ HandleDone(w) \/ LateDone(w)
          \/ ReportStopped(w) \/ ReportFailure(w)

Spec == Init /\ [][Next]_vars

(* What a worker owes RunControl: an answer to start(), and for an engine   *)
(* that has been told to quit, its end.                                     *)
AnswersStart(w) ==
    /\ job[w] = "Starting"
    /\ ReportStarted(w) \/ ReportFailure(w) \/ HandleDone(w) \/ ReportStopped(w)

EndsWhenTold(w) == job[w] = "Stopping" /\ ReportStopped(w)

Fairness ==
    /\ WF_vars(RunControlFinished) /\ WF_vars(InitiateFinish) /\ WF_vars(Delete)
    /\ \A w \in Worker :
          /\ WF_vars(WorkerInitiateStart(w)) /\ WF_vars(WorkerInitiateStop(w))
          /\ WF_vars(LateDone(w))
          /\ WF_vars(AnswersStart(w)) /\ WF_vars(EndsWhenTold(w))

FairSpec == Spec /\ Fairness

------------------------------------------------------------------------------
(* A RunControl that says it has stopped, and can be run again, has nothing *)
(* running (unless it was forced, which does not wait for its workers, or   *)
(* the timer of an earlier run has reported a worker of this one).          *)
NothingRunsWhenStopped ==
    state = "Stopped" /\ disturbed \subseteq {"reRun"} =>
        \A w \in Worker : job[w] = "NotRunning"

(* RunControl is Running only when every worker has started, or is done     *)
(* with its short-lived task: the class comment of RunWorker.               *)
AllUpWhenRunning ==
    state = "Running" => \A w \in m_workers : workerState[w] \notin {"Initialized", "Starting"}

(* A worker that is starting can use what it depends on: that has started,  *)
(* whatever has stopped or failed or been run again since.                  *)
StartsAfterDependencies ==
    disturbed = {} => \A w \in m_workers : workerState[w] = "Starting" =>
        \A d \in startDependencies[w] : workerState[d] \notin {"Initialized", "Starting"}

(* A worker is told to stop only when the workers it must outlive are done, *)
(* or when one that must outlive it is done already.                        *)
StopsAfterDependents ==
    disturbed = {} => \A w \in m_workers : workerState[w] = "Stopping" =>
        \/ \A d \in stopDependencies[w] : workerState[d] = "Done"
        \/ \E v \in m_workers : w \in stopDependencies[v] /\ workerState[v] = "Done"

(* The doc of RunWorker::reportStopped asks every worker that is told to    *)
(* stop for its report.                                                     *)
Reporting == \A w \in m_workers : kind[w] # "closing"

(* If all workers report, a RunControl that starts or stops does not stay   *)
(* so, whichever workers fail or end on their own meanwhile: it waits for   *)
(* nobody who has nothing to say any more.                                  *)
Settles ==
    \A s \in {"Starting", "Stopping"} :
        state = s /\ Reporting ~> state # s \/ disturbed # {}

(* One whose tab was closed destroys itself in the end, also after a forced *)
(* stop.                                                                    *)
ClosedIsDeleted ==
    finishQueued /\ Reporting ~> state = "Deleted" \/ "earlyReRun" \in disturbed
=============================================================================
