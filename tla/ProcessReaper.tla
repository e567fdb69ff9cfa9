----------------------------- MODULE ProcessReaper -----------------------------
(***************************************************************************)
(* The process reaper of libs/utils/processreaper.cpp: a thread that       *)
(* terminates, then kills, and finally deletes the processes their owners  *)
(* have done with.                                                         *)
(*                                                                         *)
(* The owners act under s_instanceMutex, which ~ProcessReaper holds from   *)
(* its first step to its last; so an owner's whole ProcessReaper::reap is  *)
(* one step, possible until the destructor starts.  What either side does  *)
(* under m_mutex is one step as well.  The reaper thread handles one event *)
(* at a time: the calls posted to it in the order they were posted; the    *)
(* timers and the notifications of its processes in any order.             *)
(***************************************************************************)
EXTENDS Naturals, Sequences

CONSTANT Process

VARIABLES
    owner,              \* "caller", "reaper", or "deleted"
    state,              \* QProcess::state()
    stopped,            \* whether QProcess::kill has reached the child
    m_reaperSetupList,  \* ProcessReaperPrivate::m_reaperSetupList
    m_reaperList,       \* ProcessReaperPrivate::m_reaperList, by process
    m_finished,         \* Reaper::m_finished, by process
    timers,             \* Reapers whose single-shot timer is pending
    events,             \* calls posted to ProcessReaperPrivate
    flushing,           \* the setups the current flush() has taken
    destructor          \* where ~ProcessReaper stands

vars == <<owner, state, stopped, m_reaperSetupList, m_reaperList, m_finished,
          timers, events, flushing, destructor>>

FlushCall == [type |-> "flush"]
BlockingFlushCall == [type |-> "blockingFlush"]
FinishedCall(p) == [type |-> "finished", process |-> p]

Event == [type : {"flush", "blockingFlush"}]
            \cup [type : {"finished"}, process : Process]

(* No flush() is on the thread's stack, or one is, called by call, with     *)
(* todo left of the setups it took last.                                    *)
NotFlushing == [call |-> "none", todo |-> <<>>]

TypeOK ==
    /\ owner \in [Process -> {"caller", "reaper", "deleted"}]
    /\ state \in [Process -> {"Starting", "Running", "NotRunning"}]
    /\ stopped \in [Process -> BOOLEAN]
    /\ m_reaperSetupList \in Seq(Process)
    /\ m_reaperList \in SUBSET Process
    /\ m_finished \in [Process -> BOOLEAN]
    /\ timers \in SUBSET Process
    /\ events \in Seq(Event)
    /\ flushing \in [call : {"none", "flush", "blockingFlush"}, todo : Seq(Process)]
    /\ destructor \in {"none", "flush", "check", "waiting", "quit", "done"}

Init ==
    /\ owner = [p \in Process |-> "caller"]
    /\ state \in [Process -> {"Starting", "Running"}]
    /\ stopped = [p \in Process |-> FALSE]
    /\ m_reaperSetupList = <<>>
    /\ m_reaperList = {}
    /\ m_finished = [p \in Process |-> FALSE]
    /\ timers = {}
    /\ events = <<>>
    /\ flushing = NotFlushing
    /\ destructor = "none"

------------------------------------------------------------------------------
(* The owners.                                                              *)

(* Faulty: the reaper thread is not told.                                   *)
ScheduleReapSilently(p) ==
    /\ m_reaperSetupList' = Append(m_reaperSetupList, p)
    /\ UNCHANGED events

(* scheduleReap.                                                            *)
ScheduleReap(p) ==
    /\ m_reaperSetupList' = Append(m_reaperSetupList, p)
    /\ events' = Append(events, FlushCall)

(* ProcessReaper::reap: a process that has ended is just deleted.           *)
Reap(p) ==
    /\ owner[p] = "caller"
    /\ IF state[p] = "NotRunning"
       THEN /\ owner' = [owner EXCEPT ![p] = "deleted"]
            /\ UNCHANGED <<m_reaperSetupList, events>>
       ELSE /\ destructor = "none"
            /\ owner' = [owner EXCEPT ![p] = "reaper"]
            /\ ScheduleReap(p)
    /\ UNCHANGED <<state, stopped, m_reaperList, m_finished, timers, flushing, destructor>>

(* ~ProcessReaper locks s_instanceMutex; waitForFinished posts a flush and  *)
(* blocks until it has returned.                                            *)
WaitForFinished ==
    /\ destructor = "none"
    /\ destructor' = "flush"
    /\ events' = Append(events, BlockingFlushCall)
    /\ UNCHANGED <<owner, state, stopped, m_reaperSetupList, m_reaperList, m_finished,
                   timers, flushing>>

(* Then it waits, once, if there is a Reaper left.                          *)
WaitForReapers ==
    /\ destructor = "check"
    /\ destructor' = IF m_reaperList = {} THEN "quit" ELSE "waiting"
    /\ UNCHANGED <<owner, state, stopped, m_reaperSetupList, m_reaperList, m_finished,
                   timers, events, flushing>>

(* m_thread.quit(), m_thread.wait().                                        *)
QuitThread ==
    /\ destructor = "quit"
    /\ destructor' = "done"
    /\ UNCHANGED <<owner, state, stopped, m_reaperSetupList, m_reaperList, m_finished,
                   timers, events, flushing>>

------------------------------------------------------------------------------
(* The reaper thread.                                                       *)

InEventLoop == flushing = NotFlushing /\ destructor # "done"

(* emitFinished; the slot is queued to ProcessReaperPrivate.                *)
EmitFinished(p) ==
    /\ m_finished' = [m_finished EXCEPT ![p] = TRUE]
    /\ events' = IF m_finished[p] THEN events ELSE Append(events, FinishedCall(p))

(* ProcessReaperPrivate::flush is called.                                   *)
Flush ==
    /\ InEventLoop
    /\ events # <<>> /\ Head(events).type # "finished"
    /\ flushing' = [call |-> Head(events).type, todo |-> <<>>]
    /\ events' = Tail(events)
    /\ UNCHANGED <<owner, state, stopped, m_reaperSetupList, m_reaperList, m_finished,
                   timers, destructor>>

(* takeReaperSetupList; flush returns when there is nothing to take.        *)
TakeReaperSetupList ==
    /\ flushing.call # "none" /\ flushing.todo = <<>>
    /\ m_reaperSetupList' = <<>>
    /\ flushing' = IF m_reaperSetupList = <<>> THEN NotFlushing
                   ELSE [flushing EXCEPT !.todo = m_reaperSetupList]
    /\ destructor' = IF m_reaperSetupList = <<>> /\ flushing.call = "blockingFlush"
                     THEN "check" ELSE destructor
    /\ UNCHANGED <<owner, state, stopped, m_reaperList, m_finished, timers, events>>

(* ProcessReaperPrivate::reap, with Reaper::reap: the process may have      *)
(* ended meanwhile; otherwise it is asked to terminate.                     *)
StartReaper ==
    /\ flushing.todo # <<>>
    /\ LET p == Head(flushing.todo)
       IN  /\ m_reaperList' = m_reaperList \cup {p}
           /\ IF state[p] = "NotRunning"
              THEN EmitFinished(p) /\ UNCHANGED timers
              ELSE timers' = timers \cup {p} /\ UNCHANGED <<m_finished, events>>
    /\ flushing' = [flushing EXCEPT !.todo = Tail(@)]
    /\ UNCHANGED <<owner, state, stopped, m_reaperSetupList, destructor>>

(* The slot of Reaper::finished: both objects are deleted, the timer with   *)
(* its receiver, and the destructor is woken when this was the last one.    *)
HandleReaperFinished ==
    /\ InEventLoop
    /\ events # <<>> /\ Head(events).type = "finished"
    /\ LET p == Head(events).process
       IN  /\ m_reaperList' = m_reaperList \ {p}
           /\ owner' = [owner EXCEPT ![p] = "deleted"]
           /\ timers' = timers \ {p}
    /\ events' = Tail(events)
    /\ destructor' = IF m_reaperList' = {} /\ destructor = "waiting" THEN "quit" ELSE destructor
    /\ UNCHANGED <<state, stopped, m_reaperSetupList, m_finished, flushing>>

(* Faulty: a process that is not running is left to handleFinished.         *)
HandleTerminateTimeoutOnlyKills(p) ==
    /\ InEventLoop
    /\ p \in timers
    /\ timers' = timers \ {p}
    /\ stopped' = [stopped EXCEPT ![p] = @ \/ state[p] # "NotRunning"]
    /\ UNCHANGED <<owner, state, m_reaperSetupList, m_reaperList, m_finished, events,
                   flushing, destructor>>

(* handleTerminateTimeout: the process did not end in time, or nobody said  *)
(* that it did.                                                             *)
HandleTerminateTimeout(p) ==
    /\ InEventLoop
    /\ p \in timers
    /\ timers' = timers \ {p}
    /\ IF state[p] = "NotRunning"
       THEN EmitFinished(p) /\ UNCHANGED stopped
       ELSE stopped' = [stopped EXCEPT ![p] = TRUE] /\ UNCHANGED <<m_finished, events>>
    /\ UNCHANGED <<owner, state, m_reaperSetupList, m_reaperList, flushing, destructor>>

------------------------------------------------------------------------------
(* The processes, as their QProcess sees them in the thread that owns it.   *)

CanNotice(p) == owner[p] = "caller" \/ (owner[p] = "reaper" /\ InEventLoop)

(* External: QProcess has seen the child run.                               *)
ProcessStarted(p) ==
    /\ CanNotice(p) /\ state[p] = "Starting"
    /\ state' = [state EXCEPT ![p] = "Running"]
    /\ UNCHANGED <<owner, stopped, m_reaperSetupList, m_reaperList, m_finished, timers,
                   events, flushing, destructor>>

(* External: the child could not be started; QProcess then emits            *)
(* errorOccurred and no finished, see handleProcessError in                 *)
(* tools/processlauncher/launchersockethandler.cpp.  That QProcess notices  *)
(* it before the timer expires is an assumption: nothing tells the Reaper   *)
(* afterwards, and it waits for good.                                       *)
ProcessFailedToStart(p) ==
    /\ CanNotice(p) /\ state[p] = "Starting"
    /\ ~stopped[p]
    /\ state' = [state EXCEPT ![p] = "NotRunning"]
    /\ UNCHANGED <<owner, stopped, m_reaperSetupList, m_reaperList, m_finished, timers,
                   events, flushing, destructor>>

(* The child has ended; QProcess emits finished, which reaches              *)
(* handleFinished if a Reaper has connected to it.                          *)
HandleFinished(p) ==
    /\ CanNotice(p) /\ state[p] = "Running"
    /\ state' = [state EXCEPT ![p] = "NotRunning"]
    /\ IF p \in m_reaperList THEN EmitFinished(p) ELSE UNCHANGED <<m_finished, events>>
    /\ UNCHANGED <<owner, stopped, m_reaperSetupList, m_reaperList, timers, flushing, destructor>>

Next ==
    \/ \E p \in Process :
        \/ Reap(p) \/ HandleTerminateTimeout(p)
        \/ ProcessStarted(p) \/ ProcessFailedToStart(p) \/ HandleFinished(p)
    \/ WaitForFinished \/ WaitForReapers \/ QuitThread
    \/ Flush \/ TakeReaperSetupList \/ StartReaper \/ HandleReaperFinished

Spec == Init /\ [][Next]_vars

(* The thread runs, timers expire, a start comes to an end one way or the   *)
(* other, and a child does not survive being killed.  A child need not end  *)
(* when it is asked to terminate, and owners need not do anything.          *)
Fairness ==
    /\ \A p \in Process :
        /\ WF_vars(HandleTerminateTimeout(p))
        /\ WF_vars(owner[p] = "reaper" /\ (ProcessStarted(p) \/ ProcessFailedToStart(p)))
        /\ WF_vars(stopped[p] /\ HandleFinished(p))
    /\ WF_vars(WaitForReapers) /\ WF_vars(QuitThread)
    /\ WF_vars(Flush) /\ WF_vars(TakeReaperSetupList)
    /\ WF_vars(StartReaper) /\ WF_vars(HandleReaperFinished)

FairSpec == Spec /\ Fairness

------------------------------------------------------------------------------
(* A process is deleted once, by the one Reaper it has, and after it has    *)
(* ended: ~QProcess of a running process would kill it and block.  Three    *)
(* ways lead to emitFinished, and the slot is queued: until it runs another *)
(* of them may come.                                                        *)
DeletedOnceAfterTheEnd ==
    \A i \in DOMAIN events : events[i].type = "finished" =>
        /\ events[i].process \in m_reaperList
        /\ state[events[i].process] = "NotRunning"
        /\ \A j \in DOMAIN events : events[j] = events[i] => j = i

(* A process handed over is on its way: a flush is queued, or one is being  *)
(* executed, or the process has a Reaper.                                   *)
NothingForgotten ==
    \A p \in Process : owner[p] = "reaper" =>
        \/ p \in m_reaperList
        \/ \E i \in DOMAIN flushing.todo : flushing.todo[i] = p
        \/ /\ \E i \in DOMAIN m_reaperSetupList : m_reaperSetupList[i] = p
           /\ flushing.call # "none" \/ \E i \in DOMAIN events : events[i].type # "finished"

(* When the thread is told to quit, nothing is left for it to do.  The      *)
(* destructor waits only once, and only for m_reaperList; what is still in  *)
(* m_reaperSetupList it must have flushed before.                           *)
NothingLeftBehind ==
    destructor \in {"quit", "done"} =>
        /\ events = <<>> /\ flushing = NotFlushing
        /\ \A p \in Process : owner[p] # "reaper"

(* From its hand-over to its deletion every process is accounted for, once: *)
(* with its Reaper, or with a flush that will give it one; and it is        *)
(* neither deleted while it runs, nor twice, nor left when the thread ends. *)
Accounted == TypeOK /\ DeletedOnceAfterTheEnd /\ NothingForgotten /\ NothingLeftBehind

(* What the owners can tell of a process, and of the reaper.                *)
Status == [p \in Process |-> CASE owner[p] = "caller" -> "owned"
                               [] owner[p] = "reaper" -> "reaping"
                               [] OTHER -> "gone"]

Phase == CASE destructor = "none" -> "running"
           [] destructor = "done" -> "stopped"
           [] OTHER -> "stopping"

Promise == INSTANCE Reaping WITH status <- Status, phase <- Phase

(* The reaper keeps its promise, the liveness of it included: whatever a    *)
(* child does with the request to terminate, and however its start ends,    *)
(* its process is deleted, and the destructor returns after the last one.   *)
KeepsPromise == Promise!Spec
=============================================================================
