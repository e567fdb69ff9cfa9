---------------------------- MODULE RunControlProofs ----------------------------
(* Theorems about RunControl for any number of workers, any dependencies    *)
(* between them and any number of runs.                                     *)
(*                                                                          *)
(* The inductive invariant IInv says of each worker how far its state, its  *)
(* queued calls, its process and the pending timer of its process agree     *)
(* (Agree), as long as nobody has disturbed the RunControl by a forced stop *)
(* or an early re-run (Tame).  With it, the workers stop in the order of    *)
(* their dependencies as long as nobody has disturbed it at all.            *)
EXTENDS RunControl, TLAPS

Call == {"start", "stop"}
Idle == {"Initialized", "Done"}

Tame == disturbed \subseteq {"reRun"}

StartFirst(q) == \A i \in 1 .. Len(q) : q[i] = "start" => i = 1

NoStart(q) == \A i \in 1 .. Len(q) : q[i] # "start"

(* A worker in state s with queued calls q and a process or tool in state j *)
(* that has (rep) or has not reported its end, with a timer or without.     *)
Agree(s, q, j, timer, rep) ==
    /\ StartFirst(q)
    /\ NoStart(q) \/ (j = "NotRunning" /\ ~timer /\ s \notin Idle)
    /\ s \in Idle => j = "NotRunning"
    /\ s = "Initialized" => q = <<>> /\ ~timer
    /\ timer => rep

Settled == Tame => \A w \in Worker :
    Agree(workerState[w], calls[w], job[w], w \in lateDone, m_stopReported[w])

(* Workers that this RunControl does not have take no part.                 *)
Outside == \A w \in Worker \ m_workers :
    /\ workerState[w] = "Initialized" /\ job[w] = "NotRunning"
    /\ calls[w] = <<>> /\ w \notin lateDone

AllOver == state = "Stopped" /\ Tame => \A w \in m_workers : workerState[w] \in Idle

IInv == TypeOK /\ Settled /\ Outside /\ AllOver /\ AllUpWhenRunning /\ StartsAfterDependencies

(* What every step does that only takes workers down: from ws and cs each   *)
(* worker stays as it is, is told to stop, or is done before it started.    *)
DownOne(s, q, s2, q2) ==
    \/ s2 = s /\ q2 = q
    \/ s \notin Idle /\ s2 = "Stopping" /\ q2 = Append(q, "stop")
    \/ s = "Initialized" /\ s2 = "Done" /\ q2 = q

Down(ws, cs) ==
    /\ workerState' \in [Worker -> RunWorkerState]
    /\ calls' \in [Worker -> Seq(Call)]
    /\ state' \in RunControlState
    /\ \A w \in m_workers : DownOne(ws[w], cs[w], workerState'[w], calls'[w])
    /\ \A w \in Worker \ m_workers : workerState'[w] = ws[w] /\ calls'[w] = cs[w]
    /\ state' = "Running" => state = "Running"
    /\ state' = "Stopped" => state = "Stopped" \/ \A w \in m_workers : workerState'[w] \in Idle

------------------------------------------------------------------------------
(* Queues of calls.                                                         *)

LEMMA TailHasNoStart ==
    ASSUME NEW q \in Seq(Call), q # <<>>, StartFirst(q)
    PROVE  Tail(q) \in Seq(Call) /\ NoStart(Tail(q)) /\ StartFirst(Tail(q))
  BY DEF StartFirst, NoStart

LEMMA AppendStop ==
    ASSUME NEW q \in Seq(Call)
    PROVE  /\ Append(q, "stop") \in Seq(Call)
           /\ StartFirst(q) => StartFirst(Append(q, "stop"))
           /\ NoStart(q) => NoStart(Append(q, "stop"))
           /\ Append(q, "stop") # <<>>
  BY DEF StartFirst, NoStart, Call

LEMMA OneStart ==
    /\ Append(<<>>, "start") \in Seq(Call)
    /\ StartFirst(Append(<<>>, "start"))
  BY DEF StartFirst, Call

LEMMA NoCalls == <<>> \in Seq(Call) /\ StartFirst(<<>>) /\ NoStart(<<>>)
  BY DEF StartFirst, NoStart

------------------------------------------------------------------------------
(* The setups are as the assumption says.                                   *)
LEMMA SetupFacts ==
    ASSUME TypeOK
    PROVE  /\ m_workers \subseteq Worker
           /\ \A w \in m_workers : /\ startDependencies[w] \subseteq m_workers
                                   /\ stopDependencies[w] \subseteq m_workers
  BY ConstantsAssumption DEF TypeOK, Setup, m_workers, startDependencies, stopDependencies

LEMMA QueueStop ==
    ASSUME NEW cs \in [Worker -> Seq(Call)], NEW ws \in SUBSET Worker
    PROVE  /\ Queue(cs, ws, "stop") \in [Worker -> Seq(Call)]
           /\ \A w \in Worker : Queue(cs, ws, "stop")[w] =
                 IF w \in ws THEN Append(cs[w], "stop") ELSE cs[w]
  BY AppendStop DEF Queue

LEMMA StopIsDown ==
    ASSUME TypeOK,
           NEW ws \in [Worker -> RunWorkerState], NEW cs \in [Worker -> Seq(Call)],
           NEW s \in {"Stopping", "Finishing", state}, s # "Running",
           ContinueStopOrFinish(s, ws, cs)
    PROVE  Down(ws, cs)
  <1> DEFINE able == {w \in m_workers : CanStop(ws, w)}
  <1>1. m_workers \subseteq Worker
    BY SetupFacts
  <1>2. /\ workerState' = [w \in Worker |->
               IF w \in able THEN "Stopping"
               ELSE IF w \in m_workers /\ ws[w] = "Initialized" THEN "Done" ELSE ws[w]]
        /\ calls' = Queue(cs, able, "stop")
        /\ state' = IF \E w \in m_workers : ws[w] \notin {"Initialized", "Done"}
                     THEN s
                     ELSE IF s = "Finishing" THEN "Finished" ELSE "Stopped"
    BY DEF ContinueStopOrFinish
  <1>3. /\ calls' \in [Worker -> Seq(Call)]
        /\ \A w \in Worker : calls'[w] = IF w \in able THEN Append(cs[w], "stop") ELSE cs[w]
    <2>1. able \in SUBSET Worker
      BY <1>1
    <2>2. calls' = Queue(cs, able, "stop")
      BY <1>2
    <2> HIDE DEF able
    <2> QED
      BY <2>1, <2>2, QueueStop
  <1>4. workerState' \in [Worker -> RunWorkerState]
    BY <1>2 DEF RunWorkerState
  <1>5. state' \in RunControlState
    BY <1>2 DEF TypeOK, RunControlState
  <1>6. \A w \in able : ws[w] \notin Idle
    BY DEF CanStop, Idle
  <1>7. \A w \in m_workers : DownOne(ws[w], cs[w], workerState'[w], calls'[w])
    BY <1>1, <1>2, <1>3, <1>6 DEF DownOne
  <1>8. \A w \in Worker \ m_workers : workerState'[w] = ws[w] /\ calls'[w] = cs[w]
    BY <1>2, <1>3
  <1>9. state' = "Running" => state = "Running"
    BY <1>2
  <1>10. state' = "Stopped" => state = "Stopped" \/ \A w \in m_workers : workerState'[w] \in Idle
    BY <1>1, <1>2, <1>6 DEF Idle
  <1> QED
    BY <1>3, <1>4, <1>5, <1>7, <1>8, <1>9, <1>10 DEF Down

LEMMA FailedIsDown ==
    ASSUME TypeOK, NEW w \in Worker, NEW cs \in [Worker -> Seq(Call)], OnWorkerFailed(w, cs)
    PROVE  Down([workerState EXCEPT ![w] = "Done"], cs)
  <1> DEFINE ws == [workerState EXCEPT ![w] = "Done"]
  <1>1. ws \in [Worker -> RunWorkerState]
    BY DEF TypeOK, RunWorkerState
  <1>2. CASE state \in {"Starting", "Running"}
    <2>1. ContinueStopOrFinish("Stopping", ws, cs)
      BY <1>2 DEF OnWorkerFailed, InitiateStop
    <2> QED
      BY <1>1, <2>1, StopIsDown
  <1>3. CASE state \notin {"Starting", "Running"}
    <2>1. ContinueStopOrFinish(state, ws, cs)
      BY <1>3 DEF OnWorkerFailed
    <2> QED
      BY <1>1, <1>3, <2>1, StopIsDown
  <1> QED
    BY <1>2, <1>3

LEMMA StoppedIsDown ==
    ASSUME TypeOK, NEW w \in m_workers, NEW cs \in [Worker -> Seq(Call)], OnWorkerStopped(w, cs)
    PROVE  Down([workerState EXCEPT ![w] = "Done"], cs)
  <1> DEFINE ws == [workerState EXCEPT ![w] = "Done"]
  <1>1. ws \in [Worker -> RunWorkerState]
    BY DEF TypeOK, RunWorkerState
  <1>2. m_workers \subseteq Worker /\ stopDependencies[w] \subseteq m_workers
    BY SetupFacts
  <1>3. CASE workerState[w] = "Done"
    BY <1>1, <1>2, <1>3 DEF OnWorkerStopped, Down, DownOne, TypeOK
  <1>4. CASE workerState[w] # "Done" /\ state \in {"Finishing", "Stopping"}
    <2>1. ContinueStopOrFinish(state, ws, cs)
      BY <1>4 DEF OnWorkerStopped
    <2> QED
      BY <1>1, <1>4, <2>1, StopIsDown
  <1>5. CASE /\ workerState[w] # "Done" /\ state \notin {"Finishing", "Stopping"}
             /\ w \in setup.essential
    <2>1. ContinueStopOrFinish("Stopping", ws, cs)
      BY <1>5 DEF OnWorkerStopped, InitiateStop
    <2> QED
      BY <1>1, <2>1, StopIsDown
  <1>6. CASE /\ workerState[w] # "Done" /\ state \notin {"Finishing", "Stopping"}
             /\ w \notin setup.essential
    <2> DEFINE kill == {d \in stopDependencies[w] : ws[d] \notin {"Done", "Initialized"}}
    <2>1. StopDependents(w, ws, cs)
      BY <1>6 DEF OnWorkerStopped
    <2>2. /\ workerState' = [d \in Worker |->
                 IF d \in kill THEN "Stopping"
                 ELSE IF d \in stopDependencies[w] THEN "Done" ELSE ws[d]]
          /\ calls' = Queue(cs, kill, "stop")
      BY <2>1 DEF StopDependents
    <2>3. state' = IF \A v \in m_workers : workerState'[v] \in {"Initialized", "Done"}
                   THEN "Stopped" ELSE state
      BY <2>1, <2>2 DEF StopDependents
    <2>4. /\ calls' \in [Worker -> Seq(Call)]
          /\ \A d \in Worker : calls'[d] = IF d \in kill THEN Append(cs[d], "stop") ELSE cs[d]
      <3>1. kill \in SUBSET Worker /\ calls' = Queue(cs, kill, "stop")
        BY <1>2, <2>2
      <3> HIDE DEF kill
      <3> QED
        BY <3>1, QueueStop
    <2>5. workerState' \in [Worker -> RunWorkerState]
      BY <1>1, <2>2 DEF RunWorkerState
    <2>6. \A d \in m_workers : DownOne(ws[d], cs[d], workerState'[d], calls'[d])
      BY <1>2, <2>2, <2>4 DEF DownOne, Idle
    <2>7. \A d \in Worker \ m_workers : workerState'[d] = ws[d] /\ calls'[d] = cs[d]
      BY <1>2, <2>2, <2>4
    <2> QED
      BY <2>3, <2>4, <2>5, <2>6, <2>7 DEF Down, Idle, TypeOK, RunControlState
  <1> QED
    BY <1>3, <1>4, <1>5, <1>6

(* ContinueStart: nothing more can start now, or one more worker is told to.*)
Up(ws, cs) ==
    \/ /\ workerState' = ws /\ calls' = cs
       /\ state' \in {"Starting", "Running"}
       /\ state' = "Running" => \A w \in m_workers : ws[w] \notin {"Initialized", "Starting"}
    \/ \E w \in m_workers :
          /\ ws[w] = "Initialized"
          /\ \A d \in startDependencies[w] : ws[d] \in {"Running", "Done"}
          /\ workerState' = [ws EXCEPT ![w] = "Starting"]
          /\ calls' = [cs EXCEPT ![w] = Append(@, "start")]
          /\ state' = "Starting"

LEMMA StartIsUp ==
    ASSUME TypeOK,
           NEW ws \in [Worker -> RunWorkerState], NEW cs \in [Worker -> Seq(Call)],
           ContinueStart(ws, cs)
    PROVE  Up(ws, cs)
  <1> DEFINE able == {w \in m_workers : CanStart(ws, w)}
  <1>1. CASE able = {}
    BY <1>1 DEF ContinueStart, Up
  <1>2. CASE able # {}
    <2>1. PICK w \in able : /\ workerState' = [ws EXCEPT ![w] = "Starting"]
                            /\ calls' = Queue(cs, {w}, "start")
                            /\ state' = "Starting"
      BY <1>2 DEF ContinueStart
    <2>2. w \in Worker
      BY SetupFacts
    <2>3. calls' = [cs EXCEPT ![w] = Append(@, "start")]
      BY <2>1, <2>2 DEF Queue
    <2>4. ws[w] = "Initialized" /\ \A d \in startDependencies[w] : ws[d] \in {"Running", "Done"}
      BY DEF CanStart
    <2>5. w \in m_workers
      OBVIOUS
    <2> HIDE DEF able
    <2> QED
      BY <2>1, <2>3, <2>4, <2>5 DEF Up
  <1> QED
    BY <1>1, <1>2

------------------------------------------------------------------------------
(* The invariant, but for the types, over steps that take workers down: ws  *)
(* and cs are what RunControl's operator starts from.                       *)
Order == Settled /\ Outside /\ AllOver /\ AllUpWhenRunning /\ StartsAfterDependencies

(* What the step does to the processes and their timers.                    *)
Fits(ws, cs) ==
    /\ Tame' => \A w \in Worker :
          Agree(ws[w], cs[w], job'[w], w \in lateDone', m_stopReported'[w])
    /\ \A w \in Worker \ m_workers :
          /\ ws[w] = "Initialized" /\ cs[w] = <<>>
          /\ job'[w] = "NotRunning" /\ w \notin lateDone'

(* What a worker has just reported is in ws.                                *)
Reported(ws) == \A w \in m_workers :
    \/ ws[w] = workerState[w] \/ ws[w] = "Done"
    \/ ws[w] = "Running" /\ (Tame => workerState[w] \notin Idle)

LEMMA NothingReported == Reported(workerState)
  BY DEF Reported

LEMMA DownKeeps ==
    ASSUME IInv, setup' = setup, disturbed' = disturbed,
           m_stopReported' \in [Worker -> BOOLEAN],
           NEW ws \in [Worker -> RunWorkerState], NEW cs \in [Worker -> Seq(Call)],
           Reported(ws),
           Down(ws, cs), Fits(ws, cs)
    PROVE  Order'
  <1>1. m_workers' = m_workers /\ m_workers \subseteq Worker
    BY SetupFacts DEF m_workers, IInv
  <1>2. /\ \A w \in m_workers : DownOne(ws[w], cs[w], workerState'[w], calls'[w])
        /\ \A w \in Worker \ m_workers : workerState'[w] = ws[w] /\ calls'[w] = cs[w]
    BY DEF Down
  <1>3. Settled'
    <2> SUFFICES ASSUME Tame', NEW w \in Worker
                 PROVE  Agree(workerState'[w], calls'[w], job'[w], w \in lateDone', m_stopReported'[w])
      BY DEF Settled
    <2>1. Agree(ws[w], cs[w], job'[w], w \in lateDone', m_stopReported'[w])
      BY DEF Fits, Tame
    <2>2. CASE w \in m_workers
      <3>1. cs[w] \in Seq(Call)
        OBVIOUS
      <3> QED
        BY <1>2, <2>1, <2>2, <3>1, AppendStop DEF Agree, DownOne, Idle
    <2>3. CASE w \notin m_workers
      BY <1>2, <2>1, <2>3
    <2> QED
      BY <2>2, <2>3
  <1>4. Outside'
    BY <1>1, <1>2 DEF Outside, Fits
  <1>5. AllOver'
    <2> SUFFICES ASSUME state' = "Stopped", Tame, NEW w \in m_workers
                 PROVE  workerState'[w] \in Idle
      BY <1>1 DEF AllOver, Tame
    <2>1. CASE state = "Stopped"
      <3>1. ws[w] \in Idle
        BY <2>1 DEF IInv, AllOver, Idle, Reported
      <3> QED
        BY <1>2, <3>1 DEF DownOne, Idle
    <2>2. CASE state # "Stopped"
      BY <2>2 DEF Down
    <2> QED
      BY <2>1, <2>2
  <1>6. AllUpWhenRunning'
    <2> SUFFICES ASSUME state' = "Running", NEW w \in m_workers
                 PROVE  workerState'[w] \notin {"Initialized", "Starting"}
      BY <1>1 DEF AllUpWhenRunning
    <2>1. workerState[w] \notin {"Initialized", "Starting"}
      BY DEF Down, IInv, AllUpWhenRunning
    <2> QED
      BY <1>2, <2>1 DEF DownOne, Reported
  <1>7. StartsAfterDependencies'
    <2> SUFFICES ASSUME disturbed = {}, NEW w \in m_workers, workerState'[w] = "Starting",
                        NEW d \in startDependencies[w]
                 PROVE  workerState'[d] \notin {"Initialized", "Starting"}
      BY <1>1 DEF StartsAfterDependencies, startDependencies
    <2>1. d \in m_workers
      BY SetupFacts DEF IInv
    <2>2. workerState[w] = "Starting"
      BY <1>2 DEF DownOne, Reported
    <2>3. workerState[d] \notin {"Initialized", "Starting"}
      BY <2>2 DEF IInv, StartsAfterDependencies
    <2> QED
      BY <1>2, <2>1, <2>3 DEF DownOne, Reported
  <1> QED
    BY <1>3, <1>4, <1>5, <1>6, <1>7 DEF Order

(* The same where a worker may be told to start.  A worker that starts and  *)
(* one that it waits for are not set back.                                  *)
LEMMA UpKeeps ==
    ASSUME IInv, setup' = setup, Tame' => Tame,
           m_stopReported' \in [Worker -> BOOLEAN],
           NEW ws \in [Worker -> RunWorkerState], NEW cs \in [Worker -> Seq(Call)],
           Up(ws, cs), Fits(ws, cs),
           disturbed' = {} => \A w \in m_workers : ws[w] = "Starting" =>
               \A d \in startDependencies[w] : ws[d] \notin {"Initialized", "Starting"}
    PROVE  Order' /\ workerState' \in [Worker -> RunWorkerState]
                  /\ calls' \in [Worker -> Seq(Call)] /\ state' \in RunControlState
  <1>1. m_workers' = m_workers /\ m_workers \subseteq Worker
    BY SetupFacts DEF m_workers, IInv
  <1>2. CASE /\ workerState' = ws /\ calls' = cs
             /\ state' \in {"Starting", "Running"}
             /\ state' = "Running" => \A w \in m_workers : ws[w] \notin {"Initialized", "Starting"}
    <2>1. Settled' /\ Outside'
      BY <1>1, <1>2 DEF Settled, Outside, Fits
    <2>2. AllOver' /\ AllUpWhenRunning'
      BY <1>1, <1>2 DEF AllOver, AllUpWhenRunning
    <2>3. StartsAfterDependencies'
      BY <1>1, <1>2 DEF StartsAfterDependencies, startDependencies
    <2> QED
      BY <1>2, <2>1, <2>2, <2>3 DEF Order, RunControlState
  <1>3. ASSUME NEW w \in m_workers, ws[w] = "Initialized",
               \A d \in startDependencies[w] : ws[d] \in {"Running", "Done"},
               workerState' = [ws EXCEPT ![w] = "Starting"],
               calls' = [cs EXCEPT ![w] = Append(@, "start")],
               state' = "Starting"
        PROVE  Order' /\ workerState' \in [Worker -> RunWorkerState]
                      /\ calls' \in [Worker -> Seq(Call)] /\ state' \in RunControlState
    <2>1. workerState' \in [Worker -> RunWorkerState]
      BY <1>3 DEF RunWorkerState
    <2>2. calls' \in [Worker -> Seq(Call)]
      <3>1. w \in Worker /\ Append(cs[w], "start") \in Seq(Call)
        BY <1>1 DEF Call
      <3> QED
        BY <1>3, <3>1
    <2>3. Settled'
      <3> SUFFICES ASSUME Tame', NEW v \in Worker
                   PROVE  Agree(workerState'[v], calls'[v], job'[v], v \in lateDone',
                                m_stopReported'[v])
        BY DEF Settled
      <3>1. Agree(ws[v], cs[v], job'[v], v \in lateDone', m_stopReported'[v])
        BY DEF Fits
      <3>2. CASE v = w
        <4>1. cs[v] = <<>> /\ calls'[v] = Append(<<>>, "start") /\ workerState'[v] = "Starting"
          BY <1>1, <1>3, <3>1, <3>2 DEF Agree
        <4> QED
          BY <1>3, <3>1, <3>2, <4>1, OneStart DEF Agree, Idle
      <3>3. CASE v # w
        BY <1>3, <3>1, <3>3
      <3> QED
        BY <3>2, <3>3
    <2>4. Outside'
      BY <1>1, <1>3 DEF Outside, Fits
    <2>5. AllOver' /\ AllUpWhenRunning'
      BY <1>3 DEF AllOver, AllUpWhenRunning
    <2>6. StartsAfterDependencies'
      <3> SUFFICES ASSUME disturbed' = {}, NEW v \in m_workers, workerState'[v] = "Starting",
                          NEW d \in startDependencies[v]
                   PROVE  workerState'[d] \notin {"Initialized", "Starting"}
        BY <1>1 DEF StartsAfterDependencies, startDependencies
      <3>1. d \in m_workers
        BY SetupFacts DEF IInv
      <3>2. ws[d] \notin {"Initialized", "Starting"}
        BY <1>1, <1>3
      <3> QED
        BY <1>1, <1>3, <3>1, <3>2
    <2> QED
      BY <1>3, <2>1, <2>2, <2>3, <2>4, <2>5, <2>6 DEF Order, RunControlState
  <1> QED
    BY <1>2, <1>3 DEF Up

------------------------------------------------------------------------------
(* The steps.                                                               *)

LEMMA InitIsIn == Init => IInv
  <1> SUFFICES ASSUME Init PROVE IInv
    OBVIOUS
  <1>1. calls \in [Worker -> Seq({"start", "stop"})]
    BY NoCalls DEF Init, Call
  <1>2. TypeOK
    <2>1. reRuns \in 0 .. MaxReRuns
      BY ConstantsAssumption DEF Init
    <2>2. buttons \in [stop : BOOLEAN, reRun : BOOLEAN]
      BY DEF Init
    <2> QED
      BY <1>1, <2>1, <2>2 DEF Init, TypeOK, RunControlState, RunWorkerState
  <1>3. Settled
    <2> SUFFICES ASSUME NEW w \in Worker
                 PROVE  Agree(workerState[w], calls[w], job[w], w \in lateDone,
                              m_stopReported[w])
      BY DEF Settled
    <2> QED
      BY NoCalls DEF Init, Agree
  <1> QED
    BY <1>2, <1>3, SetupFacts
    DEF Init, IInv, Outside, AllOver, AllUpWhenRunning, StartsAfterDependencies, m_workers

LEMMA TypedCalls ==
    ASSUME TypeOK
    PROVE  calls \in [Worker -> Seq(Call)] /\ workerState \in [Worker -> RunWorkerState]
  BY DEF TypeOK, Call

(* IInv' from its parts.                                                    *)
LEMMA Together == TypeOK' /\ Order' => IInv'
  BY DEF Order, IInv

LEMMA SameFits ==
    ASSUME IInv, UNCHANGED jobs, Tame' => Tame
    PROVE  Fits(workerState, calls)
  BY DEF IInv, jobs, Fits, Settled, Outside

LEMMA ButtonsTyped ==
    ASSUME NEW s, NEW ws
    PROVE  Buttons(s, ws) \in [stop : BOOLEAN, reRun : BOOLEAN]
  BY DEF Buttons

(* The state of the RunControl after Signals has its type.                  *)
LEMMA SignalsTyped ==
    ASSUME TypeOK, Signals
    PROVE  /\ buttons' \in [stop : BOOLEAN, reRun : BOOLEAN]
           /\ refresh' \in BOOLEAN /\ prompt' \in BOOLEAN /\ tab' \in BOOLEAN
           /\ deleteLater' \in BOOLEAN
  BY ButtonsTyped DEF TypeOK, Signals

LEMMA StartKeeps == ASSUME IInv, Start PROVE IInv'
  <1>1. Up(workerState, calls)
    BY StartIsUp, TypedCalls DEF Start, IInv
  <1>2. Fits(workerState, calls)
    BY SameFits DEF Start, history, Tame
  <1>3. Order' /\ workerState' \in [Worker -> RunWorkerState]
               /\ calls' \in [Worker -> Seq(Call)] /\ state' \in RunControlState
    BY <1>1, <1>2, UpKeeps, TypedCalls
       DEF Start, history, jobs, Tame, IInv, TypeOK, StartsAfterDependencies
  <1>4. TypeOK'
    BY <1>3, SignalsTyped DEF Start, TypeOK, IInv, jobs, history, Call
  <1> QED
    BY <1>3, <1>4, Together

LEMMA ReRunKeeps == ASSUME IInv, ReRun PROVE IInv'
  <1> DEFINE ws == [w \in Worker |-> IF w \in m_workers /\ workerState[w] = "Done"
                                     THEN "Initialized" ELSE workerState[w]]
  <1>1. ws \in [Worker -> RunWorkerState]
    BY TypedCalls DEF RunWorkerState, IInv
  <1>2. Up(ws, calls)
    BY <1>1, StartIsUp, TypedCalls DEF ReRun, IInv
  <1>3. \A w \in Worker : calls[w] = <<>>
    BY DEF ReRun, UserActs, NothingQueued
  <1>4. Tame' => Tame /\ lateDone = {}
    BY DEF ReRun, Tame
  <1>5. m_workers \subseteq Worker
    BY SetupFacts DEF IInv
  <1>6. Tame' => \A w \in Worker :
           Agree(ws[w], calls[w], job[w], w \in lateDone, m_stopReported[w])
    BY <1>3, <1>4, NoCalls DEF IInv, Settled, Agree, Idle
  <1>7. UNCHANGED jobs /\ setup' = setup
    BY DEF ReRun, jobs
  <1>8. Order' /\ workerState' \in [Worker -> RunWorkerState]
               /\ calls' \in [Worker -> Seq(Call)] /\ state' \in RunControlState
    <2>1. Fits(ws, calls)
      BY <1>5, <1>6, <1>7 DEF Fits, jobs, IInv, Outside
    <2>2. disturbed' = {} => \A w \in m_workers : ws[w] # "Starting"
      BY <1>5 DEF ReRun, IInv, AllOver, Tame, Idle
    <2> HIDE DEF ws
    <2>3. m_stopReported' \in [Worker -> BOOLEAN]
      BY <1>7 DEF jobs, IInv, TypeOK
    <2> QED
      BY <1>1, <1>2, <1>4, <1>7, <2>1, <2>2, <2>3, UpKeeps, TypedCalls DEF IInv
  <1>9. TypeOK'
    <2>1. buttons' \in [stop : BOOLEAN, reRun : BOOLEAN]
      BY ButtonsTyped DEF ReRun
    <2>2. reRuns' \in 0 .. MaxReRuns
      BY ConstantsAssumption DEF ReRun, IInv, TypeOK
    <2>3. disturbed' \in SUBSET {"reRun", "earlyReRun", "forceStop"}
      BY DEF ReRun, IInv, TypeOK
    <2> HIDE DEF ws
    <2> QED
      BY <1>7, <1>8, <2>1, <2>2, <2>3 DEF ReRun, TypeOK, IInv, jobs, Call
  <1> QED
    BY <1>8, <1>9, Together

(* Taking workers down leaves the invariant, when the step fits.            *)
LEMMA DownStep ==
    ASSUME IInv, setup' = setup, UNCHANGED history,
           NEW ws \in [Worker -> RunWorkerState], NEW cs \in [Worker -> Seq(Call)],
           Reported(ws),
           Down(ws, cs), Fits(ws, cs), Signals, finishQueued' \in BOOLEAN,
           job' \in [Worker -> {"NotRunning", "Starting", "Running", "Stopping"}],
           m_stopReported' \in [Worker -> BOOLEAN], lateDone' \in SUBSET Worker
    PROVE  IInv'
  <1>1. Order'
    BY DownKeeps DEF history
  <1>2. TypeOK'
    BY SignalsTyped DEF TypeOK, IInv, history, Down, Call
  <1> QED
    BY <1>1, <1>2, Together

LEMMA StopKeeps ==
    ASSUME IInv, StopElsewhere \/ InitiateFinish
    PROVE  IInv'
  <1>1. Down(workerState, calls)
    BY StopIsDown, TypedCalls DEF StopElsewhere, InitiateFinish, InitiateStop, IInv
  <1>2. Fits(workerState, calls)
    BY SameFits DEF StopElsewhere, InitiateFinish, history, Tame
  <1> QED
    BY <1>1, <1>2, DownStep, NothingReported, TypedCalls
       DEF StopElsewhere, InitiateFinish, jobs, IInv, TypeOK

LEMMA AnswerKeeps == ASSUME IInv, AnswerPrompt PROVE IInv'
  <1>1. Down(workerState, calls)
    <2>1. CASE UNCHANGED control
      BY <2>1, TypedCalls DEF control, Down, DownOne, IInv, TypeOK
    <2>2. CASE InitiateStop(workerState, calls)
      BY <2>2, StopIsDown, TypedCalls DEF InitiateStop, IInv
    <2> QED
      BY <2>1, <2>2 DEF AnswerPrompt
  <1>2. Fits(workerState, calls)
    BY SameFits DEF AnswerPrompt, history, Tame
  <1>3. Order'
    BY <1>1, <1>2, DownKeeps, NothingReported, TypedCalls DEF AnswerPrompt, history, jobs, IInv, TypeOK
  <1>4. buttons' \in [stop : BOOLEAN, reRun : BOOLEAN] /\ refresh' \in BOOLEAN
    <2>1. buttons' \in [stop : BOOLEAN, reRun : BOOLEAN]
      BY ButtonsTyped DEF AnswerPrompt, IInv, TypeOK
    <2>2. refresh' \in BOOLEAN
      BY DEF AnswerPrompt, IInv, TypeOK
    <2> QED
      BY <2>1, <2>2
  <1>5. TypeOK'
    BY <1>1, <1>4 DEF AnswerPrompt, history, jobs, IInv, TypeOK, Down, Call
  <1> QED
    BY <1>3, <1>5, Together

LEMMA ForceStopKeeps == ASSUME IInv, StopClicked PROVE IInv'
  <1>1. m_workers' = m_workers /\ m_workers \subseteq Worker
    BY SetupFacts DEF StopClicked, m_workers, IInv
  <1>2. CASE state = "Running"
    BY <1>2, <1>1 DEF StopClicked, control, jobs, IInv, TypeOK, Settled, Tame, Outside, AllOver,
                      AllUpWhenRunning, StartsAfterDependencies, startDependencies
  <1>3. CASE state # "Running"
    <2>1. ~Tame'
      BY <1>3 DEF StopClicked, Tame
    <2>2. Settled' /\ AllOver' /\ AllUpWhenRunning' /\ StartsAfterDependencies'
      BY <1>3, <2>1 DEF StopClicked, Settled, AllOver, AllUpWhenRunning,
                        StartsAfterDependencies, Tame
    <2>3. Outside'
      BY <1>1, <1>3 DEF StopClicked, Outside, IInv, jobs
    <2>4. TypeOK'
      BY <1>3 DEF StopClicked, TypeOK, IInv, jobs, RunControlState, RunWorkerState
    <2> QED
      BY <2>2, <2>3, <2>4 DEF IInv
  <1> QED
    BY <1>2, <1>3

LEMMA PaneKeeps ==
    ASSUME IInv, CloseTab \/ TabChanged \/ RunControlFinished \/ UNCHANGED vars
    PROVE  IInv'
  <1>1. UNCHANGED <<setup, control, jobs, history>>
    BY DEF CloseTab, TabChanged, RunControlFinished, vars, control, jobs, history
  <1>2. Order'
    BY <1>1 DEF control, jobs, history, IInv, Order, Settled, Tame, Outside, AllOver,
                AllUpWhenRunning, StartsAfterDependencies, startDependencies, m_workers
  <1>3. buttons' \in [stop : BOOLEAN, reRun : BOOLEAN]
    BY ButtonsTyped DEF CloseTab, TabChanged, RunControlFinished, vars, IInv, TypeOK
  <1>4. TypeOK'
    BY <1>1, <1>3 DEF CloseTab, TabChanged, RunControlFinished, vars, control, jobs, history,
                      IInv, TypeOK
  <1> QED
    BY <1>2, <1>4, Together

LEMMA DeleteKeeps == ASSUME IInv, Delete PROVE IInv'
  <1>1. m_workers' = m_workers
    BY DEF Delete, m_workers
  <1>2. calls' \in [Worker -> Seq({"start", "stop"})]
    BY NoCalls DEF Delete, Call
  <1>3. TypeOK'
    BY <1>2 DEF Delete, TypeOK, IInv, pane, history, RunControlState
  <1>4. Settled'
    <2> SUFFICES ASSUME Tame', NEW w \in Worker
                 PROVE  Agree(workerState'[w], calls'[w], job'[w], w \in lateDone',
                              m_stopReported'[w])
      BY DEF Settled
    <2> QED
      BY NoCalls DEF Delete, Agree
  <1>5. Outside' /\ AllOver' /\ AllUpWhenRunning' /\ StartsAfterDependencies'
    BY <1>1 DEF Delete, IInv, Outside, AllOver, AllUpWhenRunning, StartsAfterDependencies,
                startDependencies, history
  <1> QED
    BY <1>3, <1>4, <1>5 DEF IInv

------------------------------------------------------------------------------
(* The steps of one worker w.                                               *)

(* A worker that is not idle is one of this RunControl.                     *)
LEMMA InUse ==
    ASSUME IInv, NEW w \in Worker,
           job[w] # "NotRunning" \/ calls[w] # <<>> \/ w \in lateDone
    PROVE  w \in m_workers
  BY DEF IInv, Outside

(* What a step of w leaves to the others.                                   *)
OnlyTouches(w) ==
    /\ \A v \in Worker \ {w} : /\ job'[v] = job[v]
                                /\ m_stopReported'[v] = m_stopReported[v]
    /\ lateDone' \ {w} = lateDone \ {w}
    /\ job' \in [Worker -> {"NotRunning", "Starting", "Running", "Stopping"}]
    /\ m_stopReported' \in [Worker -> BOOLEAN]
    /\ lateDone' \in SUBSET Worker

LEMMA OneFits ==
    ASSUME IInv, NEW w \in m_workers, OnlyTouches(w), disturbed' = disturbed,
           NEW ws \in [Worker -> RunWorkerState], NEW cs \in [Worker -> Seq(Call)],
           \A v \in Worker \ {w} : ws[v] = workerState[v] /\ cs[v] = calls[v],
           Tame => Agree(ws[w], cs[w], job'[w], w \in lateDone', m_stopReported'[w])
    PROVE  Fits(ws, cs)
  <1>1. ASSUME Tame', NEW v \in Worker
        PROVE  Agree(ws[v], cs[v], job'[v], v \in lateDone', m_stopReported'[v])
    <2>1. Tame
      BY <1>1 DEF Tame
    <2>2. CASE v = w
      BY <2>1, <2>2
    <2>3. CASE v # w
      <3>1. Agree(workerState[v], calls[v], job[v], v \in lateDone, m_stopReported[v])
        BY <2>1 DEF IInv, Settled
      <3>2. /\ ws[v] = workerState[v] /\ cs[v] = calls[v]
            /\ job'[v] = job[v] /\ m_stopReported'[v] = m_stopReported[v]
        BY <1>1, <2>3 DEF OnlyTouches
      <3>3. v \in lateDone' <=> v \in lateDone
        BY <2>3 DEF OnlyTouches
      <3> QED
        BY <3>1, <3>2, <3>3 DEF Agree
    <2> QED
      BY <2>2, <2>3
  <1>2. ASSUME NEW v \in Worker \ m_workers
        PROVE  /\ ws[v] = "Initialized" /\ cs[v] = <<>>
               /\ job'[v] = "NotRunning" /\ v \notin lateDone'
    <2>1. /\ ws[v] = workerState[v] /\ cs[v] = calls[v] /\ job'[v] = job[v]
      BY DEF OnlyTouches
    <2>2. /\ workerState[v] = "Initialized" /\ job[v] = "NotRunning"
          /\ calls[v] = <<>> /\ v \notin lateDone
      BY DEF IInv, Outside
    <2> QED
      BY <2>1, <2>2 DEF OnlyTouches
  <1> QED
    BY <1>1, <1>2 DEF Fits

(* What w has queued and what it has told RunControl, one by one.           *)
LEMMA WorkerFacts ==
    ASSUME IInv, NEW w \in Worker
    PROVE  /\ calls[w] \in Seq(Call)
           /\ Tame => Agree(workerState[w], calls[w], job[w], w \in lateDone, m_stopReported[w])
  BY TypedCalls DEF IInv, Settled

LEMMA PoppedFacts ==
    ASSUME IInv, NEW w \in Worker, calls[w] # <<>>
    PROVE  /\ Popped(w) \in [Worker -> Seq(Call)]
           /\ \A v \in Worker \ {w} : Popped(w)[v] = calls[v]
           /\ Popped(w)[w] = Tail(calls[w])
           /\ Tame => NoStart(Tail(calls[w])) /\ StartFirst(Tail(calls[w]))
  <1>1. calls \in [Worker -> Seq(Call)]
    BY TypedCalls DEF IInv
  <1>2. Tail(calls[w]) \in Seq(Call)
    BY <1>1
  <1>3. Tame => StartFirst(calls[w])
    BY WorkerFacts DEF Agree
  <1> QED
    BY <1>1, <1>2, <1>3, TailHasNoStart DEF Popped

(* RunControl's operators for the report of w, from the calls cs.           *)
LEMMA ReportStep ==
    ASSUME IInv, NEW w \in m_workers, NEW cs \in {calls, Popped(w)},
           cs \in [Worker -> Seq(Call)], \A v \in Worker \ {w} : cs[v] = calls[v],
           OnWorkerFailed(w, cs) \/ OnWorkerStopped(w, cs),
           OnlyTouches(w), setup' = setup, UNCHANGED history, Signals,
           finishQueued' = finishQueued,
           Tame => Agree("Done", cs[w], job'[w], w \in lateDone', m_stopReported'[w])
    PROVE  IInv'
  <1> DEFINE ws == [workerState EXCEPT ![w] = "Done"]
  <1>1. w \in Worker /\ m_workers \subseteq Worker
    BY SetupFacts DEF IInv
  <1>2. ws \in [Worker -> RunWorkerState]
    BY TypedCalls DEF IInv, RunWorkerState
  <1>3. Down(ws, cs)
    BY <1>1, FailedIsDown, StoppedIsDown DEF IInv
  <1>4. /\ ws[w] = "Done" /\ \A v \in Worker \ {w} : ws[v] = workerState[v]
        /\ Reported(ws)
    BY <1>1, TypedCalls DEF IInv, Reported
  <1> HIDE DEF ws
  <1>5. Fits(ws, cs)
    BY <1>2, <1>4, OneFits DEF history
  <1>6. finishQueued' \in BOOLEAN
    BY DEF IInv, TypeOK
  <1> QED
    BY <1>2, <1>3, <1>4, <1>5, <1>6, DownStep DEF OnlyTouches

(* The same where RunControl is told nothing.                               *)
LEMMA SilentStep ==
    ASSUME IInv, NEW w \in m_workers,
           NEW cs \in [Worker -> Seq(Call)], \A v \in Worker \ {w} : cs[v] = calls[v],
           calls' = cs, UNCHANGED <<state, workerState>>,
           OnlyTouches(w), setup' = setup, UNCHANGED history, Signals,
           finishQueued' = finishQueued,
           Tame => Agree(workerState[w], cs[w], job'[w], w \in lateDone', m_stopReported'[w])
    PROVE  IInv'
  <1>1. Down(workerState, cs)
    BY TypedCalls, SetupFacts DEF Down, DownOne, IInv, TypeOK
  <1>2. Fits(workerState, cs)
    BY OneFits, TypedCalls DEF history, IInv
  <1>3. finishQueued' \in BOOLEAN
    BY DEF IInv, TypeOK
  <1> QED
    BY <1>1, <1>2, <1>3, DownStep, NothingReported, TypedCalls DEF OnlyTouches, IInv

LEMMA InitiateStartKeeps == ASSUME IInv, NEW w \in Worker, WorkerInitiateStart(w) PROVE IInv'
  <1>1. calls[w] # <<>> /\ calls[w][1] = "start" /\ calls[w] \in Seq(Call)
    BY WorkerFacts DEF WorkerInitiateStart, NextCall
  <1>2. w \in m_workers
    BY <1>1, InUse
  <1>3. ~NoStart(calls[w])
    BY <1>1 DEF NoStart
  <1>4. Tame => job[w] = "NotRunning" /\ w \notin lateDone /\ workerState[w] \notin Idle
    BY <1>3, WorkerFacts DEF Agree
  <1>5. OnlyTouches(w) /\ lateDone' = lateDone
    BY DEF WorkerInitiateStart, WorkerStart, SetJob, OnlyTouches, IInv, TypeOK
  <1>6. Tame /\ job[w] = "NotRunning" =>
            Agree("Done", Popped(w)[w], job[w], w \in lateDone', m_stopReported'[w])
    BY <1>1, <1>4, <1>5, PoppedFacts DEF Agree
  <1>7. Tame => Agree(workerState[w], Popped(w)[w], job'[w], w \in lateDone', m_stopReported'[w])
    BY <1>1, <1>4, <1>5, PoppedFacts DEF Agree, Idle
  <1>8. CASE JustPop(w)
    BY <1>1, <1>2, <1>5, <1>7, <1>8, PoppedFacts, SilentStep
       DEF WorkerInitiateStart, JustPop
  <1>9. CASE OnWorkerFailed(w, Popped(w)) /\ UNCHANGED job
    BY <1>1, <1>2, <1>4, <1>5, <1>6, <1>9, PoppedFacts, ReportStep DEF WorkerInitiateStart
  <1> QED
    BY <1>8, <1>9 DEF WorkerInitiateStart, WorkerStart

LEMMA InitiateStopKeeps == ASSUME IInv, NEW w \in Worker, WorkerInitiateStop(w) PROVE IInv'
  <1>1. calls[w] # <<>> /\ Popped(w) \in [Worker -> Seq(Call)]
    BY PoppedFacts DEF WorkerInitiateStop, NextCall
  <1>2. w \in m_workers
    BY <1>1, InUse
  <1>3. Tame => /\ NoStart(Popped(w)[w]) /\ StartFirst(Popped(w)[w])
                /\ workerState[w] # "Initialized"
                /\ workerState[w] = "Done" => job[w] = "NotRunning"
                /\ w \in lateDone => m_stopReported[w]
    BY <1>1, PoppedFacts, WorkerFacts DEF Agree, Idle
  <1>4. /\ \A v \in Worker \ {w} : Popped(w)[v] = calls[v]
        /\ setup' = setup /\ UNCHANGED history /\ Signals /\ finishQueued' = finishQueued
    BY <1>1, PoppedFacts DEF WorkerInitiateStop
  <1>5. job[w] \in {"NotRunning", "Starting", "Running", "Stopping"}
    BY DEF IInv, TypeOK
  <1>6. CASE /\ JustPop(w) /\ m_stopReported' = m_stopReported /\ lateDone' = lateDone
             /\ \/ job' = job
                \/ SetJob(w, "NotRunning")
                \/ job[w] # "NotRunning" /\ SetJob(w, "Stopping")
    <2>1. OnlyTouches(w)
      BY <1>6 DEF SetJob, OnlyTouches, IInv, TypeOK
    <2>2. Tame /\ workerState[w] \in Idle => job'[w] = "NotRunning"
      BY <1>3, <1>6 DEF SetJob, Idle, IInv, TypeOK
    <2>3. Tame => Agree(workerState[w], Popped(w)[w], job'[w], w \in lateDone',
                        m_stopReported'[w])
      BY <1>3, <1>6, <2>2 DEF Agree
    <2> QED
      BY <1>1, <1>2, <1>4, <1>6, <2>1, <2>3, SilentStep DEF JustPop
  <1>7. CASE /\ OnWorkerStopped(w, Popped(w))
             /\ \/ job' = job /\ job[w] = "NotRunning"
                \/ SetJob(w, "NotRunning")
             /\ \/ m_stopReported' = m_stopReported /\ lateDone' = lateDone
                \/ /\ m_stopReported' = [m_stopReported EXCEPT ![w] = TRUE]
                   /\ lateDone' \in {lateDone, lateDone \cup {w}}
    <2>1. OnlyTouches(w)
      BY <1>7 DEF SetJob, OnlyTouches, IInv, TypeOK
    <2>2. job'[w] = "NotRunning" /\ (Tame => (w \in lateDone' => m_stopReported'[w]))
      BY <1>3, <1>7 DEF SetJob, IInv, TypeOK
    <2>3. Tame => Agree("Done", Popped(w)[w], job'[w], w \in lateDone', m_stopReported'[w])
      BY <1>3, <2>2 DEF Agree
    <2> QED
      BY <1>1, <1>2, <1>4, <1>7, <2>1, <2>3, ReportStep
  <1>8. CASE /\ calls' = Popped(w) /\ UNCHANGED <<state, workerState, m_stopReported>>
             /\ m_stopReported[w] /\ SetJob(w, "NotRunning")
             /\ lateDone' \in {lateDone, lateDone \cup {w}}
    <2>1. OnlyTouches(w)
      BY <1>8 DEF SetJob, OnlyTouches, IInv, TypeOK
    <2>2. job'[w] = "NotRunning" /\ m_stopReported'[w]
      BY <1>8 DEF SetJob, IInv, TypeOK
    <2>3. Tame => Agree(workerState[w], Popped(w)[w], job'[w], w \in lateDone',
                        m_stopReported'[w])
      BY <1>3, <2>2 DEF Agree
    <2> QED
      BY <1>1, <1>2, <1>4, <1>8, <2>1, <2>3, SilentStep
  <1>9. CASE StopProcess(w)
    <2>1. CASE job[w] = "NotRunning"
      <3>1. JustPop(w) /\ job' = job /\ m_stopReported' = m_stopReported /\ lateDone' = lateDone
        BY <1>9, <2>1 DEF StopProcess, jobs
      <3> QED
        BY <1>6, <3>1
    <2>2. CASE job[w] # "NotRunning"
      <3>1. /\ SetJob(w, "NotRunning") /\ ForwardDone(w, Popped(w))
            /\ lateDone' \in {lateDone, lateDone \cup {w}}
        BY <1>9, <2>2 DEF StopProcess
      <3>2. CASE m_stopReported[w]
        BY <1>8, <3>1, <3>2 DEF ForwardDone
      <3>3. CASE ~m_stopReported[w]
        BY <1>7, <3>1, <3>3 DEF ForwardDone
      <3> QED
        BY <3>2, <3>3
    <2> QED
      BY <2>1, <2>2
  <1>10. CASE StopTool(w) \/ StopClosing(w)
    BY <1>6, <1>7, <1>10 DEF StopTool, StopClosing
  <1>11. CASE StopEngine(w)
    <2>1. m_stopReported' = m_stopReported /\ lateDone' = lateDone
      BY <1>11 DEF StopEngine
    <2>2. CASE job[w] = "NotRunning"
      BY <1>7, <1>11, <2>1, <2>2 DEF StopEngine
    <2>3. CASE job[w] # "NotRunning"
      BY <1>6, <1>11, <2>1, <2>3 DEF StopEngine
    <2> QED
      BY <2>2, <2>3
  <1> QED
    BY <1>9, <1>10, <1>11 DEF WorkerInitiateStop

LEMMA ReportStartedKeeps == ASSUME IInv, NEW w \in Worker, ReportStarted(w) PROVE IInv'
  <1> DEFINE ws == [workerState EXCEPT ![w] = "Running"]
  <1>1. w \in m_workers /\ m_workers \subseteq Worker
    BY InUse, SetupFacts DEF ReportStarted, IInv
  <1>2. ws \in [Worker -> RunWorkerState]
    BY TypedCalls DEF IInv, RunWorkerState
  <1>3. OnlyTouches(w) /\ job'[w] = "Running" /\ lateDone' = lateDone
        /\ m_stopReported' = m_stopReported
    BY DEF ReportStarted, SetJob, OnlyTouches, IInv, TypeOK
  <1>4. /\ ws[w] = "Running" /\ \A v \in Worker \ {w} : ws[v] = workerState[v]
    BY TypedCalls DEF IInv
  <1>5. Tame => workerState[w] \notin Idle /\ NoStart(calls[w])
    BY WorkerFacts DEF Agree, ReportStarted
  <1>6. /\ OnWorkerStarted(w, calls) /\ Signals
        /\ setup' = setup /\ UNCHANGED history /\ finishQueued' = finishQueued
    BY DEF ReportStarted
  <1>7. state = "Starting" => ContinueStart(ws, calls)
    BY <1>6 DEF OnWorkerStarted
  <1>8. state # "Starting" => workerState' = ws /\ calls' = calls /\ state' = state
    BY <1>6 DEF OnWorkerStarted
  <1> HIDE DEF ws
  <1>9. Fits(ws, calls)
    <2>1. Tame => Agree(ws[w], calls[w], job'[w], w \in lateDone', m_stopReported'[w])
      BY <1>3, <1>4, <1>5, WorkerFacts DEF Agree, Idle
    <2> QED
      BY <1>1, <1>2, <1>3, <1>4, <1>6, <2>1, OneFits, TypedCalls DEF history, IInv
  <1>10. finishQueued' \in BOOLEAN /\ calls \in [Worker -> Seq(Call)]
    BY <1>6, TypedCalls DEF IInv, TypeOK
  <1>11. CASE state = "Starting"
    <2>1. Up(ws, calls)
      BY <1>2, <1>7, <1>10, <1>11, StartIsUp DEF IInv
    <2>2. disturbed' = {} => \A v \in m_workers : ws[v] = "Starting" =>
             \A d \in startDependencies[v] : ws[d] \notin {"Initialized", "Starting"}
      <3> SUFFICES ASSUME disturbed = {}, NEW v \in m_workers, ws[v] = "Starting",
                          NEW d \in startDependencies[v]
                   PROVE  ws[d] \notin {"Initialized", "Starting"}
        BY <1>6 DEF history
      <3>1. d \in Worker /\ workerState[v] = "Starting"
        BY <1>1, <1>4, SetupFacts DEF IInv
      <3>2. workerState[d] \notin {"Initialized", "Starting"}
        BY <3>1 DEF IInv, StartsAfterDependencies
      <3> QED
        BY <1>4, <3>1, <3>2
    <2>3. Order' /\ workerState' \in [Worker -> RunWorkerState]
                 /\ calls' \in [Worker -> Seq(Call)] /\ state' \in RunControlState
      <3>1. (Tame' => Tame) /\ m_stopReported' \in [Worker -> BOOLEAN]
        BY <1>3, <1>6 DEF history, Tame, OnlyTouches
      <3> QED
        BY <1>2, <1>6, <1>9, <1>10, <2>1, <2>2, <3>1, UpKeeps
    <2>4. TypeOK'
      BY <1>3, <1>6, <1>10, <2>3, SignalsTyped DEF OnlyTouches, TypeOK, IInv, history, Call
    <2> QED
      BY <2>3, <2>4, Together
  <1>12. CASE state # "Starting"
    <2>1. Reported(ws)
      BY <1>1, <1>4, <1>5 DEF Reported
    <2>2. Down(ws, calls)
      BY <1>1, <1>2, <1>8, <1>10, <1>12 DEF Down, DownOne, IInv, TypeOK
    <2> QED
      BY <1>2, <1>3, <1>6, <1>9, <1>10, <2>1, <2>2, DownStep DEF OnlyTouches
  <1> QED
    BY <1>11, <1>12

(* ForwardDone, when the process has ended or its timer fires.              *)
LEMMA ForwardDoneKeeps ==
    ASSUME IInv, NEW w \in m_workers, ForwardDone(w, calls), setup' = setup, UNCHANGED history,
           finishQueued' = finishQueued, Signals,
           \/ SetJob(w, "NotRunning") /\ lateDone' = lateDone /\ job[w] # "NotRunning"
           \/ UNCHANGED job /\ w \in lateDone /\ lateDone' = lateDone \ {w}
    PROVE  IInv'
  <1>1. w \in Worker
    BY SetupFacts DEF IInv
  <1>2. Tame => Agree(workerState[w], calls[w], job[w], w \in lateDone, m_stopReported[w])
    BY <1>1, WorkerFacts
  <1>3. OnlyTouches(w) /\ (job'[w] = job[w] \/ job'[w] = "NotRunning")
    BY <1>1 DEF ForwardDone, SetJob, OnlyTouches, IInv, TypeOK
  <1>4. w \in lateDone' => w \in lateDone
    OBVIOUS
  <1>5. calls \in [Worker -> Seq(Call)]
    BY TypedCalls DEF IInv
  <1>6. CASE m_stopReported[w]
    <2>1. calls' = calls /\ UNCHANGED <<state, workerState, m_stopReported>>
      BY <1>6 DEF ForwardDone
    <2>2. Tame => Agree(workerState[w], calls[w], job'[w], w \in lateDone', m_stopReported'[w])
      BY <1>2, <1>3, <1>4, <1>6, <2>1 DEF Agree
    <2> QED
      BY <1>3, <1>5, <2>1, <2>2, SilentStep
  <1>7. CASE ~m_stopReported[w]
    <2>1. OnWorkerStopped(w, calls)
      BY <1>7 DEF ForwardDone
    <2>2. Tame => w \notin lateDone /\ SetJob(w, "NotRunning") /\ job[w] # "NotRunning"
      BY <1>2, <1>7 DEF Agree
    <2>3. Tame => Agree("Done", calls[w], job'[w], w \in lateDone', m_stopReported'[w])
      <3>1. Tame => NoStart(calls[w]) /\ StartFirst(calls[w])
        BY <1>2, <2>2 DEF Agree
      <3>2. Tame => job'[w] = "NotRunning"
        BY <1>1, <2>2 DEF SetJob, IInv, TypeOK
      <3> QED
        BY <1>4, <2>2, <3>1, <3>2 DEF Agree
    <2> QED
      BY <1>3, <1>5, <2>1, <2>3, ReportStep
  <1> QED
    BY <1>6, <1>7

LEMMA DoneKeeps ==
    ASSUME IInv, NEW w \in Worker, HandleDone(w) \/ LateDone(w)
    PROVE  IInv'
  <1>1. w \in m_workers
    BY InUse DEF HandleDone, LateDone
  <1> QED
    BY <1>1, ForwardDoneKeeps DEF HandleDone, LateDone

LEMMA ReportKeeps ==
    ASSUME IInv, NEW w \in Worker, ReportStopped(w) \/ ReportFailure(w)
    PROVE  IInv'
  <1>1. job[w] # "NotRunning" /\ w \in m_workers
    BY InUse DEF ReportStopped, ReportFailure
  <1>2. OnlyTouches(w) /\ job'[w] = "NotRunning"
        /\ UNCHANGED <<m_stopReported, lateDone>>
    BY DEF ReportStopped, ReportFailure, SetJob, OnlyTouches, IInv, TypeOK
  <1>3. Tame => Agree("Done", calls[w], job'[w], w \in lateDone', m_stopReported'[w])
    BY <1>1, <1>2, WorkerFacts DEF Agree
  <1>4. calls \in [Worker -> Seq(Call)]
    BY TypedCalls DEF IInv
  <1> QED
    BY <1>1, <1>2, <1>3, <1>4, ReportStep DEF ReportStopped, ReportFailure

------------------------------------------------------------------------------
(* The theorems.                                                            *)

LEMMA StepKeeps == IInv /\ [Next]_vars => IInv'
  <1> SUFFICES ASSUME IInv, [Next]_vars PROVE IInv'
    OBVIOUS
  <1>1. CASE UserNext
    BY <1>1, StartKeeps, ReRunKeeps, ForceStopKeeps, AnswerKeeps, StopKeeps, PaneKeeps
       DEF UserNext
  <1>2. CASE RunControlFinished \/ InitiateFinish \/ Delete \/ UNCHANGED vars
    BY <1>2, PaneKeeps, StopKeeps, DeleteKeeps
  <1>3. ASSUME NEW w \in Worker,
               \/ WorkerInitiateStart(w) \/ WorkerInitiateStop(w) \/ ReportStarted(w)
               \/ HandleDone(w) \/ LateDone(w) \/ ReportStopped(w) \/ ReportFailure(w)
        PROVE  IInv'
    BY <1>3, InitiateStartKeeps, InitiateStopKeeps, ReportStartedKeeps, DoneKeeps, ReportKeeps
  <1> QED
    BY <1>1, <1>2, <1>3 DEF Next

THEOREM Invariance == Spec => []IInv
  BY InitIsIn, StepKeeps, PTL DEF Spec

(* Every reachable state of a RunControl and its workers has its type.      *)
THEOREM TypeCorrect == Spec => []TypeOK
  <1>1. IInv => TypeOK
    BY DEF IInv
  <1> QED
    BY <1>1, Invariance, PTL

(* RunControl is Running only when every worker has started.                *)
THEOREM AllUp == Spec => []AllUpWhenRunning
  <1>1. IInv => AllUpWhenRunning
    BY DEF IInv
  <1> QED
    BY <1>1, Invariance, PTL

(* A worker that is starting finds started what it depends on.              *)
THEOREM DependenciesFirst == Spec => []StartsAfterDependencies
  <1>1. IInv => StartsAfterDependencies
    BY DEF IInv
  <1> QED
    BY <1>1, Invariance, PTL

(* Nothing runs when RunControl says it has stopped.                        *)
THEOREM StoppedMeansStopped == Spec => []NothingRunsWhenStopped
  <1>1. IInv => NothingRunsWhenStopped
    <2> SUFFICES ASSUME IInv, state = "Stopped", Tame, NEW w \in Worker
                 PROVE  job[w] = "NotRunning"
      BY DEF NothingRunsWhenStopped, Tame
    <2>1. CASE w \in m_workers
      BY <2>1, WorkerFacts DEF IInv, AllOver, Agree
    <2>2. CASE w \notin m_workers
      BY <2>2 DEF IInv, Outside
    <2> QED
      BY <2>1, <2>2
  <1> QED
    BY <1>1, Invariance, PTL

------------------------------------------------------------------------------
(* The order in which workers are stopped.                                  *)

(* What a step may make of the workers that were in ws: who is done stays   *)
(* so, and who is told to stop has outlived its dependents, or one that had *)
(* to outlive it is done.                                                   *)
OutlivesDependents(ws, w) ==
    \/ \A d \in stopDependencies[w] : ws[d] = "Done"
    \/ \E v \in m_workers : w \in stopDependencies[v] /\ ws[v] = "Done"

StopsInOrder(ws) ==
    \A w \in m_workers :
        /\ ws[w] = "Done" => workerState'[w] = "Done"
        /\ workerState'[w] = "Stopping" =>
              ws[w] = "Stopping" \/ OutlivesDependents(workerState', w)

(* Nobody is brought back to life by the first part of a step either.       *)
NoneRevived(ws) ==
    \A w \in m_workers :
        /\ workerState[w] = "Done" => ws[w] = "Done"
        /\ ws[w] = "Stopping" => workerState[w] = "Stopping"

LEMMA StopOrderKept ==
    ASSUME TypeOK, setup' = setup, StopsAfterDependents, disturbed' = {} => disturbed = {},
           NEW ws, NoneRevived(ws), StopsInOrder(ws)
    PROVE  StopsAfterDependents'
  <1> SUFFICES ASSUME disturbed' = {}, NEW w \in m_workers, workerState'[w] = "Stopping"
               PROVE  OutlivesDependents(workerState', w)
    BY DEF StopsAfterDependents, OutlivesDependents, m_workers, stopDependencies
  <1>1. \A v \in m_workers : workerState[v] = "Done" => workerState'[v] = "Done"
    BY DEF NoneRevived, StopsInOrder
  <1>2. CASE ws[w] = "Stopping"
    <2>1. workerState[w] = "Stopping"
      BY <1>2 DEF NoneRevived
    <2>2. OutlivesDependents(workerState, w)
      BY <2>1 DEF StopsAfterDependents, OutlivesDependents
    <2>3. stopDependencies[w] \subseteq m_workers
      BY SetupFacts
    <2> QED
      BY <1>1, <2>2, <2>3 DEF OutlivesDependents
  <1> QED
    BY <1>2 DEF StopsInOrder

LEMMA StopIsInOrder ==
    ASSUME TypeOK, NEW ws, NEW cs, NEW s, ContinueStopOrFinish(s, ws, cs)
    PROVE  StopsInOrder(ws)
  <1> DEFINE able == {w \in m_workers : CanStop(ws, w)}
  <1>1. /\ m_workers \subseteq Worker
        /\ \A w \in m_workers : stopDependencies[w] \subseteq m_workers
    BY SetupFacts
  <1>2. workerState' = [w \in Worker |->
             IF w \in able THEN "Stopping"
             ELSE IF w \in m_workers /\ ws[w] = "Initialized" THEN "Done" ELSE ws[w]]
    BY DEF ContinueStopOrFinish
  <1>3. \A w \in m_workers : ws[w] \in {"Done", "Initialized"} => workerState'[w] = "Done"
    BY <1>1, <1>2 DEF CanStop
  <1>4. ASSUME NEW w \in m_workers, workerState'[w] = "Stopping"
        PROVE  ws[w] = "Stopping" \/ OutlivesDependents(workerState', w)
    <2>1. CASE w \in able
      <3>1. \A d \in stopDependencies[w] : d \in m_workers /\ ws[d] \in {"Done", "Initialized"}
        BY <1>1, <2>1 DEF CanStop
      <3> QED
        BY <1>3, <3>1 DEF OutlivesDependents
    <2>2. CASE w \notin able
      BY <1>1, <1>2, <1>4, <2>2
    <2> QED
      BY <2>1, <2>2
  <1> QED
    BY <1>3, <1>4 DEF StopsInOrder

LEMMA StartIsInOrder ==
    ASSUME TypeOK, NEW ws \in [Worker -> RunWorkerState], NEW cs, ContinueStart(ws, cs)
    PROVE  StopsInOrder(ws)
  <1>1. m_workers \subseteq Worker
    BY SetupFacts
  <1>2. CASE \E w \in m_workers : CanStart(ws, w) /\ workerState' = [ws EXCEPT ![w] = "Starting"]
    BY <1>1, <1>2 DEF StopsInOrder, CanStart
  <1>3. CASE workerState' = ws
    BY <1>3 DEF StopsInOrder
  <1> QED
    BY <1>2, <1>3 DEF ContinueStart

LEMMA DependentsStopInOrder ==
    ASSUME TypeOK, NEW w \in m_workers, NEW ws \in [Worker -> RunWorkerState], NEW cs,
           ws[w] = "Done", StopDependents(w, ws, cs)
    PROVE  StopsInOrder(ws)
  <1> DEFINE kill == {d \in stopDependencies[w] : ws[d] \notin {"Done", "Initialized"}}
  <1>1. m_workers \subseteq Worker
    BY SetupFacts
  <1>2. workerState' = [d \in Worker |->
                  IF d \in kill THEN "Stopping"
                  ELSE IF d \in stopDependencies[w] THEN "Done" ELSE ws[d]]
    BY DEF StopDependents
  <1>3. \A v \in m_workers : ws[v] = "Done" => workerState'[v] = "Done"
    BY <1>1, <1>2
  <1>4. \A v \in m_workers : workerState'[v] = "Stopping" => ws[v] = "Stopping" \/ v \in kill
    BY <1>1, <1>2
  <1>5. \A v \in kill : OutlivesDependents(workerState', v)
    BY <1>3 DEF OutlivesDependents
  <1> QED
    BY <1>3, <1>4, <1>5 DEF StopsInOrder

(* A worker that reports its end, or that it has failed.                    *)
LEMMA EndIsInOrder ==
    ASSUME TypeOK, setup' = setup, UNCHANGED history, StopsAfterDependents,
           NEW w \in m_workers, NEW cs, OnWorkerStopped(w, cs) \/ OnWorkerFailed(w, cs)
    PROVE  StopsAfterDependents'
  <1> DEFINE ws == [workerState EXCEPT ![w] = "Done"]
  <1>1. m_workers \subseteq Worker /\ workerState \in [Worker -> RunWorkerState]
    BY SetupFacts DEF TypeOK
  <1>2. ws \in [Worker -> RunWorkerState] /\ ws[w] = "Done" /\ NoneRevived(ws)
    BY <1>1 DEF NoneRevived, RunWorkerState
  <1>3. StopsInOrder(ws)
    <2>1. CASE workerState' = ws
      BY <2>1 DEF StopsInOrder
    <2>2. CASE \E s : ContinueStopOrFinish(s, ws, cs)
      BY <2>2, StopIsInOrder
    <2>3. CASE StopDependents(w, ws, cs)
      BY <1>2, <2>3, DependentsStopInOrder
    <2> QED
      BY <2>1, <2>2, <2>3 DEF OnWorkerStopped, OnWorkerFailed, InitiateStop
  <1>4. disturbed' = {} => disturbed = {}
    BY DEF history
  <1> HIDE DEF ws
  <1> QED
    BY <1>2, <1>3, <1>4, StopOrderKept

LEMMA NothingStops ==
    ASSUME setup' = setup, StopsAfterDependents, disturbed' = {} => disturbed = {},
           workerState' = workerState
    PROVE  StopsAfterDependents'
  BY DEF StopsAfterDependents, m_workers, stopDependencies

LEMMA StopOrderStep == IInv /\ StopsAfterDependents /\ [Next]_vars => StopsAfterDependents'
  <1> SUFFICES ASSUME IInv, StopsAfterDependents, [Next]_vars PROVE StopsAfterDependents'
    OBVIOUS
  <1>0. TypeOK /\ m_workers \subseteq Worker /\ workerState \in [Worker -> RunWorkerState]
    BY SetupFacts DEF IInv, TypeOK
  <1>a. NoneRevived(workerState)
    BY DEF NoneRevived
  <1>1. CASE Start
    <2>1. setup' = setup /\ UNCHANGED history /\ ContinueStart(workerState, calls)
      BY <1>1 DEF Start
    <2> QED
      BY <1>0, <1>a, <2>1, StartIsInOrder, StopOrderKept DEF history
  <1>2. CASE ReRun
    <2> DEFINE ws == [w \in Worker |-> IF w \in m_workers /\ workerState[w] = "Done"
                                       THEN "Initialized" ELSE workerState[w]]
    <2>1. setup' = setup /\ ContinueStart(ws, calls)
          /\ (disturbed' = {} => disturbed = {} /\ state = "Stopped")
      BY <1>2 DEF ReRun
    <2> SUFFICES ASSUME disturbed' = {} PROVE \A w \in m_workers : workerState'[w] # "Stopping"
      BY <2>1 DEF StopsAfterDependents, m_workers
    <2>2. \A w \in m_workers : workerState[w] \in Idle
      BY <2>1 DEF IInv, AllOver, Tame
    <2>3. ws \in [Worker -> RunWorkerState] /\ \A w \in m_workers : ws[w] = "Initialized"
      BY <1>0, <2>2 DEF Idle, RunWorkerState
    <2> HIDE DEF ws
    <2>4. workerState' = ws \/ \E w \in m_workers : workerState' = [ws EXCEPT ![w] = "Starting"]
      BY <2>1 DEF ContinueStart
    <2> QED
      BY <1>0, <2>3, <2>4
  <1>3. CASE StopClicked
    <2>1. setup' = setup /\ (disturbed' = {} => disturbed = {} /\ workerState' = workerState)
      BY <1>3 DEF StopClicked, control
    <2> QED
      BY <2>1 DEF StopsAfterDependents, m_workers, stopDependencies
  <1>4. CASE AnswerPrompt \/ StopElsewhere \/ InitiateFinish
    <2>1. setup' = setup /\ UNCHANGED history
      BY <1>4 DEF AnswerPrompt, StopElsewhere, InitiateFinish
    <2>2. workerState' = workerState \/ \E s : ContinueStopOrFinish(s, workerState, calls)
      BY <1>4 DEF AnswerPrompt, StopElsewhere, InitiateFinish, InitiateStop, control
    <2> QED
      BY <1>0, <1>a, <2>1, <2>2, StopIsInOrder, StopOrderKept, NothingStops DEF history
  <1>5. CASE CloseTab \/ TabChanged \/ RunControlFinished \/ Delete \/ UNCHANGED vars
    <2>1. setup' = setup /\ UNCHANGED history /\ workerState' = workerState
      BY <1>5 DEF CloseTab, TabChanged, RunControlFinished, Delete, vars, control, history
    <2> QED
      BY <2>1, NothingStops DEF history
  <1>6. ASSUME NEW w \in Worker, ReportStarted(w) PROVE StopsAfterDependents'
    <2> DEFINE ws == [workerState EXCEPT ![w] = "Running"]
    <2>1. /\ setup' = setup /\ UNCHANGED history /\ job[w] = "Starting"
          /\ OnWorkerStarted(w, calls)
      BY <1>6 DEF ReportStarted
    <2>2. ws \in [Worker -> RunWorkerState]
      BY <1>0 DEF RunWorkerState
    <2>3. StopsInOrder(ws)
      <3>1. CASE ContinueStart(ws, calls)
        BY <1>0, <2>2, <3>1, StartIsInOrder
      <3>2. CASE workerState' = ws
        BY <3>2 DEF StopsInOrder
      <3> QED
        BY <2>1, <3>1, <3>2 DEF OnWorkerStarted
    <2>4. disturbed = {} => NoneRevived(ws)
      <3>1. disturbed = {} => workerState[w] # "Done"
        BY <2>1, WorkerFacts DEF Agree, Tame, Idle
      <3> QED
        BY <1>0, <3>1 DEF NoneRevived
    <2> HIDE DEF ws
    <2>5. CASE disturbed = {}
      BY <1>0, <2>1, <2>3, <2>4, <2>5, StopOrderKept DEF history
    <2>6. CASE disturbed # {}
      BY <2>1, <2>6 DEF history, StopsAfterDependents
    <2> QED
      BY <2>5, <2>6
  <1>7. ASSUME NEW w \in Worker,
               \/ WorkerInitiateStart(w) \/ WorkerInitiateStop(w)
               \/ HandleDone(w) \/ LateDone(w) \/ ReportStopped(w) \/ ReportFailure(w)
        PROVE  StopsAfterDependents'
    <2>1. setup' = setup /\ UNCHANGED history
      BY <1>7 DEF WorkerInitiateStart, WorkerInitiateStop, HandleDone, LateDone, ReportStopped,
                  ReportFailure
    <2>2. \/ workerState' = workerState
          \/ \E cs : OnWorkerStopped(w, cs) \/ OnWorkerFailed(w, cs)
      <3>1. CASE WorkerInitiateStart(w)
        BY <3>1 DEF WorkerInitiateStart, WorkerStart, JustPop
      <3>2. CASE WorkerInitiateStop(w)
        BY <3>2 DEF WorkerInitiateStop, StopProcess, StopTool, StopEngine, StopClosing,
                    ForwardDone, JustPop
      <3>3. CASE HandleDone(w) \/ LateDone(w)
        BY <3>3 DEF HandleDone, LateDone, ForwardDone
      <3>4. CASE ReportStopped(w) \/ ReportFailure(w)
        BY <3>4 DEF ReportStopped, ReportFailure
      <3> QED
        BY <1>7, <3>1, <3>2, <3>3, <3>4
    <2>3. w \in m_workers
      BY <1>7, InUse DEF WorkerInitiateStart, WorkerInitiateStop, NextCall, HandleDone, LateDone,
                         ReportStopped, ReportFailure
    <2> QED
      BY <1>0, <2>1, <2>2, <2>3, EndIsInOrder, NothingStops DEF history
  <1> QED
    BY <1>1, <1>2, <1>3, <1>4, <1>5, <1>6, <1>7 DEF Next, UserNext

(* Workers stop in the reverse order of their dependencies, whoever of them *)
(* fails or ends on its own meanwhile.                                      *)
THEOREM DependentsStopFirst == Spec => []StopsAfterDependents
  <1>1. Init => StopsAfterDependents
    BY ConstantsAssumption DEF Init, StopsAfterDependents, m_workers, Setup
  <1> QED
    BY <1>1, StopOrderStep, Invariance, PTL DEF Spec
=============================================================================
