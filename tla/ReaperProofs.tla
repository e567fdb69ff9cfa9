------------------------------ MODULE ReaperProofs ------------------------------
(***************************************************************************)
(* Proofs about ProcessReaper: every process is accounted for, and the     *)
(* code does nothing that Reaping does not promise.                        *)
(*                                                                         *)
(* A process that was handed over is in one place: in the list of setups,  *)
(* among those a flush has taken, or with its Reaper.  The rest is about   *)
(* order: what the events in the queue are about, and that nothing follows *)
(* the flush the destructor waits for.                                     *)
(***************************************************************************)
EXTENDS ProcessReaper, TLAPS

Within(p, s) == \E i \in DOMAIN s : s[i] = p

Distinct(s) == \A i, j \in DOMAIN s : s[i] = s[j] => i = j

(* Each process is in one place, as long as the reaper owns it.            *)
Placed ==
    /\ Distinct(m_reaperSetupList) /\ Distinct(flushing.todo)
    /\ \A p \in Process :
        /\ Within(p, m_reaperSetupList) =>
              owner[p] = "reaper" /\ ~Within(p, flushing.todo) /\ p \notin m_reaperList
        /\ Within(p, flushing.todo) => owner[p] = "reaper" /\ p \notin m_reaperList
        /\ p \in m_reaperList => owner[p] = "reaper"
        /\ p \in timers => p \in m_reaperList
    /\ flushing.call = "none" => flushing.todo = <<>>

(* A Reaper that has not told anybody has not been heard of.               *)
Told == \A i \in 1 .. Len(events) : events[i].type = "finished" => m_finished[events[i].process]

(* A flush that is queued, and the last one, which the destructor queues.  *)
NoFlushQueued == \A i \in 1 .. Len(events) : events[i].type = "finished"

LastFlush ==
    /\ \A i \in 1 .. Len(events) : events[i].type = "blockingFlush" =>
          /\ destructor = "flush" /\ flushing.call # "blockingFlush"
          /\ \A j \in 1 .. Len(events) : i < j => events[j].type = "finished"
    /\ flushing.call = "blockingFlush" => destructor = "flush" /\ NoFlushQueued
    /\ destructor \notin {"none", "flush"} =>
          NoFlushQueued /\ flushing = NotFlushing /\ m_reaperSetupList = <<>>
    /\ destructor \in {"quit", "done"} => m_reaperList = {}

IInv == TypeOK /\ Placed /\ Told /\ LastFlush /\ DeletedOnceAfterTheEnd /\ NothingForgotten

-----------------------------------------------------------------------------
(* Sequences: one element more at the end, one less at the front.          *)
LEMMA Longer ==
    ASSUME NEW S, NEW s \in Seq(S), NEW e \in S
    PROVE  /\ Append(s, e) \in Seq(S)
           /\ DOMAIN s = 1 .. Len(s) /\ Len(s) \in Nat
           /\ DOMAIN Append(s, e) = 1 .. Len(s) + 1 /\ Len(Append(s, e)) = Len(s) + 1
           /\ \A i \in 1 .. Len(s) : Append(s, e)[i] = s[i]
           /\ Append(s, e)[Len(s) + 1] = e
  OBVIOUS

LEMMA Shorter ==
    ASSUME NEW S, NEW s \in Seq(S), s # <<>>
    PROVE  /\ Tail(s) \in Seq(S) /\ Head(s) \in S
           /\ DOMAIN s = 1 .. Len(s) /\ Len(s) \in Nat \ {0}
           /\ DOMAIN Tail(s) = 1 .. Len(s) - 1 /\ Len(Tail(s)) = Len(s) - 1
           /\ \A i \in 1 .. Len(s) - 1 : Tail(s)[i] = s[i + 1]
           /\ Head(s) = s[1]
  OBVIOUS

LEMMA AppendedWithin ==
    ASSUME NEW S, NEW s \in Seq(S), NEW e \in S
    PROVE  /\ \A p : Within(p, Append(s, e)) <=> Within(p, s) \/ p = e
           /\ Distinct(s) /\ ~Within(e, s) => Distinct(Append(s, e))
  <1>1. /\ DOMAIN s = 1 .. Len(s) /\ Len(s) \in Nat
        /\ DOMAIN Append(s, e) = 1 .. Len(s) + 1
        /\ \A i \in 1 .. Len(s) : Append(s, e)[i] = s[i]
        /\ Append(s, e)[Len(s) + 1] = e
    BY Longer
  <1> QED
    BY <1>1 DEF Within, Distinct

LEMMA TailWithin ==
    ASSUME NEW S, NEW s \in Seq(S), s # <<>>
    PROVE  /\ \A p : Within(p, Tail(s)) => Within(p, s)
           /\ \A p : Within(p, s) => p = Head(s) \/ Within(p, Tail(s))
           /\ Within(Head(s), s)
           /\ Distinct(s) => Distinct(Tail(s)) /\ ~Within(Head(s), Tail(s))
  <1>1. /\ DOMAIN s = 1 .. Len(s) /\ Len(s) \in Nat \ {0}
        /\ DOMAIN Tail(s) = 1 .. Len(s) - 1
        /\ \A i \in 1 .. Len(s) - 1 : Tail(s)[i] = s[i + 1]
        /\ Head(s) = s[1]
    BY Shorter
  <1>2. \A p : Within(p, Tail(s)) => Within(p, s)
    BY <1>1 DEF Within
  <1>3. \A p : Within(p, s) => p = Head(s) \/ Within(p, Tail(s))
    <2> SUFFICES ASSUME NEW p, NEW i \in DOMAIN s, s[i] = p, p # Head(s)
                 PROVE  Within(p, Tail(s))
      BY DEF Within
    <2>1. i - 1 \in DOMAIN Tail(s) /\ Tail(s)[i - 1] = p
      BY <1>1
    <2> QED
      BY <2>1 DEF Within
  <1>4. Within(Head(s), s)
    BY <1>1 DEF Within
  <1>5. Distinct(s) => Distinct(Tail(s)) /\ ~Within(Head(s), Tail(s))
    BY <1>1 DEF Distinct, Within
  <1> QED
    BY <1>2, <1>3, <1>4, <1>5

LEMMA EmptyTyped == <<>> \in Seq(Process)
  OBVIOUS

LEMMA EmptyWithin == Distinct(<<>>) /\ \A p : ~Within(p, <<>>)
  BY DEF Distinct, Within

-----------------------------------------------------------------------------
(* The initial state, and the types.                                       *)
LEMMA Initially == Init => IInv
  <1> SUFFICES ASSUME Init PROVE IInv
    OBVIOUS
  <1>1. TypeOK
    BY DEF Init, TypeOK, NotFlushing
  <1>2. Placed
    BY EmptyWithin DEF Init, Placed, NotFlushing
  <1>3. Told /\ LastFlush /\ DeletedOnceAfterTheEnd /\ NothingForgotten
    BY DEF Init, Told, LastFlush, NoFlushQueued, DeletedOnceAfterTheEnd, NothingForgotten,
           NotFlushing
  <1> QED
    BY <1>1, <1>2, <1>3 DEF IInv

LEMMA EventTypes ==
    /\ FlushCall \in Event /\ BlockingFlushCall \in Event
    /\ \A p \in Process : FinishedCall(p) \in Event
    /\ \A e \in Event : \/ e.type \in {"flush", "blockingFlush"}
                        \/ /\ e.type = "finished" /\ e.process \in Process
                           /\ e = FinishedCall(e.process)
  <1>1. /\ FlushCall \in Event /\ BlockingFlushCall \in Event
        /\ \A p \in Process : FinishedCall(p) \in Event
    BY DEF Event, FlushCall, BlockingFlushCall, FinishedCall
  <1>2. ASSUME NEW e \in [type : {"finished"}, process : Process]
        PROVE  e.type = "finished" /\ e.process \in Process /\ e = FinishedCall(e.process)
    BY DEF FinishedCall
  <1>3. \A e \in [type : {"flush", "blockingFlush"}] : e.type \in {"flush", "blockingFlush"}
    OBVIOUS
  <1> QED
    BY <1>1, <1>2, <1>3 DEF Event

LEMMA EmitTyped ==
    ASSUME TypeOK, NEW p \in Process, EmitFinished(p)
    PROVE  m_finished' \in [Process -> BOOLEAN] /\ events' \in Seq(Event)
  <1>1. FinishedCall(p) \in Event
    BY EventTypes
  <1>2. Append(events, FinishedCall(p)) \in Seq(Event)
    BY <1>1, Longer DEF TypeOK
  <1> QED
    BY <1>2 DEF TypeOK, EmitFinished

LEMMA TypeStep == TypeOK /\ [Next]_vars => TypeOK'
  <1> SUFFICES ASSUME TypeOK, [Next]_vars PROVE TypeOK'
    OBVIOUS
  <1> USE DEF TypeOK
  <1>1. ASSUME NEW p \in Process, Reap(p) PROVE TypeOK'
    <2>1. FlushCall \in Event
      BY EventTypes
    <2>2. Append(m_reaperSetupList, p) \in Seq(Process) /\ Append(events, FlushCall) \in Seq(Event)
      BY <2>1, Longer
    <2> QED
      BY <1>1, <2>2 DEF Reap, ScheduleReap
  <1>2. ASSUME NEW p \in Process, HandleTerminateTimeout(p) PROVE TypeOK'
    BY <1>2, EmitTyped DEF HandleTerminateTimeout
  <1>3. ASSUME NEW p \in Process, ProcessStarted(p) PROVE TypeOK'
    BY <1>3 DEF ProcessStarted
  <1>4. ASSUME NEW p \in Process, ProcessFailedToStart(p) PROVE TypeOK'
    BY <1>4 DEF ProcessFailedToStart
  <1>5. ASSUME NEW p \in Process, HandleFinished(p) PROVE TypeOK'
    BY <1>5, EmitTyped DEF HandleFinished
  <1>6. CASE WaitForFinished
    <2>1. BlockingFlushCall \in Event
      BY EventTypes
    <2>2. Append(events, BlockingFlushCall) \in Seq(Event)
      BY <2>1, Longer
    <2> QED
      BY <1>6, <2>2 DEF WaitForFinished
  <1>7. CASE WaitForReapers
    BY <1>7 DEF WaitForReapers
  <1>8. CASE QuitThread
    BY <1>8 DEF QuitThread
  <1>9. CASE Flush
    <2>1. Head(events) \in Event /\ Tail(events) \in Seq(Event)
      BY <1>9, Shorter DEF Flush
    <2>2. Head(events).type \in {"flush", "blockingFlush"}
      BY <1>9, <2>1, EventTypes DEF Flush
    <2>3. flushing' \in [call : {"none", "flush", "blockingFlush"}, todo : Seq(Process)]
      BY <1>9, <2>2, EmptyTyped DEF Flush
    <2> QED
      BY <1>9, <2>1, <2>3 DEF Flush
  <1>10. CASE TakeReaperSetupList
    BY <1>10 DEF TakeReaperSetupList, NotFlushing
  <1>11. CASE StartReaper
    <2>1. Head(flushing.todo) \in Process /\ Tail(flushing.todo) \in Seq(Process)
      BY <1>11, Shorter DEF StartReaper
    <2>2. m_finished' \in [Process -> BOOLEAN] /\ events' \in Seq(Event)
      BY <1>11, <2>1, EmitTyped DEF StartReaper
    <2> QED
      BY <1>11, <2>1, <2>2 DEF StartReaper
  <1>12. CASE HandleReaperFinished
    <2>1. Head(events) \in Event /\ Tail(events) \in Seq(Event)
      BY <1>12, Shorter DEF HandleReaperFinished
    <2>2. Head(events).process \in Process
      BY <1>12, <2>1, EventTypes DEF HandleReaperFinished
    <2> QED
      BY <1>12, <2>1, <2>2 DEF HandleReaperFinished
  <1>13. CASE UNCHANGED vars
    BY <1>13 DEF vars
  <1> QED
    BY <1>1, <1>2, <1>3, <1>4, <1>5, <1>6, <1>7, <1>8, <1>9, <1>10, <1>11, <1>12, <1>13
       DEF Next

(* The event at the head of the queue, and what an event says of its       *)
(* process.                                                                *)
LEMMA HeadOfQueue ==
    ASSUME IInv, events # <<>>
    PROVE  /\ Head(events) \in Event /\ Tail(events) \in Seq(Event)
           /\ DOMAIN events = 1 .. Len(events) /\ Len(events) \in Nat \ {0}
           /\ DOMAIN Tail(events) = 1 .. Len(events) - 1 /\ Len(Tail(events)) = Len(events) - 1
           /\ \A i \in 1 .. Len(events) - 1 : Tail(events)[i] = events[i + 1]
           /\ Head(events) = events[1]
           /\ Head(events).type = "finished" =>
                 /\ Head(events).process \in Process
                 /\ Head(events).process \in m_reaperList
                 /\ state[Head(events).process] = "NotRunning"
                 /\ \A i \in 2 .. Len(events) : events[i] # Head(events)
  <1>1. events \in Seq(Event)
    BY DEF IInv, TypeOK
  <1>2. /\ Head(events) \in Event /\ Tail(events) \in Seq(Event)
        /\ DOMAIN events = 1 .. Len(events) /\ Len(events) \in Nat \ {0}
        /\ DOMAIN Tail(events) = 1 .. Len(events) - 1 /\ Len(Tail(events)) = Len(events) - 1
        /\ \A i \in 1 .. Len(events) - 1 : Tail(events)[i] = events[i + 1]
        /\ Head(events) = events[1]
    BY <1>1, Shorter
  <1>3. ASSUME Head(events).type = "finished"
        PROVE  /\ Head(events).process \in Process
               /\ Head(events).process \in m_reaperList
               /\ state[Head(events).process] = "NotRunning"
               /\ \A i \in 2 .. Len(events) : events[i] # Head(events)
    <2>1. Head(events).process \in Process
      BY <1>2, <1>3, EventTypes
    <2>2. 1 \in DOMAIN events
      BY <1>2
    <2>3. /\ events[1].process \in m_reaperList
          /\ state[events[1].process] = "NotRunning"
          /\ \A j \in DOMAIN events : events[j] = events[1] => j = 1
      BY <1>2, <1>3, <2>2 DEF IInv, DeletedOnceAfterTheEnd
    <2> QED
      BY <1>2, <2>1, <2>3
  <1> QED
    BY <1>2, <1>3

-----------------------------------------------------------------------------
(* Where the processes are.                                                *)
LEMMA PlacedStep == IInv /\ [Next]_vars => Placed'
  <1> SUFFICES ASSUME IInv, [Next]_vars PROVE Placed'
    OBVIOUS
  <1>0. TypeOK /\ Placed
    BY DEF IInv
  <1>a. CASE UNCHANGED <<owner, m_reaperSetupList, m_reaperList, timers, flushing>>
    BY <1>0, <1>a DEF Placed, Distinct, Within
  <1>1. ASSUME NEW p \in Process, Reap(p) PROVE Placed'
    <2>1. CASE state[p] = "NotRunning"
      <3>1. /\ owner[p] = "caller" /\ owner' = [owner EXCEPT ![p] = "deleted"]
            /\ UNCHANGED <<m_reaperSetupList, m_reaperList, timers, flushing>>
        BY <1>1, <2>1 DEF Reap
      <3>2. /\ \A q : Within(q, m_reaperSetupList') <=> Within(q, m_reaperSetupList)
            /\ \A q : Within(q, flushing'.todo) <=> Within(q, flushing.todo)
            /\ Distinct(m_reaperSetupList') /\ Distinct(flushing'.todo)
        BY <1>0, <3>1 DEF Placed
      <3> QED
        BY <1>0, <3>1, <3>2 DEF Placed, TypeOK
    <2>2. CASE state[p] # "NotRunning"
      <3>1. /\ owner[p] = "caller" /\ owner' = [owner EXCEPT ![p] = "reaper"]
            /\ m_reaperSetupList' = Append(m_reaperSetupList, p)
            /\ UNCHANGED <<m_reaperList, timers, flushing>>
        BY <1>1, <2>2 DEF Reap, ScheduleReap
      <3>2. ~Within(p, m_reaperSetupList) /\ ~Within(p, flushing.todo) /\ p \notin m_reaperList
        BY <1>0, <3>1 DEF Placed
      <3>3. /\ \A q : Within(q, m_reaperSetupList') <=> Within(q, m_reaperSetupList) \/ q = p
            /\ Distinct(m_reaperSetupList')
        BY <1>0, <3>1, <3>2, AppendedWithin DEF TypeOK, Placed
      <3>4. \A q : Within(q, flushing'.todo) <=> Within(q, flushing.todo)
        BY <3>1
      <3>5. Distinct(flushing'.todo)
        BY <1>0, <3>1 DEF Placed
      <3> QED
        BY <1>0, <3>1, <3>2, <3>3, <3>4, <3>5 DEF Placed, TypeOK
    <2> QED
      BY <2>1, <2>2
  <1>2. ASSUME NEW p \in Process, HandleTerminateTimeout(p) PROVE Placed'
    <2>1. timers' \subseteq timers
          /\ UNCHANGED <<owner, m_reaperSetupList, m_reaperList, flushing>>
      BY <1>2 DEF HandleTerminateTimeout
    <2> QED
      BY <1>0, <2>1 DEF Placed, Distinct, Within
  <1>3. ASSUME NEW p \in Process,
               ProcessStarted(p) \/ ProcessFailedToStart(p) \/ HandleFinished(p)
        PROVE  Placed'
    BY <1>3, <1>a DEF ProcessStarted, ProcessFailedToStart, HandleFinished
  <1>4. CASE WaitForFinished \/ WaitForReapers \/ QuitThread
    BY <1>4, <1>a DEF WaitForFinished, WaitForReapers, QuitThread
  <1>5. CASE Flush
    <2>1. /\ flushing'.todo = <<>> /\ flushing'.call # "none"
          /\ UNCHANGED <<owner, m_reaperSetupList, m_reaperList, timers>>
      <3>1. Head(events).type \in {"flush", "blockingFlush"}
        BY <1>5, HeadOfQueue, EventTypes DEF Flush
      <3> QED
        BY <1>5, <3>1 DEF Flush
    <2>2. Distinct(flushing'.todo) /\ \A p : ~Within(p, flushing'.todo)
      BY <2>1, EmptyWithin
    <2>3. /\ Distinct(m_reaperSetupList')
          /\ \A p : Within(p, m_reaperSetupList') <=> Within(p, m_reaperSetupList)
      BY <1>0, <2>1 DEF Placed
    <2> QED
      BY <1>0, <2>1, <2>2, <2>3 DEF Placed
  <1>6. CASE TakeReaperSetupList
    <2>1. /\ m_reaperSetupList' = <<>> /\ flushing'.todo = m_reaperSetupList
          /\ flushing'.call = "none" => flushing'.todo = <<>>
          /\ UNCHANGED <<owner, m_reaperList, timers>>
      BY <1>0, <1>6 DEF TakeReaperSetupList, NotFlushing, TypeOK
    <2>2. Distinct(m_reaperSetupList') /\ \A p : ~Within(p, m_reaperSetupList')
      BY <2>1, EmptyWithin
    <2>3. /\ Distinct(flushing'.todo)
          /\ \A p : Within(p, flushing'.todo) <=> Within(p, m_reaperSetupList)
      BY <1>0, <2>1 DEF Placed
    <2> QED
      BY <1>0, <2>1, <2>2, <2>3 DEF Placed
  <1>7. CASE StartReaper
    <2> DEFINE p == Head(flushing.todo)
    <2>1. /\ p \in Process /\ flushing'.todo = Tail(flushing.todo) /\ flushing'.call = flushing.call
          /\ m_reaperList' = m_reaperList \cup {p} /\ timers' \subseteq timers \cup {p}
          /\ UNCHANGED <<owner, m_reaperSetupList>>
      BY <1>0, <1>7, Shorter DEF StartReaper, TypeOK
    <2>2. /\ Within(p, flushing.todo)
          /\ \A q : Within(q, flushing'.todo) => Within(q, flushing.todo)
          /\ Distinct(flushing'.todo) /\ ~Within(p, flushing'.todo)
      BY <1>0, <1>7, <2>1, TailWithin DEF StartReaper, TypeOK, Placed
    <2>3. /\ Distinct(m_reaperSetupList')
          /\ \A q : Within(q, m_reaperSetupList') <=> Within(q, m_reaperSetupList)
      BY <1>0, <2>1 DEF Placed
    <2>4. flushing.call # "none"
      BY <1>0, <1>7 DEF Placed, StartReaper
    <2> HIDE DEF p
    <2> QED
      BY <1>0, <2>1, <2>2, <2>3, <2>4 DEF Placed
  <1>8. CASE HandleReaperFinished
    <2> DEFINE p == Head(events).process
    <2>1. /\ p \in Process /\ p \in m_reaperList
          /\ m_reaperList' = m_reaperList \ {p} /\ timers' = timers \ {p}
          /\ owner' = [owner EXCEPT ![p] = "deleted"]
          /\ UNCHANGED <<m_reaperSetupList, flushing>>
      BY <1>8, HeadOfQueue DEF HandleReaperFinished
    <2>2. /\ \A q : Within(q, m_reaperSetupList') <=> Within(q, m_reaperSetupList)
          /\ \A q : Within(q, flushing'.todo) <=> Within(q, flushing.todo)
          /\ Distinct(m_reaperSetupList') /\ Distinct(flushing'.todo)
      BY <1>0, <2>1 DEF Placed
    <2> HIDE DEF p
    <2> QED
      BY <1>0, <2>1, <2>2 DEF Placed, TypeOK
  <1>9. CASE UNCHANGED vars
    BY <1>9, <1>a DEF vars
  <1> QED
    BY <1>1, <1>2, <1>3, <1>4, <1>5, <1>6, <1>7, <1>8, <1>9 DEF Next

-----------------------------------------------------------------------------
(* What the events in the queue say.                                       *)

(* An event that is posted comes last.                                     *)
LEMMA Posted ==
    ASSUME TypeOK, NEW e \in Event, events' = Append(events, e)
    PROVE  /\ DOMAIN events = 1 .. Len(events) /\ Len(events) \in Nat
           /\ DOMAIN events' = 1 .. Len(events) + 1 /\ Len(events') = Len(events) + 1
           /\ \A i \in 1 .. Len(events) : events'[i] = events[i]
           /\ events'[Len(events) + 1] = e
  <1>1. events \in Seq(Event)
    BY DEF TypeOK
  <1> QED
    BY <1>1, Longer

LEMMA QueueTyped ==
    ASSUME TypeOK, NEW i \in DOMAIN events
    PROVE  /\ events[i] \in Event
           /\ events[i].type = "finished" => events[i].process \in Process
  <1>1. events \in Seq(Event)
    BY DEF TypeOK
  <1>2. events[i] \in Event
    BY <1>1
  <1> QED
    BY <1>2, EventTypes

(* emitFinished posts its event once, and no flush with it.                *)
LEMMA EmitKeeps ==
    ASSUME IInv, NEW p \in Process, EmitFinished(p),
           p \in m_reaperList', m_reaperList \subseteq m_reaperList',
           \A q \in Process : state[q] = "NotRunning" \/ q = p => state'[q] = "NotRunning"
    PROVE  Told' /\ DeletedOnceAfterTheEnd'
  <1>0. TypeOK /\ Told /\ DeletedOnceAfterTheEnd
    BY DEF IInv
  <1>2. \A i \in DOMAIN events : events[i].type = "finished" => events[i].process \in Process
    BY <1>0, QueueTyped
  <1>3. CASE m_finished[p]
    BY <1>0, <1>2, <1>3 DEF EmitFinished, TypeOK, Told, DeletedOnceAfterTheEnd
  <1>4. CASE ~m_finished[p]
    <2>1. events' = Append(events, FinishedCall(p)) /\ m_finished' = [m_finished EXCEPT ![p] = TRUE]
      BY <1>4 DEF EmitFinished
    <2>2. /\ DOMAIN events = 1 .. Len(events) /\ Len(events) \in Nat
          /\ DOMAIN events' = 1 .. Len(events) + 1 /\ Len(events') = Len(events) + 1
          /\ \A i \in 1 .. Len(events) : events'[i] = events[i]
          /\ events'[Len(events) + 1] = FinishedCall(p)
      BY <1>0, <2>1, EventTypes, Posted
    <2>3. FinishedCall(p).type = "finished" /\ FinishedCall(p).process = p
      BY DEF FinishedCall
    <2>4. \A i \in 1 .. Len(events) : events[i] # FinishedCall(p)
      BY <1>0, <1>4, <2>2, <2>3 DEF Told
    <2>5. Told'
      <3>1. \A q \in Process : m_finished'[q] <=> m_finished[q] \/ q = p
        BY <1>0, <2>1 DEF TypeOK
      <3>2. \A i \in 1 .. Len(events) + 1 :
                events'[i].type = "finished" => m_finished'[events'[i].process]
        BY <1>0, <1>2, <2>2, <2>3, <3>1 DEF Told
      <3> QED
        BY <2>2, <3>2 DEF Told
    <2>6. DeletedOnceAfterTheEnd'
      <3> SUFFICES ASSUME NEW i \in 1 .. Len(events) + 1, events'[i].type = "finished"
                   PROVE  /\ events'[i].process \in m_reaperList'
                          /\ state'[events'[i].process] = "NotRunning"
                          /\ \A j \in 1 .. Len(events) + 1 : events'[j] = events'[i] => j = i
        BY <2>2 DEF DeletedOnceAfterTheEnd
      <3>1. CASE i = Len(events) + 1
        BY <2>2, <2>3, <2>4, <3>1
      <3>2. CASE i \in 1 .. Len(events)
        BY <1>0, <1>2, <2>2, <2>4, <3>2 DEF DeletedOnceAfterTheEnd
      <3> QED
        BY <2>2, <3>1, <3>2
    <2> QED
      BY <2>5, <2>6
  <1> QED
    BY <1>3, <1>4 DEF IInv, TypeOK

(* A flush is no news of a process, and the rest leaves what is told true. *)
LEMMA FlushKeeps ==
    ASSUME IInv, m_reaperList \subseteq m_reaperList', UNCHANGED m_finished,
           \A q \in Process : state[q] = "NotRunning" => state'[q] = "NotRunning",
           \/ events' = events
           \/ \E e \in {FlushCall, BlockingFlushCall} : events' = Append(events, e)
    PROVE  Told' /\ DeletedOnceAfterTheEnd'
  <1>0. TypeOK /\ Told /\ DeletedOnceAfterTheEnd
    BY DEF IInv
  <1>2. \A i \in DOMAIN events : events[i].type = "finished" => events[i].process \in Process
    BY <1>0, QueueTyped
  <1>3. CASE events' = events
    BY <1>0, <1>2, <1>3 DEF Told, DeletedOnceAfterTheEnd
  <1>4. ASSUME NEW e \in {FlushCall, BlockingFlushCall}, events' = Append(events, e)
        PROVE  Told' /\ DeletedOnceAfterTheEnd'
    <2>1. e \in Event /\ e.type # "finished"
      BY EventTypes DEF FlushCall, BlockingFlushCall
    <2>2. /\ DOMAIN events = 1 .. Len(events) /\ Len(events) \in Nat
          /\ DOMAIN events' = 1 .. Len(events) + 1 /\ Len(events') = Len(events) + 1
          /\ \A i \in 1 .. Len(events) : events'[i] = events[i]
          /\ events'[Len(events) + 1] = e
      BY <1>0, <1>4, <2>1, Posted
    <2> QED
      BY <1>0, <1>2, <2>1, <2>2 DEF Told, DeletedOnceAfterTheEnd
  <1> QED
    BY <1>3, <1>4

LEMMA NewsStep == IInv /\ [Next]_vars => Told' /\ DeletedOnceAfterTheEnd'
  <1> SUFFICES ASSUME IInv, [Next]_vars PROVE Told' /\ DeletedOnceAfterTheEnd'
    OBVIOUS
  <1>0. TypeOK /\ Placed /\ Told /\ DeletedOnceAfterTheEnd
    BY DEF IInv
  <1>1. ASSUME NEW p \in Process, Reap(p) PROVE Told' /\ DeletedOnceAfterTheEnd'
    BY <1>1, FlushKeeps DEF Reap, ScheduleReap
  <1>2. ASSUME NEW p \in Process, HandleTerminateTimeout(p) PROVE Told' /\ DeletedOnceAfterTheEnd'
    <2>1. CASE state[p] = "NotRunning"
      <3>1. p \in m_reaperList
        BY <1>0, <1>2 DEF Placed, HandleTerminateTimeout
      <3> QED
        BY <1>2, <2>1, <3>1, EmitKeeps DEF HandleTerminateTimeout
    <2>2. CASE state[p] # "NotRunning"
      BY <1>2, <2>2, FlushKeeps DEF HandleTerminateTimeout
    <2> QED
      BY <2>1, <2>2
  <1>3. ASSUME NEW p \in Process, ProcessStarted(p) \/ ProcessFailedToStart(p)
        PROVE  Told' /\ DeletedOnceAfterTheEnd'
    BY <1>0, <1>3, FlushKeeps DEF ProcessStarted, ProcessFailedToStart, TypeOK
  <1>4. ASSUME NEW p \in Process, HandleFinished(p) PROVE Told' /\ DeletedOnceAfterTheEnd'
    <2>1. \A q \in Process : state[q] = "NotRunning" \/ q = p => state'[q] = "NotRunning"
      BY <1>0, <1>4 DEF HandleFinished, TypeOK
    <2>2. CASE p \in m_reaperList
      BY <1>4, <2>1, <2>2, EmitKeeps DEF HandleFinished
    <2>3. CASE p \notin m_reaperList
      BY <1>4, <2>1, <2>3, FlushKeeps DEF HandleFinished
    <2> QED
      BY <2>2, <2>3
  <1>5. CASE WaitForFinished \/ WaitForReapers \/ QuitThread \/ TakeReaperSetupList
    BY <1>5, FlushKeeps DEF WaitForFinished, WaitForReapers, QuitThread, TakeReaperSetupList
  <1>6. CASE Flush
    <2>1. /\ events # <<>> /\ events' = Tail(events)
          /\ UNCHANGED <<state, m_reaperList, m_finished>>
      BY <1>6 DEF Flush
    <2> QED
      BY <1>0, <2>1, HeadOfQueue DEF Told, DeletedOnceAfterTheEnd
  <1>7. CASE StartReaper
    <2> DEFINE p == Head(flushing.todo)
    <2>1. p \in Process
      BY <1>0, <1>7, Shorter DEF StartReaper, TypeOK
    <2>2. CASE state[p] = "NotRunning"
      BY <1>7, <2>1, <2>2, EmitKeeps DEF StartReaper
    <2>3. CASE state[p] # "NotRunning"
      BY <1>7, <2>3, FlushKeeps DEF StartReaper
    <2> QED
      BY <2>2, <2>3
  <1>8. CASE HandleReaperFinished
    <2> DEFINE p == Head(events).process
    <2>1. /\ events # <<>> /\ events' = Tail(events) /\ Head(events).type = "finished"
          /\ m_reaperList' = m_reaperList \ {p}
          /\ UNCHANGED <<state, m_finished>>
      BY <1>8 DEF HandleReaperFinished
    <2>2. \A i \in 2 .. Len(events) : events[i].type = "finished" => events[i].process # p
      <3>1. \A i \in 2 .. Len(events) : events[i] # Head(events)
        BY <2>1, HeadOfQueue
      <3>2. \A i \in 2 .. Len(events) : events[i] \in Event
        BY <1>0, <2>1, HeadOfQueue, QueueTyped
      <3>3. Head(events) = FinishedCall(p)
        BY <2>1, HeadOfQueue, EventTypes
      <3> QED
        BY <2>1, <3>1, <3>2, <3>3, EventTypes
    <2> QED
      BY <1>0, <2>1, <2>2, HeadOfQueue DEF Told, DeletedOnceAfterTheEnd
  <1>9. CASE UNCHANGED vars
    BY <1>9, FlushKeeps DEF vars
  <1> QED
    BY <1>1, <1>2, <1>3, <1>4, <1>5, <1>6, <1>7, <1>8, <1>9 DEF Next

-----------------------------------------------------------------------------
(* The flushes, and the last of them.                                      *)

(* The queue gets nothing but news of processes that have ended.           *)
NewsOnly ==
    /\ \A i \in 1 .. Len(events) : i \in 1 .. Len(events') /\ events'[i] = events[i]
    /\ \A i \in 1 .. Len(events') : i \in 1 .. Len(events) \/ events'[i].type = "finished"

LEMMA EmitIsNews ==
    ASSUME TypeOK, NEW p \in Process, EmitFinished(p) \/ UNCHANGED events
    PROVE  NewsOnly
  <1>1. CASE events' = events
    BY <1>1 DEF NewsOnly
  <1>2. CASE events' = Append(events, FinishedCall(p))
    <2>1. FinishedCall(p).type = "finished" /\ FinishedCall(p) \in Event
      BY EventTypes DEF FinishedCall
    <2> QED
      BY <1>2, <2>1, Posted DEF NewsOnly
  <1> QED
    BY <1>1, <1>2 DEF EmitFinished

(* When the queue loses its head, a blocking flush stays the last.         *)
LEMMA BlockingInTail ==
    ASSUME Len(events) \in Nat, Len(events') = Len(events) - 1, LastFlush,
           \A k \in 1 .. Len(events) - 1 : events'[k] = events[k + 1],
           NEW i \in 1 .. Len(events'), events'[i].type = "blockingFlush"
    PROVE  /\ destructor = "flush" /\ flushing.call # "blockingFlush"
           /\ \A j \in 1 .. Len(events') : i < j => events'[j].type = "finished"
  <1>1. i + 1 \in 1 .. Len(events)
    OBVIOUS
  <1>2. events[i + 1].type = "blockingFlush"
    OBVIOUS
  <1>3. /\ destructor = "flush" /\ flushing.call # "blockingFlush"
        /\ \A j \in 1 .. Len(events) : i + 1 < j => events[j].type = "finished"
    BY <1>1, <1>2 DEF LastFlush
  <1>4. ASSUME NEW j \in 1 .. Len(events'), i < j PROVE events'[j].type = "finished"
    <2>1. j + 1 \in 1 .. Len(events) /\ i + 1 < j + 1
      BY <1>4
    <2>2. events[j + 1].type = "finished"
      BY <1>3, <2>1
    <2> QED
      BY <2>1, <2>2
  <1> QED
    BY <1>3, <1>4

LEMMA LastFlushStep == IInv /\ [Next]_vars => LastFlush'
  <1> SUFFICES ASSUME IInv, [Next]_vars PROVE LastFlush'
    OBVIOUS
  <1>0. TypeOK /\ Placed /\ LastFlush /\ events \in Seq(Event)
    BY DEF IInv, TypeOK
  <1>00. DOMAIN events = 1 .. Len(events) /\ Len(events) \in Nat
    BY <1>0
  <1>a. CASE NewsOnly /\ UNCHANGED <<destructor, flushing, m_reaperSetupList, m_reaperList>>
    BY <1>0, <1>00, <1>a DEF LastFlush, NewsOnly, NoFlushQueued
  <1>1. ASSUME NEW p \in Process, Reap(p) PROVE LastFlush'
    <2>1. CASE state[p] = "NotRunning"
      BY <1>0, <1>1, <1>a, <2>1, EmitIsNews DEF Reap
    <2>2. CASE state[p] # "NotRunning"
      <3>1. /\ destructor = "none" /\ destructor' = "none" /\ flushing' = flushing
            /\ events' = Append(events, FlushCall)
        BY <1>1, <2>2 DEF Reap, ScheduleReap
      <3>2. FlushCall.type = "flush" /\ FlushCall \in Event
        BY EventTypes DEF FlushCall
      <3>3. \A i \in 1 .. Len(events) : events[i].type # "blockingFlush"
        BY <1>0, <3>1 DEF LastFlush
      <3>4. /\ Len(events') = Len(events) + 1
            /\ \A i \in 1 .. Len(events) : events'[i] = events[i]
            /\ events'[Len(events) + 1] = FlushCall
        BY <1>0, <3>1, <3>2, Posted
      <3>5. \A i \in 1 .. Len(events') : events'[i].type # "blockingFlush"
        BY <1>00, <3>2, <3>3, <3>4
      <3> QED
        BY <1>0, <3>1, <3>5 DEF LastFlush
    <2> QED
      BY <2>1, <2>2
  <1>2. ASSUME NEW p \in Process,
               \/ HandleTerminateTimeout(p) \/ HandleFinished(p)
               \/ ProcessStarted(p) \/ ProcessFailedToStart(p)
        PROVE  LastFlush'
    <2>1. EmitFinished(p) \/ UNCHANGED events
      BY <1>2 DEF HandleTerminateTimeout, HandleFinished, ProcessStarted, ProcessFailedToStart
    <2>2. UNCHANGED <<destructor, flushing, m_reaperSetupList, m_reaperList>>
      BY <1>2 DEF HandleTerminateTimeout, HandleFinished, ProcessStarted, ProcessFailedToStart
    <2> QED
      BY <1>0, <1>a, <2>1, <2>2, EmitIsNews
  <1>3. CASE WaitForFinished
    <2>1. /\ destructor = "none" /\ destructor' = "flush" /\ flushing' = flushing
          /\ events' = Append(events, BlockingFlushCall)
      BY <1>3 DEF WaitForFinished
    <2>2. BlockingFlushCall \in Event
      BY EventTypes
    <2>3. \A i \in 1 .. Len(events) : events[i].type # "blockingFlush"
      BY <1>0, <2>1 DEF LastFlush
    <2>6. /\ Len(events') = Len(events) + 1
          /\ \A i \in 1 .. Len(events) : events'[i] = events[i]
      BY <1>0, <2>1, <2>2, Posted
    <2>4. flushing.call # "blockingFlush"
      BY <1>0, <2>1 DEF LastFlush
    <2>5. \A i, j \in 1 .. Len(events') : events'[i].type = "blockingFlush" => ~(i < j)
      BY <1>00, <2>3, <2>6
    <2> QED
      BY <2>1, <2>4, <2>5 DEF LastFlush
  <1>4. CASE WaitForReapers
    BY <1>0, <1>4 DEF LastFlush, WaitForReapers, NoFlushQueued
  <1>5. CASE QuitThread
    BY <1>0, <1>5 DEF LastFlush, QuitThread, NoFlushQueued
  <1>6. CASE Flush
    <2>1. /\ events # <<>> /\ Head(events).type \in {"flush", "blockingFlush"}
          /\ flushing' = [call |-> Head(events).type, todo |-> <<>>] /\ events' = Tail(events)
          /\ UNCHANGED <<destructor, m_reaperSetupList, m_reaperList>>
      BY <1>6, HeadOfQueue, EventTypes DEF Flush
    <2>0. /\ 1 \in 1 .. Len(events) /\ events[1] = Head(events)
          /\ Len(events') = Len(events) - 1
          /\ \A i \in 1 .. Len(events) - 1 : events'[i] = events[i + 1]
      BY <2>1, HeadOfQueue
    <2>2. destructor \in {"none", "flush"}
      <3>1. ~NoFlushQueued
        BY <2>0, <2>1 DEF NoFlushQueued
      <3> QED
        BY <1>0, <3>1 DEF LastFlush
    <2>3. CASE Head(events).type = "blockingFlush"
      <3>1. /\ destructor = "flush"
            /\ \A j \in 1 .. Len(events) : 1 < j => events[j].type = "finished"
        BY <1>0, <2>0, <2>3 DEF LastFlush
      <3>2. NoFlushQueued'
        BY <1>00, <2>0, <3>1 DEF NoFlushQueued
      <3> QED
        BY <2>1, <3>1, <3>2 DEF LastFlush, NoFlushQueued
    <2>4. CASE Head(events).type = "flush"
      <3>1. flushing'.call = "flush" /\ destructor' \in {"none", "flush"}
        BY <2>1, <2>2, <2>4
      <3>2. flushing.call # "blockingFlush"
        BY <1>6 DEF Flush, InEventLoop, NotFlushing
      <3> QED
        BY <1>0, <1>00, <2>0, <2>1, <3>1, <3>2, BlockingInTail DEF LastFlush
    <2> QED
      BY <2>1, <2>3, <2>4
  <1>7. CASE TakeReaperSetupList
    <2>1. /\ flushing.call # "none" /\ UNCHANGED <<events, m_reaperList>>
          /\ m_reaperSetupList' = <<>> /\ flushing # NotFlushing
      BY <1>0, <1>7 DEF TypeOK,  TakeReaperSetupList, NotFlushing
    <2>2. destructor \in {"none", "flush"}
      BY <1>0, <2>1 DEF LastFlush
    <2>3. CASE m_reaperSetupList = <<>>
      BY <1>0, <1>7, <2>1, <2>2, <2>3 DEF LastFlush, NoFlushQueued, TakeReaperSetupList, NotFlushing
    <2>4. CASE m_reaperSetupList # <<>>
      <3>1. flushing'.call = flushing.call /\ destructor' = destructor
        BY <1>0, <1>7, <2>4 DEF TakeReaperSetupList, TypeOK
      <3> QED
        BY <1>0, <2>1, <2>2, <3>1 DEF LastFlush, NoFlushQueued
    <2> QED
      BY <2>3, <2>4
  <1>8. CASE StartReaper
    <2>1. Head(flushing.todo) \in Process
      BY <1>0, <1>8, Shorter DEF StartReaper, TypeOK
    <2>2. NewsOnly
      BY <1>0, <1>8, <2>1, EmitIsNews DEF StartReaper
    <2>3. flushing.call # "none" /\ flushing # NotFlushing
      BY <1>0, <1>8 DEF StartReaper, Placed, NotFlushing
    <2>4. destructor \in {"none", "flush"} /\ destructor' = destructor
      BY <1>0, <1>8, <2>3 DEF LastFlush, StartReaper
    <2>5. flushing'.call = flushing.call
      BY <1>0, <1>8 DEF StartReaper, TypeOK
    <2> QED
      BY <1>0, <1>00, <2>2, <2>4, <2>5 DEF LastFlush, NewsOnly, NoFlushQueued
  <1>9. CASE HandleReaperFinished
    <2>1. /\ events # <<>> /\ events' = Tail(events)
          /\ m_reaperList' \subseteq m_reaperList
          /\ UNCHANGED <<m_reaperSetupList, flushing>>
          /\ \/ destructor' = destructor
             \/ destructor = "waiting" /\ destructor' = "quit" /\ m_reaperList' = {}
      BY <1>9 DEF HandleReaperFinished
    <2>2. /\ Len(events') = Len(events) - 1
          /\ \A i \in 1 .. Len(events) - 1 : events'[i] = events[i + 1]
      BY <2>1, HeadOfQueue
    <2>3. NoFlushQueued => NoFlushQueued'
      BY <1>00, <2>2 DEF NoFlushQueued
    <2> QED
      BY <1>0, <1>00, <2>1, <2>2, <2>3, BlockingInTail DEF LastFlush
  <1>10. CASE UNCHANGED vars
    BY <1>0, <1>10 DEF vars, LastFlush, NoFlushQueued
  <1> QED
    BY <1>1, <1>2, <1>3, <1>4, <1>5, <1>6, <1>7, <1>8, <1>9, <1>10 DEF Next

(* Who is owned by the reaper is in one of the three places, and the setup *)
(* list is looked at once more.                                            *)
LEMMA ForgottenStep == IInv /\ [Next]_vars => NothingForgotten'
  <1> SUFFICES ASSUME IInv, [Next]_vars PROVE NothingForgotten'
    OBVIOUS
  <1>0. TypeOK /\ Placed /\ NothingForgotten /\ events \in Seq(Event)
    BY DEF IInv, TypeOK
  <1>00. DOMAIN events = 1 .. Len(events) /\ Len(events) \in Nat
    BY <1>0
  <1> DEFINE Due == flushing.call # "none" \/ ~NoFlushQueued
             Held(p) == \/ p \in m_reaperList \/ Within(p, flushing.todo)
                        \/ Within(p, m_reaperSetupList) /\ Due
  <1>h. NothingForgotten <=> \A p \in Process : owner[p] = "reaper" => Held(p)
    BY <1>0, <1>00 DEF NothingForgotten, Within, NoFlushQueued
  <1>hh. NothingForgotten' <=> \A p \in Process : owner'[p] = "reaper" => Held(p)'
    <2>1. DOMAIN events' = 1 .. Len(events')
      BY TypeStep, <1>0 DEF TypeOK
    <2> QED
      BY <2>1 DEF NothingForgotten, Within, NoFlushQueued
  <1>n. NewsOnly => (NoFlushQueued' => NoFlushQueued)
    BY DEF NewsOnly, NoFlushQueued
  <1>a. ASSUME NewsOnly, UNCHANGED <<owner, flushing, m_reaperSetupList, m_reaperList>>
        PROVE  NothingForgotten'
    BY <1>0, <1>h, <1>hh, <1>n, <1>a DEF Within
  <1>1. ASSUME NEW p \in Process, Reap(p) PROVE NothingForgotten'
    <2>1. CASE state[p] = "NotRunning"
      <3>1. /\ owner' = [owner EXCEPT ![p] = "deleted"]
            /\ UNCHANGED <<events, flushing, m_reaperSetupList, m_reaperList>>
        BY <1>1, <2>1 DEF Reap
      <3>2. NoFlushQueued' <=> NoFlushQueued
        BY <3>1 DEF NoFlushQueued
      <3> QED
        BY <1>0, <1>h, <1>hh, <3>1, <3>2 DEF TypeOK, Within
    <2>2. CASE state[p] # "NotRunning"
      <3>1. /\ owner' = [owner EXCEPT ![p] = "reaper"]
            /\ m_reaperSetupList' = Append(m_reaperSetupList, p)
            /\ events' = Append(events, FlushCall)
            /\ UNCHANGED <<flushing, m_reaperList>>
        BY <1>1, <2>2 DEF Reap, ScheduleReap
      <3>2. \A q : Within(q, m_reaperSetupList') <=> Within(q, m_reaperSetupList) \/ q = p
        BY <1>0, <3>1, AppendedWithin DEF TypeOK
      <3>3. FlushCall.type = "flush" /\ FlushCall \in Event
        BY EventTypes DEF FlushCall
      <3>4. ~NoFlushQueued'
        BY <1>0, <3>1, <3>3, Posted DEF NoFlushQueued
      <3>5. \A q : Within(q, flushing'.todo) <=> Within(q, flushing.todo)
        BY <3>1
      <3> QED
        BY <1>0, <1>h, <1>hh, <3>1, <3>2, <3>4, <3>5 DEF TypeOK
    <2> QED
      BY <2>1, <2>2
  <1>2. ASSUME NEW p \in Process,
               \/ HandleTerminateTimeout(p) \/ HandleFinished(p)
               \/ ProcessStarted(p) \/ ProcessFailedToStart(p)
        PROVE  NothingForgotten'
    <2>1. EmitFinished(p) \/ UNCHANGED events
      BY <1>2 DEF HandleTerminateTimeout, HandleFinished, ProcessStarted, ProcessFailedToStart
    <2>2. UNCHANGED <<owner, flushing, m_reaperSetupList, m_reaperList>>
      BY <1>2 DEF HandleTerminateTimeout, HandleFinished, ProcessStarted, ProcessFailedToStart
    <2> QED
      BY <1>0, <1>a, <2>1, <2>2, EmitIsNews
  <1>3. CASE WaitForFinished
    <2>1. /\ events' = Append(events, BlockingFlushCall)
          /\ UNCHANGED <<owner, flushing, m_reaperSetupList, m_reaperList>>
      BY <1>3 DEF WaitForFinished
    <2>2. BlockingFlushCall.type = "blockingFlush" /\ BlockingFlushCall \in Event
      BY EventTypes DEF BlockingFlushCall
    <2>3. ~NoFlushQueued'
      BY <1>0, <2>1, <2>2, Posted DEF NoFlushQueued
    <2> QED
      BY <1>0, <1>h, <1>hh, <2>1, <2>3 DEF Within
  <1>4. CASE WaitForReapers \/ QuitThread \/ UNCHANGED vars
    <2>1. UNCHANGED <<owner, events, flushing, m_reaperSetupList, m_reaperList>>
      BY <1>4 DEF WaitForReapers, QuitThread, vars
    <2> QED
      BY <1>a, <2>1 DEF NewsOnly
  <1>5. CASE Flush
    <2>1. /\ events # <<>> /\ Head(events).type \in {"flush", "blockingFlush"}
          /\ flushing = NotFlushing
          /\ flushing' = [call |-> Head(events).type, todo |-> <<>>]
          /\ UNCHANGED <<owner, m_reaperSetupList, m_reaperList>>
      BY <1>5, HeadOfQueue, EventTypes DEF Flush, InEventLoop
    <2>2. flushing'.call # "none" /\ \A p : ~Within(p, flushing.todo)
      BY <2>1, EmptyWithin DEF NotFlushing
    <2> QED
      BY <1>0, <1>h, <1>hh, <2>1, <2>2 DEF Within
  <1>6. CASE TakeReaperSetupList
    <2>1. /\ flushing'.todo = m_reaperSetupList /\ flushing.todo = <<>>
          /\ UNCHANGED <<owner, m_reaperList>>
      BY <1>0, <1>6 DEF TakeReaperSetupList, NotFlushing, TypeOK
    <2>2. \A p : Within(p, flushing'.todo) <=> Within(p, m_reaperSetupList)
      BY <2>1
    <2>3. \A p : ~Within(p, flushing.todo)
      BY <2>1, EmptyWithin
    <2> QED
      BY <1>0, <1>h, <1>hh, <2>1, <2>2, <2>3
  <1>7. CASE StartReaper
    <2> DEFINE p == Head(flushing.todo)
    <2>1. /\ p \in Process /\ flushing'.todo = Tail(flushing.todo) /\ flushing'.call = flushing.call
          /\ m_reaperList' = m_reaperList \cup {p}
          /\ UNCHANGED <<owner, m_reaperSetupList>>
      BY <1>0, <1>7, Shorter DEF StartReaper, TypeOK
    <2>2. \A q : Within(q, flushing.todo) => q = p \/ Within(q, flushing'.todo)
      BY <1>0, <1>7, <2>1, TailWithin DEF StartReaper, TypeOK
    <2>3. flushing.call # "none"
      BY <1>0, <1>7 DEF Placed, StartReaper
    <2>4. \A q : Within(q, m_reaperSetupList') <=> Within(q, m_reaperSetupList)
      BY <2>1
    <2> HIDE DEF p
    <2> QED
      BY <1>0, <1>h, <1>hh, <2>1, <2>2, <2>3, <2>4
  <1>8. CASE HandleReaperFinished
    <2> DEFINE p == Head(events).process
    <2>1. /\ events # <<>> /\ events' = Tail(events) /\ Head(events).type = "finished"
          /\ p \in Process /\ m_reaperList' = m_reaperList \ {p}
          /\ owner' = [owner EXCEPT ![p] = "deleted"]
          /\ UNCHANGED <<m_reaperSetupList, flushing>>
      BY <1>8, HeadOfQueue DEF HandleReaperFinished
    <2>2. NoFlushQueued' => NoFlushQueued
      <3> SUFFICES ASSUME NoFlushQueued', NEW i \in DOMAIN events PROVE events[i].type = "finished"
        BY DEF NoFlushQueued
      <3>1. CASE i = 1
        BY <2>1, <3>1, HeadOfQueue
      <3>2. CASE i # 1
        <4>1. i - 1 \in DOMAIN events' /\ events'[i - 1] = events[i]
          BY <2>1, <3>2, HeadOfQueue
        <4> QED
          BY <4>1 DEF NoFlushQueued
      <3> QED
        BY <3>1, <3>2
    <2>3. /\ \A q : Within(q, m_reaperSetupList') <=> Within(q, m_reaperSetupList)
          /\ \A q : Within(q, flushing'.todo) <=> Within(q, flushing.todo)
      BY <2>1
    <2> HIDE DEF p
    <2> QED
      BY <1>0, <1>h, <1>hh, <2>1, <2>2, <2>3 DEF TypeOK
  <1> QED
    BY <1>1, <1>2, <1>3, <1>4, <1>5, <1>6, <1>7, <1>8 DEF Next

-----------------------------------------------------------------------------
(* What follows.                                                           *)
LEMMA Inductive == IInv /\ [Next]_vars => IInv'
  BY TypeStep, PlacedStep, NewsStep, LastFlushStep, ForgottenStep DEF IInv

LEMMA Invariant == Spec => []IInv
  <1>1. Init => IInv
    BY Initially
  <1>2. IInv /\ [Next]_vars => IInv'
    BY Inductive
  <1> QED
    BY <1>1, <1>2, PTL DEF Spec

(* The events that are left when the thread quits would be about processes *)
(* that have a Reaper, and none has; nor is any process in another place.  *)
LEMMA LeftBehind == IInv => NothingLeftBehind
  <1> SUFFICES ASSUME IInv, destructor \in {"quit", "done"}
               PROVE  /\ events = <<>> /\ flushing = NotFlushing
                      /\ \A p \in Process : owner[p] # "reaper"
    BY DEF NothingLeftBehind
  <1>1. NoFlushQueued /\ flushing = NotFlushing /\ m_reaperSetupList = <<>> /\ m_reaperList = {}
    BY DEF IInv, LastFlush
  <1>2. events = <<>>
    BY <1>1, HeadOfQueue DEF NoFlushQueued
  <1>3. \A p \in Process : owner[p] # "reaper"
    BY <1>1, EmptyWithin DEF IInv, NothingForgotten, NotFlushing, Within
  <1> QED
    BY <1>1, <1>2, <1>3

(* From its hand-over to its deletion every process is accounted for, and  *)
(* deleted once, after its end; when ~ProcessReaper lets its thread quit,  *)
(* none is left.                                                           *)
THEOREM AllAccounted == Spec => []Accounted
  <1>1. IInv => Accounted
    BY LeftBehind DEF IInv, Accounted
  <1> QED
    BY <1>1, Invariant, PTL

-----------------------------------------------------------------------------
(* The promise, step by step.                                              *)

(* A step that changes the owner of one process, and nothing else that the *)
(* owners can tell.                                                        *)
LEMMA StatusOfOne ==
    ASSUME TypeOK, NEW p \in Process, NEW to \in {"reaper", "deleted"},
           owner' = [owner EXCEPT ![p] = to]
    PROVE  Status' = [Status EXCEPT ![p] = IF to = "reaper" THEN "reaping" ELSE "gone"]
  <1>1. \A q \in Process : owner'[q] = IF q = p THEN to ELSE owner[q]
    BY DEF TypeOK
  <1> QED
    BY <1>1 DEF Status

LEMMA PromisedInit == Init => Promise!Init
  BY DEF Init, Promise!Init, Status, Phase

LEMMA PromisedStep == IInv /\ [Next]_vars => [Promise!Next]_(Promise!vars)
  <1> SUFFICES ASSUME IInv, [Next]_vars PROVE [Promise!Next]_(Promise!vars)
    OBVIOUS
  <1>0. TypeOK
    BY DEF IInv
  <1>a. CASE UNCHANGED <<owner, destructor>>
    BY <1>a DEF Promise!vars, Status, Phase
  <1>1. ASSUME NEW p \in Process, Reap(p) PROVE Promise!Next
    <2>1. CASE state[p] = "NotRunning"
      <3>1. owner[p] = "caller" /\ owner' = [owner EXCEPT ![p] = "deleted"] /\ destructor' = destructor
        BY <1>1, <2>1 DEF Reap
      <3>2. Status' = [Status EXCEPT ![p] = "gone"] /\ Status[p] = "owned" /\ Phase' = Phase
        BY <1>0, <3>1, StatusOfOne DEF Status, Phase
      <3>3. Promise!Delete(p, "owned")
        BY <3>2 DEF Promise!Delete
      <3> QED
        BY <3>3 DEF Promise!Next
    <2>2. CASE state[p] # "NotRunning"
      <3>1. /\ owner[p] = "caller" /\ owner' = [owner EXCEPT ![p] = "reaper"]
            /\ destructor = "none" /\ destructor' = destructor
        BY <1>1, <2>2 DEF Reap
      <3>2. /\ Status' = [Status EXCEPT ![p] = "reaping"] /\ Status[p] = "owned"
            /\ Phase = "running" /\ Phase' = Phase
        BY <1>0, <3>1, StatusOfOne DEF Status, Phase
      <3>3. Promise!Reap(p)
        BY <3>2 DEF Promise!Reap
      <3> QED
        BY <3>3 DEF Promise!Next
    <2> QED
      BY <2>1, <2>2
  <1>2. ASSUME NEW p \in Process,
               \/ HandleTerminateTimeout(p) \/ HandleFinished(p)
               \/ ProcessStarted(p) \/ ProcessFailedToStart(p)
        PROVE  UNCHANGED Promise!vars
    BY <1>2 DEF HandleTerminateTimeout, HandleFinished, ProcessStarted, ProcessFailedToStart,
                Promise!vars, Status, Phase
  <1>3. CASE WaitForFinished
    <2>1. Phase = "running" /\ Phase' = "stopping" /\ Status' = Status
      BY <1>3 DEF WaitForFinished, Phase, Status
    <2> QED
      BY <2>1 DEF Promise!Next, Promise!BeginStop
  <1>4. CASE WaitForReapers
    <2>1. Phase' = Phase /\ Status' = Status
      BY <1>4 DEF WaitForReapers, Phase, Status
    <2> QED
      BY <2>1 DEF Promise!vars
  <1>5. CASE QuitThread
    <2>1. \A p \in Process : owner[p] # "reaper"
      BY <1>5, LeftBehind DEF QuitThread, NothingLeftBehind
    <2>2. Phase = "stopping" /\ Phase' = "stopped" /\ Status' = Status
      BY <1>5 DEF QuitThread, Phase, Status
    <2>3. \A p \in Process : Status[p] # "reaping"
      BY <2>1 DEF Status
    <2> QED
      BY <2>2, <2>3 DEF Promise!Next, Promise!Stop
  <1>6. CASE Flush \/ StartReaper
    BY <1>6, <1>a DEF Flush, StartReaper
  <1>7. CASE TakeReaperSetupList
    <2>1. flushing.call = "blockingFlush" => destructor = "flush"
      BY DEF IInv, LastFlush
    <2>2. Phase' = Phase /\ Status' = Status
      BY <1>7, <2>1 DEF TakeReaperSetupList, Phase, Status
    <2> QED
      BY <2>2 DEF Promise!vars
  <1>8. CASE HandleReaperFinished
    <2> DEFINE p == Head(events).process
    <2>1. /\ p \in Process /\ p \in m_reaperList
          /\ owner' = [owner EXCEPT ![p] = "deleted"]
      BY <1>8, HeadOfQueue DEF HandleReaperFinished
    <2>2. owner[p] = "reaper"
      BY <2>1 DEF IInv, Placed
    <2>3. Phase' = Phase
      BY <1>8 DEF HandleReaperFinished, Phase
    <2> HIDE DEF p
    <2>4. Status' = [Status EXCEPT ![p] = "gone"] /\ Status[p] = "reaping"
      BY <1>0, <2>1, <2>2, StatusOfOne DEF Status
    <2>5. Promise!Delete(p, "reaping")
      BY <2>3, <2>4 DEF Promise!Delete
    <2> QED
      BY <2>1, <2>5 DEF Promise!Next
  <1>9. CASE UNCHANGED vars
    BY <1>9, <1>a DEF vars
  <1> QED
    BY <1>1, <1>2, <1>3, <1>4, <1>5, <1>6, <1>7, <1>8, <1>9 DEF Next

(* Whatever the processes do, and whenever their owners hand them over:    *)
(* the reaper deletes only what it was given, takes nothing more once it   *)
(* is being destroyed, and its destructor returns after the last process.  *)
THEOREM Refinement == Spec => Promise!Safety
  <1>1. Init => Promise!Init
    BY PromisedInit
  <1>2. IInv /\ [Next]_vars => [Promise!Next]_(Promise!vars)
    BY PromisedStep
  <1> QED
    BY <1>1, <1>2, Invariant, PTL DEF Spec, Promise!Safety
=============================================================================
