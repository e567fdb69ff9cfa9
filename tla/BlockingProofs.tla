------------------------------ MODULE BlockingProofs ------------------------------
(***************************************************************************)
(* Proofs about BlockingProcess: its type, that a stored signal is served, *)
(* and that the QtcProcess gets the signals as ProcessInterface promises.  *)
(*                                                                         *)
(* For the last, the invariant follows what has been emitted and not yet   *)
(* handled through the two places where it can be: the signals a call has  *)
(* taken, and those that are stored.                                       *)
(***************************************************************************)
EXTENDS BlockingProcess, SequenceTheorems, TLAPS

(* Only the innermost call can be anywhere but in a slot, and what a call   *)
(* has taken it delivers before anything else.                              *)
InnermostOnly ==
    /\ \A i \in 2 .. Len(stack) : stack[i].pc = "deliver"
    /\ InCall /\ Top.pc # "deliver" => Top.todo = <<>>

(* What has been emitted and not yet handled.                               *)
Taking == IF InCall THEN Top.todo ELSE <<>>
Coming == Taking \o m_signals

(* The rest of what is written, when the first told pieces have been told,  *)
(* and done.                                                                *)
RestAfter(told, rest) ==
    /\ told + Len(rest) = IF interface = "ended" THEN written + 1 ELSE written
    /\ \A i \in 1 .. Len(rest) :
          IF told + i <= written THEN rest[i] = ReadyReadSignal(told + i)
          ELSE \E error \in {"Crashed", "UnknownError"} : rest[i] = DoneSignal(error)

Untold == m_state = "Starting" /\ output = <<>> /\ result = "none"

HasNotStarted == m_state = "NotRunning" /\ interface = "idle" /\ result = "none"
                    /\ written = 0 /\ output = <<>> /\ Coming = <<>>
NothingIsKnown == Untold /\ interface = "Starting" /\ written = 0 /\ Coming = <<>>
StartComes == /\ Untold /\ interface \in {"Running", "ended"}
              /\ Coming # <<>> /\ Head(Coming) = StartedSignal /\ RestAfter(0, Tail(Coming))
FailureComes == Untold /\ interface = "ended" /\ written = 0
                    /\ Coming = <<DoneSignal("FailedToStart")>>
IsRunning == /\ m_state = "Running" /\ interface \in {"Running", "ended"}
             /\ RestAfter(Len(output), Coming)
AllIsTold == m_state = "NotRunning" /\ interface = "ended" /\ Coming = <<>>

Order ==
    /\ output = Contract!FirstOf(Len(output))
    /\ \/ HasNotStarted \/ NothingIsKnown \/ StartComes \/ FailureComes
       \/ IsRunning \/ AllIsTold

InOrder == closed = "no" /\ ~slotWaits => Len(stack) <= 1 /\ Order

IInv == TypeOK /\ NoLostWakeup /\ NoStrandedSignal /\ InnermostOnly /\ InOrder

USE DEF callerVars, sharedVars, interfaceVars
USE BoundsAssumption

-----------------------------------------------------------------------------
(* Sequences: an element put in front, and the first one replaced.          *)
LEMMA Pushed ==
    ASSUME NEW S, NEW s \in Seq(S), NEW e \in S
    PROVE  /\ <<e>> \o s \in Seq(S) /\ <<e>> \o s # <<>>
           /\ Len(<<e>> \o s) = Len(s) + 1 /\ Head(<<e>> \o s) = e
           /\ \A i \in 1 .. Len(s) : (<<e>> \o s)[i + 1] = s[i]
  OBVIOUS

LEMMA Popped ==
    ASSUME NEW S, NEW s \in Seq(S), s # <<>>
    PROVE  /\ Tail(s) \in Seq(S) /\ Head(s) \in S /\ Head(s) = s[1]
           /\ Len(s) \in Nat \ {0} /\ Len(Tail(s)) = Len(s) - 1
           /\ \A i \in 1 .. Len(s) - 1 : Tail(s)[i] = s[i + 1]
  OBVIOUS

LEMMA TopSet ==
    ASSUME NEW S, NEW s \in Seq(S), s # <<>>, NEW e \in S
    PROVE  /\ <<e>> \o Tail(s) \in Seq(S) /\ <<e>> \o Tail(s) # <<>>
           /\ Len(<<e>> \o Tail(s)) = Len(s) /\ Head(<<e>> \o Tail(s)) = e
           /\ \A i \in 2 .. Len(s) : (<<e>> \o Tail(s))[i] = s[i]
  OBVIOUS

LEMMA Cut ==
    ASSUME NEW S, NEW s \in Seq(S), NEW n \in 0 .. Len(s)
    PROVE  /\ SubSeq(s, 1, n) \in Seq(S) /\ SubSeq(s, n + 1, Len(s)) \in Seq(S)
           /\ SubSeq(s, 1, n) \o SubSeq(s, n + 1, Len(s)) = s
           /\ s = <<>> => SubSeq(s, n + 1, Len(s)) = <<>>
  <1>1. Len(s) \in Nat /\ \A i \in 1 .. Len(s) : s[i] \in S
    OBVIOUS
  <1>2. SubSeq(s, 1, n) \in Seq(S)
    <2>1. 1 \in Int /\ n \in Int /\ \A i \in 1 .. n : s[i] \in S
      BY <1>1
    <2> QED
      BY <2>1, SubSeqProperties
  <1>a. SubSeq(s, n + 1, Len(s)) \in Seq(S)
    <2>1. n + 1 \in Int /\ Len(s) \in Int /\ \A i \in n + 1 .. Len(s) : s[i] \in S
      BY <1>1
    <2> QED
      BY <2>1, SubSeqProperties
  <1>3. SubSeq(s, 1, n) \o SubSeq(s, n + 1, Len(s)) = SubSeq(s, 1, Len(s))
    <2>1. 1 \in 1 .. Len(s) + 1 /\ n \in 1 - 1 .. Len(s) /\ Len(s) \in n .. Len(s)
      BY <1>1
    <2> QED
      BY ONLY <2>1, s \in Seq(S), ConcatAdjacentSubSeq, Zenon
  <1>4. SubSeq(s, 1, Len(s)) = s
    BY SubSeqFull
  <1>5. s = <<>> => SubSeq(s, n + 1, Len(s)) = <<>>
    OBVIOUS
  <1> QED
    BY <1>2, <1>a, <1>3, <1>4, <1>5

LEMMA Joined ==
    ASSUME NEW S, NEW s \in Seq(S), NEW t \in Seq(S)
    PROVE  /\ s \o t \in Seq(S) /\ <<>> \o t = t /\ s \o <<>> = s
           /\ \A e \in S : s \o Append(t, e) = Append(s \o t, e)
           /\ s # <<>> => Tail(s \o t) = Tail(s) \o t /\ Head(s \o t) = Head(s)
                            /\ s \o t # <<>>
  OBVIOUS

-----------------------------------------------------------------------------
(* What there is of signals and calls.                                      *)
LEMMA SignalTypes ==
    /\ StartedSignal \in Signal
    /\ \A piece \in 1 .. MaxOutput : ReadyReadSignal(piece) \in Signal
    /\ \A error \in ProcessError : DoneSignal(error) \in Signal
    /\ \A signal \in Signal :
          /\ signal.type \in {"Started", "ReadyRead", "Done"}
          /\ signal.type = "ReadyRead" => signal.piece \in 1 .. MaxOutput
          /\ signal.type = "Done" => signal.error \in ProcessError
    /\ <<>> \in Seq(Signal) /\ <<>> \in Seq(Frame)
  BY DEF Signal, StartedSignal, ReadyReadSignal, DoneSignal

LEMMA JoinedSignals ==
    \A s, t \in Seq(Signal) :
        s # <<>> => Tail(s \o t) = Tail(s) \o t /\ Head(s \o t) = Head(s) /\ s \o t # <<>>
  BY Joined

LEMMA FlushFrameTyped ==
    ASSUME NEW signals \in Seq(Signal)
    PROVE  /\ FlushFrame(signals) \in Frame
           /\ FlushFrame(signals).pc = "deliver" /\ FlushFrame(signals).todo = signals
           /\ <<FlushFrame(signals)>> \in Seq(Frame) /\ <<FlushFrame(signals)>> # <<>>
           /\ Head(<<FlushFrame(signals)>>) = FlushFrame(signals)
           /\ Len(<<FlushFrame(signals)>>) = 1
  BY DEF FlushFrame, Frame

LEMMA FrameParts ==
    ASSUME NEW f \in Frame
    PROVE  /\ f.for \in {"NoSignal", "Started", "ReadyRead", "Done"} /\ f.todo \in Seq(Signal)
           /\ f.pc \in {"check", "asleep", "take", "deliver", "back"}
           /\ f.matched \in BOOLEAN /\ f.inSlot \in BOOLEAN
           /\ f.forever \in BOOLEAN /\ f.split \in BOOLEAN
  BY DEF Frame

LEMMA OneCall ==
    ASSUME NEW signals \in Seq(Signal), stack' = <<FlushFrame(signals)>>
    PROVE  /\ stack' \in Seq(Frame) /\ InnermostOnly' /\ Len(stack') = 1
           /\ InCall' /\ Top'.pc = "deliver" /\ Taking' = signals
  BY FlushFrameTyped DEF InnermostOnly, InCall, Top, Taking

LEMMA TopReplaced ==
    ASSUME TypeOK, InnermostOnly, InCall, NEW f \in Frame, SetTop(f),
           f.pc # "deliver" => f.todo = <<>>
    PROVE  /\ stack' \in Seq(Frame) /\ InnermostOnly' /\ Len(stack') = Len(stack)
           /\ InCall' /\ Top' = f /\ Taking' = f.todo
  <1>1. /\ stack' \in Seq(Frame) /\ stack' # <<>> /\ Len(stack') = Len(stack)
        /\ Head(stack') = f /\ \A i \in 2 .. Len(stack) : stack'[i] = stack[i]
    BY TopSet DEF TypeOK, InCall, SetTop
  <1> QED
    BY <1>1 DEF InnermostOnly, InCall, Top, Taking

LEMMA CallEnds ==
    ASSUME TypeOK, InnermostOnly, InCall, Pop
    PROVE  /\ stack' \in Seq(Frame) /\ InnermostOnly' /\ Len(stack') = Len(stack) - 1
           /\ InCall' => Top'.pc = "deliver"
           /\ Len(stack) <= 1 => Taking' = <<>>
  <1>1. /\ stack' \in Seq(Frame) /\ Len(stack') = Len(stack) - 1 /\ Len(stack) \in Nat \ {0}
        /\ \A i \in 1 .. Len(stack) - 1 : stack'[i] = stack[i + 1]
    BY Popped DEF TypeOK, InCall, Pop
  <1>2. \A i \in 1 .. Len(stack') : stack'[i].pc = "deliver"
    BY <1>1 DEF InnermostOnly
  <1>3. InCall' => Top' = stack'[1] /\ 1 \in 1 .. Len(stack')
    BY <1>1, Popped DEF InCall, Top
  <1>4. Len(stack) <= 1 => ~InCall'
    BY <1>1 DEF InCall
  <1> QED
    BY <1>1, <1>2, <1>3, <1>4 DEF InnermostOnly, Taking

LEMMA CallBegins ==
    ASSUME TypeOK, InnermostOnly, UserCode, NEW f \in Frame, stack' = <<f>> \o stack,
           f.todo = <<>>
    PROVE  /\ stack' \in Seq(Frame) /\ InnermostOnly' /\ Len(stack') = Len(stack) + 1
           /\ InCall' /\ Top' = f /\ Taking' = <<>>
  <1>1. /\ stack' \in Seq(Frame) /\ stack' # <<>> /\ Len(stack') = Len(stack) + 1
        /\ Head(stack') = f /\ \A i \in 1 .. Len(stack) : stack'[i + 1] = stack[i]
        /\ Len(stack) \in Nat
    BY Pushed DEF TypeOK
  <1>2. \A i \in 1 .. Len(stack) : stack[i].pc = "deliver"
    <2>1. Len(stack) > 0 => Top = stack[1] /\ Top.pc = "deliver"
      BY <1>1, Popped DEF UserCode, InCall, Top, TypeOK
    <2> QED
      BY <1>1, <2>1 DEF InnermostOnly
  <1>3. \A i \in 2 .. Len(stack') : stack'[i].pc = "deliver"
    <2> SUFFICES ASSUME NEW i \in 2 .. Len(stack') PROVE stack'[i].pc = "deliver"
      OBVIOUS
    <2>1. i - 1 \in 1 .. Len(stack) /\ stack'[(i - 1) + 1] = stack[i - 1] /\ (i - 1) + 1 = i
      BY <1>1
    <2> QED
      BY <1>2, <2>1
  <1> QED
    BY <1>1, <1>3 DEF InnermostOnly, InCall, Top, Taking

LEMMA NothingMoves ==
    ASSUME UNCHANGED stack
    PROVE  /\ InnermostOnly => InnermostOnly'
           /\ InCall' = InCall /\ Top' = Top /\ Taking' = Taking
  BY DEF InnermostOnly, InCall, Top, Taking

-----------------------------------------------------------------------------
(* What an action does to the calls, and to what is on its way: nothing, it *)
(* takes the first of it, or adds one at its end.                           *)
Served == TypeOK /\ NoLostWakeup /\ NoStrandedSignal /\ InnermostOnly

Kept ==
    /\ stack' \in Seq(Frame) /\ m_signals' \in Seq(Signal)
    /\ InnermostOnly' /\ NoLostWakeup' /\ NoStrandedSignal'

Remains == Kept /\ Coming' = Coming

(* The calls are what they are, and the signals too.                        *)
LEMMA NothingHappens ==
    ASSUME Served, UNCHANGED <<stack, m_signals>>,
           closed = "deleted" => closed' = "deleted",
           flushPosted => flushPosted',
           appending = "wake" => appending' = "wake",
           appending # "no" => appending' # "no" \/ flushPosted'
    PROVE  Remains
  BY NothingMoves DEF Served, TypeOK, Kept, Remains, Coming, NoLostWakeup, NoStrandedSignal

LEMMA FlushStep == ASSUME Served, Flush PROVE Remains /\ Len(stack') = 1
  <1>1. /\ ~InCall /\ stack' = <<FlushFrame(m_signals)>> /\ m_signals' = <<>>
        /\ m_signals \in Seq(Signal) /\ m_signals' \in Seq(Signal)
    BY SignalTypes DEF Flush, InEventLoop, Served, TypeOK
  <1>2. /\ stack' \in Seq(Frame) /\ InnermostOnly' /\ Len(stack') = 1
        /\ Top'.pc = "deliver" /\ Taking' = m_signals
    BY <1>1, OneCall
  <1>3. m_signals \o <<>> = m_signals /\ <<>> \o m_signals = m_signals
    BY <1>1
  <1> QED
    BY <1>1, <1>2, <1>3 DEF Kept, Remains, Coming, Taking, NoLostWakeup, NoStrandedSignal

LEMMA DeliverStep ==
    ASSUME Served, Deliver
    PROVE  /\ Kept /\ Len(stack') = Len(stack)
           /\ Coming # <<>> /\ Coming' = Tail(Coming) /\ Handle(Head(Coming))
           /\ Head(Coming) \in Signal
  <1> DEFINE signal == Head(Top.todo)
             f == [Top EXCEPT !.todo = Tail(@), !.inSlot = TRUE,
                              !.matched = @ \/ signal.type \in {Top.for, "Done"}]
  <1>1. /\ InCall /\ Top.pc = "deliver" /\ Top.todo # <<>> /\ Handle(signal) /\ SetTop(f)
        /\ UNCHANGED <<closed, slotWaits, sharedVars, interfaceVars>>
    BY DEF Deliver
  <1>2. Top \in Frame /\ Top.todo \in Seq(Signal) /\ Top.matched \in BOOLEAN
    BY <1>1, Popped, FrameParts DEF Served, TypeOK, InCall, Top
  <1>3. Tail(Top.todo) \in Seq(Signal) /\ signal \in Signal
    BY <1>1, <1>2, Popped
  <1>4. f \in Frame /\ f.pc = "deliver" /\ f.todo = Tail(Top.todo)
    BY <1>1, <1>2, <1>3 DEF Frame
  <1>5. /\ stack' \in Seq(Frame) /\ InnermostOnly' /\ Len(stack') = Len(stack)
        /\ Top'.pc = "deliver" /\ Taking' = Tail(Top.todo)
    BY <1>1, <1>4, TopReplaced DEF Served
  <1>6. m_signals \in Seq(Signal) /\ UNCHANGED m_signals
    BY <1>1 DEF Served, TypeOK
  <1>7. Kept
    BY <1>1, <1>5, <1>6 DEF Kept, Served, NoLostWakeup, NoStrandedSignal
  <1>8. Coming # <<>> /\ Coming' = Tail(Coming) /\ Head(Coming) = signal
    <2>1. Coming = Top.todo \o m_signals /\ Coming' = Tail(Top.todo) \o m_signals
      BY <1>1, <1>5, <1>6 DEF Coming, Taking
    <2>2. /\ Tail(Top.todo \o m_signals) = Tail(Top.todo) \o m_signals
          /\ Head(Top.todo \o m_signals) = signal /\ Top.todo \o m_signals # <<>>
      <3>1. Top.todo # <<>> /\ Top.todo \in Seq(Signal) /\ m_signals \in Seq(Signal)
        BY <1>1, <1>2, <1>6
      <3> QED
        BY <3>1, JoinedSignals
    <2> QED
      BY <2>1, <2>2
  <1> QED
    BY <1>1, <1>3, <1>5, <1>7, <1>8

LEMMA FlushReturnsStep ==
    ASSUME Served, FlushReturns
    PROVE  Kept /\ Len(stack') <= Len(stack) /\ (Len(stack) <= 1 => Coming' = Coming)
  <1>1. /\ InCall /\ Top.pc = "deliver" /\ Top.todo = <<>>
        /\ UNCHANGED <<m_state, m_killTimer, closed, output, result, slotWaits, sharedVars,
                       interfaceVars>>
    BY DEF FlushReturns
  <1>2. m_signals \in Seq(Signal) /\ Len(stack) \in Nat /\ Top \in Frame
    BY <1>1, Popped DEF Served, TypeOK, InCall, Top
  <1>3. CASE Top.for = "NoSignal"
    <2>1. Pop
      BY <1>3 DEF FlushReturns
    <2>2. /\ stack' \in Seq(Frame) /\ InnermostOnly' /\ Len(stack') = Len(stack) - 1
          /\ InCall' => Top'.pc = "deliver"
          /\ Len(stack) <= 1 => Taking' = <<>>
      BY <1>1, <2>1, CallEnds DEF Served
    <2>3. Kept
      BY <1>1, <1>2, <2>2 DEF Kept, Served, NoLostWakeup, NoStrandedSignal
    <2>4. Len(stack) <= 1 => Coming' = Coming
      BY <1>1, <2>2 DEF Coming, Taking
    <2>5. Len(stack') <= Len(stack)
      BY <1>2, <2>2
    <2> QED
      BY <2>3, <2>4, <2>5
  <1>4. CASE Top.for # "NoSignal"
    <2> DEFINE f == [Top EXCEPT !.pc = IF Top.matched THEN "back" ELSE "check", !.inSlot = FALSE]
    <2>1. SetTop(f)
      BY <1>4 DEF FlushReturns
    <2>2. f \in Frame /\ f.pc \in {"back", "check"} /\ f.todo = <<>>
      BY <1>1, <1>2 DEF Frame
    <2>3. /\ stack' \in Seq(Frame) /\ InnermostOnly' /\ Len(stack') = Len(stack)
          /\ Top' = f /\ Taking' = <<>>
      BY <1>1, <2>1, <2>2, TopReplaced DEF Served
    <2>4. Kept
      BY <1>1, <1>2, <2>2, <2>3 DEF Kept, Served, NoLostWakeup, NoStrandedSignal
    <2>5. Coming' = Coming
      BY <1>1, <2>3 DEF Coming, Taking
    <2> QED
      BY <1>2, <2>3, <2>4, <2>5
  <1> QED
    BY <1>3, <1>4

LEMMA WaitForSignalStep ==
    ASSUME Served, NEW for \in {"Started", "ReadyRead", "Done"}, WaitForSignal(for)
    PROVE  /\ Kept /\ slotWaits' = (slotWaits \/ InCall)
           /\ ~InCall => Coming' = Coming /\ Len(stack') = 1
  <1>1. /\ UserCode /\ handlerThread' = "temporary" /\ slotWaits' = (slotWaits \/ InCall)
        /\ UNCHANGED <<m_state, m_killTimer, closed, output, result, m_signals,
                       flushPosted, appending, interfaceVars>>
    BY DEF WaitForSignal
  <1>2. PICK forever \in BOOLEAN : \E split \in NeedsSplit(forever) :
            stack' = <<[for |-> for, pc |-> "check", todo |-> <<>>, matched |-> FALSE,
                        inSlot |-> FALSE, forever |-> forever, split |-> split]>> \o stack
    BY DEF WaitForSignal
  <1>3. PICK split \in NeedsSplit(forever) :
            stack' = <<[for |-> for, pc |-> "check", todo |-> <<>>, matched |-> FALSE,
                        inSlot |-> FALSE, forever |-> forever, split |-> split]>> \o stack
    BY <1>2
  <1> DEFINE f == [for |-> for, pc |-> "check", todo |-> <<>>, matched |-> FALSE,
                   inSlot |-> FALSE, forever |-> forever, split |-> split]
  <1>4. f \in Frame /\ f.pc = "check" /\ f.todo = <<>>
    BY <1>3, SignalTypes DEF Frame, NeedsSplit
  <1>5. stack' = <<f>> \o stack
    BY <1>3
  <1> HIDE DEF f
  <1>6. /\ stack' \in Seq(Frame) /\ InnermostOnly' /\ Len(stack') = Len(stack) + 1
        /\ InCall' /\ Top' = f /\ Taking' = <<>>
    BY <1>1, <1>4, <1>5, CallBegins DEF Served
  <1>7. Kept
    BY <1>1, <1>4, <1>6 DEF Kept, Served, TypeOK, NoLostWakeup, NoStrandedSignal
  <1>8. ~InCall => Coming' = Coming /\ Len(stack') = 1
    BY <1>1, <1>6 DEF Coming, Taking, InCall
  <1> QED
    BY <1>1, <1>7, <1>8

(* A step that only moves the innermost call, which takes nothing.          *)
LEMMA Waiting ==
    ASSUME Served, InCall, Top.pc # "deliver", NEW f \in Frame, SetTop(f), f.todo = <<>>,
           UNCHANGED <<closed, m_signals, flushPosted>>,
           appending # "no" => appending' # "no" \/ flushPosted',
           f.pc = "asleep" => m_signals = <<>>
    PROVE  Remains /\ Len(stack') = Len(stack)
  <1>1. /\ stack' \in Seq(Frame) /\ InnermostOnly' /\ Len(stack') = Len(stack)
        /\ InCall' /\ Top' = f /\ Taking' = <<>>
    BY TopReplaced DEF Served
  <1>2. Taking = <<>>
    BY DEF Served, InnermostOnly, Taking
  <1> QED
    BY <1>1, <1>2 DEF Kept, Remains, Served, TypeOK, Coming, NoLostWakeup, NoStrandedSignal

LEMMA TopTyped == ASSUME Served, InCall PROVE Top \in Frame /\ Len(stack) \in Nat \ {0}
  BY Popped DEF Served, TypeOK, InCall, Top

LEMMA DoWaitForSignalStep ==
    ASSUME Served, DoWaitForSignal PROVE Remains /\ Len(stack') = Len(stack)
  <1> DEFINE pc == IF m_signals # <<>> THEN "take" ELSE "asleep"
             f == [Top EXCEPT !.pc = pc]
  <1>1. /\ InCall /\ Top.pc = "check" /\ SetTop(f) /\ UNCHANGED sharedVars /\ UNCHANGED closed
    BY DEF DoWaitForSignal
  <1>2. Top \in Frame /\ Top.todo = <<>>
    BY <1>1, TopTyped DEF Served, InnermostOnly
  <1>3. f \in Frame /\ f.pc = pc /\ f.todo = <<>>
    BY <1>2 DEF Frame
  <1> HIDE DEF f
  <1> QED
    BY <1>1, <1>2, <1>3, Waiting

LEMMA WaitTakesStep ==
    ASSUME Served, WaitTakes PROVE Remains /\ Len(stack') = Len(stack)
  <1>1. /\ InCall /\ Top.pc = "take"
        /\ UNCHANGED <<m_state, m_killTimer, closed, output, result, slotWaits, flushPosted,
                       handlerThread, appending, interfaceVars>>
    BY DEF WaitTakes
  <1>2. PICK n \in 0 .. Len(m_signals) :
            /\ m_signals' = SubSeq(m_signals, n + 1, Len(m_signals))
            /\ SetTop([Top EXCEPT !.pc = "deliver", !.todo = SubSeq(m_signals, 1, n)])
    BY DEF WaitTakes, TakeSignals, Taken
  <1> DEFINE first == SubSeq(m_signals, 1, n)
             f == [Top EXCEPT !.pc = "deliver", !.todo = first]
  <1>3. /\ first \in Seq(Signal) /\ m_signals' \in Seq(Signal) /\ first \o m_signals' = m_signals
        /\ m_signals = <<>> => m_signals' = <<>>
    BY <1>2, Cut DEF Served, TypeOK
  <1>4. Top \in Frame /\ Top.todo = <<>>
    BY <1>1, TopTyped DEF Served, InnermostOnly
  <1> HIDE DEF first
  <1>5. f \in Frame /\ f.pc = "deliver" /\ f.todo = first
    BY <1>3, <1>4 DEF Frame
  <1>6. SetTop(f)
    BY <1>2 DEF first
  <1> HIDE DEF f
  <1>7. /\ stack' \in Seq(Frame) /\ InnermostOnly' /\ Len(stack') = Len(stack)
        /\ InCall' /\ Top' = f /\ Taking' = first
    BY <1>1, <1>5, <1>6, TopReplaced DEF Served
  <1>8. Kept
    BY <1>1, <1>3, <1>5, <1>7 DEF Kept, Served, NoLostWakeup, NoStrandedSignal
  <1>9. Coming' = Coming
    <2>1. Coming' = m_signals
      BY <1>3, <1>7 DEF Coming
    <2>2. Coming = <<>> \o m_signals
      BY <1>1, <1>4 DEF Coming, Taking
    <2>3. <<>> \o m_signals = m_signals
      BY DEF Served, TypeOK
    <2> QED
      BY <2>1, <2>2, <2>3
  <1> QED
    BY <1>7, <1>8, <1>9 DEF Remains

LEMMA WaitTimeoutStep ==
    ASSUME Served, WaitTimeout PROVE Remains /\ Len(stack') = Len(stack)
  <1> DEFINE f == [Top EXCEPT !.pc = "back"]
  <1>1. /\ InCall /\ Top.pc \in {"check", "asleep"} /\ SetTop(f)
        /\ UNCHANGED sharedVars /\ UNCHANGED closed
    BY DEF WaitTimeout
  <1>2. Top \in Frame /\ Top.todo = <<>>
    BY <1>1, TopTyped DEF Served, InnermostOnly
  <1>3. f \in Frame /\ f.pc = "back" /\ f.todo = <<>>
    BY <1>2 DEF Frame
  <1> QED
    BY <1>1, <1>3, Waiting

LEMMA MoveToCallerThreadStep ==
    ASSUME Served, MoveToCallerThread
    PROVE  Kept /\ Len(stack') <= Len(stack) /\ (Len(stack) <= 1 => Coming' = Coming)
  <1>1. /\ InCall /\ Top.pc = "back"
        /\ UNCHANGED <<m_state, closed, output, result, slotWaits, m_signals, flushPosted,
                       appending, interface, written>>
    BY DEF MoveToCallerThread
  <1>2. Top \in Frame /\ Top.todo = <<>> /\ Len(stack) \in Nat \ {0}
    BY <1>1, TopTyped DEF Served, InnermostOnly
  <1>3. CASE Top.split /\ ~Top.matched
    <2> DEFINE f == [Top EXCEPT !.pc = "check", !.split = FALSE]
    <2>1. SetTop(f)
      BY <1>3 DEF MoveToCallerThread
    <2>2. f \in Frame /\ f.pc = "check" /\ f.todo = <<>>
      BY <1>2 DEF Frame
    <2>3. Remains /\ Len(stack') = Len(stack)
      BY <1>1, <2>1, <2>2, Waiting
    <2> QED
      BY <1>2, <2>3 DEF Remains
  <1>4. CASE ~(Top.split /\ ~Top.matched)
    <2>1. Pop
      BY <1>4 DEF MoveToCallerThread
    <2>2. /\ stack' \in Seq(Frame) /\ InnermostOnly' /\ Len(stack') = Len(stack) - 1
          /\ InCall' => Top'.pc = "deliver"
          /\ Len(stack) <= 1 => Taking' = <<>>
      BY <1>1, <2>1, CallEnds DEF Served
    <2>3. Kept
      BY <1>1, <2>2 DEF Kept, Served, TypeOK, NoLostWakeup, NoStrandedSignal
    <2>4. Len(stack) <= 1 => Coming' = Coming
      BY <1>1, <1>2, <2>2 DEF Coming, Taking
    <2> QED
      BY <1>2, <2>2, <2>3, <2>4
  <1> QED
    BY <1>3, <1>4

LEMMA WakeOneStep == ASSUME Served, WakeOne PROVE Remains /\ Len(stack') = Len(stack)
  <1>1. /\ appending = "wake" /\ appending' = "post"
        /\ UNCHANGED <<m_state, m_killTimer, closed, output, result, slotWaits, m_signals,
                       flushPosted, handlerThread, interfaceVars>>
    BY DEF WakeOne
  <1>2. CASE InCall /\ Top.pc = "asleep"
    <2> DEFINE f == [Top EXCEPT !.pc = "take"]
    <2>1. SetTop(f)
      BY <1>2 DEF WakeOne
    <2>2. Top \in Frame /\ Top.todo = <<>>
      BY <1>2, TopTyped DEF Served, InnermostOnly
    <2>3. f \in Frame /\ f.pc = "take" /\ f.todo = <<>>
      BY <2>2 DEF Frame
    <2> QED
      BY <1>1, <1>2, <2>1, <2>3, Waiting
  <1>3. CASE ~(InCall /\ Top.pc = "asleep")
    <2>1. UNCHANGED stack
      BY <1>3 DEF WakeOne
    <2> QED
      BY <1>1, <1>3, <2>1, NothingMoves
         DEF Served, TypeOK, Kept, Remains, Coming, NoLostWakeup, NoStrandedSignal
  <1> QED
    BY <1>2, <1>3

LEMMA InterfaceEmitsStep ==
    ASSUME Served, NEW signal \in Signal, InterfaceEmits(signal)
    PROVE  /\ Kept /\ Coming' = Append(Coming, signal)
           /\ Len(stack') = Len(stack) \/ Len(stack') = 1
  <1>1. /\ closed = "no" /\ AppendSignal(signal) /\ UNCHANGED flushPosted /\ UNCHANGED closed
        /\ m_signals \in Seq(Signal) /\ handlerThread \in {"caller", "temporary"}
        /\ Taking \in Seq(Signal)
    <2>1. Taking \in Seq(Signal)
      BY TopTyped, FrameParts, SignalTypes DEF Taking
    <2> QED
      BY <2>1 DEF InterfaceEmits, Served, TypeOK
  <1>2. Append(m_signals, signal) \in Seq(Signal) /\ Append(m_signals, signal) # <<>>
    BY <1>1
  <1>3. Taking \o Append(m_signals, signal) = Append(Coming, signal)
    BY <1>1, Joined DEF Coming
  <1>4. CASE handlerThread = "caller"
    <2>1. /\ ~InCall /\ stack' = <<FlushFrame(Append(m_signals, signal))>> /\ m_signals' = <<>>
          /\ UNCHANGED appending
      BY <1>1, <1>4 DEF AppendSignal, InEventLoop
    <2>2. /\ stack' \in Seq(Frame) /\ InnermostOnly' /\ Len(stack') = 1
          /\ InCall' /\ Top'.pc = "deliver" /\ Taking' = Append(m_signals, signal)
      BY <1>2, <2>1, OneCall
    <2>3. Kept
      BY <2>1, <2>2, SignalTypes DEF Kept, NoLostWakeup, NoStrandedSignal
    <2>4. /\ <<>> \o Append(m_signals, signal) = Append(m_signals, signal)
          /\ Append(m_signals, signal) \o <<>> = Append(m_signals, signal)
      BY <1>2
    <2>5. Coming' = Append(Coming, signal)
      BY <1>3, <2>1, <2>2, <2>4 DEF Coming, Taking
    <2> QED
      BY <2>2, <2>3, <2>5
  <1>5. CASE handlerThread = "temporary"
    <2>1. /\ appending' = "wake" /\ m_signals' = Append(m_signals, signal) /\ UNCHANGED stack
      BY <1>1, <1>5 DEF AppendSignal
    <2>2. InnermostOnly' /\ Taking' = Taking /\ stack' \in Seq(Frame)
      BY <2>1, NothingMoves DEF Served, TypeOK
    <2> QED
      BY <1>2, <1>3, <2>1, <2>2 DEF Kept, Coming, NoLostWakeup, NoStrandedSignal
  <1> QED
    BY <1>1, <1>4, <1>5

-----------------------------------------------------------------------------
(* The signals are served.                                                  *)
LEMMA Initially == Init => IInv
  <1> SUFFICES ASSUME Init PROVE IInv
    OBVIOUS
  <1>1. stack = <<>> /\ m_signals = <<>> /\ output = <<>> /\ m_state = "NotRunning"
        /\ interface = "idle" /\ result = "none" /\ written = 0
    BY DEF Init
  <1>2. <<>> \in Seq(1 .. MaxOutput) /\ Len(<<>>) = 0
    OBVIOUS
  <1>3. TypeOK
    <2>1. <<>> \in Seq(Signal) /\ <<>> \in Seq(Frame)
      BY SignalTypes
    <2>2. stack \in Seq(Frame) /\ m_signals \in Seq(Signal) /\ output \in Seq(1 .. MaxOutput)
      BY <1>1, <1>2, <2>1
    <2>3. 0 \in 0 .. MaxOutput
      OBVIOUS
    <2>4. /\ m_state \in ProcessState /\ result \in ProcessError \cup {"none"}
          /\ interface \in {"idle", "Starting", "Running", "ended"} /\ written \in 0 .. MaxOutput
      BY <1>1, <2>3 DEF ProcessState
    <2>5. m_killTimer = "stopped" /\ closed = "no" /\ slotWaits = FALSE /\ flushPosted = FALSE
          /\ handlerThread = "caller" /\ appending = "no" /\ killed = FALSE
      BY DEF Init
    <2> QED
      BY <2>2, <2>4, <2>5 DEF TypeOK
  <1>4. NoLostWakeup /\ NoStrandedSignal /\ InnermostOnly
    BY <1>1 DEF NoLostWakeup, NoStrandedSignal, InnermostOnly, InCall
  <1>5. Coming = <<>>
    BY <1>1, SignalTypes DEF Coming, Taking, InCall
  <1>6. InOrder
    BY <1>1, <1>2, <1>5 DEF InOrder, Order, HasNotStarted, Contract!FirstOf
  <1> QED
    BY <1>3, <1>4, <1>6 DEF IInv

(* The types that the handlers keep.                                        *)
LEMMA HandleTyped ==
    ASSUME TypeOK, NEW signal \in Signal, Handle(signal)
    PROVE  /\ m_state' \in ProcessState /\ m_killTimer' \in {"stopped", "active"}
           /\ output' \in Seq(1 .. MaxOutput) /\ result' \in ProcessError \cup {"none"}
  <1>1. /\ signal.type \in {"Started", "ReadyRead", "Done"}
        /\ signal.type = "ReadyRead" => signal.piece \in 1 .. MaxOutput
        /\ signal.type = "Done" => signal.error \in ProcessError
    BY SignalTypes
  <1>2. \A piece \in 1 .. MaxOutput : Append(output, piece) \in Seq(1 .. MaxOutput)
    BY DEF TypeOK
  <1>3. output' \in Seq(1 .. MaxOutput)
    BY <1>1, <1>2 DEF Handle, TypeOK
  <1> QED
    BY <1>1, <1>3 DEF Handle, TypeOK, ProcessState

(* Everything but the calls and what is stored.                             *)
OthersTyped ==
    /\ m_state \in ProcessState
    /\ m_killTimer \in {"stopped", "active"}
    /\ closed \in {"no", "closing", "deleted"}
    /\ output \in Seq(1 .. MaxOutput)
    /\ result \in ProcessError \cup {"none"}
    /\ slotWaits \in BOOLEAN
    /\ flushPosted \in BOOLEAN
    /\ handlerThread \in {"caller", "temporary"}
    /\ appending \in {"no", "wake", "post"}
    /\ interface \in {"idle", "Starting", "Running", "ended"}
    /\ killed \in BOOLEAN
    /\ written \in 0 .. MaxOutput

LEMMA OthersStep == Served /\ Next => OthersTyped'
  <1> SUFFICES ASSUME Served, Next PROVE OthersTyped'
    OBVIOUS
  <1>0. OthersTyped
    BY DEF Served, TypeOK, OthersTyped
  <1> USE DEF OthersTyped
  <1>1. CASE UserNext
    <2>1. CASE Start
      BY <1>0, <2>1 DEF Start, ProcessState
    <2>2. CASE Kill
      BY <1>0, <2>2 DEF Kill
    <2>3. CASE Stop
      BY <1>0, <2>3 DEF Stop
    <2>4. CASE Close
      BY <1>0, <2>4 DEF Close, ProcessState
    <2>5. ASSUME NEW for \in {"Started", "ReadyRead", "Done"}, WaitForSignal(for)
          PROVE  OthersTyped'
      BY <1>0, <2>5 DEF WaitForSignal, InCall
    <2> QED
      BY <1>1, <2>1, <2>2, <2>3, <2>4, <2>5 DEF UserNext
  <1>2. CASE CallerNext
    <2>1. CASE KillTimeout
      BY <1>0, <2>1 DEF KillTimeout
    <2>2. CASE DeleteInterfaces
      BY <1>0, <2>2 DEF DeleteInterfaces
    <2>3. CASE Flush
      BY <1>0, <2>3 DEF Flush
    <2>4. CASE Deliver
      <3>1. TypeOK /\ Handle(Head(Coming)) /\ Head(Coming) \in Signal
        BY <2>4, DeliverStep DEF Served
      <3>2. UNCHANGED <<closed, slotWaits, sharedVars, interfaceVars>>
        BY <2>4 DEF Deliver
      <3> QED
        BY <1>0, <3>1, <3>2, HandleTyped
    <2>5. CASE FlushReturns
      BY <1>0, <2>5 DEF FlushReturns
    <2>6. CASE DoWaitForSignal
      BY <1>0, <2>6 DEF DoWaitForSignal
    <2>7. CASE WaitTakes
      BY <1>0, <2>7 DEF WaitTakes
    <2>8. CASE WaitTimeout
      BY <1>0, <2>8 DEF WaitTimeout
    <2>9. CASE MoveToCallerThread
      BY <1>0, <2>9 DEF MoveToCallerThread
    <2> QED
      BY <1>2, <2>1, <2>2, <2>3, <2>4, <2>5, <2>6, <2>7, <2>8, <2>9 DEF CallerNext
  <1>3. CASE HandlerNext
    <2>1. CASE WakeOne
      BY <1>0, <2>1 DEF WakeOne
    <2>2. CASE PostFlush
      BY <1>0, <2>2 DEF PostFlush
    <2>3. \A signal : InterfaceEmits(signal) =>
              /\ appending' \in {"no", "wake", "post"}
              /\ UNCHANGED <<m_state, m_killTimer, closed, output, result, slotWaits,
                             flushPosted, handlerThread, killed>>
      BY <1>0 DEF InterfaceEmits, AppendSignal
    <2>4. CASE InterfaceStarted
      BY <1>0, <2>3, <2>4 DEF InterfaceStarted
    <2>5. CASE InterfaceReadyRead
      BY <1>0, <2>3, <2>5 DEF InterfaceReadyRead
    <2>6. CASE InterfaceDone
      BY <1>0, <2>3, <2>6 DEF InterfaceDone
    <2> QED
      BY <1>3, <2>1, <2>2, <2>4, <2>5, <2>6 DEF HandlerNext
  <1> QED
    BY <1>1, <1>2, <1>3 DEF Next

(* What the interface emits is a signal.                                    *)
LEMMA EmitsASignal ==
    ASSUME Served, InterfaceStarted \/ InterfaceReadyRead \/ InterfaceDone
    PROVE  \E signal \in Signal : InterfaceEmits(signal)
  <1>1. CASE InterfaceStarted
    BY <1>1, SignalTypes DEF InterfaceStarted
  <1>2. CASE InterfaceReadyRead
    <2>1. written + 1 \in 1 .. MaxOutput /\ InterfaceEmits(ReadyReadSignal(written + 1))
      BY <1>2 DEF InterfaceReadyRead, Served, TypeOK
    <2> QED
      BY <2>1, SignalTypes
  <1>3. CASE InterfaceDone
    <2>1. \E error \in ProcessError : InterfaceEmits(DoneSignal(error))
      BY <1>3 DEF InterfaceDone, ProcessError
    <2> QED
      BY <2>1, SignalTypes
  <1> QED
    BY <1>1, <1>2, <1>3

LEMMA KeptStep == Served /\ Next => Kept
  <1> SUFFICES ASSUME Served, Next PROVE Kept
    OBVIOUS
  <1>1. CASE Start \/ Kill \/ Stop \/ Close \/ KillTimeout
    <2>1. /\ UNCHANGED <<stack, m_signals, flushPosted, appending>>
          /\ closed = "deleted" => closed' = "deleted"
      BY <1>1 DEF Start, Kill, Stop, Close, KillTimeout
    <2> QED
      BY <2>1, NothingHappens DEF Remains
  <1>2. ASSUME NEW for \in {"Started", "ReadyRead", "Done"}, WaitForSignal(for) PROVE Kept
    BY <1>2, WaitForSignalStep
  <1>3. CASE DeleteInterfaces
    <2>1. UNCHANGED stack /\ m_signals' = <<>>
      BY <1>3 DEF DeleteInterfaces
    <2> QED
      BY <2>1, NothingMoves, SignalTypes
         DEF Kept, Served, TypeOK, NoLostWakeup, NoStrandedSignal
  <1>4. CASE Flush
    BY <1>4, FlushStep DEF Remains
  <1>5. CASE Deliver
    BY <1>5, DeliverStep
  <1>6. CASE FlushReturns
    BY <1>6, FlushReturnsStep
  <1>7. CASE DoWaitForSignal
    BY <1>7, DoWaitForSignalStep DEF Remains
  <1>8. CASE WaitTakes
    BY <1>8, WaitTakesStep DEF Remains
  <1>9. CASE WaitTimeout
    BY <1>9, WaitTimeoutStep DEF Remains
  <1>10. CASE MoveToCallerThread
    BY <1>10, MoveToCallerThreadStep
  <1>11. CASE WakeOne
    BY <1>11, WakeOneStep DEF Remains
  <1>12. CASE PostFlush
    <2>1. /\ appending = "post" /\ appending' = "no" /\ flushPosted' = TRUE
          /\ UNCHANGED <<callerVars, m_signals, handlerThread, interfaceVars>>
      BY <1>12 DEF PostFlush
    <2> QED
      BY <2>1, NothingHappens DEF Remains
  <1>13. CASE InterfaceStarted \/ InterfaceReadyRead \/ InterfaceDone
    <2>1. PICK signal \in Signal : InterfaceEmits(signal)
      BY <1>13, EmitsASignal
    <2> QED
      BY <2>1, InterfaceEmitsStep
  <1> QED
    BY <1>1, <1>2, <1>3, <1>4, <1>5, <1>6, <1>7, <1>8, <1>9, <1>10, <1>11, <1>12, <1>13
       DEF Next, UserNext, CallerNext, HandlerNext

LEMMA ServedStep == Served /\ [Next]_vars => Served'
  <1>1. Served /\ Next => Served'
    BY KeptStep, OthersStep DEF Kept, OthersTyped, Served, TypeOK
  <1>2. Served /\ UNCHANGED vars => Served'
    BY DEF vars, Served, TypeOK, NoLostWakeup, NoStrandedSignal, InnermostOnly, InCall, Top
  <1> QED
    BY <1>1, <1>2

(* No call sleeps over a stored signal, and a flush is due for every one,   *)
(* whatever the two threads do, and however deep calls nest.                *)
THEOREM AlwaysServed == Spec => []SignalsAreServed
  <1>1. Init => Served
    BY Initially DEF IInv, Served
  <1> QED
    BY <1>1, ServedStep, PTL DEF Spec, Served, SignalsAreServed

-----------------------------------------------------------------------------
(* The order of the signals.                                                *)
LEMMA FirstPieces ==
    ASSUME NEW n \in Nat
    PROVE  /\ Contract!FirstOf(n) \in Seq(Nat) /\ Len(Contract!FirstOf(n)) = n
           /\ Append(Contract!FirstOf(n), n + 1) = Contract!FirstOf(n + 1)
           /\ Contract!FirstOf(0) = <<>>
  BY DEF Contract!FirstOf

LEMMA NextPiece ==
    ASSUME NEW told \in Nat, NEW rest \in Seq(Signal), rest # <<>>, written \in Nat,
           RestAfter(told, rest)
    PROVE  \/ /\ told + 1 <= written /\ Head(rest) = ReadyReadSignal(told + 1)
              /\ RestAfter(told + 1, Tail(rest))
           \/ /\ told = written /\ interface = "ended" /\ Tail(rest) = <<>>
              /\ \E error \in {"Crashed", "UnknownError"} : Head(rest) = DoneSignal(error)
  <1>1. /\ Tail(rest) \in Seq(Signal) /\ Head(rest) = rest[1] /\ Len(rest) \in Nat \ {0}
        /\ Len(Tail(rest)) = Len(rest) - 1
        /\ \A i \in 1 .. Len(rest) - 1 : Tail(rest)[i] = rest[i + 1]
    BY Popped
  <1>a. Len(rest) = 1 => Tail(rest) = <<>>
    <2>1. \A s \in Seq(Signal) : s # <<>> => Len(s) \in Nat \ {0}
      BY EmptySeq
    <2>2. Len(rest) = 1 => Len(Tail(rest)) = 0
      BY <1>1
    <2> QED
      BY <1>1, <2>1, <2>2
  <1>2. CASE told + 1 <= written
    <2>1. Head(rest) = ReadyReadSignal(told + 1)
      BY <1>1, <1>2 DEF RestAfter
    <2>2. told + 1 + Len(Tail(rest)) = told + Len(rest)
      BY <1>1
    <2>3. ASSUME NEW i \in 1 .. Len(Tail(rest))
          PROVE  IF told + 1 + i <= written THEN Tail(rest)[i] = ReadyReadSignal(told + 1 + i)
                 ELSE \E error \in {"Crashed", "UnknownError"} : Tail(rest)[i] = DoneSignal(error)
      <3>1. i + 1 \in 1 .. Len(rest) /\ told + 1 + i = told + (i + 1)
            /\ Tail(rest)[i] = rest[i + 1]
        BY <1>1
      <3> QED
        BY <3>1 DEF RestAfter
    <2> QED
      BY <1>2, <2>1, <2>2, <2>3 DEF RestAfter
  <1>3. CASE ~(told + 1 <= written)
    <2>1. told = written /\ interface = "ended" /\ Len(rest) = 1
      BY <1>1, <1>3 DEF RestAfter
    <2>2. \E error \in {"Crashed", "UnknownError"} : rest[1] = DoneSignal(error)
      BY <1>1, <1>3 DEF RestAfter
    <2> QED
      BY <1>1, <1>a, <2>1, <2>2
  <1> QED
    BY <1>2, <1>3

LEMMA OnePieceMore ==
    ASSUME NEW told \in Nat, NEW rest \in Seq(Signal), written \in Nat,
           RestAfter(told, rest), interface = "Running", UNCHANGED interface,
           written' = written + 1, NEW more, more = Append(rest, ReadyReadSignal(written + 1))
    PROVE  RestAfter(told, more)'
  <1>1. /\ Len(more) = Len(rest) + 1 /\ Len(rest) \in Nat
        /\ \A i \in 1 .. Len(rest) : more[i] = rest[i]
        /\ more[Len(rest) + 1] = ReadyReadSignal(written + 1)
    OBVIOUS
  <1>2. told + Len(rest) = written
    BY DEF RestAfter
  <1>3. \A i \in 1 .. Len(more) :
            told + i <= written + 1 /\ more[i] = ReadyReadSignal(told + i)
    <2> SUFFICES ASSUME NEW i \in 1 .. Len(more)
                 PROVE  told + i <= written + 1 /\ more[i] = ReadyReadSignal(told + i)
      OBVIOUS
    <2>1. CASE i = Len(rest) + 1
      BY <1>1, <1>2, <2>1
    <2>2. CASE i \in 1 .. Len(rest)
      BY <1>1, <1>2, <2>2 DEF RestAfter
    <2> QED
      BY <1>1, <2>1, <2>2
  <1> QED
    BY <1>1, <1>2, <1>3 DEF RestAfter

LEMMA DoneAtTheEnd ==
    ASSUME NEW told \in Nat, NEW rest \in Seq(Signal), written \in Nat,
           RestAfter(told, rest), interface = "Running", interface' = "ended",
           UNCHANGED written, NEW error \in {"Crashed", "UnknownError"},
           NEW more, more = Append(rest, DoneSignal(error))
    PROVE  RestAfter(told, more)'
  <1>1. /\ Len(more) = Len(rest) + 1 /\ Len(rest) \in Nat
        /\ \A i \in 1 .. Len(rest) : more[i] = rest[i]
        /\ more[Len(rest) + 1] = DoneSignal(error)
    OBVIOUS
  <1>2. told + Len(rest) = written
    BY DEF RestAfter
  <1>3. \A i \in 1 .. Len(rest) : told + i <= written /\ more[i] = ReadyReadSignal(told + i)
    BY <1>1, <1>2 DEF RestAfter
  <1>4. ~(told + (Len(rest) + 1) <= written)
    BY <1>1, <1>2
  <1>5. \A i \in 1 .. Len(more) :
            IF told + i <= written THEN more[i] = ReadyReadSignal(told + i)
            ELSE \E e \in {"Crashed", "UnknownError"} : more[i] = DoneSignal(e)
    <2> SUFFICES ASSUME NEW i \in 1 .. Len(more)
                 PROVE  IF told + i <= written THEN more[i] = ReadyReadSignal(told + i)
                        ELSE \E e \in {"Crashed", "UnknownError"} : more[i] = DoneSignal(e)
      OBVIOUS
    <2>1. CASE i = Len(rest) + 1
      BY <1>1, <1>4, <2>1
    <2>2. CASE i \in 1 .. Len(rest)
      BY <1>3, <2>2
    <2> QED
      BY <1>1, <2>1, <2>2
  <1> QED
    BY <1>1, <1>2, <1>5 DEF RestAfter

-----------------------------------------------------------------------------
(* The steps of the contract, in terms of the QtcProcess.                   *)
Starts ==
    /\ m_state = "NotRunning" /\ result = "none" /\ m_state' = "Starting"
    /\ UNCHANGED <<closed, result, written, output>>
HasStarted ==
    /\ m_state = "Starting" /\ m_state' = "Running"
    /\ UNCHANGED <<closed, result, written, output>>
Reads ==
    /\ m_state = "Running" /\ Len(output) + 1 <= written
    /\ output' = Contract!FirstOf(Len(output) + 1)
    /\ UNCHANGED <<closed, m_state, result, written>>
Ends ==
    /\ \/ m_state = "Starting" /\ result' = "FailedToStart"
       \/ m_state = "Running" /\ result' \in {"Crashed", "UnknownError"}
    /\ output = Contract!FirstOf(written) /\ m_state' = "NotRunning"
    /\ UNCHANGED <<closed, written, output>>
Closes == closed' = "closing" /\ UNCHANGED <<result, written, output>>
Writes ==
    /\ written < MaxOutput /\ written' = written + 1
    /\ UNCHANGED <<closed, m_state, result, output>>

Contracted ==
    \/ Starts \/ HasStarted \/ Reads \/ Ends \/ Closes \/ Writes
    \/ UNCHANGED <<closed, m_state, result, written, output>>

LEMMA ContractStep ==
    ASSUME closed = "no", output \in Seq(1 .. MaxOutput), written \in Nat, Contracted
    PROVE  [Contract!Next]_(Contract!vars)
  <1>1. CASE Starts
    <2>1. Contract!Start("process")
      BY <1>1 DEF Starts, Contract!Start
    <2> QED
      BY <2>1 DEF Contract!Next
  <1>2. CASE HasStarted
    <2>1. Contract!Started("process")
      BY <1>2 DEF HasStarted, Contract!Started
    <2> QED
      BY <2>1 DEF Contract!Next
  <1>3. CASE Reads
    <2>1. Len(output) + 1 \in Len(output) + 1 .. written
      BY <1>3 DEF Reads
    <2>2. Contract!ReadyRead("process")
      BY <1>3, <2>1 DEF Reads, Contract!ReadyRead
    <2> QED
      BY <2>2 DEF Contract!Next
  <1>4. CASE Ends
    <2>1. Contract!Done("process")
      BY <1>4 DEF Ends, Contract!Done
    <2> QED
      BY <2>1 DEF Contract!Next
  <1>5. CASE Closes
    <2>1. Contract!Close("process")
      BY <1>5 DEF Closes, Contract!Close
    <2> QED
      BY <2>1 DEF Contract!Next
  <1>6. CASE Writes
    <2>1. Contract!ChildWrites("process")
      BY <1>6 DEF Writes, Contract!ChildWrites
    <2> QED
      BY <2>1 DEF Contract!Next
  <1>7. CASE UNCHANGED <<closed, m_state, result, written, output>>
    BY <1>7 DEF Contract!vars
  <1> QED
    BY <1>1, <1>2, <1>3, <1>4, <1>5, <1>6, <1>7 DEF Contracted

-----------------------------------------------------------------------------
(* What a step does to the order.                                           *)
LEMMA OrderKept ==
    ASSUME Order, UNCHANGED <<m_state, interface, result, written, output>>, Coming' = Coming
    PROVE  Order'
  BY DEF Order, HasNotStarted, NothingIsKnown, StartComes, FailureComes, IsRunning, AllIsTold,
         Untold, RestAfter

LEMMA DeliverInOrder ==
    ASSUME Served, Order, Deliver PROVE Order' /\ Contracted
  <1>1. /\ Coming # <<>> /\ Coming' = Tail(Coming) /\ Handle(Head(Coming))
        /\ UNCHANGED <<closed, slotWaits, sharedVars, interfaceVars>>
    BY DeliverStep DEF Deliver
  <1>2. /\ output \in Seq(1 .. MaxOutput) /\ Len(output) \in Nat /\ written \in Nat
        /\ Coming \in Seq(Signal) /\ output = Contract!FirstOf(Len(output))
    <2>1. Coming \in Seq(Signal)
      BY TopTyped, FrameParts, Joined DEF Coming, Taking, Served, TypeOK, Deliver
    <2> QED
      BY <2>1 DEF Served, TypeOK, Order
  <1>3. CASE StartComes
    <2>1. /\ Head(Coming) = StartedSignal /\ m_state = "Starting" /\ output = <<>>
          /\ RestAfter(0, Tail(Coming)) /\ interface \in {"Running", "ended"}
      BY <1>3 DEF StartComes, Untold
    <2>2. m_state' = "Running" /\ UNCHANGED <<output, result>>
      BY <1>1, <2>1 DEF Handle, StartedSignal
    <2>3. RestAfter(0, Coming)'
      BY <1>1, <2>1 DEF RestAfter
    <2>4. Len(output) = 0
      BY <2>1
    <2>5. IsRunning'
      BY <1>1, <2>1, <2>2, <2>3, <2>4 DEF IsRunning
    <2> QED
      BY <1>1, <1>2, <2>1, <2>2, <2>5 DEF Order, Contracted, HasStarted
  <1>4. CASE FailureComes
    <2>1. /\ Coming = <<DoneSignal("FailedToStart")>> /\ m_state = "Starting" /\ output = <<>>
          /\ written = 0 /\ interface = "ended"
      BY <1>4 DEF FailureComes, Untold
    <2>2. Head(Coming) = DoneSignal("FailedToStart") /\ Tail(Coming) = <<>>
      BY <2>1
    <2>3. m_state' = "NotRunning" /\ result' = "FailedToStart" /\ UNCHANGED output
      BY <1>1, <2>2 DEF Handle, DoneSignal
    <2>4. AllIsTold'
      BY <1>1, <2>1, <2>2, <2>3 DEF AllIsTold
    <2>5. output = Contract!FirstOf(written)
      BY <2>1, FirstPieces
    <2> QED
      BY <1>1, <1>2, <2>1, <2>3, <2>4, <2>5 DEF Order, Contracted, Ends
  <1>5. CASE IsRunning
    <2> DEFINE told == Len(output)
    <2>1. m_state = "Running" /\ interface \in {"Running", "ended"} /\ RestAfter(told, Coming)
      BY <1>5 DEF IsRunning
    <2>2. CASE /\ told + 1 <= written /\ Head(Coming) = ReadyReadSignal(told + 1)
               /\ RestAfter(told + 1, Tail(Coming))
      <3>1. output' = Append(output, told + 1) /\ UNCHANGED <<m_state, result>>
        <4> DEFINE signal == Head(Coming)
        <4>1. Handle(signal) /\ signal.type = "ReadyRead" /\ signal.piece = told + 1
          BY <1>1, <2>2 DEF ReadyReadSignal
        <4> HIDE DEF signal
        <4> QED
          BY <4>1 DEF Handle
      <3>2. output' = Contract!FirstOf(told + 1) /\ Len(output') = told + 1
        <4>1. told \in Nat /\ told + 1 \in Nat /\ output = Contract!FirstOf(told)
          BY <1>2
        <4>2. Append(Contract!FirstOf(told), told + 1) = Contract!FirstOf(told + 1)
          BY ONLY <4>1, FirstPieces
        <4>3. Len(Contract!FirstOf(told + 1)) = told + 1
          BY ONLY <4>1, FirstPieces
        <4> HIDE DEF told
        <4> QED
          BY <3>1, <4>1, <4>2, <4>3
      <3>3. RestAfter(told + 1, Tail(Coming)) <=> RestAfter(Len(output), Coming)'
        BY <1>1, <3>2 DEF RestAfter
      <3>4. IsRunning'
        BY <1>1, <2>1, <2>2, <3>1, <3>3 DEF IsRunning
      <3> QED
        BY <1>1, <2>1, <2>2, <3>1, <3>2, <3>4 DEF Order, Contracted, Reads
    <2>3. CASE /\ told = written /\ interface = "ended" /\ Tail(Coming) = <<>>
               /\ \E error \in {"Crashed", "UnknownError"} : Head(Coming) = DoneSignal(error)
      <3>1. m_state' = "NotRunning" /\ result' \in {"Crashed", "UnknownError"} /\ UNCHANGED output
        BY <1>1, <2>3 DEF Handle, DoneSignal
      <3>2. AllIsTold'
        BY <1>1, <2>3, <3>1 DEF AllIsTold
      <3> QED
        BY <1>1, <1>2, <2>1, <2>3, <3>1, <3>2 DEF Order, Contracted, Ends
    <2> QED
      BY <1>1, <1>2, <2>1, <2>2, <2>3, NextPiece
  <1> QED
    BY <1>1, <1>3, <1>4, <1>5 DEF Order, HasNotStarted, NothingIsKnown, AllIsTold

LEMMA ComingTyped == ASSUME Served PROVE Coming \in Seq(Signal)
  <1>1. Taking \in Seq(Signal) /\ m_signals \in Seq(Signal)
    BY TopTyped, FrameParts, SignalTypes DEF Taking, Served, TypeOK
  <1> QED
    BY <1>1, Joined DEF Coming

LEMMA HeadAndEnd ==
    ASSUME NEW s \in Seq(Signal), s # <<>>, NEW signal \in Signal
    PROVE  /\ Append(s, signal) # <<>> /\ Head(Append(s, signal)) = Head(s)
           /\ Tail(Append(s, signal)) = Append(Tail(s), signal) /\ Tail(s) \in Seq(Signal)
  OBVIOUS

LEMMA StartedInOrder ==
    ASSUME Served, Order, InterfaceStarted PROVE Order' /\ Contracted
  <1>1. /\ interface = "Starting" /\ interface' = "Running" /\ UNCHANGED written
        /\ UNCHANGED <<m_state, closed, output, result>> /\ InterfaceEmits(StartedSignal)
    BY DEF InterfaceStarted, InterfaceEmits
  <1>2. Coming' = Append(Coming, StartedSignal)
    BY <1>1, InterfaceEmitsStep, SignalTypes
  <1>3. Untold /\ written = 0 /\ Coming = <<>>
    BY <1>1 DEF Order, HasNotStarted, NothingIsKnown, StartComes, FailureComes, IsRunning,
                AllIsTold
  <1>4. Coming' = <<StartedSignal>>
    BY <1>2, <1>3
  <1>5. Coming' # <<>> /\ Head(Coming') = StartedSignal /\ Tail(Coming') = <<>> /\ Len(<<>>) = 0
    <2>1. \A e : <<e>> # <<>> /\ Head(<<e>>) = e /\ Tail(<<e>>) = <<>> /\ Len(<<>>) = 0
      OBVIOUS
    <2> QED
      BY <1>4, <2>1
  <1>6. RestAfter(0, Tail(Coming))'
    <2>1. Len(Tail(Coming')) = 0
      BY <1>5
    <2>2. written' = 0 /\ interface' # "ended"
      BY <1>1, <1>3
    <2> QED
      BY <2>1, <2>2 DEF RestAfter
  <1>7. StartComes'
    BY <1>1, <1>3, <1>5, <1>6 DEF StartComes, Untold
  <1> QED
    BY <1>1, <1>7 DEF Order, Contracted

LEMMA ReadyReadInOrder ==
    ASSUME Served, Order, InterfaceReadyRead PROVE Order' /\ Contracted
  <1> DEFINE signal == ReadyReadSignal(written + 1)
  <1>1. /\ interface = "Running" /\ UNCHANGED interface
        /\ written < MaxOutput /\ written' = written + 1
        /\ UNCHANGED <<m_state, closed, output, result>> /\ InterfaceEmits(signal)
    BY DEF InterfaceReadyRead, InterfaceEmits
  <1>2. /\ signal \in Signal /\ written \in Nat /\ Len(output) \in Nat
    <2>1. written + 1 \in 1 .. MaxOutput
      BY <1>1 DEF Served, TypeOK
    <2> QED
      BY <2>1, SignalTypes DEF Served, TypeOK
  <1>3. Coming' = Append(Coming, signal) /\ Coming \in Seq(Signal)
    BY <1>1, <1>2, InterfaceEmitsStep, ComingTyped
  <1>4. CASE StartComes
    <2>1. /\ Untold /\ Coming # <<>> /\ Head(Coming) = StartedSignal
          /\ RestAfter(0, Tail(Coming))
      BY <1>4 DEF StartComes
    <2>2. /\ Coming' # <<>> /\ Head(Coming') = StartedSignal
          /\ Tail(Coming') = Append(Tail(Coming), signal) /\ Tail(Coming) \in Seq(Signal)
      BY <1>2, <1>3, <2>1, HeadAndEnd
    <2>3. RestAfter(0, Tail(Coming))'
      BY <1>1, <1>2, <2>1, <2>2, OnePieceMore
    <2>4. StartComes'
      BY <1>1, <2>1, <2>2, <2>3 DEF StartComes, Untold
    <2> QED
      BY <1>1, <2>4 DEF Order, Contracted, Writes
  <1>5. CASE IsRunning
    <2>1. m_state = "Running" /\ RestAfter(Len(output), Coming)
      BY <1>5 DEF IsRunning
    <2>2. RestAfter(Len(output), Coming)'
      BY <1>1, <1>2, <1>3, <2>1, OnePieceMore
    <2>3. IsRunning'
      BY <1>1, <2>1, <2>2 DEF IsRunning
    <2> QED
      BY <1>1, <2>3 DEF Order, Contracted, Writes
  <1> QED
    BY <1>1, <1>4, <1>5 DEF Order, HasNotStarted, NothingIsKnown, FailureComes, AllIsTold

LEMMA DoneInOrder ==
    ASSUME Served, Order, InterfaceDone PROVE Order' /\ Contracted
  <1>1. /\ interface \in {"Starting", "Running"} /\ interface' = "ended" /\ UNCHANGED written
        /\ \E error \in ProcessError :
              /\ InterfaceEmits(DoneSignal(error))
              /\ interface = "Starting" <=> error = "FailedToStart"
    <2>1. interface \in {"Starting", "Running"} /\ interface' = "ended" /\ UNCHANGED written
      BY DEF InterfaceDone
    <2>2. CASE interface = "Starting"
      <3>1. InterfaceEmits(DoneSignal("FailedToStart"))
        BY <2>2 DEF InterfaceDone
      <3> QED
        BY <2>1, <2>2, <3>1 DEF ProcessError
    <2>3. CASE interface = "Running"
      <3>1. \E error \in {"Crashed", "UnknownError"} : InterfaceEmits(DoneSignal(error))
        BY <2>3 DEF InterfaceDone
      <3>2. \A error \in {"Crashed", "UnknownError"} :
                error \in ProcessError /\ ~(interface = "Starting" <=> error # "FailedToStart")
        BY <2>3 DEF ProcessError
      <3> QED
        BY <2>1, <3>1, <3>2
    <2> QED
      BY <2>1, <2>2, <2>3
  <1>2. PICK error \in ProcessError :
              /\ InterfaceEmits(DoneSignal(error))
              /\ interface = "Starting" <=> error = "FailedToStart"
    BY <1>1
  <1> DEFINE signal == DoneSignal(error)
  <1>3. /\ signal \in Signal /\ written \in Nat /\ Len(output) \in Nat
        /\ UNCHANGED <<m_state, closed, output, result>>
    BY <1>2, SignalTypes DEF InterfaceEmits, Served, TypeOK
  <1>4. Coming' = Append(Coming, signal) /\ Coming \in Seq(Signal)
    BY <1>2, <1>3, InterfaceEmitsStep, ComingTyped
  <1>5. CASE NothingIsKnown
    <2>1. Untold /\ interface = "Starting" /\ written = 0 /\ Coming = <<>>
      BY <1>5 DEF NothingIsKnown
    <2>2. \A e : Append(<<>>, e) = <<e>>
      OBVIOUS
    <2>3. Coming' = <<DoneSignal("FailedToStart")>>
      BY <1>2, <1>4, <2>1, <2>2
    <2>4. FailureComes'
      BY <1>1, <1>3, <2>1, <2>3 DEF FailureComes, Untold, DoneSignal
    <2> QED
      BY <1>1, <1>3, <2>4 DEF Order, Contracted
  <1>6. CASE StartComes
    <2>1. /\ Untold /\ Coming # <<>> /\ Head(Coming) = StartedSignal
          /\ RestAfter(0, Tail(Coming)) /\ interface = "Running"
      BY <1>1, <1>6 DEF StartComes
    <2>2. /\ Coming' # <<>> /\ Head(Coming') = StartedSignal
          /\ Tail(Coming') = Append(Tail(Coming), signal) /\ Tail(Coming) \in Seq(Signal)
      BY <1>3, <1>4, <2>1, HeadAndEnd
    <2>3. error \in {"Crashed", "UnknownError"}
      BY <1>2, <2>1 DEF ProcessError
    <2>4. RestAfter(0, Tail(Coming))'
      BY <1>1, <1>3, <2>1, <2>2, <2>3, DoneAtTheEnd
    <2>5. StartComes'
      BY <1>1, <1>3, <2>1, <2>2, <2>4 DEF StartComes, Untold
    <2> QED
      BY <1>1, <1>3, <2>5 DEF Order, Contracted
  <1>7. CASE IsRunning
    <2>1. m_state = "Running" /\ RestAfter(Len(output), Coming) /\ interface = "Running"
      BY <1>1, <1>7 DEF IsRunning
    <2>2. error \in {"Crashed", "UnknownError"}
      BY <1>2, <2>1 DEF ProcessError
    <2>3. RestAfter(Len(output), Coming)'
      BY <1>1, <1>3, <1>4, <2>1, <2>2, DoneAtTheEnd
    <2>4. IsRunning'
      BY <1>1, <1>3, <2>1, <2>3 DEF IsRunning
    <2> QED
      BY <1>1, <1>3, <2>4 DEF Order, Contracted
  <1> QED
    BY <1>1, <1>5, <1>6, <1>7 DEF Order, HasNotStarted, FailureComes, AllIsTold

-----------------------------------------------------------------------------
(* The order is kept.                                                       *)
LEMMA StepInOrder ==
    ASSUME IInv, Next, closed = "no", ~slotWaits
    PROVE  Contracted /\ (closed' = "no" /\ ~slotWaits' => Len(stack') <= 1 /\ Order')
  <1>0. Served /\ Len(stack) <= 1 /\ Order /\ Len(stack) \in Nat
    BY DEF IInv, Served, InOrder, TypeOK
  <1>1. CASE Start
    <2>1. /\ interface = "idle" /\ m_state' = "Starting" /\ interface' = "Starting"
          /\ UNCHANGED <<stack, m_signals, closed, output, result, written>>
      BY <1>1 DEF Start
    <2>2. HasNotStarted
      BY <1>0, <2>1 DEF Order, NothingIsKnown, StartComes, FailureComes, IsRunning, AllIsTold
    <2>3. Coming' = Coming
      BY <2>1, NothingMoves DEF Coming
    <2>4. NothingIsKnown'
      BY <2>1, <2>2, <2>3 DEF HasNotStarted, NothingIsKnown, Untold
    <2> QED
      BY <1>0, <2>1, <2>2, <2>4 DEF Order, HasNotStarted, Contracted, Starts
  <1>2. CASE Kill \/ Stop \/ KillTimeout \/ PostFlush
    <2>1. UNCHANGED <<stack, m_signals, m_state, interface, closed, output, result, written>>
      BY <1>2 DEF Kill, Stop, KillTimeout, PostFlush
    <2>2. Coming' = Coming
      BY <2>1, NothingMoves DEF Coming
    <2> QED
      BY <1>0, <2>1, <2>2, OrderKept DEF Contracted
  <1>3. CASE Close
    BY <1>3 DEF Close, Contracted, Closes
  <1>4. CASE DeleteInterfaces
    BY <1>4 DEF DeleteInterfaces
  <1>5. ASSUME NEW for \in {"Started", "ReadyRead", "Done"}, WaitForSignal(for)
        PROVE  Contracted /\ (closed' = "no" /\ ~slotWaits' => Len(stack') <= 1 /\ Order')
    <2>1. UNCHANGED <<m_state, interface, closed, output, result, written>>
      BY <1>5 DEF WaitForSignal
    <2>2. ~slotWaits' => Coming' = Coming /\ Len(stack') = 1
      BY <1>0, <1>5, WaitForSignalStep
    <2> QED
      BY <1>0, <2>1, <2>2, OrderKept DEF Contracted
  <1>6. CASE \/ Flush \/ FlushReturns \/ DoWaitForSignal \/ WaitTakes \/ WaitTimeout
             \/ MoveToCallerThread \/ WakeOne
    <2>1. UNCHANGED <<m_state, interface, closed, output, result, written>>
      BY <1>6 DEF Flush, FlushReturns, DoWaitForSignal, WaitTakes, WaitTimeout,
                  MoveToCallerThread, WakeOne
    <2>2. Coming' = Coming /\ Len(stack') <= 1
      <3>1. CASE Flush
        <4>1. Remains /\ Len(stack') = 1
          BY <1>0, <3>1, FlushStep
        <4> QED
          BY <4>1 DEF Remains
      <3>a. Kept /\ Len(stack') <= Len(stack) => Len(stack') <= 1
        <4>1. Kept => Len(stack') \in Nat
          BY DEF Kept
        <4> QED
          BY <1>0, <4>1
      <3>2. CASE FlushReturns
        BY <1>0, <3>2, <3>a, FlushReturnsStep
      <3>3. CASE DoWaitForSignal \/ WaitTakes \/ WaitTimeout \/ WakeOne
        BY <1>0, <3>3, DoWaitForSignalStep, WaitTakesStep, WaitTimeoutStep, WakeOneStep
           DEF Remains
      <3>4. CASE MoveToCallerThread
        BY <1>0, <3>4, <3>a, MoveToCallerThreadStep
      <3> QED
        BY <1>6, <3>1, <3>2, <3>3, <3>4
    <2> QED
      BY <1>0, <2>1, <2>2, OrderKept DEF Contracted
  <1>7. CASE Deliver
    BY <1>0, <1>7, DeliverStep, DeliverInOrder
  <1>8. CASE InterfaceStarted \/ InterfaceReadyRead \/ InterfaceDone
    <2>1. Len(stack') <= 1
      <3>1. PICK signal \in Signal : InterfaceEmits(signal)
        BY <1>0, <1>8, EmitsASignal
      <3>2. Len(stack') = Len(stack) \/ Len(stack') = 1
        BY <1>0, <3>1, InterfaceEmitsStep
      <3> QED
        BY <1>0, <3>2
    <2> QED
      BY <1>0, <1>8, <2>1, StartedInOrder, ReadyReadInOrder, DoneInOrder
  <1> QED
    BY <1>1, <1>2, <1>3, <1>4, <1>5, <1>6, <1>7, <1>8
       DEF Next, UserNext, CallerNext, HandlerNext

(* A process that was closed stays so, and a slot that has waited has.      *)
LEMMA OnceAndForAll ==
    ASSUME Next
    PROVE  (closed' = "no" => closed = "no") /\ (slotWaits => slotWaits')
  <1> DEFINE Same == UNCHANGED <<closed, slotWaits>>
  <1>1. CASE Start \/ Kill \/ Stop \/ KillTimeout \/ Flush \/ Deliver \/ FlushReturns
    <2>1. Same
      BY <1>1 DEF Start, Kill, Stop, KillTimeout, Flush, Deliver, FlushReturns
    <2> QED
      BY <2>1
  <1>2. CASE DoWaitForSignal \/ WaitTakes \/ WaitTimeout \/ MoveToCallerThread \/ WakeOne
             \/ PostFlush
    <2>1. Same
      BY <1>2 DEF DoWaitForSignal, WaitTakes, WaitTimeout, MoveToCallerThread, WakeOne, PostFlush
    <2> QED
      BY <2>1
  <1>3. CASE InterfaceStarted \/ InterfaceReadyRead \/ InterfaceDone
    <2>1. Same
      BY <1>3 DEF InterfaceStarted, InterfaceReadyRead, InterfaceDone, InterfaceEmits
    <2> QED
      BY <2>1
  <1>4. CASE Close \/ DeleteInterfaces
    BY <1>4 DEF Close, DeleteInterfaces
  <1>5. ASSUME NEW for, WaitForSignal(for) PROVE closed' = closed /\ (slotWaits => slotWaits')
    BY <1>5 DEF WaitForSignal
  <1> QED
    BY <1>1, <1>2, <1>3, <1>4, <1>5 DEF Next, UserNext, CallerNext, HandlerNext

LEMMA Invariance == Spec => []IInv
  <1>1. IInv /\ [Next]_vars => IInv'
    <2> SUFFICES ASSUME IInv, [Next]_vars PROVE IInv'
      OBVIOUS
    <2>1. Served'
      BY ServedStep DEF IInv, Served
    <2>2. CASE Next
      <3>1. InOrder'
        BY <2>2, StepInOrder, OnceAndForAll DEF InOrder
      <3> QED
        BY <2>1, <3>1 DEF IInv, Served
    <2>3. CASE UNCHANGED vars
      <3>1. /\ UNCHANGED <<stack, m_signals, closed, slotWaits>>
            /\ UNCHANGED <<m_state, interface, result, written, output>>
        BY <2>3 DEF vars
      <3>2. Coming' = Coming
        BY <3>1, NothingMoves DEF Coming
      <3>3. InOrder'
        BY <3>1, <3>2, OrderKept DEF IInv, InOrder
      <3> QED
        BY <2>1, <3>3 DEF IInv, Served
    <2> QED
      BY <2>2, <2>3
  <1> QED
    BY Initially, <1>1, PTL DEF Spec

(* The QtcProcess gets the signals of its interface as ProcessInterface     *)
(* promises, stored in one thread and handled in another, as long as it is  *)
(* not closed and no slot waits: none lost, none early, and in order.       *)
THEOREM Refinement == Spec => KeepsContract
  <1>1. Init => Contract!Init
    BY DEF Init, Contract!Init
  <1>2. IInv /\ [Next]_vars =>
            [closed = "no" /\ ~slotWaits => Contract!Next]_(Contract!vars)
    <2> SUFFICES ASSUME IInv, [Next]_vars
                 PROVE  [closed = "no" /\ ~slotWaits => Contract!Next]_(Contract!vars)
      OBVIOUS
    <2>1. CASE Next /\ closed = "no" /\ ~slotWaits
      <3>1. output \in Seq(1 .. MaxOutput) /\ written \in Nat
        BY DEF IInv, TypeOK
      <3> QED
        BY <2>1, <3>1, StepInOrder, ContractStep
    <2>2. CASE UNCHANGED vars
      BY <2>2 DEF vars, Contract!vars
    <2> QED
      BY <2>1, <2>2
  <1> QED
    BY <1>1, <1>2, Invariance, PTL DEF Spec, KeepsContract
=============================================================================
