----------------------------- MODULE LauncherProofs -----------------------------
(***************************************************************************)
(* What ProcessLauncher promises, for any set of tokens and threads, any   *)
(* amount of output, any depth of nested calls, with and without faults    *)
(* (the last theorem is about the case without faults and nested calls).   *)
(*                                                                         *)
(* First the types, and that the mutex, the wait condition and the queued  *)
(* calls between the caller threads and the launcher thread lose nothing.  *)
(*                                                                         *)
(* Then the two properties that follow a token from its start request to   *)
(* the signal its QtcProcess gets: a process is reported as done exactly   *)
(* once.  The news of a process are in one of four places: in the socket,  *)
(* in the handler of the launcher thread, stored, or taken by a call of    *)
(* the owner's thread.  The invariant (AInv) says of every token where     *)
(* started can be, that nothing is before it, and how many done there are  *)
(* in all.                                                                 *)
(*                                                                         *)
(* Last, the refinement of ProcessInterface.  What a QtcProcess has been   *)
(* told of its run is a position, and each signal and packet is a step     *)
(* from one position to another.  The invariant (CInv) says that what is   *)
(* under way in the four places is a chain of such steps, which leads from *)
(* what the QtcProcess has been told to what the helper has sent.  So the  *)
(* signal that is handled next is the step that the contract has next.     *)
(***************************************************************************)
EXTENDS ProcessLauncher, Integers, TLAPS, SequenceTheorems, FiniteSetTheorems,
        WellFoundedInduction, NaturalsInduction

USE DEF vars, clientVars, callerVars, sharedVars, launcherVars, linkVars, serverVars

------------------------------------------------------------------------------
(* Types                                                                    *)

USE DEF TypeOK, CallerTypeOK, SharedTypeOK, LauncherTypeOK, LinkTypeOK, ServerTypeOK,
        ProcessState

(* The signals and packets that are built have their types.                 *)
LEMMA SignalTypes ==
    /\ StartedSignal \in Signal
    /\ \A data \in Output : ReadyReadSignal(data) \in Signal
    /\ \A error \in ProcessError : DoneSignal(error) \in Signal
  BY DEF StartedSignal, ReadyReadSignal, DoneSignal, Signal

LEMMA PacketTypes ==
    ASSUME NEW t \in Token
    PROVE  /\ StartedPacket(t) \in Reply
           /\ \A data \in Output : ReadyReadPacket(t, data) \in Reply
           /\ \A data \in Output, error \in ProcessError : DonePacket(t, data, error) \in Reply
  BY DEF StartedPacket, ReadyReadPacket, DonePacket, Reply, Output, ProcessError

(* The innermost call of a thread, and the calls around it.                 *)
LEMMA TopTypes ==
    ASSUME CallerTypeOK, NEW thr \in Thread, InCall(thr)
    PROVE  Top(thr) \in Frame /\ Tail(stack[thr]) \in Seq(Frame)
  BY DEF InCall, Top

(* The calls that change a stack keep it a stack of frames.                 *)
LEMMA StackTypes ==
    ASSUME CallerTypeOK, NEW thr \in Thread, NEW frame \in Frame
    PROVE  /\ Push(thr, frame) => stack' \in [Thread -> Seq(Frame)]
           /\ InCall(thr) /\ SetTop(thr, frame) => stack' \in [Thread -> Seq(Frame)]
           /\ InCall(thr) /\ Pop(thr) => stack' \in [Thread -> Seq(Frame)]
<1>1. <<frame>> \o stack[thr] \in Seq(Frame)
  OBVIOUS
<1>2. InCall(thr) => Tail(stack[thr]) \in Seq(Frame) /\ <<frame>> \o Tail(stack[thr]) \in Seq(Frame)
  BY TopTypes
<1>3. stack \in [Thread -> Seq(Frame)]
  OBVIOUS
<1> HIDE DEF CallerTypeOK
<1>4. Push(thr, frame) => stack' \in [Thread -> Seq(Frame)]
  BY <1>1, <1>3 DEF Push
<1>5. InCall(thr) /\ SetTop(thr, frame) => stack' \in [Thread -> Seq(Frame)]
  BY <1>2, <1>3 DEF SetTop
<1>6. InCall(thr) /\ Pop(thr) => stack' \in [Thread -> Seq(Frame)]
  BY <1>2, <1>3 DEF Pop
<1> QED
  BY <1>4, <1>5, <1>6

LEMMA SendTypes ==
    ASSUME TypeOK, NEW thr \in Thread, NEW t \in Token, NEW type \in RequestType,
           SendPacket(thr, type, t)
    PROVE  m_requests' \in Seq(Request) /\ posting' \in SUBSET Thread
  BY DEF SendPacket, Request

LEMMA EmitTypes ==
    ASSUME CallerTypeOK, NEW t \in Token, NEW signal \in Signal, Emit(t, signal)
    PROVE  /\ m_state' \in [Token -> ProcessState]
           /\ observed' \in [Token -> Seq(Signal)]
<1>1. CASE t \in detached
  BY <1>1 DEF Emit
<1>2. CASE t \notin detached
  <2>1. m_state' \in [Token -> ProcessState]
    BY <1>2 DEF Emit
  <2>2. observed' \in [Token -> Seq(Signal)]
    <3>1. Append(observed[t], signal) \in Seq(Signal)
      OBVIOUS
    <3> QED
      BY <1>2, <3>1 DEF Emit
  <2> QED
    BY <2>1, <2>2
<1> QED
  BY <1>1, <1>2

(* What flushFor takes is the front of the stored signals.                  *)
LEMMA FlushTypes ==
    ASSUME TypeOK, NEW t \in Token, NEW for \in SignalType,
           NEW n \in 0 .. Len(m_signals[t])
    PROVE  /\ FlushFrame(t, for, n) \in Frame
           /\ TakeSignals(t, n) => m_signals' \in [Token -> Seq(Signal)]
<1> DEFINE signals == m_signals[t]
<1>1. signals \in Seq(Signal) /\ Len(signals) \in Nat /\ n \in Nat /\ n <= Len(signals)
  OBVIOUS
<1>2. SubSeq(signals, 1, n) \in Seq(Signal) /\ SubSeq(signals, n + 1, Len(signals)) \in Seq(Signal)
  <2> HIDE DEF signals
  <2>1. \A i \in 1 .. n : i \in 1 .. Len(signals)
    BY <1>1
  <2>2. \A i \in n + 1 .. Len(signals) : i \in 1 .. Len(signals)
    BY <1>1
  <2> QED
    BY <1>1, <2>1, <2>2, SubSeqProperties
<1>3. FlushFrame(t, for, n) \in Frame
  BY <1>2 DEF FlushFrame, Frame
<1>4. TakeSignals(t, n) => m_signals' \in [Token -> Seq(Signal)]
  BY <1>2 DEF TakeSignals
<1> QED
  BY <1>3, <1>4

(* User code, and a caller thread working for one token.                    *)
LEMMA CallerTokenTypes ==
    ASSUME TypeOK, NEW t \in Token, UserNext(t) \/ CallerTokenNext(t)
    PROVE  TypeOK'
<1> ThreadOf[t] \in Thread
  BY ThreadOfAssumption
<1>1. CASE RegisterHandle(t)
  BY <1>1 DEF RegisterHandle
<1>2. ASSUME NEW type \in {"Terminate", "Kill"}, Control(t, type) PROVE TypeOK'
  <2>1. type \in RequestType
    BY DEF RequestType
  <2>2. asked' \in [Token -> SUBSET RequestType]
    BY <1>2, <2>1 DEF Control
  <2>3. m_requests' \in Seq(Request) /\ posting' \in SUBSET Thread
    BY <1>2, <2>1, ThreadOfAssumption, SendTypes DEF Control, NothingSent
  <2> QED
    BY <1>2, <2>2, <2>3 DEF Control
<1>3. CASE Write(t)
  BY <1>3, SendTypes DEF Write, NothingSent, RequestType
<1>4. CASE Close(t)
  BY <1>4 DEF Close
<1>5. ASSUME NEW for \in {"Started", "ReadyRead", "Done"}, WaitForSignal(t, for) PROVE TypeOK'
  <2> DEFINE frame == [tok |-> t, for |-> for, pc |-> "check", todo |-> <<>>,
                       matched |-> FALSE, inSlot |-> FALSE]
  <2>1. frame \in Frame
    BY <1>5 DEF Frame, SignalType
  <2>2. stack' \in [Thread -> Seq(Frame)]
    <3>1. Push(ThreadOf[t], frame)
      BY <1>5 DEF WaitForSignal
    <3> HIDE DEF frame
    <3> QED
      BY <2>1, <3>1, StackTypes
  <2> QED
    BY <1>5, <2>2 DEF WaitForSignal
<1>6. CASE ProgramMissing(t)
  BY <1>6, EmitTypes, SignalTypes DEF ProgramMissing, ProcessError
<1>7. CASE Start(t)
  BY <1>7, EmitTypes, SignalTypes, SendTypes DEF Start, NothingSent, ProcessError, RequestType
<1>8. CASE DestroyInterface(t)
  BY <1>8, SendTypes DEF DestroyInterface, NothingSent, RequestType
<1>9. CASE UnregisterHandle(t)
  BY <1>9 DEF UnregisterHandle
<1>10. CASE Flush(t)
  <2>1. PICK n \in 0 .. Len(m_signals[t]) :
            /\ TakeSignals(t, n)
            /\ Push(ThreadOf[t], FlushFrame(t, "NoSignal", n))
    BY <1>10 DEF Flush
  <2>2. "NoSignal" \in SignalType
    BY DEF SignalType
  <2>3. FlushFrame(t, "NoSignal", n) \in Frame /\ m_signals' \in [Token -> Seq(Signal)]
    BY <2>1, <2>2, FlushTypes
  <2>4. stack' \in [Thread -> Seq(Frame)]
    BY <2>1, <2>3, StackTypes
  <2> QED
    BY <1>10, <2>3, <2>4 DEF Flush
<1> QED
  BY <1>1, <1>2, <1>3, <1>4, <1>5, <1>6, <1>7, <1>8, <1>9, <1>10 DEF UserNext, CallerTokenNext

(* A caller thread inside one of its calls.                                 *)
LEMMA CallerTypes ==
    ASSUME TypeOK, NEW thr \in Thread, CallerNext(thr)
    PROVE  TypeOK'
<1>1. CASE PostHandleRequests(thr)
  BY <1>1 DEF PostHandleRequests
<1>2. CASE Deliver(thr)
  <2> DEFINE frame == Top(thr)
             signal == Head(frame.todo)
  <2>1. frame \in Frame /\ frame.tok \in Token /\ signal \in Signal /\ Tail(frame.todo) \in Seq(Signal)
    <3>1. frame \in Frame /\ frame.todo # <<>>
      BY <1>2, TopTypes DEF Deliver
    <3> QED
      BY <3>1 DEF Frame
  <2>2. m_state' \in [Token -> ProcessState] /\ observed' \in [Token -> Seq(Signal)]
    BY <1>2, <2>1, EmitTypes DEF Deliver
  <2>3. stack' \in [Thread -> Seq(Frame)]
    <3>1. PICK matched \in BOOLEAN, inSlot \in BOOLEAN :
              SetTop(thr, [frame EXCEPT !.todo = Tail(frame.todo), !.matched = matched,
                                        !.inSlot = inSlot])
      BY <1>2, <2>1 DEF Deliver, Frame
    <3>2. [frame EXCEPT !.todo = Tail(frame.todo), !.matched = matched, !.inSlot = inSlot] \in Frame
      BY <2>1, <3>1 DEF Frame
    <3> QED
      BY <1>2, <3>1, <3>2, StackTypes DEF Deliver
  <2>4. m_processState' \in [Token -> ProcessState]
    BY <1>2, <2>1 DEF Deliver
  <2>5. UNCHANGED <<launching, posting, asked, detached, closing, sharedVars, launcherVars,
                    linkVars, serverVars>>
    BY <1>2 DEF Deliver
  <2>6. CallerTypeOK'
    BY <2>2, <2>3, <2>4, <2>5
  <2>7. SharedTypeOK' /\ LauncherTypeOK' /\ LinkTypeOK' /\ ServerTypeOK'
    BY <2>5 DEF sharedVars, launcherVars, linkVars, serverVars
  <2> QED
    BY <2>6, <2>7
<1>3. CASE FlushReturns(thr)
  <2> DEFINE frame == Top(thr)
             again == [frame EXCEPT !.pc = "check", !.inSlot = FALSE]
  <2>1. InCall(thr) /\ frame \in Frame /\ (Pop(thr) \/ SetTop(thr, again))
    BY <1>3, TopTypes DEF FlushReturns
  <2>2. again \in Frame
    BY <2>1 DEF Frame
  <2> HIDE DEF frame, again
  <2>3. stack' \in [Thread -> Seq(Frame)]
    BY <2>1, <2>2, StackTypes
  <2> QED
    BY <1>3, <2>3 DEF FlushReturns
<1>4. CASE DoWaitForSignal(thr)
  BY <1>4, TopTypes, StackTypes DEF DoWaitForSignal, SetPc, Frame
<1>5. CASE WaitTimeout(thr)
  BY <1>5, TopTypes, StackTypes DEF WaitTimeout
<1>6. CASE WaitTakes(thr)
  <2>1. Top(thr).tok \in Token /\ Top(thr).for \in SignalType
    BY <1>6, TopTypes DEF WaitTakes, Frame
  <2>2. PICK n \in 0 .. Len(m_signals[Top(thr).tok]) :
            /\ TakeSignals(Top(thr).tok, n)
            /\ SetTop(thr, FlushFrame(Top(thr).tok, Top(thr).for, n))
    BY <1>6 DEF WaitTakes
  <2>3. /\ FlushFrame(Top(thr).tok, Top(thr).for, n) \in Frame
        /\ m_signals' \in [Token -> Seq(Signal)]
    BY <2>1, <2>2, FlushTypes
  <2>4. stack' \in [Thread -> Seq(Frame)]
    BY <1>6, <2>2, <2>3, StackTypes DEF WaitTakes
  <2> QED
    BY <1>6, <2>3, <2>4 DEF WaitTakes
<1> QED
  BY <1>1, <1>2, <1>3, <1>4, <1>5, <1>6 DEF CallerNext

(* The launcher thread.                                                     *)
LEMMA LauncherTypes ==
    ASSUME TypeOK, LauncherNext
    PROVE  TypeOK'
<1>1. ASSUME WriteRequests
      PROVE  c2s' \in Seq(Request) /\ m_requests' \in Seq(Request) /\ s2c' = s2c /\ linkUp' = linkUp
  <2>1. c2s \o m_requests \in Seq(Request)
    OBVIOUS
  <2> QED
    BY <1>1, <2>1 DEF WriteRequests
<1>2. CASE SetSocket
  BY <1>1, <1>2 DEF SetSocket
<1>3. CASE HandleRequests
  BY <1>1, <1>3 DEF HandleRequests
<1>4. CASE HandleSocketDataAvailable
  <2>1. Head(s2c) \in Reply /\ Tail(s2c) \in Seq(Reply)
    BY <1>4 DEF HandleSocketDataAvailable
  <2>2. SignalsOf(Head(s2c)) \in Seq(Signal)
    BY <2>1, SignalTypes DEF SignalsOf, Reply
  <2>3. job' \in Job \cup {NoJob}
    BY <1>4, <2>1, <2>2 DEF HandleSocketDataAvailable, Job, Reply
  <2> QED
    BY <1>4, <2>1, <2>3 DEF HandleSocketDataAvailable
<1>5. CASE LockHandle
  <2>1. job' \in Job \cup {NoJob}
    BY <1>5 DEF LockHandle, Job
  <2> QED
    BY <1>5, <2>1 DEF LockHandle
<1>6. CASE AppendSignal
  <2>1. job \in Job /\ Head(job.todo) \in Signal /\ Tail(job.todo) \in Seq(Signal)
    BY <1>6 DEF AppendSignal, Job, NoJob
  <2>2. m_signals' \in [Token -> Seq(Signal)]
    BY <1>6, <2>1 DEF AppendSignal, Job
  <2>3. job' \in Job
    BY <1>6, <2>1 DEF AppendSignal, Job
  <2> QED
    BY <1>6, <2>2, <2>3 DEF AppendSignal
<1>7. CASE FlushCaller
  <2>1. ASSUME NEW thr \in Thread, NEW t \in Token, Asleep(thr, t)
        PROVE  <<[Top(thr) EXCEPT !.pc = "take"]>> \o Tail(stack[thr]) \in Seq(Frame)
    <3>1. Top(thr) \in Frame /\ Tail(stack[thr]) \in Seq(Frame)
      BY <2>1, TopTypes DEF Asleep
    <3>2. [Top(thr) EXCEPT !.pc = "take"] \in Frame
      BY <3>1 DEF Frame
    <3> QED
      BY <3>1, <3>2
  <2>2. job \in Job
    BY <1>7 DEF FlushCaller, NoJob
  <2>3. stack' \in [Thread -> Seq(Frame)]
    BY <1>7, <2>1, <2>2 DEF FlushCaller, WakeOne, Job
  <2> QED
    BY <1>7, <2>2, <2>3 DEF FlushCaller, PostFlush, Job
<1>8. CASE SocketErrorOccurred \/ HandleSocketDisconnected
  <2>1. HandleError
    BY <1>8 DEF SocketErrorOccurred, HandleSocketDisconnected
  <2>2. linkUp' \in BOOLEAN
    BY <2>1, Zenon DEF HandleError
  <2> QED
    BY <2>1, <2>2 DEF HandleError
<1>9. ASSUME NEW t \in Token, HandleSocketError(t) PROVE TypeOK'
  <2>1. <<DoneSignal("FailedToStart")>> \in Seq(Signal)
    BY SignalTypes DEF ProcessError
  <2>2. job' \in Job
    BY <1>9, <2>1 DEF HandleSocketError, Job
  <2> QED
    BY <1>9, <2>2 DEF HandleSocketError
<1>10. CASE DoStop
  <2>1. [type |-> "Shutdown", tok |-> NoToken] \in Request
    BY DEF Request, RequestType
  <2> QED
    BY <1>10, <2>1 DEF DoStop
<1> QED
  BY <1>2, <1>3, <1>4, <1>5, <1>6, <1>7, <1>8, <1>9, <1>10 DEF LauncherNext

(* The launcher helper.                                                     *)
LEMMA ReplyTypes ==
    ASSUME TypeOK, NEW packet \in Reply, SendReply(packet)
    PROVE  LinkTypeOK'
  BY DEF SendReply

LEMMA RequestTypes ==
    ASSUME TypeOK, NEW t \in Token, NEW type, NextRequest(type, t)
    PROVE  LinkTypeOK'
<1>1. c2s \in Seq(Request) /\ c2s # <<>>
  BY DEF NextRequest
<1>2. Tail(c2s) \in Seq(Request)
  BY <1>1
<1> QED
  BY <1>2 DEF NextRequest

LEMMA ServerTypes ==
    ASSUME TypeOK, ServerNext \/ \E t \in Token : ServerTokenNext(t)
    PROVE  TypeOK'
<1>1. ASSUME NEW t \in Token, ServerTokenNext(t) PROVE TypeOK'
  <2>1. CASE HandleStartPacket(t) \/ HandleWritePacket(t) \/ HandleTerminatePacket(t)
             \/ HandleKillPacket(t) \/ HandleClosePacket(t)
    <3>1. PICK type \in RequestType : NextRequest(type, t)
      BY <2>1 DEF HandleStartPacket, HandleWritePacket, HandleTerminatePacket,
         HandleKillPacket, HandleClosePacket, RequestType
    <3>2. LinkTypeOK'
      BY <3>1, RequestTypes
    <3>3. CASE HandleStartPacket(t)
      BY <3>2, <3>3 DEF HandleStartPacket, InProcesses
    <3>4. CASE HandleWritePacket(t)
      BY <3>2, <3>4 DEF HandleWritePacket
    <3>5. CASE HandleTerminatePacket(t)
      BY <3>2, <3>5 DEF HandleTerminatePacket
    <3>6. CASE HandleKillPacket(t) \/ HandleClosePacket(t)
      BY <3>2, <3>6 DEF HandleKillPacket, HandleClosePacket
    <3> QED
      BY <2>1, <3>3, <3>4, <3>5, <3>6
  <2>2. CASE HandleProcessStarted(t)
    BY <2>2, PacketTypes, ReplyTypes DEF HandleProcessStarted
  <2>3. CASE HandleProcessError(t)
    BY <2>3, PacketTypes, ReplyTypes DEF HandleProcessError, ProcessError
  <2>4. CASE ChildWrites(t)
    <3>1. produced' \in [Token -> 0 .. MaxOutput]
      BY <2>4, BoundsAssumption DEF ChildWrites
    <3>2. Append(unread[t], produced[t] + 1) \in Output
      BY <2>4, BoundsAssumption DEF ChildWrites, Output
    <3> QED
      BY <2>4, <3>1, <3>2 DEF ChildWrites
  <2>5. CASE HandleReadyReadStandardOutput(t)
    <3>1. LinkTypeOK'
      BY <2>5, PacketTypes, ReplyTypes DEF HandleReadyReadStandardOutput
    <3>2. unread' \in [Token -> Output]
      BY <2>5 DEF HandleReadyReadStandardOutput, Output
    <3> QED
      BY <2>5, <3>1, <3>2 DEF HandleReadyReadStandardOutput
  <2>6. CASE HandleProcessFinished(t)
    <3>1. PICK error \in ProcessError : SendReply(DonePacket(t, unread[t], error))
      BY <2>6 DEF HandleProcessFinished, ProcessError
    <3>2. LinkTypeOK'
      BY <3>1, PacketTypes, ReplyTypes
    <3>3. unread' \in [Token -> Output]
      BY <2>6 DEF HandleProcessFinished, Output
    <3> QED
      BY <2>6, <3>2, <3>3 DEF HandleProcessFinished
  <2>7. CASE Reaped(t)
    BY <2>7 DEF Reaped
  <2> QED
    BY <1>1, <2>1, <2>2, <2>3, <2>4, <2>5, <2>6, <2>7 DEF ServerTokenNext
<1>2. CASE ServerNext
  <2>1. CASE LauncherStarted \/ LauncherNotConnected \/ LauncherFinished
    BY <2>1 DEF LauncherStarted, LauncherNotConnected, LauncherFinished
  <2>2. CASE HandleShutdownPacket \/ HandleSocketClosed \/ HandleServerSocketError
    <3>1. Quit
      BY <2>2 DEF HandleShutdownPacket, HandleSocketClosed, HandleServerSocketError
    <3>2. linkUp' \in BOOLEAN
      BY <3>1, Zenon DEF Quit
    <3>3. c2s' \in Seq(Request) /\ s2c' \in Seq(Reply)
      <4>1. Tail(c2s) \in Seq(Request) \/ c2s = <<>>
        OBVIOUS
      <4>2. CASE HandleShutdownPacket
        BY <4>1, <4>2 DEF HandleShutdownPacket
      <4>3. CASE HandleSocketClosed \/ HandleServerSocketError
        BY <4>3 DEF HandleSocketClosed, HandleServerSocketError
      <4> QED
        BY <2>2, <4>2, <4>3
    <3> QED
      BY <3>1, <3>2, <3>3 DEF Quit, InProcesses
  <2> QED
    BY <1>2, <2>1, <2>2 DEF ServerNext
<1> QED
  BY <1>1, <1>2

LEMMA TypeInit == Init => TypeOK
<1> SUFFICES ASSUME Init PROVE TypeOK
  OBVIOUS
<1>1. CallerTypeOK
  BY DEF Init
<1>2. SharedTypeOK
  <2>1. requestsPosted \in BOOLEAN
    <3>1. requestsPosted = FALSE
      BY Zenon DEF Init
    <3> QED
      BY <3>1, Zenon
  <2> QED
    BY <2>1 DEF Init
<1>3. LauncherTypeOK
  BY DEF Init
<1>4. LinkTypeOK
  BY DEF Init
<1>5. ServerTypeOK
  BY BoundsAssumption DEF Init, Output
<1> QED
  BY <1>1, <1>2, <1>3, <1>4, <1>5

LEMMA TypeStep == TypeOK /\ [Next]_vars => TypeOK'
<1> SUFFICES ASSUME TypeOK, [Next]_vars PROVE TypeOK'
  OBVIOUS
<1>1. CASE Next
  BY <1>1, CallerTokenTypes, CallerTypes, LauncherTypes, ServerTypes DEF Next
<1>2. CASE UNCHANGED vars
  BY <1>2
<1> QED
  BY <1>1, <1>2

(* Every variable of the launcher's two sides keeps its type.               *)
THEOREM TypeCorrect == Spec => []TypeOK
  BY TypeInit, TypeStep, PTL DEF Spec

HIDE DEF TypeOK, CallerTypeOK, SharedTypeOK, LauncherTypeOK, LinkTypeOK, ServerTypeOK,
         ProcessState, vars, clientVars, callerVars, sharedVars, launcherVars, linkVars, serverVars

------------------------------------------------------------------------------
(* Signals and requests that are stored                                     *)

(* The steps that touch the stored signals, the queued flushes or the       *)
(* handler the launcher thread is in.                                       *)
SignalStep ==
    \/ \E t \in Token : UnregisterHandle(t) \/ Flush(t) \/ HandleSocketError(t)
    \/ \E thr \in Thread : WaitTakes(thr)
    \/ HandleSocketDataAvailable \/ LockHandle \/ AppendSignal \/ FlushCaller

LEMMA SignalSteps ==
    ASSUME [Next]_vars
    PROVE  SignalStep \/ UNCHANGED <<m_signals, flushPosted, job>>
<1>1. CASE \E t \in Token : UserNext(t) \/ CallerTokenNext(t)
  <2>1. PICK t \in Token : UserNext(t) \/ CallerTokenNext(t)
    BY <1>1
  <2>2. CASE UserNext(t)
    <3>1. CASE RegisterHandle(t)
      BY <3>1 DEF RegisterHandle, launcherVars
    <3>2. CASE Write(t) \/ \E type \in {"Terminate", "Kill"} : Control(t, type)
      BY <3>2 DEF Write, Control, launcherVars
    <3>3. CASE Close(t) \/ \E for \in {"Started", "ReadyRead", "Done"} : WaitForSignal(t, for)
      BY <3>3 DEF Close, WaitForSignal, launcherVars, sharedVars
    <3> QED
      BY <2>2, <3>1, <3>2, <3>3 DEF UserNext
  <2>3. CASE CallerTokenNext(t)
    BY <2>3 DEF CallerTokenNext, SignalStep, ProgramMissing, Start, DestroyInterface,
       launcherVars, sharedVars
  <2> QED
    BY <2>1, <2>2, <2>3
<1>2. CASE \E t \in Token : ServerTokenNext(t)
  BY <1>2 DEF ServerTokenNext, HandleStartPacket, HandleWritePacket, HandleTerminatePacket,
     HandleKillPacket, HandleClosePacket, HandleProcessStarted, HandleProcessError, ChildWrites,
     HandleReadyReadStandardOutput, HandleProcessFinished, Reaped, clientVars, sharedVars,
     launcherVars
<1>3. CASE \E thr \in Thread : CallerNext(thr)
  BY <1>3 DEF CallerNext, SignalStep, PostHandleRequests, Deliver, FlushReturns,
     DoWaitForSignal, WaitTimeout, sharedVars, launcherVars
<1>4. CASE LauncherNext
  BY <1>4 DEF LauncherNext, SignalStep, SetSocket, HandleRequests, SocketErrorOccurred,
     HandleSocketDisconnected, HandleError, DoStop, sharedVars, launcherVars
<1>5. CASE ServerNext
  BY <1>5 DEF ServerNext, LauncherStarted, HandleShutdownPacket, HandleSocketClosed,
     HandleServerSocketError, LauncherNotConnected, LauncherFinished, Quit, clientVars,
     sharedVars, launcherVars
<1>6. CASE UNCHANGED vars
  BY <1>6 DEF vars, clientVars, sharedVars, launcherVars
<1> QED
  BY <1>1, <1>2, <1>3, <1>4, <1>5, <1>6 DEF Next

(* Taking signals takes them from the front: none stored, none left; and    *)
(* what CallerHandle::flush takes is all of them.                           *)
LEMMA TakeEmpty ==
    ASSUME TypeOK, NEW t \in Token, NEW n \in 0 .. Len(m_signals[t]), TakeSignals(t, n)
    PROVE  /\ \A u \in Token \ {t} : m_signals'[u] = m_signals[u]
           /\ m_signals[t] = <<>> => m_signals'[t] = <<>>
           /\ FlushUpTo("NoSignal", m_signals[t], n) => m_signals'[t] = <<>>
<1>1. m_signals \in [Token -> Seq(Signal)]
  BY DEF TypeOK, SharedTypeOK
<1>2. n = Len(m_signals[t]) => SubSeq(m_signals[t], n + 1, Len(m_signals[t])) = <<>>
  BY <1>1
<1>3. m_signals[t] = <<>> => n = Len(m_signals[t])
  BY <1>1
<1> QED
  BY <1>1, <1>2, <1>3 DEF TakeSignals, FlushUpTo

(* The handler the launcher thread is in, by its type.                      *)
LEMMA JobTypes ==
    ASSUME TypeOK
    PROVE  /\ job.locked => job.tok \in Token
           /\ \A t \in Token : Locked(t) <=> job.locked /\ job.tok = t
           /\ job = NoJob => ~job.locked
  BY DEF TypeOK, LauncherTypeOK, Job, NoJob, Locked

(* The steps of SignalStep, with what they do to the signals.               *)
LEMMA StrandedStep == TypeOK /\ NoStrandedSignal /\ [Next]_vars => NoStrandedSignal'
<1> SUFFICES ASSUME TypeOK, NoStrandedSignal, [Next]_vars, NEW u \in Token, m_signals'[u] # <<>>
             PROVE  flushPosted'[u] \/ Locked(u)'
  BY DEF NoStrandedSignal
<1> USE DEF NoStrandedSignal, Locked
<1>1. m_signals \in [Token -> Seq(Signal)] /\ flushPosted \in [Token -> BOOLEAN]
  BY DEF TypeOK, SharedTypeOK
<1>2. CASE UNCHANGED <<m_signals, flushPosted, job>>
  BY <1>2
<1>3. ASSUME NEW t \in Token, UnregisterHandle(t) PROVE flushPosted'[u] \/ Locked(u)'
  BY <1>1, <1>3 DEF UnregisterHandle, launcherVars
<1>4. ASSUME NEW t \in Token, Flush(t) PROVE flushPosted'[u] \/ Locked(u)'
  <2>1. PICK n \in 0 .. Len(m_signals[t]) :
            FlushUpTo("NoSignal", m_signals[t], n) /\ TakeSignals(t, n)
    BY <1>4 DEF Flush
  <2>2. u # t /\ m_signals[u] # <<>>
    BY <2>1, TakeEmpty
  <2> QED
    BY <1>1, <1>4, <2>2 DEF Flush, launcherVars
<1>5. ASSUME NEW thr \in Thread, WaitTakes(thr) PROVE flushPosted'[u] \/ Locked(u)'
  <2>1. Top(thr).tok \in Token
    BY <1>5, TopTypes DEF WaitTakes, TypeOK, Frame
  <2>2. PICK n \in 0 .. Len(m_signals[Top(thr).tok]) : TakeSignals(Top(thr).tok, n)
    BY <1>5 DEF WaitTakes
  <2>3. m_signals[u] # <<>>
    BY <2>1, <2>2, TakeEmpty
  <2> QED
    BY <1>5, <2>3 DEF WaitTakes, launcherVars
<1>6. CASE HandleSocketDataAvailable
  BY <1>6, JobTypes DEF HandleSocketDataAvailable, LauncherIdle, sharedVars
<1>7. CASE LockHandle
  BY <1>7, JobTypes DEF LockHandle, sharedVars
<1>8. CASE AppendSignal
  <2>1. job'.locked /\ job'.tok = job.tok
    BY <1>8 DEF AppendSignal, TypeOK, LauncherTypeOK, Job, NoJob
  <2> QED
    BY <1>1, <1>8, <2>1, JobTypes DEF AppendSignal
<1>9. CASE FlushCaller
  BY <1>1, <1>9, JobTypes DEF FlushCaller, PostFlush
<1>10. ASSUME NEW t \in Token, HandleSocketError(t) PROVE flushPosted'[u] \/ Locked(u)'
  BY <1>10, JobTypes DEF HandleSocketError
<1> QED
  BY <1>2, <1>3, <1>4, <1>5, <1>6, <1>7, <1>8, <1>9, <1>10, SignalSteps DEF SignalStep

(* A stored signal is never forgotten.                                      *)
THEOREM SignalsAreNotStranded == Spec => []NoStrandedSignal
<1>1. Init => NoStrandedSignal
  BY DEF Init, NoStrandedSignal
<1> QED
  BY <1>1, StrandedStep, TypeCorrect, PTL DEF Spec

------------------------------------------------------------------------------
(* Only these steps change the set of registered handles.                   *)
LEMMA HandleSteps ==
    ASSUME [Next]_vars
    PROVE  \/ \E t \in Token : RegisterHandle(t) \/ UnregisterHandle(t)
           \/ UNCHANGED <<used, m_handles>>
<1>1. CASE \E t \in Token : UserNext(t) \/ CallerTokenNext(t)
  <2>1. PICK t \in Token : UserNext(t) \/ CallerTokenNext(t)
    BY <1>1
  <2>2. CASE UserNext(t)
    <3>1. CASE Write(t) \/ \E type \in {"Terminate", "Kill"} : Control(t, type)
      BY <3>1 DEF Write, Control
    <3>2. CASE Close(t) \/ \E for \in {"Started", "ReadyRead", "Done"} : WaitForSignal(t, for)
      BY <3>2 DEF Close, WaitForSignal, sharedVars
    <3> QED
      BY <2>2, <3>1, <3>2 DEF UserNext
  <2>3. CASE CallerTokenNext(t)
    BY <2>3 DEF CallerTokenNext, ProgramMissing, Flush, Start, DestroyInterface, sharedVars
  <2> QED
    BY <2>1, <2>2, <2>3
<1>2. CASE \E t \in Token : ServerTokenNext(t)
  BY <1>2 DEF ServerTokenNext, HandleStartPacket, HandleWritePacket, HandleTerminatePacket,
     HandleKillPacket, HandleClosePacket, HandleProcessStarted, HandleProcessError, ChildWrites,
     HandleReadyReadStandardOutput, HandleProcessFinished, Reaped, clientVars, sharedVars
<1>3. CASE \E thr \in Thread : CallerNext(thr)
  BY <1>3 DEF CallerNext, PostHandleRequests, Deliver, FlushReturns, DoWaitForSignal,
     WaitTimeout, WaitTakes, sharedVars
<1>4. CASE LauncherNext
  BY <1>4 DEF LauncherNext, SetSocket, HandleRequests, HandleSocketDataAvailable, LockHandle,
     AppendSignal, FlushCaller, SocketErrorOccurred, HandleSocketDisconnected, HandleError,
     HandleSocketError, DoStop, sharedVars
<1>5. CASE ServerNext
  BY <1>5 DEF ServerNext, LauncherStarted, HandleShutdownPacket, HandleSocketClosed,
     HandleServerSocketError, LauncherNotConnected, LauncherFinished, Quit, clientVars, sharedVars
<1>6. CASE UNCHANGED vars
  BY <1>6 DEF vars, clientVars, sharedVars
<1> QED
  BY <1>1, <1>2, <1>3, <1>4, <1>5, <1>6 DEF Next

LEMMA SilentStep == TypeOK /\ SilentAfterUnregister /\ [Next]_vars => SilentAfterUnregister'
<1> SUFFICES ASSUME TypeOK, SilentAfterUnregister, [Next]_vars, NEW u \in (used \ m_handles)'
             PROVE  ~Locked(u)' /\ m_signals'[u] = <<>> /\ ~flushPosted'[u]
  BY DEF SilentAfterUnregister
<1> DEFINE Goal == ~Locked(u)' /\ m_signals'[u] = <<>> /\ ~flushPosted'[u]
<1> USE DEF Locked
<1>1. /\ m_signals \in [Token -> Seq(Signal)] /\ flushPosted \in [Token -> BOOLEAN]
      /\ used \in SUBSET Token /\ m_handles \in SUBSET used
  BY DEF TypeOK, SharedTypeOK
(* The cut: the only step that makes a handle silent.                       *)
<1>2. ASSUME UnregisterHandle(u) PROVE Goal
  BY <1>1, <1>2 DEF UnregisterHandle, launcherVars
<1>3. CASE ~UnregisterHandle(u)
  <2>1. u \in Token /\ u \in used \ m_handles
    BY <1>1, <1>3, HandleSteps DEF RegisterHandle, UnregisterHandle
  <2>2. ~Locked(u) /\ m_signals[u] = <<>> /\ ~flushPosted[u]
    BY <2>1 DEF SilentAfterUnregister
  <2>3. CASE UNCHANGED <<m_signals, flushPosted, job>>
    BY <2>2, <2>3
  <2>4. ASSUME NEW t \in Token, UnregisterHandle(t) PROVE Goal
    BY <1>1, <1>3, <2>2, <2>4 DEF UnregisterHandle, launcherVars
  <2>5. ASSUME NEW t \in Token, Flush(t) PROVE Goal
    <3>1. PICK n \in 0 .. Len(m_signals[t]) : TakeSignals(t, n)
      BY <2>5 DEF Flush
    <3>2. m_signals'[u] = <<>>
      BY <2>1, <2>2, <3>1, TakeEmpty
    <3> QED
      BY <1>1, <2>1, <2>2, <2>5, <3>2 DEF Flush, launcherVars
  <2>6. ASSUME NEW thr \in Thread, WaitTakes(thr) PROVE Goal
    <3>1. Top(thr).tok \in Token
      BY <2>6, TopTypes DEF WaitTakes, TypeOK, Frame
    <3>2. PICK n \in 0 .. Len(m_signals[Top(thr).tok]) : TakeSignals(Top(thr).tok, n)
      BY <2>6 DEF WaitTakes
    <3>3. m_signals'[u] = <<>>
      BY <2>1, <2>2, <3>1, <3>2, TakeEmpty
    <3> QED
      BY <2>2, <2>6, <3>3 DEF WaitTakes, launcherVars
  <2>7. CASE HandleSocketDataAvailable
    BY <2>2, <2>7, JobTypes DEF HandleSocketDataAvailable, LauncherIdle, sharedVars, NoJob
  <2>8. CASE LockHandle
    <3>1. job'.locked => job'.tok \in m_handles
      BY <2>8 DEF LockHandle, TypeOK, LauncherTypeOK, Job, NoJob
    <3> QED
      BY <2>1, <2>2, <2>8, <3>1 DEF LockHandle, sharedVars
  <2>9. CASE AppendSignal
    <3>1. job'.tok = job.tok /\ job.tok # u
      BY <2>2, <2>9 DEF AppendSignal, TypeOK, LauncherTypeOK, Job, NoJob
    <3> QED
      BY <1>1, <2>1, <2>2, <2>9, <3>1 DEF AppendSignal
  <2>10. CASE FlushCaller
    BY <1>1, <2>1, <2>2, <2>10, JobTypes DEF FlushCaller, PostFlush, NoJob
  <2>11. ASSUME NEW t \in Token, HandleSocketError(t) PROVE Goal
    BY <2>2, <2>11 DEF HandleSocketError
  <2> QED
    BY <2>3, <2>4, <2>5, <2>6, <2>7, <2>8, <2>9, <2>10, <2>11, SignalSteps DEF SignalStep
<1> QED
  BY <1>2, <1>3

(* A handle that has been unregistered is left alone, whatever the launcher *)
(* thread had in hand for it.                                               *)
THEOREM UnregisteredIsSilent == Spec => []SilentAfterUnregister
<1>1. Init => SilentAfterUnregister
  BY DEF Init, SilentAfterUnregister
<1> QED
  BY <1>1, SilentStep, TypeCorrect, PTL DEF Spec

------------------------------------------------------------------------------
(* Who stores a request sees to it that handleRequests is called, if nobody *)
(* else has.                                                                *)
LEMMA SendKeeps ==
    ASSUME TypeOK, NoStrandedRequest, NEW thr \in Thread, NEW type, NEW t \in Token,
           SendPacket(thr, type, t) \/ NothingSent,
           requestsPosted' = requestsPosted, m_socket' = m_socket
    PROVE  NoStrandedRequest'
<1>1. m_requests \in Seq(Request)
  BY DEF TypeOK, SharedTypeOK
<1>2. CASE NothingSent
  BY <1>2 DEF NothingSent, NoStrandedRequest
<1>3. CASE SendPacket(thr, type, t)
  <2> DEFINE request == [type |-> type, tok |-> t]
  <2>1. m_requests = <<>> => Len(Append(m_requests, request)) = 1
    BY <1>1
  <2>2. CASE m_requests = <<>>
    BY <1>3, <2>1, <2>2 DEF SendPacket, NoStrandedRequest
  <2>3. CASE m_requests # <<>>
    BY <1>3, <2>3 DEF SendPacket, NoStrandedRequest
  <2> QED
    BY <2>2, <2>3
<1> QED
  BY <1>2, <1>3

LEMMA RequestStep == TypeOK /\ NoStrandedRequest /\ [Next]_vars => NoStrandedRequest'
<1> SUFFICES ASSUME TypeOK, NoStrandedRequest, [Next]_vars PROVE NoStrandedRequest'
  OBVIOUS
<1> DEFINE Untouched == UNCHANGED <<m_requests, requestsPosted, posting, m_socket>>
<1>1. Untouched => NoStrandedRequest'
  BY DEF NoStrandedRequest
<1>2. ASSUME NEW t \in Token, UserNext(t) PROVE NoStrandedRequest'
  <2> ThreadOf[t] \in Thread
    BY ThreadOfAssumption
  <2>1. CASE \E type \in {"Terminate", "Kill"} : Control(t, type)
    BY <2>1, SendKeeps DEF Control, launcherVars
  <2>2. CASE Write(t)
    BY <2>2, SendKeeps DEF Write, launcherVars
  <2>3. CASE RegisterHandle(t) \/ Close(t) \/ \E for : WaitForSignal(t, for)
    BY <1>1, <2>3 DEF RegisterHandle, Close, WaitForSignal, launcherVars, sharedVars
  <2> QED
    BY <1>2, <2>1, <2>2, <2>3 DEF UserNext
<1>3. ASSUME NEW t \in Token, CallerTokenNext(t) PROVE NoStrandedRequest'
  <2> ThreadOf[t] \in Thread
    BY ThreadOfAssumption
  <2>1. CASE Start(t)
    BY <2>1, SendKeeps DEF Start, launcherVars
  <2>2. CASE DestroyInterface(t)
    BY <2>2, SendKeeps DEF DestroyInterface, launcherVars
  <2>3. CASE ProgramMissing(t) \/ UnregisterHandle(t) \/ Flush(t)
    BY <1>1, <2>3 DEF ProgramMissing, UnregisterHandle, Flush, launcherVars, sharedVars
  <2> QED
    BY <1>3, <2>1, <2>2, <2>3 DEF CallerTokenNext
<1>4. ASSUME NEW thr \in Thread, CallerNext(thr) PROVE NoStrandedRequest'
  <2>1. CASE PostHandleRequests(thr)
    BY <2>1 DEF PostHandleRequests, NoStrandedRequest
  <2>2. CASE ~PostHandleRequests(thr)
    BY <1>1, <1>4, <2>2 DEF CallerNext, Deliver, FlushReturns, DoWaitForSignal, WaitTimeout,
       WaitTakes, sharedVars, launcherVars
  <2> QED
    BY <2>1, <2>2
<1>5. CASE LauncherNext
  <2>1. CASE SetSocket
    BY <2>1 DEF SetSocket, WriteRequests, NoStrandedRequest
  <2>2. CASE HandleRequests
    BY <2>2 DEF HandleRequests, WriteRequests, launcherVars, NoStrandedRequest
  <2>3. CASE HandleSocketDataAvailable \/ LockHandle \/ AppendSignal \/ FlushCaller
             \/ \E t \in Token : HandleSocketError(t)
    BY <1>1, <2>3 DEF HandleSocketDataAvailable, LockHandle, AppendSignal, FlushCaller,
       HandleSocketError, callerVars, sharedVars
  <2>4. CASE SocketErrorOccurred \/ HandleSocketDisconnected \/ DoStop
    BY <2>4 DEF SocketErrorOccurred, HandleSocketDisconnected, HandleError, DoStop,
       NoStrandedRequest
  <2> QED
    BY <1>5, <2>1, <2>2, <2>3, <2>4 DEF LauncherNext
<1>6. CASE \E t \in Token : ServerTokenNext(t)
  BY <1>1, <1>6 DEF ServerTokenNext, HandleStartPacket, HandleWritePacket,
     HandleTerminatePacket, HandleKillPacket, HandleClosePacket, HandleProcessStarted,
     HandleProcessError, ChildWrites, HandleReadyReadStandardOutput, HandleProcessFinished,
     Reaped, clientVars, callerVars, sharedVars, launcherVars
<1>7. CASE ServerNext
  BY <1>1, <1>7 DEF ServerNext, LauncherStarted, HandleShutdownPacket, HandleSocketClosed,
     HandleServerSocketError, LauncherNotConnected, LauncherFinished, Quit, clientVars,
     callerVars, sharedVars, launcherVars
<1>8. CASE UNCHANGED vars
  BY <1>1, <1>8 DEF vars, clientVars, callerVars, sharedVars, launcherVars
<1> QED
  BY <1>2, <1>3, <1>4, <1>5, <1>6, <1>7, <1>8 DEF Next

(* While there is a socket, no request stays in the queue unnoticed.        *)
THEOREM RequestsAreNotStranded == Spec => []NoStrandedRequest
<1>1. Init => NoStrandedRequest
  BY DEF Init, NoStrandedRequest
<1> QED
  BY <1>1, RequestStep, TypeCorrect, PTL DEF Spec

------------------------------------------------------------------------------
(* Only the innermost call of a thread waits or is about to: every call     *)
(* around it is in the middle of delivering a signal.  NoLostWakeup alone   *)
(* is not inductive: when a call returns, the call around it must not be    *)
(* one that slept through an append.                                        *)
Outer(frames) == \A i \in 2 .. Len(frames) : frames[i].pc = "deliver"
OuterCallsDeliver == \A thr \in Thread : Outer(stack[thr])

LEMMA OuterFrames ==
    ASSUME NEW frames \in Seq(Frame), Outer(frames), NEW frame \in Frame
    PROVE  /\ frames = <<>> \/ Head(frames).pc = "deliver" => Outer(<<frame>> \o frames)
           /\ frames # <<>> => Outer(<<frame>> \o Tail(frames))
           /\ frames # <<>> => Outer(Tail(frames))
           /\ frames # <<>> /\ Tail(frames) # <<>> => Head(Tail(frames)).pc = "deliver"
  BY DEF Outer

LEMMA FrontFrame ==
    ASSUME NEW frames \in Seq(Frame), NEW frame \in Frame
    PROVE  <<frame>> \o frames # <<>> /\ Head(<<frame>> \o frames) = frame
  OBVIOUS

(* How a step changes the calls a thread is inside of.                      *)
Opens(thr) ==
    \E frame \in Frame : /\ Push(thr, frame) /\ frame.pc \in {"check", "deliver"}
                         /\ InCall(thr) => Top(thr).pc = "deliver"
Advances(thr) ==
    \E frame \in Frame : /\ InCall(thr) /\ SetTop(thr, frame)
                         /\ frame.pc = "asleep" =>
                                m_signals[frame.tok] = <<>> /\ UNCHANGED m_signals
Returns(thr) == InCall(thr) /\ Pop(thr)

LEMMA StackSteps ==
    ASSUME TypeOK, [Next]_vars
    PROVE  \/ \E thr \in Thread : Opens(thr) \/ Advances(thr) \/ Returns(thr)
           \/ FlushCaller
           \/ UNCHANGED stack
<1>1. ASSUME NEW t \in Token, Flush(t) PROVE Opens(ThreadOf[t])
  <2>1. PICK n \in 0 .. Len(m_signals[t]) : Push(ThreadOf[t], FlushFrame(t, "NoSignal", n))
    BY <1>1 DEF Flush
  <2>2. FlushFrame(t, "NoSignal", n) \in Frame
    BY <2>1, FlushTypes DEF SignalType
  <2> QED
    BY <1>1, <2>1, <2>2 DEF Opens, Flush, InEventLoop, FlushFrame
<1>2. ASSUME NEW t \in Token, NEW for \in {"Started", "ReadyRead", "Done"}, WaitForSignal(t, for)
      PROVE  Opens(ThreadOf[t])
  <2> DEFINE frame == [tok |-> t, for |-> for, pc |-> "check", todo |-> <<>>,
                       matched |-> FALSE, inSlot |-> FALSE]
  <2>1. frame \in Frame /\ frame.pc = "check"
    BY DEF Frame, SignalType
  <2>2. Push(ThreadOf[t], frame) /\ UserCode(ThreadOf[t])
    BY <1>2 DEF WaitForSignal
  <2> HIDE DEF frame
  <2> QED
    BY <2>1, <2>2 DEF Opens, UserCode
<1>3. ASSUME NEW thr \in Thread, CallerNext(thr)
      PROVE  Advances(thr) \/ Returns(thr) \/ UNCHANGED stack
  <2> USE DEF Advances, Returns
  <2>1. CASE PostHandleRequests(thr)
    BY <2>1 DEF PostHandleRequests
  <2>2. CASE Deliver(thr)
    <3> DEFINE frame == Top(thr)
    <3>1. InCall(thr) /\ frame \in Frame /\ frame.pc = "deliver" /\ frame.todo # <<>>
      BY <2>2, TopTypes DEF Deliver, TypeOK
    <3> DEFINE matched == frame.matched \/ Head(frame.todo).type \in {frame.for, "Done"}
               inSlot == frame.tok \notin detached
               next == [frame EXCEPT !.todo = Tail(frame.todo), !.matched = matched,
                                     !.inSlot = inSlot]
    <3>2. SetTop(thr, next)
      BY <2>2 DEF Deliver
    <3>3. matched \in BOOLEAN /\ inSlot \in BOOLEAN
      OBVIOUS
    <3>4. Tail(frame.todo) \in Seq(Signal)
      BY <3>1 DEF Frame
    <3>5. next \in Frame /\ next.pc = "deliver"
      <4> HIDE DEF matched, inSlot, frame
      <4> QED
        BY <3>1, <3>3, <3>4 DEF Frame
    <3> HIDE DEF next
    <3> QED
      BY <3>1, <3>2, <3>5
  <2>3. CASE FlushReturns(thr)
    <3>1. InCall(thr) /\ Top(thr) \in Frame
      BY <2>3, TopTypes DEF FlushReturns, TypeOK
    <3>2. [Top(thr) EXCEPT !.pc = "check", !.inSlot = FALSE] \in Frame
      BY <3>1 DEF Frame
    <3>3. [Top(thr) EXCEPT !.pc = "check", !.inSlot = FALSE].pc = "check"
      BY <3>1 DEF Frame
    <3> QED
      BY <2>3, <3>1, <3>2, <3>3 DEF FlushReturns
  <2>4. CASE DoWaitForSignal(thr)
    <3> DEFINE pc == IF m_signals[Top(thr).tok] # <<>> THEN "take" ELSE "asleep"
               frame == [Top(thr) EXCEPT !.pc = pc]
    <3>1. InCall(thr) /\ Top(thr) \in Frame /\ SetTop(thr, frame)
      BY <2>4, TopTypes DEF DoWaitForSignal, SetPc, TypeOK
    <3>2. frame \in Frame /\ frame.pc = pc /\ frame.tok = Top(thr).tok
      BY <3>1 DEF Frame
    <3>3. frame.pc = "asleep" => m_signals[frame.tok] = <<>>
      BY <3>2
    <3>4. UNCHANGED m_signals
      BY <2>4 DEF DoWaitForSignal, sharedVars
    <3> HIDE DEF frame, pc
    <3> QED
      BY <3>1, <3>2, <3>3, <3>4
  <2>5. CASE WaitTimeout(thr)
    BY <2>5 DEF WaitTimeout
  <2>6. CASE WaitTakes(thr)
    <3>1. Top(thr) \in Frame
      BY <2>6, TopTypes DEF WaitTakes, TypeOK
    <3>2. PICK n \in 0 .. Len(m_signals[Top(thr).tok]) :
              SetTop(thr, FlushFrame(Top(thr).tok, Top(thr).for, n))
      BY <2>6 DEF WaitTakes
    <3>3. FlushFrame(Top(thr).tok, Top(thr).for, n) \in Frame
      BY <3>1, <3>2, FlushTypes DEF Frame
    <3>4. FlushFrame(Top(thr).tok, Top(thr).for, n).pc = "deliver"
      BY DEF FlushFrame
    <3> QED
      BY <2>6, <3>2, <3>3, <3>4 DEF WaitTakes
  <2> QED
    BY <1>3, <2>1, <2>2, <2>3, <2>4, <2>5, <2>6 DEF CallerNext
<1>4. ASSUME NEW t \in Token, UserNext(t) \/ CallerTokenNext(t)
      PROVE  (\E thr \in Thread : Opens(thr)) \/ UNCHANGED stack
  BY <1>1, <1>2, <1>4, ThreadOfAssumption DEF UserNext, CallerTokenNext, RegisterHandle, Control,
     Write, Close, ProgramMissing, Start, DestroyInterface, UnregisterHandle
<1>5. CASE LauncherNext
  BY <1>5 DEF LauncherNext, SetSocket, HandleRequests, HandleSocketDataAvailable, LockHandle,
     AppendSignal, SocketErrorOccurred, HandleSocketDisconnected, HandleError, HandleSocketError,
     DoStop, callerVars
<1>6. CASE \E t \in Token : ServerTokenNext(t)
  BY <1>6 DEF ServerTokenNext, HandleStartPacket, HandleWritePacket, HandleTerminatePacket,
     HandleKillPacket, HandleClosePacket, HandleProcessStarted, HandleProcessError, ChildWrites,
     HandleReadyReadStandardOutput, HandleProcessFinished, Reaped, clientVars, callerVars
<1>7. CASE ServerNext
  BY <1>7 DEF ServerNext, LauncherStarted, HandleShutdownPacket, HandleSocketClosed,
     HandleServerSocketError, LauncherNotConnected, LauncherFinished, Quit, clientVars, callerVars
<1>8. CASE UNCHANGED vars
  BY <1>8 DEF vars, clientVars, callerVars
<1> QED
  BY <1>3, <1>4, <1>5, <1>6, <1>7, <1>8 DEF Next

(* What a step does to the stack of any thread u.                           *)
LEMMA OuterStep == TypeOK /\ OuterCallsDeliver /\ [Next]_vars => OuterCallsDeliver'
<1> SUFFICES ASSUME TypeOK, OuterCallsDeliver, [Next]_vars, NEW u \in Thread
             PROVE  Outer(stack'[u])
  BY DEF OuterCallsDeliver
<1>1. stack \in [Thread -> Seq(Frame)] /\ stack[u] \in Seq(Frame) /\ Outer(stack[u])
  BY DEF TypeOK, CallerTypeOK, OuterCallsDeliver
<1>2. ASSUME NEW thr \in Thread, Opens(thr) PROVE Outer(stack'[u])
  <2>1. PICK frame \in Frame : Push(thr, frame) /\ (InCall(thr) => Top(thr).pc = "deliver")
    BY <1>2 DEF Opens
  <2>2. CASE u = thr
    BY <1>1, <2>1, <2>2, OuterFrames DEF Push, InCall, Top
  <2>3. CASE u # thr
    BY <1>1, <2>1, <2>3 DEF Push
  <2> QED
    BY <2>2, <2>3
<1>3. ASSUME NEW thr \in Thread, Advances(thr) PROVE Outer(stack'[u])
  <2>1. PICK frame \in Frame : InCall(thr) /\ SetTop(thr, frame)
    BY <1>3 DEF Advances
  <2>2. CASE u = thr
    BY <1>1, <2>1, <2>2, OuterFrames DEF SetTop, InCall
  <2>3. CASE u # thr
    BY <1>1, <2>1, <2>3 DEF SetTop
  <2> QED
    BY <2>2, <2>3
<1>4. ASSUME NEW thr \in Thread, Returns(thr) PROVE Outer(stack'[u])
  <2>1. CASE u = thr
    <3>1. stack'[u] = Tail(stack[u]) /\ stack[u] # <<>>
      BY <1>1, <1>4, <2>1 DEF Returns, Pop, InCall
    <3> QED
      BY <1>1, <3>1 DEF Outer
  <2>2. CASE u # thr
    BY <1>1, <1>4, <2>2 DEF Returns, Pop
  <2> QED
    BY <2>1, <2>2
<1>5. CASE FlushCaller
  <2>1. CASE Asleep(u, job.tok)
    <3>1. [Top(u) EXCEPT !.pc = "take"] \in Frame
      BY <2>1, TopTypes DEF Asleep, TypeOK, Frame
    <3>2. stack'[u] = <<[Top(u) EXCEPT !.pc = "take"]>> \o Tail(stack[u])
      BY <1>5, <2>1 DEF FlushCaller, WakeOne
    <3> QED
      BY <1>1, <2>1, <3>1, <3>2, OuterFrames DEF Asleep, InCall
  <2>2. CASE ~Asleep(u, job.tok)
    BY <1>1, <1>5, <2>2 DEF FlushCaller, WakeOne
  <2> QED
    BY <2>1, <2>2
<1> QED
  BY <1>1, <1>2, <1>3, <1>4, <1>5, StackSteps

(* A thread falls asleep only when nothing is stored for it.                *)
LEMMA AsleepStep ==
    ASSUME TypeOK, OuterCallsDeliver, [Next]_vars, NEW u \in Thread, NEW t \in Token,
           Asleep(u, t)'
    PROVE  \/ Asleep(u, t) /\ ~(FlushCaller /\ job.tok = t)
           \/ m_signals[t] = <<>> /\ UNCHANGED m_signals
<1>1. stack \in [Thread -> Seq(Frame)] /\ stack[u] \in Seq(Frame) /\ Outer(stack[u])
  BY DEF TypeOK, CallerTypeOK, OuterCallsDeliver
<1>2. stack'[u] # <<>> /\ Head(stack'[u]).pc = "asleep" /\ Head(stack'[u]).tok = t
  BY DEF Asleep, Top, InCall
<1>3. ASSUME stack'[u] = stack[u] PROVE Asleep(u, t)
  BY <1>2, <1>3 DEF Asleep, Top, InCall
<1>4. CASE FlushCaller
  <2>1. CASE Asleep(u, job.tok)
    <3> DEFINE frame == [Top(u) EXCEPT !.pc = "take"]
    <3>1. frame \in Frame /\ frame.pc = "take"
      BY <2>1, TopTypes DEF Asleep, TypeOK, Frame
    <3>2. stack'[u] = <<frame>> \o Tail(stack[u])
      BY <1>4, <2>1 DEF FlushCaller, WakeOne
    <3>3. Tail(stack[u]) \in Seq(Frame)
      BY <1>1, <2>1 DEF Asleep, InCall
    <3> HIDE DEF frame
    <3>4. Head(stack'[u]) = frame
      BY <3>1, <3>2, <3>3, FrontFrame
    <3> QED
      BY <1>2, <3>1, <3>4
  <2>2. CASE ~Asleep(u, job.tok)
    <3>1. stack'[u] = stack[u]
      BY <1>1, <1>4, <2>2 DEF FlushCaller, WakeOne
    <3> QED
      BY <1>3, <2>2, <3>1
  <2> QED
    BY <2>1, <2>2
<1>5. ASSUME ~FlushCaller, NEW thr \in Thread, Opens(thr) PROVE Asleep(u, t)
  <2>1. PICK frame \in Frame : Push(thr, frame) /\ frame.pc # "asleep"
    BY <1>5 DEF Opens
  <2>2. CASE u = thr
    BY <1>1, <1>2, <2>1, <2>2, FrontFrame DEF Push
  <2>3. CASE u # thr
    BY <1>1, <1>3, <2>1, <2>3 DEF Push
  <2> QED
    BY <2>2, <2>3
<1>6. ASSUME ~FlushCaller, NEW thr \in Thread, Advances(thr)
      PROVE  Asleep(u, t) \/ (m_signals[t] = <<>> /\ UNCHANGED m_signals)
  <2>1. PICK frame \in Frame :
            /\ InCall(thr) /\ SetTop(thr, frame)
            /\ frame.pc = "asleep" => m_signals[frame.tok] = <<>> /\ UNCHANGED m_signals
    BY <1>6 DEF Advances
  <2>2. CASE u = thr
    <3>1. Tail(stack[u]) \in Seq(Frame) /\ stack'[u] = <<frame>> \o Tail(stack[u])
      BY <1>1, <2>1, <2>2 DEF SetTop, InCall
    <3>2. Head(stack'[u]) = frame
      BY <3>1, FrontFrame
    <3> QED
      BY <1>2, <2>1, <3>2
  <2>3. CASE u # thr
    BY <1>1, <1>3, <2>1, <2>3 DEF SetTop
  <2> QED
    BY <2>2, <2>3
<1>7. ASSUME ~FlushCaller, NEW thr \in Thread, Returns(thr) PROVE Asleep(u, t)
  <2>1. CASE u = thr
    <3>1. stack'[u] = Tail(stack[u]) /\ stack[u] # <<>>
      BY <1>1, <1>7, <2>1 DEF Returns, Pop, InCall
    <3>2. Head(Tail(stack[u])) = stack[u][2] /\ 2 \in 2 .. Len(stack[u])
      BY <1>1, <1>2, <3>1
    <3> QED
      BY <1>1, <1>2, <3>1, <3>2 DEF Outer
  <2>2. CASE u # thr
    BY <1>1, <1>3, <1>7, <2>2 DEF Returns, Pop
  <2> QED
    BY <2>1, <2>2
<1> QED
  BY <1>3, <1>4, <1>5, <1>6, <1>7, StackSteps

LEMMA WakeupStep ==
    TypeOK /\ OuterCallsDeliver /\ NoLostWakeup /\ [Next]_vars => NoLostWakeup'
<1> SUFFICES ASSUME TypeOK, OuterCallsDeliver, NoLostWakeup, [Next]_vars,
                    NEW u \in Thread, NEW t \in Token, Asleep(u, t)'
             PROVE  m_signals'[t] = <<>> \/ Locked(t)'
  BY DEF NoLostWakeup
<1> DEFINE Goal == m_signals'[t] = <<>> \/ Locked(t)'
<1>1. m_signals \in [Token -> Seq(Signal)]
  BY DEF TypeOK, SharedTypeOK
<1>2. CASE m_signals[t] = <<>> /\ UNCHANGED m_signals
  BY <1>2
<1>3. CASE Asleep(u, t) /\ ~(FlushCaller /\ job.tok = t)
  <2>1. m_signals[t] = <<>> \/ Locked(t)
    BY <1>3 DEF NoLostWakeup
  <2> USE DEF Locked
  <2>2. CASE UNCHANGED <<m_signals, flushPosted, job>>
    BY <2>1, <2>2
  <2>3. ASSUME NEW x \in Token, UnregisterHandle(x) PROVE Goal
    BY <1>1, <2>1, <2>3 DEF UnregisterHandle, launcherVars
  <2>4. ASSUME NEW x \in Token, Flush(x) PROVE Goal
    <3>1. PICK n \in 0 .. Len(m_signals[x]) : TakeSignals(x, n)
      BY <2>4 DEF Flush
    <3> QED
      BY <2>1, <2>4, <3>1, TakeEmpty DEF Flush, launcherVars
  <2>5. ASSUME NEW thr \in Thread, WaitTakes(thr) PROVE Goal
    <3>1. Top(thr).tok \in Token
      BY <2>5, TopTypes DEF WaitTakes, TypeOK, Frame
    <3>2. PICK n \in 0 .. Len(m_signals[Top(thr).tok]) : TakeSignals(Top(thr).tok, n)
      BY <2>5 DEF WaitTakes
    <3> QED
      BY <2>1, <2>5, <3>1, <3>2, TakeEmpty DEF WaitTakes, launcherVars
  <2>6. CASE HandleSocketDataAvailable
    BY <2>1, <2>6, JobTypes DEF HandleSocketDataAvailable, LauncherIdle, sharedVars
  <2>7. CASE LockHandle
    BY <2>1, <2>7, JobTypes DEF LockHandle, sharedVars
  <2>8. CASE AppendSignal
    <3>1. job'.locked /\ job'.tok = job.tok
      BY <2>8 DEF AppendSignal, TypeOK, LauncherTypeOK, Job, NoJob
    <3> QED
      BY <1>1, <2>1, <2>8, <3>1, JobTypes DEF AppendSignal
  <2>9. CASE FlushCaller
    BY <1>3, <2>1, <2>9, JobTypes DEF FlushCaller
  <2>10. ASSUME NEW x \in Token, HandleSocketError(x) PROVE Goal
    BY <2>1, <2>10, JobTypes DEF HandleSocketError
  <2> QED
    BY <2>2, <2>3, <2>4, <2>5, <2>6, <2>7, <2>8, <2>9, <2>10, SignalSteps DEF SignalStep
<1> QED
  BY <1>2, <1>3, AsleepStep

(* No thread sleeps through a signal.                                       *)
THEOREM NoWakeupIsLost == Spec => []NoLostWakeup
<1>1. Init => OuterCallsDeliver /\ NoLostWakeup
  BY DEF Init, OuterCallsDeliver, Outer, NoLostWakeup, Asleep, InCall
<1> QED
  BY <1>1, OuterStep, WakeupStep, TypeCorrect, PTL DEF Spec

(* Requests, signals and wake-ups all get to whom they are stored for.      *)
THEOREM NothingGetsStranded == Spec => []NothingIsStranded
  BY NoWakeupIsLost, SignalsAreNotStranded, RequestsAreNotStranded, PTL DEF NothingIsStranded

------------------------------------------------------------------------------
(* A process is reported as done exactly once.                              *)

USE DEF clientVars, callerVars, sharedVars, launcherVars, linkVars, serverVars

------------------------------------------------------------------------------
(* Counting: a count is a number, and adds up over a concatenation.         *)
LEMMA Counted ==
    ASSUME NEW X, NEW s \in Seq(X), NEW S
    PROVE  /\ IsFiniteSet({i \in DOMAIN s : s[i] \in S})
           /\ Count(s, S) \in Nat
           /\ Count(s, S) = 0 <=> \A i \in DOMAIN s : s[i] \notin S
<1>1. DOMAIN s = 1 .. Len(s) /\ Len(s) \in Nat
  OBVIOUS
<1>2. IsFiniteSet(1 .. Len(s))
  BY <1>1, FS_Interval
<1>3. IsFiniteSet({i \in DOMAIN s : s[i] \in S})
  BY <1>1, <1>2, FS_Subset
<1> QED
  BY <1>3, FS_CardinalityType, FS_EmptySet DEF Count

(* Two sets, the first shifted away from the second.                        *)
LEMMA Shifted ==
    ASSUME NEW A, IsFiniteSet(A), NEW B, IsFiniteSet(B), NEW C, NEW f \in Bijection(B, C),
           A \cap C = {}
    PROVE  /\ IsFiniteSet(A \cup C)
           /\ Cardinality(A \cup C) = Cardinality(A) + Cardinality(B)
<1>1. IsFiniteSet(C) /\ Cardinality(C) = Cardinality(B)
  BY FS_Bijection DEF ExistsBijection
<1>2. /\ IsFiniteSet(A \cup C)
      /\ Cardinality(A \cup C) = Cardinality(A) + Cardinality(C) - Cardinality(A \cap C)
  BY <1>1, FS_Union
<1>3. Cardinality(A \cap C) = 0
  BY FS_EmptySet
<1> QED
  BY <1>1, <1>2, <1>3, FS_CardinalityType

LEMMA CountConcat ==
    ASSUME NEW X, NEW s \in Seq(X), NEW t \in Seq(X), NEW S
    PROVE  Count(s \o t, S) = Count(s, S) + Count(t, S)
<1> DEFINE A == {i \in DOMAIN s : s[i] \in S}
           B == {i \in DOMAIN t : t[i] \in S}
           C == {i \in Len(s) + 1 .. Len(s) + Len(t) : (s \o t)[i] \in S}
           f == [i \in B |-> i + Len(s)]
<1>1. /\ DOMAIN s = 1 .. Len(s) /\ Len(s) \in Nat
      /\ DOMAIN t = 1 .. Len(t) /\ Len(t) \in Nat
      /\ DOMAIN (s \o t) = 1 .. Len(s) + Len(t)
      /\ \A i \in 1 .. Len(s) : (s \o t)[i] = s[i]
      /\ \A i \in 1 .. Len(t) : (s \o t)[i + Len(s)] = t[i]
  OBVIOUS
<1>2. IsFiniteSet(A) /\ IsFiniteSet(B)
  BY Counted
<1>3. f \in Bijection(B, C)
  <2>1. \A i \in B : i + Len(s) \in C
    BY <1>1
  <2>2. \A i \in C : i - Len(s) \in B /\ i = (i - Len(s)) + Len(s)
    BY <1>1
  <2>3. \A a, b \in B : a + Len(s) = b + Len(s) => a = b
    BY <1>1
  <2> QED
    BY <2>1, <2>2, <2>3 DEF Bijection, Injection, Surjection, IsInjective
<1>4. A \cap C = {} /\ {i \in DOMAIN (s \o t) : (s \o t)[i] \in S} = A \cup C
  BY <1>1
<1>5. Cardinality(A \cup C) = Cardinality(A) + Cardinality(B)
  BY <1>2, <1>3, <1>4, Shifted
<1> QED
  BY <1>4, <1>5 DEF Count

(* The sequences that change by an element, or in the middle.               *)
LEMMA CountAppend ==
    ASSUME NEW X, NEW s \in Seq(X), NEW e \in X, NEW S
    PROVE  Count(Append(s, e), S) = Count(s, S) + (IF e \in S THEN 1 ELSE 0)
<1>1. <<e>> \in Seq(X) /\ Append(s, e) = s \o <<e>>
  OBVIOUS
<1>2. {i \in DOMAIN <<e>> : <<e>>[i] \in S} = IF e \in S THEN {1} ELSE {}
  OBVIOUS
<1>3. Count(<<e>>, S) = IF e \in S THEN 1 ELSE 0
  BY <1>2, FS_EmptySet, FS_Singleton DEF Count
<1>4. Count(s \o <<e>>, S) = Count(s, S) + Count(<<e>>, S)
  BY <1>1, CountConcat, Zenon
<1> QED
  BY <1>1, <1>3, <1>4

LEMMA CountTail ==
    ASSUME NEW X, NEW s \in Seq(X), s # <<>>, NEW S
    PROVE  Count(s, S) = Count(Tail(s), S) + (IF Head(s) \in S THEN 1 ELSE 0)
<1>1. /\ <<>> \in Seq(X) /\ Head(s) \in X /\ Tail(s) \in Seq(X)
      /\ <<Head(s)>> \in Seq(X) /\ s = <<Head(s)>> \o Tail(s) /\ <<Head(s)>> = Append(<<>>, Head(s))
  OBVIOUS
<1>2. Count(<<Head(s)>> \o Tail(s), S) = Count(<<Head(s)>>, S) + Count(Tail(s), S)
  BY <1>1, CountConcat, Zenon
<1>3. Count(Append(<<>>, Head(s)), S) = Count(<<>>, S) + (IF Head(s) \in S THEN 1 ELSE 0)
  BY <1>1, CountAppend, Zenon
<1>4. Count(Tail(s), S) \in Nat
  BY <1>1, Counted, Zenon
<1>5. (\A i \in DOMAIN <<>> : <<>>[i] \notin S) => Count(<<>>, S) = 0
  BY <1>1, Counted, Zenon
<1>6. Count(<<>>, S) = 0
  BY <1>5
<1>7. Count(s, S) = Count(Append(<<>>, Head(s)), S) + Count(Tail(s), S)
  BY <1>1, <1>2, Zenon
<1> QED
  BY <1>3, <1>4, <1>6, <1>7

LEMMA CountSplit ==
    ASSUME NEW X, NEW s \in Seq(X), NEW n \in 0 .. Len(s), NEW S
    PROVE  /\ SubSeq(s, 1, n) \in Seq(X) /\ SubSeq(s, n + 1, Len(s)) \in Seq(X)
           /\ Count(s, S) = Count(SubSeq(s, 1, n), S) + Count(SubSeq(s, n + 1, Len(s)), S)
<1>1. SubSeq(s, 1, n) \in Seq(X) /\ SubSeq(s, n + 1, Len(s)) \in Seq(X)
  OBVIOUS
<1>2. /\ 1 \in 1 .. Len(s) + 1 /\ n \in 1 - 1 .. Len(s) /\ Len(s) \in n .. Len(s)
      /\ SubSeq(s, 1, Len(s)) = s
  OBVIOUS
<1>3. SubSeq(s, 1, n) \o SubSeq(s, n + 1, Len(s)) = SubSeq(s, 1, Len(s))
  BY <1>2, ConcatAdjacentSubSeq, Zenon
<1>4. Count(SubSeq(s, 1, n) \o SubSeq(s, n + 1, Len(s)), S)
        = Count(SubSeq(s, 1, n), S) + Count(SubSeq(s, n + 1, Len(s)), S)
  BY <1>1, CountConcat, Zenon
<1> QED
  BY <1>1, <1>2, <1>3, <1>4, Zenon

(* A call that is put on top of the others, or taken from there.            *)
LEMMA TakenTop ==
    ASSUME NEW frames \in Seq(Frame), NEW frame \in Frame, NEW t, NEW S
    PROVE  /\ Taken(frames, t, S) \in Nat
           /\ Taken(<<frame>> \o frames, t, S)
                = (IF frame.tok = t THEN Count(frame.todo, S) ELSE 0) + Taken(frames, t, S)
<1> DEFINE new == <<frame>> \o frames
           M(todo) == {j \in DOMAIN todo : todo[j] \in S}
           P(fs) == UNION {{i} \X M(fs[i].todo) : i \in {k \in DOMAIN fs : fs[k].tok = t}}
           D == IF frame.tok = t THEN M(frame.todo) ELSE {}
           A == {1} \X D
           C == {p \in P(new) : p[1] # 1}
           f == [p \in P(frames) |-> <<p[1] + 1, p[2]>>]
           g == [j \in D |-> <<1, j>>]
<1>1. /\ DOMAIN frames = 1 .. Len(frames) /\ Len(frames) \in Nat
      /\ DOMAIN new = 1 .. Len(frames) + 1
      /\ new[1] = frame /\ \A i \in 1 .. Len(frames) : new[i + 1] = frames[i]
  OBVIOUS
<1>2. /\ frame.todo \in Seq(Signal)
      /\ \A i \in DOMAIN frames : frames[i] \in Frame /\ frames[i].todo \in Seq(Signal)
  <2>1. \A x \in Frame : x.todo \in Seq(Signal)
    BY DEF Frame
  <2>2. \A i \in DOMAIN frames : frames[i] \in Frame
    BY <1>1
  <2> QED
    BY <2>1, <2>2
<1>3. /\ IsFiniteSet(M(frame.todo)) /\ Cardinality(M(frame.todo)) = Count(frame.todo, S)
      /\ \A i \in DOMAIN frames : IsFiniteSet(M(frames[i].todo))
  BY <1>2, Counted DEF Count
<1>4. IsFiniteSet(P(frames))
  <2> DEFINE I == {k \in DOMAIN frames : frames[k].tok = t}
             F(i) == {i} \X M(frames[i].todo)
             h == [i \in I |-> F(i)]
  <2>1. IsFiniteSet(DOMAIN frames)
    BY <1>1, FS_Interval
  <2>2. IsFiniteSet(I)
    BY <2>1, FS_Subset
  <2>3. h \in Surjection(I, {F(i) : i \in I})
    BY DEF Surjection
  <2>4. IsFiniteSet({F(i) : i \in I})
    BY <2>2, <2>3, FS_Surjection
  <2>5. ASSUME NEW i \in I PROVE IsFiniteSet(F(i))
    <3>1. IsFiniteSet(M(frames[i].todo)) /\ IsFiniteSet({i})
      BY <1>3, FS_Singleton
    <3> HIDE DEF M
    <3> QED
      BY <3>1, FS_Product
  <2> DEFINE parts == {F(i) : i \in I}
  <2>6. IsFiniteSet(parts) /\ \A part \in parts : IsFiniteSet(part)
    BY <2>4, <2>5
  <2>7. P(frames) = UNION parts
    OBVIOUS
  <2> HIDE DEF parts, P
  <2> QED
    BY <2>6, <2>7, FS_UNION
<1>5. f \in Bijection(P(frames), C)
  <2>1. \A p \in P(frames) : f[p] \in C
    BY <1>1
  <2>2. \A q \in C : <<q[1] - 1, q[2]>> \in P(frames) /\ f[<<q[1] - 1, q[2]>>] = q
    BY <1>1
  <2>3. ASSUME NEW p \in P(frames), NEW q \in P(frames), f[p] = f[q] PROVE p = q
    <3>1. p[1] + 1 = q[1] + 1 /\ p[2] = q[2]
      BY <2>3
    <3>2. p = <<p[1], p[2]>> /\ q = <<q[1], q[2]>> /\ p[1] \in Nat /\ q[1] \in Nat
      BY <1>1
    <3> QED
      BY <3>1, <3>2
  <2> QED
    BY <2>1, <2>2, <2>3 DEF Bijection, Injection, Surjection, IsInjective
<1>6. A \cap C = {} /\ P(new) = A \cup C
  BY <1>1
<1>7. g \in Bijection(D, A)
  BY DEF Bijection, Injection, Surjection, IsInjective
<1>8. IsFiniteSet(A) /\ Cardinality(A) = Cardinality(D)
  BY <1>3, <1>7, FS_Bijection, FS_EmptySet DEF ExistsBijection
<1>9. Cardinality(D) = IF frame.tok = t THEN Count(frame.todo, S) ELSE 0
  BY <1>3, FS_EmptySet
<1>10. Cardinality(A \cup C) = Cardinality(A) + Cardinality(P(frames))
  BY <1>4, <1>5, <1>6, <1>8, Shifted
<1> QED
  BY <1>4, <1>6, <1>8, <1>9, <1>10, FS_CardinalityType DEF Taken

------------------------------------------------------------------------------
(* The way of the signals of a token t: the socket (Sent), the launcher     *)
(* thread (Handled), the store (Stored) and the calls of its thread (Taken).*)
(* Of each place: is anything there, is started there, how often is done?   *)
Frames(t) == stack[ThreadOf[t]]

IsStarted(signal) == signal.type = "Started"
IsStartedPacket(packet, t) == packet.tok = t /\ packet.type = "ProcessStarted"

(* The calls of a thread, in the same way.                                  *)
NoneIn(frames, t) == \A k \in DOMAIN frames : frames[k].tok = t => frames[k].todo = <<>>
StartIn(frames, t) == \E k \in DOMAIN frames :
    frames[k].tok = t /\ \E i \in DOMAIN frames[k].todo : IsStarted(frames[k].todo[i])
FirstIn(frames, t) == \A k \in DOMAIN frames : frames[k].tok = t =>
    \A i \in DOMAIN frames[k].todo : IsStarted(frames[k].todo[i]) =>
        k = 1 /\ i = 1 /\ ~frames[k].inSlot

NoneSent(t) == \A i \in DOMAIN s2c : s2c[i].tok # t
NoneHandled(t) == job.tok = t => job.todo = <<>>
NoneStored(t) == m_signals[t] = <<>>
NoneTaken(t) == NoneIn(Frames(t), t)

StartSent(t) == \E i \in DOMAIN s2c : IsStartedPacket(s2c[i], t)
StartHandled(t) == job.tok = t /\ \E i \in DOMAIN job.todo : IsStarted(job.todo[i])
StartStored(t) == \E i \in DOMAIN m_signals[t] : IsStarted(m_signals[t][i])
StartTaken(t) == StartIn(Frames(t), t)

DoneSent(t) == Count(s2c, DonePackets(t))
DoneHandled(t) == IF job.tok = t THEN Count(job.todo, DoneSignals) ELSE 0
DoneStored(t) == Count(m_signals[t], DoneSignals)
DoneTaken(t) == Taken(Frames(t), t, DoneSignals)

(* Where started is, it comes first; and no slot of its call has run.       *)
FirstSent(t) == \A i \in DOMAIN s2c : IsStartedPacket(s2c[i], t) =>
    \A j \in 1 .. i - 1 : s2c[j].tok # t
FirstHandled(t) == job.tok = t => \A i \in DOMAIN job.todo : IsStarted(job.todo[i]) => i = 1
FirstStored(t) == \A i \in DOMAIN m_signals[t] : IsStarted(m_signals[t][i]) => i = 1
FirstTaken(t) == FirstIn(Frames(t), t)

(* Started comes before everything else.                                    *)
StartedFirst(t) ==
    /\ FirstSent(t) /\ FirstHandled(t) /\ FirstStored(t) /\ FirstTaken(t)
    /\ StartSent(t) => NoneHandled(t) /\ NoneStored(t) /\ NoneTaken(t)
    /\ StartHandled(t) => NoneStored(t) /\ NoneTaken(t)
    /\ StartStored(t) => NoneTaken(t)

StartComes(t) == StartHandled(t) \/ StartStored(t) \/ StartTaken(t)

Waiting(type, t) == Count(Requests, {[type |-> type, tok |-> t]})

(* A process is started once, and closed when nobody listens any more.      *)
Requested(t) ==
    /\ t \in launching => Waiting("StartProcess", t) = 0 /\ process[t] = "none"
    /\ Waiting("StartProcess", t) <= 1
    /\ Waiting("StartProcess", t) = 1 => process[t] = "none"
    /\ Waiting("Close", t) > 0 => t \in closing \/ t \notin m_handles

Unused(t) == t \notin used =>
    /\ t \notin launching /\ t \notin erring /\ ~m_socketError[t]
    /\ m_processState[t] = "NotRunning" /\ process[t] = "none"
    /\ Waiting("StartProcess", t) = 0 /\ Waiting("Close", t) = 0
    /\ NoneSent(t) /\ NoneHandled(t) /\ NoneStored(t) /\ NoneTaken(t)

Lost(t) ==
    /\ m_socketError[t] \/ t \in erring => ~linkUp /\ m_socket \in {"lost", "stopped"}
    /\ m_socket = "lost" => ~linkUp
    /\ t \in erring => NoneSent(t)

NotYetStarted(t) == linkUp /\ process[t] \in {"none", "Starting"} =>
    NoneSent(t) /\ NoneHandled(t) /\ NoneStored(t) /\ NoneTaken(t)

(* What is started is not taken for a process that does not run.            *)
StartExpected(t) == linkUp /\ t \in m_handles \ closing /\ (StartSent(t) \/ StartComes(t)) =>
    m_processState[t] # "NotRunning"

OneAnswer(t) == linkUp /\ t \in m_handles \ closing =>
    Waiting("StartProcess", t) + (IF InProcesses(t) THEN 1 ELSE 0)
        + DoneSent(t) + DoneHandled(t) + DoneStored(t) + DoneTaken(t)
      = IF m_processState[t] = "NotRunning" THEN 0 ELSE 1

LossComes(t) ==
    t \in m_handles /\ m_socketError[t] /\ (m_processState[t] # "NotRunning" \/ StartComes(t)) =>
        DoneHandled(t) + DoneStored(t) + DoneTaken(t) > 0

Sound(t) ==
    /\ StartedFirst(t) /\ Requested(t) /\ Unused(t) /\ Lost(t)
    /\ NotYetStarted(t) /\ StartExpected(t) /\ OneAnswer(t) /\ LossComes(t)

(* Calls are in the stack of the thread of their token, and only one that   *)
(* delivers holds signals.                                                  *)
Home(frame, thr) ==
    ThreadOf[frame.tok] = thr /\ (frame.pc # "deliver" => frame.todo = <<>>)
AllHome(frames, thr) == \A i \in DOMAIN frames : Home(frames[i], thr)
AtHome == \A thr \in Thread : AllHome(stack[thr], thr)

AInv == TypeOK /\ AtHome /\ \A t \in Token : Sound(t)

------------------------------------------------------------------------------
(* What a step leaves as it was.                                            *)
SameSent(t) == /\ NoneSent(t)' <=> NoneSent(t)
               /\ StartSent(t)' <=> StartSent(t)
               /\ DoneSent(t)' = DoneSent(t)
               /\ FirstSent(t) => FirstSent(t)'
SameHandled(t) == /\ NoneHandled(t)' <=> NoneHandled(t)
                  /\ StartHandled(t)' <=> StartHandled(t)
                  /\ DoneHandled(t)' = DoneHandled(t)
                  /\ FirstHandled(t) => FirstHandled(t)'
SameStored(t) == /\ NoneStored(t)' <=> NoneStored(t)
                 /\ StartStored(t)' <=> StartStored(t)
                 /\ DoneStored(t)' = DoneStored(t)
                 /\ FirstStored(t) => FirstStored(t)'
SameTaken(t) == /\ NoneTaken(t)' <=> NoneTaken(t)
                /\ StartTaken(t)' <=> StartTaken(t)
                /\ DoneTaken(t)' = DoneTaken(t)
                /\ FirstTaken(t) => FirstTaken(t)'
SameSignals(t) == SameSent(t) /\ SameHandled(t) /\ SameStored(t) /\ SameTaken(t)

(* What reads only variables that stay, stays.                              *)
LEMMA Unmoved ==
    ASSUME NEW t \in Token
    PROVE  /\ s2c' = s2c => SameSent(t)
           /\ job' = job \/ (job.tok # t /\ job'.tok # t) => SameHandled(t)
           /\ m_signals'[t] = m_signals[t] => SameStored(t)
           /\ stack'[ThreadOf[t]] = stack[ThreadOf[t]] => SameTaken(t)
<1>1. s2c' = s2c => SameSent(t)
  BY DEF SameSent, NoneSent, StartSent, DoneSent, FirstSent
<1>2. job' = job \/ (job.tok # t /\ job'.tok # t) => SameHandled(t)
  BY DEF SameHandled, NoneHandled, StartHandled, DoneHandled, FirstHandled
<1>3. m_signals'[t] = m_signals[t] => SameStored(t)
  BY DEF SameStored, NoneStored, StartStored, DoneStored, FirstStored
<1>4. stack'[ThreadOf[t]] = stack[ThreadOf[t]] => SameTaken(t)
  BY DEF SameTaken, NoneTaken, StartTaken, DoneTaken, FirstTaken, Frames
<1> QED
  BY <1>1, <1>2, <1>3, <1>4

(* The parts of the type invariant that the proofs use.                     *)
LEMMA Parts ==
    ASSUME TypeOK
    PROVE  /\ m_processState \in [Token -> ProcessState]
           /\ process \in [Token -> {"none", "Starting", "Running", "reaping", "gone"}]
           /\ m_handles \in SUBSET used /\ used \in SUBSET Token
           /\ m_socketError \in [Token -> BOOLEAN] /\ linkUp \in BOOLEAN
           /\ m_signals \in [Token -> Seq(Signal)] /\ stack \in [Thread -> Seq(Frame)]
           /\ c2s \in Seq(Request) /\ m_requests \in Seq(Request) /\ s2c \in Seq(Reply)
           /\ job \in Job \cup {NoJob} /\ NoToken \notin Token
           /\ m_socket \in {"unset", "open", "lost", "stopped"}
           /\ \A t \in Token : ThreadOf[t] \in Thread
  BY NoTokenAssumption, ThreadOfAssumption
     DEF TypeOK, CallerTypeOK, SharedTypeOK, LauncherTypeOK, LinkTypeOK, ServerTypeOK

(* Calls that hold no signals of a token count for nothing.                 *)
LEMMA TakenNone ==
    ASSUME NEW frames \in Seq(Frame), NEW t \in Token, NEW S
    PROVE  /\ Taken(frames, t, S) \in Nat
           /\ NoneIn(frames, t) => Taken(frames, t, S) = 0
<1>1. [tok |-> t, for |-> "NoSignal", pc |-> "check", todo |-> <<>>, matched |-> FALSE,
       inSlot |-> FALSE] \in Frame
  BY DEF Frame, SignalType
<1>2. Taken(frames, t, S) \in Nat
  BY <1>1, TakenTop
<1>3. ASSUME NoneIn(frames, t)
      PROVE  Taken(frames, t, S) = 0
  <2>1. UNION {{i} \X {j \in DOMAIN frames[i].todo : frames[i].todo[j] \in S} :
                  i \in {k \in DOMAIN frames : frames[k].tok = t}} = {}
    BY <1>3 DEF NoneIn
  <2> QED
    BY <2>1, FS_EmptySet DEF Taken
<1> QED
  BY <1>2, <1>3

(* The numbers are numbers, and what is nowhere is not counted.             *)
LEMMA Numbers ==
    ASSUME TypeOK, NEW t \in Token
    PROVE  /\ DoneSent(t) \in Nat /\ DoneHandled(t) \in Nat /\ DoneStored(t) \in Nat
           /\ DoneTaken(t) \in Nat
           /\ \A type : Waiting(type, t) \in Nat
           /\ NoneSent(t) => DoneSent(t) = 0 /\ ~StartSent(t)
           /\ NoneHandled(t) => DoneHandled(t) = 0 /\ ~StartHandled(t)
           /\ NoneStored(t) => DoneStored(t) = 0 /\ ~StartStored(t)
           /\ NoneTaken(t) => DoneTaken(t) = 0 /\ ~StartTaken(t)
<1> USE Parts
<1>1. s2c \in Seq(Reply) /\ m_signals[t] \in Seq(Signal) /\ Frames(t) \in Seq(Frame)
  BY DEF Frames
<1>2. DoneSent(t) \in Nat /\ (NoneSent(t) => DoneSent(t) = 0 /\ ~StartSent(t))
  <2>1. /\ Count(s2c, DonePackets(t)) \in Nat
        /\ Count(s2c, DonePackets(t)) = 0 <=> \A i \in DOMAIN s2c : s2c[i] \notin DonePackets(t)
    BY <1>1, Counted, Zenon
  <2>2. NoneSent(t) => \A i \in DOMAIN s2c : s2c[i] \notin DonePackets(t)
    BY DEF NoneSent, DonePackets
  <2> QED
    BY <2>1, <2>2 DEF DoneSent, NoneSent, StartSent, IsStartedPacket
<1>3. DoneHandled(t) \in Nat /\ (NoneHandled(t) => DoneHandled(t) = 0 /\ ~StartHandled(t))
  <2>1. job.tok = t => job.todo \in Seq(Signal)
    BY DEF Job, NoJob
  <2>2. job.tok = t =>
            /\ Count(job.todo, DoneSignals) \in Nat
            /\ Count(job.todo, DoneSignals) = 0
                 <=> \A i \in DOMAIN job.todo : job.todo[i] \notin DoneSignals
    BY <2>1, Counted, Zenon
  <2> QED
    BY <2>2 DEF DoneHandled, NoneHandled, StartHandled
<1>4. DoneStored(t) \in Nat /\ (NoneStored(t) => DoneStored(t) = 0 /\ ~StartStored(t))
  <2>1. /\ Count(m_signals[t], DoneSignals) \in Nat
        /\ Count(m_signals[t], DoneSignals) = 0
             <=> \A i \in DOMAIN m_signals[t] : m_signals[t][i] \notin DoneSignals
    BY <1>1, Counted, Zenon
  <2> QED
    BY <2>1 DEF DoneStored, NoneStored, StartStored
<1>5. DoneTaken(t) \in Nat /\ (NoneTaken(t) => DoneTaken(t) = 0 /\ ~StartTaken(t))
  BY <1>1, TakenNone DEF DoneTaken, NoneTaken, StartTaken, NoneIn, StartIn
<1>6. \A type : Waiting(type, t) \in Nat
  <2> TAKE type
  <2>1. c2s \o m_requests \in Seq(Request)
    OBVIOUS
  <2>2. Count(c2s \o m_requests, {[type |-> type, tok |-> t]}) \in Nat
    BY <2>1, Counted, Zenon
  <2> QED
    BY <2>2 DEF Waiting, Requests
<1> QED
  BY <1>2, <1>3, <1>4, <1>5, <1>6

------------------------------------------------------------------------------
(* Requests: sent, written, and read.                                       *)
LEMMA WaitingParts ==
    ASSUME NEW c \in Seq(Request), NEW m \in Seq(Request), NEW S
    PROVE  /\ Count(c \o m, S) = Count(c, S) + Count(m, S)
           /\ Count(c, S) \in Nat /\ Count(m, S) \in Nat
<1>1. Count(c \o m, S) = Count(c, S) + Count(m, S)
  BY CountConcat, Zenon
<1>2. Count(c, S) \in Nat /\ Count(m, S) \in Nat
  BY Counted, Zenon
<1> QED
  BY <1>1, <1>2

LEMMA RequestsMove ==
    ASSUME TypeOK, TypeOK', NEW t \in Token, NEW type \in RequestType \ {"Shutdown"}
    PROVE  /\ UNCHANGED <<c2s, m_requests>> => Waiting(type, t)' = Waiting(type, t)
           /\ \A thr \in Thread, u \in Token, kind \in RequestType :
                SendPacket(thr, kind, u) /\ c2s' = c2s =>
                    Waiting(type, t)' = Waiting(type, t) + IF kind = type /\ u = t THEN 1 ELSE 0
           /\ WriteRequests => /\ Waiting(type, t)' <= Waiting(type, t)
                               /\ linkUp => Waiting(type, t)' = Waiting(type, t)
           /\ \A u \in Token, kind \in RequestType :
                NextRequest(kind, u) /\ m_requests' = m_requests =>
                    Waiting(type, t) = Waiting(type, t)' + IF kind = type /\ u = t THEN 1 ELSE 0
           /\ c2s' = Append(c2s, [type |-> "Shutdown", tok |-> NoToken]) /\ m_requests' = m_requests =>
                Waiting(type, t)' = Waiting(type, t)
           /\ c2s # <<>> /\ Head(c2s).type = "Shutdown" /\ c2s' = Tail(c2s)
                /\ m_requests' = m_requests => Waiting(type, t)' = Waiting(type, t)
<1> DEFINE S == {[type |-> type, tok |-> t]}
<1>1. /\ c2s \in Seq(Request) /\ m_requests \in Seq(Request)
      /\ c2s' \in Seq(Request) /\ m_requests' \in Seq(Request)
  BY DEF TypeOK, SharedTypeOK, LinkTypeOK
<1>2. /\ Waiting(type, t) = Count(c2s, S) + Count(m_requests, S)
      /\ Waiting(type, t)' = Count(c2s', S) + Count(m_requests', S)
      /\ Count(c2s, S) \in Nat /\ Count(m_requests, S) \in Nat
      /\ Count(c2s', S) \in Nat /\ Count(m_requests', S) \in Nat
  BY <1>1, WaitingParts DEF Waiting, Requests
<1>3. ASSUME NEW thr \in Thread, NEW u \in Token, NEW kind \in RequestType,
             SendPacket(thr, kind, u), c2s' = c2s
      PROVE  Waiting(type, t)' = Waiting(type, t) + IF kind = type /\ u = t THEN 1 ELSE 0
  <2> DEFINE r == [type |-> kind, tok |-> u]
  <2>1. r \in Request /\ m_requests' = Append(m_requests, r)
    BY <1>3 DEF SendPacket, Request
  <2>2. r \in S <=> kind = type /\ u = t
    OBVIOUS
  <2> HIDE DEF r, S
  <2>3. Count(Append(m_requests, r), S) = Count(m_requests, S) + IF r \in S THEN 1 ELSE 0
    BY <1>1, <2>1, CountAppend, Zenon
  <2> QED
    BY <1>2, <1>3, <2>1, <2>2, <2>3
<1>4. ASSUME WriteRequests
      PROVE  /\ Waiting(type, t)' <= Waiting(type, t)
             /\ linkUp => Waiting(type, t)' = Waiting(type, t)
  <2>1. m_requests' = <<>> /\ c2s' = IF linkUp THEN c2s \o m_requests ELSE c2s
    BY <1>4 DEF WriteRequests
  <2>2. (\A i \in DOMAIN <<>> : <<>>[i] \notin S) => Count(<<>>, S) = 0
    BY <1>1, <2>1, Counted, Zenon
  <2>3. DOMAIN <<>> = {}
    OBVIOUS
  <2> HIDE DEF S
  <2> QED
    BY <1>1, <1>2, <2>1, <2>2, <2>3, WaitingParts
<1>5. ASSUME NEW u \in Token, NEW kind \in RequestType,
             NextRequest(kind, u), m_requests' = m_requests
      PROVE  Waiting(type, t) = Waiting(type, t)' + IF kind = type /\ u = t THEN 1 ELSE 0
  <2>1. c2s # <<>> /\ Head(c2s) = [type |-> kind, tok |-> u] /\ c2s' = Tail(c2s)
    BY <1>5 DEF NextRequest
  <2>2. Head(c2s) \in S <=> kind = type /\ u = t
    BY <2>1
  <2> HIDE DEF S
  <2>3. Count(c2s, S) = Count(Tail(c2s), S) + IF Head(c2s) \in S THEN 1 ELSE 0
    BY <1>1, <2>1, CountTail, Zenon
  <2> QED
    BY <1>2, <1>5, <2>1, <2>2, <2>3
<1>6. ASSUME c2s' = Append(c2s, [type |-> "Shutdown", tok |-> NoToken]), m_requests' = m_requests
      PROVE  Waiting(type, t)' = Waiting(type, t)
  <2> DEFINE r == [type |-> "Shutdown", tok |-> NoToken]
  <2>1. r \in Request /\ r \notin S
    BY DEF Request, RequestType
  <2> HIDE DEF r, S
  <2>3. Count(Append(c2s, r), S) = Count(c2s, S) + IF r \in S THEN 1 ELSE 0
    BY <1>1, <2>1, CountAppend, Zenon
  <2> QED
    BY <1>2, <1>6, <2>1, <2>3 DEF r
<1>7. ASSUME c2s # <<>>, Head(c2s).type = "Shutdown", c2s' = Tail(c2s), m_requests' = m_requests
      PROVE  Waiting(type, t)' = Waiting(type, t)
  <2>1. Head(c2s) \notin S
    BY <1>7
  <2> HIDE DEF S
  <2>3. Count(c2s, S) = Count(Tail(c2s), S) + IF Head(c2s) \in S THEN 1 ELSE 0
    BY <1>1, <1>7, CountTail, Zenon
  <2> QED
    BY <1>2, <1>7, <2>1, <2>3
<1>8. UNCHANGED <<c2s, m_requests>> => Waiting(type, t)' = Waiting(type, t)
  BY DEF Waiting, Requests
<1> QED
  BY <1>3, <1>4, <1>5, <1>6, <1>7, <1>8

------------------------------------------------------------------------------
(* The steps that move no signal.                                           *)
SignalsStay == UNCHANGED <<s2c, job, m_signals, stack>>

LEMMA Stay == ASSUME SignalsStay, NEW t \in Token PROVE SameSignals(t)
  BY Unmoved DEF SignalsStay, SameSignals

(* User code and the owner of a handle send requests, and no signals.       *)
LEMMA CallerQuiet ==
    ASSUME AInv, TypeOK', NEW t \in Token, NEW u \in Token,
           \/ RegisterHandle(u) \/ ProgramMissing(u) \/ Start(u)
           \/ \E type \in {"Terminate", "Kill"} : Control(u, type)
           \/ Write(u) \/ Close(u) \/ DestroyInterface(u)
    PROVE  Sound(t)'
<1> USE DEF AInv, Sound, SameSignals, SameSent, SameHandled, SameStored, SameTaken,
        StartedFirst, Requested, Unused, Lost, NotYetStarted, StartExpected, OneAnswer, LossComes,
        StartComes, InProcesses, ProcessState
<1>1. TypeOK /\ Sound(t)
  OBVIOUS
<1>2. /\ m_processState \in [Token -> ProcessState]
      /\ m_handles \in SUBSET used /\ used \in SUBSET Token /\ ThreadOf[u] \in Thread
  BY Parts
<1>3. /\ Waiting("StartProcess", t) \in Nat /\ Waiting("Close", t) \in Nat
      /\ DoneSent(t) \in Nat /\ DoneHandled(t) \in Nat /\ DoneStored(t) \in Nat
      /\ DoneTaken(t) \in Nat
      /\ NoneSent(t) => DoneSent(t) = 0 /\ ~StartSent(t)
      /\ NoneHandled(t) => DoneHandled(t) = 0 /\ ~StartHandled(t)
      /\ NoneStored(t) => DoneStored(t) = 0 /\ ~StartStored(t)
      /\ NoneTaken(t) => DoneTaken(t) = 0 /\ ~StartTaken(t)
  BY Numbers
<1> DEFINE Moves(type, kind) == Waiting(type, t)' = Waiting(type, t) + IF kind = type /\ u = t THEN 1 ELSE 0
<1>4. ASSUME NEW type \in {"StartProcess", "Close"} 
      PROVE  /\ UNCHANGED <<c2s, m_requests>> => Waiting(type, t)' = Waiting(type, t)
             /\ \A kind \in RequestType : SendPacket(ThreadOf[u], kind, u) /\ c2s' = c2s => Moves(type, kind)
  BY <1>2, RequestsMove DEF RequestType
<1> HIDE DEF AInv
<1>5. CASE RegisterHandle(u)
  <2>1. SameSignals(t) /\ Waiting("StartProcess", t)' = Waiting("StartProcess", t)
         /\ Waiting("Close", t)' = Waiting("Close", t)
    BY <1>4, <1>5, Stay DEF RegisterHandle, SignalsStay
  <2> QED
    BY <1>1, <1>2, <1>3, <1>5, <2>1 DEF RegisterHandle
<1>6. CASE ProgramMissing(u)
  <2>1. SameSignals(t) /\ Waiting("StartProcess", t)' = Waiting("StartProcess", t)
         /\ Waiting("Close", t)' = Waiting("Close", t)
    BY <1>4, <1>6, Stay DEF ProgramMissing, SignalsStay
  <2> QED
    BY <1>1, <1>2, <1>3, <1>6, <2>1 DEF ProgramMissing
<1>7. CASE Start(u)
  <2>1. SameSignals(t)
    BY <1>7, Stay DEF Start, SignalsStay
  <2>2. CASE m_socketError[u]
    <3>1. UNCHANGED <<c2s, m_requests>>
      BY <1>7, <2>2 DEF Start, NothingSent
    <3> QED
      BY <1>1, <1>2, <1>3, <1>4, <1>7, <2>1, <2>2, <3>1 DEF Start
  <2>3. CASE ~m_socketError[u]
    <3>1. SendPacket(ThreadOf[u], "StartProcess", u) /\ c2s' = c2s
      BY <1>7, <2>3 DEF Start
    <3>2. Moves("StartProcess", "StartProcess") /\ Moves("Close", "StartProcess")
      BY <1>4, <3>1 DEF RequestType
    <3> QED
      BY <1>1, <1>2, <1>3, <1>7, <2>1, <2>3, <3>2 DEF Start
  <2> QED
    BY <2>2, <2>3
<1>8. ASSUME NEW kind \in {"Terminate", "Kill", "WriteIntoProcess"},
             SendPacket(ThreadOf[u], kind, u) \/ NothingSent, SignalsStay, c2s' = c2s,
             UNCHANGED <<launching, used, closing, m_handles, m_processState, m_socketError, erring,
                         linkUp, m_socket, process>>
      PROVE  Sound(t)'
  <2>1. SameSignals(t)
    BY <1>8, Stay
  <2>2. /\ Waiting("StartProcess", t)' = Waiting("StartProcess", t)
        /\ Waiting("Close", t)' = Waiting("Close", t)
    <3>1. CASE NothingSent
      BY <1>4, <1>8, <3>1 DEF NothingSent
    <3>2. CASE SendPacket(ThreadOf[u], kind, u)
      <4>1. kind \in RequestType /\ kind # "StartProcess" /\ kind # "Close"
        BY <1>8 DEF RequestType
      <4>2. Moves("StartProcess", kind) /\ Moves("Close", kind)
        BY <1>4, <1>8, <3>2, <4>1
      <4> QED
        BY <1>3, <4>1, <4>2
    <3> QED
      BY <1>8, <3>1, <3>2
  <2> QED
    BY <1>1, <1>2, <1>3, <1>8, <2>1, <2>2
<1>9. ASSUME NEW type \in {"Terminate", "Kill"}, Control(u, type) PROVE Sound(t)'
  BY <1>8, <1>9 DEF Control, SignalsStay
<1>10. CASE Write(u)
  BY <1>8, <1>10 DEF Write, SignalsStay
<1>11. CASE Close(u)
  <2>1. SameSignals(t) /\ Waiting("StartProcess", t)' = Waiting("StartProcess", t)
         /\ Waiting("Close", t)' = Waiting("Close", t)
    BY <1>4, <1>11, Stay DEF Close, SignalsStay
  <2> QED
    BY <1>1, <1>2, <1>3, <1>11, <2>1 DEF Close
<1>12. CASE DestroyInterface(u)
  <2>1. SameSignals(t)
    BY <1>12, Stay DEF DestroyInterface, SignalsStay
  <2>2. /\ Waiting("StartProcess", t)' = Waiting("StartProcess", t)
        /\ u # t => Waiting("Close", t)' = Waiting("Close", t)
    <3>1. CASE NothingSent
      BY <1>4, <1>12, <3>1 DEF DestroyInterface, NothingSent
    <3>2. CASE SendPacket(ThreadOf[u], "Close", u)
      <4>1. "Close" \in RequestType /\ c2s' = c2s
        BY <1>12 DEF DestroyInterface, RequestType
      <4>2. Moves("StartProcess", "Close") /\ Moves("Close", "Close")
        BY <1>4, <3>2, <4>1
      <4> QED
        BY <1>3, <4>2
    <3> QED
      BY <1>12, <3>1, <3>2 DEF DestroyInterface
  <2> QED
    BY <1>1, <1>2, <1>3, <1>12, <2>1, <2>2 DEF DestroyInterface
<1> QED
  BY <1>5, <1>6, <1>7, <1>9, <1>10, <1>11, <1>12

(* The numbers of requests after a step.                                    *)
LEMMA WaitingNext ==
    ASSUME TypeOK', NEW t \in Token
    PROVE  Waiting("StartProcess", t)' \in Nat /\ Waiting("Close", t)' \in Nat
<1>1. c2s' \in Seq(Request) /\ m_requests' \in Seq(Request)
  BY DEF TypeOK, SharedTypeOK, LinkTypeOK
<1> QED
  BY <1>1, WaitingParts DEF Waiting, Requests

(* The launcher thread writes requests.                                     *)
LEMMA LauncherQuiet ==
    ASSUME AInv, TypeOK', NEW t \in Token,
           \/ SetSocket \/ HandleRequests \/ DoStop \/ UNCHANGED vars
           \/ \E thr \in Thread : PostHandleRequests(thr)
    PROVE  Sound(t)'
<1> USE DEF AInv, Sound, SameSignals, SameSent, SameHandled, SameStored, SameTaken,
        StartedFirst, Requested, Unused, Lost, NotYetStarted, StartExpected, OneAnswer, LossComes,
        StartComes, InProcesses
<1>1. TypeOK /\ Sound(t)
  OBVIOUS
<1>2. /\ m_processState \in [Token -> ProcessState] /\ linkUp \in BOOLEAN
      /\ m_handles \in SUBSET used /\ used \in SUBSET Token
  BY Parts
<1>3. /\ Waiting("StartProcess", t) \in Nat /\ Waiting("Close", t) \in Nat
      /\ Waiting("StartProcess", t)' \in Nat /\ Waiting("Close", t)' \in Nat
  BY <1>1, Numbers, WaitingNext
<1>4. \A type \in {"StartProcess", "Close"} :
        /\ UNCHANGED <<c2s, m_requests>> => Waiting(type, t)' = Waiting(type, t)
        /\ WriteRequests => /\ Waiting(type, t)' <= Waiting(type, t)
                            /\ linkUp => Waiting(type, t)' = Waiting(type, t)
        /\ c2s' = Append(c2s, [type |-> "Shutdown", tok |-> NoToken]) /\ m_requests' = m_requests =>
                Waiting(type, t)' = Waiting(type, t)
  BY <1>1, RequestsMove DEF RequestType
<1> HIDE DEF AInv
<1>5. CASE SetSocket
  <2>1. SameSignals(t) /\ linkUp' = linkUp /\ WriteRequests
    BY <1>5, Stay DEF SetSocket, WriteRequests, SignalsStay
  <2> QED
    BY <1>1, <1>2, <1>3, <1>4, <1>5, <2>1 DEF SetSocket
<1>6. CASE HandleRequests
  <2>1. SameSignals(t) /\ linkUp' = linkUp
    BY <1>6, Stay DEF HandleRequests, WriteRequests, SignalsStay
  <2>2. WriteRequests \/ UNCHANGED <<c2s, m_requests>>
    BY <1>6 DEF HandleRequests
  <2> QED
    BY <1>1, <1>2, <1>3, <1>4, <1>6, <2>1, <2>2 DEF HandleRequests
<1>7. CASE DoStop
  <2>1. SameSignals(t)
    BY <1>7, Stay DEF DoStop, SignalsStay
  <2>2. Waiting("StartProcess", t)' = Waiting("StartProcess", t)
        /\ Waiting("Close", t)' = Waiting("Close", t)
    BY <1>4, <1>7 DEF DoStop
  <2> QED
    BY <1>1, <1>2, <1>3, <1>7, <2>1, <2>2 DEF DoStop
<1>8. ASSUME NEW thr \in Thread, PostHandleRequests(thr) PROVE Sound(t)'
  <2>1. SameSignals(t) /\ UNCHANGED <<c2s, m_requests>>
    BY <1>8, Stay DEF PostHandleRequests, SignalsStay
  <2> QED
    BY <1>1, <1>2, <1>3, <1>4, <1>8, <2>1 DEF PostHandleRequests
<1>9. CASE UNCHANGED vars
  <2>1. SameSignals(t) /\ UNCHANGED <<c2s, m_requests>>
    BY <1>9, Stay DEF vars, SignalsStay
  <2> QED
    BY <1>1, <1>2, <1>3, <1>4, <1>9, <2>1 DEF vars
<1> QED
  BY <1>5, <1>6, <1>7, <1>8, <1>9

(* A request, other than Shutdown, that the helper takes.                   *)
LEMMA RequestTaken ==
    ASSUME TypeOK, TypeOK', NEW t \in Token, NEW u \in Token,
           NEW kind \in RequestType \ {"Shutdown"}, NextRequest(kind, u), m_requests' = m_requests
    PROVE  /\ \A type \in {"StartProcess", "Close"} :
                Waiting(type, t) = Waiting(type, t)' + IF kind = type /\ u = t THEN 1 ELSE 0
           /\ Waiting("StartProcess", t)' \in Nat /\ Waiting("Close", t)' \in Nat
<1>1. \A type \in {"StartProcess", "Close"} :
                Waiting(type, t) = Waiting(type, t)' + IF kind = type /\ u = t THEN 1 ELSE 0
  BY RequestsMove DEF RequestType
<1>2. Waiting("StartProcess", t)' \in Nat /\ Waiting("Close", t)' \in Nat
  BY WaitingNext
<1> QED
  BY <1>1, <1>2

(* The helper reads requests, and ends.                                     *)
LEMMA ServerQuiet ==
    ASSUME AInv, TypeOK', NEW t \in Token,
           \/ \E u \in Token :
                \/ HandleStartPacket(u) \/ HandleWritePacket(u) \/ HandleTerminatePacket(u)
                \/ HandleKillPacket(u) \/ HandleClosePacket(u) \/ ChildWrites(u) \/ Reaped(u)
           \/ ServerNext
    PROVE  Sound(t)'
<1> USE DEF AInv, Sound, SameSignals, SameSent, SameHandled, SameStored, SameTaken,
        StartedFirst, Requested, Unused, Lost, NotYetStarted, StartExpected, OneAnswer, LossComes,
        StartComes, InProcesses
<1>1. TypeOK /\ Sound(t)
  OBVIOUS
<1>2. /\ m_processState \in [Token -> ProcessState]
      /\ process \in [Token -> {"none", "Starting", "Running", "reaping", "gone"}]
  BY Parts
<1>3. /\ DoneSent(t) \in Nat /\ DoneHandled(t) \in Nat /\ DoneStored(t) \in Nat
      /\ DoneTaken(t) \in Nat
  BY Numbers
<1> DEFINE Took(type, kind, u) ==
        Waiting(type, t) = Waiting(type, t)' + IF kind = type /\ u = t THEN 1 ELSE 0
<1>4. ASSUME NEW u \in Token, NEW kind \in RequestType \ {"Shutdown"}, NextRequest(kind, u),
             UNCHANGED clientVars
      PROVE  /\ SameSignals(t) /\ linkUp' = linkUp
             /\ Took("StartProcess", kind, u) /\ Took("Close", kind, u)
             /\ Waiting("StartProcess", t)' \in Nat /\ Waiting("Close", t)' \in Nat
  BY <1>1, <1>4, RequestTaken, Stay DEF SignalsStay, NextRequest
<1>5. ASSUME UNCHANGED <<s2c, c2s>>, UNCHANGED clientVars
      PROVE  /\ SameSignals(t)
             /\ Waiting("StartProcess", t)' = Waiting("StartProcess", t)
             /\ Waiting("Close", t)' = Waiting("Close", t)
  BY <1>1, <1>5, Stay, RequestsMove DEF SignalsStay, RequestType
<1> HIDE DEF AInv
<1>6. ASSUME NEW u \in Token, HandleStartPacket(u) PROVE Sound(t)'
  <2>1. /\ SameSignals(t) /\ linkUp' = linkUp
        /\ Took("StartProcess", "StartProcess", u) /\ Took("Close", "StartProcess", u)
        /\ Waiting("StartProcess", t)' \in Nat /\ Waiting("Close", t)' \in Nat
    BY <1>4, <1>6 DEF HandleStartPacket, RequestType
  <2> QED
    BY <1>1, <1>2, <1>3, <1>6, <2>1 DEF HandleStartPacket
<1>7. ASSUME NEW u \in Token, HandleClosePacket(u) PROVE Sound(t)'
  <2>1. /\ SameSignals(t) /\ linkUp' = linkUp
        /\ Took("StartProcess", "Close", u) /\ Took("Close", "Close", u)
        /\ Waiting("StartProcess", t)' \in Nat /\ Waiting("Close", t)' \in Nat
    BY <1>4, <1>7 DEF HandleClosePacket, RequestType
  <2> QED
    BY <1>1, <1>2, <1>3, <1>7, <2>1 DEF HandleClosePacket
<1>8. ASSUME NEW u \in Token, HandleWritePacket(u) \/ HandleTerminatePacket(u) \/ HandleKillPacket(u)
      PROVE  Sound(t)'
  <2>1. PICK kind \in {"WriteIntoProcess", "Terminate", "Kill"} : NextRequest(kind, u)
    BY <1>8 DEF HandleWritePacket, HandleTerminatePacket, HandleKillPacket
  <2>2. UNCHANGED clientVars /\ process' = process
    BY <1>8 DEF HandleWritePacket, HandleTerminatePacket, HandleKillPacket
  <2>3. /\ SameSignals(t) /\ linkUp' = linkUp
        /\ Took("StartProcess", kind, u) /\ Took("Close", kind, u)
        /\ Waiting("StartProcess", t)' \in Nat /\ Waiting("Close", t)' \in Nat
    BY <1>4, <2>1, <2>2 DEF RequestType
  <2> QED
    BY <1>1, <1>2, <1>3, <2>2, <2>3
<1>9. ASSUME NEW u \in Token, ChildWrites(u) \/ Reaped(u) PROVE Sound(t)'
  <2>1. UNCHANGED clientVars /\ UNCHANGED <<s2c, c2s, linkUp>>
    BY <1>9 DEF ChildWrites, Reaped
  <2> QED
    BY <1>1, <1>2, <1>3, <1>5, <1>9, <2>1 DEF ChildWrites, Reaped
<1>10. CASE ServerNext
  <2>1. UNCHANGED clientVars
    BY <1>10 DEF ServerNext, LauncherStarted, HandleShutdownPacket, HandleSocketClosed,
       HandleServerSocketError, LauncherNotConnected, LauncherFinished, Quit
  <2>2. \/ linkUp' = linkUp /\ process' = process
        \/ /\ ~linkUp'
           /\ process' = [v \in Token |-> IF InProcesses(v) THEN "reaping" ELSE process[v]]
    BY <1>10 DEF ServerNext, LauncherStarted, HandleShutdownPacket, HandleSocketClosed,
       HandleServerSocketError, LauncherNotConnected, LauncherFinished, Quit
  <2>3. /\ SameSignals(t)
        /\ Waiting("StartProcess", t)' = Waiting("StartProcess", t)
        /\ Waiting("Close", t)' = Waiting("Close", t)
    <3>1. CASE HandleShutdownPacket
      BY <1>1, <2>1, <3>1, Stay, RequestsMove DEF HandleShutdownPacket, SignalsStay, RequestType
    <3>2. CASE ~HandleShutdownPacket
      BY <1>5, <1>10, <2>1, <3>2 DEF ServerNext, LauncherStarted, HandleSocketClosed,
         HandleServerSocketError, LauncherNotConnected, LauncherFinished, Quit
    <3> QED
      BY <3>1, <3>2
  <2> QED
    BY <1>1, <1>2, <1>3, <2>1, <2>2, <2>3
<1> QED
  BY <1>6, <1>7, <1>8, <1>9, <1>10

------------------------------------------------------------------------------
(* The steps that move signals of one token: the others see nothing.        *)
LEMMA Bystander ==
    ASSUME AInv, TypeOK', NEW t \in Token, SameSignals(t), UNCHANGED <<c2s, m_requests>>,
           UNCHANGED <<launching, used, closing, m_handles, erring, linkUp, m_socket>>,
           m_processState'[t] = m_processState[t], m_socketError'[t] = m_socketError[t],
           process'[t] = process[t]
    PROVE  Sound(t)'
<1>1. TypeOK /\ Sound(t)
  BY DEF AInv
<1>2. /\ Waiting("StartProcess", t)' = Waiting("StartProcess", t)
      /\ Waiting("Close", t)' = Waiting("Close", t)
  BY <1>1, RequestsMove DEF RequestType
<1> QED
  BY <1>1, <1>2
     DEF Sound, SameSignals, SameSent, SameHandled, SameStored, SameTaken,
         StartedFirst, Requested, Unused, Lost, NotYetStarted, StartExpected, OneAnswer, LossComes,
         StartComes, InProcesses

(* A packet that the helper sends.                                          *)
LEMMA ReplySent ==
    ASSUME TypeOK, NEW t \in Token, NEW packet \in Reply, SendReply(packet)
    PROVE  /\ ~linkUp \/ packet.tok # t => SameSent(t)
           /\ linkUp /\ packet.tok = t =>
                /\ StartSent(t)' <=> StartSent(t) \/ packet.type = "ProcessStarted"
                /\ DoneSent(t)' = DoneSent(t) + IF packet.type = "ProcessDone" THEN 1 ELSE 0
                /\ FirstSent(t) /\ (packet.type = "ProcessStarted" => NoneSent(t)) => FirstSent(t)'
                /\ ~NoneSent(t)'
<1>1. s2c \in Seq(Reply)
  BY Parts
<1>2. CASE ~linkUp
  BY <1>2, Unmoved DEF SendReply
<1>3. CASE linkUp
  <2>1. s2c' = Append(s2c, packet)
    BY <1>3 DEF SendReply
  <2>2. /\ DOMAIN s2c = 1 .. Len(s2c) /\ DOMAIN s2c' = 1 .. Len(s2c) + 1 /\ Len(s2c) \in Nat
        /\ \A i \in 1 .. Len(s2c) : s2c'[i] = s2c[i]
        /\ s2c'[Len(s2c) + 1] = packet
    BY <1>1, <2>1
  <2>3. Count(Append(s2c, packet), DonePackets(t))
            = Count(s2c, DonePackets(t)) + IF packet \in DonePackets(t) THEN 1 ELSE 0
    BY <1>1, CountAppend, Zenon
  <2>4. packet \in DonePackets(t) <=> packet.tok = t /\ packet.type = "ProcessDone"
    BY DEF DonePackets, Reply
  <2>5. DoneSent(t) \in Nat
    BY Numbers
  <2>6. DoneSent(t)' = DoneSent(t) + IF packet.tok = t /\ packet.type = "ProcessDone" THEN 1 ELSE 0
    BY <2>1, <2>3, <2>4 DEF DoneSent
  <2>7. StartSent(t)' <=> StartSent(t) \/ (packet.tok = t /\ packet.type = "ProcessStarted")
    BY <2>2 DEF StartSent, IsStartedPacket
  <2>8. NoneSent(t)' <=> NoneSent(t) /\ packet.tok # t
    BY <2>2 DEF NoneSent
  <2>9. ASSUME FirstSent(t), packet.tok # t \/ packet.type # "ProcessStarted" \/ NoneSent(t)
        PROVE  FirstSent(t)'
    BY <2>2, <2>9 DEF FirstSent, NoneSent, IsStartedPacket
  <2> QED
    BY <1>3, <2>5, <2>6, <2>7, <2>8, <2>9 DEF SameSent
<1> QED
  BY <1>2, <1>3

(* The helper reports what a child does.                                    *)
LEMMA ServerSends ==
    ASSUME AInv, TypeOK', NEW t \in Token, NEW u \in Token,
           \/ HandleProcessStarted(u) \/ HandleProcessError(u)
           \/ HandleReadyReadStandardOutput(u) \/ HandleProcessFinished(u)
    PROVE  Sound(t)'
<1>1. TypeOK /\ Sound(t)
  BY DEF AInv
<1>2. /\ m_processState \in [Token -> ProcessState]
      /\ process \in [Token -> {"none", "Starting", "Running", "reaping", "gone"}]
      /\ m_handles \in SUBSET used
  BY <1>1, Parts
<1>3. /\ UNCHANGED clientVars /\ c2s' = c2s /\ linkUp' = linkUp
      /\ \A v \in Token \ {u} : process'[v] = process[v]
  BY <1>2 DEF HandleProcessStarted, HandleProcessError, HandleReadyReadStandardOutput,
     HandleProcessFinished, SendReply
<1>4. PICK packet \in Reply :
        /\ SendReply(packet) /\ packet.tok = u
        /\ \/ packet.type = "ProcessStarted" /\ process[u] = "Starting" /\ process'[u] = "Running"
           \/ /\ packet.type = "ReadyReadStandardOutput"
              /\ process[u] = "Running" /\ process'[u] = "Running"
           \/ packet.type = "ProcessDone" /\ InProcesses(u) /\ process'[u] = "gone"
  <2>1. CASE HandleProcessStarted(u)
    BY <1>2, <2>1, PacketTypes DEF HandleProcessStarted, StartedPacket
  <2>2. unread[u] \in Output
    BY <1>1 DEF TypeOK, ServerTypeOK
  <2>3. CASE HandleProcessError(u)
    BY <1>2, <2>2, <2>3, PacketTypes DEF HandleProcessError, DonePacket, ProcessError, InProcesses
  <2>4. CASE HandleReadyReadStandardOutput(u)
    BY <1>2, <2>2, <2>4, PacketTypes DEF HandleReadyReadStandardOutput, ReadyReadPacket
  <2>5. CASE HandleProcessFinished(u)
    BY <1>2, <2>2, <2>5, PacketTypes DEF HandleProcessFinished, DonePacket, ProcessError, InProcesses
  <2> QED
    BY <2>1, <2>3, <2>4, <2>5
<1>5. SameHandled(t) /\ SameStored(t) /\ SameTaken(t)
  BY <1>3, Unmoved
<1>6. CASE u # t \/ ~linkUp
  <2>1. SameSignals(t)
    BY <1>1, <1>4, <1>5, <1>6, ReplySent DEF SameSignals
  <2>2. CASE u # t
    BY <1>3, <2>1, <2>2, Bystander
  <2>3. CASE ~linkUp
    <3>1. /\ Waiting("StartProcess", t)' = Waiting("StartProcess", t)
          /\ Waiting("Close", t)' = Waiting("Close", t)
      BY <1>1, <1>3, RequestsMove DEF RequestType
    <3> QED
      BY <1>1, <1>2, <1>3, <1>4, <2>1, <2>3, <3>1
         DEF Sound, SameSignals, SameSent, SameHandled, SameStored, SameTaken,
             StartedFirst, Requested, Unused, Lost, NotYetStarted, StartExpected, OneAnswer,
             LossComes, StartComes, InProcesses
  <2> QED
    BY <1>6, <2>2, <2>3
<1>7. CASE u = t /\ linkUp
  <2>1. /\ Waiting("StartProcess", t)' = Waiting("StartProcess", t)
        /\ Waiting("Close", t)' = Waiting("Close", t)
        /\ Waiting("StartProcess", t) \in Nat
    BY <1>1, <1>3, RequestsMove, Numbers DEF RequestType
  <2>2. /\ StartSent(t)' <=> StartSent(t) \/ packet.type = "ProcessStarted"
        /\ DoneSent(t)' = DoneSent(t) + IF packet.type = "ProcessDone" THEN 1 ELSE 0
        /\ FirstSent(t) /\ (packet.type = "ProcessStarted" => NoneSent(t)) => FirstSent(t)'
    BY <1>1, <1>4, <1>7, ReplySent
  <2>3. /\ DoneSent(t) \in Nat /\ DoneHandled(t) \in Nat /\ DoneStored(t) \in Nat
        /\ DoneTaken(t) \in Nat
    BY <1>1, Numbers
  <2> QED
    BY <1>1, <1>2, <1>3, <1>4, <1>5, <1>7, <2>1, <2>2, <2>3
         DEF Sound, SameHandled, SameStored, SameTaken,
             StartedFirst, Requested, Unused, Lost, NotYetStarted, StartExpected, OneAnswer,
             LossComes, StartComes, InProcesses
<1> QED
  BY <1>6, <1>7

------------------------------------------------------------------------------
(* The launcher thread.  First, what a packet becomes.                      *)
LEMMA PacketSignals ==
    ASSUME NEW packet \in Reply
    PROVE  /\ SignalsOf(packet) \in Seq(Signal)
           /\ (\E i \in DOMAIN SignalsOf(packet) : IsStarted(SignalsOf(packet)[i]))
                <=> packet.type = "ProcessStarted"
           /\ \A i \in DOMAIN SignalsOf(packet) : IsStarted(SignalsOf(packet)[i]) => i = 1
           /\ Count(SignalsOf(packet), DoneSignals) = IF packet.type = "ProcessDone" THEN 1 ELSE 0
<1> DEFINE output == IF packet.data = <<>> THEN <<>> ELSE <<ReadyReadSignal(packet.data)>>
<1>1. packet.data \in Output /\ packet.error \in ProcessError
      /\ packet.type \in {"ProcessStarted", "ReadyReadStandardOutput", "ProcessDone"}
  BY DEF Reply
<1>2. StartedSignal \in Signal /\ DoneSignal(packet.error) \in Signal
       /\ ReadyReadSignal(packet.data) \in Signal
  BY <1>1, SignalTypes
<1>3. /\ IsStarted(StartedSignal) /\ ~IsStarted(DoneSignal(packet.error))
      /\ ~IsStarted(ReadyReadSignal(packet.data))
      /\ StartedSignal \notin DoneSignals /\ ReadyReadSignal(packet.data) \notin DoneSignals
      /\ DoneSignal(packet.error) \in DoneSignals
  BY <1>1 DEF IsStarted, StartedSignal, DoneSignal, ReadyReadSignal, DoneSignals
<1>4. output \in Seq(Signal) /\ \A i \in DOMAIN output : ~IsStarted(output[i]) /\ output[i] \notin DoneSignals
  BY <1>2, <1>3
<1>5. Count(output, DoneSignals) = 0
  BY <1>4, Counted, Zenon
<1>6. CASE packet.type = "ProcessStarted"
  <2> DEFINE s == <<StartedSignal>>
  <2>1. SignalsOf(packet) = s
    BY <1>6 DEF SignalsOf
  <2>2. s \in Seq(Signal) /\ s[1] = StartedSignal /\ DOMAIN s = {1}
        /\ \A i \in DOMAIN s : s[i] \notin DoneSignals
    BY <1>2, <1>3
  <2> HIDE DEF s
  <2>3. Count(s, DoneSignals) = 0
    BY <2>2, Counted, Zenon
  <2> QED
    BY <1>3, <1>6, <2>1, <2>2, <2>3
<1>7. CASE packet.type = "ReadyReadStandardOutput"
  <2>1. SignalsOf(packet) = output
    BY <1>7 DEF SignalsOf
  <2> HIDE DEF output
  <2> QED
    BY <1>4, <1>5, <1>7, <2>1
<1>8. CASE packet.type = "ProcessDone"
  <2> DEFINE d == DoneSignal(packet.error)
  <2>1. SignalsOf(packet) = Append(output, d)
    BY <1>8 DEF SignalsOf
  <2>a. d \in Signal
    BY <1>2
  <2> HIDE DEF output, d
  <2>b. output \in Seq(Signal)
    BY <1>4
  <2>2. Count(Append(output, d), DoneSignals) = Count(output, DoneSignals) + IF d \in DoneSignals THEN 1 ELSE 0
    BY <2>a, <2>b, CountAppend, Zenon
  <2>3. /\ Append(output, d) \in Seq(Signal)
        /\ DOMAIN Append(output, d) = 1 .. Len(output) + 1 /\ DOMAIN output = 1 .. Len(output)
        /\ Len(output) \in Nat /\ Append(output, d)[Len(output) + 1] = d
        /\ \A i \in 1 .. Len(output) : Append(output, d)[i] = output[i]
    BY <1>2, <1>4 DEF d
  <2>4. \A i \in DOMAIN Append(output, d) : ~IsStarted(Append(output, d)[i])
    BY <1>3, <1>4, <2>3 DEF d
  <2> QED
    BY <1>3, <1>5, <1>8, <2>1, <2>2, <2>3, <2>4 DEF d
<1> QED
  BY <1>1, <1>6, <1>7, <1>8

(* The first packet leaves the socket.                                      *)
LEMMA PacketRead ==
    ASSUME TypeOK, s2c # <<>>, s2c' = Tail(s2c), NEW t \in Token, FirstSent(t)
    PROVE  /\ Head(s2c) \in Reply
           /\ FirstSent(t)'
           /\ Head(s2c).tok # t => SameSent(t)
           /\ Head(s2c).tok = t =>
                /\ ~NoneSent(t) /\ ~StartSent(t)'
                /\ StartSent(t) <=> Head(s2c).type = "ProcessStarted"
                /\ DoneSent(t) = DoneSent(t)' + IF Head(s2c).type = "ProcessDone" THEN 1 ELSE 0
<1>1. s2c \in Seq(Reply) /\ s2c' \in Seq(Reply)
  BY Parts
<1>2. /\ DOMAIN s2c = 1 .. Len(s2c) /\ Len(s2c) \in Nat \ {0} /\ DOMAIN s2c' = 1 .. Len(s2c) - 1
      /\ \A i \in 1 .. Len(s2c) - 1 : s2c'[i] = s2c[i + 1]
      /\ Head(s2c) = s2c[1] /\ Head(s2c) \in Reply
  BY <1>1
<1>3. Count(s2c, DonePackets(t)) = Count(Tail(s2c), DonePackets(t))
                                      + IF Head(s2c) \in DonePackets(t) THEN 1 ELSE 0
  BY <1>1, CountTail, Zenon
<1>4. Head(s2c) \in DonePackets(t) <=> Head(s2c).tok = t /\ Head(s2c).type = "ProcessDone"
  BY <1>2 DEF DonePackets, Reply
<1>5. Count(s2c', DonePackets(t)) \in Nat
  BY <1>1, Counted, Zenon
<1>6. DoneSent(t) = DoneSent(t)' + IF Head(s2c).tok = t /\ Head(s2c).type = "ProcessDone" THEN 1 ELSE 0
  BY <1>3, <1>4 DEF DoneSent
<1>7. FirstSent(t)'
  BY <1>2 DEF FirstSent, IsStartedPacket
<1>8. ASSUME Head(s2c).tok = t
      PROVE  /\ ~NoneSent(t) /\ ~StartSent(t)'
             /\ StartSent(t) <=> Head(s2c).type = "ProcessStarted"
  BY <1>2, <1>8 DEF FirstSent, NoneSent, StartSent, IsStartedPacket
<1>9. ASSUME Head(s2c).tok # t PROVE (NoneSent(t)' <=> NoneSent(t)) /\ (StartSent(t)' <=> StartSent(t))
  <2>1. \A i \in DOMAIN s2c : s2c[i].tok = t => i - 1 \in DOMAIN s2c' /\ s2c'[i - 1] = s2c[i]
    BY <1>2, <1>9
  <2>2. \A i \in DOMAIN s2c' : i + 1 \in DOMAIN s2c /\ s2c[i + 1] = s2c'[i]
    BY <1>2
  <2> QED
    BY <2>1, <2>2 DEF NoneSent, StartSent, IsStartedPacket
<1>10. DoneSent(t)' \in Nat
  BY <1>5 DEF DoneSent
<1> QED
  BY <1>2, <1>6, <1>7, <1>8, <1>9, <1>10 DEF SameSent

(* Requests and signals where a step does not touch, or types, them.        *)
LEMMA WaitingSame ==
    ASSUME TypeOK, TypeOK', NEW t \in Token, UNCHANGED <<c2s, m_requests>>
    PROVE  /\ Waiting("StartProcess", t)' = Waiting("StartProcess", t)
           /\ Waiting("Close", t)' = Waiting("Close", t)
  BY RequestsMove DEF RequestType

LEMMA NumbersNext ==
    ASSUME TypeOK', NEW t \in Token
    PROVE  /\ DoneSent(t)' \in Nat /\ DoneHandled(t)' \in Nat /\ DoneStored(t)' \in Nat
           /\ DoneTaken(t)' \in Nat
<1>1. /\ s2c' \in Seq(Reply) /\ m_signals' \in [Token -> Seq(Signal)]
      /\ stack' \in [Thread -> Seq(Frame)] /\ job' \in Job \cup {NoJob}
  BY DEF TypeOK, CallerTypeOK, SharedTypeOK, LauncherTypeOK, LinkTypeOK
<1>2. /\ m_signals'[t] \in Seq(Signal) /\ stack'[ThreadOf[t]] \in Seq(Frame)
      /\ job'.todo \in Seq(Signal)
  <2>1. \A x \in Job : x.todo \in Seq(Signal)
    BY DEF Job
  <2>2. NoJob.todo = <<>> /\ <<>> \in Seq(Signal)
    BY DEF NoJob
  <2>3. ThreadOf[t] \in Thread
    BY ThreadOfAssumption
  <2> QED
    BY <1>1, <2>1, <2>2, <2>3
<1>3. /\ Count(s2c', DonePackets(t)) \in Nat /\ Count(m_signals'[t], DoneSignals) \in Nat
      /\ Count(job'.todo, DoneSignals) \in Nat
  BY <1>1, <1>2, Counted, Zenon
<1>4. Taken(stack'[ThreadOf[t]], t, DoneSignals) \in Nat
  BY <1>2, TakenNone
<1> QED
  BY <1>3, <1>4 DEF DoneSent, DoneHandled, DoneStored, DoneTaken, Frames

(* Signals of a token go on to the next place, in their order.              *)
LEMMA MovedOn ==
    ASSUME AInv, TypeOK', NEW t \in Token, UNCHANGED <<c2s, m_requests>>,
           UNCHANGED <<m_processState, launching, used, closing, m_handles, m_socketError,
                       erring, linkUp, m_socket, process>>,
           ~(NoneSent(t) /\ NoneHandled(t) /\ NoneStored(t) /\ NoneTaken(t)),
           NoneSent(t) => NoneSent(t)',
           StartedFirst(t)',
           (StartSent(t) \/ StartComes(t))' <=> StartSent(t) \/ StartComes(t),
           DoneSent(t)' + DoneHandled(t)' + DoneStored(t)' + DoneTaken(t)'
             = DoneSent(t) + DoneHandled(t) + DoneStored(t) + DoneTaken(t),
           m_socketError[t] => /\ StartComes(t)' <=> StartComes(t)
                               /\ DoneSent(t)' = DoneSent(t)
    PROVE  Sound(t)'
<1>1. TypeOK /\ Sound(t)
  BY DEF AInv
<1>2. /\ Waiting("StartProcess", t)' = Waiting("StartProcess", t)
      /\ Waiting("Close", t)' = Waiting("Close", t)
      /\ Waiting("StartProcess", t) \in Nat
  BY <1>1, WaitingSame, Numbers
<1>3. /\ DoneSent(t) \in Nat /\ DoneHandled(t) \in Nat /\ DoneStored(t) \in Nat
      /\ DoneTaken(t) \in Nat
      /\ DoneSent(t)' \in Nat /\ DoneHandled(t)' \in Nat /\ DoneStored(t)' \in Nat
      /\ DoneTaken(t)' \in Nat
  BY <1>1, Numbers, NumbersNext
<1>4. Requested(t)' /\ Lost(t)' /\ Unused(t)' /\ NotYetStarted(t)'
  BY <1>1, <1>2 DEF Sound, Requested, Lost, Unused, NotYetStarted
<1>5. StartExpected(t)'
  BY <1>1 DEF Sound, StartExpected
<1>6. OneAnswer(t)'
  BY <1>1, <1>2, <1>3 DEF Sound, OneAnswer, InProcesses
<1>7. LossComes(t)'
  BY <1>1, <1>3 DEF Sound, LossComes
<1> QED
  BY <1>4, <1>5, <1>6, <1>7 DEF Sound

(* A packet becomes the signals of a handler.                               *)
LEMMA PacketHandled ==
    ASSUME AInv, TypeOK', NEW t \in Token, HandleSocketDataAvailable
    PROVE  Sound(t)'
<1> DEFINE packet == Head(s2c)
<1>1. TypeOK /\ Sound(t) /\ NoToken \notin Token /\ m_handles \in SUBSET used
  BY Parts DEF AInv
<1>2. /\ job = NoJob /\ erring = {} /\ m_socket = "open" /\ s2c # <<>> /\ s2c' = Tail(s2c)
      /\ UNCHANGED <<callerVars, sharedVars, m_socket, erring, c2s, linkUp, serverVars>>
      /\ job' = IF packet.tok \in m_handles
                THEN [tok |-> packet.tok, todo |-> SignalsOf(packet), locked |-> FALSE]
                ELSE NoJob
  BY DEF HandleSocketDataAvailable, LauncherIdle
<1>3. StartedFirst(t) /\ Lost(t) /\ NotYetStarted(t)
  BY <1>1 DEF Sound
<1>4. /\ packet \in Reply /\ FirstSent(t)'
      /\ packet.tok # t => SameSent(t)
      /\ packet.tok = t =>
            /\ ~NoneSent(t) /\ ~StartSent(t)'
            /\ StartSent(t) <=> packet.type = "ProcessStarted"
            /\ DoneSent(t) = DoneSent(t)' + IF packet.type = "ProcessDone" THEN 1 ELSE 0
  BY <1>1, <1>2, <1>3, PacketRead DEF StartedFirst
<1>5. SameStored(t) /\ SameTaken(t)
  BY <1>2, Unmoved
<1>6. CASE packet.tok # t
  <2>1. job.tok # t /\ job'.tok # t
    BY <1>1, <1>2, <1>6 DEF NoJob
  <2>2. SameSignals(t)
    BY <1>4, <1>5, <1>6, <2>1, Unmoved DEF SameSignals
  <2> QED
    BY <1>2, <2>2, Bystander
<1>7. CASE packet.tok = t
  <2>1. NoneHandled(t) /\ ~StartHandled(t) /\ DoneHandled(t) = 0
    BY <1>1, <1>2 DEF NoJob, NoneHandled, StartHandled, DoneHandled
  <2>2. CASE t \in m_handles
    <3>1. job'.tok = t /\ job'.todo = SignalsOf(packet)
      BY <1>2, <1>7, <2>2
    <3>2. /\ StartHandled(t)' <=> packet.type = "ProcessStarted"
          /\ DoneHandled(t)' = IF packet.type = "ProcessDone" THEN 1 ELSE 0
          /\ FirstHandled(t)'
      BY <1>4, <3>1, PacketSignals DEF StartHandled, DoneHandled, FirstHandled
    <3> HIDE DEF packet
    <3>3. StartedFirst(t)'
      BY <1>3, <1>4, <1>5, <1>7, <3>2 DEF StartedFirst, SameStored, SameTaken
    <3>4. (StartSent(t) \/ StartComes(t))' <=> StartSent(t) \/ StartComes(t)
      BY <1>4, <1>5, <1>7, <2>1, <3>2 DEF StartComes, SameStored, SameTaken
    <3>5. DoneSent(t)' + DoneHandled(t)' + DoneStored(t)' + DoneTaken(t)'
             = DoneSent(t) + DoneHandled(t) + DoneStored(t) + DoneTaken(t)
      BY <1>1, <1>4, <1>5, <1>7, <2>1, <3>2, Numbers, NumbersNext DEF SameStored, SameTaken
    <3>6. ~m_socketError[t]
      BY <1>2, <1>3 DEF Lost
    <3> QED
      BY <1>2, <1>4, <1>7, <3>3, <3>4, <3>5, <3>6, MovedOn
  <2>3. CASE t \notin m_handles
    <3>1. SameHandled(t)
      BY <1>2, <1>7, <2>3, Unmoved
    <3>2. /\ Waiting("StartProcess", t)' = Waiting("StartProcess", t)
          /\ Waiting("Close", t)' = Waiting("Close", t)
      BY <1>1, <1>2, WaitingSame
    <3> HIDE DEF packet
    <3>3. StartedFirst(t)'
      BY <1>3, <1>4, <1>5, <1>7, <3>1 DEF StartedFirst, SameHandled, SameStored, SameTaken
    <3>4. Requested(t)' /\ Unused(t)' /\ Lost(t)' /\ NotYetStarted(t)'
      BY <1>1, <1>2, <1>4, <1>7, <3>2 DEF Sound, Requested, Unused, Lost, NotYetStarted
    <3> QED
      BY <1>2, <2>3, <3>3, <3>4 DEF Sound, StartExpected, OneAnswer, LossComes
  <2> QED
    BY <2>2, <2>3
<1> QED
  BY <1>6, <1>7

(* The handler takes the mutex, or has nothing to do.                       *)
LEMMA HandlerLocks ==
    ASSUME AInv, TypeOK', NEW t \in Token, LockHandle
    PROVE  Sound(t)'
<1>1. TypeOK /\ Sound(t) /\ NoToken \notin Token /\ job \in Job \cup {NoJob}
  BY Parts DEF AInv
<1>2. /\ UNCHANGED <<callerVars, sharedVars, m_socket, erring, linkVars, serverVars>>
      /\ job' = IF job.tok \in m_handles /\ job.todo # <<>>
                THEN [job EXCEPT !.locked = TRUE] ELSE NoJob
  BY DEF LockHandle
<1>3. SameSent(t) /\ SameStored(t) /\ SameTaken(t)
  BY <1>2, Unmoved
<1>4. CASE SameHandled(t)
  BY <1>2, <1>3, <1>4, Bystander DEF SameSignals
<1>5. CASE job.tok # t
  <2>1. job'.tok # t
    BY <1>1, <1>2, <1>5 DEF Job, NoJob
  <2> QED
    BY <1>4, <1>5, <2>1, Unmoved
<1>6. CASE job.tok = t /\ job.todo # <<>> /\ t \in m_handles
  <2>1. job'.tok = job.tok /\ job'.todo = job.todo
    BY <1>1, <1>2, <1>6 DEF Job, NoJob
  <2>2. SameHandled(t)
    BY <2>1 DEF SameHandled, NoneHandled, StartHandled, DoneHandled, FirstHandled
  <2> QED
    BY <1>4, <2>2
<1>7. CASE job.tok = t /\ (job.todo = <<>> \/ t \notin m_handles)
  <2>1. job' = NoJob
    BY <1>2, <1>7
  <2>2. NoneHandled(t)' /\ ~StartHandled(t)' /\ DoneHandled(t)' = 0 /\ FirstHandled(t)'
    BY <1>1, <2>1 DEF NoneHandled, StartHandled, DoneHandled, FirstHandled, NoJob
  <2>3. CASE job.todo = <<>>
    <3>1. NoneHandled(t) /\ ~StartHandled(t) /\ DoneHandled(t) = 0
      BY <1>1, <2>3, Numbers DEF NoneHandled
    <3> QED
      BY <1>4, <2>2, <3>1 DEF SameHandled
  <2>4. CASE t \notin m_handles
    <3>1. /\ Waiting("StartProcess", t)' = Waiting("StartProcess", t)
          /\ Waiting("Close", t)' = Waiting("Close", t)
      BY <1>1, <1>2, WaitingSame
    <3> QED
      BY <1>1, <1>2, <1>3, <2>2, <2>4, <3>1
         DEF SameSent, SameStored, SameTaken, Sound, StartedFirst, Requested, Unused, Lost,
             NotYetStarted, StartExpected, OneAnswer, LossComes, StartComes, InProcesses
  <2> QED
    BY <1>7, <2>3, <2>4
<1> QED
  BY <1>5, <1>6, <1>7

(* The handler stores a signal.                                             *)
LEMMA SignalStored ==
    ASSUME AInv, TypeOK', NEW t \in Token, AppendSignal
    PROVE  Sound(t)'
<1> DEFINE signal == Head(job.todo)
<1>1. /\ TypeOK /\ Sound(t) /\ job \in Job /\ job.todo # <<>> /\ job.tok \in Token
      /\ m_signals \in [Token -> Seq(Signal)]
  BY JobTypes, Parts DEF AInv, AppendSignal, Job, NoJob
<1>2. /\ UNCHANGED <<callerVars, used, m_handles, flushPosted, m_socketError,
                   m_requests, requestsPosted, m_socket, erring, linkVars, serverVars>>
      /\ m_signals' = [m_signals EXCEPT ![job.tok] = Append(@, signal)]
      /\ job'.tok = job.tok /\ job'.todo = Tail(job.todo)
  BY <1>1 DEF AppendSignal, Job
<1>3. SameSent(t) /\ SameTaken(t)
  BY <1>2, Unmoved
<1>4. CASE job.tok # t
  <2>1. m_signals'[t] = m_signals[t] /\ job'.tok # t
    BY <1>1, <1>2, <1>4
  <2>2. SameSignals(t)
    BY <1>3, <1>4, <2>1, Unmoved DEF SameSignals
  <2> QED
    BY <1>2, <2>2, Bystander
<1>5. CASE job.tok = t
  <2>1. /\ job.todo \in Seq(Signal) /\ m_signals[t] \in Seq(Signal)
        /\ signal \in Signal /\ signal = job.todo[1]
        /\ m_signals'[t] = Append(m_signals[t], signal)
    BY <1>1, <1>2, <1>5 DEF Job
  <2>2. /\ DOMAIN job.todo = 1 .. Len(job.todo) /\ Len(job.todo) \in Nat \ {0}
        /\ DOMAIN job'.todo = 1 .. Len(job.todo) - 1
        /\ \A i \in 1 .. Len(job.todo) - 1 : job'.todo[i] = job.todo[i + 1]
    BY <1>1, <1>2, <2>1
  <2>3. /\ DOMAIN m_signals[t] = 1 .. Len(m_signals[t]) /\ Len(m_signals[t]) \in Nat
        /\ DOMAIN m_signals'[t] = 1 .. Len(m_signals[t]) + 1
        /\ m_signals'[t][Len(m_signals[t]) + 1] = signal
        /\ \A i \in 1 .. Len(m_signals[t]) : m_signals'[t][i] = m_signals[t][i]
        /\ m_signals[t] = <<>> <=> Len(m_signals[t]) = 0
        /\ m_signals'[t] # <<>>
    BY <2>1
  <2> DEFINE done == IF signal \in DoneSignals THEN 1 ELSE 0
  <2>4. DoneHandled(t) = DoneHandled(t)' + done
    <3>1. Count(job.todo, DoneSignals) = Count(Tail(job.todo), DoneSignals)
            + IF Head(job.todo) \in DoneSignals THEN 1 ELSE 0
      BY <1>1, <2>1, CountTail, Zenon
    <3> QED
      BY <1>2, <1>5, <3>1 DEF DoneHandled
  <2>5. DoneStored(t)' = DoneStored(t) + done
    <3> HIDE DEF signal
    <3>0. m_signals[t] \in Seq(Signal) /\ signal \in Signal
      BY <2>1
    <3>1. Count(Append(m_signals[t], signal), DoneSignals) = Count(m_signals[t], DoneSignals)
            + IF signal \in DoneSignals THEN 1 ELSE 0
      BY <3>0, CountAppend, Zenon
    <3> QED
      BY <2>1, <3>1 DEF DoneStored
  <2>6. ~NoneHandled(t) /\ ~NoneStored(t)'
    BY <1>1, <1>5, <2>3 DEF NoneHandled, NoneStored
  <2>7. FirstHandled(t) /\ (StartHandled(t) => NoneStored(t)) /\ FirstStored(t)
    BY <1>1 DEF Sound, StartedFirst
  <2>8. ~StartHandled(t)' /\ FirstHandled(t)'
    BY <1>2, <1>5, <2>2, <2>7 DEF FirstHandled, StartHandled
  <2>9. StartHandled(t) <=> IsStarted(signal)
    BY <1>5, <2>1, <2>2, <2>7 DEF FirstHandled, StartHandled
  <2>10. StartStored(t)' <=> StartHandled(t) \/ StartStored(t)
    BY <2>3, <2>9 DEF StartStored
  <2>11. FirstStored(t)'
    BY <2>3, <2>7, <2>9 DEF FirstStored, NoneStored
  <2>12. DoneSent(t)' + DoneHandled(t)' + DoneStored(t)' + DoneTaken(t)'
             = DoneSent(t) + DoneHandled(t) + DoneStored(t) + DoneTaken(t)
    <3>1. DoneSent(t)' = DoneSent(t) /\ DoneTaken(t)' = DoneTaken(t)
      BY <1>3 DEF SameSent, SameTaken
    <3>2. done \in Nat
      OBVIOUS
    <3> HIDE DEF done
    <3>3. DoneSent(t) \in Nat /\ DoneHandled(t) \in Nat /\ DoneStored(t) \in Nat /\ DoneTaken(t) \in Nat
      BY <1>1, Numbers, Zenon
    <3>4. DoneHandled(t)' \in Nat /\ DoneStored(t)' \in Nat
      BY <1>1, NumbersNext, Zenon
    <3> QED
      BY <2>4, <2>5, <3>1, <3>2, <3>3, <3>4
  <2>13. StartedFirst(t)
    BY <1>1 DEF Sound
  <2>14. StartedFirst(t)'
    <3> HIDE DEF signal
    <3> QED
      BY <1>3, <2>6, <2>8, <2>9, <2>10, <2>11, <2>13 DEF StartedFirst, SameSent, SameTaken
  <2>15. /\ (StartSent(t) \/ StartComes(t))' <=> StartSent(t) \/ StartComes(t)
         /\ StartComes(t)' <=> StartComes(t)
    BY <1>3, <2>8, <2>10 DEF StartComes, SameSent, SameTaken
  <2> HIDE DEF signal, done
  <2> QED
    BY <1>2, <1>3, <2>6, <2>12, <2>14, <2>15, MovedOn DEF SameSent
<1> QED
  BY <1>4, <1>5

(* The connection is lost.                                                  *)
LEMMA ConnectionLost ==
    ASSUME AInv, TypeOK', NEW t \in Token, HandleError
    PROVE  Sound(t)'
<1>1. TypeOK /\ Sound(t) /\ m_handles \in SUBSET used
  BY Parts DEF AInv
<1>2. /\ erring = {} /\ m_socket' = "lost" /\ linkUp' = FALSE /\ s2c' = <<>> /\ erring' = m_handles
      /\ UNCHANGED <<callerVars, sharedVars, job, c2s, serverVars>>
  BY DEF HandleError, LauncherIdle
<1>3. SameHandled(t) /\ SameStored(t) /\ SameTaken(t)
  BY <1>2, Unmoved
<1>4. NoneSent(t)' /\ ~StartSent(t)' /\ FirstSent(t)'
  BY <1>2 DEF NoneSent, StartSent, FirstSent
<1>5. /\ Waiting("StartProcess", t)' = Waiting("StartProcess", t)
      /\ Waiting("Close", t)' = Waiting("Close", t)
  BY <1>1, <1>2, WaitingSame
<1>6. StartedFirst(t)'
  BY <1>1, <1>3, <1>4 DEF Sound, StartedFirst, SameHandled, SameStored, SameTaken
<1>7. Requested(t)' /\ Unused(t)' /\ Lost(t)'
  BY <1>1, <1>2, <1>3, <1>4, <1>5
     DEF Sound, Requested, Unused, Lost, SameHandled, SameStored, SameTaken
<1>8. NotYetStarted(t)' /\ StartExpected(t)' /\ OneAnswer(t)'
  BY <1>2 DEF NotYetStarted, StartExpected, OneAnswer
<1>9. LossComes(t)'
  BY <1>1, <1>2, <1>3 DEF Sound, LossComes, StartComes, SameHandled, SameStored, SameTaken
<1> QED
  BY <1>6, <1>7, <1>8, <1>9 DEF Sound

(* A handle is told of it: the flag, and the signal that is to be stored.   *)
LEMMA HandleTold ==
    ASSUME AInv, TypeOK', NEW t \in Token, NEW u \in Token, HandleSocketError(u)
    PROVE  Sound(t)'
<1>1. TypeOK /\ Sound(t) /\ m_socketError \in [Token -> BOOLEAN] /\ NoToken \notin Token
  BY Parts DEF AInv
<1>2. /\ job = NoJob /\ u \in erring /\ erring' = erring \ {u}
      /\ m_socketError' = [m_socketError EXCEPT ![u] = TRUE]
      /\ job'.tok = u /\ job'.todo = <<DoneSignal("FailedToStart")>>
      /\ UNCHANGED <<callerVars, used, m_handles, m_signals, flushPosted, m_requests,
                   requestsPosted, m_socket, linkVars, serverVars>>
  BY DEF HandleSocketError
<1>3. SameSent(t) /\ SameStored(t) /\ SameTaken(t)
  BY <1>2, Unmoved
<1>4. NoneHandled(t) /\ ~StartHandled(t) /\ DoneHandled(t) = 0
  BY <1>1, <1>2 DEF NoJob, NoneHandled, StartHandled, DoneHandled
<1>5. /\ Waiting("StartProcess", t)' = Waiting("StartProcess", t)
      /\ Waiting("Close", t)' = Waiting("Close", t)
  BY <1>1, <1>2, WaitingSame
<1>6. CASE u # t
  <2>1. SameHandled(t)
    BY <1>1, <1>2, <1>6, Unmoved DEF NoJob
  <2>2. m_socketError'[t] = m_socketError[t] /\ (t \in erring' <=> t \in erring)
    BY <1>1, <1>2, <1>6
  <2>3. StartedFirst(t)' /\ Requested(t)' /\ Unused(t)' /\ Lost(t)'
    BY <1>1, <1>2, <1>3, <1>5, <2>1, <2>2
       DEF Sound, StartedFirst, Requested, Unused, Lost, SameSent, SameHandled, SameStored, SameTaken
  <2>4. NotYetStarted(t)' /\ StartExpected(t)' /\ LossComes(t)'
    BY <1>1, <1>2, <1>3, <2>1, <2>2
       DEF Sound, NotYetStarted, StartExpected, LossComes, StartComes,
           SameSent, SameHandled, SameStored, SameTaken
  <2>5. OneAnswer(t)'
    BY <1>1, <1>2, <1>3, <1>5, <2>1
       DEF Sound, OneAnswer, InProcesses, SameSent, SameHandled, SameStored, SameTaken
  <2> QED
    BY <2>3, <2>4, <2>5 DEF Sound
<1>7. CASE u = t
  <2> DEFINE done == DoneSignal("FailedToStart")
  <2>1. done \in Signal /\ ~IsStarted(done) /\ done \in DoneSignals
    BY DEF Signal, DoneSignal, IsStarted, DoneSignals, ProcessError
  <2>2. job'.tok = t /\ job'.todo = <<done>> /\ <<done>> \in Seq(Signal)
        /\ DOMAIN <<done>> = {1} /\ <<done>>[1] = done
    BY <1>2, <1>7, <2>1
  <2> HIDE DEF done
  <2>3. /\ Count(<<done>>, DoneSignals) \in Nat
        /\ Count(<<done>>, DoneSignals) = 0 <=> \A i \in DOMAIN <<done>> : <<done>>[i] \notin DoneSignals
    BY <2>2, Counted, Zenon
  <2>4. ~StartHandled(t)' /\ FirstHandled(t)' /\ DoneHandled(t)' > 0
    BY <2>1, <2>2, <2>3 DEF StartHandled, FirstHandled, DoneHandled
  <2>5. ~linkUp /\ NoneSent(t) /\ m_socket \in {"lost", "stopped"} /\ t \in used
    BY <1>1, <1>2, <1>7 DEF Sound, Lost, Unused
  <2>6. ~StartSent(t)
    BY <1>1, <2>5, Numbers
  <2>7. StartedFirst(t)'
    BY <1>1, <1>3, <2>4, <2>6 DEF Sound, StartedFirst, SameSent, SameStored, SameTaken
  <2>8. Requested(t)' /\ Unused(t)' /\ Lost(t)'
    BY <1>1, <1>2, <1>3, <1>5, <1>7, <2>5 DEF Sound, Requested, Unused, Lost, SameSent
  <2>9. NotYetStarted(t)' /\ StartExpected(t)' /\ OneAnswer(t)'
    BY <1>2, <2>5 DEF NotYetStarted, StartExpected, OneAnswer
  <2>10. LossComes(t)'
    BY <1>1, <2>4, NumbersNext DEF LossComes
  <2> QED
    BY <2>7, <2>8, <2>9, <2>10 DEF Sound
<1> QED
  BY <1>6, <1>7

(* A handle is cut off, with the signals that are stored for it.            *)
LEMMA HandleCutOff ==
    ASSUME AInv, TypeOK', NEW t \in Token, NEW u \in Token, UnregisterHandle(u)
    PROVE  Sound(t)'
<1>1. TypeOK /\ Sound(t) /\ m_signals \in [Token -> Seq(Signal)]
  BY Parts DEF AInv
<1>2. /\ closing' = closing \ {u} /\ m_handles' = m_handles \ {u}
      /\ m_signals' = [m_signals EXCEPT ![u] = <<>>]
      /\ UNCHANGED <<m_state, m_processState, launching, posting, asked, detached,
                     stack, observed, used, m_socketError, m_requests,
                     requestsPosted, launcherVars, linkVars, serverVars>>
  BY DEF UnregisterHandle
<1>3. SameSent(t) /\ SameHandled(t) /\ SameTaken(t)
  BY <1>2, Unmoved
<1>4. /\ Waiting("StartProcess", t)' = Waiting("StartProcess", t)
      /\ Waiting("Close", t)' = Waiting("Close", t)
  BY <1>1, <1>2, WaitingSame
<1>5. CASE u # t
  <2>1. SameStored(t)
    BY <1>1, <1>2, <1>5, Unmoved
  <2>2. (t \in m_handles' <=> t \in m_handles) /\ (t \in closing' <=> t \in closing)
    BY <1>2, <1>5
  <2>3. StartedFirst(t)' /\ Requested(t)' /\ Unused(t)' /\ Lost(t)'
    BY <1>1, <1>2, <1>3, <1>4, <2>1, <2>2
       DEF Sound, StartedFirst, Requested, Unused, Lost, SameSent, SameHandled, SameStored, SameTaken
  <2>4. NotYetStarted(t)' /\ StartExpected(t)' /\ LossComes(t)'
    BY <1>1, <1>2, <1>3, <2>1, <2>2
       DEF Sound, NotYetStarted, StartExpected, LossComes, StartComes,
           SameSent, SameHandled, SameStored, SameTaken
  <2>5. OneAnswer(t)'
    BY <1>1, <1>2, <1>3, <1>4, <2>1, <2>2
       DEF Sound, OneAnswer, InProcesses, SameSent, SameHandled, SameStored, SameTaken
  <2> QED
    BY <2>3, <2>4, <2>5 DEF Sound
<1>6. CASE u = t
  <2>1. t \notin m_handles' /\ m_signals'[t] = <<>>
    BY <1>1, <1>2, <1>6
  <2>2. NoneStored(t)' /\ ~StartStored(t)' /\ FirstStored(t)'
    BY <2>1 DEF NoneStored, StartStored, FirstStored
  <2>3. StartedFirst(t)' /\ Requested(t)' /\ Unused(t)' /\ Lost(t)' /\ NotYetStarted(t)'
    BY <1>1, <1>2, <1>3, <1>4, <2>1, <2>2
       DEF Sound, StartedFirst, Requested, Unused, Lost, NotYetStarted, SameSent, SameHandled, SameTaken
  <2> QED
    BY <2>1, <2>3 DEF Sound, StartExpected, OneAnswer, LossComes
<1> QED
  BY <1>5, <1>6

------------------------------------------------------------------------------
(* The calls of a thread, the innermost first.                              *)
LEMMA OnTop ==
    ASSUME NEW rest \in Seq(Frame), NEW frame \in Frame, NEW t \in Token
    PROVE  LET frames == <<frame>> \o rest IN
           /\ NoneIn(frames, t) <=> (frame.tok = t => frame.todo = <<>>) /\ NoneIn(rest, t)
           /\ StartIn(frames, t) <=>
                \/ StartIn(rest, t)
                \/ frame.tok = t /\ \E i \in DOMAIN frame.todo : IsStarted(frame.todo[i])
           /\ FirstIn(frames, t) <=>
                /\ ~StartIn(rest, t)
                /\ frame.tok = t => \A i \in DOMAIN frame.todo :
                        IsStarted(frame.todo[i]) => i = 1 /\ ~frame.inSlot
           /\ Taken(frames, t, DoneSignals)
                = (IF frame.tok = t THEN Count(frame.todo, DoneSignals) ELSE 0)
                    + Taken(rest, t, DoneSignals)
           /\ Taken(rest, t, DoneSignals) \in Nat /\ frame.todo \in Seq(Signal)
<1> DEFINE frames == <<frame>> \o rest
<1>1. /\ DOMAIN frames = 1 .. Len(rest) + 1 /\ DOMAIN rest = 1 .. Len(rest) /\ Len(rest) \in Nat
      /\ frames[1] = frame
      /\ \A k \in 1 .. Len(rest) : frames[k + 1] = rest[k]
      /\ frame.todo \in Seq(Signal)
  BY DEF Frame
<1>2. /\ Taken(frames, t, DoneSignals)
            = (IF frame.tok = t THEN Count(frame.todo, DoneSignals) ELSE 0)
                + Taken(rest, t, DoneSignals)
      /\ Taken(rest, t, DoneSignals) \in Nat
  BY TakenTop
<1>3. \A k \in DOMAIN rest : k + 1 \in DOMAIN frames /\ frames[k + 1] = rest[k] /\ k + 1 # 1
  BY <1>1
<1>4. 1 \in DOMAIN frames
  BY <1>1
<1> HIDE DEF frames
<1>5. \A k \in DOMAIN frames : k = 1 \/ (k - 1 \in DOMAIN rest /\ frames[k] = rest[k - 1])
  <2> TAKE k \in DOMAIN frames
  <2>1. k \in Nat /\ k >= 1 /\ k <= Len(rest) + 1
    BY <1>1
  <2>2. CASE k # 1
    <3>1. k - 1 \in 1 .. Len(rest) /\ (k - 1) + 1 = k
      BY <1>1, <2>1, <2>2
    <3> QED
      BY <1>1, <3>1
  <2> QED
    BY <2>2
<1>6. NoneIn(frames, t) <=> (frame.tok = t => frame.todo = <<>>) /\ NoneIn(rest, t)
  <2>1. ASSUME NoneIn(frames, t) PROVE (frame.tok = t => frame.todo = <<>>) /\ NoneIn(rest, t)
    BY <1>1, <1>3, <1>4, <2>1 DEF NoneIn
  <2>2. ASSUME NoneIn(rest, t), frame.tok = t => frame.todo = <<>> PROVE NoneIn(frames, t)
    BY <1>1, <1>5, <2>2 DEF NoneIn
  <2> QED
    BY <2>1, <2>2
<1>7. StartIn(frames, t) <=>
        \/ StartIn(rest, t)
        \/ frame.tok = t /\ \E i \in DOMAIN frame.todo : IsStarted(frame.todo[i])
  <2>1. ASSUME StartIn(rest, t) PROVE StartIn(frames, t)
    <3>1. PICK k \in DOMAIN rest :
            rest[k].tok = t /\ \E i \in DOMAIN rest[k].todo : IsStarted(rest[k].todo[i])
      BY <2>1 DEF StartIn
    <3> QED
      BY <1>3, <3>1 DEF StartIn
  <2>2. ASSUME frame.tok = t, \E i \in DOMAIN frame.todo : IsStarted(frame.todo[i])
        PROVE  StartIn(frames, t)
    BY <1>1, <1>4, <2>2 DEF StartIn
  <2>3. ASSUME StartIn(frames, t), ~StartIn(rest, t)
        PROVE  frame.tok = t /\ \E i \in DOMAIN frame.todo : IsStarted(frame.todo[i])
    <3>1. PICK k \in DOMAIN frames :
            frames[k].tok = t /\ \E i \in DOMAIN frames[k].todo : IsStarted(frames[k].todo[i])
      BY <2>3 DEF StartIn
    <3>2. k = 1
      BY <1>5, <2>3, <3>1 DEF StartIn
    <3> QED
      BY <1>1, <3>1, <3>2
  <2> QED
    BY <2>1, <2>2, <2>3
<1>8. FirstIn(frames, t) <=>
        /\ ~StartIn(rest, t)
        /\ frame.tok = t => \A i \in DOMAIN frame.todo :
                IsStarted(frame.todo[i]) => i = 1 /\ ~frame.inSlot
  <2>1. ASSUME FirstIn(frames, t), StartIn(rest, t) PROVE FALSE
    BY <1>3, <2>1 DEF FirstIn, StartIn
  <2> DEFINE First == frame.tok = t => \A i \in DOMAIN frame.todo :
                        IsStarted(frame.todo[i]) => i = 1 /\ ~frame.inSlot
  <2>2. ASSUME FirstIn(frames, t) PROVE First
    BY <1>1, <1>4, <2>2 DEF FirstIn
  <2>3. ASSUME ~StartIn(rest, t), First PROVE FirstIn(frames, t)
    BY <1>1, <1>5, <2>3 DEF FirstIn, StartIn
  <2> HIDE DEF First
  <2>4. FirstIn(frames, t) <=> ~StartIn(rest, t) /\ First
    BY <2>1, <2>2, <2>3
  <2> QED
    BY <2>4 DEF First
<1> QED
  BY <1>1, <1>2, <1>6, <1>7, <1>8 DEF frames

(* The innermost call and the calls around it.                              *)
LEMMA TopOfCalls ==
    ASSUME TypeOK, NEW thr \in Thread, InCall(thr)
    PROVE  /\ Top(thr) \in Frame /\ Tail(stack[thr]) \in Seq(Frame)
           /\ stack[thr] = <<Top(thr)>> \o Tail(stack[thr])
           /\ Top(thr).tok \in Token /\ Top(thr).todo \in Seq(Signal)
<1>1. stack[thr] \in Seq(Frame)
  BY Parts
<1>2. Top(thr) \in Frame /\ Tail(stack[thr]) \in Seq(Frame)
           /\ stack[thr] = <<Top(thr)>> \o Tail(stack[thr])
  BY <1>1 DEF InCall, Top
<1> QED
  BY <1>2 DEF Frame

(* A call that changes, or is over, or begins, with no signals in hand.     *)
LEMMA CallChanges ==
    ASSUME NEW t \in Token, NEW rest \in Seq(Frame), NEW old \in Frame, NEW new \in Frame,
           stack[ThreadOf[t]] = <<old>> \o rest, stack'[ThreadOf[t]] = <<new>> \o rest,
           new.tok = old.tok, new.todo = old.todo, new.inSlot = old.inSlot \/ old.todo = <<>>
    PROVE  SameTaken(t)
<1>1. /\ NoneIn(<<new>> \o rest, t) <=> NoneIn(<<old>> \o rest, t)
      /\ StartIn(<<new>> \o rest, t) <=> StartIn(<<old>> \o rest, t)
      /\ Taken(<<new>> \o rest, t, DoneSignals) = Taken(<<old>> \o rest, t, DoneSignals)
  BY OnTop
<1>2. FirstIn(<<old>> \o rest, t) => FirstIn(<<new>> \o rest, t)
  <2>1. old.todo = <<>> => DOMAIN new.todo = {}
    OBVIOUS
  <2> QED
    BY <2>1, OnTop
<1> QED
  BY <1>1, <1>2 DEF SameTaken, NoneTaken, StartTaken, DoneTaken, FirstTaken, Frames

LEMMA CountEmpty == Count(<<>>, DoneSignals) = 0
<1>1. {i \in DOMAIN <<>> : <<>>[i] \in DoneSignals} = {}
  OBVIOUS
<1> QED
  BY <1>1, FS_EmptySet DEF Count

LEMMA CallReturns ==
    ASSUME NEW t \in Token, NEW rest \in Seq(Frame), NEW old \in Frame,
           stack[ThreadOf[t]] = <<old>> \o rest, stack'[ThreadOf[t]] = rest, old.todo = <<>>
    PROVE  SameTaken(t)
<1>1. DOMAIN old.todo = {} /\ Count(old.todo, DoneSignals) = 0
  BY CountEmpty
<1>2. /\ NoneIn(<<old>> \o rest, t) <=> NoneIn(rest, t)
      /\ StartIn(<<old>> \o rest, t) <=> StartIn(rest, t)
      /\ Taken(<<old>> \o rest, t, DoneSignals) = Taken(rest, t, DoneSignals)
      /\ FirstIn(<<old>> \o rest, t) => ~StartIn(rest, t)
  BY <1>1, OnTop
<1>3. ~StartIn(rest, t) => FirstIn(rest, t)
  BY DEF StartIn, FirstIn
<1> QED
  BY <1>2, <1>3 DEF SameTaken, NoneTaken, StartTaken, DoneTaken, FirstTaken, Frames

LEMMA CallBegins ==
    ASSUME NEW t \in Token, NEW new \in Frame, stack[ThreadOf[t]] \in Seq(Frame),
           stack'[ThreadOf[t]] = <<new>> \o stack[ThreadOf[t]], new.todo = <<>>,
           stack[ThreadOf[t]] = <<>> \/ Head(stack[ThreadOf[t]]).inSlot
    PROVE  SameTaken(t)
<1> DEFINE rest == stack[ThreadOf[t]]
<1>1. DOMAIN new.todo = {} /\ Count(new.todo, DoneSignals) = 0 /\ rest \in Seq(Frame)
  BY CountEmpty
<1>2. FirstIn(rest, t) => ~StartIn(rest, t)
  <2>1. \A k \in DOMAIN rest : k = 1 => rest # <<>> /\ rest[k] = Head(rest)
    OBVIOUS
  <2> QED
    BY <2>1 DEF FirstIn, StartIn
<1> HIDE DEF rest
<1>3. /\ NoneIn(<<new>> \o rest, t) <=> NoneIn(rest, t)
      /\ StartIn(<<new>> \o rest, t) <=> StartIn(rest, t)
      /\ Taken(<<new>> \o rest, t, DoneSignals) = Taken(rest, t, DoneSignals)
      /\ ~StartIn(rest, t) => FirstIn(<<new>> \o rest, t)
  BY <1>1, OnTop
<1> QED
  BY <1>2, <1>3 DEF SameTaken, NoneTaken, StartTaken, DoneTaken, FirstTaken, Frames, rest

(* A step of one thread leaves the calls of every other thread alone.       *)
LEMMA OtherThread ==
    ASSUME TypeOK, NEW t \in Token, NEW thr \in Thread, ThreadOf[t] # thr,
           NEW frame, Push(thr, frame) \/ Pop(thr) \/ SetTop(thr, frame)
    PROVE  SameTaken(t)
<1>1. ThreadOf[t] \in Thread /\ stack \in [Thread -> Seq(Frame)]
  BY Parts
<1>2. stack'[ThreadOf[t]] = stack[ThreadOf[t]]
  BY <1>1 DEF Push, Pop, SetTop
<1> QED
  BY <1>2, Unmoved

(* The steps of calls that neither take nor handle a signal.                *)
LEMMA CallsQuiet ==
    ASSUME AInv, NEW t \in Token, NEW thr \in Thread,
           \/ FlushReturns(thr) \/ DoWaitForSignal(thr) \/ WaitTimeout(thr)
           \/ \E u \in Token, for \in {"Started", "ReadyRead", "Done"} :
                    WaitForSignal(u, for) /\ thr = ThreadOf[u]
    PROVE  SameTaken(t)
<1>1. /\ TypeOK /\ stack \in [Thread -> Seq(Frame)] /\ stack[thr] \in Seq(Frame)
      /\ ThreadOf[t] \in Thread
  BY Parts DEF AInv
<1> DEFINE top == Top(thr)
<1>2. InCall(thr) => /\ top \in Frame /\ Tail(stack[thr]) \in Seq(Frame)
                     /\ stack[thr] = <<top>> \o Tail(stack[thr])
                     /\ top.pc # "deliver" => top.todo = <<>>
  <2>1. ASSUME InCall(thr) PROVE top = stack[thr][1] /\ 1 \in DOMAIN stack[thr]
    BY <1>1, <2>1 DEF InCall, Top
  <2> QED
    BY <1>1, <2>1, TopOfCalls DEF AInv, AtHome, AllHome, Home
<1> HIDE DEF top
<1>3. ASSUME InCall(thr), Pop(thr), top.todo = <<>> PROVE SameTaken(t)
  <2>1. CASE ThreadOf[t] = thr
    <3>1. stack'[thr] = Tail(stack[thr])
      BY <1>1, <1>3 DEF Pop
    <3> QED
      BY <1>2, <1>3, <2>1, <3>1, CallReturns
  <2> QED
    BY <1>1, <1>3, <2>1, OtherThread
<1>4. ASSUME InCall(thr), NEW new \in Frame, SetTop(thr, new), new.tok = top.tok,
             new.todo = top.todo, top.todo = <<>>
      PROVE  SameTaken(t)
  <2>1. CASE ThreadOf[t] = thr
    <3>1. stack'[thr] = <<new>> \o Tail(stack[thr])
      BY <1>1, <1>4 DEF SetTop
    <3> QED
      BY <1>2, <1>4, <2>1, <3>1, CallChanges
  <2> QED
    BY <1>1, <1>4, <2>1, OtherThread
<1>5. CASE WaitTimeout(thr)
  <2>1. InCall(thr) /\ Pop(thr) /\ top.pc # "deliver"
    BY <1>5 DEF WaitTimeout, top
  <2> QED
    BY <1>2, <1>3, <2>1
<1>6. CASE DoWaitForSignal(thr)
  <2> DEFINE pc == IF m_signals[top.tok] # <<>> THEN "take" ELSE "asleep"
             new == [top EXCEPT !.pc = pc]
  <2>1. InCall(thr) /\ top.pc = "check" /\ SetTop(thr, new)
    BY <1>6 DEF DoWaitForSignal, SetPc, top
  <2>2. new \in Frame /\ new.tok = top.tok /\ new.todo = top.todo
    BY <1>2, <2>1 DEF Frame
  <2> HIDE DEF new
  <2> QED
    BY <1>2, <1>4, <2>1, <2>2
<1>7. CASE FlushReturns(thr)
  <2> DEFINE new == [top EXCEPT !.pc = "check", !.inSlot = FALSE]
  <2>1. InCall(thr) /\ top.todo = <<>> /\ (Pop(thr) \/ SetTop(thr, new))
    BY <1>7 DEF FlushReturns, top
  <2>2. new \in Frame /\ new.tok = top.tok /\ new.todo = top.todo
    BY <1>2, <2>1 DEF Frame
  <2> HIDE DEF new
  <2> QED
    BY <1>2, <1>3, <1>4, <2>1, <2>2
<1>8. ASSUME NEW u \in Token, NEW for \in {"Started", "ReadyRead", "Done"},
             WaitForSignal(u, for), thr = ThreadOf[u]
      PROVE  SameTaken(t)
  <2> DEFINE new == [tok |-> u, for |-> for, pc |-> "check", todo |-> <<>>,
                     matched |-> FALSE, inSlot |-> FALSE]
  <2>1. new \in Frame /\ new.todo = <<>>
    BY DEF Frame, SignalType
  <2>2. Push(thr, new) /\ (stack[thr] = <<>> \/ Head(stack[thr]).inSlot)
    BY <1>8 DEF WaitForSignal, UserCode, InCall, Top
  <2> HIDE DEF new
  <2>3. CASE ThreadOf[t] = thr
    <3>1. stack'[thr] = <<new>> \o stack[thr]
      BY <1>1, <2>2 DEF Push
    <3> QED
      BY <1>1, <2>1, <2>2, <2>3, <3>1, CallBegins
  <2> QED
    BY <1>1, <2>2, <2>3, OtherThread
<1> QED
  BY <1>5, <1>6, <1>7, <1>8

(* What flushFor takes of the stored signals, and what it leaves.           *)
LEMMA SignalsSplit ==
    ASSUME NEW s \in Seq(Signal), NEW n \in 0 .. Len(s)
    PROVE  LET front == SubSeq(s, 1, n)
               left == SubSeq(s, n + 1, Len(s))
           IN  /\ front \in Seq(Signal) /\ left \in Seq(Signal)
               /\ Count(s, DoneSignals) = Count(front, DoneSignals) + Count(left, DoneSignals)
               /\ n = 0 => front = <<>> /\ left = s
               /\ n # 0 => front # <<>>
               /\ s = <<>> => front = <<>> /\ left = <<>>
<1>1. /\ SubSeq(s, 1, n) \in Seq(Signal) /\ SubSeq(s, n + 1, Len(s)) \in Seq(Signal)
      /\ Count(s, DoneSignals)
            = Count(SubSeq(s, 1, n), DoneSignals) + Count(SubSeq(s, n + 1, Len(s)), DoneSignals)
  BY CountSplit, Zenon
<1>2. n = 0 => SubSeq(s, 1, n) = <<>> /\ SubSeq(s, n + 1, Len(s)) = s
  OBVIOUS
<1>3. n # 0 => SubSeq(s, 1, n) # <<>>
  <2>1. ASSUME n # 0 PROVE 1 \in DOMAIN SubSeq(s, 1, n)
    BY <2>1
  <2> QED
    BY <2>1
<1>4. s = <<>> => n = 0
  OBVIOUS
<1> QED
  BY <1>1, <1>2, <1>3, <1>4

(* A call takes the first n stored signals of u.                            *)
LEMMA SignalsTaken ==
    ASSUME AInv, TypeOK', NEW t \in Token, NEW u \in Token, NEW for \in SignalType,
           NEW n \in 0 .. Len(m_signals[u]), TakeSignals(u, n), n = 0 => ~StartStored(u),
           NEW rest \in Seq(Frame),
           stack' = [stack EXCEPT ![ThreadOf[u]] = <<FlushFrame(u, for, n)>> \o rest],
           \/ stack[ThreadOf[u]] = rest /\ rest = <<>>
           \/ \E old \in Frame : stack[ThreadOf[u]] = <<old>> \o rest /\ old.tok = u /\ old.todo = <<>>,
           UNCHANGED <<m_processState, launching, closing, used, m_handles, m_socketError, m_requests,
                       launcherVars, linkVars, process>>
    PROVE  Sound(t)'
<1>1. /\ TypeOK /\ Sound(t) /\ m_signals \in [Token -> Seq(Signal)] /\ m_signals[u] \in Seq(Signal)
      /\ stack \in [Thread -> Seq(Frame)] /\ ThreadOf[t] \in Thread /\ ThreadOf[u] \in Thread
  BY Parts DEF AInv
<1>2. SameSent(t) /\ SameHandled(t)
  BY Unmoved
<1> DEFINE new == FlushFrame(u, for, n)
           signals == m_signals[u]
<1>3. /\ new \in Frame /\ new.tok = u /\ ~new.inSlot /\ new.todo = SubSeq(signals, 1, n)
      /\ m_signals' = [m_signals EXCEPT ![u] = SubSeq(signals, n + 1, Len(signals))]
      /\ stack' = [stack EXCEPT ![ThreadOf[u]] = <<new>> \o rest]
  BY <1>1, FlushTypes DEF FlushFrame, TakeSignals
<1> HIDE DEF new
<1>4. CASE ThreadOf[t] # ThreadOf[u]
  <2>1. m_signals'[t] = m_signals[t] /\ stack'[ThreadOf[t]] = stack[ThreadOf[t]]
    BY <1>1, <1>3, <1>4
  <2>2. SameSignals(t)
    BY <1>2, <2>1, Unmoved DEF SameSignals
  <2> QED
    BY <2>2, Bystander
<1>5. CASE ThreadOf[t] = ThreadOf[u]
  <2>1. stack'[ThreadOf[t]] = <<new>> \o rest
    BY <1>1, <1>3, <1>5
  (* What was there before is what is there below the new call.             *)
  <2>2. /\ NoneTaken(t) <=> NoneIn(rest, t)
        /\ StartTaken(t) <=> StartIn(rest, t)
        /\ DoneTaken(t) = Taken(rest, t, DoneSignals)
        /\ FirstTaken(t) => ~StartIn(rest, t)
    <3>1. CASE stack[ThreadOf[u]] = rest /\ rest = <<>>
      <4>1. ~StartIn(rest, t)
        BY <3>1 DEF StartIn
      <4> QED
        BY <1>5, <3>1, <4>1 DEF NoneTaken, StartTaken, DoneTaken, Frames
    <3>2. ASSUME NEW old \in Frame, stack[ThreadOf[u]] = <<old>> \o rest, old.todo = <<>>
          PROVE  /\ NoneTaken(t) <=> NoneIn(rest, t)
                 /\ StartTaken(t) <=> StartIn(rest, t)
                 /\ DoneTaken(t) = Taken(rest, t, DoneSignals)
                 /\ FirstTaken(t) => ~StartIn(rest, t)
      <4>1. DOMAIN old.todo = {} /\ Count(old.todo, DoneSignals) = 0
        BY <3>2, CountEmpty
      <4>2. /\ NoneIn(<<old>> \o rest, t) <=> NoneIn(rest, t)
            /\ StartIn(<<old>> \o rest, t) <=> StartIn(rest, t)
            /\ Taken(<<old>> \o rest, t, DoneSignals) = Taken(rest, t, DoneSignals)
            /\ FirstIn(<<old>> \o rest, t) => ~StartIn(rest, t)
        <5>1. /\ NoneIn(<<old>> \o rest, t)
                    <=> (old.tok = t => old.todo = <<>>) /\ NoneIn(rest, t)
              /\ StartIn(<<old>> \o rest, t) <=>
                    \/ StartIn(rest, t)
                    \/ old.tok = t /\ \E i \in DOMAIN old.todo : IsStarted(old.todo[i])
              /\ FirstIn(<<old>> \o rest, t) => ~StartIn(rest, t)
              /\ Taken(<<old>> \o rest, t, DoneSignals)
                    = (IF old.tok = t THEN Count(old.todo, DoneSignals) ELSE 0)
                        + Taken(rest, t, DoneSignals)
              /\ Taken(rest, t, DoneSignals) \in Nat
          BY <1>1, <3>2, OnTop
        <5> QED
          BY <3>2, <4>1, <5>1
      <4> QED
        BY <1>5, <3>2, <4>2 DEF NoneTaken, StartTaken, DoneTaken, FirstTaken, Frames
    <3> QED
      BY <3>1, <3>2
  <2>3. /\ NoneTaken(t)' <=> (u = t => new.todo = <<>>) /\ NoneIn(rest, t)
        /\ StartTaken(t)' <=>
              StartIn(rest, t) \/ (u = t /\ \E i \in DOMAIN new.todo : IsStarted(new.todo[i]))
        /\ FirstTaken(t)' <=>
              /\ ~StartIn(rest, t)
              /\ u = t => \A i \in DOMAIN new.todo : IsStarted(new.todo[i]) => i = 1
        /\ DoneTaken(t)' = (IF u = t THEN Count(new.todo, DoneSignals) ELSE 0)
                              + Taken(rest, t, DoneSignals)
        /\ Taken(rest, t, DoneSignals) \in Nat
    <3>1. /\ NoneIn(<<new>> \o rest, t) <=> (new.tok = t => new.todo = <<>>) /\ NoneIn(rest, t)
          /\ StartIn(<<new>> \o rest, t) <=>
                \/ StartIn(rest, t)
                \/ new.tok = t /\ \E i \in DOMAIN new.todo : IsStarted(new.todo[i])
          /\ FirstIn(<<new>> \o rest, t) <=>
                /\ ~StartIn(rest, t)
                /\ new.tok = t => \A i \in DOMAIN new.todo :
                        IsStarted(new.todo[i]) => i = 1 /\ ~new.inSlot
          /\ Taken(<<new>> \o rest, t, DoneSignals)
                = (IF new.tok = t THEN Count(new.todo, DoneSignals) ELSE 0)
                    + Taken(rest, t, DoneSignals)
          /\ Taken(rest, t, DoneSignals) \in Nat
      BY <1>3, OnTop
    <3>2. new.tok = u /\ ~new.inSlot
      BY <1>3
    <3>3. /\ NoneTaken(t)' <=> NoneIn(<<new>> \o rest, t)
          /\ StartTaken(t)' <=> StartIn(<<new>> \o rest, t)
          /\ FirstTaken(t)' <=> FirstIn(<<new>> \o rest, t)
          /\ DoneTaken(t)' = Taken(<<new>> \o rest, t, DoneSignals)
      BY <2>1 DEF NoneTaken, StartTaken, DoneTaken, FirstTaken, Frames
    <3> QED
      BY <3>1, <3>2, <3>3
  <2>4. CASE u # t
    <3>1. SameTaken(t)
      BY <2>2, <2>3, <2>4 DEF SameTaken
    <3>2. m_signals'[t] = m_signals[t]
      BY <1>1, <1>3, <2>4
    <3>3. SameSignals(t)
      BY <1>2, <3>1, <3>2, Unmoved DEF SameSignals
    <3> QED
      BY <3>3, Bystander
  <2>5. CASE u = t
    <3> DEFINE left == SubSeq(signals, n + 1, Len(signals))
    <3>1. /\ signals \in Seq(Signal) /\ n \in 0 .. Len(signals)
          /\ m_signals'[t] = left /\ new.todo = SubSeq(signals, 1, n) /\ signals = m_signals[t]
      BY <1>1, <1>3, <2>5
    <3> HIDE DEF signals
    <3>2. /\ SubSeq(signals, 1, n) \in Seq(Signal) /\ left \in Seq(Signal)
          /\ Count(signals, DoneSignals)
               = Count(SubSeq(signals, 1, n), DoneSignals) + Count(left, DoneSignals)
          /\ n = 0 => SubSeq(signals, 1, n) = <<>> /\ left = signals
          /\ n # 0 => SubSeq(signals, 1, n) # <<>>
          /\ signals = <<>> => SubSeq(signals, 1, n) = <<>> /\ left = <<>>
      BY <3>1, SignalsSplit
    <3>3. m_signals'[t] = left /\ left \in Seq(Signal) /\ new.todo \in Seq(Signal)
      BY <3>1, <3>2
    <3>4. /\ DOMAIN signals = 1 .. Len(signals) /\ Len(signals) \in Nat /\ n <= Len(signals) /\ n \in Nat
          /\ DOMAIN new.todo = 1 .. n /\ DOMAIN left = 1 .. Len(signals) - n
          /\ \A i \in 1 .. n : new.todo[i] = signals[i]
          /\ \A i \in 1 .. Len(signals) - n : left[i] = signals[i + n]
      BY <3>1
    <3> HIDE DEF left
    <3>5. /\ n = 0 => new.todo = <<>> /\ left = signals
          /\ n # 0 => new.todo # <<>>
          /\ signals = <<>> => left = <<>> /\ new.todo = <<>>
      BY <3>1, <3>2
    <3>6. Count(signals, DoneSignals) = Count(new.todo, DoneSignals) + Count(left, DoneSignals)
      BY <3>1, <3>2
    <3>7. signals = m_signals[t]
      BY <3>1
    <3>8. DoneStored(t) = Count(new.todo, DoneSignals) + DoneStored(t)'
      BY <3>3, <3>6, <3>7 DEF DoneStored
    <3>9. StartedFirst(t)
      BY <1>1 DEF Sound
    <3>10. CASE n = 0
      <4>1. Count(new.todo, DoneSignals) = 0 /\ DOMAIN new.todo = {}
        BY <3>4, <3>10, <3>5, CountEmpty
      <4>2. SameTaken(t)
        BY <2>2, <2>3, <3>5, <3>10, <4>1 DEF SameTaken
      <4>3. SameSignals(t)
        BY <1>2, <3>3, <3>5, <3>7, <3>10, <4>2, Unmoved DEF SameSignals
      <4> QED
        BY <4>3, Bystander
    <3>11. CASE n # 0
      <4>1. ~NoneStored(t) /\ ~NoneTaken(t)'
        BY <2>3, <2>5, <3>5, <3>7, <3>11 DEF NoneStored
      <4>2. ~StartStored(t)' /\ FirstStored(t)'
        <5>1. ASSUME NEW i \in DOMAIN left, IsStarted(left[i]) PROVE FALSE
          <6>1. i \in Nat /\ i >= 1 /\ i + n \in DOMAIN signals /\ left[i] = signals[i + n]
            BY <3>4
          <6>2. i + n = 1
            BY <3>7, <3>9, <5>1, <6>1 DEF StartedFirst, FirstStored
          <6> QED
            BY <3>4, <3>11, <6>1, <6>2
        <5> QED
          BY <3>3, <5>1 DEF StartStored, FirstStored
      <4>3. StartStored(t) <=> \E i \in DOMAIN new.todo : IsStarted(new.todo[i])
        <5>1. ASSUME NEW i \in DOMAIN signals, IsStarted(signals[i])
              PROVE  i \in DOMAIN new.todo /\ new.todo[i] = signals[i]
          <6>1. i = 1
            BY <3>7, <3>9, <5>1 DEF StartedFirst, FirstStored
          <6>2. 1 \in 1 .. n
            BY <3>4, <3>11
          <6> QED
            BY <3>4, <6>1, <6>2
        <5>2. \A i \in DOMAIN new.todo : i \in DOMAIN signals /\ new.todo[i] = signals[i]
          BY <3>4
        <5>3. (\E i \in DOMAIN signals : IsStarted(signals[i]))
                 <=> \E i \in DOMAIN new.todo : IsStarted(new.todo[i])
          BY <5>1, <5>2
        <5> QED
          BY <3>7, <5>3 DEF StartStored
      <4>4. \A i \in DOMAIN new.todo : IsStarted(new.todo[i]) => i = 1
        BY <3>4, <3>7, <3>9 DEF FirstStored, StartedFirst
      <4>5. ~StartTaken(t)
        BY <2>2, <3>9 DEF StartedFirst
      <4>6. FirstTaken(t)' /\ (StartTaken(t)' <=> StartStored(t))
        BY <2>2, <2>3, <2>5, <4>3, <4>4, <4>5
      <4>7. StartedFirst(t)'
        BY <1>2, <3>9, <4>1, <4>2, <4>6 DEF StartedFirst, SameSent, SameHandled
      <4>8. /\ (StartSent(t) \/ StartComes(t))' <=> StartSent(t) \/ StartComes(t)
            /\ StartComes(t)' <=> StartComes(t)
        BY <1>2, <4>2, <4>5, <4>6 DEF StartComes, SameSent, SameHandled
      <4>9. DoneSent(t)' + DoneHandled(t)' + DoneStored(t)' + DoneTaken(t)'
                  = DoneSent(t) + DoneHandled(t) + DoneStored(t) + DoneTaken(t)
        <5>1. Count(new.todo, DoneSignals) \in Nat
          BY <3>3, Counted, Zenon
        <5> QED
          BY <1>1, <1>2, <2>2, <2>3, <2>5, <3>8, <5>1, Numbers, NumbersNext
             DEF SameSent, SameHandled
      <4> QED
        BY <1>2, <4>1, <4>7, <4>8, <4>9, MovedOn DEF SameSent
    <3> QED
      BY <3>10, <3>11
  <2> QED
    BY <2>4, <2>5
<1> QED
  BY <1>4, <1>5

(* CallerHandle::flush from the event loop, and flushFor in waitForSignal.  *)
LEMMA SignalsFlushed ==
    ASSUME AInv, TypeOK', NEW t \in Token, NEW u \in Token, Flush(u)
    PROVE  Sound(t)'
<1>1. /\ TypeOK /\ m_signals[u] \in Seq(Signal) /\ stack \in [Thread -> Seq(Frame)]
      /\ ThreadOf[u] \in Thread /\ "NoSignal" \in SignalType
  BY Parts DEF AInv, SignalType
<1>2. stack[ThreadOf[u]] = <<>>
  BY DEF Flush, InEventLoop, InCall
<1>3. PICK n \in 0 .. Len(m_signals[u]) :
        /\ FlushUpTo("NoSignal", m_signals[u], n)
        /\ TakeSignals(u, n)
        /\ Push(ThreadOf[u], FlushFrame(u, "NoSignal", n))
  BY DEF Flush
<1>4. n = 0 => ~StartStored(u)
  BY <1>1, <1>3 DEF FlushUpTo, StartStored
<1>5. stack' = [stack EXCEPT ![ThreadOf[u]] = <<FlushFrame(u, "NoSignal", n)>> \o <<>>]
  BY <1>1, <1>2, <1>3 DEF Push
<1>6. UNCHANGED <<m_processState, launching, closing, used, m_handles, m_socketError, m_requests,
                  launcherVars, linkVars, process>>
  BY DEF Flush
<1>7. <<>> \in Seq(Frame)
  OBVIOUS
<1> QED
  BY <1>1, <1>2, <1>3, <1>4, <1>5, <1>6, <1>7, SignalsTaken

LEMMA WaitFlushes ==
    ASSUME AInv, TypeOK', NEW t \in Token, NEW thr \in Thread, WaitTakes(thr)
    PROVE  Sound(t)'
<1> DEFINE top == Top(thr)
           u == top.tok
<1>1. /\ TypeOK /\ stack \in [Thread -> Seq(Frame)] /\ stack[thr] \in Seq(Frame)
      /\ InCall(thr) /\ top.pc = "take"
  BY Parts DEF AInv, WaitTakes
<1>2. /\ top \in Frame /\ Tail(stack[thr]) \in Seq(Frame) /\ u \in Token /\ top.for \in SignalType
      /\ stack[thr] = <<top>> \o Tail(stack[thr])
  BY <1>1, TopOfCalls DEF Frame
<1>3. ThreadOf[u] = thr /\ top.todo = <<>>
  <2>1. top = stack[thr][1] /\ 1 \in DOMAIN stack[thr]
    BY <1>1 DEF InCall, Top
  <2> QED
    BY <1>1, <2>1 DEF AInv, AtHome, AllHome, Home
<1> HIDE DEF top
<1>4. PICK n \in 0 .. Len(m_signals[u]) :
        /\ FlushUpTo(top.for, m_signals[u], n)
        /\ TakeSignals(u, n)
        /\ SetTop(thr, FlushFrame(u, top.for, n))
  BY DEF WaitTakes, top
<1>5. m_signals[u] \in Seq(Signal)
  BY <1>1, <1>2, Parts
<1>6. n = 0 => ~StartStored(u)
  BY <1>4, <1>5 DEF FlushUpTo, StartStored, Types, IsStarted
<1>7. stack' = [stack EXCEPT ![ThreadOf[u]] = <<FlushFrame(u, top.for, n)>> \o Tail(stack[thr])]
  BY <1>1, <1>3, <1>4 DEF SetTop
<1>8. UNCHANGED <<m_processState, launching, closing, used, m_handles, m_socketError, m_requests,
                  launcherVars, linkVars, process>>
  BY DEF WaitTakes
<1> HIDE DEF u
<1>9. /\ \E old \in Frame : stack[ThreadOf[u]] = <<old>> \o Tail(stack[thr]) /\ old.tok = u /\ old.todo = <<>>
      /\ u \in Token /\ top.for \in SignalType
  BY <1>2, <1>3 DEF u
<1> QED
  BY <1>2, <1>4, <1>6, <1>7, <1>8, <1>9, SignalsTaken

(* A signal is handled by the CallerHandle.                                 *)
LEMMA SignalDelivered ==
    ASSUME AInv, TypeOK', NEW t \in Token, NEW thr \in Thread, Deliver(thr)
    PROVE  Sound(t)'
<1> DEFINE top == Top(thr)
           u == top.tok
           signal == Head(top.todo)
           rest == Tail(stack[thr])
           matched == top.matched \/ signal.type \in {top.for, "Done"}
           new == [top EXCEPT !.todo = Tail(top.todo), !.matched = matched,
                              !.inSlot = top.tok \notin detached]
<1>1. /\ TypeOK /\ Sound(t) /\ stack \in [Thread -> Seq(Frame)] /\ stack[thr] \in Seq(Frame)
      /\ InCall(thr) /\ top.todo # <<>> /\ m_processState \in [Token -> ProcessState]
      /\ ThreadOf[t] \in Thread
  BY Parts DEF AInv, Deliver
<1>2. /\ top \in Frame /\ rest \in Seq(Frame) /\ u \in Token /\ top.todo \in Seq(Signal)
      /\ stack[thr] = <<top>> \o rest
  BY <1>1, TopOfCalls
<1>3. ThreadOf[u] = thr
  <2>1. top = stack[thr][1] /\ 1 \in DOMAIN stack[thr]
    BY <1>1 DEF InCall, Top
  <2> QED
    BY <1>1, <2>1 DEF AInv, AtHome, AllHome, Home
<1>4. /\ UNCHANGED <<launching, posting, asked, detached, closing, sharedVars,
                     launcherVars, linkVars, serverVars>>
      /\ SetTop(thr, new)
      /\ m_processState' = [m_processState EXCEPT ![u] =
                    CASE signal.type = "Started" -> "Running"
                      [] signal.type = "Done" -> "NotRunning"
                      [] OTHER -> @]
  BY DEF Deliver
<1> HIDE DEF top
<1>5. new \in Frame /\ new.tok = u /\ new.todo = Tail(top.todo) /\ signal \in Signal
  <2>1. Tail(top.todo) \in Seq(Signal) /\ signal \in Signal
    BY <1>1, <1>2
  <2>2. matched \in BOOLEAN /\ (top.tok \notin detached) \in BOOLEAN
    BY <1>2 DEF Frame
  <2> HIDE DEF matched, signal
  <2> QED
    BY <1>2, <2>1, <2>2 DEF Frame
<1> HIDE DEF new, matched
<1>6. SameSent(t) /\ SameHandled(t) /\ SameStored(t)
  BY <1>4, Unmoved
<1>7. stack'[thr] = <<new>> \o rest
  BY <1>1, <1>4 DEF SetTop
<1> HIDE DEF rest
<1>8. CASE u # t
  <2>1. m_processState'[t] = m_processState[t]
    BY <1>1, <1>4, <1>8
  <2>2. CASE ThreadOf[t] # thr
    BY <1>1, <1>4, <1>6, <2>1, <2>2, OtherThread, Bystander DEF SameSignals
  <2>3. CASE ThreadOf[t] = thr
    <3>1. /\ NoneIn(<<new>> \o rest, t) <=> NoneIn(<<top>> \o rest, t)
          /\ StartIn(<<new>> \o rest, t) <=> StartIn(<<top>> \o rest, t)
          /\ FirstIn(<<new>> \o rest, t) <=> FirstIn(<<top>> \o rest, t)
          /\ Taken(<<new>> \o rest, t, DoneSignals) = Taken(<<top>> \o rest, t, DoneSignals)
      BY <1>2, <1>5, <1>8, OnTop
    <3>2. SameTaken(t)
      BY <1>2, <1>7, <2>3, <3>1
         DEF SameTaken, NoneTaken, StartTaken, DoneTaken, FirstTaken, Frames
    <3> QED
      BY <1>4, <1>6, <2>1, <3>2, Bystander DEF SameSignals
  <2> QED
    BY <2>2, <2>3
<1>9. CASE u = t
  <2>1. /\ signal = top.todo[1] /\ 1 \in DOMAIN top.todo
        /\ DOMAIN new.todo = 1 .. Len(top.todo) - 1 /\ Len(top.todo) \in Nat
        /\ DOMAIN top.todo = 1 .. Len(top.todo)
        /\ \A i \in 1 .. Len(top.todo) - 1 : new.todo[i] = top.todo[i + 1]
    BY <1>1, <1>2, <1>5
  <2>2. /\ NoneTaken(t) <=> NoneIn(<<top>> \o rest, t)
        /\ StartTaken(t) <=> StartIn(<<top>> \o rest, t)
        /\ FirstTaken(t) <=> FirstIn(<<top>> \o rest, t)
        /\ DoneTaken(t) = Taken(<<top>> \o rest, t, DoneSignals)
        /\ NoneTaken(t)' <=> NoneIn(<<new>> \o rest, t)
        /\ StartTaken(t)' <=> StartIn(<<new>> \o rest, t)
        /\ FirstTaken(t)' <=> FirstIn(<<new>> \o rest, t)
        /\ DoneTaken(t)' = Taken(<<new>> \o rest, t, DoneSignals)
    BY <1>2, <1>3, <1>7, <1>9 DEF NoneTaken, StartTaken, DoneTaken, FirstTaken, Frames
  <2>3. StartedFirst(t) /\ Requested(t) /\ Unused(t) /\ Lost(t) /\ NotYetStarted(t)
        /\ StartExpected(t) /\ OneAnswer(t) /\ LossComes(t)
    BY <1>1 DEF Sound
  <2>4. ~NoneTaken(t)
    BY <1>1, <1>2, <1>9, <2>2, OnTop
  <2>5. /\ ~StartIn(rest, t)
        /\ \A i \in DOMAIN top.todo : IsStarted(top.todo[i]) => i = 1 /\ ~top.inSlot
    <3>1. FirstIn(<<top>> \o rest, t) <=>
            /\ ~StartIn(rest, t)
            /\ top.tok = t => \A i \in DOMAIN top.todo :
                    IsStarted(top.todo[i]) => i = 1 /\ ~top.inSlot
      BY <1>2, OnTop
    <3>2. FirstTaken(t)
      BY <2>3 DEF StartedFirst
    <3> QED
      BY <1>9, <2>2, <3>1, <3>2
  <2>6. StartTaken(t) <=> IsStarted(signal)
    <3>1. StartIn(<<top>> \o rest, t) <=>
            \/ StartIn(rest, t)
            \/ top.tok = t /\ \E i \in DOMAIN top.todo : IsStarted(top.todo[i])
      BY <1>2, OnTop
    <3>2. (\E i \in DOMAIN top.todo : IsStarted(top.todo[i])) <=> IsStarted(signal)
      <4> HIDE DEF signal
      <4> QED
        BY <2>1, <2>5
    <3> QED
      BY <1>9, <2>2, <2>5, <3>1, <3>2
  <2>7. \A i \in DOMAIN new.todo : ~IsStarted(new.todo[i])
    <3>1. \A i \in DOMAIN new.todo :
            i + 1 \in DOMAIN top.todo /\ i + 1 # 1 /\ new.todo[i] = top.todo[i + 1]
      BY <2>1
    <3> QED
      BY <2>5, <3>1
  <2>8. ~StartTaken(t)' /\ FirstTaken(t)'
    <3>1. /\ StartIn(<<new>> \o rest, t) <=>
                \/ StartIn(rest, t)
                \/ new.tok = t /\ \E i \in DOMAIN new.todo : IsStarted(new.todo[i])
          /\ FirstIn(<<new>> \o rest, t) <=>
                /\ ~StartIn(rest, t)
                /\ new.tok = t => \A i \in DOMAIN new.todo :
                        IsStarted(new.todo[i]) => i = 1 /\ ~new.inSlot
      BY <1>2, <1>5, OnTop
    <3> QED
      BY <2>2, <2>5, <2>7, <3>1
  <2>9. DoneTaken(t) = DoneTaken(t)' + IF signal.type = "Done" THEN 1 ELSE 0
    <3>1. Count(top.todo, DoneSignals)
             = Count(Tail(top.todo), DoneSignals) + IF Head(top.todo) \in DoneSignals THEN 1 ELSE 0
      BY <1>1, <1>2, CountTail, Zenon
    <3>2. signal \in DoneSignals <=> signal.type = "Done"
      BY <1>5 DEF Signal, DoneSignals
    <3>3. Tail(top.todo) \in Seq(Signal)
      BY <1>1, <1>2
    <3>4. Count(Tail(top.todo), DoneSignals) \in Nat
      BY <3>3, Counted, Zenon
    <3>5. /\ Taken(<<top>> \o rest, t, DoneSignals)
                = Count(top.todo, DoneSignals) + Taken(rest, t, DoneSignals)
          /\ Taken(<<new>> \o rest, t, DoneSignals)
                = Count(new.todo, DoneSignals) + Taken(rest, t, DoneSignals)
          /\ Taken(rest, t, DoneSignals) \in Nat
      BY <1>2, <1>5, <1>9, OnTop
    <3> QED
      BY <1>5, <2>2, <3>1, <3>2, <3>4, <3>5
  (* Nothing of a start is left anywhere.                                   *)
  <2>10. /\ ~StartSent(t)' /\ ~StartHandled(t)' /\ ~StartStored(t)'
         /\ StartedFirst(t)'
    BY <1>6, <2>3, <2>4, <2>8 DEF StartedFirst, SameSent, SameHandled, SameStored
  <2>11. /\ Waiting("StartProcess", t)' = Waiting("StartProcess", t)
         /\ Waiting("Close", t)' = Waiting("Close", t)
         /\ Waiting("StartProcess", t) \in Nat
         /\ DoneSent(t) \in Nat /\ DoneHandled(t) \in Nat /\ DoneStored(t) \in Nat
         /\ DoneTaken(t) \in Nat /\ DoneTaken(t)' \in Nat
    BY <1>1, <1>4, WaitingSame, Numbers, NumbersNext
  <2>12. Requested(t)' /\ Unused(t)' /\ Lost(t)' /\ NotYetStarted(t)' /\ StartExpected(t)'
    BY <1>4, <1>6, <2>3, <2>4, <2>8, <2>10, <2>11
       DEF Requested, Unused, Lost, NotYetStarted, StartExpected, StartComes, SameSent
  <2> HIDE DEF signal
  <2>13. CASE IsStarted(signal)
    <3>1. m_processState'[t] = "Running" /\ DoneTaken(t)' = DoneTaken(t)
      BY <1>1, <1>4, <1>9, <2>9, <2>11, <2>13 DEF IsStarted
    <3>2. OneAnswer(t)'
      <4>1. linkUp /\ t \in m_handles \ closing => m_processState[t] # "NotRunning"
        BY <2>3, <2>6, <2>13 DEF StartExpected, StartComes
      <4> QED
        BY <1>4, <1>6, <2>3, <2>11, <3>1, <4>1
           DEF OneAnswer, InProcesses, SameSent, SameHandled, SameStored
    <3>3. LossComes(t)'
      BY <1>4, <1>6, <2>3, <2>6, <2>13, <3>1
         DEF LossComes, StartComes, SameHandled, SameStored
    <3> QED
      BY <2>10, <2>12, <3>2, <3>3 DEF Sound
  <2>14. CASE signal.type = "Done"
    <3>1. m_processState'[t] = "NotRunning" /\ DoneTaken(t) = DoneTaken(t)' + 1
      BY <1>1, <1>4, <1>9, <2>9, <2>14
    <3>2. OneAnswer(t)'
      BY <1>4, <1>6, <2>3, <2>11, <3>1
         DEF OneAnswer, InProcesses, SameSent, SameHandled, SameStored
    <3>3. LossComes(t)'
      BY <2>8, <2>10, <3>1 DEF LossComes, StartComes
    <3> QED
      BY <2>10, <2>12, <3>2, <3>3 DEF Sound
  <2>15. CASE ~IsStarted(signal) /\ signal.type # "Done"
    <3>1. m_processState'[t] = m_processState[t] /\ DoneTaken(t)' = DoneTaken(t)
      BY <1>1, <1>4, <1>9, <2>9, <2>11, <2>15 DEF IsStarted
    <3>2. OneAnswer(t)'
      BY <1>4, <1>6, <2>3, <2>11, <3>1
         DEF OneAnswer, InProcesses, SameSent, SameHandled, SameStored
    <3>3. LossComes(t)'
      BY <1>4, <1>6, <2>3, <2>8, <2>10, <3>1
         DEF LossComes, StartComes, SameHandled, SameStored
    <3> QED
      BY <2>10, <2>12, <3>2, <3>3 DEF Sound
  <2> QED
    BY <2>13, <2>14, <2>15
<1> QED
  BY <1>8, <1>9

(* The handler is over, and wakes whoever sleeps on its condition.          *)
LEMMA CallerWoken ==
    ASSUME AInv, TypeOK', NEW t \in Token, FlushCaller
    PROVE  Sound(t)'
<1>1. /\ TypeOK /\ job \in Job \cup {NoJob} /\ NoToken \notin Token /\ ThreadOf[t] \in Thread
  BY Parts DEF AInv
<1>2. /\ job.todo = <<>> /\ job' = NoJob /\ WakeOne(job.tok)
      /\ UNCHANGED <<m_state, m_processState, launching, posting, asked, detached,
                   closing, observed, used, m_handles, m_signals, m_socketError,
                   m_requests, requestsPosted, m_socket, erring, linkVars, serverVars>>
  BY DEF FlushCaller
<1>3. SameHandled(t)
  <2>1. CASE job.tok # t
    BY <1>1, <1>2, <2>1, Unmoved DEF NoJob
  <2>2. CASE job.tok = t
    <3>1. NoneHandled(t) /\ ~StartHandled(t) /\ DoneHandled(t) = 0
      BY <1>1, <1>2, Numbers DEF NoneHandled
    <3>2. NoneHandled(t)' /\ ~StartHandled(t)' /\ DoneHandled(t)' = 0 /\ FirstHandled(t)'
      BY <1>1, <1>2 DEF NoneHandled, StartHandled, DoneHandled, FirstHandled, NoJob
    <3> QED
      BY <3>1, <3>2 DEF SameHandled
  <2> QED
    BY <2>1, <2>2
<1>4. SameTaken(t)
  <2> DEFINE thr == ThreadOf[t]
             new == [Top(thr) EXCEPT !.pc = "take"]
  <2>1. CASE ~Asleep(thr, job.tok)
    <3>1. stack'[thr] = stack[thr]
      BY <1>1, <1>2, <2>1 DEF WakeOne
    <3> QED
      BY <3>1, Unmoved
  <2>2. CASE Asleep(thr, job.tok)
    <3>1. stack'[thr] = <<new>> \o Tail(stack[thr])
      BY <1>1, <1>2, <2>2 DEF WakeOne
    <3>2. InCall(thr)
      BY <2>2 DEF Asleep
    <3>3. /\ Top(thr) \in Frame /\ Tail(stack[thr]) \in Seq(Frame)
          /\ stack[thr] = <<Top(thr)>> \o Tail(stack[thr])
      BY <1>1, <3>2, TopOfCalls
    <3>4. new \in Frame /\ new.tok = Top(thr).tok /\ new.todo = Top(thr).todo
          /\ new.inSlot = Top(thr).inSlot
      BY <3>3 DEF Frame
    <3> HIDE DEF new
    <3> QED
      BY <3>1, <3>3, <3>4, CallChanges
  <2> QED
    BY <2>1, <2>2
<1>5. SameSent(t) /\ SameStored(t)
  BY <1>2, Unmoved
<1> QED
  BY <1>2, <1>3, <1>4, <1>5, Bystander DEF SameSignals

(* The steps of calls that move no signal.                                  *)
LEMMA CallsSound ==
    ASSUME AInv, TypeOK', NEW t \in Token, NEW thr \in Thread,
           \/ FlushReturns(thr) \/ DoWaitForSignal(thr) \/ WaitTimeout(thr)
           \/ \E u \in Token, for \in {"Started", "ReadyRead", "Done"} :
                    WaitForSignal(u, for) /\ thr = ThreadOf[u]
    PROVE  Sound(t)'
<1>1. SameTaken(t)
  BY CallsQuiet
<1>2. UNCHANGED <<m_state, m_processState, launching, posting, asked, detached,
                  closing, observed, sharedVars, launcherVars, linkVars, serverVars>>
  BY DEF FlushReturns, DoWaitForSignal, WaitTimeout, WaitForSignal
<1>3. SameSent(t) /\ SameHandled(t) /\ SameStored(t)
  BY <1>2, Unmoved
<1> QED
  BY <1>1, <1>2, <1>3, Bystander DEF SameSignals

------------------------------------------------------------------------------
(* The calls stay at home.                                                  *)
LEMMA HomeFrames ==
    ASSUME NEW thr, NEW frames \in Seq(Frame), AllHome(frames, thr), NEW frame \in Frame,
           Home(frame, thr)
    PROVE  /\ AllHome(<<frame>> \o frames, thr)
           /\ frames # <<>> => AllHome(<<frame>> \o Tail(frames), thr) /\ AllHome(Tail(frames), thr)
<1>1. ASSUME NEW rest \in Seq(Frame), AllHome(rest, thr) PROVE AllHome(<<frame>> \o rest, thr)
  <2> DEFINE new == <<frame>> \o rest
  <2>1. /\ DOMAIN new = 1 .. Len(rest) + 1 /\ DOMAIN rest = 1 .. Len(rest) /\ Len(rest) \in Nat
        /\ new[1] = frame /\ \A k \in 1 .. Len(rest) : new[k + 1] = rest[k]
    OBVIOUS
  <2> HIDE DEF new
  <2>2. ASSUME NEW k \in DOMAIN new, k # 1 PROVE k - 1 \in DOMAIN rest /\ new[k] = rest[k - 1]
    <3>1. k - 1 \in 1 .. Len(rest) /\ (k - 1) + 1 = k
      BY <2>1, <2>2
    <3> QED
      BY <2>1, <3>1
  <2>3. AllHome(new, thr)
    BY <1>1, <2>1, <2>2 DEF AllHome
  <2> QED
    BY <2>3 DEF new
<1>2. ASSUME frames # <<>> PROVE Tail(frames) \in Seq(Frame) /\ AllHome(Tail(frames), thr)
  <2>1. /\ DOMAIN Tail(frames) = 1 .. Len(frames) - 1 /\ DOMAIN frames = 1 .. Len(frames)
        /\ \A k \in 1 .. Len(frames) - 1 : Tail(frames)[k] = frames[k + 1]
        /\ Len(frames) \in Nat /\ Tail(frames) \in Seq(Frame)
    BY <1>2
  <2> QED
    BY <2>1 DEF AllHome
<1> QED
  BY <1>1, <1>2

LEMMA HomeStep ==
    ASSUME AInv,
           \/ \E t \in Token : Flush(t)
           \/ \E t \in Token, for \in {"Started", "ReadyRead", "Done"} : WaitForSignal(t, for)
           \/ \E thr \in Thread : \/ Deliver(thr) \/ FlushReturns(thr) \/ DoWaitForSignal(thr)
                                  \/ WaitTimeout(thr) \/ WaitTakes(thr)
           \/ FlushCaller \/ UNCHANGED stack
    PROVE  AtHome'
<1> SUFFICES ASSUME NEW u \in Thread PROVE AllHome(stack'[u], u)
  BY DEF AtHome
<1>1. /\ TypeOK /\ stack \in [Thread -> Seq(Frame)]
      /\ \A thr \in Thread : stack[thr] \in Seq(Frame) /\ AllHome(stack[thr], thr)
      /\ \A t \in Token : ThreadOf[t] \in Thread
  BY Parts DEF AInv, AtHome
<1>2. ASSUME NEW thr \in Thread, NEW frame \in Frame, Home(frame, thr),
             Push(thr, frame) \/ (InCall(thr) /\ SetTop(thr, frame))
      PROVE  AllHome(stack'[u], u)
  <2>1. CASE u = thr
    <3>1. \/ stack'[u] = <<frame>> \o stack[u]
          \/ stack[u] # <<>> /\ stack'[u] = <<frame>> \o Tail(stack[u])
      BY <1>1, <1>2, <2>1 DEF Push, SetTop, InCall
    <3> QED
      BY <1>1, <1>2, <2>1, <3>1, HomeFrames
  <2>2. CASE u # thr
    BY <1>1, <1>2, <2>2 DEF Push, SetTop
  <2> QED
    BY <2>1, <2>2
<1>3. ASSUME NEW thr \in Thread, InCall(thr)
      PROVE  /\ Top(thr) \in Frame /\ Home(Top(thr), thr) /\ Top(thr).tok \in Token
             /\ Pop(thr) => AllHome(stack'[u], u)
  <2>1. Top(thr) = stack[thr][1] /\ 1 \in DOMAIN stack[thr] /\ stack[thr] # <<>>
    BY <1>1, <1>3 DEF InCall, Top
  <2>2. Top(thr) \in Frame /\ Home(Top(thr), thr) /\ Top(thr).tok \in Token
    BY <1>1, <1>3, <2>1, TopOfCalls DEF AllHome
  <2>3. AllHome(Tail(stack[thr]), thr)
    BY <1>1, <2>1, <2>2, HomeFrames
  <2> QED
    BY <1>1, <2>2, <2>3 DEF Pop
<1>4. ASSUME NEW t \in Token, Flush(t) PROVE AllHome(stack'[u], u)
  <2>1. PICK n \in 0 .. Len(m_signals[t]) : Push(ThreadOf[t], FlushFrame(t, "NoSignal", n))
    BY <1>4 DEF Flush
  <2>2. FlushFrame(t, "NoSignal", n) \in Frame /\ Home(FlushFrame(t, "NoSignal", n), ThreadOf[t])
    <3>1. FlushFrame(t, "NoSignal", n) \in Frame
      BY <1>1, FlushTypes DEF SignalType
    <3> QED
      BY <3>1 DEF FlushFrame, Home
  <2> QED
    BY <1>1, <1>2, <2>1, <2>2
<1>5. ASSUME NEW t \in Token, NEW for \in {"Started", "ReadyRead", "Done"}, WaitForSignal(t, for)
      PROVE  AllHome(stack'[u], u)
  <2> DEFINE frame == [tok |-> t, for |-> for, pc |-> "check", todo |-> <<>>,
                       matched |-> FALSE, inSlot |-> FALSE]
  <2>1. Push(ThreadOf[t], frame)
    BY <1>5 DEF WaitForSignal
  <2>2. frame \in Frame /\ Home(frame, ThreadOf[t])
    BY DEF Frame, SignalType, Home
  <2> HIDE DEF frame
  <2> QED
    BY <1>1, <1>2, <2>1, <2>2
<1>6. ASSUME NEW thr \in Thread, Deliver(thr) PROVE AllHome(stack'[u], u)
  <2> DEFINE frame == Top(thr)
             matched == frame.matched \/ Head(frame.todo).type \in {frame.for, "Done"}
             inSlot == frame.tok \notin detached
             next == [frame EXCEPT !.todo = Tail(frame.todo), !.matched = matched,
                                   !.inSlot = inSlot]
  <2>1. InCall(thr) /\ SetTop(thr, next) /\ frame.todo # <<>> /\ frame.pc = "deliver"
    BY <1>6 DEF Deliver
  <2>2. frame \in Frame /\ Home(frame, thr)
    BY <1>3, <2>1
  <2> HIDE DEF frame
  <2>3. Tail(frame.todo) \in Seq(Signal)
    BY <2>1, <2>2 DEF Frame
  <2>4. matched \in BOOLEAN /\ inSlot \in BOOLEAN
    BY <2>2 DEF Frame
  <2> HIDE DEF matched, inSlot
  <2>5. next \in Frame /\ next.tok = frame.tok /\ next.pc = "deliver"
    BY <2>1, <2>2, <2>3, <2>4 DEF Frame
  <2> HIDE DEF next
  <2>6. Home(next, thr)
    BY <2>2, <2>5 DEF Home
  <2> QED
    BY <1>2, <2>1, <2>5, <2>6
<1>7. ASSUME NEW thr \in Thread, FlushReturns(thr) PROVE AllHome(stack'[u], u)
  <2> DEFINE new == [Top(thr) EXCEPT !.pc = "check", !.inSlot = FALSE]
  <2>1. InCall(thr) /\ Top(thr).todo = <<>> /\ (Pop(thr) \/ SetTop(thr, new))
    BY <1>7 DEF FlushReturns
  <2>2. Top(thr) \in Frame /\ Home(Top(thr), thr)
    BY <1>3, <2>1
  <2>3. new \in Frame /\ new.tok = Top(thr).tok /\ new.todo = Top(thr).todo
    BY <2>2 DEF Frame
  <2> HIDE DEF new
  <2>4. Home(new, thr)
    BY <2>1, <2>2, <2>3 DEF Home
  <2> QED
    BY <1>2, <1>3, <2>1, <2>3, <2>4
<1>8. ASSUME NEW thr \in Thread, DoWaitForSignal(thr) PROVE AllHome(stack'[u], u)
  <2> DEFINE pc == IF m_signals[Top(thr).tok] # <<>> THEN "take" ELSE "asleep"
             new == [Top(thr) EXCEPT !.pc = pc]
  <2>1. InCall(thr) /\ Top(thr).pc = "check" /\ SetTop(thr, new)
    BY <1>8 DEF DoWaitForSignal, SetPc
  <2>2. Top(thr) \in Frame /\ Home(Top(thr), thr)
    BY <1>3, <2>1
  <2>3. new \in Frame /\ new.tok = Top(thr).tok /\ new.todo = Top(thr).todo
    BY <2>2 DEF Frame
  <2> HIDE DEF new
  <2>4. Home(new, thr)
    BY <2>1, <2>2, <2>3 DEF Home
  <2> QED
    BY <1>2, <2>1, <2>3, <2>4
<1>9. ASSUME NEW thr \in Thread, WaitTimeout(thr) PROVE AllHome(stack'[u], u)
  BY <1>3, <1>9 DEF WaitTimeout
<1>10. ASSUME NEW thr \in Thread, WaitTakes(thr) PROVE AllHome(stack'[u], u)
  <2> DEFINE top == Top(thr)
  <2>1. InCall(thr) /\ top \in Frame /\ Home(top, thr) /\ top.tok \in Token /\ top.for \in SignalType
    BY <1>3, <1>10 DEF WaitTakes, Frame
  <2>2. PICK n \in 0 .. Len(m_signals[top.tok]) : SetTop(thr, FlushFrame(top.tok, top.for, n))
    BY <1>10 DEF WaitTakes
  <2> HIDE DEF top
  <2>3. FlushFrame(top.tok, top.for, n) \in Frame
    BY <1>1, <2>1, FlushTypes
  <2>4. Home(FlushFrame(top.tok, top.for, n), thr)
    BY <2>1 DEF FlushFrame, Home
  <2> QED
    BY <1>2, <2>1, <2>2, <2>3, <2>4
<1>11. CASE FlushCaller
  <2> DEFINE new == [Top(u) EXCEPT !.pc = "take"]
  <2>1. CASE ~Asleep(u, job.tok)
    <3>1. stack'[u] = stack[u]
      BY <1>11, <2>1 DEF FlushCaller, WakeOne
    <3> QED
      BY <1>1, <3>1
  <2>2. CASE Asleep(u, job.tok)
    <3>1. InCall(u) /\ Top(u).pc = "asleep" /\ stack'[u] = <<new>> \o Tail(stack[u])
      BY <1>11, <2>2 DEF FlushCaller, WakeOne, Asleep
    <3>2. Top(u) \in Frame /\ Home(Top(u), u)
      BY <1>3, <3>1
    <3>3. new \in Frame /\ new.tok = Top(u).tok /\ new.todo = Top(u).todo
      BY <3>2 DEF Frame
    <3> HIDE DEF new
    <3>4. Home(new, u)
      BY <3>1, <3>2, <3>3 DEF Home
    <3> QED
      BY <1>1, <3>1, <3>3, <3>4, HomeFrames DEF InCall
  <2> QED
    BY <2>1, <2>2
<1> QED
  BY <1>1, <1>4, <1>5, <1>6, <1>7, <1>8, <1>9, <1>10, <1>11

------------------------------------------------------------------------------
(* The invariant holds at first, and is kept by every step.                 *)
LEMMA AnswerInit == Init => AInv
<1> SUFFICES ASSUME Init PROVE AInv
  OBVIOUS
<1>1. TypeOK
  BY TypeInit
<1>2. AtHome
  BY DEF Init, AtHome, AllHome
<1>3. ASSUME NEW t \in Token PROVE Sound(t)
  <2>1. NoneSent(t) /\ NoneHandled(t) /\ NoneStored(t) /\ NoneTaken(t)
    <3>1. ThreadOf[t] \in Thread
      BY <1>1, Parts
    <3> QED
      BY <3>1 DEF Init, NoneSent, NoneHandled, NoneStored, NoneTaken, NoneIn, Frames, NoJob
  <2>2. FirstSent(t) /\ FirstHandled(t) /\ FirstStored(t) /\ FirstTaken(t)
    <3>1. ThreadOf[t] \in Thread
      BY <1>1, Parts
    <3> QED
      BY <3>1 DEF Init, FirstSent, FirstHandled, FirstStored, FirstTaken, FirstIn, Frames, NoJob
  <2>3. /\ ~StartSent(t) /\ ~StartComes(t)
        /\ DoneSent(t) = 0 /\ DoneHandled(t) = 0 /\ DoneStored(t) = 0 /\ DoneTaken(t) = 0
    BY <1>1, <2>1, Numbers DEF StartComes
  <2>4. \A type : Waiting(type, t) = 0
    <3> TAKE type
    <3>1. c2s \o m_requests = <<>>
      BY DEF Init
    <3>2. {i \in DOMAIN <<>> : <<>>[i] \in {[type |-> type, tok |-> t]}} = {}
      OBVIOUS
    <3> QED
      BY <3>1, <3>2, FS_EmptySet DEF Waiting, Requests, Count
  <2>5. /\ launching = {} /\ erring = {} /\ used = {} /\ m_handles = {} /\ ~m_socketError[t]
        /\ m_processState[t] = "NotRunning" /\ process[t] = "none" /\ m_socket = "unset"
    BY DEF Init
  <2> QED
    BY <2>1, <2>2, <2>3, <2>4, <2>5
       DEF Sound, StartedFirst, Requested, Unused, Lost, NotYetStarted, StartExpected, OneAnswer,
           LossComes
<1> QED
  BY <1>1, <1>2, <1>3 DEF AInv

LEMMA AnswerStep == AInv /\ [Next]_vars => AInv'
<1> SUFFICES ASSUME AInv, [Next]_vars PROVE AInv'
  OBVIOUS
<1>1. TypeOK'
  BY TypeStep DEF AInv
<1> DEFINE Kept == AtHome' /\ \A t \in Token : Sound(t)'
<1>2. ASSUME NEW u \in Token, UserNext(u) PROVE Kept
  <2>1. CASE \E for \in {"Started", "ReadyRead", "Done"} : WaitForSignal(u, for)
    BY <1>1, <2>1, HomeStep, CallsSound, ThreadOfAssumption
  <2>2. CASE RegisterHandle(u) \/ (\E type \in {"Terminate", "Kill"} : Control(u, type))
             \/ Write(u) \/ Close(u)
    <3>1. UNCHANGED stack
      BY <2>2 DEF RegisterHandle, Control, Write, Close
    <3>2. AtHome'
      BY <3>1, HomeStep
    <3> QED
      BY <1>1, <2>2, <3>2, CallerQuiet
  <2> QED
    BY <1>2, <2>1, <2>2 DEF UserNext
<1>3. ASSUME NEW u \in Token, CallerTokenNext(u) PROVE Kept
  <2>1. CASE ProgramMissing(u) \/ Start(u) \/ DestroyInterface(u)
    <3>1. UNCHANGED stack
      BY <2>1 DEF ProgramMissing, Start, DestroyInterface
    <3>2. AtHome'
      BY <3>1, HomeStep
    <3> QED
      BY <1>1, <2>1, <3>2, CallerQuiet
  <2>2. CASE UnregisterHandle(u)
    <3>1. UNCHANGED stack
      BY <2>2 DEF UnregisterHandle
    <3>2. AtHome'
      BY <3>1, HomeStep
    <3> QED
      BY <1>1, <2>2, <3>2, HandleCutOff
  <2>3. CASE Flush(u)
    BY <1>1, <2>3, HomeStep, SignalsFlushed
  <2> QED
    BY <1>3, <2>1, <2>2, <2>3 DEF CallerTokenNext
<1>4. ASSUME NEW u \in Token, ServerTokenNext(u) PROVE Kept
  <2>1. UNCHANGED stack
    BY <1>4 DEF ServerTokenNext, HandleStartPacket, HandleWritePacket, HandleTerminatePacket,
       HandleKillPacket, HandleClosePacket, HandleProcessStarted, HandleProcessError, ChildWrites,
       HandleReadyReadStandardOutput, HandleProcessFinished, Reaped
  <2>2. AtHome'
    BY <2>1, HomeStep
  <2>3. \A t \in Token : Sound(t)'
    BY <1>1, <1>4, ServerQuiet, ServerSends DEF ServerTokenNext
  <2> QED
    BY <2>2, <2>3
<1>5. ASSUME NEW thr \in Thread, CallerNext(thr) PROVE Kept
  <2>1. CASE PostHandleRequests(thr)
    <3>1. UNCHANGED stack
      BY <2>1 DEF PostHandleRequests
    <3>2. AtHome'
      BY <3>1, HomeStep
    <3> QED
      BY <1>1, <2>1, <3>2, LauncherQuiet
  <2>2. CASE Deliver(thr)
    BY <1>1, <2>2, HomeStep, SignalDelivered
  <2>3. CASE WaitTakes(thr)
    BY <1>1, <2>3, HomeStep, WaitFlushes
  <2>4. CASE FlushReturns(thr) \/ DoWaitForSignal(thr) \/ WaitTimeout(thr)
    BY <1>1, <2>4, HomeStep, CallsSound
  <2> QED
    BY <1>5, <2>1, <2>2, <2>3, <2>4 DEF CallerNext
<1>6. ASSUME LauncherNext PROVE Kept
  <2>1. CASE FlushCaller
    BY <1>1, <2>1, HomeStep, CallerWoken
  <2>2. CASE ~FlushCaller
    <3>1. UNCHANGED stack
      BY <1>6, <2>2 DEF LauncherNext, SetSocket, HandleRequests, WriteRequests,
         HandleSocketDataAvailable, LockHandle, AppendSignal, SocketErrorOccurred,
         HandleSocketDisconnected, HandleError, HandleSocketError, DoStop
    <3>2. AtHome'
      BY <3>1, HomeStep
    <3>3. \A t \in Token : Sound(t)'
      BY <1>1, <1>6, <2>2, LauncherQuiet, PacketHandled, HandlerLocks, SignalStored, ConnectionLost,
         HandleTold DEF LauncherNext, SocketErrorOccurred, HandleSocketDisconnected
    <3> QED
      BY <3>2, <3>3
  <2> QED
    BY <2>1, <2>2
<1>7. ASSUME ServerNext PROVE Kept
  <2>1. UNCHANGED stack
    BY <1>7 DEF ServerNext, LauncherStarted, HandleShutdownPacket, HandleSocketClosed,
       HandleServerSocketError, LauncherNotConnected, LauncherFinished, Quit
  <2>2. AtHome'
    BY <2>1, HomeStep
  <2> QED
    BY <1>1, <1>7, <2>2, ServerQuiet
<1>8. ASSUME UNCHANGED vars PROVE Kept
  <2>1. UNCHANGED stack
    BY <1>8 DEF vars
  <2>2. AtHome'
    BY <2>1, HomeStep
  <2> QED
    BY <1>1, <1>8, <2>2, LauncherQuiet
<1>9. Kept
  BY <1>2, <1>3, <1>4, <1>5, <1>6, <1>7, <1>8 DEF Next
<1> QED
  BY <1>1, <1>9 DEF AInv

LEMMA AnswerAlways == Spec => []AInv
  BY AnswerInit, AnswerStep, PTL DEF Spec

(* As long as the connection holds, a process that its CallerHandle thinks  *)
(* is starting or running has exactly one thing that ends in a done signal: *)
(* its start request, the child, or the signal; and one that is not running *)
(* has none.  So handleDone is called once for every StartProcess packet.   *)
THEOREM AnsweredOnce == Spec => []ExactlyOneAnswer
<1>1. AInv => ExactlyOneAnswer
  <2> SUFFICES ASSUME AInv, linkUp, NEW t \in m_handles \ closing
               PROVE  Answers(t) = IF m_processState[t] = "NotRunning" THEN 0 ELSE 1
    BY DEF ExactlyOneAnswer
  <2>1. TypeOK /\ t \in Token
    BY Parts DEF AInv
  <2>2. /\ Waiting("StartProcess", t) \in Nat /\ DoneSent(t) \in Nat /\ DoneHandled(t) \in Nat
        /\ DoneStored(t) \in Nat /\ DoneTaken(t) \in Nat
    BY <2>1, Numbers
  <2>3. /\ Answers(t) = Waiting("StartProcess", t) + (IF InProcesses(t) THEN 1 ELSE 0)
                          + DoneInTransit(t)
        /\ DoneInTransit(t) = DoneSent(t) + DoneHandled(t) + DoneStored(t) + DoneTaken(t)
    BY DEF Answers, DoneInTransit, Waiting, StartRequest, DoneSent, DoneHandled, DoneStored,
       DoneTaken, Frames
  <2>4. OneAnswer(t)
    BY <2>1 DEF AInv, Sound
  <2> QED
    BY <2>2, <2>3, <2>4 DEF OneAnswer
<1> QED
  BY <1>1, AnswerAlways, PTL

(* Once LauncherHandle::handleSocketError has set its flag, every process   *)
(* that was starting or running has a done signal coming, though the socket *)
(* and all that was in it is gone: also the one whose started signal was    *)
(* stored, but not yet handled, when the connection broke.                  *)
THEOREM LossIsTold == Spec => []LossIsReported
<1>1. AInv => LossIsReported
  <2> SUFFICES ASSUME AInv, NEW t \in m_handles, m_processState[t] # "NotRunning", m_socketError[t]
               PROVE  DoneInTransit(t) > 0
    BY DEF LossIsReported
  <2>1. TypeOK /\ t \in Token
    BY Parts DEF AInv
  <2>2. /\ DoneSent(t) \in Nat /\ DoneHandled(t) \in Nat
        /\ DoneStored(t) \in Nat /\ DoneTaken(t) \in Nat
    BY <2>1, Numbers
  <2>3. DoneInTransit(t) = DoneSent(t) + DoneHandled(t) + DoneStored(t) + DoneTaken(t)
    BY DEF DoneInTransit, DoneSent, DoneHandled, DoneStored, DoneTaken, Frames
  <2>4. LossComes(t)
    BY <2>1 DEF AInv, Sound
  <2> QED
    BY <2>2, <2>3, <2>4 DEF LossComes
<1> QED
  BY <1>1, AnswerAlways, PTL

------------------------------------------------------------------------------
(* What a QtcProcess has been told of a run is a position: 0 is that it is *)
(* starting, 1 + k that it is running and has written k pieces, and         *)
(* -1 - p that it has ended at position p.                                  *)
Pieces(data, p, q) == p < q /\ Len(data) = q - p /\ \A i \in 1 .. Len(data) : data[i] = p - 1 + i

(* A signal tells how to get from p to q.                                   *)
Tells(signal, p, q) ==
    \/ signal.type = "Started" /\ p = 0 /\ q = 1
    \/ signal.type = "ReadyRead" /\ p >= 1 /\ Pieces(signal.data, p, q)
    \/ /\ signal.type = "Done" /\ p >= 0 /\ q = -1 - p
       /\ signal.error = "FailedToStart" <=> p = 0

LastTells(data, p, q) == IF data = <<>> THEN q = p ELSE p >= 1 /\ Pieces(data, p, q)

(* A packet of the token t does, too; one of another says nothing of t.     *)
PacketTells(t, packet, p, q) ==
    IF packet.tok # t THEN q = p
    ELSE \/ packet.type = "ProcessStarted" /\ p = 0 /\ q = 1
         \/ packet.type = "ReadyReadStandardOutput" /\ p >= 1 /\ Pieces(packet.data, p, q)
         \/ /\ packet.type = "ProcessDone"
            /\ \E r \in Int : /\ LastTells(packet.data, p, r) /\ r >= 0 /\ q = -1 - r
                              /\ packet.error = "FailedToStart" <=> r = 0

Moves(t, e, p, q) ==
    IF e.type \in {"Started", "ReadyRead", "Done"} THEN Tells(e, p, q) ELSE PacketTells(t, e, p, q)

(* One position comes before another, or is it.                             *)
Before(p, q) == IF p < 0 THEN q = p ELSE IF q >= 0 THEN p <= q ELSE p <= -1 - q

(* A sequence of signals or of packets leads from p to q, step by step.     *)
Chain(t, s, p, q) ==
    \E m \in [0 .. Len(s) -> Int] :
        /\ m[0] = p /\ m[Len(s)] = q
        /\ \A i \in 1 .. Len(s) : Moves(t, s[i], m[i - 1], m[i])
        /\ \A i, j \in 0 .. Len(s) : i <= j => Before(m[i], m[j])

(* Before is an order, and a step never leads back.                         *)
LEMMA BeforeOrders ==
    /\ \A p \in Int : Before(p, p)
    /\ \A p, q, r \in Int : Before(p, q) /\ Before(q, r) => Before(p, r)
    /\ \A p, q \in Int : Before(p, q) /\ Before(q, p) => p = q
  BY DEF Before

LEMMA MovesOn ==
    ASSUME NEW t, NEW e, NEW p \in Int, NEW q \in Int, Moves(t, e, p, q)
    PROVE  Before(p, q)
<1>1. \A data : \A r \in Int : Pieces(data, p, r) => p < r
  BY DEF Pieces
<1>2. CASE e.type \in {"Started", "ReadyRead", "Done"}
  <2>1. Tells(e, p, q)
    BY <1>2 DEF Moves
  <2>2. CASE e.type = "ReadyRead" /\ p >= 1 /\ Pieces(e.data, p, q)
    <3>1. p < q
      BY <2>2, <1>1, Zenon
    <3> QED
      BY <2>2, <3>1 DEF Before
  <2>3. CASE p = 0 /\ q = 1
    BY <2>3 DEF Before
  <2>4. CASE p >= 0 /\ q = -1 - p
    BY <2>4 DEF Before
  <2> QED
    BY <2>1, <2>2, <2>3, <2>4 DEF Tells
<1>3. CASE e.type \notin {"Started", "ReadyRead", "Done"} /\ e.tok # t
  BY <1>3 DEF Moves, PacketTells, Before
<1>4. CASE e.type \notin {"Started", "ReadyRead", "Done"} /\ e.tok = t
  <2>1. CASE e.type = "ProcessDone"
    <3>1. PICK r \in Int : LastTells(e.data, p, r) /\ r >= 0 /\ q = -1 - r
      BY <1>4, <2>1 DEF Moves, PacketTells
    <3>2. p <= r /\ (r = p \/ p >= 1)
      <4>1. CASE e.data = <<>>
        BY <3>1, <4>1 DEF LastTells
      <4>2. CASE e.data # <<>>
        <5>1. p >= 1 /\ Pieces(e.data, p, r)
          BY <3>1, <4>2 DEF LastTells
        <5>2. p < r
          BY <1>1, <5>1, Zenon
        <5> QED
          BY <5>1, <5>2
      <4> QED
        BY <4>1, <4>2
    <3> QED
      BY <3>1, <3>2 DEF Before
  <2>2. CASE e.type # "ProcessDone"
    <3>1. (p = 0 /\ q = 1) \/ (p >= 1 /\ Pieces(e.data, p, q))
      BY <1>4, <2>2 DEF Moves, PacketTells
    <3>2. (p = 0 /\ q = 1) \/ (p >= 1 /\ p < q)
      BY <1>1, <3>1, Zenon
    <3> QED
      BY <3>2 DEF Before
  <2> QED
    BY <2>1, <2>2
<1> QED
  BY <1>2, <1>3, <1>4

(* Chains: the empty one, where one gets to, one step more at the end, and  *)
(* two chains, of which one goes on where the other ends.                   *)
LEMMA ChainEmpty ==
    ASSUME NEW t, NEW p \in Int
    PROVE  /\ Chain(t, <<>>, p, p)
           /\ \A q : Chain(t, <<>>, p, q) => q = p
<1>1. Chain(t, <<>>, p, p)
  <2> DEFINE m == [i \in 0 .. 0 |-> p]
  <2>1. /\ m \in [0 .. Len(<<>>) -> Int] /\ m[0] = p /\ m[Len(<<>>)] = p
        /\ 1 .. Len(<<>>) = {} /\ 0 .. Len(<<>>) = {0}
    OBVIOUS
  <2>2. Before(p, p)
    BY BeforeOrders
  <2> HIDE DEF m
  <2> QED
    BY <2>1, <2>2 DEF Chain
<1>2. ASSUME NEW q, Chain(t, <<>>, p, q) PROVE q = p
  BY <1>2 DEF Chain
<1> QED
  BY <1>1, <1>2

LEMMA ChainOrders ==
    ASSUME NEW t, NEW S, NEW s \in Seq(S), NEW p, NEW q, Chain(t, s, p, q)
    PROVE  p \in Int /\ q \in Int /\ Before(p, q)
<1>1. PICK m \in [0 .. Len(s) -> Int] :
        /\ m[0] = p /\ m[Len(s)] = q
        /\ \A i, j \in 0 .. Len(s) : i <= j => Before(m[i], m[j])
  BY DEF Chain
<1>2. Len(s) \in Nat
  OBVIOUS
<1>3. 0 \in 0 .. Len(s) /\ Len(s) \in 0 .. Len(s) /\ 0 <= Len(s)
  BY <1>2
<1> QED
  BY <1>1, <1>3

LEMMA ChainAppend ==
    ASSUME NEW t, NEW S, NEW s \in Seq(S), NEW e \in S, NEW p \in Int, NEW q \in Int,
           NEW r \in Int, Chain(t, s, p, q), Moves(t, e, q, r)
    PROVE  Chain(t, Append(s, e), p, r)
<1> DEFINE n == Len(s)
<1>1. n \in Nat
  OBVIOUS
<1>2. PICK m \in [0 .. n -> Int] :
        /\ m[0] = p /\ m[n] = q
        /\ \A i \in 1 .. n : Moves(t, s[i], m[i - 1], m[i])
        /\ \A i, j \in 0 .. n : i <= j => Before(m[i], m[j])
  BY DEF Chain
<1> DEFINE k == [i \in 0 .. n + 1 |-> IF i = n + 1 THEN r ELSE m[i]]
           a == Append(s, e)
<1>3. Len(a) = n + 1 /\ a[n + 1] = e /\ \A i \in 1 .. n : a[i] = s[i]
  OBVIOUS
<1> HIDE DEF n, a
<1>4. \A i \in 0 .. n + 1 : i = n + 1 \/ i \in 0 .. n
  BY <1>1
<1>5. k \in [0 .. n + 1 -> Int]
  BY <1>1, <1>4
<1>6. k[n + 1] = r /\ \A i \in 0 .. n : k[i] = m[i]
  BY <1>1
<1> HIDE DEF k
<1>7. k[0] = p /\ k[n] = q
  BY <1>1, <1>2, <1>6
<1>8. ASSUME NEW i \in 1 .. n + 1 PROVE Moves(t, a[i], k[i - 1], k[i])
  <2>1. CASE i = n + 1
    <3>1. i - 1 = n
      BY <1>1, <2>1
    <3> QED
      BY <1>3, <1>6, <1>7, <2>1, <3>1
  <2>2. CASE i # n + 1
    <3>1. i \in 1 .. n /\ i \in 0 .. n /\ i - 1 \in 0 .. n
      BY <1>1, <2>2
    <3> QED
      BY <1>2, <1>3, <1>6, <3>1
  <2> QED
    BY <2>1, <2>2
<1>9. ASSUME NEW i \in 0 .. n + 1, NEW j \in 0 .. n + 1, i <= j PROVE Before(k[i], k[j])
  <2>1. Before(q, r)
    BY MovesOn
  <2>2. CASE j # n + 1
    <3>1. i \in 0 .. n /\ j \in 0 .. n
      BY <1>1, <1>9, <2>2
    <3> QED
      BY <1>2, <1>6, <1>9, <3>1
  <2>3. CASE j = n + 1 /\ i # n + 1
    <3>1. i \in 0 .. n /\ n \in 0 .. n /\ i <= n
      BY <1>1, <2>3
    <3>2. Before(m[i], q) /\ m[i] \in Int
      BY <1>2, <3>1
    <3>3. Before(m[i], r)
      BY <2>1, <3>2, BeforeOrders, Zenon
    <3> QED
      BY <1>6, <2>3, <3>1, <3>3
  <2>4. CASE j = n + 1 /\ i = n + 1
    BY <1>6, <2>4, BeforeOrders
  <2> QED
    BY <2>2, <2>3, <2>4
<1>10. /\ k \in [0 .. Len(a) -> Int] /\ k[0] = p /\ k[Len(a)] = r
       /\ \A i \in 1 .. Len(a) : Moves(t, a[i], k[i - 1], k[i])
       /\ \A i, j \in 0 .. Len(a) : i <= j => Before(k[i], k[j])
  BY <1>3, <1>5, <1>6, <1>7, <1>8, <1>9
<1>11. Chain(t, a, p, r)
  BY <1>10 DEF Chain
<1> QED
  BY <1>11 DEF a

LEMMA ChainCut ==
    ASSUME NEW t, NEW S, NEW s \in Seq(S), NEW p \in Int, NEW q \in Int, Chain(t, s, p, q),
           NEW n \in 0 .. Len(s)
    PROVE  \E r \in Int : /\ Chain(t, SubSeq(s, 1, n), p, r)
                          /\ Chain(t, SubSeq(s, n + 1, Len(s)), r, q)
                          /\ n = 1 => Moves(t, s[1], p, r)
<1> DEFINE l == Len(s)
           a == SubSeq(s, 1, n)
           b == SubSeq(s, n + 1, l)
<1>1. l \in Nat /\ n \in Nat /\ n <= l
  OBVIOUS
<1>2. PICK m \in [0 .. l -> Int] :
        /\ m[0] = p /\ m[l] = q
        /\ \A i \in 1 .. l : Moves(t, s[i], m[i - 1], m[i])
        /\ \A i, j \in 0 .. l : i <= j => Before(m[i], m[j])
  BY DEF Chain
<1>3. /\ Len(a) = n /\ Len(b) = l - n
      /\ \A i \in 1 .. n : a[i] = s[i]
      /\ \A i \in 1 .. l - n : b[i] = s[n + i]
  <2> HIDE DEF l
  <2>1. n < l => n + 1 \in 1 .. l
    BY <1>1
  <2>2. /\ \A i \in 1 .. n : i \in 1 .. l
        /\ \A i \in n + 1 .. l : i \in 1 .. l
    BY <1>1
  <2>3. Len(a) = n /\ \A i \in 1 .. n : a[i] = s[i]
    BY <1>1, <2>2, SubSeqProperties DEF l
  <2>4. Len(b) = l - n /\ \A i \in 1 .. l - n : b[i] = s[n + i]
    BY <1>1, <2>2, SubSeqProperties DEF l
  <2> QED
    BY <2>3, <2>4
<1> HIDE DEF l, a, b
<1> DEFINE f == [i \in 0 .. n |-> m[i]]
           g == [i \in 0 .. l - n |-> m[n + i]]
<1>4. f \in [0 .. n -> Int] /\ \A i \in 0 .. n : f[i] = m[i] /\ i \in 0 .. l
  BY <1>1
<1>5. g \in [0 .. l - n -> Int] /\ \A i \in 0 .. l - n : g[i] = m[n + i] /\ n + i \in 0 .. l
  BY <1>1
<1> HIDE DEF f, g
<1>6. Chain(t, a, p, m[n])
  <2>1. \A i \in 1 .. n : Moves(t, a[i], f[i - 1], f[i])
    <3> TAKE i \in 1 .. n
    <3>1. i \in 1 .. l /\ i \in 0 .. n /\ i - 1 \in 0 .. n
      BY <1>1
    <3> QED
      BY <1>2, <1>3, <1>4, <3>1
  <2>2. \A i, j \in 0 .. n : i <= j => Before(f[i], f[j])
    BY <1>2, <1>4
  <2>3. f[0] = p /\ f[n] = m[n]
    BY <1>1, <1>2, <1>4
  <2> QED
    BY <1>3, <1>4, <2>1, <2>2, <2>3 DEF Chain
<1>7. Chain(t, b, m[n], q)
  <2>1. \A i \in 1 .. l - n : Moves(t, b[i], g[i - 1], g[i])
    <3> TAKE i \in 1 .. l - n
    <3>1. n + i \in 1 .. l /\ i \in 0 .. l - n /\ i - 1 \in 0 .. l - n /\ n + (i - 1) = (n + i) - 1
      BY <1>1
    <3> QED
      BY <1>2, <1>3, <1>5, <3>1
  <2>2. \A i, j \in 0 .. l - n : i <= j => Before(g[i], g[j])
    <3> TAKE i, j \in 0 .. l - n
    <3>1. i <= j => n + i <= n + j
      BY <1>1
    <3> QED
      BY <1>2, <1>5, <3>1
  <2>3. g[0] = m[n] /\ g[l - n] = q
    <3>1. 0 \in 0 .. l - n /\ l - n \in 0 .. l - n /\ n + 0 = n /\ n + (l - n) = l
      BY <1>1
    <3> QED
      BY <1>2, <1>5, <3>1
  <2> QED
    BY <1>3, <1>5, <2>1, <2>2, <2>3 DEF Chain
<1>8. n = 1 => Moves(t, s[1], p, m[n])
  BY <1>1, <1>2
<1>9. m[n] \in Int
  BY <1>1, <1>2
<1> QED
  BY <1>6, <1>7, <1>8, <1>9 DEF a, b, l

(* The first step, and the rest of them.                                    *)
LEMMA ChainTail ==
    ASSUME NEW t, NEW S, NEW s \in Seq(S), NEW p \in Int, NEW q \in Int, Chain(t, s, p, q),
           s # <<>>
    PROVE  \E r \in Int : Moves(t, Head(s), p, r) /\ Chain(t, Tail(s), r, q)
<1>1. 1 \in 0 .. Len(s) /\ Head(s) = s[1] /\ Tail(s) = SubSeq(s, 1 + 1, Len(s))
  OBVIOUS
<1>2. PICK r \in Int : Chain(t, SubSeq(s, 1 + 1, Len(s)), r, q) /\ Moves(t, s[1], p, r)
  BY <1>1, ChainCut
<1> QED
  BY <1>1, <1>2

(* Packets of other tokens lead nowhere.                                    *)
LEMMA ChainOfOthers ==
    ASSUME NEW t \in Token, NEW s \in Seq(Reply), NEW p \in Int,
           \A i \in DOMAIN s : s[i].tok # t
    PROVE  Chain(t, s, p, p)
<1> DEFINE m == [i \in 0 .. Len(s) |-> p]
<1>1. Len(s) \in Nat /\ DOMAIN s = 1 .. Len(s) /\ \A i \in 1 .. Len(s) : s[i] \in Reply
  OBVIOUS
<1>2. m \in [0 .. Len(s) -> Int] /\ \A i \in 0 .. Len(s) : m[i] = p
  OBVIOUS
<1> HIDE DEF m
<1>3. m[0] = p /\ m[Len(s)] = p
  BY <1>1, <1>2
<1>4. ASSUME NEW i \in 1 .. Len(s) PROVE Moves(t, s[i], m[i - 1], m[i])
  <2>1. i \in 0 .. Len(s) /\ i - 1 \in 0 .. Len(s)
    BY <1>1
  <2>2. s[i].type \notin {"Started", "ReadyRead", "Done"} /\ s[i].tok # t
    BY <1>1 DEF Reply
  <2> QED
    BY <1>2, <2>1, <2>2 DEF Moves, PacketTells
<1>5. \A i, j \in 0 .. Len(s) : Before(m[i], m[j])
  BY <1>2, BeforeOrders
<1> QED
  BY <1>2, <1>3, <1>4, <1>5 DEF Chain

(* A set of numbers has a least one: the order of numbers is well-founded. *)
LEMMA LeastNumber ==
    ASSUME NEW T, T \subseteq Nat, T # {}
    PROVE  \E m \in T : \A k \in T : m <= k
<1> DEFINE L == {ss \in Nat \X Nat : ss[1] < ss[2]}
<1>1. IsWellFoundedOn(L, Nat)
  <2>1. OpToRel(<, Nat) = {ss \in Nat \X Nat : ss[1] < ss[2]}
    BY Zenon DEF OpToRel
  <2> QED
    BY <2>1, NatLessThanWellFounded, Zenon
<1>2. \E m \in T : \A k \in T : <<k, m>> \notin L
  <2> HIDE DEF L
  <2> QED
    BY <1>1, WFMin, Zenon
<1>3. PICK m \in T : \A k \in T : <<k, m>> \notin L
  BY <1>2
<1>4. ASSUME NEW k \in T PROVE m <= k
  <2>1. k \in Nat /\ m \in Nat
    OBVIOUS
  <2>2. <<k, m>> \notin L
    BY <1>3
  <2>3. ~(k < m)
    BY <2>1, <2>2
  <2> QED
    BY <2>1, <2>3
<1> QED
  BY <1>4

(* Induction, as far as n.                                                 *)
LEMMA InductionUpTo ==
    ASSUME NEW n \in Nat, NEW S, 0 \in S,
           \A i \in 1 .. n : i - 1 \in S => i \in S
    PROVE  \A i \in 0 .. n : i \in S
<1> DEFINE T == {i \in 0 .. n : i \notin S}
<1> SUFFICES ASSUME T # {} PROVE FALSE
  OBVIOUS
<1>1. PICK m \in T : \A k \in T : m <= k
  <2>1. T \subseteq Nat
    OBVIOUS
  <2> HIDE DEF T
  <2> QED
    BY <2>1, LeastNumber
<1>2. m \in 1 .. n
  OBVIOUS
<1>3. m - 1 \in 0 .. n /\ m - 1 \notin T
  BY <1>1, <1>2
<1> QED
  BY <1>2, <1>3

(* g starts with b, and takes the i-th step to get to g[i].                *)
Recurs(g, b, n, step) == g[0] = b /\ \A i \in 1 .. n : g[i] = step[i][g[i - 1]]

(* A function may be defined by recursion.                                 *)
LEMMA Recursion ==
    ASSUME NEW S, NEW b \in S, NEW n \in Nat, NEW step \in [1 .. n -> [S -> S]]
    PROVE  \E g \in [0 .. n -> S] : Recurs(g, b, n, step)
<1> DEFINE Upto(k, g) == Recurs(g, b, k, step)
           D == {k \in 0 .. n : \E g \in [0 .. k -> S] : Upto(k, g)}
<1>1. 0 \in D
  <2> DEFINE g == [i \in 0 .. 0 |-> b]
  <2>1. g \in [0 .. 0 -> S] /\ g[0] = b /\ 1 .. 0 = {}
    OBVIOUS
  <2> HIDE DEF g
  <2>2. Upto(0, g)
    BY <2>1 DEF Recurs
  <2> QED
    BY <2>1, <2>2
<1>2. ASSUME NEW k \in 1 .. n, k - 1 \in D PROVE k \in D
  <2>1. PICK g \in [0 .. k - 1 -> S] : Upto(k - 1, g)
    BY <1>2
  <2> DEFINE h == [i \in 0 .. k |-> IF i = k THEN step[k][g[k - 1]] ELSE g[i]]
  <2>2. k - 1 \in 0 .. k - 1 /\ g[k - 1] \in S
    OBVIOUS
  <2>3. step[k][g[k - 1]] \in S
    BY <2>2
  <2>4. h \in [0 .. k -> S]
    <3>1. ASSUME NEW i \in 0 .. k PROVE h[i] \in S
      <4>1. CASE i = k
        BY <2>3, <4>1
      <4>2. CASE i # k
        <5>1. i \in 0 .. k - 1
          BY <4>2
        <5> QED
          BY <4>2, <5>1
      <4> QED
        BY <4>1, <4>2
    <3> QED
      BY <3>1
  <2>5. \A i \in 0 .. k - 1 : h[i] = g[i]
    OBVIOUS
  <2>6. h[k] = step[k][g[k - 1]]
    OBVIOUS
  <2> HIDE DEF h
  <2>7. Upto(k, h)
    BY <2>1, <2>5, <2>6 DEF Recurs
  <2>8. k \in 0 .. n
    OBVIOUS
  <2> QED
    BY <2>4, <2>7, <2>8
<1>3. n \in D
  <2> HIDE DEF D
  <2>1. \A i \in 1 .. n : i - 1 \in D => i \in D
    BY <1>2
  <2>2. \A i \in 0 .. n : i \in D
    BY <1>1, <2>1, InductionUpTo, Zenon
  <2> QED
    BY <2>2
<1> QED
  BY <1>3

(* g joins the sequences of ss, one after the other.                        *)
Joins(g, ss, n) ==
    /\ g \in [0 .. n -> Seq(Nat)] /\ g[0] = <<>>
    /\ \A i \in 1 .. n : g[i] = g[i - 1] \o ss[i]

(* There is such a function.                                                *)
LEMMA Joined ==
    ASSUME NEW ss \in Seq(Seq(Nat))
    PROVE  \E g : Joins(g, ss, Len(ss))
<1> DEFINE n == Len(ss)
           step == [i \in 1 .. n |-> [s \in Seq(Nat) |-> s \o ss[i]]]
<1>1. n \in Nat /\ <<>> \in Seq(Nat) /\ \A i \in 1 .. n : ss[i] \in Seq(Nat)
  OBVIOUS
<1> HIDE DEF n
<1>2. step \in [1 .. n -> [Seq(Nat) -> Seq(Nat)]]
  <2>1. \A i \in 1 .. n : \A s \in Seq(Nat) : s \o ss[i] \in Seq(Nat)
    BY <1>1
  <2>2. \A i \in 1 .. n : [s \in Seq(Nat) |-> s \o ss[i]] \in [Seq(Nat) -> Seq(Nat)]
    BY <2>1
  <2> QED
    BY <2>2
<1>3. PICK g \in [0 .. n -> Seq(Nat)] : Recurs(g, <<>>, n, step)
  <2> HIDE DEF step
  <2> QED
    BY <1>1, <1>2, Recursion, Zenon
<1>4. \A i \in 1 .. n : g[i] = g[i - 1] \o ss[i]
  <2> TAKE i \in 1 .. n
  <2>1. i - 1 \in 0 .. n
    BY <1>1
  <2>2. g[i] = step[i][g[i - 1]]
    BY <1>3 DEF Recurs
  <2> QED
    BY <1>3, <2>1, <2>2
<1>5. g[0] = <<>>
  BY <1>3 DEF Recurs
<1>6. Joins(g, ss, n)
  BY <1>3, <1>4, <1>5 DEF Joins
<1> QED
  BY <1>6 DEF n

(* What FlattenSeq returns is what any such g comes to.                     *)
LEMMA Flattened ==
    ASSUME NEW ss \in Seq(Seq(Nat)), NEW g, Joins(g, ss, Len(ss))
    PROVE  FlattenSeq(ss) = g[Len(ss)]
<1> DEFINE n == Len(ss)
<1>1. n \in Nat /\ \A i \in 1 .. n : ss[i] \in Seq(Nat)
  OBVIOUS
<1>2. /\ g \in [0 .. n -> Seq(Nat)] /\ g[0] = <<>>
      /\ \A i \in 1 .. n : g[i] = g[i - 1] \o ss[i]
  BY DEF Joins
<1>3. CASE n = 0
  <2>1. ss = <<>> /\ FlattenSeq(ss) = ss
    BY <1>3 DEF FlattenSeq
  <2> QED
    BY <1>2, <1>3, <2>1
<1>4. CASE n # 0
  <2> DEFINE v == CHOOSE f : f = [i \in 1 .. n |-> IF i = 1 THEN ss[i] ELSE f[i - 1] \o ss[i]]
             h == [i \in 1 .. n |-> g[i]]
  <2>1. FlattenSeq(ss) = v[n]
    BY <1>4, Zenon DEF FlattenSeq
  <2> HIDE DEF n
  <2>2. \A i \in 1 .. n : h[i] = IF i = 1 THEN ss[i] ELSE h[i - 1] \o ss[i]
    <3> TAKE i \in 1 .. n
    <3>1. CASE i = 1
      <4>1. i - 1 = 0
        BY <3>1
      <4>2. h[i] = <<>> \o ss[i]
        BY <1>2, <3>1, <4>1
      <4>3. ss[i] \in Seq(Nat)
        BY <1>1
      <4> QED
        BY <3>1, <4>2, <4>3
    <3>2. CASE i # 1
      <4>1. i - 1 \in 1 .. n
        BY <1>1, <3>2
      <4> QED
        BY <1>2, <3>2, <4>1
    <3> QED
      BY <3>1, <3>2
  <2>3. h = [i \in 1 .. n |-> IF i = 1 THEN ss[i] ELSE h[i - 1] \o ss[i]]
    <3>1. h = [i \in 1 .. n |-> h[i]]
      OBVIOUS
    <3> HIDE DEF h
    <3> QED
      BY <2>2, <3>1
  <2>4. v = [i \in 1 .. n |-> IF i = 1 THEN ss[i] ELSE v[i - 1] \o ss[i]]
    <3> HIDE DEF h
    <3> QED
      BY <2>3, Zenon
  <2> HIDE DEF v
  <2>5. \A i \in 1 .. n : v[i] = IF i = 1 THEN ss[i] ELSE v[i - 1] \o ss[i]
    BY <2>4
  <2> DEFINE T == {i \in 0 .. n : i = 0 \/ v[i] = h[i]}
  <2>6. 0 \in T
    BY <1>1
  <2>7. ASSUME NEW i \in 1 .. n, i - 1 \in T PROVE i \in T
    <3> HIDE DEF h
    <3>1. i \in 0 .. n /\ (i = 1 \/ v[i - 1] = h[i - 1])
      BY <1>1, <2>7
    <3> QED
      BY <2>2, <2>5, <3>1
  <2>8. n \in T
    <3> HIDE DEF T, h
    <3>1. \A i \in 1 .. n : i - 1 \in T => i \in T
      BY <2>7
    <3>2. \A i \in 0 .. n : i \in T
      BY <1>1, <2>6, <3>1, InductionUpTo, Zenon
    <3>3. n \in 0 .. n
      BY <1>1
    <3> QED
      BY <3>2, <3>3
  <2>9. v[n] = h[n] /\ h[n] = g[n]
    BY <1>1, <1>4, <2>8
  <2> QED
    BY <2>1, <2>9 DEF n
<1> QED
  BY <1>3, <1>4

(* One sequence more, or none.                                              *)
LEMMA FlattenAppend ==
    /\ FlattenSeq(<<>>) = <<>>
    /\ \A ss \in Seq(Seq(Nat)), s \in Seq(Nat) :
          /\ FlattenSeq(ss) \in Seq(Nat)
          /\ FlattenSeq(Append(ss, s)) = FlattenSeq(ss) \o s
<1>1. FlattenSeq(<<>>) = <<>>
  BY DEF FlattenSeq
<1>2. ASSUME NEW ss \in Seq(Seq(Nat)), NEW s \in Seq(Nat)
      PROVE  FlattenSeq(ss) \in Seq(Nat) /\ FlattenSeq(Append(ss, s)) = FlattenSeq(ss) \o s
  <2> DEFINE n == Len(ss)
             tt == Append(ss, s)
  <2>1. /\ n \in Nat /\ tt \in Seq(Seq(Nat)) /\ Len(tt) = n + 1
        /\ \A i \in 1 .. n : tt[i] = ss[i]
        /\ tt[n + 1] = s
    OBVIOUS
  <2> HIDE DEF n, tt
  <2>2. PICK g : Joins(g, tt, n + 1)
    BY <2>1, Joined
  <2>3. /\ g \in [0 .. n + 1 -> Seq(Nat)] /\ g[0] = <<>>
        /\ \A i \in 1 .. n + 1 : g[i] = g[i - 1] \o tt[i]
    BY <2>2 DEF Joins
  <2> DEFINE h == [i \in 0 .. n |-> g[i]]
  <2>4. Joins(h, ss, n)
    <3>1. h \in [0 .. n -> Seq(Nat)] /\ \A i \in 0 .. n : h[i] = g[i]
      BY <2>1, <2>3
    <3> HIDE DEF h
    <3>2. h[0] = <<>>
      BY <2>1, <2>3, <3>1
    <3>3. \A i \in 1 .. n : h[i] = h[i - 1] \o ss[i]
      <4> TAKE i \in 1 .. n
      <4>1. i \in 0 .. n /\ i - 1 \in 0 .. n /\ i \in 1 .. n + 1
        BY <2>1
      <4> QED
        BY <2>1, <2>3, <3>1, <4>1
    <3> QED
      BY <3>1, <3>2, <3>3 DEF Joins
  <2>5. FlattenSeq(ss) = h[n] /\ h[n] = g[n] /\ g[n] \in Seq(Nat)
    <3>1. FlattenSeq(ss) = h[n]
      <4> HIDE DEF h
      <4> QED
        BY <2>4, Flattened DEF n
    <3> QED
      BY <2>1, <2>3, <3>1
  <2>6. FlattenSeq(tt) = g[n + 1]
    BY <2>1, <2>2, Flattened
  <2>7. g[n + 1] = g[n] \o s
    <3>1. n + 1 \in 1 .. n + 1 /\ (n + 1) - 1 = n
      BY <2>1
    <3> QED
      BY <2>1, <2>3, <3>1
  <2> QED
    BY <2>5, <2>6, <2>7 DEF tt
<1> QED
  BY <1>1, <1>2

(* What is given of a signal.                                               *)
DataOf(signal) == IF signal.type = "ReadyRead" THEN signal.data ELSE <<>>

(* What OutputOf and ResultOf of the run are after one more signal.         *)
LEMMA OutputGrows ==
    ASSUME NEW t \in Token, NEW signal \in Signal, observed \in [Token -> Seq(Signal)],
           observed'[t] = Append(observed[t], signal)
    PROVE  /\ OutputOf(t) \in Seq(Nat) /\ DataOf(signal) \in Seq(Nat)
           /\ OutputOf(t)' = OutputOf(t) \o DataOf(signal)
<1> DEFINE s == observed[t]
           Given(o) == [i \in DOMAIN o |-> IF o[i].type = "ReadyRead" THEN o[i].data ELSE <<>>]
<1>1. /\ OutputOf(t) = FlattenSeq(Given(s))
      /\ OutputOf(t)' = FlattenSeq(Given(Append(s, signal)))
  <2>1. OutputOf(t)' = FlattenSeq(Given(observed'[t]))
    BY DEF OutputOf
  <2> HIDE DEF Given
  <2> QED
    BY <2>1 DEF OutputOf, Given
<1>2. \A e \in Signal : DataOf(e) \in Seq(Nat)
  <2> TAKE e \in Signal
  <2>1. CASE e.type = "ReadyRead"
    <3>1. e.data \in Seq(1 .. MaxOutput)
      BY <2>1 DEF Signal, Output
    <3>2. 1 .. MaxOutput \subseteq Nat
      BY BoundsAssumption
    <3>3. e.data \in Seq(Nat)
      BY <3>1, <3>2, SeqMonotonic
    <3> QED
      BY <2>1, <3>3 DEF DataOf
  <2>2. CASE e.type # "ReadyRead"
    BY <2>2 DEF DataOf
  <2> QED
    BY <2>1, <2>2
<1>3. s \in Seq(Signal) /\ Len(s) \in Nat /\ DOMAIN s = 1 .. Len(s)
  OBVIOUS
<1>4. \A o \in Seq(Signal) : Given(o) = [i \in 1 .. Len(o) |-> DataOf(o[i])]
  BY DEF DataOf
<1> HIDE DEF Given, s
<1>5. /\ Given(s) \in Seq(Seq(Nat)) /\ Len(Given(s)) = Len(s)
      /\ \A i \in 1 .. Len(s) : Given(s)[i] = DataOf(s[i])
  <2>1. \A i \in 1 .. Len(s) : DataOf(s[i]) \in Seq(Nat)
    BY <1>2, <1>3
  <2> DEFINE f == [i \in 1 .. Len(s) |-> DataOf(s[i])]
  <2>2. f \in Seq(Seq(Nat))
    <3>1. f \in [1 .. Len(s) -> Seq(Nat)]
      BY <2>1
    <3> HIDE DEF f
    <3> QED
      BY <1>3, <3>1
  <2>3. DOMAIN f = 1 .. Len(s) /\ \A i \in 1 .. Len(s) : f[i] = DataOf(s[i])
    OBVIOUS
  <2>4. Given(s) = f
    BY <1>3, <1>4
  <2> HIDE DEF f
  <2> QED
    BY <1>3, <2>2, <2>3, <2>4
<1>6. Given(Append(s, signal)) = Append(Given(s), DataOf(signal))
  <2> DEFINE a == Append(s, signal)
             b == Append(Given(s), DataOf(signal))
             f == [i \in 1 .. Len(s) + 1 |-> DataOf(a[i])]
  <2>1. /\ a \in Seq(Signal) /\ Len(a) = Len(s) + 1
        /\ \A i \in 1 .. Len(s) : a[i] = s[i]
        /\ a[Len(s) + 1] = signal
    BY <1>3
  <2>2. /\ b \in Seq(Seq(Nat)) /\ Len(b) = Len(s) + 1
        /\ \A i \in 1 .. Len(s) : b[i] = Given(s)[i]
        /\ b[Len(s) + 1] = DataOf(signal)
    BY <1>2, <1>3, <1>5
  <2> HIDE DEF a, b
  <2>3. \A i \in 1 .. Len(s) + 1 : DataOf(a[i]) = b[i]
    <3> TAKE i \in 1 .. Len(s) + 1
    <3>1. CASE i = Len(s) + 1
      BY <2>1, <2>2, <3>1
    <3>2. CASE i # Len(s) + 1
      <4>1. i \in 1 .. Len(s)
        BY <1>3, <3>2
      <4> QED
        BY <1>5, <2>1, <2>2, <4>1
    <3> QED
      BY <3>1, <3>2
  <2>4. Given(a) = f
    BY <1>4, <2>1
  <2>5. b = f
    <3>1. b = [i \in 1 .. Len(s) + 1 |-> b[i]]
      BY <2>2, LenProperties
    <3> QED
      BY <2>3, <3>1
  <2> QED
    BY <2>4, <2>5 DEF a, b
<1>7. DataOf(signal) \in Seq(Nat)
  BY <1>2
<1> QED
  BY <1>1, <1>5, <1>6, <1>7, FlattenAppend, Zenon

LEMMA ResultGrows ==
    ASSUME NEW t \in Token, NEW signal \in Signal, observed \in [Token -> Seq(Signal)],
           observed'[t] = Append(observed[t], signal), ResultOf(t) = "none"
    PROVE  ResultOf(t)' = IF signal.type = "Done" THEN signal.error ELSE "none"
<1> DEFINE s == observed[t]
           n == Len(s)
           I(o) == {i \in 1 .. Len(o) : o[i].type = "Done"}
           First(o) == IF I(o) # {} THEN Min(I(o)) ELSE 0
           Result(o) == IF First(o) = 0 THEN "none" ELSE o[First(o)].error
<1>1. ResultOf(t) = Result(s) /\ ResultOf(t)' = Result(observed'[t])
  <2>1. ResultOf(t) = Result(s)
    BY DEF ResultOf, SelectInSeq, IsDone
  <2>2. ResultOf(t)' = Result(observed'[t])
    BY DEF ResultOf, SelectInSeq, IsDone
  <2> QED
    BY <2>1, <2>2
<1>2. s \in Seq(Signal) /\ n \in Nat /\ \A i \in 1 .. n : s[i] \in Signal
  OBVIOUS
<1>3. I(s) = {}
  <2> SUFFICES ASSUME I(s) # {} PROVE FALSE
    OBVIOUS
  <2>1. I(s) \subseteq Nat
    OBVIOUS
  <2>2. Min(I(s)) \in I(s)
    <3> HIDE DEF I
    <3>1. \E m \in I(s) : \A k \in I(s) : m <= k
      BY <2>1, LeastNumber
    <3> QED
      BY <3>1 DEF Min
  <2>3. Min(I(s)) \in 1 .. n /\ s[Min(I(s))].type = "Done"
    BY <2>2
  <2>4. Result(s) = s[Min(I(s))].error
    <3> HIDE DEF I
    <3>1. Min(I(s)) # 0
      BY <1>2, <2>3
    <3> QED
      BY <3>1
  <2>5. s[Min(I(s))].error \in ProcessError
    <3> HIDE DEF I
    <3> QED
      BY <1>2, <2>3 DEF Signal
  <2> HIDE DEF Result
  <2> QED
    BY <1>1, <2>4, <2>5 DEF ProcessError
<1> DEFINE a == Append(s, signal)
<1>4. Len(a) = n + 1 /\ a[n + 1] = signal /\ \A i \in 1 .. n : a[i] = s[i]
  BY <1>2
<1>5. ResultOf(t)' = Result(a)
  <2> HIDE DEF Result
  <2> QED
    BY <1>1
<1>6. I(a) = IF signal.type = "Done" THEN {n + 1} ELSE {}
  <2>1. \A i \in 1 .. n : s[i].type # "Done"
    BY <1>3
  <2>2. \A i \in 1 .. n + 1 : i = n + 1 \/ i \in 1 .. n
    BY <1>2
  <2> HIDE DEF a, n, s
  <2>3. \A i \in 1 .. n + 1 : a[i].type = "Done" <=> i = n + 1 /\ signal.type = "Done"
    BY <1>4, <2>1, <2>2
  <2>4. n + 1 \in 1 .. n + 1
    BY <1>2
  <2> QED
    BY <1>4, <2>3, <2>4
<1>7. Min({n + 1}) = n + 1
  BY <1>2 DEF Min
<1> HIDE DEF I, a, s, n
<1>8. CASE signal.type = "Done"
  <2>1. I(a) = {n + 1} /\ First(a) = n + 1 /\ n + 1 # 0
    BY <1>2, <1>6, <1>7, <1>8
  <2> QED
    BY <1>4, <1>5, <1>8, <2>1
<1>9. CASE signal.type # "Done"
  BY <1>5, <1>6, <1>9
<1> QED
  BY <1>8, <1>9

------------------------------------------------------------------------------
(* What a packet tells its signals tell.                                    *)
LEMMA PacketUnpacked ==
    ASSUME NEW t \in Token, NEW packet \in Reply, packet.tok = t, NEW p \in Int, NEW q \in Int,
           Moves(t, packet, p, q)
    PROVE  SignalsOf(packet) \in Seq(Signal) /\ Chain(t, SignalsOf(packet), p, q)
<1>1. /\ packet.type \in {"ProcessStarted", "ReadyReadStandardOutput", "ProcessDone"}
      /\ packet.data \in Output /\ packet.error \in ProcessError
  BY DEF Reply
<1>2. /\ StartedSignal \in Signal /\ ReadyReadSignal(packet.data) \in Signal
      /\ DoneSignal(packet.error) \in Signal
  BY <1>1, SignalTypes
<1>3. PacketTells(t, packet, p, q)
  BY <1>1 DEF Moves
<1>4. ASSUME NEW e \in Signal, NEW a \in Int, NEW b \in Int, Tells(e, a, b)
      PROVE  Append(<<>>, e) = <<e>> /\ Chain(t, <<e>>, a, b)
  <2>1. Moves(t, e, a, b)
    BY <1>4 DEF Moves, Signal
  <2>2. Chain(t, <<>>, a, a)
    BY ChainEmpty
  <2>3. <<>> \in Seq(Signal) /\ Append(<<>>, e) = <<e>>
    OBVIOUS
  <2>4. Chain(t, Append(<<>>, e), a, b)
    BY <2>1, <2>2, <2>3, ChainAppend, Zenon
  <2> QED
    BY <2>3, <2>4
<1>5. CASE packet.type = "ProcessStarted"
  <2>1. SignalsOf(packet) = <<StartedSignal>>
    BY <1>5 DEF SignalsOf
  <2>2. Tells(StartedSignal, p, q)
    BY <1>3, <1>5 DEF PacketTells, Tells, StartedSignal
  <2> QED
    BY <1>2, <1>4, <2>1, <2>2
<1>6. CASE packet.type = "ReadyReadStandardOutput"
  <2>1. p >= 1 /\ Pieces(packet.data, p, q)
    BY <1>3, <1>6 DEF PacketTells
  <2>2. packet.data # <<>>
    BY <2>1 DEF Pieces
  <2>3. SignalsOf(packet) = <<ReadyReadSignal(packet.data)>>
    BY <1>6, <2>2 DEF SignalsOf
  <2>4. Tells(ReadyReadSignal(packet.data), p, q)
    BY <2>1 DEF Tells, ReadyReadSignal
  <2> QED
    BY <1>2, <1>4, <2>3, <2>4
<1>7. CASE packet.type = "ProcessDone"
  <2>1. PICK r \in Int : /\ LastTells(packet.data, p, r) /\ r >= 0 /\ q = -1 - r
                         /\ packet.error = "FailedToStart" <=> r = 0
    BY <1>3, <1>7 DEF PacketTells
  <2>2. Tells(DoneSignal(packet.error), r, q)
    BY <2>1 DEF Tells, DoneSignal
  <2>3. CASE packet.data = <<>>
    <3>1. SignalsOf(packet) = <<DoneSignal(packet.error)>>
      BY <1>7, <2>3 DEF SignalsOf
    <3>2. r = p
      BY <2>1, <2>3 DEF LastTells
    <3> QED
      BY <1>2, <1>4, <2>2, <3>1, <3>2
  <2>4. CASE packet.data # <<>>
    <3> DEFINE first == <<ReadyReadSignal(packet.data)>>
    <3>1. SignalsOf(packet) = Append(first, DoneSignal(packet.error))
      BY <1>7, <2>4 DEF SignalsOf
    <3>2. p >= 1 /\ Pieces(packet.data, p, r)
      BY <2>1, <2>4 DEF LastTells
    <3>3. Tells(ReadyReadSignal(packet.data), p, r)
      BY <3>2 DEF Tells, ReadyReadSignal
    <3>4. Chain(t, first, p, r) /\ first \in Seq(Signal)
      BY <1>2, <1>4, <3>3
    <3>5. Moves(t, DoneSignal(packet.error), r, q)
      BY <2>2 DEF Moves, DoneSignal
    <3> HIDE DEF first
    <3>6. Chain(t, Append(first, DoneSignal(packet.error)), p, q)
      BY <1>2, <3>4, <3>5, ChainAppend, Zenon
    <3>7. Append(first, DoneSignal(packet.error)) \in Seq(Signal)
      BY <1>2, <3>4
    <3> QED
      BY <3>1, <3>6, <3>7
  <2> QED
    BY <2>3, <2>4
<1> QED
  BY <1>1, <1>5, <1>6, <1>7

(* Nothing is said of t where no packet is of t.                            *)
LEMMA OthersPacket ==
    ASSUME NEW t \in Token, NEW packet \in Reply, packet.tok # t, NEW p \in Int, NEW q \in Int
    PROVE  Moves(t, packet, p, q) <=> q = p
  BY DEF Moves, PacketTells, Reply

------------------------------------------------------------------------------
(* The first n pieces.                                                      *)
UpTo(n) == [i \in 1 .. n |-> i]

(* What the QtcProcess of t has been told: all up to p.                     *)
Told(t, p) ==
    /\ p = 0 => m_state[t] = "Starting" /\ OutputOf(t) = <<>>
    /\ p >= 1 => m_state[t] = "Running" /\ OutputOf(t) = UpTo(p - 1)
    /\ p >= 0 => ResultOf(t) = "none"
    /\ p < 0 => m_state[t] = "NotRunning"

(* The contract as it sees a token.                                         *)
StateOf(t) == IF t \in detached THEN "Closed" ELSE m_state[t]

SameView(t) == StateOf(t)' = StateOf(t) /\ observed'[t] = observed[t]

(* A step that changes none of what the contract sees of t.                 *)
LEMMA ViewSame ==
    ASSUME NEW t \in Token, SameView(t)
    PROVE  StateOf(t)' = StateOf(t) /\ ResultOf(t)' = ResultOf(t) /\ OutputOf(t)' = OutputOf(t)
  BY DEF SameView, ResultOf, OutputOf

(* One block of pieces goes on where the other ends.                        *)
LEMMA PiecesJoin ==
    ASSUME NEW p \in Int, NEW q \in Int, p >= 1, NEW data \in Seq(Nat), Pieces(data, p, q)
    PROVE  UpTo(p - 1) \o data = UpTo(q - 1)
<1> DEFINE a == UpTo(p - 1)
<1>1. /\ p < q /\ Len(data) = q - p /\ DOMAIN data = 1 .. q - p
      /\ \A i \in 1 .. q - p : data[i] = p - 1 + i
  BY DEF Pieces
<1>2. a \in Seq(Nat) /\ Len(a) = p - 1 /\ \A i \in 1 .. p - 1 : a[i] = i
  <2>1. p - 1 \in Nat
    OBVIOUS
  <2> QED
    BY <2>1 DEF UpTo
<1>3. UpTo(q - 1) \in Seq(Nat) /\ Len(UpTo(q - 1)) = q - 1 /\ \A i \in 1 .. q - 1 : UpTo(q - 1)[i] = i
  <2>1. q - 1 \in Nat
    BY <1>1
  <2> QED
    BY <2>1 DEF UpTo
<1> HIDE DEF a
<1>4. /\ a \o data \in Seq(Nat) /\ Len(a \o data) = q - 1
      /\ \A i \in 1 .. q - 1 : (a \o data)[i] = IF i <= p - 1 THEN a[i] ELSE data[i - (p - 1)]
  <2>1. /\ a \o data \in Seq(Nat) /\ Len(a \o data) = Len(a) + Len(data)
        /\ \A i \in 1 .. Len(a) + Len(data) :
              (a \o data)[i] = IF i <= Len(a) THEN a[i] ELSE data[i - Len(a)]
    BY <1>2, ConcatProperties
  <2>2. Len(a) + Len(data) = q - 1
    BY <1>1, <1>2
  <2> QED
    BY <1>2, <2>1, <2>2
<1>5. \A i \in 1 .. q - 1 : (a \o data)[i] = i
  <2> TAKE i \in 1 .. q - 1
  <2>1. CASE i <= p - 1
    <3>1. i \in 1 .. p - 1
      BY <2>1
    <3> QED
      BY <1>2, <1>4, <2>1, <3>1
  <2>2. CASE ~(i <= p - 1)
    <3>1. i - (p - 1) \in 1 .. q - p /\ p - 1 + (i - (p - 1)) = i
      BY <1>1, <2>2
    <3> QED
      BY <1>1, <1>4, <2>2, <3>1
  <2> QED
    BY <2>1, <2>2
<1>6. a \o data = UpTo(q - 1)
  BY <1>3, <1>4, <1>5, SeqEqual
<1> QED
  BY <1>6 DEF a

(* A signal that follows what has been told is what comes next.             *)
LEMMA ToldNext ==
    ASSUME NEW t \in Token, NEW signal \in Signal, observed \in [Token -> Seq(Signal)],
           m_state \in [Token -> ProcessState],
           t \notin detached, Emit(t, signal), NEW p \in Int, NEW q \in Int,
           Told(t, p), Tells(signal, p, q)
    PROVE  Told(t, q)'
<1>1. /\ observed'[t] = Append(observed[t], signal)
      /\ m_state'[t] = CASE signal.type = "Started" -> "Running"
                         [] signal.type = "Done" -> "NotRunning"
                         [] OTHER -> m_state[t]
  BY DEF Emit
<1>2. p >= 0
  BY DEF Tells
<1>3. /\ OutputOf(t) \in Seq(Nat) /\ DataOf(signal) \in Seq(Nat)
      /\ OutputOf(t)' = OutputOf(t) \o DataOf(signal)
  BY <1>1, OutputGrows
<1>4. ResultOf(t)' = IF signal.type = "Done" THEN signal.error ELSE "none"
  <2>1. ResultOf(t) = "none"
    BY <1>2 DEF Told
  <2> QED
    BY <1>1, <2>1, ResultGrows
<1>5. CASE signal.type = "Started"
  <2>1. p = 0 /\ q = 1
    BY <1>5 DEF Tells
  <2>2. OutputOf(t)' = <<>>
    BY <1>3, <1>5, <2>1 DEF Told, DataOf
  <2>3. <<>> = UpTo(1 - 1)
    BY DEF UpTo
  <2> QED
    BY <1>1, <1>4, <1>5, <2>1, <2>2, <2>3 DEF Told
<1>6. CASE signal.type = "ReadyRead"
  <2>1. p >= 1 /\ Pieces(signal.data, p, q) /\ signal.data = DataOf(signal)
    BY <1>6 DEF Tells, DataOf
  <2>2. OutputOf(t)' = UpTo(q - 1)
    <3>1. OutputOf(t) = UpTo(p - 1)
      BY <2>1 DEF Told
    <3>2. UpTo(p - 1) \o DataOf(signal) = UpTo(q - 1)
      BY <1>3, <2>1, PiecesJoin, Zenon
    <3> QED
      BY <1>3, <3>1, <3>2
  <2>3. m_state'[t] = "Running"
    BY <1>1, <1>6, <2>1 DEF Told
  <2>4. q >= 1 /\ q # 0
    BY <2>1 DEF Pieces
  <2> QED
    BY <1>4, <1>6, <2>2, <2>3, <2>4 DEF Told
<1>7. CASE signal.type = "Done"
  <2>1. q < 0
    BY <1>7 DEF Tells
  <2> QED
    BY <1>1, <1>7, <2>1 DEF Told
<1>8. signal.type \in {"Started", "ReadyRead", "Done"}
  BY DEF Signal
<1> QED
  BY <1>5, <1>6, <1>7, <1>8

(* The variables of the contract.                                           *)
States == [t \in Token |-> StateOf(t)]
Results == [t \in Token |-> ResultOf(t)]
Outputs == [t \in Token |-> OutputOf(t)]

(* The actions of the contract, in terms of States, Results and Outputs.    *)
LEMMA ContractActions ==
    ASSUME NEW t \in Token
    PROVE  /\ Contract!Start(t) <=>
                /\ States[t] = "NotRunning" /\ Results[t] = "none"
                /\ States' = [States EXCEPT ![t] = "Starting"]
                /\ UNCHANGED <<Results, produced, Outputs>>
           /\ Contract!Started(t) <=>
                /\ States[t] = "Starting" /\ States' = [States EXCEPT ![t] = "Running"]
                /\ UNCHANGED <<Results, produced, Outputs>>
           /\ Contract!ReadyRead(t) <=>
                /\ States[t] = "Running"
                /\ \E n \in Len(Outputs[t]) + 1 .. produced[t] :
                        Outputs' = [Outputs EXCEPT ![t] = UpTo(n)]
                /\ UNCHANGED <<States, Results, produced>>
           /\ Contract!Done(t) <=>
                /\ \/ States[t] = "Starting" /\ Results' = [Results EXCEPT ![t] = "FailedToStart"]
                   \/ /\ States[t] = "Running"
                      /\ \E error \in {"Crashed", "UnknownError"} :
                            Results' = [Results EXCEPT ![t] = error]
                /\ Outputs[t] = UpTo(produced[t])
                /\ States' = [States EXCEPT ![t] = "NotRunning"]
                /\ UNCHANGED <<produced, Outputs>>
           /\ Contract!Close(t) <=>
                States' = [States EXCEPT ![t] = "Closed"] /\ UNCHANGED <<Results, produced, Outputs>>
           /\ Contract!ChildWrites(t) <=>
                /\ produced[t] < MaxOutput /\ produced' = [produced EXCEPT ![t] = @ + 1]
                /\ UNCHANGED <<States, Results, Outputs>>
           /\ Contract!Start(t) \/ Contract!Started(t) \/ Contract!ReadyRead(t) \/ Contract!Done(t)
                \/ Contract!Close(t) \/ Contract!ChildWrites(t) => Contract!Next
<1> USE DEF States, Results, Outputs, StateOf
<1>1. /\ Contract!Start(t) <=>
                /\ States[t] = "NotRunning" /\ Results[t] = "none"
                /\ States' = [States EXCEPT ![t] = "Starting"]
                /\ UNCHANGED <<Results, produced, Outputs>>
      /\ Contract!Started(t) <=>
                /\ States[t] = "Starting" /\ States' = [States EXCEPT ![t] = "Running"]
                /\ UNCHANGED <<Results, produced, Outputs>>
  BY Zenon DEF Contract!Start, Contract!Started
<1>2. Contract!ReadyRead(t) <=>
                /\ States[t] = "Running"
                /\ \E n \in Len(Outputs[t]) + 1 .. produced[t] :
                        Outputs' = [Outputs EXCEPT ![t] = UpTo(n)]
                /\ UNCHANGED <<States, Results, produced>>
  BY Zenon DEF Contract!ReadyRead, Contract!FirstOf, UpTo
<1>3. Contract!Done(t) <=>
                /\ \/ States[t] = "Starting" /\ Results' = [Results EXCEPT ![t] = "FailedToStart"]
                   \/ /\ States[t] = "Running"
                      /\ \E error \in {"Crashed", "UnknownError"} :
                            Results' = [Results EXCEPT ![t] = error]
                /\ Outputs[t] = UpTo(produced[t])
                /\ States' = [States EXCEPT ![t] = "NotRunning"]
                /\ UNCHANGED <<produced, Outputs>>
  BY Zenon DEF Contract!Done, Contract!FirstOf, UpTo
<1>4. /\ Contract!Close(t) <=>
                States' = [States EXCEPT ![t] = "Closed"] /\ UNCHANGED <<Results, produced, Outputs>>
      /\ Contract!ChildWrites(t) <=>
                /\ produced[t] < MaxOutput /\ produced' = [produced EXCEPT ![t] = @ + 1]
                /\ UNCHANGED <<States, Results, Outputs>>
  BY Zenon DEF Contract!Close, Contract!ChildWrites
<1>5. Contract!Start(t) \/ Contract!Started(t) \/ Contract!ReadyRead(t) \/ Contract!Done(t)
                \/ Contract!Close(t) \/ Contract!ChildWrites(t) => Contract!Next
  <2> HIDE DEF States, Results, Outputs, StateOf
  <2> QED
    BY Zenon DEF Contract!Next
<1> QED
  BY <1>1, <1>2, <1>3, <1>4, <1>5, Zenon

(* A step that shows one token only, or none.                               *)
LEMMA ViewMoves ==
    ASSUME NEW t \in Token, \A u \in Token \ {t} : SameView(u)
    PROVE  /\ States' = [States EXCEPT ![t] = StateOf(t)']
           /\ Results' = [Results EXCEPT ![t] = ResultOf(t)']
           /\ Outputs' = [Outputs EXCEPT ![t] = OutputOf(t)']
<1>1. \A u \in Token \ {t} :
        StateOf(u)' = StateOf(u) /\ ResultOf(u)' = ResultOf(u) /\ OutputOf(u)' = OutputOf(u)
  BY ViewSame
<1>2. /\ States' = [u \in Token |-> StateOf(u)']
      /\ Results' = [u \in Token |-> ResultOf(u)']
      /\ Outputs' = [u \in Token |-> OutputOf(u)']
  BY DEF States, Results, Outputs
<1> QED
  BY <1>1, <1>2 DEF States, Results, Outputs

LEMMA ViewStays ==
    ASSUME \A u \in Token : SameView(u)
    PROVE  UNCHANGED <<States, Results, Outputs>>
<1>1. \A u \in Token :
        StateOf(u)' = StateOf(u) /\ ResultOf(u)' = ResultOf(u) /\ OutputOf(u)' = OutputOf(u)
  BY ViewSame
<1>2. /\ States' = [u \in Token |-> StateOf(u)']
      /\ Results' = [u \in Token |-> ResultOf(u)']
      /\ Outputs' = [u \in Token |-> OutputOf(u)']
  BY DEF States, Results, Outputs
<1> QED
  BY <1>1, <1>2 DEF States, Results, Outputs

(* A step that no QtcProcess sees is a stutter of the contract.             *)
LEMMA ContractStutters ==
    ASSUME \A u \in Token : SameView(u), produced' = produced
    PROVE  UNCHANGED Contract!vars
<1>1. UNCHANGED <<States, Results, Outputs>>
  BY ViewStays
<1> QED
  BY <1>1, Zenon DEF Contract!vars, States, Results, Outputs, StateOf

(* The pieces that have been told of at the last position are pieces that   *)
(* the child has written, and at its end they are all of them.              *)
Written(t, p) ==
    /\ p >= 1 => p - 1 <= produced[t]
    /\ p < 0 => (p = -1 /\ produced[t] = 0) \/ p = -2 - produced[t]

(* So a signal keeps the contract.                                          *)
LEMMA ContractEmits ==
    ASSUME NEW t \in Token, NEW signal \in Signal, observed \in [Token -> Seq(Signal)],
           m_state \in [Token -> ProcessState], produced[t] \in Nat, produced' = produced,
           t \notin detached, detached' = detached, Emit(t, signal),
           \A u \in Token \ {t} : SameView(u),
           NEW p \in Int, NEW q \in Int, NEW r \in Int,
           Told(t, p), Tells(signal, p, q), Before(q, r), Written(t, r)
    PROVE  Contract!Next
<1>1. p >= 0 /\ ResultOf(t) = "none"
  BY DEF Tells, Told
<1>2. /\ observed'[t] = Append(observed[t], signal)
      /\ StateOf(t) = m_state[t] /\ StateOf(t)' = m_state'[t]
      /\ m_state'[t] = CASE signal.type = "Started" -> "Running"
                         [] signal.type = "Done" -> "NotRunning"
                         [] OTHER -> m_state[t]
  BY DEF Emit, StateOf
<1>3. OutputOf(t)' = OutputOf(t) \o DataOf(signal) /\ OutputOf(t) \in Seq(Nat)
  BY <1>2, OutputGrows
<1>4. ResultOf(t)' = IF signal.type = "Done" THEN signal.error ELSE "none"
  BY <1>1, <1>2, ResultGrows
<1>5. /\ States' = [States EXCEPT ![t] = StateOf(t)'] /\ States[t] = StateOf(t)
      /\ Results' = [Results EXCEPT ![t] = ResultOf(t)'] /\ Results[t] = ResultOf(t)
      /\ Outputs' = [Outputs EXCEPT ![t] = OutputOf(t)'] /\ Outputs[t] = OutputOf(t)
      /\ DOMAIN States = Token /\ DOMAIN Results = Token /\ DOMAIN Outputs = Token
      /\ [States EXCEPT ![t] = States[t]] = States /\ [Results EXCEPT ![t] = Results[t]] = Results
      /\ [Outputs EXCEPT ![t] = Outputs[t]] = Outputs
  <2>1. /\ States' = [States EXCEPT ![t] = StateOf(t)']
        /\ Results' = [Results EXCEPT ![t] = ResultOf(t)']
        /\ Outputs' = [Outputs EXCEPT ![t] = OutputOf(t)']
    BY ViewMoves
  <2> QED
    BY <2>1 DEF States, Results, Outputs
<1>6. signal.type # "ReadyRead" => OutputOf(t)' = OutputOf(t)
  BY <1>3 DEF DataOf
<1>7. CASE signal.type = "Started"
  <2>1. p = 0 /\ m_state[t] = "Starting"
    BY <1>7 DEF Tells, Told
  <2>2. Contract!Started(t)
    <3>1. States[t] = "Starting" /\ States' = [States EXCEPT ![t] = "Running"]
      BY <1>2, <1>5, <1>7, <2>1
    <3>2. UNCHANGED <<Results, produced, Outputs>>
      BY <1>1, <1>4, <1>5, <1>6, <1>7
    <3> QED
      BY <3>1, <3>2, ContractActions, Zenon
  <2> QED
    BY <2>2, ContractActions
<1>8. CASE signal.type = "ReadyRead"
  <2>1. p >= 1 /\ Pieces(signal.data, p, q) /\ signal.data = DataOf(signal)
    BY <1>8 DEF Tells, DataOf
  <2>2. OutputOf(t) = UpTo(p - 1) /\ m_state[t] = "Running"
    BY <2>1 DEF Told
  <2>3. OutputOf(t)' = UpTo(q - 1)
    <3>1. DataOf(signal) \in Seq(Nat)
      BY <1>2, OutputGrows
    <3>2. UpTo(p - 1) \o DataOf(signal) = UpTo(q - 1)
      BY <2>1, <3>1, PiecesJoin, Zenon
    <3> QED
      BY <1>3, <2>2, <3>2
  <2>4. Len(OutputOf(t)) = p - 1
    BY <2>1, <2>2 DEF UpTo
  <2>5. q - 1 \in Len(Outputs[t]) + 1 .. produced[t]
    <3>1. p < q
      BY <2>1 DEF Pieces
    <3>2. q - 1 <= produced[t]
      <4>1. CASE r >= 0
        BY <2>1, <3>1, <4>1 DEF Before, Written
      <4>2. CASE r < 0
        <5>1. q <= -1 - r
          BY <2>1, <3>1, <4>2 DEF Before
        <5>2. r # -1
          BY <2>1, <3>1, <5>1
        <5>3. r = -2 - produced[t]
          BY <4>2, <5>2 DEF Written
        <5> QED
          BY <5>1, <5>3
      <4> QED
        BY <4>1, <4>2
    <3> QED
      BY <1>5, <2>1, <2>4, <3>1, <3>2
  <2>6. Contract!ReadyRead(t)
    <3>1. \E n \in Len(Outputs[t]) + 1 .. produced[t] : Outputs' = [Outputs EXCEPT ![t] = UpTo(n)]
      BY <1>5, <2>3, <2>5
    <3>2. UNCHANGED <<States, Results, produced>> /\ States[t] = "Running"
      BY <1>1, <1>2, <1>4, <1>5, <1>8, <2>2
    <3> QED
      BY <3>1, <3>2, ContractActions, Zenon
  <2> QED
    BY <2>6, ContractActions
<1>9. CASE signal.type = "Done"
  <2>1. p >= 0 /\ q = -1 - p /\ (signal.error = "FailedToStart" <=> p = 0) /\ r = q
    BY <1>9 DEF Tells, Before
  <2>2. signal.error \in ProcessError
    BY <1>9 DEF Signal
  <2>3. Outputs[t] = UpTo(produced[t])
    <3>1. CASE p = 0
      <4>1. produced[t] = 0
        BY <2>1, <3>1 DEF Written
      <4>2. UpTo(0) = <<>>
        BY DEF UpTo
      <4> QED
        BY <1>5, <3>1, <4>1, <4>2 DEF Told
    <3>2. CASE p # 0
      <4>1. r < 0 /\ r # -1
        BY <2>1, <3>2
      <4>2. p - 1 = produced[t]
        BY <2>1, <4>1 DEF Written
      <4>3. Outputs[t] = UpTo(p - 1)
        BY <1>5, <2>1, <3>2 DEF Told
      <4> QED
        BY <4>2, <4>3
    <3> QED
      BY <3>1, <3>2
  <2>4. Contract!Done(t)
    <3>1. States' = [States EXCEPT ![t] = "NotRunning"] /\ UNCHANGED <<produced, Outputs>>
      BY <1>2, <1>5, <1>6, <1>9
    <3>2. Results' = [Results EXCEPT ![t] = signal.error]
      BY <1>4, <1>5, <1>9
    <3>3. CASE p = 0
      <4>1. States[t] = "Starting" /\ Results' = [Results EXCEPT ![t] = "FailedToStart"]
        BY <1>2, <1>5, <2>1, <3>2, <3>3 DEF Told
      <4> QED
        BY <2>3, <3>1, <4>1, ContractActions, Zenon
    <3>4. CASE p # 0
      <4>1. States[t] = "Running" /\ signal.error \in {"Crashed", "UnknownError"}
        BY <1>2, <1>5, <2>1, <2>2, <3>4 DEF Told, ProcessError
      <4> QED
        BY <2>3, <3>1, <3>2, <4>1, ContractActions, Zenon
    <3> QED
      BY <3>3, <3>4
  <2> QED
    BY <2>4, ContractActions
<1>10. signal.type \in {"Started", "ReadyRead", "Done"}
  BY DEF Signal
<1> QED
  BY <1>7, <1>8, <1>9, <1>10

(* What the calls of a thread have taken for t, and what the launcher       *)
(* thread is about to store for it.                                         *)
TakenBy(frames, t) ==
    IF frames # <<>> /\ Head(frames).tok = t THEN Head(frames).todo ELSE <<>>
Taking(t) == TakenBy(Frames(t), t)
Handling(t) == IF job.tok = t THEN job.todo ELSE <<>>

(* What the helper knows of t, when all up to p has been sent.              *)
Known(t, p) ==
    /\ t \in launching \/ Waiting("StartProcess", t) > 0 \/ process[t] = "Starting" => p = 0
    /\ process[t] \in {"none", "Starting"} => produced[t] = 0 /\ unread[t] = <<>>
    /\ process[t] = "Running" =>
        /\ p >= 1 /\ p - 1 + Len(unread[t]) = produced[t]
        /\ \A i \in 1 .. Len(unread[t]) : unread[t][i] = p - 1 + i
    /\ Written(t, p)

(* What is in the socket leads from e to what the helper knows.             *)
Ends(t, e) == \E p \in Int : Chain(t, s2c, e, p) /\ Known(t, p)

(* What has been told, and all that is under way, lead there.               *)
Follows(t) ==
    \E a, b, c, e \in Int :
        /\ Told(t, a) /\ Chain(t, Taking(t), a, b) /\ Chain(t, m_signals[t], b, c)
        /\ Chain(t, Handling(t), c, e) /\ Ends(t, e)

(* The connection holds until no QtcProcess needs it any more.              *)
Stopping == \E i \in DOMAIN c2s : c2s[i].type = "Shutdown"
Calm ==
    /\ m_socket # "lost" /\ erring = {}
    /\ ~linkUp \/ Stopping => m_socket = "stopped"
    /\ m_socket = "stopped" => used \subseteq detached
    /\ \A i \in DOMAIN m_requests : m_requests[i].type # "Shutdown"

(* What is being closed is cut off, and no token is used twice.             *)
Owned == closing \subseteq detached /\ used \subseteq m_handles \cup detached /\ detached \subseteq used

(* Nothing has been told, nor written, of a token that has not been used.   *)
Fresh(t) == t \notin used =>
    observed[t] = <<>> /\ m_state[t] = "NotRunning" /\ produced[t] = 0 /\ unread[t] = <<>>

(* No slot waits: a thread is inside of one call at most.                   *)
Shallow == \A thr \in Thread : Len(stack[thr]) <= 1

(* The invariant of the refinement.  Follows says nothing of a QtcProcess   *)
(* that has closed its process: the rest of the news is dropped on the way. *)
CInv ==
    /\ AInv /\ Calm /\ Owned /\ Shallow
    /\ \A t \in Token : Fresh(t)
    /\ \A t \in used \ detached : Follows(t)

------------------------------------------------------------------------------
(* The types of the parts.                                                  *)
LEMMA MoreParts ==
    ASSUME TypeOK
    PROVE  /\ m_state \in [Token -> ProcessState] /\ observed \in [Token -> Seq(Signal)]
           /\ launching \in SUBSET Token /\ posting \in SUBSET Thread
           /\ detached \in SUBSET Token /\ closing \in SUBSET Token
           /\ erring \in SUBSET Token /\ produced \in [Token -> 0 .. MaxOutput]
           /\ unread \in [Token -> Output] /\ killed \in [Token -> BOOLEAN]
           /\ MaxOutput \in Nat
           /\ \A t \in Token : produced[t] \in Nat /\ unread[t] \in Seq(Nat)
<1>1. /\ m_state \in [Token -> ProcessState] /\ observed \in [Token -> Seq(Signal)]
      /\ launching \in SUBSET Token /\ posting \in SUBSET Thread
      /\ detached \in SUBSET Token /\ closing \in SUBSET Token
      /\ erring \in SUBSET Token /\ produced \in [Token -> 0 .. MaxOutput]
      /\ unread \in [Token -> Output] /\ killed \in [Token -> BOOLEAN]
  BY DEF TypeOK, CallerTypeOK, LauncherTypeOK, SharedTypeOK, ServerTypeOK
<1>2. MaxOutput \in Nat
  BY BoundsAssumption
<1>3. ASSUME NEW t \in Token PROVE produced[t] \in Nat /\ unread[t] \in Seq(Nat)
  <2>1. unread[t] \in Seq(1 .. MaxOutput) /\ 1 .. MaxOutput \subseteq Nat
    BY <1>1, <1>2 DEF Output
  <2>2. unread[t] \in Seq(Nat)
    BY <2>1, SeqMonotonic
  <2> QED
    BY <1>1, <1>2, <2>2
<1> QED
  BY <1>1, <1>2, <1>3

(* A token whose process is open.                                           *)
LEMMA OpenToken ==
    ASSUME CInv, NEW t \in used \ detached
    PROVE  /\ t \in Token /\ t \in m_handles /\ t \notin closing
           /\ linkUp /\ ~Stopping /\ m_socket # "stopped" /\ Follows(t)
           /\ TypeOK /\ Sound(t) /\ Waiting("StartProcess", t) \in Nat
<1>1. TypeOK
  BY DEF CInv, AInv
<1>2. t \in Token /\ linkUp \in BOOLEAN
  BY <1>1, Parts
<1>3. t \in m_handles /\ t \notin closing
  BY DEF CInv, Owned
<1>4. linkUp /\ ~Stopping /\ m_socket # "stopped"
  BY <1>2 DEF CInv, Calm
<1>5. Follows(t) /\ Sound(t)
  BY <1>2 DEF CInv, AInv
<1> QED
  BY <1>1, <1>2, <1>3, <1>4, <1>5, Numbers

(* What is under way are sequences of signals and packets.                  *)
LEMMA SequenceTypes ==
    ASSUME TypeOK, NEW t \in Token
    PROVE  /\ Taking(t) \in Seq(Signal) /\ m_signals[t] \in Seq(Signal)
           /\ Handling(t) \in Seq(Signal) /\ s2c \in Seq(Reply)
<1>1. /\ Frames(t) \in Seq(Frame) /\ m_signals[t] \in Seq(Signal) /\ s2c \in Seq(Reply)
      /\ job \in Job \cup {NoJob} /\ t # NoToken
  BY Parts DEF Frames
<1>2. Taking(t) \in Seq(Signal)
  <2>1. CASE Frames(t) # <<>> /\ Head(Frames(t)).tok = t
    <3>1. Head(Frames(t)) \in Frame
      BY <1>1, <2>1
    <3>2. Head(Frames(t)).todo \in Seq(Signal)
      BY <3>1 DEF Frame
    <3> QED
      BY <2>1, <3>2 DEF Taking, TakenBy
  <2>2. CASE ~(Frames(t) # <<>> /\ Head(Frames(t)).tok = t)
    BY <2>2 DEF Taking, TakenBy
  <2> QED
    BY <2>1, <2>2
<1>3. Handling(t) \in Seq(Signal)
  BY <1>1 DEF Handling, Job, NoJob
<1> QED
  BY <1>1, <1>2, <1>3

(* The empty places of a token.                                             *)
LEMMA NothingUnderWay ==
    ASSUME TypeOK, NEW t \in Token, NoneSent(t), NoneHandled(t), NoneStored(t), NoneTaken(t)
    PROVE  /\ Taking(t) = <<>> /\ m_signals[t] = <<>> /\ Handling(t) = <<>>
           /\ \A p \in Int : Chain(t, s2c, p, p)
<1>1. Frames(t) \in Seq(Frame)
  BY Parts DEF Frames
<1>2. Taking(t) = <<>>
  <2>1. Frames(t) # <<>> => 1 \in DOMAIN Frames(t) /\ Head(Frames(t)) = Frames(t)[1]
    BY <1>1
  <2> QED
    BY <2>1 DEF Taking, TakenBy, NoneTaken, NoneIn
<1>3. m_signals[t] = <<>> /\ Handling(t) = <<>>
  BY DEF NoneStored, NoneHandled, Handling
<1>4. \A p \in Int : Chain(t, s2c, p, p)
  <2>1. s2c \in Seq(Reply) /\ \A i \in DOMAIN s2c : s2c[i].tok # t
    BY Parts DEF NoneSent
  <2> QED
    BY <2>1, ChainOfOthers
<1> QED
  BY <1>2, <1>3, <1>4

LEMMA FollowsFrom ==
    ASSUME NEW t \in Token, Taking(t)' = <<>>, m_signals'[t] = <<>>, Handling(t)' = <<>>,
           NEW p \in Int, Chain(t, s2c', p, p), Told(t, p)', Known(t, p)'
    PROVE  Follows(t)'
<1>1. Ends(t, p)'
  BY DEF Ends
<1>2. Chain(t, <<>>, p, p)
  BY ChainEmpty
<1>3. Chain(t, Taking(t)', p, p) /\ Chain(t, m_signals'[t], p, p) /\ Chain(t, Handling(t)', p, p)
  BY <1>2
<1> QED
  BY <1>1, <1>3 DEF Follows

(* What a step leaves alone.                                                *)
LEMMA KnownStays ==
    ASSUME NEW t \in Token, process'[t] = process[t], produced'[t] = produced[t],
           unread'[t] = unread[t],
           t \in launching' \/ Waiting("StartProcess", t)' > 0 =>
                t \in launching \/ Waiting("StartProcess", t) > 0
    PROVE  \A p : Known(t, p) => Known(t, p)'
  BY DEF Known, Written

LEMMA EndsStay ==
    ASSUME NEW t \in Token, s2c' = s2c, \A p : Known(t, p) => Known(t, p)'
    PROVE  \A e \in Int : Ends(t, e) => Ends(t, e)'
  BY DEF Ends

LEMMA FollowsOn ==
    ASSUME NEW t \in Token, Follows(t), m_state'[t] = m_state[t], observed'[t] = observed[t],
           Taking(t)' = Taking(t), m_signals'[t] = m_signals[t], Handling(t)' = Handling(t),
           \A e \in Int : Ends(t, e) => Ends(t, e)'
    PROVE  Follows(t)'
<1>1. PICK a \in Int, b \in Int, c \in Int, e \in Int :
        /\ Told(t, a) /\ Chain(t, Taking(t), a, b) /\ Chain(t, m_signals[t], b, c)
        /\ Chain(t, Handling(t), c, e) /\ Ends(t, e)
  BY DEF Follows
<1>2. Told(t, a)'
  <2>1. OutputOf(t)' = OutputOf(t) /\ ResultOf(t)' = ResultOf(t)
    BY DEF OutputOf, ResultOf
  <2> QED
    BY <1>1, <2>1 DEF Told
<1>3. /\ Chain(t, Taking(t)', a, b) /\ Chain(t, m_signals'[t], b, c)
      /\ Chain(t, Handling(t)', c, e) /\ Ends(t, e)'
  BY <1>1
<1> QED
  BY <1>2, <1>3 DEF Follows

(* A change of the calls of one thread, which makes only one at a time.     *)
LEMMA OneCall ==
    ASSUME TypeOK, Shallow, NEW thr \in Thread, InCall(thr)
    PROVE  /\ Tail(stack[thr]) = <<>> /\ stack[thr] = <<Top(thr)>>
           /\ Top(thr) \in Frame /\ Top(thr).tok \in Token /\ Top(thr).todo \in Seq(Signal)
<1>1. stack[thr] \in Seq(Frame) /\ stack[thr] # <<>> /\ Len(stack[thr]) <= 1
  BY Parts DEF InCall, Shallow
<1>2. Len(stack[thr]) = 1 /\ Tail(stack[thr]) = <<>> /\ stack[thr] = <<Head(stack[thr])>>
  <2> DEFINE frames == stack[thr]
  <2>1. frames \in Seq(Frame) /\ frames # <<>> /\ Len(frames) <= 1
    BY <1>1
  <2> HIDE DEF frames
  <2>2. Len(frames) \in Nat \ {0}
    BY <2>1, EmptySeq
  <2>3. Len(frames) = 1 /\ Head(frames) = frames[1] /\ Head(frames) \in Frame
    <3>a. \A n \in Nat \ {0} : n <= 1 => n = 1
      OBVIOUS
    <3>1. Len(frames) = 1
      BY <2>1, <2>2, <3>a, Zenon
    <3>2. Head(frames) = frames[1] /\ Head(frames) \in Frame
      BY <2>1
    <3> QED
      BY <3>1, <3>2
  <2>4. Tail(frames) \in Seq(Frame) /\ Len(Tail(frames)) = 0
    BY <2>1, <2>3
  <2>5. Tail(frames) = <<>>
    BY <2>4, EmptySeq
  <2>6. <<Head(frames)>> \in Seq(Frame) /\ Len(<<Head(frames)>>) = 1
           /\ <<Head(frames)>>[1] = Head(frames)
    BY <2>3
  <2>7. frames = <<Head(frames)>>
    BY <2>1, <2>3, <2>6, SeqEqual
  <2> QED
    BY <2>3, <2>5, <2>7 DEF frames
<1> QED
  BY <1>2, TopOfCalls DEF Top

LEMMA TakingAfter ==
    ASSUME TypeOK, NEW t \in Token, NEW thr \in Thread, NEW frame,
           stack' = [stack EXCEPT ![thr] = <<frame>>]
    PROVE  /\ ThreadOf[t] # thr => Taking(t)' = Taking(t)
           /\ ThreadOf[t] = thr /\ frame.tok # t => Taking(t)' = <<>>
           /\ ThreadOf[t] = thr /\ frame.tok = t => Taking(t)' = frame.todo
<1>1. stack \in [Thread -> Seq(Frame)] /\ ThreadOf[t] \in Thread
  BY Parts
<1>2. Taking(t)' = TakenBy(stack'[ThreadOf[t]], t)
  BY DEF Taking, Frames, TakenBy
<1>3. <<frame>> # <<>> /\ Head(<<frame>>) = frame
  OBVIOUS
<1> QED
  BY <1>1, <1>2, <1>3 DEF Taking, Frames, TakenBy

LEMMA TakingBefore ==
    ASSUME CInv, NEW t \in Token, NEW thr \in Thread
    PROVE  /\ InCall(thr) /\ ThreadOf[t] = thr =>
                Taking(t) = IF Top(thr).tok = t THEN Top(thr).todo ELSE <<>>
           /\ ~InCall(thr) /\ ThreadOf[t] = thr => Taking(t) = <<>>
           /\ InCall(thr) => ThreadOf[Top(thr).tok] = thr
           /\ InCall(thr) /\ Top(thr).pc # "deliver" => Top(thr).todo = <<>>
<1>1. /\ InCall(thr) /\ ThreadOf[t] = thr =>
                Taking(t) = IF Top(thr).tok = t THEN Top(thr).todo ELSE <<>>
      /\ ~InCall(thr) /\ ThreadOf[t] = thr => Taking(t) = <<>>
  BY DEF Taking, Frames, TakenBy, InCall, Top
<1>2. TypeOK /\ AllHome(stack[thr], thr)
  BY DEF CInv, AInv, AtHome
<1>3. InCall(thr) => 1 \in DOMAIN stack[thr] /\ Top(thr) = stack[thr][1]
  <2>1. stack[thr] \in Seq(Frame)
    BY <1>2, Parts
  <2> QED
    BY <2>1 DEF InCall, Top
<1> QED
  BY <1>1, <1>2, <1>3 DEF AllHome, Home

(* A step that is about something else.                                     *)
LEMMA Elsewhere ==
    ASSUME CInv, NEW t \in used \ detached,
           m_state'[t] = m_state[t], observed'[t] = observed[t], Taking(t)' = Taking(t),
           m_signals'[t] = m_signals[t], Handling(t)' = Handling(t), s2c' = s2c,
           process'[t] = process[t], produced'[t] = produced[t], unread'[t] = unread[t],
           t \in launching' \/ Waiting("StartProcess", t)' > 0 =>
                t \in launching \/ Waiting("StartProcess", t) > 0
    PROVE  Follows(t)'
<1>1. t \in Token /\ Follows(t)
  BY OpenToken
<1>2. \A p : Known(t, p) => Known(t, p)'
  BY <1>1, KnownStays
<1>3. \A e \in Int : Ends(t, e) => Ends(t, e)'
  BY <1>1, <1>2, EndsStay
<1> QED
  BY <1>1, <1>3, FollowsOn

(* A new process has been told nothing, and nothing is under way.           *)
LEMMA RegisteredFollows ==
    ASSUME CInv, TypeOK', NEW t \in Token, RegisterHandle(t)
    PROVE  Follows(t)'
<1>1. TypeOK /\ Sound(t) /\ Fresh(t) /\ t \notin used
  BY DEF CInv, AInv, RegisterHandle
<1>2. /\ process[t] = "none" /\ Waiting("StartProcess", t) = 0
      /\ NoneSent(t) /\ NoneHandled(t) /\ NoneStored(t) /\ NoneTaken(t)
  BY <1>1 DEF Sound, Unused
<1>3. /\ Taking(t) = <<>> /\ m_signals[t] = <<>> /\ Handling(t) = <<>> /\ Chain(t, s2c, 0, 0)
  BY <1>1, <1>2, NothingUnderWay
<1>4. UNCHANGED <<stack, job, m_signals, s2c, observed, process, produced, unread, c2s, m_requests>>
  BY DEF RegisterHandle, launcherVars, linkVars, serverVars
<1>5. Taking(t)' = <<>> /\ m_signals'[t] = <<>> /\ Handling(t)' = <<>> /\ Chain(t, s2c', 0, 0)
  BY <1>3, <1>4 DEF Taking, Frames, Handling
<1>6. Told(t, 0)'
  <2>1. m_state'[t] = "Starting"
    BY <1>1, MoreParts DEF RegisterHandle
  <2>2. observed'[t] = <<>>
    BY <1>1, <1>4 DEF Fresh
  <2>3. OutputOf(t)' = <<>>
    <3>1. [i \in DOMAIN observed'[t] |->
                IF observed'[t][i].type = "ReadyRead" THEN observed'[t][i].data ELSE <<>>] = <<>>
      BY <2>2
    <3> QED
      BY <3>1, FlattenAppend DEF OutputOf
  <2>4. ResultOf(t)' = "none"
    <3>1. {i \in 1 .. Len(observed'[t]) : observed'[t][i].type = "Done"} = {}
      BY <2>2
    <3> QED
      BY <3>1 DEF ResultOf, SelectInSeq, IsDone
  <2> QED
    BY <2>1, <2>3, <2>4 DEF Told
<1>7. Known(t, 0)'
  <2>1. produced'[t] = 0 /\ unread'[t] = <<>> /\ process'[t] = "none"
    BY <1>1, <1>2, <1>4 DEF Fresh
  <2> QED
    BY <2>1 DEF Known, Written
<1> QED
  BY <1>5, <1>6, <1>7, FollowsFrom

(* A program that cannot be started is told of at once.                     *)
LEMMA NotStarted ==
    ASSUME CInv, NEW t \in used \ detached, t \in launching
    PROVE  /\ Taking(t) = <<>> /\ m_signals[t] = <<>> /\ Handling(t) = <<>>
           /\ \A p \in Int : Chain(t, s2c, p, p)
           /\ Told(t, 0) /\ process[t] = "none" /\ Waiting("StartProcess", t) = 0
           /\ produced[t] = 0 /\ unread[t] = <<>>
<1>1. t \in Token /\ linkUp /\ TypeOK /\ Sound(t) /\ Follows(t)
  BY OpenToken
<1>2. process[t] = "none" /\ Waiting("StartProcess", t) = 0
  BY <1>1 DEF Sound, Requested
<1>3. /\ Taking(t) = <<>> /\ m_signals[t] = <<>> /\ Handling(t) = <<>>
      /\ \A p \in Int : Chain(t, s2c, p, p)
  BY <1>1, <1>2, NothingUnderWay DEF Sound, NotYetStarted
<1>4. PICK a \in Int, b \in Int, c \in Int, e \in Int :
        /\ Told(t, a) /\ Chain(t, <<>>, a, b) /\ Chain(t, <<>>, b, c)
        /\ Chain(t, <<>>, c, e) /\ Ends(t, e)
  BY <1>1, <1>3 DEF Follows
<1>5. e = a
  BY <1>4, ChainEmpty
<1>6. PICK p \in Int : Chain(t, s2c, a, p) /\ Known(t, p)
  BY <1>4, <1>5 DEF Ends
<1>7. p = 0 /\ produced[t] = 0 /\ unread[t] = <<>>
  BY <1>2, <1>6 DEF Known
<1>8. Before(a, 0)
  BY <1>1, <1>6, <1>7, SequenceTypes, ChainOrders
<1>9. a = 0
  BY <1>8 DEF Before
<1> QED
  BY <1>2, <1>3, <1>4, <1>7, <1>9

LEMMA MissingFollows ==
    ASSUME CInv, TypeOK', NEW t \in used \ detached, t \in launching,
           Emit(t, DoneSignal("FailedToStart")), launching' = launching \ {t},
           UNCHANGED <<stack, job, m_signals, s2c, process, produced, unread, c2s, m_requests>>
    PROVE  Follows(t)'
<1>1. t \in Token /\ TypeOK
  BY OpenToken
<1>2. /\ Taking(t) = <<>> /\ m_signals[t] = <<>> /\ Handling(t) = <<>>
      /\ \A p \in Int : Chain(t, s2c, p, p)
      /\ Told(t, 0) /\ process[t] = "none" /\ Waiting("StartProcess", t) = 0
      /\ produced[t] = 0 /\ unread[t] = <<>>
  BY NotStarted
<1>3. Taking(t)' = <<>> /\ m_signals'[t] = <<>> /\ Handling(t)' = <<>> /\ Chain(t, s2c', -1, -1)
  BY <1>2 DEF Taking, Frames, Handling
<1>4. Told(t, -1)'
  <2>1. Tells(DoneSignal("FailedToStart"), 0, -1)
    BY DEF Tells, DoneSignal
  <2>2. DoneSignal("FailedToStart") \in Signal
    BY SignalTypes DEF ProcessError
  <2>3. observed \in [Token -> Seq(Signal)] /\ m_state \in [Token -> ProcessState]
    BY <1>1, MoreParts
  <2>4. 0 \in Int /\ -1 \in Int /\ t \notin detached
    OBVIOUS
  <2> QED
    BY <1>1, <1>2, <2>1, <2>2, <2>3, <2>4, ToldNext, Zenon
<1>5. Known(t, -1)'
  <2>1. Waiting("StartProcess", t)' = 0
    BY <1>1, <1>2, WaitingSame
  <2>2. t \notin launching' /\ process'[t] = "none" /\ produced'[t] = 0 /\ unread'[t] = <<>>
    BY <1>2
  <2> QED
    BY <2>1, <2>2 DEF Known, Written
<1> QED
  BY <1>1, <1>3, <1>4, <1>5, FollowsFrom

(* The caller threads, outside their calls.                                 *)
LEMMA CallerFollows ==
    ASSUME CInv, TypeOK', NEW t \in used \ detached, t \notin detached', NEW u \in Token,
           \/ RegisterHandle(u) \/ ProgramMissing(u) \/ Start(u)
           \/ \E type \in {"Terminate", "Kill"} : Control(u, type)
           \/ Write(u) \/ Close(u) \/ DestroyInterface(u) \/ UnregisterHandle(u)
    PROVE  Follows(t)'
<1>1. t \in Token /\ TypeOK /\ t \notin closing /\ ThreadOf[u] \in Thread
  BY OpenToken, Parts
<1>2. /\ m_state \in [Token -> ProcessState] /\ observed \in [Token -> Seq(Signal)]
      /\ m_signals \in [Token -> Seq(Signal)]
  BY <1>1, Parts, MoreParts
<1>3. UNCHANGED <<stack, job, s2c, c2s, process, produced, unread>>
  BY DEF RegisterHandle, ProgramMissing, Start, Control, Write, Close, DestroyInterface,
     UnregisterHandle, launcherVars, linkVars, serverVars
<1>4. Taking(t)' = Taking(t) /\ Handling(t)' = Handling(t)
  BY <1>3 DEF Taking, Frames, Handling
<1>5. UNCHANGED m_requests => Waiting("StartProcess", t)' = Waiting("StartProcess", t)
  BY <1>1, <1>3, WaitingSame
<1>6. ASSUME NEW type \in RequestType, SendPacket(ThreadOf[u], type, u)
      PROVE  Waiting("StartProcess", t)'
                = Waiting("StartProcess", t) + IF type = "StartProcess" /\ u = t THEN 1 ELSE 0
  BY <1>1, <1>3, <1>6, RequestsMove DEF RequestType
<1>7. CASE RegisterHandle(u)
  <2>1. u # t
    BY <1>7 DEF RegisterHandle
  <2>2. m_state'[t] = m_state[t] /\ UNCHANGED <<observed, m_signals, m_requests>>
    BY <1>1, <1>2, <1>7, <2>1 DEF RegisterHandle
  <2>3. t \in launching' => t \in launching
    BY <1>7, <2>1 DEF RegisterHandle
  <2> QED
    BY <1>3, <1>4, <1>5, <2>2, <2>3, Elsewhere
<1>8. CASE ProgramMissing(u)
  <2>1. /\ u \in launching /\ launching' = launching \ {u} /\ Emit(u, DoneSignal("FailedToStart"))
        /\ UNCHANGED <<m_signals, m_requests>>
    BY <1>8 DEF ProgramMissing, sharedVars
  <2>2. CASE u = t
    BY <1>3, <2>1, <2>2, MissingFollows
  <2>3. CASE u # t
    <3>1. m_state'[t] = m_state[t] /\ observed'[t] = observed[t]
      BY <1>1, <1>2, <2>1, <2>3 DEF Emit
    <3> QED
      BY <1>3, <1>4, <1>5, <2>1, <3>1, Elsewhere
  <2> QED
    BY <2>2, <2>3
<1>9. CASE Start(u)
  <2>1. /\ u \in launching /\ launching' = launching \ {u} /\ UNCHANGED m_signals
        /\ IF m_socketError[u] THEN Emit(u, DoneSignal("FailedToStart")) /\ UNCHANGED m_requests
           ELSE SendPacket(ThreadOf[u], "StartProcess", u) /\ UNCHANGED <<m_state, observed>>
    BY <1>9 DEF Start, NothingSent
  <2>2. CASE m_socketError[u]
    <3>1. CASE u = t
      BY <1>3, <2>1, <2>2, <3>1, MissingFollows
    <3>2. CASE u # t
      <4>1. m_state'[t] = m_state[t] /\ observed'[t] = observed[t]
        BY <1>1, <1>2, <2>1, <2>2, <3>2 DEF Emit
      <4> QED
        BY <1>3, <1>4, <1>5, <2>1, <2>2, <4>1, Elsewhere
    <3> QED
      BY <3>1, <3>2
  <2>3. CASE ~m_socketError[u]
    <3>1. Waiting("StartProcess", t)'
            = Waiting("StartProcess", t) + IF "StartProcess" = "StartProcess" /\ u = t THEN 1 ELSE 0
      BY <1>6, <2>1, <2>3 DEF RequestType
    <3>2. Waiting("StartProcess", t) \in Nat
      BY OpenToken
    <3>3. t \in launching' \/ Waiting("StartProcess", t)' > 0 =>
                t \in launching \/ Waiting("StartProcess", t) > 0
      BY <2>1, <3>1, <3>2
    <3> QED
      BY <1>3, <1>4, <2>1, <2>3, <3>3, Elsewhere
  <2> QED
    BY <2>2, <2>3
<1>10. ASSUME NEW type \in RequestType \ {"StartProcess"},
              SendPacket(ThreadOf[u], type, u) \/ NothingSent,
              UNCHANGED <<m_state, observed, m_signals, launching>>
       PROVE  Follows(t)'
  <2>1. Waiting("StartProcess", t) \in Nat
    BY OpenToken
  <2>2. Waiting("StartProcess", t)' = Waiting("StartProcess", t)
    <3>1. CASE SendPacket(ThreadOf[u], type, u)
      BY <1>6, <2>1, <3>1
    <3>2. CASE NothingSent
      BY <1>5, <3>2 DEF NothingSent
    <3> QED
      BY <1>10, <3>1, <3>2
  <2> QED
    BY <1>3, <1>4, <1>10, <2>2, Elsewhere
<1>11. ASSUME NEW type \in {"Terminate", "Kill"}, Control(u, type) PROVE Follows(t)'
  <2>1. type \in RequestType \ {"StartProcess"}
    BY DEF RequestType
  <2>2. SendPacket(ThreadOf[u], type, u) \/ NothingSent
    BY <1>11 DEF Control
  <2>3. UNCHANGED <<m_state, observed, m_signals, launching>>
    BY <1>11 DEF Control
  <2> QED
    BY <1>10, <2>1, <2>2, <2>3
<1>12. CASE Write(u)
  BY <1>10, <1>12 DEF Write, RequestType
<1>13. CASE DestroyInterface(u)
  BY <1>10, <1>13 DEF DestroyInterface, RequestType
<1>14. CASE Close(u)
  <2>1. u # t
    BY <1>14 DEF Close
  <2>2. m_state'[t] = m_state[t] /\ UNCHANGED <<observed, m_signals, m_requests, launching>>
    BY <1>1, <1>2, <1>14, <2>1 DEF Close, sharedVars
  <2> QED
    BY <1>3, <1>4, <1>5, <2>2, Elsewhere
<1>15. CASE UnregisterHandle(u)
  <2>1. u # t
    BY <1>1, <1>15 DEF UnregisterHandle
  <2>2. m_signals'[t] = m_signals[t] /\ UNCHANGED <<observed, m_state, m_requests, launching>>
    BY <1>1, <1>2, <1>15, <2>1 DEF UnregisterHandle
  <2> QED
    BY <1>3, <1>4, <1>5, <2>2, Elsewhere
<1> QED
  BY <1>7, <1>8, <1>9, <1>11, <1>12, <1>13, <1>14, <1>15

(* The launcher thread, where it does nothing with signals; and a caller    *)
(* thread that posts the call of handleRequests.                            *)
LEMMA LauncherFollows ==
    ASSUME CInv, TypeOK', NEW t \in used \ detached,
           \/ SetSocket \/ HandleRequests \/ UNCHANGED vars \/ DoStop
           \/ \E thr \in Thread : PostHandleRequests(thr)
    PROVE  Follows(t)'
<1>1. t \in Token /\ TypeOK /\ linkUp /\ t \in m_handles
  BY OpenToken
<1>2. /\ UNCHANGED <<stack, job, m_signals, m_state, observed, launching>>
      /\ UNCHANGED <<s2c, process, produced, unread>>
  BY DEF SetSocket, HandleRequests, WriteRequests, DoStop, PostHandleRequests, vars, clientVars,
     callerVars, sharedVars, launcherVars, linkVars, serverVars
<1>3. Taking(t)' = Taking(t) /\ Handling(t)' = Handling(t)
  BY <1>2 DEF Taking, Frames, Handling
<1>4. Waiting("StartProcess", t)' = Waiting("StartProcess", t)
  <2>1. CASE WriteRequests
    BY <1>1, <2>1, RequestsMove DEF RequestType
  <2>2. CASE UNCHANGED <<c2s, m_requests>>
    BY <1>1, <2>2, WaitingSame
  <2>3. WriteRequests \/ UNCHANGED <<c2s, m_requests>>
    BY <1>1 DEF SetSocket, HandleRequests, DoStop, PostHandleRequests, vars, clientVars,
     callerVars, sharedVars, launcherVars, linkVars, serverVars
  <2> QED
    BY <2>1, <2>2, <2>3
<1> QED
  BY <1>2, <1>3, <1>4, Elsewhere

(* A call of a thread that makes one at a time.                             *)
LEMMA Alone ==
    ASSUME NEW frame
    PROVE  <<frame>> \o <<>> = <<frame>>
  OBVIOUS

LEMMA NoCall ==
    ASSUME TypeOK, MaxDepth <= 1, NEW thr \in Thread, Len(stack[thr]) < MaxDepth
    PROVE  stack[thr] = <<>>
<1> DEFINE frames == stack[thr]
<1>1. frames \in Seq(Frame)
  BY Parts
<1> HIDE DEF frames
<1>2. Len(frames) \in Nat /\ (Len(frames) < 1 => Len(frames) = 0)
  BY <1>1
<1>3. Len(frames) < 1
  <2>1. Len(frames) < MaxDepth /\ MaxDepth \in Nat
    BY BoundsAssumption DEF frames
  <2> QED
    BY <1>2, <2>1
<1>4. frames = <<>>
  BY <1>1, <1>2, <1>3, EmptySeq
<1> QED
  BY <1>4 DEF frames

LEMMA OneCallMore ==
    ASSUME CInv, NEW thr \in Thread, NEW frame
    PROVE  /\ InCall(thr) /\ SetTop(thr, frame) => stack' = [stack EXCEPT ![thr] = <<frame>>]
           /\ ~InCall(thr) /\ Push(thr, frame) => stack' = [stack EXCEPT ![thr] = <<frame>>]
           /\ InCall(thr) /\ Pop(thr) => stack' = [stack EXCEPT ![thr] = <<>>]
<1>1. TypeOK /\ Shallow
  BY DEF CInv, AInv
<1>2. InCall(thr) => Tail(stack[thr]) = <<>>
  BY <1>1, OneCall
<1>3. <<frame>> \o <<>> = <<frame>>
  BY Alone
<1> QED
  BY <1>2, <1>3 DEF SetTop, Push, Pop, InCall

LEMMA CallLeft ==
    ASSUME CInv, NEW t \in Token, NEW thr \in Thread, ThreadOf[t] = thr => Taking(t) = <<>>,
           \/ stack' = [stack EXCEPT ![thr] = <<>>]
           \/ \E frame : stack' = [stack EXCEPT ![thr] = <<frame>>] /\ frame.todo = <<>>
    PROVE  Taking(t)' = Taking(t)
<1>1. TypeOK
  BY DEF CInv, AInv
<1>2. CASE stack' = [stack EXCEPT ![thr] = <<>>]
  <2>1. stack \in [Thread -> Seq(Frame)] /\ ThreadOf[t] \in Thread
    BY <1>1, Parts
  <2>2. Taking(t)' = TakenBy(stack'[ThreadOf[t]], t)
    BY DEF Taking, Frames, TakenBy
  <2> QED
    BY <1>2, <2>1, <2>2 DEF Taking, Frames, TakenBy
<1>3. ASSUME NEW frame, stack' = [stack EXCEPT ![thr] = <<frame>>], frame.todo = <<>>
      PROVE  Taking(t)' = Taking(t)
  BY <1>1, <1>3, TakingAfter
<1> QED
  BY <1>2, <1>3

(* The calls that handle no signal.                                         *)
LEMMA CallFollows ==
    ASSUME CInv, TypeOK', MaxDepth <= 1, NEW t \in used \ detached, NEW thr \in Thread,
           \/ FlushReturns(thr) \/ DoWaitForSignal(thr) \/ WaitTimeout(thr)
           \/ \E u \in Token, for \in {"Started", "ReadyRead", "Done"} :
                    WaitForSignal(u, for) /\ thr = ThreadOf[u]
    PROVE  Follows(t)'
<1>1. t \in Token /\ TypeOK /\ Shallow
  BY OpenToken DEF CInv
<1>2. Taking(t)' = Taking(t)
  <2>1. CASE FlushReturns(thr) \/ DoWaitForSignal(thr) \/ WaitTimeout(thr)
    <3>1. InCall(thr) /\ Top(thr).todo = <<>>
      BY <1>1, <2>1, TakingBefore DEF FlushReturns, DoWaitForSignal, WaitTimeout
    <3>2. ThreadOf[t] = thr => Taking(t) = <<>>
      BY <1>1, <3>1, TakingBefore
    <3>3. Pop(thr) \/ \E frame : SetTop(thr, frame) /\ frame.todo = <<>>
      <4>1. Top(thr) \in Frame
        BY <1>1, <3>1, OneCall
      <4>2. \A pc, inSlot :
                /\ [Top(thr) EXCEPT !.pc = pc].todo = <<>>
                /\ [Top(thr) EXCEPT !.pc = pc, !.inSlot = inSlot].todo = <<>>
        BY <3>1, <4>1 DEF Frame
      <4> QED
        BY <2>1, <4>2 DEF FlushReturns, DoWaitForSignal, WaitTimeout, SetPc
    <3> QED
      BY <1>1, <3>1, <3>2, <3>3, OneCallMore, CallLeft
  <2>2. ASSUME NEW u \in Token, NEW for \in {"Started", "ReadyRead", "Done"},
               WaitForSignal(u, for), thr = ThreadOf[u]
        PROVE  Taking(t)' = Taking(t)
    <3>1. Len(stack[thr]) < MaxDepth /\ \E frame : Push(thr, frame) /\ frame.todo = <<>>
      BY <2>2 DEF WaitForSignal
    <3>2. ~InCall(thr)
      BY <1>1, <3>1, NoCall DEF InCall
    <3>3. ThreadOf[t] = thr => Taking(t) = <<>>
      BY <1>1, <3>2, TakingBefore
    <3> QED
      BY <1>1, <3>1, <3>2, <3>3, OneCallMore, CallLeft
  <2> QED
    BY <2>1, <2>2
<1>3. /\ UNCHANGED <<job, m_signals, m_state, observed, launching>>
      /\ UNCHANGED <<c2s, m_requests, s2c, process, produced, unread>>
  BY DEF FlushReturns, DoWaitForSignal, WaitTimeout, WaitForSignal, sharedVars,
     launcherVars, linkVars, serverVars
<1>4. Handling(t)' = Handling(t)
  BY <1>3 DEF Handling
<1>5. Waiting("StartProcess", t)' = Waiting("StartProcess", t)
  BY <1>1, <1>3, WaitingSame
<1> QED
  BY <1>2, <1>3, <1>4, <1>5, Elsewhere

(* The signals of a token go from the store to a call.                      *)
LEMMA TakenFollows ==
    ASSUME CInv, TypeOK', NEW t \in used \ detached, NEW u \in Token, NEW for \in SignalType,
           NEW n \in 0 .. Len(m_signals[u]), TakeSignals(u, n),
           ThreadOf[t] = ThreadOf[u] => Taking(t) = <<>>,
           stack' = [stack EXCEPT ![ThreadOf[u]] = <<FlushFrame(u, for, n)>>],
           UNCHANGED <<m_state, observed, launching, job>>,
           UNCHANGED <<c2s, m_requests, s2c, process, produced, unread>>
    PROVE  Follows(t)'
<1>1. t \in Token /\ TypeOK /\ Follows(t) /\ ThreadOf[u] \in Thread
  BY OpenToken, Parts
<1>2. m_signals \in [Token -> Seq(Signal)]
  BY <1>1, Parts
<1>3. Handling(t)' = Handling(t) /\ Waiting("StartProcess", t)' = Waiting("StartProcess", t)
  BY <1>1, WaitingSame DEF Handling
<1>4. FlushFrame(u, for, n).tok = u /\ FlushFrame(u, for, n).todo = SubSeq(m_signals[u], 1, n)
  BY DEF FlushFrame
<1>5. CASE u # t
  <2>1. m_signals'[t] = m_signals[t]
    BY <1>1, <1>2, <1>5 DEF TakeSignals
  <2>2. Taking(t)' = Taking(t)
    BY <1>1, <1>4, <1>5, TakingAfter
  <2> QED
    BY <1>3, <2>1, <2>2, Elsewhere
<1>6. CASE u = t
  <2>1. Taking(t) = <<>> /\ Taking(t)' = SubSeq(m_signals[t], 1, n)
    BY <1>1, <1>4, <1>6, TakingAfter
  <2>2. m_signals'[t] = SubSeq(m_signals[t], n + 1, Len(m_signals[t]))
    BY <1>1, <1>2, <1>6 DEF TakeSignals
  <2>3. PICK a \in Int, b \in Int, c \in Int, e \in Int :
            /\ Told(t, a) /\ Chain(t, <<>>, a, b) /\ Chain(t, m_signals[t], b, c)
            /\ Chain(t, Handling(t), c, e) /\ Ends(t, e)
    BY <1>1, <2>1 DEF Follows
  <2>4. b = a
    BY <2>3, ChainEmpty
  <2>5. PICK d \in Int : /\ Chain(t, SubSeq(m_signals[t], 1, n), a, d)
                         /\ Chain(t, SubSeq(m_signals[t], n + 1, Len(m_signals[t])), d, c)
    BY <1>1, <1>2, <1>6, <2>3, <2>4, ChainCut
  <2>6. Told(t, a)'
    <3>1. OutputOf(t)' = OutputOf(t) /\ ResultOf(t)' = ResultOf(t)
      BY DEF OutputOf, ResultOf
    <3> QED
      BY <2>3, <3>1 DEF Told
  <2>7. Ends(t, e)'
    <3>1. \A p : Known(t, p) => Known(t, p)'
      BY <1>1, <1>3, KnownStays
    <3> QED
      BY <1>1, <2>3, <3>1, EndsStay
  <2>8. /\ Chain(t, Taking(t)', a, d) /\ Chain(t, m_signals'[t], d, c)
        /\ Chain(t, Handling(t)', c, e)
    BY <1>3, <2>1, <2>2, <2>3, <2>5
  <2> QED
    BY <2>6, <2>7, <2>8 DEF Follows
<1> QED
  BY <1>5, <1>6

LEMMA FlushFollows ==
    ASSUME CInv, TypeOK', NEW t \in used \ detached, NEW u \in Token, Flush(u)
    PROVE  Follows(t)'
<1>1. t \in Token /\ TypeOK /\ ThreadOf[u] \in Thread /\ "NoSignal" \in SignalType
  BY OpenToken, Parts DEF SignalType
<1>2. ~InCall(ThreadOf[u])
  BY DEF Flush, InEventLoop
<1>3. PICK n \in 0 .. Len(m_signals[u]) :
        TakeSignals(u, n) /\ Push(ThreadOf[u], FlushFrame(u, "NoSignal", n))
  BY DEF Flush
<1>4. stack' = [stack EXCEPT ![ThreadOf[u]] = <<FlushFrame(u, "NoSignal", n)>>]
  BY <1>1, <1>2, <1>3, OneCallMore
<1>5. ThreadOf[t] = ThreadOf[u] => Taking(t) = <<>>
  BY <1>1, <1>2, TakingBefore
<1>6. /\ UNCHANGED <<m_state, observed, launching, job>>
      /\ UNCHANGED <<c2s, m_requests, s2c, process, produced, unread>>
  BY DEF Flush, launcherVars, linkVars, serverVars
<1> QED
  BY <1>1, <1>3, <1>4, <1>5, <1>6, TakenFollows

LEMMA WaitTakesFollows ==
    ASSUME CInv, TypeOK', NEW t \in used \ detached, NEW thr \in Thread, WaitTakes(thr)
    PROVE  Follows(t)'
<1> DEFINE u == Top(thr).tok
           for == Top(thr).for
<1>1. t \in Token /\ TypeOK /\ Shallow
  BY OpenToken DEF CInv
<1>2. InCall(thr) /\ Top(thr).pc = "take"
  BY DEF WaitTakes
<1>3. u \in Token /\ for \in SignalType /\ ThreadOf[u] = thr /\ Top(thr).todo = <<>>
  BY <1>1, <1>2, OneCall, TakingBefore DEF Frame
<1>4. PICK n \in 0 .. Len(m_signals[u]) : TakeSignals(u, n) /\ SetTop(thr, FlushFrame(u, for, n))
  BY DEF WaitTakes
<1>5. stack' = [stack EXCEPT ![ThreadOf[u]] = <<FlushFrame(u, for, n)>>]
  BY <1>1, <1>2, <1>3, <1>4, OneCallMore
<1>6. ThreadOf[t] = ThreadOf[u] => Taking(t) = <<>>
  BY <1>1, <1>2, <1>3, TakingBefore
<1>7. /\ UNCHANGED <<m_state, observed, launching, job>>
      /\ UNCHANGED <<c2s, m_requests, s2c, process, produced, unread>>
  BY DEF WaitTakes, launcherVars, linkVars, serverVars
<1> HIDE DEF u, for
<1> QED
  BY <1>1, <1>3, <1>4, <1>5, <1>6, <1>7, TakenFollows

(* A signal is handled: it says what comes next.                            *)
LEMMA Delivered ==
    ASSUME CInv, NEW thr \in Thread, Deliver(thr), Top(thr).tok \notin detached
    PROVE  LET u == Top(thr).tok
               signal == Head(Top(thr).todo)
           IN  /\ u \in used \ detached /\ signal \in Signal /\ Emit(u, signal)
               /\ \E a, b, c, d, e \in Int :
                    /\ Told(u, a) /\ Tells(signal, a, d) /\ Chain(u, Tail(Top(thr).todo), d, b)
                    /\ Chain(u, m_signals[u], b, c)
                    /\ Chain(u, Handling(u), c, e) /\ Ends(u, e)
<1> DEFINE u == Top(thr).tok
           todo == Top(thr).todo
<1>1. TypeOK /\ Shallow /\ InCall(thr) /\ todo # <<>> /\ Emit(u, Head(todo))
  BY DEF CInv, AInv, Deliver
<1>2. u \in Token /\ todo \in Seq(Signal) /\ ThreadOf[u] = thr
  BY <1>1, OneCall, TakingBefore
<1>3. Taking(u) = todo
  BY <1>1, <1>2, TakingBefore
<1> HIDE DEF u, todo
<1>4. Head(todo) \in Signal
  BY <1>1, <1>2
<1>5. u \in used
  <2>1. SUFFICES ASSUME u \notin used PROVE FALSE
    OBVIOUS
  <2>2. NoneTaken(u)
    BY <1>2, <2>1 DEF CInv, AInv, Sound, Unused
  <2>3. Frames(u) \in Seq(Frame) /\ Frames(u) # <<>> /\ Head(Frames(u)).tok = u
            /\ Head(Frames(u)).todo = todo
    <3>1. stack[thr] \in Seq(Frame)
      BY <1>1, Parts
    <3> QED
      BY <1>1, <1>2, <3>1 DEF Frames, InCall, Top, u, todo
  <2>4. 1 \in DOMAIN Frames(u) /\ Head(Frames(u)) = Frames(u)[1]
    BY <2>3
  <2> QED
    BY <1>1, <2>2, <2>3, <2>4 DEF NoneTaken, NoneIn
<1>6. u \in used \ detached
  BY <1>5 DEF u
<1>7. PICK a \in Int, b \in Int, c \in Int, e \in Int :
        /\ Told(u, a) /\ Chain(u, todo, a, b) /\ Chain(u, m_signals[u], b, c)
        /\ Chain(u, Handling(u), c, e) /\ Ends(u, e)
  BY <1>3, <1>6, OpenToken DEF Follows
<1>8. PICK d \in Int : Moves(u, Head(todo), a, d) /\ Chain(u, Tail(todo), d, b)
  BY <1>1, <1>2, <1>7, ChainTail
<1>9. Tells(Head(todo), a, d)
  BY <1>4, <1>8 DEF Moves, Signal
<1> QED
  BY <1>1, <1>4, <1>6, <1>7, <1>8, <1>9 DEF u, todo

LEMMA DeliverFollows ==
    ASSUME CInv, TypeOK', NEW t \in used \ detached, NEW thr \in Thread, Deliver(thr)
    PROVE  Follows(t)'
<1> DEFINE u == Top(thr).tok
           todo == Top(thr).todo
           after == [Top(thr) EXCEPT !.todo = Tail(@),
                        !.matched = @ \/ Head(todo).type \in {Top(thr).for, "Done"},
                        !.inSlot = u \notin detached]
<1>1. t \in Token /\ TypeOK /\ Shallow /\ InCall(thr) /\ Emit(u, Head(todo)) /\ SetTop(thr, after)
  BY OpenToken DEF CInv, Deliver
<1>2. u \in Token /\ todo \in Seq(Signal) /\ ThreadOf[u] = thr
  BY <1>1, OneCall, TakingBefore
<1>3. after.tok = u /\ after.todo = Tail(todo)
  BY <1>1, OneCall DEF Frame
<1>4. stack' = [stack EXCEPT ![thr] = <<after>>]
  BY <1>1, OneCallMore, Zenon
<1>5. UNCHANGED <<m_signals, job, launching, c2s, m_requests, s2c, process, produced, unread>>
  BY DEF Deliver, sharedVars, launcherVars, linkVars, serverVars
<1>6. Handling(t)' = Handling(t) /\ Waiting("StartProcess", t)' = Waiting("StartProcess", t)
  BY <1>1, <1>5, WaitingSame DEF Handling
<1>7. m_state \in [Token -> ProcessState] /\ observed \in [Token -> Seq(Signal)]
  BY <1>1, MoreParts
<1>8. CASE u # t
  <2>1. Taking(t)' = Taking(t)
    <3>1. ThreadOf[t] = thr => Taking(t) = <<>>
      BY <1>1, <1>8, TakingBefore
    <3> HIDE DEF after
    <3> QED
      BY <1>1, <1>3, <1>4, <1>8, <3>1, TakingAfter
  <2>2. m_state'[t] = m_state[t] /\ observed'[t] = observed[t]
    BY <1>1, <1>2, <1>7, <1>8 DEF Emit
  <2> QED
    BY <1>5, <1>6, <2>1, <2>2, Elsewhere
<1>9. CASE u = t
  <2>1. Taking(t)' = Tail(todo)
    <3> HIDE DEF after
    <3> QED
      BY <1>1, <1>2, <1>3, <1>4, <1>9, TakingAfter
  <2> HIDE DEF after
  <2>2. u \notin detached
    BY <1>9
  <2>3. Head(todo) \in Signal
    BY <2>2, Delivered
  <2>4. PICK a \in Int, b \in Int, c \in Int, d \in Int, e \in Int :
            /\ Told(t, a) /\ Tells(Head(todo), a, d) /\ Chain(t, Tail(todo), d, b)
            /\ Chain(t, m_signals[t], b, c) /\ Chain(t, Handling(t), c, e) /\ Ends(t, e)
    BY <1>9, <2>2, Delivered
  <2> HIDE DEF u, todo
  <2>5. Told(t, d)'
    <3>1. Emit(t, Head(todo)) /\ t \notin detached
      BY <1>1, <1>9
    <3> QED
      BY <1>1, <1>7, <2>3, <2>4, <3>1, ToldNext, Zenon
  <2>6. Ends(t, e)'
    <3>1. \A p : Known(t, p) => Known(t, p)'
      BY <1>1, <1>5, <1>6, KnownStays
    <3> QED
      BY <1>1, <1>5, <2>4, <3>1, EndsStay
  <2>7. /\ Chain(t, Taking(t)', d, b) /\ Chain(t, m_signals'[t], b, c)
        /\ Chain(t, Handling(t)', c, e)
    BY <1>5, <1>6, <2>1, <2>4
  <2> QED
    BY <2>5, <2>6, <2>7 DEF Follows
<1> QED
  BY <1>8, <1>9

(* The sleeper that is woken has taken nothing.                             *)
LEMMA WokenFollows ==
    ASSUME CInv, TypeOK', NEW t \in used \ detached, FlushCaller
    PROVE  Follows(t)'
<1>1. t \in Token /\ TypeOK /\ Shallow /\ ThreadOf[t] \in Thread /\ t # NoToken
  BY OpenToken, Parts DEF CInv
<1>2. /\ UNCHANGED <<m_signals, launching, c2s, m_requests, s2c, process, produced, unread>>
      /\ UNCHANGED <<m_state, observed>> /\ job.todo = <<>> /\ job' = NoJob
  BY DEF FlushCaller, linkVars, serverVars
<1>3. Handling(t)' = Handling(t) /\ Waiting("StartProcess", t)' = Waiting("StartProcess", t)
  BY <1>1, <1>2, WaitingSame DEF Handling, NoJob
<1>4. Taking(t)' = Taking(t)
  <2> DEFINE thr == ThreadOf[t]
             woken == [Top(thr) EXCEPT !.pc = "take"]
  <2>1. stack'[thr] = IF Asleep(thr, job.tok) THEN <<woken>> \o Tail(stack[thr]) ELSE stack[thr]
    BY <1>1 DEF FlushCaller, WakeOne
  <2>2. Taking(t)' = TakenBy(stack'[thr], t)
    BY DEF Taking, Frames, TakenBy
  <2>3. CASE Asleep(thr, job.tok)
    <3>1. InCall(thr) /\ Top(thr).pc = "asleep"
      BY <2>3 DEF Asleep
    <3>2. Top(thr) \in Frame /\ Tail(stack[thr]) = <<>> /\ Top(thr).todo = <<>>
      BY <1>1, <3>1, OneCall, TakingBefore
    <3>3. woken.todo = <<>>
      BY <3>2 DEF Frame
    <3> HIDE DEF woken
    <3>4. stack'[thr] = <<woken>>
      BY <2>1, <2>3, <3>2, Alone
    <3>5. Taking(t)' = <<>>
      BY <2>2, <3>3, <3>4 DEF TakenBy
    <3>6. Taking(t) = <<>>
      BY <1>1, <3>1, <3>2, TakingBefore
    <3> QED
      BY <3>5, <3>6
  <2>4. CASE ~Asleep(thr, job.tok)
    BY <2>1, <2>2, <2>4 DEF Taking, Frames
  <2> QED
    BY <2>3, <2>4
<1> QED
  BY <1>2, <1>3, <1>4, Elsewhere

(* The launcher thread takes a packet apart.                                *)
LEMMA PacketFollows ==
    ASSUME CInv, TypeOK', NEW t \in used \ detached, HandleSocketDataAvailable
    PROVE  Follows(t)'
<1> DEFINE packet == Head(s2c)
<1>1. /\ t \in Token /\ TypeOK /\ Follows(t) /\ t \in m_handles /\ NoToken \notin Token
      /\ s2c \in Seq(Reply)
  BY OpenToken, Parts
<1>2. /\ job = NoJob /\ s2c # <<>> /\ s2c' = Tail(s2c)
      /\ job' = IF packet.tok \in m_handles
                THEN [tok |-> packet.tok, todo |-> SignalsOf(packet), locked |-> FALSE]
                ELSE NoJob
      /\ UNCHANGED <<stack, m_signals, m_state, observed, launching>>
      /\ UNCHANGED <<c2s, m_requests, process, produced, unread>>
  BY DEF HandleSocketDataAvailable, LauncherIdle, callerVars, sharedVars, serverVars
<1>3. packet \in Reply
  BY <1>1, <1>2
<1> HIDE DEF packet
<1>4. Handling(t) = <<>>
  BY <1>1, <1>2 DEF Handling, NoJob
<1>5. PICK a \in Int, b \in Int, c \in Int, e \in Int :
        /\ Told(t, a) /\ Chain(t, Taking(t), a, b) /\ Chain(t, m_signals[t], b, c)
        /\ Chain(t, <<>>, c, e) /\ Ends(t, e)
  BY <1>1, <1>4 DEF Follows
<1>6. c = e
  BY <1>5, ChainEmpty
<1>7. PICK p \in Int : Chain(t, s2c, e, p) /\ Known(t, p)
  BY <1>5 DEF Ends
<1>8. PICK r \in Int : Moves(t, packet, e, r) /\ Chain(t, Tail(s2c), r, p)
  BY <1>1, <1>2, <1>5, <1>7, ChainTail DEF packet
<1>9. Ends(t, r)'
  <2>1. Waiting("StartProcess", t)' = Waiting("StartProcess", t)
    BY <1>1, <1>2, WaitingSame
  <2>2. Known(t, p)'
    BY <1>1, <1>2, <1>7, <2>1, KnownStays
  <2> QED
    BY <1>2, <1>8, <2>2 DEF Ends
<1>10. Told(t, a)' /\ Taking(t)' = Taking(t)
  <2>1. OutputOf(t)' = OutputOf(t) /\ ResultOf(t)' = ResultOf(t)
    BY <1>2 DEF OutputOf, ResultOf
  <2> QED
    BY <1>2, <1>5, <2>1 DEF Told, Taking, Frames
<1>11. Chain(t, Handling(t)', c, r)
  <2>1. CASE packet.tok = t
    <3>1. Handling(t)' = SignalsOf(packet)
      BY <1>1, <1>2, <2>1 DEF Handling
    <3> QED
      BY <1>1, <1>3, <1>5, <1>6, <1>8, <2>1, <3>1, PacketUnpacked
  <2>2. CASE packet.tok # t
    <3>1. Handling(t)' = <<>>
      BY <1>1, <1>2, <2>2 DEF Handling, NoJob
    <3>2. r = e
      BY <1>1, <1>3, <1>5, <1>8, <2>2, OthersPacket
    <3> QED
      BY <1>5, <3>1, <3>2
  <2> QED
    BY <2>1, <2>2
<1>12. Chain(t, Taking(t)', a, b) /\ Chain(t, m_signals'[t], b, c)
  BY <1>2, <1>5, <1>10
<1> QED
  BY <1>9, <1>10, <1>11, <1>12 DEF Follows

LEMMA LockFollows ==
    ASSUME CInv, TypeOK', NEW t \in used \ detached, LockHandle
    PROVE  Follows(t)'
<1>1. t \in Token /\ TypeOK /\ t \in m_handles /\ t # NoToken /\ job \in Job \cup {NoJob}
  BY OpenToken, Parts
<1>2. /\ UNCHANGED <<stack, m_signals, m_state, observed, launching>>
      /\ UNCHANGED <<c2s, m_requests, s2c, process, produced, unread>>
      /\ job # NoJob
      /\ job' = IF job.tok \in m_handles /\ job.todo # <<>>
                THEN [job EXCEPT !.locked = TRUE] ELSE NoJob
  BY DEF LockHandle, callerVars, sharedVars, linkVars, serverVars
<1>3. Handling(t)' = Handling(t)
  BY <1>1, <1>2 DEF Handling, Job, NoJob
<1>4. Waiting("StartProcess", t)' = Waiting("StartProcess", t)
  BY <1>1, <1>2, WaitingSame
<1>5. Taking(t)' = Taking(t)
  BY <1>2 DEF Taking, Frames
<1> QED
  BY <1>2, <1>3, <1>4, <1>5, Elsewhere

(* It stores a signal for the thread of the QtcProcess.                     *)
LEMMA AppendFollows ==
    ASSUME CInv, TypeOK', NEW t \in used \ detached, AppendSignal
    PROVE  Follows(t)'
<1>1. /\ t \in Token /\ TypeOK /\ Follows(t) /\ m_signals \in [Token -> Seq(Signal)]
      /\ job \in Job \cup {NoJob}
  BY OpenToken, Parts
<1>2. /\ UNCHANGED <<stack, s2c, m_state, observed, launching>>
      /\ UNCHANGED <<c2s, m_requests, process, produced, unread>>
      /\ job.locked /\ job.todo # <<>>
      /\ m_signals' = [m_signals EXCEPT ![job.tok] = Append(@, Head(job.todo))]
      /\ job' = [job EXCEPT !.todo = Tail(@)]
  BY DEF AppendSignal, callerVars, linkVars, serverVars
<1>3. job \in Job /\ job.tok \in Token /\ job.todo \in Seq(Signal)
  BY <1>1, <1>2 DEF Job, NoJob
<1>4. job'.tok = job.tok /\ job'.todo = Tail(job.todo)
  BY <1>2, <1>3 DEF Job
<1>5. Waiting("StartProcess", t)' = Waiting("StartProcess", t)
  BY <1>1, <1>2, WaitingSame
<1>6. Taking(t)' = Taking(t)
  BY <1>2 DEF Taking, Frames
<1>7. CASE job.tok # t
  <2>1. m_signals'[t] = m_signals[t] /\ Handling(t)' = Handling(t)
    BY <1>1, <1>2, <1>4, <1>7 DEF Handling
  <2> QED
    BY <1>2, <1>5, <1>6, <2>1, Elsewhere
<1>8. CASE job.tok = t
  <2> DEFINE todo == job.todo
  <2>1. Handling(t) = todo /\ Handling(t)' = Tail(todo)
    BY <1>4, <1>8 DEF Handling
  <2>2. m_signals'[t] = Append(m_signals[t], Head(todo))
    BY <1>1, <1>2, <1>8
  <2>3. todo \in Seq(Signal) /\ todo # <<>> /\ Head(todo) \in Signal
    BY <1>2, <1>3
  <2> HIDE DEF todo
  <2>4. PICK a \in Int, b \in Int, c \in Int, e \in Int :
            /\ Told(t, a) /\ Chain(t, Taking(t), a, b) /\ Chain(t, m_signals[t], b, c)
            /\ Chain(t, todo, c, e) /\ Ends(t, e)
    BY <1>1, <2>1 DEF Follows
  <2>5. PICK r \in Int : Moves(t, Head(todo), c, r) /\ Chain(t, Tail(todo), r, e)
    BY <2>3, <2>4, ChainTail
  <2>6. Chain(t, m_signals'[t], b, r)
    BY <1>1, <2>2, <2>3, <2>4, <2>5, ChainAppend
  <2>7. Told(t, a)'
    <3>1. OutputOf(t)' = OutputOf(t) /\ ResultOf(t)' = ResultOf(t)
      BY <1>2 DEF OutputOf, ResultOf
    <3> QED
      BY <1>2, <2>4, <3>1 DEF Told
  <2>8. Ends(t, e)'
    <3>1. \A p : Known(t, p) => Known(t, p)'
      BY <1>1, <1>2, <1>5, KnownStays
    <3> QED
      BY <1>1, <1>2, <2>4, <3>1, EndsStay
  <2>9. Chain(t, Taking(t)', a, b) /\ Chain(t, Handling(t)', r, e)
    BY <1>6, <2>1, <2>4, <2>5
  <2> QED
    BY <2>6, <2>7, <2>8, <2>9 DEF Follows
<1> QED
  BY <1>7, <1>8

(* While the connection holds no handle is told of its loss.                *)
LEMMA NotLost ==
    ASSUME CInv, ~Faults, used \ detached # {}
    PROVE  /\ ~SocketErrorOccurred /\ ~HandleSocketDisconnected
           /\ \A u \in Token : ~HandleSocketError(u)
           /\ ~HandleShutdownPacket /\ ~HandleSocketClosed /\ ~HandleServerSocketError
           /\ ~LauncherNotConnected
<1>1. linkUp /\ ~Stopping /\ TypeOK
  BY OpenToken
<1>2. erring = {}
  BY DEF CInv, Calm
<1>3. ~HandleShutdownPacket
  <2>1. SUFFICES ASSUME c2s # <<>>, Head(c2s).type = "Shutdown" PROVE FALSE
    BY DEF HandleShutdownPacket
  <2>2. c2s \in Seq(Request)
    BY <1>1, Parts
  <2>3. 1 \in DOMAIN c2s /\ c2s[1].type = "Shutdown"
    BY <2>1, <2>2
  <2> QED
    BY <1>1, <2>3 DEF Stopping
<1> QED
  BY <1>1, <1>2, <1>3 DEF SocketErrorOccurred, HandleSocketDisconnected, HandleSocketError,
     HandleSocketClosed, HandleServerSocketError, LauncherNotConnected

------------------------------------------------------------------------------
(* The helper.                                                              *)
LEMMA HelperFollows ==
    ASSUME CInv, NEW t \in used \ detached, UNCHANGED clientVars, s2c' = s2c,
           \A p \in Int : Known(t, p) => Known(t, p)'
    PROVE  Follows(t)'
<1>1. t \in Token /\ Follows(t)
  BY OpenToken
<1>2. UNCHANGED <<stack, job, m_signals, m_state, observed>>
  BY DEF clientVars, callerVars, sharedVars, launcherVars
<1>3. \A e \in Int : Ends(t, e) => Ends(t, e)'
  BY DEF Ends
<1>4. Taking(t)' = Taking(t) /\ Handling(t)' = Handling(t)
  BY <1>2 DEF Taking, Frames, Handling
<1> QED
  BY <1>1, <1>2, <1>3, <1>4, FollowsOn

LEMMA HelperSends ==
    ASSUME CInv, NEW t \in used \ detached, UNCHANGED clientVars,
           NEW packet \in Reply, SendReply(packet),
           \A p \in Int : Known(t, p) => \E q \in Int : Moves(t, packet, p, q) /\ Known(t, q)'
    PROVE  Follows(t)'
<1>1. t \in Token /\ Follows(t) /\ linkUp /\ s2c \in Seq(Reply)
  BY OpenToken, Parts
<1>2. UNCHANGED <<stack, job, m_signals, m_state, observed>>
  BY DEF clientVars, callerVars, sharedVars, launcherVars
<1>3. s2c' = Append(s2c, packet)
  BY <1>1 DEF SendReply
<1>4. ASSUME NEW e \in Int, Ends(t, e) PROVE Ends(t, e)'
  <2>1. PICK p \in Int : Chain(t, s2c, e, p) /\ Known(t, p)
    BY <1>4 DEF Ends
  <2>2. PICK q \in Int : Moves(t, packet, p, q) /\ Known(t, q)'
    BY <2>1
  <2>3. Chain(t, s2c', e, q)
    BY <1>1, <1>3, <2>1, <2>2, ChainAppend
  <2> QED
    BY <2>2, <2>3 DEF Ends
<1>5. Taking(t)' = Taking(t) /\ Handling(t)' = Handling(t)
  BY <1>2 DEF Taking, Frames, Handling
<1> QED
  BY <1>1, <1>2, <1>4, <1>5, FollowsOn

LEMMA RequestFollows ==
    ASSUME CInv, TypeOK', NEW t \in used \ detached, NEW u \in Token,
           \/ HandleStartPacket(u) \/ HandleWritePacket(u) \/ HandleTerminatePacket(u)
           \/ HandleKillPacket(u) \/ HandleClosePacket(u)
    PROVE  Follows(t)'
<1>1. /\ t \in Token /\ TypeOK /\ Sound(t) /\ Waiting("StartProcess", t) \in Nat
      /\ process \in [Token -> {"none", "Starting", "Running", "reaping", "gone"}]
  BY OpenToken, Parts
<1>2. UNCHANGED clientVars /\ s2c' = s2c /\ UNCHANGED <<produced, unread, launching, m_requests>>
  BY DEF HandleStartPacket, HandleWritePacket, HandleTerminatePacket, HandleKillPacket,
     HandleClosePacket, NextRequest, serverVars, clientVars, callerVars, sharedVars
<1>3. ASSUME NEW p \in Int, Known(t, p) PROVE Known(t, p)'
  <2>1. CASE HandleStartPacket(u)
    <3>1. /\ Waiting("StartProcess", t)
                = Waiting("StartProcess", t)' + IF "StartProcess" = "StartProcess" /\ u = t THEN 1 ELSE 0
          /\ Waiting("StartProcess", t)' \in Nat
      <4>1. NextRequest("StartProcess", u) /\ "StartProcess" \in RequestType \ {"Shutdown"}
        BY <2>1 DEF HandleStartPacket, RequestType
      <4> QED
        BY <1>1, <1>2, <4>1, RequestTaken
    <3>2. CASE u = t
      <4>1. Waiting("StartProcess", t) = 1
        BY <1>1, <3>1, <3>2 DEF Sound, Requested
      <4>2. process[t] = "none" /\ p = 0
        BY <1>1, <1>3, <4>1 DEF Sound, Requested, Known
      <4>3. process'[t] = "Starting"
        BY <1>1, <2>1, <3>2, <4>2 DEF HandleStartPacket, InProcesses
      <4> QED
        BY <1>2, <1>3, <4>2, <4>3 DEF Known, Written
    <3>3. CASE u # t
      <4>1. process'[t] = process[t]
        BY <1>1, <2>1, <3>3 DEF HandleStartPacket
      <4>2. Waiting("StartProcess", t)' = Waiting("StartProcess", t)
        BY <1>1, <3>1, <3>3
      <4> QED
        BY <1>1, <1>2, <1>3, <4>1, <4>2, KnownStays
    <3> QED
      BY <3>2, <3>3
  <2>2. CASE HandleWritePacket(u) \/ HandleTerminatePacket(u) \/ HandleKillPacket(u)
             \/ HandleClosePacket(u)
    <3>1. PICK type \in RequestType \ {"Shutdown", "StartProcess"} : NextRequest(type, u)
      BY <2>2 DEF HandleWritePacket, HandleTerminatePacket, HandleKillPacket, HandleClosePacket,
         RequestType
    <3>2. Waiting("StartProcess", t)' = Waiting("StartProcess", t)
      BY <1>1, <1>2, <3>1, RequestTaken
    <3>3. process'[t] = process[t] \/ process'[t] = "reaping"
      BY <1>1, <2>2 DEF HandleWritePacket, HandleTerminatePacket, HandleKillPacket,
         HandleClosePacket, serverVars
    <3> QED
      BY <1>2, <1>3, <3>2, <3>3 DEF Known, Written
  <2> QED
    BY <2>1, <2>2
<1> QED
  BY <1>2, <1>3, HelperFollows

LEMMA ChildFollows ==
    ASSUME CInv, TypeOK', NEW t \in used \ detached, NEW u \in Token, ChildWrites(u) \/ Reaped(u)
    PROVE  Follows(t)'
<1>1. /\ t \in Token /\ TypeOK /\ produced[t] \in Nat /\ unread[t] \in Seq(Nat)
      /\ process \in [Token -> {"none", "Starting", "Running", "reaping", "gone"}]
      /\ produced \in [Token -> 0 .. MaxOutput] /\ unread \in [Token -> Output]
  BY OpenToken, Parts, MoreParts
<1>2. /\ UNCHANGED clientVars /\ UNCHANGED linkVars /\ UNCHANGED <<launching, m_requests, c2s, s2c>>
  BY DEF ChildWrites, Reaped, clientVars, callerVars, sharedVars, linkVars
<1>3. Waiting("StartProcess", t)' = Waiting("StartProcess", t)
  BY <1>1, <1>2, WaitingSame
<1>4. ASSUME NEW p \in Int, Known(t, p) PROVE Known(t, p)'
  <2>1. CASE Reaped(u)
    <3>1. process'[t] = process[t] \/ process'[t] = "gone"
      BY <1>1, <2>1 DEF Reaped
    <3>2. UNCHANGED <<produced, unread>>
      BY <2>1 DEF Reaped
    <3> QED
      BY <1>2, <1>3, <1>4, <3>1, <3>2 DEF Known, Written
  <2>2. CASE ChildWrites(u) /\ u # t
    <3>1. process'[t] = process[t] /\ produced'[t] = produced[t] /\ unread'[t] = unread[t]
      BY <1>1, <2>2 DEF ChildWrites
    <3> QED
      BY <1>1, <1>2, <1>3, <1>4, <3>1, KnownStays
  <2>3. CASE ChildWrites(u) /\ u = t
    <3> DEFINE data == unread[t]
               n == produced[t]
    <3>1. /\ process'[t] = process[t] /\ process[t] = "Running"
          /\ produced'[t] = n + 1 /\ unread'[t] = Append(data, n + 1)
      BY <1>1, <2>3 DEF ChildWrites
    <3>2. p >= 1 /\ p - 1 + Len(data) = n /\ \A i \in 1 .. Len(data) : data[i] = p - 1 + i
      BY <1>4, <3>1 DEF Known
    <3>3. data \in Seq(Nat) /\ n \in Nat
      BY <1>1
    <3> HIDE DEF data, n
    <3>4. /\ Len(Append(data, n + 1)) = Len(data) + 1
          /\ \A i \in 1 .. Len(data) : Append(data, n + 1)[i] = data[i]
          /\ Append(data, n + 1)[Len(data) + 1] = n + 1
      BY <3>3
    <3>5. p - 1 + Len(unread'[t]) = produced'[t]
      BY <3>1, <3>2, <3>3, <3>4
    <3>6. ASSUME NEW i \in 1 .. Len(unread'[t]) PROVE unread'[t][i] = p - 1 + i
      <4>1. i \in 1 .. Len(data) \/ i = Len(data) + 1
        BY <3>1, <3>3, <3>4
      <4>2. CASE i \in 1 .. Len(data)
        BY <3>1, <3>2, <3>4, <4>2
      <4>3. CASE i = Len(data) + 1
        BY <3>1, <3>2, <3>3, <3>4, <4>3
      <4> QED
        BY <4>1, <4>2, <4>3
    <3>7. Written(t, p)'
      <4>1. p - 1 <= produced'[t]
        BY <3>1, <3>2, <3>3
      <4> QED
        BY <3>2, <4>1 DEF Written
    <3>8. t \in launching \/ Waiting("StartProcess", t) > 0 => p = 0
      BY <1>4 DEF Known
    <3> QED
      BY <1>2, <1>3, <3>1, <3>2, <3>5, <3>6, <3>7, <3>8 DEF Known
  <2> QED
    BY <2>1, <2>2, <2>3
<1> QED
  BY <1>2, <1>4, HelperFollows

LEMMA HelperRuns ==
    ASSUME CInv, ~Faults, TypeOK', NEW t \in used \ detached, ServerNext
    PROVE  Follows(t)'
<1>1. LauncherStarted \/ LauncherFinished
  BY NotLost DEF ServerNext
<1>2. /\ UNCHANGED clientVars /\ UNCHANGED linkVars
      /\ UNCHANGED <<launching, m_requests, c2s, s2c, process, produced, unread>>
  BY <1>1 DEF LauncherStarted, LauncherFinished, clientVars, callerVars, sharedVars, linkVars
<1>3. t \in Token /\ TypeOK
  BY OpenToken
<1>4. Waiting("StartProcess", t)' = Waiting("StartProcess", t)
  BY <1>2, <1>3, WaitingSame
<1>5. \A p \in Int : Known(t, p) => Known(t, p)'
  BY <1>2, <1>3, <1>4, KnownStays
<1> QED
  BY <1>2, <1>5, HelperFollows

(* A reply about one process is no news of another.                         *)
LEMMA OthersReply ==
    ASSUME CInv, TypeOK', NEW t \in used \ detached, NEW u \in Token \ {t}, UNCHANGED clientVars,
           NEW packet \in Reply, packet.tok = u, SendReply(packet),
           process'[t] = process[t], produced'[t] = produced[t], unread'[t] = unread[t]
    PROVE  Follows(t)'
<1>1. t \in Token /\ TypeOK
  BY OpenToken
<1>2. UNCHANGED <<launching, c2s, m_requests>>
  BY DEF clientVars, callerVars, sharedVars, SendReply
<1>3. Waiting("StartProcess", t)' = Waiting("StartProcess", t)
  BY <1>1, <1>2, WaitingSame
<1>4. ASSUME NEW p \in Int, Known(t, p) PROVE Moves(t, packet, p, p) /\ Known(t, p)'
  BY <1>1, <1>2, <1>3, <1>4, OthersPacket, KnownStays
<1> QED
  BY <1>4, HelperSends

LEMMA SendFollows ==
    ASSUME CInv, TypeOK', NEW t \in used \ detached, NEW u \in Token,
           \/ HandleProcessStarted(u) \/ HandleProcessError(u)
           \/ HandleReadyReadStandardOutput(u) \/ HandleProcessFinished(u)
    PROVE  Follows(t)'
<1> DEFINE data == unread[t]
           n == produced[t]
<1>1. /\ t \in Token /\ TypeOK /\ Sound(t) /\ Waiting("StartProcess", t) \in Nat
      /\ process \in [Token -> {"none", "Starting", "Running", "reaping", "gone"}]
      /\ produced \in [Token -> 0 .. MaxOutput] /\ unread \in [Token -> Output]
      /\ unread[t] \in Seq(Nat) /\ n \in Nat
  BY OpenToken, Parts, MoreParts
<1>2. PICK packet \in Reply :
        /\ SendReply(packet) /\ packet.tok = u
        /\ HandleProcessStarted(u) => packet = StartedPacket(u)
        /\ HandleProcessError(u) => packet = DonePacket(u, unread[u], "FailedToStart")
        /\ HandleReadyReadStandardOutput(u) => packet = ReadyReadPacket(u, unread[u])
        /\ HandleProcessFinished(u) =>
                \E error \in {"Crashed", "UnknownError"} : packet = DonePacket(u, unread[u], error)
  <2>1. unread[u] \in Output /\ \A error \in {"FailedToStart", "Crashed", "UnknownError"} :
                                    error \in ProcessError
    BY <1>1 DEF ProcessError
  <2>2. /\ process[u] = "Starting" => ~HandleReadyReadStandardOutput(u) /\ ~HandleProcessFinished(u)
        /\ HandleProcessStarted(u) \/ HandleProcessError(u) => process[u] = "Starting"
    BY DEF HandleProcessStarted, HandleProcessError, HandleReadyReadStandardOutput,
       HandleProcessFinished
  <2>3. CASE HandleProcessStarted(u) /\ ~HandleProcessError(u)
    BY <2>2, <2>3, PacketTypes DEF HandleProcessStarted, StartedPacket
  <2>4. CASE HandleProcessError(u) /\ ~HandleProcessStarted(u)
    BY <2>1, <2>2, <2>4, PacketTypes DEF HandleProcessError, DonePacket
  <2>5. CASE HandleReadyReadStandardOutput(u) /\ ~HandleProcessFinished(u)
    BY <2>1, <2>2, <2>5, PacketTypes DEF HandleReadyReadStandardOutput, ReadyReadPacket
  <2>6. CASE HandleProcessFinished(u) /\ ~HandleReadyReadStandardOutput(u)
    <3>1. PICK error \in {"Crashed", "UnknownError"} : SendReply(DonePacket(u, unread[u], error))
      BY <2>6 DEF HandleProcessFinished
    <3>2. DonePacket(u, unread[u], error) \in Reply /\ DonePacket(u, unread[u], error).tok = u
      BY <2>1, PacketTypes DEF DonePacket
    <3> QED
      BY <2>2, <2>6, <3>1, <3>2
  <2>7. /\ ~(HandleProcessStarted(u) /\ HandleProcessError(u))
        /\ ~(HandleReadyReadStandardOutput(u) /\ HandleProcessFinished(u))
    <3>1. HandleProcessStarted(u) => process'[u] = "Running"
      BY <1>1 DEF HandleProcessStarted
    <3>2. HandleProcessError(u) => process'[u] = "gone"
      BY <1>1 DEF HandleProcessError
    <3>3. HandleReadyReadStandardOutput(u) => process[u] = "Running" /\ process' = process
      BY DEF HandleReadyReadStandardOutput
    <3>4. HandleProcessFinished(u) => process'[u] = "gone"
      BY <1>1 DEF HandleProcessFinished
    <3> QED
      BY <3>1, <3>2, <3>3, <3>4
  <2> QED
    BY <2>3, <2>4, <2>5, <2>6, <2>7
<1>3. UNCHANGED clientVars /\ UNCHANGED <<produced, launching, m_requests>>
  BY DEF HandleProcessStarted, HandleProcessError, HandleReadyReadStandardOutput,
     HandleProcessFinished, clientVars, callerVars, sharedVars
<1>4. c2s' = c2s
  BY <1>2 DEF SendReply
<1>5. Waiting("StartProcess", t)' = Waiting("StartProcess", t)
  BY <1>1, <1>3, <1>4, WaitingSame
<1>6. CASE u # t
  <2>1. process'[t] = process[t] /\ unread'[t] = unread[t]
    BY <1>1, <1>6 DEF HandleProcessStarted, HandleProcessError, HandleReadyReadStandardOutput,
     HandleProcessFinished
  <2> QED
    BY <1>2, <1>3, <1>6, <2>1, OthersReply
<1>7. ASSUME u = t, NEW p \in Int, Known(t, p)
      PROVE  \E q \in Int : Moves(t, packet, p, q) /\ Known(t, q)'
  <2>1. process[t] \in {"Starting", "Running"}
    BY <1>7 DEF HandleProcessStarted, HandleProcessError, HandleReadyReadStandardOutput,
     HandleProcessFinished
  <2>2. t \notin launching' /\ ~(Waiting("StartProcess", t)' > 0)
    <3>1. t \notin launching
      BY <1>1, <2>1 DEF Sound, Requested
    <3>2. Waiting("StartProcess", t) # 1 /\ Waiting("StartProcess", t) <= 1
      BY <1>1, <2>1 DEF Sound, Requested
    <3> QED
      BY <1>1, <1>3, <1>5, <3>1, <3>2
  <2>3. ASSUME NEW q \in Int, process'[t] = "gone", Written(t, q)' PROVE Known(t, q)'
    BY <2>2, <2>3 DEF Known
  <2>4. process[t] = "Starting" => p = 0 /\ n = 0 /\ data = <<>>
    BY <1>7 DEF Known
  <2>5. process[t] = "Running" =>
            p >= 1 /\ p - 1 + Len(data) = n /\ \A i \in 1 .. Len(data) : data[i] = p - 1 + i
    BY <1>7 DEF Known
  <2>6. produced'[t] = n
    BY <1>3
  <2>7. data \in Seq(Nat) /\ Len(data) \in Nat
    BY <1>1
  <2>8. CASE HandleProcessStarted(t)
    <3>1. process[t] = "Starting" /\ process'[t] = "Running" /\ unread'[t] = data
      BY <1>1, <2>8 DEF HandleProcessStarted
    <3>2. Known(t, 1)'
      BY <2>2, <2>4, <2>6, <3>1 DEF Known, Written
    <3>3. Moves(t, packet, p, 1)
      BY <1>2, <1>7, <2>4, <2>8, <3>1 DEF Moves, PacketTells, StartedPacket
    <3> QED
      BY <3>2, <3>3
  <2>9. CASE HandleProcessError(t)
    <3>1. process[t] = "Starting" /\ process'[t] = "gone"
      BY <1>1, <2>9 DEF HandleProcessError
    <3>2. Known(t, -1)'
      BY <2>3, <2>4, <2>6, <3>1 DEF Written
    <3>3. packet = DonePacket(t, <<>>, "FailedToStart")
      BY <1>2, <1>7, <2>4, <2>9, <3>1
    <3>4. PacketTells(t, packet, 0, -1)
      <4>1. /\ LastTells(<<>>, 0, 0) /\ 0 >= 0 /\ -1 = -1 - 0
            /\ "FailedToStart" = "FailedToStart" <=> 0 = 0
        BY DEF LastTells
      <4> QED
        BY <3>3, <4>1 DEF PacketTells, DonePacket
    <3>5. Moves(t, packet, p, -1)
      BY <2>4, <3>1, <3>3, <3>4 DEF Moves, DonePacket
    <3> QED
      BY <3>2, <3>5
  <2>10. CASE HandleReadyReadStandardOutput(t)
    <3>1. process[t] = "Running" /\ process'[t] = "Running" /\ data # <<>> /\ unread'[t] = <<>>
      BY <1>1, <2>10 DEF HandleReadyReadStandardOutput
    <3>a. PICK q \in Int : q = p + Len(data)
      BY <2>7
    <3>2. q \in Int /\ q - 1 = n /\ q >= 1 /\ p < q /\ Len(data) = q - p
      <4>1. Len(data) > 0
        BY <2>7, <3>1, EmptySeq
      <4> QED
        BY <2>5, <2>7, <3>a, <3>1, <4>1
    <3>3. Pieces(data, p, q)
      BY <2>5, <3>1, <3>2 DEF Pieces
    <3>4. packet = ReadyReadPacket(t, data)
      BY <1>2, <1>7, <2>10
    <3> HIDE DEF data
    <3>5. Moves(t, packet, p, q)
      BY <2>5, <3>1, <3>3, <3>4 DEF Moves, PacketTells, ReadyReadPacket
    <3>6. Known(t, q)'
      <4>1. Len(unread'[t]) = 0 /\ 1 .. Len(unread'[t]) = {}
        BY <3>1
      <4>2. Written(t, q)'
        BY <2>6, <3>2 DEF Written
      <4>3. q - 1 + Len(unread'[t]) = produced'[t]
        BY <2>6, <3>2, <4>1
      <4> QED
        BY <2>2, <3>1, <3>2, <4>1, <4>2, <4>3 DEF Known
    <3> QED
      BY <3>2, <3>5, <3>6
  <2>11. CASE HandleProcessFinished(t)
    <3>1. process[t] = "Running" /\ process'[t] = "gone"
      BY <1>1, <2>11 DEF HandleProcessFinished
    <3>2. PICK error \in {"Crashed", "UnknownError"} : packet = DonePacket(t, data, error)
      BY <1>2, <1>7, <2>11
    <3>a. PICK r \in Int : r = p + Len(data)
      BY <2>7
    <3>3. r \in Int /\ r - 1 = n /\ r >= 1 /\ Len(data) = r - p
      BY <2>5, <2>7, <3>a, <3>1
    <3>4. LastTells(data, p, r)
      <4>1. CASE data = <<>>
        BY <3>3, <4>1 DEF LastTells
      <4>2. CASE data # <<>>
        <5>1. Len(data) > 0
          BY <2>7, <4>2, EmptySeq
        <5>2. p < r
          BY <2>7, <3>3, <5>1
        <5> QED
          BY <2>5, <3>1, <3>3, <4>2, <5>2 DEF LastTells, Pieces
      <4> QED
        BY <4>1, <4>2
    <3> HIDE DEF data
    <3>5. PacketTells(t, packet, p, -1 - r)
      <4>1. r >= 0 /\ (error = "FailedToStart" <=> r = 0)
        BY <3>3
      <4>2. packet.tok = t /\ packet.type = "ProcessDone" /\ packet.data = data
                /\ packet.error = error
        BY <3>2 DEF DonePacket
      <4> QED
        BY <3>3, <3>4, <4>1, <4>2 DEF PacketTells
    <3>6. Moves(t, packet, p, -1 - r)
      BY <3>2, <3>5 DEF Moves, DonePacket
    <3>7. Known(t, -1 - r)'
      <4>1. -1 - r \in Int /\ -1 - r = -2 - n /\ -1 - r < 0
        BY <1>1, <3>3
      <4>2. Written(t, -1 - r)'
        BY <2>6, <4>1 DEF Written
      <4> QED
        BY <2>3, <3>1, <4>1, <4>2
    <3> QED
      BY <3>3, <3>6, <3>7
  <2> QED
    BY <1>7, <2>8, <2>9, <2>10, <2>11
<1>8. CASE u = t
  <2>1. \A p \in Int : Known(t, p) => \E q \in Int : Moves(t, packet, p, q) /\ Known(t, q)'
    BY <1>7, <1>8
  <2> QED
    BY <1>2, <1>3, <2>1, HelperSends
<1> QED
  BY <1>6, <1>8

(* The steps that change the calls a thread is inside of.                   *)
CallStep ==
    \/ \E t \in Token : Flush(t)
    \/ \E t \in Token, for \in {"Started", "ReadyRead", "Done"} : WaitForSignal(t, for)
    \/ \E thr \in Thread : \/ Deliver(thr) \/ FlushReturns(thr) \/ DoWaitForSignal(thr)
                           \/ WaitTimeout(thr) \/ WaitTakes(thr)
    \/ FlushCaller

LEMMA CallSteps ==
    ASSUME [Next]_vars
    PROVE  CallStep \/ UNCHANGED stack
<1>1. CASE \E t \in Token : UserNext(t)
  BY <1>1 DEF UserNext, CallStep, RegisterHandle, Control, Write, Close
<1>2. CASE \E t \in Token : CallerTokenNext(t)
  BY <1>2 DEF CallerTokenNext, CallStep, ProgramMissing, Start, DestroyInterface, UnregisterHandle
<1>3. CASE \E t \in Token : ServerTokenNext(t)
  BY <1>3 DEF ServerTokenNext, HandleStartPacket, HandleWritePacket, HandleTerminatePacket,
     HandleKillPacket, HandleClosePacket, HandleProcessStarted, HandleProcessError, ChildWrites,
     HandleReadyReadStandardOutput, HandleProcessFinished, Reaped, clientVars, callerVars
<1>4. CASE \E thr \in Thread : CallerNext(thr)
  BY <1>4 DEF CallerNext, CallStep, PostHandleRequests
<1>5. CASE LauncherNext
  BY <1>5 DEF LauncherNext, CallStep, SetSocket, HandleRequests, HandleSocketDataAvailable,
     LockHandle, AppendSignal, SocketErrorOccurred, HandleSocketDisconnected, HandleError,
     HandleSocketError, DoStop, callerVars
<1>6. CASE ServerNext
  BY <1>6 DEF ServerNext, LauncherStarted, HandleShutdownPacket, HandleSocketClosed,
     HandleServerSocketError, LauncherNotConnected, LauncherFinished, Quit, clientVars, callerVars
<1>7. CASE UNCHANGED vars
  BY <1>7 DEF vars, clientVars, callerVars
<1> QED
  BY <1>1, <1>2, <1>3, <1>4, <1>5, <1>6, <1>7 DEF Next

(* Without nesting, a call is made only outside of calls.                   *)
LEMMA ShallowStep ==
    ASSUME CInv, MaxDepth <= 1, [Next]_vars
    PROVE  Shallow'
<1>1. TypeOK /\ Shallow /\ stack \in [Thread -> Seq(Frame)]
  BY Parts DEF CInv, AInv
<1>2. ASSUME NEW thr \in Thread,
             \/ stack' = [stack EXCEPT ![thr] = <<>>]
             \/ \E frame : stack' = [stack EXCEPT ![thr] = <<frame>>]
      PROVE  Shallow'
  <2>1. Len(<<>>) <= 1 /\ \A frame : Len(<<frame>>) <= 1
    OBVIOUS
  <2> QED
    BY <1>1, <1>2, <2>1 DEF Shallow
<1>3. ASSUME NEW thr \in Thread, InCall(thr), Pop(thr) \/ \E frame : SetTop(thr, frame)
      PROVE  Shallow'
  BY <1>2, <1>3, OneCallMore
<1>4. ASSUME NEW thr \in Thread, ~InCall(thr), \E frame : Push(thr, frame)
      PROVE  Shallow'
  BY <1>2, <1>4, OneCallMore
<1>5. ASSUME NEW t \in Token, Flush(t) PROVE Shallow'
  BY <1>1, <1>4, <1>5, Parts DEF Flush, InEventLoop
<1>6. ASSUME NEW t \in Token, NEW for \in {"Started", "ReadyRead", "Done"}, WaitForSignal(t, for)
      PROVE  Shallow'
  <2>1. ThreadOf[t] \in Thread /\ Len(stack[ThreadOf[t]]) < MaxDepth
    BY <1>1, <1>6, Parts DEF WaitForSignal
  <2>2. ~InCall(ThreadOf[t])
    BY <1>1, <2>1, NoCall DEF InCall
  <2>3. \E frame : Push(ThreadOf[t], frame)
    BY <1>6 DEF WaitForSignal
  <2> QED
    BY <1>4, <2>1, <2>2, <2>3
<1>7. ASSUME NEW thr \in Thread, Deliver(thr) \/ FlushReturns(thr) \/ DoWaitForSignal(thr)
                                    \/ WaitTimeout(thr) \/ WaitTakes(thr)
      PROVE  Shallow'
  <2>1. InCall(thr)
    BY <1>7 DEF Deliver, FlushReturns, DoWaitForSignal, WaitTimeout, WaitTakes
  <2>2. Pop(thr) \/ \E frame : SetTop(thr, frame)
    BY <1>7, Zenon DEF Deliver, FlushReturns, DoWaitForSignal, WaitTimeout, WaitTakes, SetPc
  <2> QED
    BY <1>3, <2>1, <2>2
<1>8. CASE FlushCaller
  <2>1. ASSUME NEW thr \in Thread PROVE Len(stack'[thr]) <= 1
    <3>1. stack'[thr] = IF Asleep(thr, job.tok)
                        THEN <<[Top(thr) EXCEPT !.pc = "take"]>> \o Tail(stack[thr])
                        ELSE stack[thr]
      BY <1>8 DEF FlushCaller, WakeOne
    <3>2. CASE Asleep(thr, job.tok)
      <4>1. Tail(stack[thr]) = <<>>
        BY <1>1, <3>2, OneCall DEF Asleep
      <4>2. \A frame : <<frame>> \o <<>> = <<frame>> /\ Len(<<frame>>) <= 1
        OBVIOUS
      <4> QED
        BY <3>1, <3>2, <4>1, <4>2
    <3>3. CASE ~Asleep(thr, job.tok)
      BY <1>1, <3>1, <3>3 DEF Shallow
    <3> QED
      BY <3>2, <3>3
  <2> QED
    BY <2>1 DEF Shallow
<1>9. CASE UNCHANGED stack
  BY <1>1, <1>9 DEF Shallow
<1> QED
  BY <1>5, <1>6, <1>7, <1>8, <1>9, CallSteps DEF CallStep

------------------------------------------------------------------------------
(* The steps that a QtcProcess can see, and those that close one.           *)
LEMMA ViewSteps ==
    ASSUME [Next]_vars
    PROVE  \/ \E t \in Token : RegisterHandle(t) \/ ProgramMissing(t) \/ Start(t) \/ Close(t)
           \/ \E thr \in Thread : Deliver(thr)
           \/ UNCHANGED <<m_state, observed, detached>>
<1>1. CASE \E t \in Token : UserNext(t)
  BY <1>1 DEF UserNext, Control, Write, WaitForSignal
<1>2. CASE \E t \in Token : CallerTokenNext(t)
  BY <1>2 DEF CallerTokenNext, DestroyInterface, UnregisterHandle, Flush
<1>3. CASE \E t \in Token : ServerTokenNext(t)
  BY <1>3 DEF ServerTokenNext, HandleStartPacket, HandleWritePacket, HandleTerminatePacket,
     HandleKillPacket, HandleClosePacket, HandleProcessStarted, HandleProcessError, ChildWrites,
     HandleReadyReadStandardOutput, HandleProcessFinished, Reaped, clientVars, callerVars
<1>4. CASE \E thr \in Thread : CallerNext(thr)
  BY <1>4 DEF CallerNext, PostHandleRequests, FlushReturns, DoWaitForSignal, WaitTimeout, WaitTakes
<1>5. CASE LauncherNext
  BY <1>5 DEF LauncherNext, SetSocket, HandleRequests, HandleSocketDataAvailable,
     LockHandle, AppendSignal, SocketErrorOccurred, HandleSocketDisconnected, HandleError,
     HandleSocketError, DoStop, FlushCaller, callerVars
<1>6. CASE ServerNext
  BY <1>6 DEF ServerNext, LauncherStarted, HandleShutdownPacket, HandleSocketClosed,
     HandleServerSocketError, LauncherNotConnected, LauncherFinished, Quit, clientVars, callerVars
<1>7. CASE UNCHANGED vars
  BY <1>7 DEF vars, clientVars, callerVars
<1> QED
  BY <1>1, <1>2, <1>3, <1>4, <1>5, <1>6, <1>7 DEF Next

LEMMA DetachedGrows ==
    ASSUME [Next]_vars
    PROVE  detached \subseteq detached'
  BY ViewSteps DEF RegisterHandle, ProgramMissing, Start, Close, Deliver

(* Only the helper deals with what the children write.                      *)
LEMMA OnlyServerWrites ==
    ASSUME [Next]_vars
    PROVE  UNCHANGED <<produced, unread>> \/ \E t \in Token : ServerTokenNext(t)
<1>1. CASE \E t \in Token : UserNext(t)
  BY <1>1 DEF UserNext, RegisterHandle, Close, Control, Write, WaitForSignal, serverVars
<1>2. CASE \E t \in Token : CallerTokenNext(t)
  BY <1>2 DEF CallerTokenNext, ProgramMissing, Start, DestroyInterface, UnregisterHandle, Flush,
     serverVars
<1>3. CASE \E thr \in Thread : CallerNext(thr)
  BY <1>3 DEF CallerNext, Deliver, PostHandleRequests, FlushReturns, DoWaitForSignal, WaitTimeout,
     WaitTakes, serverVars
<1>4. CASE LauncherNext
  BY <1>4 DEF LauncherNext, SetSocket, HandleRequests, HandleSocketDataAvailable,
     LockHandle, AppendSignal, SocketErrorOccurred, HandleSocketDisconnected, HandleError,
     HandleSocketError, DoStop, FlushCaller, serverVars
<1>5. CASE ServerNext
  BY <1>5 DEF ServerNext, LauncherStarted, HandleShutdownPacket, HandleSocketClosed,
     HandleServerSocketError, LauncherNotConnected, LauncherFinished, Quit
<1>6. CASE UNCHANGED vars
  BY <1>6 DEF vars, serverVars
<1> QED
  BY <1>1, <1>2, <1>3, <1>4, <1>5, <1>6 DEF Next

(* What is delivered is delivered to a QtcProcess that was started.         *)
LEMMA DeliveredUsed ==
    ASSUME CInv, NEW thr \in Thread, Deliver(thr)
    PROVE  Top(thr).tok \in used
<1> DEFINE u == Top(thr).tok
<1>1. TypeOK /\ Shallow /\ InCall(thr) /\ Top(thr).todo # <<>>
  BY DEF CInv, AInv, Deliver
<1>2. u \in Token /\ ThreadOf[u] = thr
  BY <1>1, OneCall, TakingBefore
<1>3. SUFFICES ASSUME u \notin used PROVE FALSE
  OBVIOUS
<1>4. NoneTaken(u)
  BY <1>2, <1>3 DEF CInv, AInv, Sound, Unused
<1>5. stack[thr] \in Seq(Frame)
  BY <1>1, Parts
<1>6. 1 \in DOMAIN stack[thr] /\ Top(thr) = stack[thr][1]
  BY <1>1, <1>5 DEF InCall, Top
<1> QED
  BY <1>1, <1>2, <1>4, <1>6 DEF NoneTaken, NoneIn, Frames

(* A token is used when it is registered, and nothing is told of it before. *)
LEMMA FreshStep ==
    ASSUME CInv, [Next]_vars, NEW t \in Token
    PROVE  Fresh(t)'
<1>1. SUFFICES ASSUME t \notin used'
               PROVE  /\ observed'[t] = observed[t] /\ m_state'[t] = m_state[t]
                      /\ produced'[t] = produced[t] /\ unread'[t] = unread[t]
                      /\ t \notin used
  BY DEF CInv, Fresh
<1>2. TypeOK /\ Sound(t)
  BY DEF CInv, AInv
<1>3. t \notin used /\ ~RegisterHandle(t)
  BY <1>1, HandleSteps DEF RegisterHandle, UnregisterHandle
<1>4. t \notin launching /\ process[t] = "none" /\ t \notin m_handles
  BY <1>2, <1>3, Parts DEF Sound, Unused
<1>5. /\ m_state \in [Token -> ProcessState] /\ observed \in [Token -> Seq(Signal)]
      /\ produced \in [Token -> 0 .. MaxOutput] /\ unread \in [Token -> Output]
  BY <1>2, MoreParts
<1>6. observed'[t] = observed[t] /\ m_state'[t] = m_state[t]
  <2>1. ASSUME NEW u \in Token \ {t}, NEW signal, Emit(u, signal)
        PROVE  observed'[t] = observed[t] /\ m_state'[t] = m_state[t]
    BY <1>5, <2>1 DEF Emit
  <2>2. ASSUME NEW u \in Token, RegisterHandle(u) \/ Close(u)
        PROVE  observed'[t] = observed[t] /\ m_state'[t] = m_state[t]
    <3>1. u # t
      BY <1>3, <1>4, <2>2 DEF Close
    <3> QED
      BY <1>5, <2>2, <3>1 DEF RegisterHandle, Close
  <2>3. ASSUME NEW u \in Token, ProgramMissing(u) \/ Start(u)
        PROVE  observed'[t] = observed[t] /\ m_state'[t] = m_state[t]
    <3>1. u # t
      BY <1>4, <2>3 DEF ProgramMissing, Start
    <3> QED
      BY <2>1, <2>3, <3>1 DEF ProgramMissing, Start
  <2>4. ASSUME NEW thr \in Thread, Deliver(thr)
        PROVE  observed'[t] = observed[t] /\ m_state'[t] = m_state[t]
    <3>1. Top(thr).tok \in used /\ Top(thr).tok \in Token
      BY <1>2, <2>4, DeliveredUsed, Parts
    <3>2. Top(thr).tok \in Token \ {t} /\ Emit(Top(thr).tok, Head(Top(thr).todo))
      BY <1>3, <2>4, <3>1 DEF Deliver
    <3> QED
      BY <2>1, <3>2
  <2> QED
    BY <2>2, <2>3, <2>4, ViewSteps
<1>7. produced'[t] = produced[t] /\ unread'[t] = unread[t]
  <2>1. CASE \E u \in Token : ServerTokenNext(u)
    BY <1>4, <1>5, <2>1 DEF ServerTokenNext, HandleStartPacket, HandleWritePacket,
       HandleTerminatePacket, HandleKillPacket, HandleClosePacket, HandleProcessStarted,
       HandleProcessError, ChildWrites, HandleReadyReadStandardOutput, HandleProcessFinished,
       Reaped, serverVars
  <2>2. UNCHANGED <<produced, unread>> \/ \E u \in Token : ServerTokenNext(u)
    BY OnlyServerWrites
  <2> QED
    BY <2>1, <2>2
<1> QED
  BY <1>3, <1>6, <1>7

LEMMA OwnedStep ==
    ASSUME CInv, [Next]_vars
    PROVE  Owned'
<1>1. TypeOK /\ Owned /\ m_handles \in SUBSET used
  BY Parts DEF CInv, AInv
<1>2. detached \subseteq detached' /\ (detached' \subseteq used)
  <2>1. ASSUME NEW t \in Token, Close(t) PROVE detached' \subseteq used
    BY <1>1, <2>1 DEF Owned, Close
  <2>2. \A t \in Token : RegisterHandle(t) \/ ProgramMissing(t) \/ Start(t) => detached' = detached
    BY DEF RegisterHandle, ProgramMissing, Start
  <2>3. \A thr \in Thread : Deliver(thr) => detached' = detached
    BY DEF Deliver
  <2> QED
    BY <1>1, <2>1, <2>2, <2>3, DetachedGrows, ViewSteps DEF Owned
<1>3. closing' \subseteq detached
  <2>1. ASSUME NEW t \in Token, UserNext(t) \/ CallerTokenNext(t) PROVE closing' \subseteq detached
    <3>1. closing' \subseteq closing \/ DestroyInterface(t)
      BY <2>1 DEF UserNext, CallerTokenNext, RegisterHandle, Close, Control, Write, WaitForSignal,
         ProgramMissing, Start, UnregisterHandle, Flush
    <3> QED
      BY <1>1, <3>1 DEF Owned, DestroyInterface
  <2>2. UNCHANGED closing \/ \E t \in Token : UserNext(t) \/ CallerTokenNext(t)
    <3>1. CASE \E t \in Token : ServerTokenNext(t)
      BY <3>1 DEF ServerTokenNext, HandleStartPacket, HandleWritePacket, HandleTerminatePacket,
         HandleKillPacket, HandleClosePacket, HandleProcessStarted, HandleProcessError, ChildWrites,
         HandleReadyReadStandardOutput, HandleProcessFinished, Reaped, clientVars, callerVars
    <3>2. CASE \E thr \in Thread : CallerNext(thr)
      BY <3>2 DEF CallerNext, Deliver, PostHandleRequests, FlushReturns, DoWaitForSignal,
         WaitTimeout, WaitTakes
    <3>3. CASE LauncherNext
      BY <3>3 DEF LauncherNext, SetSocket, HandleRequests, HandleSocketDataAvailable,
         LockHandle, AppendSignal, SocketErrorOccurred, HandleSocketDisconnected, HandleError,
         HandleSocketError, DoStop, FlushCaller, callerVars
    <3>4. CASE ServerNext
      BY <3>4 DEF ServerNext, LauncherStarted, HandleShutdownPacket, HandleSocketClosed,
         HandleServerSocketError, LauncherNotConnected, LauncherFinished, Quit, clientVars, callerVars
    <3>5. CASE UNCHANGED vars
      BY <3>5 DEF vars, clientVars, callerVars
    <3> QED
      BY <3>1, <3>2, <3>3, <3>4, <3>5 DEF Next
  <2> QED
    BY <1>1, <2>1, <2>2 DEF Owned
<1>4. used \subseteq used' /\ used' \subseteq m_handles' \cup detached
  <2>1. \A t : RegisterHandle(t) => used' = used \cup {t} /\ m_handles' = m_handles \cup {t}
    BY DEF RegisterHandle
  <2>2. \A t : UnregisterHandle(t) => used' = used /\ m_handles' = m_handles \ {t} /\ t \in detached
    BY <1>1 DEF UnregisterHandle, Owned
  <2> QED
    BY <1>1, <2>1, <2>2, HandleSteps DEF Owned
<1> QED
  BY <1>2, <1>3, <1>4 DEF Owned

(* The connection.                                                          *)
LEMMA CalmStays ==
    ASSUME Calm, UNCHANGED <<m_socket, erring, linkUp>>, Stopping' => Stopping,
           m_socket = "stopped" => used' \subseteq detached',
           \A i \in DOMAIN m_requests' : m_requests'[i].type # "Shutdown"
    PROVE  Calm'
  BY DEF Calm

LEMMA SentRequests ==
    ASSUME TypeOK, Calm,
           \/ NothingSent \/ UNCHANGED m_requests
           \/ \E thr, u : \E type \in RequestType \ {"Shutdown"} : SendPacket(thr, type, u)
    PROVE  \A i \in DOMAIN m_requests' : m_requests'[i].type # "Shutdown"
<1>1. m_requests \in Seq(Request) /\ \A i \in DOMAIN m_requests : m_requests[i].type # "Shutdown"
  BY Parts DEF Calm
<1>2. ASSUME NEW thr, NEW u, NEW type \in RequestType \ {"Shutdown"}, SendPacket(thr, type, u)
      PROVE  \A i \in DOMAIN m_requests' : m_requests'[i].type # "Shutdown"
  <2> DEFINE request == [type |-> type, tok |-> u]
  <2>1. m_requests' = Append(m_requests, request) /\ request.type # "Shutdown"
    BY <1>2 DEF SendPacket
  <2> HIDE DEF request
  <2> QED
    BY <1>1, <2>1
<1> QED
  BY <1>1, <1>2 DEF NothingSent

(* The caller threads, the launcher thread and the helper keep up the       *)
(* connection; only the last deletion of an interface ends it.              *)
LEMMA CallerCalm ==
    ASSUME CInv, [Next]_vars,
           \/ \E t \in Token : UserNext(t) \/ CallerTokenNext(t)
           \/ \E thr \in Thread : CallerNext(thr)
           \/ UNCHANGED vars
    PROVE  Calm'
<1>1. TypeOK /\ Calm
  BY DEF CInv, AInv
<1>2. ASSUME NEW t \in Token, UserNext(t)
      PROVE  /\ UNCHANGED <<m_socket, erring, linkUp, c2s>>
             /\ m_socket = "stopped" => used' = used
             /\ \/ NothingSent \/ UNCHANGED m_requests
                \/ \E thr, u : \E type \in RequestType \ {"Shutdown"} : SendPacket(thr, type, u)
  <2> USE DEF launcherVars, linkVars, sharedVars, RequestType
  <2>1. CASE RegisterHandle(t)
    BY <2>1 DEF RegisterHandle
  <2>2. CASE Close(t)
    BY <2>2 DEF Close
  <2>3. ASSUME NEW type \in {"Terminate", "Kill"}, Control(t, type)
        PROVE  /\ UNCHANGED <<m_socket, erring, linkUp, c2s, used>>
               /\ NothingSent \/ SendPacket(ThreadOf[t], type, t)
    BY <2>3 DEF Control
  <2>4. CASE Write(t)
    <3>1. /\ UNCHANGED <<m_socket, erring, linkUp, c2s, used>>
          /\ NothingSent \/ SendPacket(ThreadOf[t], "WriteIntoProcess", t)
      BY <2>4 DEF Write
    <3> QED
      BY <3>1
  <2>5. CASE \E for \in {"Started", "ReadyRead", "Done"} : WaitForSignal(t, for)
    BY <2>5 DEF WaitForSignal
  <2> QED
    BY <1>2, <2>1, <2>2, <2>3, <2>4, <2>5 DEF UserNext
<1>3. ASSUME NEW t \in Token, CallerTokenNext(t)
      PROVE  /\ UNCHANGED <<m_socket, erring, linkUp, c2s, used>>
             /\ \/ NothingSent \/ UNCHANGED m_requests
                \/ \E thr, u : \E type \in RequestType \ {"Shutdown"} : SendPacket(thr, type, u)
  <2> USE DEF launcherVars, linkVars, sharedVars, RequestType
  <2>1. CASE ProgramMissing(t) \/ Flush(t) \/ UnregisterHandle(t)
    BY <2>1 DEF ProgramMissing, Flush, UnregisterHandle
  <2>2. CASE Start(t)
    <3>1. /\ UNCHANGED <<m_socket, erring, linkUp, c2s, used>>
          /\ NothingSent \/ SendPacket(ThreadOf[t], "StartProcess", t)
      BY <2>2 DEF Start
    <3> QED
      BY <3>1
  <2>3. CASE DestroyInterface(t)
    <3>1. /\ UNCHANGED <<m_socket, erring, linkUp, c2s, used>>
          /\ NothingSent \/ SendPacket(ThreadOf[t], "Close", t)
      BY <2>3 DEF DestroyInterface
    <3> QED
      BY <3>1
  <2> QED
    BY <1>3, <2>1, <2>2, <2>3 DEF CallerTokenNext
<1>4. ASSUME NEW thr \in Thread, CallerNext(thr)
      PROVE  UNCHANGED <<m_socket, erring, linkUp, c2s, used, m_requests>>
  BY <1>4 DEF CallerNext, Deliver, PostHandleRequests, FlushReturns, DoWaitForSignal,
     WaitTimeout, WaitTakes, launcherVars, linkVars, sharedVars
<1>5. UNCHANGED vars => UNCHANGED <<m_socket, erring, linkUp, c2s, used, m_requests>>
  BY DEF vars, clientVars, launcherVars, linkVars, sharedVars
<1>6. /\ UNCHANGED <<m_socket, erring, linkUp, c2s>> /\ (m_socket = "stopped" => used' = used)
      /\ \/ NothingSent \/ UNCHANGED m_requests
         \/ \E thr, u : \E type \in RequestType \ {"Shutdown"} : SendPacket(thr, type, u)
  BY <1>2, <1>3, <1>4, <1>5
<1>7. \A i \in DOMAIN m_requests' : m_requests'[i].type # "Shutdown"
  BY <1>1, <1>6, SentRequests
<1>8. m_socket = "stopped" => used' \subseteq detached'
  BY <1>1, <1>6, DetachedGrows DEF Calm
<1>9. Stopping' => Stopping
  BY <1>6 DEF Stopping
<1> QED
  BY <1>1, <1>6, <1>7, <1>8, <1>9, CalmStays

LEMMA LauncherCalm ==
    ASSUME CInv, ~Faults, LauncherNext
    PROVE  Calm'
<1>1. TypeOK /\ Calm /\ Owned /\ c2s \in Seq(Request) /\ m_requests \in Seq(Request)
  BY Parts DEF CInv, AInv
<1>2. CASE SetSocket \/ HandleRequests
  <2>1. /\ UNCHANGED <<used, detached, erring, linkUp>>
        /\ m_socket' = m_socket \/ (m_socket = "unset" /\ m_socket' = "open")
        /\ WriteRequests \/ UNCHANGED <<m_requests, c2s>>
    <3>1. WriteRequests => linkUp' = linkUp
      BY DEF WriteRequests
    <3>2. CASE SetSocket
      BY <3>1, <3>2 DEF SetSocket, callerVars
    <3>3. CASE HandleRequests
      BY <3>1, <3>3 DEF HandleRequests, callerVars, launcherVars, linkVars
    <3> QED
      BY <1>2, <3>2, <3>3
  <2>2. \A i \in DOMAIN m_requests' : m_requests'[i].type # "Shutdown"
    BY <1>1, <2>1 DEF Calm, WriteRequests
  <2>3. Stopping' => Stopping
    <3>1. CASE WriteRequests /\ linkUp
      <4>1. /\ c2s' = c2s \o m_requests /\ DOMAIN c2s' = 1 .. Len(c2s) + Len(m_requests)
            /\ \A i \in 1 .. Len(c2s) + Len(m_requests) :
                 c2s'[i] = IF i <= Len(c2s) THEN c2s[i] ELSE m_requests[i - Len(c2s)]
        BY <1>1, <3>1, ConcatProperties DEF WriteRequests
      <4>2. SUFFICES ASSUME NEW i \in DOMAIN c2s', c2s'[i].type = "Shutdown" PROVE Stopping
        BY DEF Stopping
      <4>3. CASE i <= Len(c2s)
        <5>1. i \in DOMAIN c2s
          BY <1>1, <4>1, <4>2, <4>3
        <5> QED
          BY <4>1, <4>2, <4>3, <5>1 DEF Stopping
      <4>4. CASE ~(i <= Len(c2s))
        <5>1. i - Len(c2s) \in DOMAIN m_requests
          BY <1>1, <4>1, <4>2, <4>4
        <5> QED
          BY <1>1, <4>1, <4>2, <4>4, <5>1 DEF Calm
      <4> QED
        BY <4>3, <4>4
    <3>2. CASE ~(WriteRequests /\ linkUp)
      <4>1. c2s' = c2s
        BY <2>1, <3>2 DEF WriteRequests
      <4> QED
        BY <4>1 DEF Stopping
    <3> QED
      BY <3>1, <3>2
  <2> QED
    BY <1>1, <2>1, <2>2, <2>3 DEF Calm
<1>3. CASE HandleSocketDataAvailable \/ LockHandle \/ AppendSignal \/ FlushCaller
  <2>1. UNCHANGED <<m_socket, erring, linkUp, c2s, used, detached, m_requests>>
    BY <1>3 DEF HandleSocketDataAvailable, LockHandle, AppendSignal, FlushCaller, callerVars,
       sharedVars, linkVars
  <2>2. Stopping' => Stopping
    BY <2>1 DEF Stopping
  <2> QED
    BY <1>1, <2>1, <2>2 DEF Calm
<1>4. ~SocketErrorOccurred /\ ~HandleSocketDisconnected /\ \A t \in Token : ~HandleSocketError(t)
  BY <1>1 DEF SocketErrorOccurred, HandleSocketDisconnected, HandleError, HandleSocketError, Calm
<1>5. CASE DoStop
  <2>1. /\ m_socket' = "stopped" /\ m_handles = {} /\ UNCHANGED <<used, detached, erring, m_requests>>
    BY <1>5 DEF DoStop, callerVars, sharedVars
  <2> QED
    BY <1>1, <2>1 DEF Calm, Owned
<1> QED
  BY <1>2, <1>3, <1>4, <1>5 DEF LauncherNext

LEMMA ServerCalm ==
    ASSUME CInv, ~Faults, ServerNext \/ \E t \in Token : ServerTokenNext(t)
    PROVE  Calm'
<1>1. TypeOK /\ Calm /\ c2s \in Seq(Request)
  BY Parts DEF CInv, AInv
<1>2. UNCHANGED <<m_socket, erring, used, detached, m_requests>>
  <2> USE DEF clientVars, launcherVars, callerVars, sharedVars
  <2>1. CASE ServerNext
    BY <2>1 DEF ServerNext, LauncherStarted, HandleShutdownPacket, HandleSocketClosed,
       HandleServerSocketError, LauncherNotConnected, LauncherFinished, Quit
  <2>2. CASE \E t \in Token : ServerTokenNext(t)
    BY <2>2 DEF ServerTokenNext, HandleStartPacket, HandleWritePacket, HandleTerminatePacket,
       HandleKillPacket, HandleClosePacket, HandleProcessStarted, HandleProcessError, ChildWrites,
       HandleReadyReadStandardOutput, HandleProcessFinished, Reaped
  <2> QED
    BY <2>1, <2>2
<1>3. c2s' = c2s \/ (c2s # <<>> /\ c2s' = Tail(c2s))
  <2>a. HandleShutdownPacket \/ (\E type, t : NextRequest(type, t)) =>
            c2s # <<>> /\ c2s' = Tail(c2s)
    BY DEF HandleShutdownPacket, NextRequest
  <2>1. CASE ServerNext
    BY <2>a, <2>1 DEF ServerNext, LauncherStarted, HandleSocketClosed, linkVars,
       HandleServerSocketError, LauncherNotConnected, LauncherFinished
  <2>2. CASE \E t \in Token : ServerTokenNext(t)
    <3>1. (\E packet : SendReply(packet)) => c2s' = c2s
      BY DEF SendReply
    <3> QED
      BY <2>a, <2>2, <3>1 DEF ServerTokenNext, HandleStartPacket, HandleWritePacket,
         HandleTerminatePacket, HandleKillPacket, HandleClosePacket, HandleProcessStarted,
         HandleProcessError, ChildWrites, HandleReadyReadStandardOutput, HandleProcessFinished,
         Reaped, linkVars
  <2> QED
    BY <2>1, <2>2
<1>4. Stopping' => Stopping
  <2>1. CASE c2s' = c2s
    BY <2>1 DEF Stopping
  <2>2. CASE c2s # <<>> /\ c2s' = Tail(c2s)
    <3>1. \A i \in DOMAIN Tail(c2s) : i + 1 \in DOMAIN c2s /\ Tail(c2s)[i] = c2s[i + 1]
      BY <1>1, <2>2
    <3> QED
      BY <2>2, <3>1 DEF Stopping
  <2> QED
    BY <1>3, <2>1, <2>2
<1>5. linkUp' = linkUp \/ m_socket = "stopped"
  <2> USE DEF linkVars, NextRequest, SendReply
  <2>1. CASE ServerNext
    <3>1. HandleShutdownPacket => Stopping
      <4>1. c2s # <<>> => 1 \in DOMAIN c2s /\ Head(c2s) = c2s[1]
        BY <1>1
      <4> QED
        BY <4>1 DEF HandleShutdownPacket, Stopping
    <3>2. HandleSocketClosed => ~linkUp
      BY DEF HandleSocketClosed
    <3>3. CASE HandleShutdownPacket \/ HandleSocketClosed
      BY <1>1, <3>1, <3>2, <3>3 DEF Calm
    <3>4. CASE LauncherStarted \/ LauncherNotConnected \/ LauncherFinished
      BY <3>4 DEF LauncherStarted, LauncherNotConnected, LauncherFinished
    <3>5. ~HandleServerSocketError
      BY DEF HandleServerSocketError
    <3> QED
      BY <2>1, <3>3, <3>4, <3>5 DEF ServerNext
  <2>2. CASE \E t \in Token : ServerTokenNext(t)
    BY <2>2 DEF ServerTokenNext, HandleStartPacket, HandleWritePacket, HandleTerminatePacket,
       HandleKillPacket, HandleClosePacket, HandleProcessStarted, HandleProcessError, ChildWrites,
       HandleReadyReadStandardOutput, HandleProcessFinished, Reaped
  <2> QED
    BY <2>1, <2>2
<1> QED
  BY <1>1, <1>2, <1>4, <1>5 DEF Calm

------------------------------------------------------------------------------
(* Every action keeps the news of an open process in order.                 *)
LEMMA FollowsStep ==
    ASSUME CInv, ~Faults, MaxDepth <= 1, TypeOK', [Next]_vars, NEW t \in used' \ detached'
    PROVE  Follows(t)'
<1>1. t \in Token /\ t \notin detached
  BY DetachedGrows DEF TypeOK, SharedTypeOK
<1>2. CASE t \notin used
  <2>1. RegisterHandle(t)
    BY <1>2, HandleSteps DEF RegisterHandle, UnregisterHandle
  <2> QED
    BY <1>1, <2>1, RegisteredFollows
<1>3. CASE t \in used
  <2>1. t \in used \ detached
    BY <1>1, <1>3
  <2>2. ASSUME NEW u \in Token, UserNext(u) \/ CallerTokenNext(u) PROVE Follows(t)'
    <3>1. ThreadOf[u] \in Thread
      BY ThreadOfAssumption
    <3>2. CASE Flush(u)
      BY <2>1, <3>2, FlushFollows
    <3>3. CASE \E for \in {"Started", "ReadyRead", "Done"} : WaitForSignal(u, for)
      BY <2>1, <3>1, <3>3, CallFollows
    <3>4. \/ RegisterHandle(u) \/ ProgramMissing(u) \/ Start(u)
          \/ \E type \in {"Terminate", "Kill"} : Control(u, type)
          \/ Write(u) \/ Close(u) \/ DestroyInterface(u) \/ UnregisterHandle(u)
          \/ Flush(u) \/ \E for \in {"Started", "ReadyRead", "Done"} : WaitForSignal(u, for)
      BY <2>2 DEF UserNext, CallerTokenNext
    <3> QED
      BY <2>1, <3>2, <3>3, <3>4, CallerFollows
  <2>3. ASSUME NEW thr \in Thread, CallerNext(thr) PROVE Follows(t)'
    BY <2>1, <2>3, DeliverFollows, WaitTakesFollows, CallFollows, LauncherFollows DEF CallerNext
  <2>4. CASE LauncherNext
    BY <2>1, <2>4, NotLost, LauncherFollows, PacketFollows, LockFollows, AppendFollows,
       WokenFollows DEF LauncherNext
  <2>5. ASSUME NEW u \in Token, ServerTokenNext(u) PROVE Follows(t)'
    BY <2>1, <2>5, RequestFollows, ChildFollows, SendFollows DEF ServerTokenNext
  <2>6. CASE ServerNext
    BY <2>1, <2>6, HelperRuns
  <2>7. CASE UNCHANGED vars
    BY <2>1, <2>7, LauncherFollows
  <2> QED
    BY <2>2, <2>3, <2>4, <2>5, <2>6, <2>7 DEF Next
<1> QED
  BY <1>2, <1>3

(* So CInv holds in all states.                                             *)
LEMMA ContractInvInit == Init => CInv
<1> SUFFICES ASSUME Init PROVE CInv
  OBVIOUS
<1>1. AInv
  BY AnswerInit
<1>2. Calm /\ Owned
  BY DEF Init, Calm, Owned, Stopping
<1>3. Shallow
  <2>1. Len(<<>>) <= 1
    OBVIOUS
  <2> QED
    BY <2>1 DEF Init, Shallow
<1>4. \A t \in Token : Fresh(t)
  BY DEF Init, Fresh
<1>5. used \ detached = {}
  BY DEF Init
<1> QED
  BY <1>1, <1>2, <1>3, <1>4, <1>5 DEF CInv

LEMMA ContractInvStep ==
    ASSUME ~Faults, MaxDepth <= 1
    PROVE  CInv /\ [Next]_vars => CInv'
<1> SUFFICES ASSUME CInv, [Next]_vars PROVE CInv'
  OBVIOUS
<1>1. AInv'
  BY AnswerStep DEF CInv
<1>2. TypeOK'
  BY <1>1 DEF AInv
<1>3. Calm'
  BY CallerCalm, LauncherCalm, ServerCalm DEF Next
<1>4. Owned' /\ Shallow' /\ \A t \in Token : Fresh(t)'
  BY OwnedStep, ShallowStep, FreshStep
<1>5. \A t \in used' \ detached' : Follows(t)'
  BY <1>2, FollowsStep
<1> QED
  BY <1>1, <1>3, <1>4, <1>5 DEF CInv

(* A signal shows one token only, and nothing once its owner has closed it. *)
LEMMA EmitShows ==
    ASSUME TypeOK, NEW t \in Token, NEW signal, Emit(t, signal), detached' = detached
    PROVE  /\ \A u \in Token \ {t} : SameView(u)
           /\ t \in detached => \A u \in Token : SameView(u)
<1>1. m_state \in [Token -> ProcessState] /\ observed \in [Token -> Seq(Signal)]
  BY MoreParts
<1> QED
  BY <1>1 DEF Emit, SameView, StateOf

(* The steps that can be seen are steps of the contract.                    *)
LEMMA MissingKeeps ==
    ASSUME CInv, NEW t \in Token, t \in launching, Emit(t, DoneSignal("FailedToStart")),
           detached' = detached, produced' = produced
    PROVE  Contract!Next \/ UNCHANGED Contract!vars
<1>1. TypeOK /\ Sound(t)
  BY DEF CInv, AInv
<1>2. CASE t \in detached
  BY <1>1, <1>2, EmitShows, ContractStutters
<1>3. CASE t \notin detached
  <2>1. t \in used \ detached
    BY <1>1, <1>3 DEF Sound, Unused
  <2>2. Told(t, 0) /\ produced[t] = 0
    BY <2>1, NotStarted
  <2>3. Tells(DoneSignal("FailedToStart"), 0, -1)
    BY DEF Tells, DoneSignal
  <2>4. DoneSignal("FailedToStart") \in Signal
    BY SignalTypes DEF ProcessError
  <2>5. Before(-1, -1) /\ Written(t, -1) /\ 0 \in Int /\ -1 \in Int /\ produced[t] \in Nat
    BY <2>2 DEF Before, Written
  <2>6. m_state \in [Token -> ProcessState] /\ observed \in [Token -> Seq(Signal)]
    BY <1>1, MoreParts
  <2>7. \A u \in Token \ {t} : SameView(u)
    BY <1>1, EmitShows
  <2>8. Contract!Next
    BY <1>3, <2>2, <2>3, <2>4, <2>5, <2>6, <2>7, ContractEmits, Zenon
  <2> QED
    BY <2>8
<1> QED
  BY <1>2, <1>3

LEMMA DeliverKeeps ==
    ASSUME CInv, NEW thr \in Thread, Deliver(thr)
    PROVE  Contract!Next \/ UNCHANGED Contract!vars
<1> DEFINE t == Top(thr).tok
           signal == Head(Top(thr).todo)
<1>1. TypeOK /\ t \in Token /\ Emit(t, signal) /\ detached' = detached /\ produced' = produced
  <2>1. TypeOK /\ t \in used
    BY DeliveredUsed DEF CInv, AInv
  <2> QED
    BY <2>1, Parts DEF Deliver, serverVars
<1>2. CASE t \in detached
  BY <1>1, <1>2, EmitShows, ContractStutters
<1>3. CASE t \notin detached
  <2>1. t \in used \ detached /\ signal \in Signal
    BY <1>3, Delivered
  <2>2. PICK a \in Int, b \in Int, c \in Int, d \in Int, e \in Int :
            /\ Told(t, a) /\ Tells(signal, a, d) /\ Chain(t, Tail(Top(thr).todo), d, b)
            /\ Chain(t, m_signals[t], b, c) /\ Chain(t, Handling(t), c, e) /\ Ends(t, e)
    BY <1>3, Delivered
  <2>3. PICK p \in Int : Chain(t, s2c, e, p) /\ Known(t, p)
    BY <2>2 DEF Ends
  <2>4. Tail(Top(thr).todo) \in Seq(Signal)
    <3>1. Shallow /\ InCall(thr) /\ Top(thr).todo # <<>>
      BY DEF CInv, Deliver
    <3> QED
      BY <1>1, <3>1, OneCall
  <2> HIDE DEF t, signal
  <2>5. Before(d, p)
    <3>1. Before(d, b) /\ Before(b, c) /\ Before(c, e) /\ Before(e, p)
      BY <1>1, <2>2, <2>3, <2>4, SequenceTypes, ChainOrders
    <3> QED
      BY <3>1, <2>2, <2>3, BeforeOrders
  <2>6. Written(t, p) /\ produced[t] \in Nat
    BY <1>1, <2>3, MoreParts DEF Known
  <2>7. m_state \in [Token -> ProcessState] /\ observed \in [Token -> Seq(Signal)]
    BY <1>1, MoreParts
  <2>8. \A u \in Token \ {t} : SameView(u)
    BY <1>1, EmitShows
  <2>9. Contract!Next
    BY <1>1, <1>3, <2>1, <2>2, <2>5, <2>6, <2>7, <2>8, <2>3, ContractEmits, Zenon
  <2> QED
    BY <2>9
<1> QED
  BY <1>2, <1>3

LEMMA RegisterKeeps ==
    ASSUME CInv, NEW t \in Token, RegisterHandle(t)
    PROVE  Contract!Start(t)
<1>1. TypeOK /\ Fresh(t) /\ t \notin used /\ t \notin detached
  BY DEF CInv, AInv, Owned, RegisterHandle
<1>2. m_state \in [Token -> ProcessState] /\ observed[t] = <<>> /\ m_state[t] = "NotRunning"
  BY <1>1, MoreParts DEF Fresh
<1>3. /\ m_state' = [m_state EXCEPT ![t] = "Starting"]
      /\ UNCHANGED <<observed, detached, produced>>
  BY DEF RegisterHandle, serverVars
<1>4. \A u \in Token \ {t} : SameView(u)
  BY <1>2, <1>3 DEF SameView, StateOf
<1>5. StateOf(t) = "NotRunning" /\ StateOf(t)' = "Starting"
  BY <1>1, <1>2, <1>3 DEF StateOf
<1>6. ResultOf(t) = "none"
  <2>1. {i \in 1 .. Len(observed[t]) : observed[t][i].type = "Done"} = {}
    BY <1>2
  <2> QED
    BY <2>1 DEF ResultOf, SelectInSeq, IsDone
<1>7. ResultOf(t)' = ResultOf(t) /\ OutputOf(t)' = OutputOf(t)
  BY <1>3 DEF ResultOf, OutputOf
<1>8. /\ States' = [States EXCEPT ![t] = "Starting"] /\ States[t] = "NotRunning"
      /\ UNCHANGED <<Results, Outputs>> /\ Results[t] = "none"
  <2>1. /\ States' = [States EXCEPT ![t] = StateOf(t)']
        /\ Results' = [Results EXCEPT ![t] = ResultOf(t)']
        /\ Outputs' = [Outputs EXCEPT ![t] = OutputOf(t)']
    BY <1>4, ViewMoves
  <2> QED
    BY <1>5, <1>6, <1>7, <2>1 DEF States, Results, Outputs
<1> QED
  BY <1>3, <1>8, ContractActions, Zenon

LEMMA CloseKeeps ==
    ASSUME CInv, NEW t \in Token, Close(t)
    PROVE  Contract!Close(t)
<1>1. TypeOK
  BY DEF CInv, AInv
<1>2. m_state \in [Token -> ProcessState]
  BY <1>1, MoreParts
<1>3. /\ m_state' = [m_state EXCEPT ![t] = "NotRunning"] /\ detached' = detached \cup {t}
      /\ UNCHANGED <<observed, produced>>
  BY DEF Close, serverVars
<1>4. \A u \in Token \ {t} : SameView(u)
  BY <1>2, <1>3 DEF SameView, StateOf
<1>5. StateOf(t)' = "Closed"
  BY <1>3 DEF StateOf
<1>6. ResultOf(t)' = ResultOf(t) /\ OutputOf(t)' = OutputOf(t)
  BY <1>3 DEF ResultOf, OutputOf
<1>7. States' = [States EXCEPT ![t] = "Closed"] /\ UNCHANGED <<Results, Outputs>>
  <2>1. /\ States' = [States EXCEPT ![t] = StateOf(t)']
        /\ Results' = [Results EXCEPT ![t] = ResultOf(t)']
        /\ Outputs' = [Outputs EXCEPT ![t] = OutputOf(t)']
    BY <1>4, ViewMoves
  <2> QED
    BY <1>5, <1>6, <2>1 DEF Results, Outputs
<1> QED
  BY <1>3, <1>7, ContractActions, Zenon

LEMMA ChildKeeps ==
    ASSUME NEW t \in Token, ChildWrites(t)
    PROVE  Contract!ChildWrites(t)
<1>1. UNCHANGED <<m_state, observed, detached>>
  BY DEF ChildWrites, clientVars, callerVars
<1>2. \A u \in Token : SameView(u)
  BY <1>1 DEF SameView, StateOf
<1>3. UNCHANGED <<States, Results, Outputs>>
  BY <1>2, ViewStays
<1>4. produced[t] < MaxOutput /\ produced' = [produced EXCEPT ![t] = @ + 1]
  BY DEF ChildWrites
<1> QED
  BY <1>3, <1>4, ContractActions, Zenon

LEMMA OnlyChildrenWrite ==
    ASSUME [Next]_vars
    PROVE  UNCHANGED produced \/ \E t \in Token : ChildWrites(t)
  BY OnlyServerWrites DEF ServerTokenNext, HandleStartPacket, HandleWritePacket,
     HandleTerminatePacket, HandleKillPacket, HandleClosePacket, HandleProcessStarted,
     HandleProcessError, HandleReadyReadStandardOutput, HandleProcessFinished, Reaped, serverVars

(* Every step is one of the contract, or a stutter.                         *)
LEMMA ContractStep ==
    ASSUME CInv, [Next]_vars
    PROVE  Contract!Next \/ UNCHANGED Contract!vars
<1>1. ASSUME NEW t \in Token, RegisterHandle(t) \/ Close(t)
      PROVE  Contract!Next
  BY <1>1, RegisterKeeps, CloseKeeps, ContractActions, Zenon
<1>2. ASSUME NEW t \in Token, ProgramMissing(t) \/ Start(t)
      PROVE  Contract!Next \/ UNCHANGED Contract!vars
  <2>1. t \in launching /\ UNCHANGED <<detached, produced>>
    BY <1>2 DEF ProgramMissing, Start, serverVars
  <2>2. Emit(t, DoneSignal("FailedToStart")) \/ UNCHANGED <<m_state, observed>>
    BY <1>2 DEF ProgramMissing, Start
  <2>3. CASE UNCHANGED <<m_state, observed>>
    <3>1. \A u \in Token : SameView(u)
      BY <2>1, <2>3 DEF SameView, StateOf
    <3> QED
      BY <2>1, <3>1, ContractStutters
  <2> QED
    BY <2>1, <2>2, <2>3, MissingKeeps
<1>3. ASSUME NEW thr \in Thread, Deliver(thr) PROVE Contract!Next \/ UNCHANGED Contract!vars
  BY <1>3, DeliverKeeps
<1>4. ASSUME NEW t \in Token, ChildWrites(t) PROVE Contract!Next
  BY <1>4, ChildKeeps, ContractActions, Zenon
<1>5. CASE UNCHANGED <<m_state, observed, detached>>
  <2>1. \A u \in Token : SameView(u)
    BY <1>5 DEF SameView, StateOf
  <2>2. CASE UNCHANGED produced
    BY <2>1, <2>2, ContractStutters
  <2> QED
    BY <1>4, <2>2, OnlyChildrenWrite
<1> QED
  BY <1>1, <1>2, <1>3, <1>5, ViewSteps

LEMMA ContractInit == Init => Contract!Init
<1> SUFFICES ASSUME Init PROVE Contract!Init
  OBVIOUS
<1>1. States = [t \in Token |-> "NotRunning"]
  BY DEF Init, States, StateOf
<1>2. ASSUME NEW t \in Token PROVE ResultOf(t) = "none" /\ OutputOf(t) = <<>>
  <2>1. observed[t] = <<>>
    BY DEF Init
  <2>2. {i \in 1 .. Len(observed[t]) : observed[t][i].type = "Done"} = {}
    BY <2>1
  <2>3. [i \in DOMAIN observed[t] |->
                IF observed[t][i].type = "ReadyRead" THEN observed[t][i].data ELSE <<>>] = <<>>
    BY <2>1
  <2> QED
    BY <2>2, <2>3, FlattenAppend DEF ResultOf, SelectInSeq, IsDone, OutputOf
<1>3. Results = [t \in Token |-> "none"] /\ Outputs = [t \in Token |-> <<>>]
  BY <1>2 DEF Results, Outputs
<1>4. produced = [t \in Token |-> 0]
  BY DEF Init
<1> QED
  BY <1>1, <1>3, <1>4, Zenon DEF Contract!Init, States, StateOf, Results, Outputs

(* What the launcher, its socket and the two threads make of a process is   *)
(* what processinterface.h promises of any process, while the connection    *)
(* holds (~Faults) and no slot waits for signals (MaxDepth <= 1): started   *)
(* first, then all that the child wrote, in order and once, then one done   *)
(* with an error that fits the state, through all moves between the socket, *)
(* the launcher thread, the store of the handle and the calls that take it. *)
THEOREM LauncherKeepsContract ==
    ASSUME ~Faults, MaxDepth <= 1
    PROVE  Spec => KeepsContract
<1>1. Init => CInv /\ Contract!Init
  BY ContractInvInit, ContractInit
<1>2. CInv /\ [Next]_vars => CInv'
  BY ContractInvStep
<1>3. CInv /\ [Next]_vars => [Contract!Next]_(Contract!vars)
  BY ContractStep
<1> QED
  BY <1>1, <1>2, <1>3, PTL DEF Spec, KeepsContract, Contract!Spec
=================================================================================
