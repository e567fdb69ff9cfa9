---------------------------- MODULE ProcessLauncher ----------------------------
(***************************************************************************)
(* Qt Creator and its process launcher, composed.                          *)
(***************************************************************************)
EXTENDS LauncherSocket, LauncherServer

CallerTypeOK ==
    /\ m_state \in [Token -> ProcessState]
    /\ m_processState \in [Token -> ProcessState]
    /\ launching \in SUBSET Token
    /\ posting \in SUBSET Thread
    /\ asked \in [Token -> SUBSET RequestType]
    /\ detached \in SUBSET Token
    /\ closing \in SUBSET Token
    /\ stack \in [Thread -> Seq(Frame)]
    /\ observed \in [Token -> Seq(Signal)]

SharedTypeOK ==
    /\ used \in SUBSET Token
    /\ m_handles \in SUBSET used
    /\ m_signals \in [Token -> Seq(Signal)]
    /\ flushPosted \in [Token -> BOOLEAN]
    /\ m_socketError \in [Token -> BOOLEAN]
    /\ m_requests \in Seq(Request)
    /\ requestsPosted \in BOOLEAN

LauncherTypeOK ==
    /\ m_socket \in {"unset", "open", "lost", "stopped"}
    /\ job \in Job \cup {NoJob}
    /\ erring \in SUBSET Token

LinkTypeOK ==
    /\ c2s \in Seq(Request)
    /\ s2c \in Seq(Reply)
    /\ linkUp \in BOOLEAN

ServerTypeOK ==
    /\ server \in {"off", "up", "quitting", "down"}
    /\ process \in [Token -> {"none", "Starting", "Running", "reaping", "gone"}]
    /\ killed \in [Token -> BOOLEAN]
    /\ produced \in [Token -> 0 .. MaxOutput]
    /\ unread \in [Token -> Output]

TypeOK ==
    /\ CallerTypeOK /\ SharedTypeOK /\ LauncherTypeOK
    /\ LinkTypeOK /\ ServerTypeOK

Init ==
    /\ m_state = [t \in Token |-> "NotRunning"]
    /\ m_processState = [t \in Token |-> "NotRunning"]
    /\ launching = {}
    /\ posting = {}
    /\ asked = [t \in Token |-> {}]
    /\ detached = {}
    /\ closing = {}
    /\ stack = [thr \in Thread |-> <<>>]
    /\ observed = [t \in Token |-> <<>>]
    /\ used = {}
    /\ m_handles = {}
    /\ m_signals = [t \in Token |-> <<>>]
    /\ flushPosted = [t \in Token |-> FALSE]
    /\ m_socketError = [t \in Token |-> FALSE]
    /\ m_requests = <<>>
    /\ requestsPosted = FALSE
    /\ m_socket = "unset"
    /\ job = NoJob
    /\ erring = {}
    /\ c2s = <<>>
    /\ s2c = <<>>
    /\ linkUp = TRUE
    /\ server = "off"
    /\ process = [t \in Token |-> "none"]
    /\ killed = [t \in Token |-> FALSE]
    /\ produced = [t \in Token |-> 0]
    /\ unread = [t \in Token |-> <<>>]

(* What user code asks of a QtcProcess.                                     *)
UserNext(t) ==
    \/ RegisterHandle(t)
    \/ \E type \in {"Terminate", "Kill"} \cap Calls : Control(t, type)
    \/ "Write" \in Calls /\ Write(t)
    \/ "Close" \in Calls /\ Close(t)
    \/ \E for \in {"Started", "ReadyRead", "Done"} \cap Calls : WaitForSignal(t, for)

(* What a caller thread does on its own, for one token and as a thread.     *)
CallerTokenNext(t) ==
    \/ ProgramMissing(t)
    \/ Start(t)
    \/ DestroyInterface(t)
    \/ UnregisterHandle(t)
    \/ Flush(t)

CallerNext(thr) ==
    \/ PostHandleRequests(thr)
    \/ Deliver(thr)
    \/ FlushReturns(thr)
    \/ DoWaitForSignal(thr)
    \/ WaitTimeout(thr)
    \/ WaitTakes(thr)

LauncherNext ==
    \/ SetSocket
    \/ HandleRequests
    \/ HandleSocketDataAvailable
    \/ LockHandle
    \/ AppendSignal
    \/ FlushCaller
    \/ SocketErrorOccurred
    \/ HandleSocketDisconnected
    \/ \E t \in Token : HandleSocketError(t)
    \/ DoStop

ServerTokenNext(t) ==
    \/ HandleStartPacket(t)
    \/ HandleWritePacket(t)
    \/ HandleTerminatePacket(t)
    \/ HandleKillPacket(t)
    \/ HandleClosePacket(t)
    \/ HandleProcessStarted(t)
    \/ HandleProcessError(t)
    \/ ChildWrites(t)
    \/ HandleReadyReadStandardOutput(t)
    \/ HandleProcessFinished(t)
    \/ Reaped(t)

ServerNext ==
    \/ LauncherStarted
    \/ HandleShutdownPacket
    \/ HandleSocketClosed
    \/ HandleServerSocketError
    \/ LauncherNotConnected
    \/ LauncherFinished

Next ==
    \/ \E t \in Token : UserNext(t) \/ CallerTokenNext(t) \/ ServerTokenNext(t)
    \/ \E thr \in Thread : CallerNext(thr)
    \/ LauncherNext
    \/ ServerNext

Spec == Init /\ [][Next]_vars

(* The launcher thread and the launcher helper run whenever they have       *)
(* something to do, and so does a caller thread inside one of its own       *)
(* calls.  An event loop that user code keeps coming back to runs what is   *)
(* queued in it, first in, first out: strong fairness for the queued flush  *)
(* and the deferred deletion.  Nothing is assumed of user code, of          *)
(* timeouts, of faults, of a child that has not been killed, nor that the   *)
(* application ever shuts down.                                             *)
Fairness ==
    /\ \A t \in Token :
        /\ WF_vars(Start(t)) /\ WF_vars(UnregisterHandle(t))
        /\ SF_vars(Flush(t)) /\ SF_vars(DestroyInterface(t))
        /\ WF_vars(HandleSocketError(t))
        /\ WF_vars(HandleStartPacket(t)) /\ WF_vars(HandleWritePacket(t))
        /\ WF_vars(HandleTerminatePacket(t)) /\ WF_vars(HandleKillPacket(t))
        /\ WF_vars(HandleClosePacket(t))
        /\ WF_vars(HandleProcessStarted(t) \/ HandleProcessError(t))
        /\ WF_vars(killed[t] /\ HandleProcessFinished(t))
        /\ WF_vars(Reaped(t))
    /\ \A thr \in Thread :
        /\ WF_vars(PostHandleRequests(thr)) /\ WF_vars(Deliver(thr))
        /\ WF_vars(FlushReturns(thr)) /\ WF_vars(WaitTakes(thr))
        /\ WF_vars(DoWaitForSignal(thr))
    /\ WF_vars(SetSocket) /\ WF_vars(HandleRequests)
    /\ WF_vars(HandleSocketDataAvailable) /\ WF_vars(LockHandle)
    /\ WF_vars(AppendSignal) /\ WF_vars(FlushCaller)
    /\ WF_vars(HandleSocketDisconnected)
    /\ WF_vars(LauncherStarted) /\ WF_vars(LauncherNotConnected)
    /\ WF_vars(HandleShutdownPacket) /\ WF_vars(HandleSocketClosed)
    /\ WF_vars(LauncherFinished)

FairSpec == Spec /\ Fairness

------------------------------------------------------------------------------
(* Safety of the two threads inside Qt Creator.                             *)

(* A thread that sleeps in waitForSignal has nothing stored to flush,       *)
(* unless the launcher thread is inside the handler that will wake it.      *)
(* doWaitForSignal looks at m_signals under LauncherHandle::m_mutex and     *)
(* lets go of it only in the wait; the handlers of LauncherHandle hold the  *)
(* mutex from the first appendSignal to flushCaller.                        *)
NoLostWakeup ==
    \A thr \in Thread, t \in Token :
        Asleep(thr, t) => m_signals[t] = <<>> \/ Locked(t)

(* A stored signal is never forgotten: a call of CallerHandle::flush is     *)
(* queued in the owner's event loop, or the launcher thread is about to     *)
(* queue one.  flushFor(Started) leaves signals behind and relies on it.    *)
NoStrandedSignal ==
    \A t \in Token : m_signals[t] # <<>> => flushPosted[t] \/ Locked(t)

(* A queued request is never forgotten while there is a socket: a call of   *)
(* handleRequests is queued, or a caller thread is about to queue one.      *)
(* sendData queues the call only for the first request, and after it has    *)
(* released the lock under which it stored that request.                    *)
NoStrandedRequest ==
    m_requests # <<>> /\ m_socket = "open" => requestsPosted \/ posting # {}

(* So what one thread stores for another gets there, though no event and no *)
(* wake-up follows the ones that are due now.                               *)
NothingIsStranded == NoLostWakeup /\ NoStrandedSignal /\ NoStrandedRequest

(* A handle that unregisterHandle has cut off is left alone: the launcher   *)
(* thread may still hold a pointer it got from handleForToken, but it       *)
(* stores nothing for it and queues no call to it.                          *)
SilentAfterUnregister ==
    \A t \in used \ m_handles : ~Locked(t) /\ m_signals[t] = <<>> /\ ~flushPosted[t]

------------------------------------------------------------------------------
(* Safety of Qt Creator and the launcher together.                          *)

(* The requests on their way to the launcher, the oldest first.             *)
Requests == c2s \o m_requests

Count(seq, S) == Cardinality({i \in DOMAIN seq : seq[i] \in S})

DoneSignals == [type : {"Done"}, error : ProcessError]
DonePackets(t) == [type : {"ProcessDone"}, tok : {t}, data : Output, error : ProcessError]

(* What the flushes and waits of a thread have taken for a token and have   *)
(* still to handle of the signals of a set.                                 *)
Taken(frames, t, S) ==
    Cardinality(UNION {{i} \X {j \in DOMAIN frames[i].todo : frames[i].todo[j] \in S} :
                          i \in {k \in DOMAIN frames : frames[k].tok = t}})

(* The news of a process's end between the launcher and the QtcProcess.     *)
DoneInTransit(t) ==
    Count(s2c, DonePackets(t))
    + (IF job.tok = t THEN Count(job.todo, DoneSignals) ELSE 0)
    + Count(m_signals[t], DoneSignals)
    + Taken(stack[ThreadOf[t]], t, DoneSignals)

StartRequest(t) == [type |-> "StartProcess", tok |-> t]

(* What can still lead to the end of a process being reported: its start    *)
(* request, the process, or the report itself.                              *)
Answers(t) ==
    Count(Requests, {StartRequest(t)})
    + (IF InProcesses(t) THEN 1 ELSE 0)
    + DoneInTransit(t)

(* As long as the connection holds, a process that its CallerHandle thinks  *)
(* is starting or running will be reported as done exactly once, and        *)
(* nothing more will be reported of one that is not running.                *)
ExactlyOneAnswer ==
    linkUp => \A t \in m_handles \ closing :
                Answers(t) = IF m_processState[t] = "NotRunning" THEN 0 ELSE 1

(* When the connection is lost, every process that was starting or running  *)
(* and whose handle has been told, or is about to be, is reported as done.  *)
LossIsReported ==
    \A t \in m_handles :
        m_processState[t] # "NotRunning" /\ m_socketError[t] => DoneInTransit(t) > 0

------------------------------------------------------------------------------
(* The contract of ProcessInterface.                                        *)

(* All the output a QtcProcess has been given, in the order it got it.      *)
OutputOf(t) ==
    FlattenSeq([i \in DOMAIN observed[t] |->
        IF observed[t][i].type = "ReadyRead" THEN observed[t][i].data ELSE <<>>])

IsDone(signal) == signal.type = "Done"

(* The error of the first done signal.                                      *)
ResultOf(t) ==
    LET i == SelectInSeq(observed[t], IsDone)
    IN  IF i = 0 THEN "none" ELSE observed[t][i].error

Contract == INSTANCE ProcessInterface
                WITH Run <- Token,
                     state <- [t \in Token |->
                                IF t \in detached THEN "Closed" ELSE m_state[t]],
                     result <- [t \in Token |-> ResultOf(t)],
                     written <- produced,
                     output <- [t \in Token |-> OutputOf(t)]

(* What the launcher, its socket and the two threads make of a process is   *)
(* what processinterface.h promises of any process: while the connection    *)
(* holds and no slot waits for signals, a QtcProcess sees started, then all *)
(* the child wrote, in order and once, then one done with an error that     *)
(* fits the state.                                                          *)
KeepsContract == Contract!Spec

------------------------------------------------------------------------------
(* Liveness.                                                                *)

(* A process that was told to die while the connection holds is eventually  *)
(* not running for its QtcProcess, whatever its threads were doing when it  *)
(* died: kill() is not lost between the queue, the socket and a helper that *)
(* is only starting, and the news of the end is not lost on the way back.   *)
KilledProcessIsDone ==
    \A t \in Token : "Kill" \in asked[t] ~> m_state[t] = "NotRunning"

(* The child of a QtcProcess that has been closed is gone some day, and     *)
(* does not come back: even when its start request was still queued, and    *)
(* even when the connection is lost.                                        *)
ClosedProcessIsReaped ==
    \A t \in Token : t \in detached ~> [](~Alive(t))

(* When Qt Creator stops the launcher, the launcher ends: doStop waits for  *)
(* it without a timeout.                                                    *)
StoppedLauncherEnds == m_socket = "stopped" ~> server = "down"
=============================================================================
