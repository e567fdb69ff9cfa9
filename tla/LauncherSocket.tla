---------------------------- MODULE LauncherSocket ----------------------------
(***************************************************************************)
(* Qt Creator's side of the process launcher: CallerHandle, LauncherHandle *)
(* and LauncherSocket of libs/utils/launchersocket.cpp, the parts of       *)
(* libs/utils/qtcprocess.cpp that drive a CallerHandle                     *)
(* (ProcessLauncherImpl, and the three handlers of QtcProcessPrivate), and *)
(* LauncherInterface's start and stop.                                     *)
(*                                                                         *)
(* A step of a caller thread is what it does under one lock, or between    *)
(* two points where another thread can see it.  A caller thread acts only  *)
(* when it is not inside one of its own calls; user code runs from the     *)
(* event loop, or from a slot of a signal that is being delivered.         *)
(***************************************************************************)
EXTENDS LauncherState, SequencesExt

Busy(thr) == thr \in posting \/ \E t \in launching \cup closing : ThreadOf[t] = thr

Top(thr) == Head(stack[thr])
InCall(thr) == stack[thr] # <<>>
InEventLoop(thr) == ~Busy(thr) /\ ~InCall(thr)

(* User code can run in this thread.                                       *)
UserCode(thr) == ~Busy(thr) /\ (InCall(thr) => Top(thr).pc = "deliver" /\ Top(thr).inSlot)

Push(thr, frame) == stack' = [stack EXCEPT ![thr] = <<frame>> \o @]
Pop(thr) == stack' = [stack EXCEPT ![thr] = Tail(@)]
SetTop(thr, frame) == stack' = [stack EXCEPT ![thr] = <<frame>> \o Tail(@)]

------------------------------------------------------------------------------
(* Sending: LauncherInterface::sendData, LauncherSocket::sendData.          *)

(* storeRequest: queue the packet; the thread that made the queue non-empty *)
(* must call handleRequests, which it does after it has let go of the lock. *)
SendPacket(thr, type, t) ==
    /\ m_requests' = Append(m_requests, [type |-> type, tok |-> t])
    /\ posting' = IF Len(m_requests') = 1 THEN posting \cup {thr} ELSE posting

NothingSent == UNCHANGED <<m_requests, posting>>

(* The second half of sendData.                                             *)
PostHandleRequests(thr) ==
    /\ thr \in posting
    /\ posting' = posting \ {thr}
    /\ requestsPosted' = TRUE
    /\ UNCHANGED <<m_state, m_processState, launching, asked, detached, closing,
                   stack, observed, used, m_handles, m_signals, flushPosted,
                   m_socketError, m_requests, launcherVars, linkVars, serverVars>>

------------------------------------------------------------------------------
(* What the QtcProcess does with a signal of its interface: handleStarted,  *)
(* handleReadyRead and handleDone of QtcProcessPrivate.  An interface that  *)
(* close() has disconnected reaches nobody.                                 *)
Emit(t, signal) ==
    IF t \in detached
    THEN UNCHANGED <<m_state, observed>>
    ELSE /\ observed' = [observed EXCEPT ![t] = Append(@, signal)]
         /\ m_state' = [m_state EXCEPT ![t] =
                CASE signal.type = "Started" -> "Running"
                  [] signal.type = "Done" -> "NotRunning"
                  [] OTHER -> @]

(* QtcProcess::start with a ProcessLauncherImpl: a new token is registered. *)
RegisterHandle(t) ==
    /\ UserCode(ThreadOf[t])
    /\ t \notin used
    /\ m_socket # "stopped"
    /\ used' = used \cup {t}
    /\ m_handles' = m_handles \cup {t}
    /\ launching' = launching \cup {t}
    /\ m_state' = [m_state EXCEPT ![t] = "Starting"]
    /\ UNCHANGED <<m_processState, posting, asked, detached, closing, stack,
                   observed, m_signals, flushPosted, m_socketError, m_requests,
                   requestsPosted, launcherVars, linkVars, serverVars>>

(* DefaultImpl::start gives up before it reaches the launcher: the command  *)
(* line is wrong, or the program is missing or not executable.              *)
ProgramMissing(t) ==
    /\ t \in launching
    /\ launching' = launching \ {t}
    /\ Emit(t, DoneSignal("FailedToStart"))
    /\ UNCHANGED <<m_processState, posting, asked, detached, closing, stack,
                   sharedVars, launcherVars, linkVars, serverVars>>

(* CallerHandle::start.                                                     *)
Start(t) ==
    /\ t \in launching
    /\ launching' = launching \ {t}
    /\ IF m_socketError[t]
       THEN /\ Emit(t, DoneSignal("FailedToStart"))
            /\ NothingSent
            /\ UNCHANGED m_processState
       ELSE /\ m_processState' = [m_processState EXCEPT ![t] = "Starting"]
            /\ SendPacket(ThreadOf[t], "StartProcess", t)
            /\ UNCHANGED <<m_state, observed>>
    /\ UNCHANGED <<asked, detached, closing, stack, used, m_handles, m_signals,
                   flushPosted, m_socketError, requestsPosted, launcherVars,
                   linkVars, serverVars>>

(* QtcProcess::terminate and kill: sendControlSignal checks the state of    *)
(* the front end, sendStopPacket that of the handle.  The model sends each  *)
(* kind of packet once per process.                                         *)
Control(t, type) ==
    /\ UserCode(ThreadOf[t])
    /\ t \in m_handles \ detached
    /\ type \notin asked[t]
    /\ m_state[t] # "NotRunning"
    /\ asked' = [asked EXCEPT ![t] = @ \cup {type}]
    /\ IF m_processState[t] = "NotRunning"
       THEN NothingSent
       ELSE SendPacket(ThreadOf[t], type, t)
    /\ UNCHANGED <<m_state, m_processState, launching, detached, closing, stack,
                   observed, used, m_handles, m_signals, flushPosted,
                   m_socketError, requestsPosted, launcherVars, linkVars, serverVars>>

(* QtcProcess::writeRaw and CallerHandle::write.                            *)
Write(t) ==
    /\ UserCode(ThreadOf[t])
    /\ t \in m_handles \ detached
    /\ "WriteIntoProcess" \notin asked[t]
    /\ m_state[t] = "Running"
    /\ asked' = [asked EXCEPT ![t] = @ \cup {"WriteIntoProcess"}]
    /\ IF m_processState[t] = "Running"
       THEN SendPacket(ThreadOf[t], "WriteIntoProcess", t)
       ELSE NothingSent
    /\ UNCHANGED <<m_state, m_processState, launching, detached, closing, stack,
                   observed, used, m_handles, m_signals, flushPosted,
                   m_socketError, requestsPosted, launcherVars, linkVars, serverVars>>

------------------------------------------------------------------------------
(* The end of a handle.                                                     *)

(* QtcProcess::close: the interface is disconnected and left to             *)
(* deleteLater; the front end is as new.                                    *)
Close(t) ==
    /\ UserCode(ThreadOf[t])
    /\ t \in m_handles \ detached
    /\ detached' = detached \cup {t}
    /\ m_state' = [m_state EXCEPT ![t] = "NotRunning"]
    /\ UNCHANGED <<m_processState, launching, posting, asked, closing, stack,
                   observed, sharedVars, launcherVars, linkVars, serverVars>>

(* ~ProcessLauncherImpl, first half: CallerHandle::close.  The deferred     *)
(* deletion is done by the event loop.                                      *)
DestroyInterface(t) ==
    /\ InEventLoop(ThreadOf[t])
    /\ t \in (m_handles \cap detached) \ closing
    /\ closing' = closing \cup {t}
    /\ IF m_processState[t] = "NotRunning"
       THEN NothingSent
       ELSE SendPacket(ThreadOf[t], "Close", t)
    /\ UNCHANGED <<m_state, m_processState, launching, asked, detached, stack,
                   observed, used, m_handles, m_signals, flushPosted,
                   m_socketError, requestsPosted, launcherVars, linkVars, serverVars>>

(* ~ProcessLauncherImpl, second half: LauncherSocket::unregisterHandle.  It *)
(* takes the mutex of the LauncherHandle to cut it off its CallerHandle,    *)
(* which dies with its stored signals and its queued calls.                 *)
UnregisterHandle(t) ==
    /\ t \in closing
    /\ ThreadOf[t] \notin posting
    /\ ~Locked(t)
    /\ closing' = closing \ {t}
    /\ m_handles' = m_handles \ {t}
    /\ m_signals' = [m_signals EXCEPT ![t] = <<>>]
    /\ flushPosted' = [flushPosted EXCEPT ![t] = FALSE]
    /\ UNCHANGED <<m_state, m_processState, launching, posting, asked, detached,
                   stack, observed, used, m_socketError, m_requests,
                   requestsPosted, launcherVars, linkVars, serverVars>>

------------------------------------------------------------------------------
(* Receiving: CallerHandle::flush, flushFor, LauncherHandle::waitForSignal. *)

Types(signals) == {signals[i].type : i \in DOMAIN signals}

(* flushFor takes the first n of the stored signals: for Started, when it   *)
(* is stored, those up to the last Started; for Started, when neither it    *)
(* nor Done is stored, none; all of them in every other case.               *)
FlushUpTo(for, signals, n) ==
    IF for = "Started" /\ "Started" \in Types(signals)
    THEN /\ n \in DOMAIN signals /\ signals[n].type = "Started"
         /\ \A i \in n + 1 .. Len(signals) : signals[i].type # "Started"
    ELSE n = IF for = "Started" /\ "Done" \notin Types(signals) THEN 0 ELSE Len(signals)

TakeSignals(t, n) ==
    m_signals' = [m_signals EXCEPT ![t] = SubSeq(@, n + 1, Len(@))]

FlushFrame(t, for, n) ==
    [tok |-> t, for |-> for, pc |-> "deliver", matched |-> FALSE, inSlot |-> FALSE,
     todo |-> SubSeq(m_signals[t], 1, n)]

(* The event loop runs a queued CallerHandle::flush.                        *)
Flush(t) ==
    /\ InEventLoop(ThreadOf[t])
    /\ flushPosted[t]
    /\ flushPosted' = [flushPosted EXCEPT ![t] = FALSE]
    /\ \E n \in 0 .. Len(m_signals[t]) :
        /\ FlushUpTo("NoSignal", m_signals[t], n)
        /\ TakeSignals(t, n)
        /\ Push(ThreadOf[t], FlushFrame(t, "NoSignal", n))
    /\ UNCHANGED <<m_state, m_processState, launching, posting, asked, detached,
                   closing, observed, used, m_handles, m_socketError, m_requests,
                   requestsPosted, launcherVars, linkVars, serverVars>>

(* The loop of flushFor handles one signal: handleStarted, handleReadyRead  *)
(* or handleDone of CallerHandle, and the slot connected to what it emits.  *)
Deliver(thr) ==
    /\ ~Busy(thr) /\ InCall(thr) /\ Top(thr).pc = "deliver" /\ Top(thr).todo # <<>>
    /\ LET frame == Top(thr)
           signal == Head(frame.todo)
       IN  /\ m_processState' = [m_processState EXCEPT ![frame.tok] =
                    CASE signal.type = "Started" -> "Running"
                      [] signal.type = "Done" -> "NotRunning"
                      [] OTHER -> @]
           /\ Emit(frame.tok, signal)
           /\ SetTop(thr, [frame EXCEPT
                    !.todo = Tail(@),
                    !.matched = @ \/ signal.type \in {frame.for, "Done"},
                    !.inSlot = frame.tok \notin detached])
    /\ UNCHANGED <<launching, posting, asked, detached, closing, sharedVars,
                   launcherVars, linkVars, serverVars>>

(* flushFor returns: to the event loop, to the caller of waitForSignal when *)
(* a signal matched, or to the loop of waitForSignal.                       *)
FlushReturns(thr) ==
    /\ ~Busy(thr) /\ InCall(thr) /\ Top(thr).pc = "deliver" /\ Top(thr).todo = <<>>
    /\ IF Top(thr).for = "NoSignal" \/ Top(thr).matched
       THEN Pop(thr)
       ELSE SetTop(thr, [Top(thr) EXCEPT !.pc = "check", !.inSlot = FALSE])
    /\ UNCHANGED <<m_state, m_processState, launching, posting, asked, detached,
                   closing, observed, sharedVars, launcherVars, linkVars, serverVars>>

(* QtcProcess::waitForStarted, waitForReadyRead, waitForFinished.           *)
WaitForSignal(t, for) ==
    /\ UserCode(ThreadOf[t])
    /\ t \in m_handles \ detached
    /\ IF for = "Started" THEN m_state[t] = "Starting" ELSE m_state[t] # "NotRunning"
    /\ Len(stack[ThreadOf[t]]) < MaxDepth
    /\ Push(ThreadOf[t], [tok |-> t, for |-> for, pc |-> "check", todo |-> <<>>,
                          matched |-> FALSE, inSlot |-> FALSE])
    /\ UNCHANGED <<m_state, m_processState, launching, posting, asked, detached,
                   closing, observed, sharedVars, launcherVars, linkVars, serverVars>>

SetPc(thr, pc) == SetTop(thr, [Top(thr) EXCEPT !.pc = pc])

(* doWaitForSignal, under LauncherHandle::m_mutex: there is something to    *)
(* flush, or the thread sleeps, which releases the mutex.                   *)
DoWaitForSignal(thr) ==
    /\ ~Busy(thr) /\ InCall(thr) /\ Top(thr).pc = "check"
    /\ ~Locked(Top(thr).tok)
    /\ SetPc(thr, IF m_signals[Top(thr).tok] # <<>> THEN "take" ELSE "asleep")
    /\ UNCHANGED <<m_state, m_processState, launching, posting, asked, detached,
                   closing, observed, sharedVars, launcherVars, linkVars, serverVars>>

(* The deadline has expired, in the loop of waitForSignal or in the wait.   *)
WaitTimeout(thr) ==
    /\ ~Busy(thr) /\ InCall(thr) /\ Top(thr).pc \in {"check", "asleep"}
    /\ Pop(thr)
    /\ UNCHANGED <<m_state, m_processState, launching, posting, asked, detached,
                   closing, observed, sharedVars, launcherVars, linkVars, serverVars>>

(* waitForSignal calls flushFor.                                            *)
WaitTakes(thr) ==
    /\ ~Busy(thr) /\ InCall(thr) /\ Top(thr).pc = "take"
    /\ LET t == Top(thr).tok
       IN  \E n \in 0 .. Len(m_signals[t]) :
            /\ FlushUpTo(Top(thr).for, m_signals[t], n)
            /\ TakeSignals(t, n)
            /\ SetTop(thr, FlushFrame(t, Top(thr).for, n))
    /\ UNCHANGED <<m_state, m_processState, launching, posting, asked, detached,
                   closing, observed, used, m_handles, flushPosted, m_socketError,
                   m_requests, requestsPosted, launcherVars, linkVars, serverVars>>

------------------------------------------------------------------------------
(* The launcher thread.                                                     *)

LauncherIdle == job = NoJob /\ erring = {}

(* handleRequests with a socket: all that is queued is written to it.       *)
WriteRequests ==
    /\ c2s' = IF linkUp THEN c2s \o m_requests ELSE c2s
    /\ m_requests' = <<>>
    /\ UNCHANGED <<s2c, linkUp>>

(* LauncherInterfacePrivate::handleNewConnection and setSocket.             *)
SetSocket ==
    /\ LauncherIdle
    /\ m_socket = "unset" /\ server = "up"
    /\ m_socket' = "open"
    /\ WriteRequests
    /\ UNCHANGED <<callerVars, used, m_handles, m_signals, flushPosted,
                   m_socketError, requestsPosted, job, erring, serverVars>>

(* The queued call of handleRequests.                                       *)
HandleRequests ==
    /\ LauncherIdle
    /\ requestsPosted
    /\ requestsPosted' = FALSE
    /\ IF m_socket = "open" THEN WriteRequests ELSE UNCHANGED <<m_requests, linkVars>>
    /\ UNCHANGED <<callerVars, used, m_handles, m_signals, flushPosted,
                   m_socketError, launcherVars, serverVars>>

(* Faulty: the end of a process is told before its last output.             *)
SignalsOfDoneFirst(packet) ==
    LET output == IF packet.data = <<>> THEN <<>> ELSE <<ReadyReadSignal(packet.data)>>
    IN  CASE packet.type = "ProcessStarted" -> <<StartedSignal>>
          [] packet.type = "ReadyReadStandardOutput" -> output
          [] packet.type = "ProcessDone" -> <<DoneSignal(packet.error)>> \o output

(* The signals a packet is turned into.                                     *)
SignalsOf(packet) ==
    LET output == IF packet.data = <<>> THEN <<>> ELSE <<ReadyReadSignal(packet.data)>>
    IN  CASE packet.type = "ProcessStarted" -> <<StartedSignal>>
          [] packet.type = "ReadyReadStandardOutput" -> output
          [] packet.type = "ProcessDone" -> Append(output, DoneSignal(packet.error))

(* handleSocketDataAvailable: the next packet goes to the handle of its     *)
(* token; when the handle is gone, the packet is dropped.                   *)
HandleSocketDataAvailable ==
    /\ LauncherIdle
    /\ m_socket = "open" /\ s2c # <<>>
    /\ s2c' = Tail(s2c)
    /\ job' = IF Head(s2c).tok \in m_handles
              THEN [tok |-> Head(s2c).tok, todo |-> SignalsOf(Head(s2c)), locked |-> FALSE]
              ELSE NoJob
    /\ UNCHANGED <<callerVars, sharedVars, m_socket, erring, c2s, linkUp, serverVars>>

(* Faulty: nobody looks whether the CallerHandle is still there.            *)
LockHandleUnchecked ==
    /\ job # NoJob /\ ~job.locked
    /\ job' = IF job.todo # <<>> THEN [job EXCEPT !.locked = TRUE] ELSE NoJob
    /\ UNCHANGED <<callerVars, sharedVars, m_socket, erring, linkVars, serverVars>>

(* Every handler of LauncherHandle locks the mutex and looks whether the    *)
(* CallerHandle is still there, and whether there is anything to say.       *)
LockHandle ==
    /\ job # NoJob /\ ~job.locked
    /\ job' = IF job.tok \in m_handles /\ job.todo # <<>>
              THEN [job EXCEPT !.locked = TRUE] ELSE NoJob
    /\ UNCHANGED <<callerVars, sharedVars, m_socket, erring, linkVars, serverVars>>

(* CallerHandle::appendSignal.                                              *)
AppendSignal ==
    /\ job.locked /\ job.todo # <<>>
    /\ m_signals' = [m_signals EXCEPT ![job.tok] = Append(@, Head(job.todo))]
    /\ job' = [job EXCEPT !.todo = Tail(@)]
    /\ UNCHANGED <<callerVars, used, m_handles, flushPosted, m_socketError,
                   m_requests, requestsPosted, m_socket, erring, linkVars, serverVars>>

(* The sleeper on the condition of this handle, if there is one.            *)
Asleep(thr, t) == InCall(thr) /\ Top(thr).pc = "asleep" /\ Top(thr).tok = t

(* m_waitCondition.wakeOne(): the woken thread goes on to flushFor.         *)
WakeOne(t) ==
    stack' = [thr \in Thread |->
                IF Asleep(thr, t)
                THEN <<[Top(thr) EXCEPT !.pc = "take"]>> \o Tail(stack[thr])
                ELSE stack[thr]]

(* Faulty: a thread that was woken is thought to take all the signals.      *)
PostFlushUnlessWaiting(t) ==
    flushPosted' = IF \E thr \in Thread : Asleep(thr, t) THEN flushPosted
                   ELSE [flushPosted EXCEPT ![t] = TRUE]

(* QMetaObject::invokeMethod(m_callerHandle, &CallerHandle::flush).         *)
PostFlush(t) == flushPosted' = [flushPosted EXCEPT ![t] = TRUE]

(* flushCaller, and the end of the handler, which unlocks the mutex.        *)
FlushCaller ==
    /\ job.locked /\ job.todo = <<>>
    /\ WakeOne(job.tok)
    /\ PostFlush(job.tok)
    /\ job' = NoJob
    /\ UNCHANGED <<m_state, m_processState, launching, posting, asked, detached,
                   closing, observed, used, m_handles, m_signals, m_socketError,
                   m_requests, requestsPosted, m_socket, erring, linkVars, serverVars>>

(* handleError: the socket is given up, and errorOccurred is emitted to all *)
(* handles registered at that time.  What has not been read is lost.        *)
HandleError ==
    /\ LauncherIdle
    /\ m_socket = "open"
    /\ m_socket' = "lost"
    /\ linkUp' = FALSE
    /\ s2c' = <<>>
    /\ erring' = m_handles
    /\ UNCHANGED <<callerVars, sharedVars, job, c2s, serverVars>>

(* LauncherSocket::handleSocketError, a fault of the connection.            *)
SocketErrorOccurred == Faults /\ HandleError

(* handleSocketDisconnected: the launcher has closed its end; what it had   *)
(* sent has been read.                                                      *)
HandleSocketDisconnected == ~linkUp /\ s2c = <<>> /\ HandleError

(* Faulty: the loss of the socket is noted, and nobody is told.             *)
HandleSocketErrorSilently(t) ==
    /\ job = NoJob /\ t \in erring
    /\ erring' = erring \ {t}
    /\ m_socketError' = [m_socketError EXCEPT ![t] = TRUE]
    /\ job' = [tok |-> t, todo |-> <<>>, locked |-> FALSE]
    /\ UNCHANGED <<callerVars, used, m_handles, m_signals, flushPosted, m_requests,
                   requestsPosted, m_socket, linkVars, serverVars>>

(* LauncherHandle::handleSocketError: the flag is set before the mutex is   *)
(* taken.                                                                   *)
HandleSocketError(t) ==
    /\ job = NoJob /\ t \in erring
    /\ erring' = erring \ {t}
    /\ m_socketError' = [m_socketError EXCEPT ![t] = TRUE]
    /\ job' = [tok |-> t, todo |-> <<DoneSignal("FailedToStart")>>, locked |-> FALSE]
    /\ UNCHANGED <<callerVars, used, m_handles, m_signals, flushPosted, m_requests,
                   requestsPosted, m_socket, linkVars, serverVars>>

(* Faulty: the server goes on listening when nobody has connected yet.      *)
DoStopStillListening ==
    /\ LauncherIdle
    /\ m_socket # "stopped" /\ m_handles = {} /\ posting = {}
    /\ m_socket' = "stopped"
    /\ c2s' = IF m_socket = "open" /\ linkUp
              THEN Append(c2s, [type |-> "Shutdown", tok |-> NoToken]) ELSE c2s
    /\ linkUp' = (linkUp /\ m_socket # "lost")
    /\ UNCHANGED <<callerVars, sharedVars, job, erring, s2c, serverVars>>

(* LauncherInterfacePrivate::doStop, when the application shuts down: the   *)
(* launcher is told to quit, if there is a connection.                      *)
DoStop ==
    /\ LauncherIdle
    /\ m_socket # "stopped" /\ m_handles = {} /\ posting = {}
    /\ m_socket' = "stopped"
    /\ c2s' = IF m_socket = "open" /\ linkUp
              THEN Append(c2s, [type |-> "Shutdown", tok |-> NoToken]) ELSE c2s
    /\ linkUp' = (linkUp /\ m_socket = "open")
    /\ UNCHANGED <<callerVars, sharedVars, job, erring, s2c, serverVars>>
=============================================================================
