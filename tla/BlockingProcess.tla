----------------------------- MODULE BlockingProcess -----------------------------
(***************************************************************************)
(* A QtcProcess whose ProcessInterface has no blocking interface of its    *)
(* own: a terminal, or a process on a remote device.  To wait for it,      *)
(* GeneralProcessBlockingImpl of libs/utils/qtcprocess.cpp moves it,       *)
(* together with its ProcessInterfaceHandler, into a thread that exists    *)
(* for that one wait, and sleeps.  The module also has the kill timer of   *)
(* QtcProcess::stop, which a wait must not hold up.                        *)
(*                                                                         *)
(* There are two threads: the caller, which owns the QtcProcess, and the   *)
(* temporary one.  A step is what one of them does under m_mutex, or       *)
(* between two points where the other can see it.                          *)
(***************************************************************************)
EXTENDS Naturals, Sequences

CONSTANTS
    MaxOutput,  \* how often the process writes
    MaxDepth,   \* how deep calls nest: a slot that waits is one deeper
    Calls       \* what user code asks of the QtcProcess in this instance

ASSUME BoundsAssumption == MaxOutput \in Nat /\ MaxDepth \in Nat
ASSUME CallsAssumption ==
    Calls \subseteq {"Kill", "Stop", "StopInSlot", "Close", "Started", "ReadyRead", "Done"}

VARIABLES
    m_state,        \* QtcProcessPrivate::m_state
    m_killTimer,    \* QtcProcessPrivate::m_killTimer: "stopped" or "active"
    closed,         \* "no", "closing" until deferred deletion, "deleted"
    stack,          \* the flush and waitForSignal calls the caller is inside of
    output,         \* history: what the QtcProcess has been given to read, in order
    result,         \* history: the error done came with, or "none"
    slotWaits,      \* history: a slot has waited for the process
    m_signals,      \* GeneralProcessBlockingImpl::m_signals
    flushPosted,    \* a queued flush is in the event queue of the caller
    handlerThread,  \* where m_processHandler lives: "caller" or "temporary"
    appending,      \* where appendSignal of the temporary thread stands
    interface,      \* the process, as its interface sees it
    killed,         \* the interface was told to kill it
    written         \* how often it has written

callerVars == <<m_state, m_killTimer, closed, stack, output, result, slotWaits>>
sharedVars == <<m_signals, flushPosted, handlerThread, appending>>
interfaceVars == <<interface, killed, written>>
vars == <<callerVars, sharedVars, interfaceVars>>

ProcessState == {"NotRunning", "Starting", "Running"}
ProcessError == {"FailedToStart", "Crashed", "UnknownError"}

StartedSignal == [type |-> "Started"]
ReadyReadSignal(piece) == [type |-> "ReadyRead", piece |-> piece]
DoneSignal(error) == [type |-> "Done", error |-> error]

Signal == [type : {"Started"}]
            \cup [type : {"ReadyRead"}, piece : 1 .. MaxOutput]
            \cup [type : {"Done"}, error : ProcessError]

(* A flush, or a waitForSignal: what it waits for, where it stands, the     *)
(* signals it took and has still to handle, whether one matched, whether a  *)
(* slot has run since, whether it has no timeout, and whether the kill      *)
(* timer expires before the timeout.                                        *)
Frame == [for : {"NoSignal", "Started", "ReadyRead", "Done"},
          pc : {"check", "asleep", "take", "deliver", "back"},
          todo : Seq(Signal), matched : BOOLEAN, inSlot : BOOLEAN,
          forever : BOOLEAN, split : BOOLEAN]

TypeOK ==
    /\ m_state \in ProcessState
    /\ m_killTimer \in {"stopped", "active"}
    /\ closed \in {"no", "closing", "deleted"}
    /\ stack \in Seq(Frame)
    /\ output \in Seq(1 .. MaxOutput)
    /\ result \in ProcessError \cup {"none"}
    /\ slotWaits \in BOOLEAN
    /\ m_signals \in Seq(Signal)
    /\ flushPosted \in BOOLEAN
    /\ handlerThread \in {"caller", "temporary"}
    /\ appending \in {"no", "wake", "post"}
    /\ interface \in {"idle", "Starting", "Running", "ended"}
    /\ killed \in BOOLEAN
    /\ written \in 0 .. MaxOutput

Init ==
    /\ m_state = "NotRunning"
    /\ m_killTimer = "stopped"
    /\ closed = "no"
    /\ stack = <<>>
    /\ output = <<>>
    /\ result = "none"
    /\ slotWaits = FALSE
    /\ m_signals = <<>>
    /\ flushPosted = FALSE
    /\ handlerThread = "caller"
    /\ appending = "no"
    /\ interface = "idle"
    /\ killed = FALSE
    /\ written = 0

------------------------------------------------------------------------------
(* The caller's thread.                                                     *)

InCall == stack # <<>>
InEventLoop == ~InCall
Top == Head(stack)

(* User code runs from the event loop, or from a slot of a signal that is   *)
(* being delivered.                                                         *)
UserCode == InCall => Top.pc = "deliver" /\ Top.inSlot

SetTop(frame) == stack' = <<frame>> \o Tail(stack)
Pop == stack' = Tail(stack)

FlushFrame(signals) ==
    [for |-> "NoSignal", pc |-> "deliver", todo |-> signals, matched |-> FALSE,
     inSlot |-> FALSE, forever |-> FALSE, split |-> FALSE]

(* QtcProcess::start; the model starts its process once.                    *)
Start ==
    /\ InEventLoop
    /\ interface = "idle"
    /\ m_state' = "Starting"
    /\ interface' = "Starting"
    /\ UNCHANGED <<m_killTimer, closed, stack, output, result, slotWaits, sharedVars,
                   killed, written>>

(* QtcProcessPrivate::sendControlSignal waits for the thread the interface  *)
(* lives in to take the call, which it does between two signals.            *)
CanSendControlSignal == m_state # "NotRunning" /\ appending = "no"

Kill ==
    /\ UserCode
    /\ CanSendControlSignal /\ ~killed
    /\ killed' = TRUE
    /\ UNCHANGED <<callerVars, sharedVars, interface, written>>

(* QtcProcess::stop.  What it asks for first, the process may ignore.       *)
Stop ==
    /\ UserCode
    /\ (IF InCall THEN "StopInSlot" ELSE "Stop") \in Calls
    /\ CanSendControlSignal
    /\ m_killTimer' = "active"
    /\ UNCHANGED <<m_state, closed, stack, output, result, slotWaits, sharedVars,
                   interfaceVars>>

(* The timeout of m_killTimer, in the event loop.                           *)
KillTimeout ==
    /\ InEventLoop
    /\ m_killTimer = "active"
    /\ m_killTimer' = "stopped"
    /\ killed' = (killed \/ m_state # "NotRunning")
    /\ UNCHANGED <<m_state, closed, stack, output, result, slotWaits, sharedVars,
                   interface, written>>

(* QtcProcess::close.  While the interface is in another thread it asserts  *)
(* and does nothing.                                                        *)
Close ==
    /\ UserCode
    /\ interface # "idle" /\ closed = "no"
    /\ handlerThread = "caller"
    /\ closed' = "closing"
    /\ m_state' = "NotRunning"
    /\ m_killTimer' = "stopped"
    /\ UNCHANGED <<stack, output, result, slotWaits, sharedVars, interfaceVars>>

(* The deferred deletion of the two interfaces, and of the calls queued to  *)
(* them; but what was queued before it is done before it.                   *)
DeleteInterfaces ==
    /\ InEventLoop
    /\ closed = "closing" /\ ~flushPosted
    /\ closed' = "deleted"
    /\ m_signals' = <<>>
    /\ interface' = "ended"
    /\ UNCHANGED <<m_state, m_killTimer, stack, output, result, slotWaits,
                   flushPosted, handlerThread, appending, killed, written>>

------------------------------------------------------------------------------
(* Delivery.                                                                *)

(* handleStarted, handleReadyRead and handleDone of QtcProcessPrivate.      *)
Handle(signal) ==
    /\ output' = IF signal.type = "ReadyRead" THEN Append(output, signal.piece) ELSE output
    /\ result' = IF signal.type = "Done" THEN signal.error ELSE result
    /\ m_state' = CASE signal.type = "Started" -> "Running"
                    [] signal.type = "Done" -> "NotRunning"
                    [] OTHER -> m_state
    /\ m_killTimer' = IF signal.type = "Done" THEN "stopped" ELSE m_killTimer

(* takeSignalsFor: how many of the stored signals are taken from the front. *)
Taken(for, signals) ==
    LET at(type) == {i \in DOMAIN signals : signals[i].type = type}
    IN  {n \in 0 .. Len(signals) :
            IF for # "Started" \/ (at("Started") = {} /\ at("Done") # {})
            THEN n = Len(signals)
            ELSE IF at("Started") = {} THEN n = 0
            ELSE n \in at("Started") /\ \A i \in at("Started") : i <= n}

(* Faulty: the signals that are not taken are dropped.                      *)
TakeSignalsDroppingRest(n) == m_signals' = <<>>

TakeSignals(n) == m_signals' = SubSeq(m_signals, n + 1, Len(m_signals))

(* flush, queued by the temporary thread.                                   *)
Flush ==
    /\ InEventLoop
    /\ flushPosted /\ closed # "deleted"
    /\ flushPosted' = FALSE
    /\ stack' = <<FlushFrame(m_signals)>>
    /\ m_signals' = <<>>
    /\ UNCHANGED <<m_state, m_killTimer, closed, output, result, slotWaits,
                   handlerThread, appending, interfaceVars>>

(* The loop of flushSignals handles one signal.  It calls the QtcProcess    *)
(* directly: closing that does not keep a signal from it.                   *)
Deliver ==
    /\ InCall /\ Top.pc = "deliver" /\ Top.todo # <<>>
    /\ LET signal == Head(Top.todo)
       IN  /\ Handle(signal)
           /\ SetTop([Top EXCEPT !.todo = Tail(@), !.inSlot = TRUE,
                                 !.matched = @ \/ signal.type \in {Top.for, "Done"}])
    /\ UNCHANGED <<closed, slotWaits, sharedVars, interfaceVars>>

(* flushSignals returns.                                                    *)
FlushReturns ==
    /\ InCall /\ Top.pc = "deliver" /\ Top.todo = <<>>
    /\ IF Top.for = "NoSignal" THEN Pop
       ELSE SetTop([Top EXCEPT !.pc = IF Top.matched THEN "back" ELSE "check",
                               !.inSlot = FALSE])
    /\ UNCHANGED <<m_state, m_killTimer, closed, output, result, slotWaits,
                   sharedVars, interfaceVars>>

------------------------------------------------------------------------------
(* Waiting.                                                                 *)

(* Faulty: the kill timer is left to the event loop.                        *)
NeverSplit(forever) == {FALSE}

(* needsSplit of QtcProcessPrivate::waitForSignal: the kill timer is active *)
(* and expires before the timeout.                                          *)
NeedsSplit(forever) ==
    IF m_killTimer = "stopped" THEN {FALSE} ELSE IF forever THEN {TRUE} ELSE BOOLEAN

(* QtcProcess::waitForStarted, waitForReadyRead and waitForFinished, down   *)
(* to GeneralProcessBlockingImpl::waitForSignal, which moves the handler.   *)
(* From another thread than its own it cannot be moved: it stays there, and *)
(* the first of two nested waits to end takes it from the other one.        *)
WaitForSignal(for) ==
    /\ UserCode
    /\ closed = "no"
    /\ IF for = "Started" THEN m_state = "Starting" ELSE m_state # "NotRunning"
    /\ Len(stack) < MaxDepth
    /\ handlerThread' = "temporary"
    /\ slotWaits' = (slotWaits \/ InCall)
    /\ \E forever \in BOOLEAN : \E split \in NeedsSplit(forever) :
            stack' = <<[for |-> for, pc |-> "check", todo |-> <<>>, matched |-> FALSE,
                        inSlot |-> FALSE, forever |-> forever, split |-> split]>> \o stack
    /\ UNCHANGED <<m_state, m_killTimer, closed, output, result, m_signals,
                   flushPosted, appending, interfaceVars>>

(* doWaitForSignal, under m_mutex: there is something to flush, or the      *)
(* thread sleeps, which releases the mutex.                                 *)
DoWaitForSignal ==
    /\ InCall /\ Top.pc = "check"
    /\ SetTop([Top EXCEPT !.pc = IF m_signals # <<>> THEN "take" ELSE "asleep"])
    /\ UNCHANGED <<m_state, m_killTimer, closed, output, result, slotWaits,
                   sharedVars, interfaceVars>>

(* flushFor.                                                                *)
WaitTakes ==
    /\ InCall /\ Top.pc = "take"
    /\ \E n \in Taken(Top.for, m_signals) :
        /\ TakeSignals(n)
        /\ SetTop([Top EXCEPT !.pc = "deliver", !.todo = SubSeq(m_signals, 1, n)])
    /\ UNCHANGED <<m_state, m_killTimer, closed, output, result, slotWaits,
                   flushPosted, handlerThread, appending, interfaceVars>>

(* The deadline has expired: the one of the wait, or of the kill timer.     *)
WaitTimeout ==
    /\ InCall /\ Top.pc \in {"check", "asleep"}
    /\ Top.split \/ ~Top.forever
    /\ SetTop([Top EXCEPT !.pc = "back"])
    /\ UNCHANGED <<m_state, m_killTimer, closed, output, result, slotWaits,
                   sharedVars, interfaceVars>>

(* moveToCallerThread blocks until the temporary thread has executed the    *)
(* call, so until the handler is there, and between two signals.  Then the  *)
(* wait returns; when only the kill timer has expired, the process is       *)
(* killed and waited for again.                                             *)
MoveToCallerThread ==
    /\ InCall /\ Top.pc = "back"
    /\ handlerThread = "temporary" /\ appending = "no"
    /\ IF Top.split /\ ~Top.matched
       THEN /\ m_killTimer' = "stopped"
            /\ killed' = (killed \/ m_state # "NotRunning")
            /\ SetTop([Top EXCEPT !.pc = "check", !.split = FALSE])
            /\ UNCHANGED handlerThread
       ELSE /\ handlerThread' = "caller"
            /\ Pop
            /\ UNCHANGED <<m_killTimer, killed>>
    /\ UNCHANGED <<m_state, closed, output, result, slotWaits, m_signals, flushPosted,
                   appending, interface, written>>

------------------------------------------------------------------------------
(* The thread the handler lives in.                                         *)

(* ProcessInterfaceHandler::appendSignal.  In the thread of the caller it   *)
(* calls flush directly, which takes all; in the temporary one it stores    *)
(* the signal under m_mutex, and the rest follows.                          *)
AppendSignal(signal) ==
    IF handlerThread = "caller"
    THEN /\ InEventLoop
         /\ stack' = <<FlushFrame(Append(m_signals, signal))>>
         /\ m_signals' = <<>>
         /\ UNCHANGED appending
    ELSE /\ appending = "no"
         /\ m_signals' = Append(m_signals, signal)
         /\ appending' = "wake"
         /\ UNCHANGED stack

(* m_waitCondition.wakeOne(), after the mutex has been released.            *)
WakeOne ==
    /\ appending = "wake"
    /\ appending' = "post"
    /\ IF InCall /\ Top.pc = "asleep" THEN SetTop([Top EXCEPT !.pc = "take"])
       ELSE UNCHANGED stack
    /\ UNCHANGED <<m_state, m_killTimer, closed, output, result, slotWaits, m_signals,
                   flushPosted, handlerThread, interfaceVars>>

(* Faulty: a call that waits is thought to take all the signals.            *)
PostFlushUnlessWaiting ==
    /\ appending = "post"
    /\ appending' = "no"
    /\ flushPosted' = (flushPosted \/ ~InCall \/ Top.for = "NoSignal")
    /\ UNCHANGED <<callerVars, m_signals, handlerThread, interfaceVars>>

PostFlush ==
    /\ appending = "post"
    /\ appending' = "no"
    /\ flushPosted' = TRUE
    /\ UNCHANGED <<callerVars, m_signals, handlerThread, interfaceVars>>

(* External: what the process does, and its interface emits.  The signals   *)
(* of a closed interface are disconnected.                                  *)
InterfaceEmits(signal) ==
    /\ closed = "no"
    /\ AppendSignal(signal)
    /\ UNCHANGED <<m_state, m_killTimer, closed, output, result, slotWaits,
                   flushPosted, handlerThread, killed>>

InterfaceStarted ==
    /\ interface = "Starting"
    /\ interface' = "Running"
    /\ InterfaceEmits(StartedSignal)
    /\ UNCHANGED written

InterfaceReadyRead ==
    /\ interface = "Running" /\ written < MaxOutput
    /\ written' = written + 1
    /\ InterfaceEmits(ReadyReadSignal(written + 1))
    /\ UNCHANGED interface

InterfaceDone ==
    /\ interface \in {"Starting", "Running"}
    /\ interface' = "ended"
    /\ \E error \in IF interface = "Starting" THEN {"FailedToStart"}
                    ELSE IF killed THEN {"Crashed"}
                    ELSE {"Crashed", "UnknownError"} :
            InterfaceEmits(DoneSignal(error))
    /\ UNCHANGED written

UserNext ==
    \/ Start
    \/ "Kill" \in Calls /\ Kill
    \/ Stop
    \/ "Close" \in Calls /\ Close
    \/ \E for \in {"Started", "ReadyRead", "Done"} \cap Calls : WaitForSignal(for)

CallerNext ==
    \/ KillTimeout \/ DeleteInterfaces \/ Flush
    \/ Deliver \/ FlushReturns
    \/ DoWaitForSignal \/ WaitTakes \/ WaitTimeout \/ MoveToCallerThread

HandlerNext ==
    \/ WakeOne \/ PostFlush
    \/ InterfaceStarted \/ InterfaceReadyRead \/ InterfaceDone

Next == UserNext \/ CallerNext \/ HandlerNext

Spec == Init /\ [][Next]_vars

(* Both threads run, deadlines expire, a start comes to an end, and a       *)
(* process does not survive being killed.  What the event loop does is      *)
(* interrupted by what user code asks for, but not put off for ever: its    *)
(* events are served in the order they came.                                *)
Fairness ==
    /\ WF_vars(Deliver) /\ WF_vars(FlushReturns) /\ WF_vars(DoWaitForSignal)
    /\ WF_vars(WaitTakes) /\ WF_vars(WaitTimeout) /\ WF_vars(MoveToCallerThread)
    /\ WF_vars(WakeOne) /\ WF_vars(PostFlush)
    /\ SF_vars(Flush) /\ SF_vars(KillTimeout) /\ SF_vars(DeleteInterfaces)
    /\ SF_vars(interface = "Starting" /\ (InterfaceStarted \/ InterfaceDone))
    /\ SF_vars(killed /\ InterfaceDone)

FairSpec == Spec /\ Fairness

------------------------------------------------------------------------------
(* No call sleeps over a stored signal, unless the temporary thread is      *)
(* about to wake it.  appendSignal wakes after it has released the mutex;   *)
(* doWaitForSignal looks before it sleeps.                                  *)
NoLostWakeup ==
    InCall /\ Top.pc = "asleep" => m_signals = <<>> \/ appending = "wake"

(* A stored signal is never forgotten: a flush is queued, or about to be.   *)
(* A wait for Started leaves signals behind, and a wait that times out may  *)
(* find some when it is too late.                                           *)
NoStrandedSignal ==
    m_signals # <<>> /\ closed # "deleted" => flushPosted \/ appending # "no"

(* Whatever the two threads do, and whatever a slot does meanwhile, what is *)
(* stored gets to its owner: no call sleeps over it, and a flush is due.    *)
SignalsAreServed == TypeOK /\ NoLostWakeup /\ NoStrandedSignal

Contract == INSTANCE ProcessInterface
                WITH Run <- {"process"},
                     state <- [r \in {"process"} |->
                                    IF closed = "no" THEN m_state ELSE "Closed"],
                     result <- [r \in {"process"} |-> result],
                     written <- [r \in {"process"} |-> written],
                     output <- [r \in {"process"} |-> output]

(* Stored in one thread and handled in another, by a flush, by a wait for   *)
(* something else, or after a wait that timed out, the signals of the       *)
(* interface reach the QtcProcess as processinterface.h promises, as long   *)
(* as it is not closed and no slot waits: none lost, none early, in order.  *)
KeepsContract ==
    /\ Contract!Init
    /\ [][closed = "no" /\ ~slotWaits => Contract!Next]_(Contract!vars)

(* The comment at QtcProcess::stop: "Calls terminate() directly and after a *)
(* delay of reaperTimeout() it calls kill() if the process is still         *)
(* running."  So a process that has been stopped ends, whatever it does     *)
(* with the request to terminate, and whatever the caller waits for then,   *)
(* as long as it is not closed and no slot waits.                           *)
StoppedProcessIsDone ==
    m_killTimer = "active" /\ InEventLoop
        ~> m_state = "NotRunning" \/ slotWaits \/ closed # "no"
=============================================================================
