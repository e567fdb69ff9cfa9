---------------------------- MODULE LauncherState ----------------------------
(***************************************************************************)
(* The state shared by the two halves of Qt Creator's process launcher.    *)
(*                                                                         *)
(* Qt Creator does not fork its children itself.  A small helper, the      *)
(* launcher (src/tools/processlauncher), does it on request; the two talk  *)
(* over one local socket.  In Qt Creator, every QtcProcess that uses the   *)
(* launcher owns a token and a pair of handles: the CallerHandle lives in  *)
(* the thread of the QtcProcess, the LauncherHandle in the launcher        *)
(* thread, which also owns the LauncherSocket.                             *)
(*                                                                         *)
(* LauncherSocket     Qt Creator's side: caller threads, launcher thread   *)
(* LauncherServer     the helper's side: LauncherSocketHandler             *)
(* ProcessLauncher    the two composed, with the properties                *)
(***************************************************************************)
EXTENDS Naturals, Sequences, FiniteSets

CONSTANTS
    Token,      \* one per run of a QtcProcess (uniqueToken() never repeats)
    Thread,     \* the threads that own a QtcProcess
    ThreadOf,   \* the thread that owns the QtcProcess of a token
    MaxOutput,  \* how often a child writes to its output channels
    MaxDepth,   \* how deep calls nest: a slot that waits is one deeper
    Calls,      \* what user code asks of a QtcProcess in this instance
    Faults,     \* may the socket fail?
    NoToken     \* the token of a packet that is about no process

ASSUME ThreadOfAssumption == ThreadOf \in [Token -> Thread]
ASSUME BoundsAssumption == MaxOutput \in Nat /\ MaxDepth \in Nat
ASSUME CallsAssumption ==
    Calls \subseteq {"Terminate", "Kill", "Write", "Close", "Started", "ReadyRead", "Done"}
ASSUME FaultsAssumption == Faults \in BOOLEAN
ASSUME NoTokenAssumption == NoToken \notin Token

VARIABLES
    \* The caller threads.
    m_state,        \* QtcProcessPrivate::m_state, per token
    m_processState, \* CallerHandle::m_processState
    launching,      \* tokens registered, CallerHandle::start not yet reached
    posting,        \* threads in sendData, between the store and invokeMethod
    asked,          \* which control packets the front end asked for, per token
    detached,       \* QtcProcess::close() has disconnected the interface
    closing,        \* ~ProcessLauncherImpl: between close() and unregister
    stack,          \* the flushFor / waitForSignal calls a thread is inside of
    observed,       \* history: the signals the QtcProcess has received
    \* Shared by the caller threads and the launcher thread.
    used,           \* tokens handed out so far
    m_handles,      \* LauncherSocket::m_handles
    m_signals,      \* CallerHandle::m_signals
    flushPosted,    \* a CallerHandle::flush call is queued in the owner's loop
    m_socketError,  \* LauncherHandle::m_socketError
    m_requests,     \* LauncherSocket::m_requests
    requestsPosted, \* a LauncherSocket::handleRequests call is queued
    \* The launcher thread.
    m_socket,       \* LauncherSocket::m_socket: null, open, and null again
    job,            \* the handle the launcher thread is working on
    erring,         \* handles errorOccurred has still to be delivered to
    \* The socket.
    c2s, s2c,       \* bytes on their way to the launcher and back
    linkUp,         \* neither side has closed the connection
    \* The launcher helper.
    server,         \* "off", "up", or "down" when its main() has returned
    process,        \* m_processes, and what became of those removed from it
    killed,         \* QProcess::kill has reached the child
    produced,       \* how much a child has written so far
    unread          \* what its QProcess has not been asked for yet

callerVars == <<m_state, m_processState, launching, posting, asked, detached,
                closing, stack, observed>>
sharedVars == <<used, m_handles, m_signals, flushPosted, m_socketError,
                m_requests, requestsPosted>>
launcherVars == <<m_socket, job, erring>>
clientVars == <<callerVars, sharedVars, launcherVars>>
linkVars == <<c2s, s2c, linkUp>>
serverVars == <<server, process, killed, produced, unread>>
vars == <<clientVars, linkVars, serverVars>>

------------------------------------------------------------------------------
(* QProcess::ProcessState.                                                  *)
ProcessState == {"NotRunning", "Starting", "Running"}

(* The errors of a ProcessResultData that the receivers tell apart: the     *)
(* process never ran, it was killed or crashed, or it ended by itself.      *)
ProcessError == {"FailedToStart", "Crashed", "UnknownError"}

Output == Seq(1 .. MaxOutput)

(* LauncherSignal and its three subclasses.                                 *)
StartedSignal == [type |-> "Started"]
ReadyReadSignal(data) == [type |-> "ReadyRead", data |-> data]
DoneSignal(error) == [type |-> "Done", error |-> error]

Signal == [type : {"Started"}]
            \cup [type : {"ReadyRead"}, data : Output]
            \cup [type : {"Done"}, error : ProcessError]

(* The signal types a thread can flush for.                                 *)
SignalType == {"NoSignal", "Started", "ReadyRead", "Done"}

(* Packets to the launcher; the three StopProcess signal types are packets  *)
(* of their own.                                                            *)
RequestType == {"StartProcess", "WriteIntoProcess", "Terminate", "Kill",
                "Close", "Shutdown"}
Request == [type : RequestType, tok : Token \cup {NoToken}]

(* Packets from the launcher.  The standard output and the standard error   *)
(* are handled alike on both sides; the model has one output channel.       *)
Reply == [type : {"ProcessStarted", "ReadyReadStandardOutput", "ProcessDone"},
          tok : Token, data : Output, error : ProcessError]

StartedPacket(t) ==
    [type |-> "ProcessStarted", tok |-> t, data |-> <<>>, error |-> "UnknownError"]
ReadyReadPacket(t, data) ==
    [type |-> "ReadyReadStandardOutput", tok |-> t, data |-> data,
     error |-> "UnknownError"]
DonePacket(t, data, error) ==
    [type |-> "ProcessDone", tok |-> t, data |-> data, error |-> error]

(* A call of CallerHandle::flushFor, or of waitForSignal around it: what it *)
(* is for, where it stands, the signals it took and has still to handle,    *)
(* whether one matched, and whether a slot of the caller has run since.     *)
Frame == [tok : Token, for : SignalType,
          pc : {"check", "asleep", "take", "deliver"},
          todo : Seq(Signal), matched : BOOLEAN, inSlot : BOOLEAN]

(* What the launcher thread does for one handle: the signals it is about to *)
(* append, and whether it has locked the handle's mutex.                    *)
NoJob == [tok |-> NoToken, todo |-> <<>>, locked |-> FALSE]
Job == [tok : Token, todo : Seq(Signal), locked : BOOLEAN]

(* The launcher thread is in the middle of a handler of this token and      *)
(* holds LauncherHandle::m_mutex.                                           *)
Locked(t) == job.locked /\ job.tok = t

(* A child the helper has not seen the end of.                              *)
Alive(t) == process[t] \in {"Starting", "Running", "reaping"}
=============================================================================
