----------------------------- MODULE TerminalProcess -----------------------------
(***************************************************************************)
(* A program that is run in a terminal window on Unix: TerminalImpl        *)
(* (libs/utils/terminalprocess.cpp), the ProcessInterface of its           *)
(* QtcProcess; the terminal emulator that TerminalImpl starts; and the     *)
(* stub that runs in it (libs/utils/process_stub_unix.c), which forks the  *)
(* program and talks to TerminalImpl through a local socket.  One run of   *)
(* one program.                                                            *)
(*                                                                         *)
(* The GUI thread, the stub and the program run side by side.  A step of   *)
(* the GUI thread is one line of readStubOutput() or one stretch of code   *)
(* between two of them; pc says what it is doing.                          *)
(***************************************************************************)
EXTENDS Naturals, Sequences

VARIABLES
    m_state,        \* QtcProcessPrivate::m_state
    result,         \* m_resultData.m_error of the last done()
    pc,             \* what the GUI thread is in
    m_processId,    \* is it set?
    m_stubServer,   \* is it listening?
    m_stubConnectTimer, \* is it running?
    link,           \* the connection to the stub; m_stubSocket is set if "open"
    lines,          \* what the stub has written and is not read
    commands,       \* what the stub has still to read
    emulator,       \* the terminal emulator, m_process
    detaches,       \* does that hand the window to a server and end?
    stub,           \* where the stub is
    child,          \* the program
    mishaps         \* history: how done() has broken the contract, and a stop that came early

creatorVars == <<m_state, result, pc, m_processId, m_stubServer, m_stubConnectTimer, mishaps>>
socketVars == <<link, lines, commands>>
terminalVars == <<emulator, detaches, stub, child>>
vars == <<creatorVars, socketVars, terminalVars>>

Mishap == {"doneAgain", "doneWhileStarting", "stoppedWhileStarting"}

TypeOK ==
    /\ m_state \in {"NotRunning", "Starting", "Running"}
    /\ result \in {"none", "FailedToStart", "UnknownError"}
    /\ pc \in {"loop", "killStub", "waitForFinished", "stubExited"}
    /\ m_processId \in BOOLEAN /\ m_stubServer \in BOOLEAN /\ m_stubConnectTimer \in BOOLEAN
    /\ link \in {"none", "pending", "open", "shut", "closed"}
    /\ lines \in Seq({"err:chdir", "spid", "pid", "exit"})
    /\ commands \in Seq({"k", "s"})
    /\ emulator \in {"none", "running", "ended"} /\ detaches \in BOOLEAN
    /\ stub \in {"none", "launched", "connected", "announced", "forked", "serving",
                 "detached", "prompting", "exited"}
    /\ child \in {"none", "running", "ended", "reaped"}
    /\ mishaps \subseteq Mishap

Init ==
    /\ m_state = "NotRunning" /\ result = "none" /\ pc = "loop"
    /\ m_processId = FALSE /\ m_stubServer = FALSE /\ m_stubConnectTimer = FALSE
    /\ link = "none" /\ lines = << >> /\ commands = << >>
    /\ emulator = "none" /\ detaches \in BOOLEAN /\ stub = "none" /\ child = "none"
    /\ mishaps = {}
-----------------------------------------------------------------------------
(* Qt Creator.                                                             *)

(* QtcProcessPrivate::handleDone(), with its three cases.                  *)
Done(error) ==
    /\ m_state' = "NotRunning" /\ result' = error
    /\ mishaps' = mishaps
         \cup (IF m_state = "NotRunning" THEN {"doneAgain"} ELSE {})
         \cup (IF m_state = "Starting" /\ error # "FailedToStart"
               THEN {"doneWhileStarting"} ELSE {})

isRunning == emulator = "running" \/ link = "open"

(* QtcProcess::start() and TerminalImpl::start(): there may be nothing to  *)
(* listen on, no file for the environment or no terminal emulator.         *)
Start ==
    /\ pc = "loop" /\ m_state = "NotRunning" /\ result = "none" /\ emulator = "none"
    /\ m_state' = "Starting"
    /\ m_stubServer' = TRUE /\ m_stubConnectTimer' = TRUE
    /\ emulator' = "running" /\ stub' = "launched"
    /\ UNCHANGED <<result, pc, m_processId, mishaps, socketVars, detaches, child>>

StartFails ==
    /\ pc = "loop" /\ m_state = "NotRunning" /\ result = "none" /\ emulator = "none"
    /\ m_state' = "Starting" /\ emulator' = "ended"
    /\ UNCHANGED <<result, pc, m_processId, m_stubServer, m_stubConnectTimer, mishaps,
                   socketVars, detaches, stub, child>>

cleanupAfterStartFailure ==
    /\ m_state = "Starting" /\ stub = "none"
    /\ Done("FailedToStart")
    /\ UNCHANGED <<pc, m_processId, m_stubServer, m_stubConnectTimer, socketVars, terminalVars>>

stubConnectionAvailable ==
    /\ pc = "loop" /\ m_stubServer /\ link = "pending"
    /\ m_stubConnectTimer' = FALSE
    /\ link' = "open"
    /\ UNCHANGED <<m_state, result, pc, m_processId, m_stubServer, mishaps, lines, commands,
                   terminalVars>>

(* Faulty: a program that ends is said not to have started.                *)
readStubOutputAsFailure ==
    /\ pc \in {"loop", "killStub", "stubExited"} /\ link = "open" /\ lines # << >>
    /\ lines' = Tail(lines)
    /\ CASE Head(lines) = "spid" -> UNCHANGED <<m_state, result, m_processId, mishaps>>
         [] Head(lines) = "pid" -> /\ m_processId' = TRUE
                                   /\ m_state' = "Running"
                                   /\ UNCHANGED <<result, mishaps>>
         [] OTHER -> Done("FailedToStart") /\ m_processId' = FALSE
    /\ UNCHANGED <<pc, m_stubServer, m_stubConnectTimer, link, commands, terminalVars>>

(* A line that the stub has written, read upon readyRead, or by            *)
(* stubServerShutdown() for the last time.                                 *)
readStubOutput ==
    /\ pc \in {"loop", "killStub", "stubExited"} /\ link = "open" /\ lines # << >>
    /\ lines' = Tail(lines)
    /\ CASE Head(lines) = "spid" -> UNCHANGED <<m_state, result, m_processId, mishaps>>
         [] Head(lines) = "pid" -> /\ m_processId' = TRUE
                                   /\ m_state' = "Running"
                                   /\ UNCHANGED <<result, mishaps>>
         [] Head(lines) = "err:chdir" -> Done("FailedToStart") /\ UNCHANGED m_processId
         [] Head(lines) = "exit" -> Done("UnknownError") /\ m_processId' = FALSE
    /\ UNCHANGED <<pc, m_stubServer, m_stubConnectTimer, link, commands, terminalVars>>

(* Faulty: leaves the program to the stub.                                 *)
stopStub ==
    /\ m_processId' = FALSE
    /\ IF isRunning
       THEN /\ pc' = "killStub"
            /\ commands' = IF link = "open" THEN Append(commands, "s") ELSE commands
       ELSE UNCHANGED <<pc, commands>>
    /\ UNCHANGED <<m_state, result, m_stubServer, link, lines, terminalVars>>

(* stopProcess(), up to the stubServerShutdown() of killStub().            *)
stopProcess ==
    /\ m_processId' = FALSE
    /\ IF isRunning
       THEN /\ pc' = "killStub"
            /\ commands' = IF link = "open" THEN commands \o <<"k", "s">> ELSE commands
       ELSE UNCHANGED <<pc, commands>>
    /\ UNCHANGED <<m_state, result, m_stubServer, link, lines, terminalVars>>

(* QtcProcess::stop(), terminate() or kill(), or its kill timer.           *)
sendControlSignal ==
    /\ pc = "loop" /\ m_state # "NotRunning" /\ stub # "none"
    /\ stopProcess
    /\ mishaps' = mishaps \cup (IF m_state = "Starting" THEN {"stoppedWhileStarting"} ELSE {})
    /\ UNCHANGED m_stubConnectTimer

(* Ten seconds have passed without a connection.                           *)
ConnectTimeout ==
    /\ pc = "loop" /\ m_stubConnectTimer
    /\ m_stubConnectTimer' = FALSE
    /\ stopProcess
    /\ mishaps' = mishaps \cup (IF m_state = "Starting" THEN {"stoppedWhileStarting"} ELSE {})

(* stubServerShutdown(): a socket that was open is deleted by the event    *)
(* loop; one that was never accepted goes with the server.                 *)
stubServerShutdown(open) ==
    /\ link = "open" => lines = << >>
    /\ m_stubServer' = FALSE
    /\ link' = CASE link = "open" -> open
                 [] link = "pending" -> "closed"
                 [] OTHER -> link

killStub ==
    /\ pc = "killStub"
    /\ stubServerShutdown("shut")
    /\ pc' = "waitForFinished"
    /\ UNCHANGED <<m_state, result, m_processId, m_stubConnectTimer, mishaps, lines, commands,
                   terminalVars>>

(* The end of killStub(): the terminal emulator has ended, or has not      *)
(* within 30 seconds.                                                      *)
killStubDone ==
    /\ pc = "waitForFinished"
    /\ Done("UnknownError")
    /\ m_processId' = FALSE
    /\ pc' = "loop"
    /\ link' = IF link = "shut" THEN "closed" ELSE link
    /\ UNCHANGED <<m_stubServer, m_stubConnectTimer, lines, commands, terminalVars>>

(* m_stubSocket is disconnected.                                           *)
stubExited ==
    /\ pc = "loop" /\ link = "open" /\ stub = "exited"
    /\ pc' = "stubExited"
    /\ UNCHANGED <<m_state, result, m_processId, m_stubServer, m_stubConnectTimer, mishaps,
                   socketVars, terminalVars>>

(* Faulty: relies on the stub for the end of the program.                  *)
stubExitedSilently ==
    /\ pc = "stubExited"
    /\ stubServerShutdown("closed")
    /\ pc' = "loop"
    /\ UNCHANGED <<m_state, result, m_processId, mishaps, m_stubConnectTimer, lines, commands,
                   terminalVars>>

stubExitedDone ==
    /\ pc = "stubExited"
    /\ stubServerShutdown("closed")
    /\ pc' = "loop"
    /\ m_processId' = FALSE
    /\ IF m_processId THEN Done("UnknownError") ELSE UNCHANGED <<m_state, result, mishaps>>
    /\ UNCHANGED <<m_stubConnectTimer, lines, commands, terminalVars>>
-----------------------------------------------------------------------------
(* The stub.                                                               *)

(* sendMsg(), and on to next.  If nobody can read it any more, a SIGPIPE   *)
(* ends the stub, or it is ignored and the stub goes on without Creator.   *)
sendMsg(msg, next) ==
    IF link = "closed"
    THEN /\ \/ stub' = "exited"
            \/ stub' = IF next = "serving" THEN "detached" ELSE next
         /\ UNCHANGED lines
    ELSE /\ stub' = next
         /\ lines' = IF link = "shut" THEN lines ELSE Append(lines, msg)

(* connect(); doExit(1) asks the user to press RETURN.                     *)
StubConnects ==
    /\ stub = "launched"
    /\ IF m_stubServer THEN stub' = "connected" /\ link' = "pending"
                       ELSE stub' = "prompting" /\ UNCHANGED link
    /\ UNCHANGED <<creatorVars, lines, commands, emulator, detaches, child>>

(* chdir() fails.                                                          *)
StubCannotChangeDir ==
    /\ stub = "connected"
    /\ sendMsg("err:chdir", "exited")
    /\ UNCHANGED <<creatorVars, link, commands, emulator, detaches, child>>

(* The environment cannot be read, or fork() fails: the user is told, and  *)
(* Creator is not.                                                         *)
StubFails ==
    /\ stub \in {"connected", "announced"}
    /\ stub' = "prompting"
    /\ UNCHANGED <<creatorVars, socketVars, emulator, detaches, child>>

StubAnnounces ==
    /\ stub = "connected"
    /\ sendMsg("spid", "announced")
    /\ UNCHANGED <<creatorVars, link, commands, emulator, detaches, child>>

StubForks ==
    /\ stub = "announced"
    /\ stub' = "forked" /\ child' = "running"
    /\ UNCHANGED <<creatorVars, socketVars, emulator, detaches>>

StubSendsPid ==
    /\ stub = "forked"
    /\ sendMsg("pid", "serving")
    /\ UNCHANGED <<creatorVars, link, commands, emulator, detaches, child>>

(* A command: 'k' kills the program, within a second, and 's' ends the     *)
(* stub.  The signal that a child has ended comes first.                   *)
StubReadsCommand ==
    /\ stub = "serving" /\ child # "ended" /\ commands # << >>
    /\ commands' = Tail(commands)
    /\ IF Head(commands) = "k"
       THEN child' = "ended" /\ UNCHANGED stub
       ELSE stub' = "exited" /\ UNCHANGED child
    /\ UNCHANGED <<creatorVars, link, lines, emulator, detaches>>

StubLosesCreator ==
    /\ stub = "serving" /\ link = "closed" /\ commands = << >>
    /\ stub' = "detached"
    /\ UNCHANGED <<creatorVars, socketVars, emulator, detaches, child>>

(* The end of the program is told, and the user asked to press RETURN.     *)
sigchldHandler ==
    /\ child = "ended" /\ stub \in {"forked", "serving", "detached"}
    /\ child' = "reaped"
    /\ IF stub = "detached"
       THEN stub' = "prompting" /\ UNCHANGED lines
       ELSE sendMsg("exit", "prompting")
    /\ UNCHANGED <<creatorVars, link, commands, emulator, detaches>>

UserPressesReturn ==
    /\ stub = "prompting"
    /\ stub' = "exited"
    /\ UNCHANGED <<creatorVars, socketVars, emulator, detaches, child>>
-----------------------------------------------------------------------------
(* External: the program, the terminal emulator, and its window.           *)
ChildEnds ==
    /\ child = "running"
    /\ child' = "ended"
    /\ UNCHANGED <<creatorVars, socketVars, emulator, detaches, stub>>

EmulatorEnds ==
    /\ emulator = "running" /\ (stub = "exited" \/ detaches)
    /\ emulator' = "ended"
    /\ UNCHANGED <<creatorVars, socketVars, detaches, stub, child>>

(* The hangup of the terminal ends the stub and the program.               *)
WindowIsClosed ==
    /\ stub \notin {"none", "exited"}
    /\ stub' = "exited"
    /\ child' = IF child = "running" THEN "ended" ELSE child
    /\ UNCHANGED <<creatorVars, socketVars, emulator, detaches>>

Creator ==
    \/ Start \/ StartFails \/ cleanupAfterStartFailure
    \/ stubConnectionAvailable \/ readStubOutput
    \/ sendControlSignal \/ ConnectTimeout \/ killStub \/ killStubDone
    \/ stubExited \/ stubExitedDone

Stub ==
    \/ StubConnects \/ StubCannotChangeDir \/ StubFails \/ StubAnnounces \/ StubForks
    \/ StubSendsPid \/ StubReadsCommand \/ StubLosesCreator \/ sigchldHandler

Next ==
    \/ Creator \/ Stub \/ UserPressesReturn
    \/ ChildEnds \/ EmulatorEnds \/ WindowIsClosed

Spec == Init /\ [][Next]_vars

(* The event loop goes on, its timer included, and so does a stub that has *)
(* connected; an emulator whose stub has exited ends.  A stub need not     *)
(* come up, nobody has to stop the program or press RETURN, and the        *)
(* program need not end.                                                   *)
Fairness ==
    /\ WF_vars(cleanupAfterStartFailure \/ stubConnectionAvailable \/ readStubOutput)
    /\ WF_vars(ConnectTimeout \/ stubExited)
    /\ WF_vars(killStub \/ killStubDone \/ stubExitedDone)
    /\ WF_vars(stub # "launched" /\ Stub)
    /\ WF_vars(stub = "exited" /\ EmulatorEnds)

FairSpec == Spec /\ Fairness
-----------------------------------------------------------------------------
(* TerminalImpl keeps the contract of a ProcessInterface as long as done() *)
(* does not come twice, or for a process that is starting, without the     *)
(* error FailedToStart.                                                    *)
Contract == INSTANCE ProcessInterface WITH
    Run <- {"terminal"}, MaxOutput <- 0,
    state <- [r \in {"terminal"} |-> m_state],
    result <- [r \in {"terminal"} |-> result],
    written <- [r \in {"terminal"} |-> 0],
    output <- [r \in {"terminal"} |-> << >>]

KeepsContract ==
    /\ Contract!Init
    /\ [][mishaps' \cap {"doneAgain", "doneWhileStarting"} # {} \/ Contract!Next]_Contract!vars

(* Nobody can stop a process whose stub has not connected, or has gone,    *)
(* and whose terminal emulator has ended: isRunning() is false.            *)
Unreachable == ~isRunning /\ pc = "loop"

(* Starting ends: the stub reports, does not connect in time, or goes,     *)
(* unless nothing of the terminal is left, or the stub has failed and      *)
(* waits for its user.                                                     *)
StartIsAnswered ==
    m_state = "Starting" ~> m_state # "Starting" \/ Unreachable \/ stub = "prompting"

(* The end of the program is told to the QtcProcess, whoever ended it and  *)
(* whatever becomes of the stub and its terminal.                          *)
EndIsTold ==
    m_state = "Running" /\ child \in {"ended", "reaped"} ~> m_state = "NotRunning"

(* An owner that waits for the news of a start, or of an end, gets it.     *)
NewsIsTold == StartIsAnswered /\ EndIsTold

(* A program that was running and is reported as done ends, also if the    *)
(* stop overtakes the stub.                                                *)
StoppedProgramEnds ==
    m_state = "NotRunning" /\ child = "running"
        ~> child # "running" \/ "stoppedWhileStarting" \in mishaps
=============================================================================
