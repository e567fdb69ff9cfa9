---------------------------- MODULE LauncherServer ----------------------------
(***************************************************************************)
(* The launcher helper: LauncherSocketHandler of                           *)
(* tools/processlauncher/launchersockethandler.cpp and its main().  It is  *)
(* a single thread; the children it starts are external.                   *)
(*                                                                         *)
(* process[t] is "none" before the start request, "Starting" or "Running"  *)
(* (QProcess::state()) while the process is in m_processes, "reaping" when *)
(* a live process has been handed to the ProcessReaper, "gone" after the   *)
(* end.                                                                    *)
(***************************************************************************)
EXTENDS LauncherState

InProcesses(t) == process[t] \in {"Starting", "Running"}

(* LauncherInterfacePrivate::doStart started the helper and its connection  *)
(* to the server socket has been accepted.                                  *)
LauncherStarted ==
    /\ server = "off" /\ linkUp
    /\ server' = "up"
    /\ UNCHANGED <<clientVars, linkVars, process, killed, produced, unread>>

SendReply(packet) ==
    /\ s2c' = IF linkUp THEN Append(s2c, packet) ELSE s2c
    /\ UNCHANGED <<c2s, linkUp>>

(* handleSocketData takes the next packet.                                  *)
NextRequest(type, t) ==
    /\ server = "up"
    /\ c2s # <<>> /\ Head(c2s) = [type |-> type, tok |-> t]
    /\ c2s' = Tail(c2s)
    /\ UNCHANGED <<s2c, linkUp>>

(* A request for a process that is already running is ignored.              *)
HandleStartPacket(t) ==
    /\ NextRequest("StartProcess", t)
    /\ process' = [process EXCEPT ![t] = IF InProcesses(t) THEN @ ELSE "Starting"]
    /\ UNCHANGED <<clientVars, server, killed, produced, unread>>

(* The bytes go to the child's standard input, which is not modelled; a     *)
(* process that is unknown or not running gets nothing.                     *)
HandleWritePacket(t) ==
    /\ NextRequest("WriteIntoProcess", t)
    /\ UNCHANGED <<clientVars, serverVars>>

(* handleStopPacket, Terminate: the child may ignore it.                    *)
HandleTerminatePacket(t) ==
    /\ NextRequest("Terminate", t)
    /\ UNCHANGED <<clientVars, serverVars>>

(* Faulty: a process that is still starting is not killed.                  *)
HandleKillPacketIfRunning(t) ==
    /\ NextRequest("Kill", t)
    /\ killed' = [killed EXCEPT ![t] = @ \/ process[t] = "Running"]
    /\ UNCHANGED <<clientVars, server, process, produced, unread>>

(* handleStopPacket, Kill.                                                  *)
HandleKillPacket(t) ==
    /\ NextRequest("Kill", t)
    /\ killed' = [killed EXCEPT ![t] = @ \/ InProcesses(t)]
    /\ UNCHANGED <<clientVars, server, process, produced, unread>>

(* Faulty: a process that is still starting is not closed.                  *)
HandleClosePacketIfRunning(t) ==
    /\ NextRequest("Close", t)
    /\ process' = [process EXCEPT ![t] = IF @ = "Running" THEN "reaping" ELSE @]
    /\ UNCHANGED <<clientVars, server, killed, produced, unread>>

(* handleStopPacket, Close: removeProcess hands the process to the reaper;  *)
(* no packet about it follows.                                              *)
HandleClosePacket(t) ==
    /\ NextRequest("Close", t)
    /\ process' = [process EXCEPT ![t] = IF InProcesses(t) THEN "reaping" ELSE @]
    /\ UNCHANGED <<clientVars, server, killed, produced, unread>>

------------------------------------------------------------------------------
(* The signals of the QProcess objects.                                     *)

HandleProcessStarted(t) ==
    /\ server = "up" /\ process[t] = "Starting"
    /\ process' = [process EXCEPT ![t] = "Running"]
    /\ SendReply(StartedPacket(t))
    /\ UNCHANGED <<clientVars, server, killed, produced, unread>>

(* Faulty: the process stays in m_processes.                                *)
HandleProcessErrorKeepsProcess(t) ==
    /\ server = "up" /\ process[t] = "Starting"
    /\ SendReply(DonePacket(t, unread[t], "FailedToStart"))
    /\ UNCHANGED <<clientVars, serverVars>>

(* handleProcessError: FailedToStart is the end; of any other error the     *)
(* finished signal will tell.                                               *)
HandleProcessError(t) ==
    /\ server = "up" /\ process[t] = "Starting"
    /\ process' = [process EXCEPT ![t] = "gone"]
    /\ SendReply(DonePacket(t, unread[t], "FailedToStart"))
    /\ UNCHANGED <<clientVars, server, killed, produced, unread>>

(* External: the child writes; QProcess has data to read.                   *)
ChildWrites(t) ==
    /\ server = "up" /\ process[t] = "Running" /\ ~killed[t]
    /\ produced[t] < MaxOutput
    /\ produced' = [produced EXCEPT ![t] = @ + 1]
    /\ unread' = [unread EXCEPT ![t] = Append(@, produced[t] + 1)]
    /\ UNCHANGED <<clientVars, linkVars, server, process, killed>>

HandleReadyReadStandardOutput(t) ==
    /\ server = "up" /\ process[t] = "Running" /\ unread[t] # <<>>
    /\ SendReply(ReadyReadPacket(t, unread[t]))
    /\ unread' = [unread EXCEPT ![t] = <<>>]
    /\ UNCHANGED <<clientVars, server, process, killed, produced>>

(* The child has ended by itself or has been killed: what it wrote last     *)
(* goes with the news, and the process is removed.                          *)
HandleProcessFinished(t) ==
    /\ server = "up" /\ process[t] = "Running"
    /\ \E error \in IF killed[t] THEN {"Crashed"} ELSE {"Crashed", "UnknownError"} :
            SendReply(DonePacket(t, unread[t], error))
    /\ unread' = [unread EXCEPT ![t] = <<>>]
    /\ process' = [process EXCEPT ![t] = "gone"]
    /\ UNCHANGED <<clientVars, server, killed, produced>>

(* The ProcessReaper has seen the end of a process given to it.             *)
Reaped(t) ==
    /\ process[t] = "reaping"
    /\ process' = [process EXCEPT ![t] = "gone"]
    /\ UNCHANGED <<clientVars, linkVars, server, killed, produced, unread>>

------------------------------------------------------------------------------
(* The end of the helper: quit() ends the event loop, the destructor of     *)
(* LauncherSocketHandler reaps what is left and closes the connection.      *)
Quit ==
    /\ server' = "quitting"
    /\ process' = [t \in Token |-> IF InProcesses(t) THEN "reaping" ELSE process[t]]
    /\ linkUp' = FALSE
    /\ UNCHANGED <<clientVars, killed, produced, unread>>

HandleShutdownPacket ==
    /\ server = "up"
    /\ c2s # <<>> /\ Head(c2s).type = "Shutdown"
    /\ c2s' = Tail(c2s)
    /\ Quit
    /\ UNCHANGED s2c

(* The connection has been closed at the other end.                         *)
HandleSocketClosed ==
    /\ server = "up" /\ ~linkUp
    /\ Quit
    /\ UNCHANGED <<c2s, s2c>>

(* LauncherSocketHandler::handleSocketError, a fault of the connection.     *)
HandleServerSocketError ==
    /\ Faults /\ server = "up"
    /\ Quit
    /\ UNCHANGED <<c2s, s2c>>

(* A helper that is started too late finds nobody to connect to.            *)
LauncherNotConnected ==
    /\ server = "off" /\ ~linkUp
    /\ server' = "down"
    /\ UNCHANGED <<clientVars, linkVars, process, killed, produced, unread>>

(* main() returns once ~ProcessReaper has waited for the last process.      *)
LauncherFinished ==
    /\ server = "quitting"
    /\ \A t \in Token : process[t] # "reaping"
    /\ server' = "down"
    /\ UNCHANGED <<clientVars, linkVars, process, killed, produced, unread>>
=============================================================================
