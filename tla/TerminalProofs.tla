------------------------------ MODULE TerminalProofs ------------------------------
(***************************************************************************)
(* Proofs about TerminalProcess: its type, and that it implements          *)
(* ProcessInterface as far as KeepsContract says.                          *)
(*                                                                         *)
(* What a step of TerminalImpl means depends on what the stub has written, *)
(* and when, so the invariant says how far the stub is, what of it can be  *)
(* in the socket, and which states of the process go with that.            *)
(***************************************************************************)
EXTENDS TerminalProcess, TLAPS

Sent(msg) == \E i \in 1 .. Len(lines) : lines[i] = msg

(* What the stub has written, by how far it is.                            *)
Written ==
    /\ stub \in {"none", "launched", "connected"} => lines = << >> /\ m_state # "Running"
    /\ stub \in {"announced", "forked"} =>
          ~Sent("pid") /\ ~Sent("err:chdir") /\ ~Sent("exit") /\ m_state # "Running"
    /\ stub = "serving" => ~Sent("err:chdir") /\ ~Sent("exit")
    /\ Sent("err:chdir") => stub = "exited" /\ ~Sent("pid") /\ m_state # "Running"
    /\ \A i \in 1 .. Len(lines) : lines[i] = "exit" => i = Len(lines)

(* Where the connection is.                                                *)
Linked ==
    /\ emulator = "none" => stub = "none"
    /\ stub = "none" => ~m_stubServer
    /\ stub \in {"none", "launched"} => link = "none"
    /\ link \in {"pending", "open"} => m_stubServer
    /\ pc = "waitForFinished" => ~m_stubServer

(* A process that is not running has no pid to come.                       *)
Quiet ==
    m_state = "NotRunning" =>
        /\ m_stubServer => link = "open"
        /\ link = "open" => /\ ~Sent("pid")
                            /\ stub \notin {"none", "launched", "connected", "announced", "forked"}

IInv == TypeOK /\ Written /\ Linked /\ Quiet

USE DEF creatorVars, socketVars, terminalVars

-----------------------------------------------------------------------------
(* The initial state.                                                      *)
LEMMA Initially == Init => IInv
  <1> SUFFICES ASSUME Init PROVE IInv
    OBVIOUS
  <1>1. TypeOK
    <2>1. lines \in Seq({"err:chdir", "spid", "pid", "exit"}) /\ commands \in Seq({"k", "s"})
      BY DEF Init
    <2> QED
      BY <2>1 DEF Init, TypeOK, Mishap
  <1>2. Written /\ Linked /\ Quiet
    BY DEF Init, Written, Linked, Quiet, Sent
  <1> QED
    BY <1>1, <1>2 DEF IInv

(* A line is added by the stub, and taken by Creator.                      *)
LEMMA Added ==
    ASSUME IInv, NEW msg \in {"err:chdir", "spid", "pid", "exit"},
           lines' = Append(lines, msg)
    PROVE  /\ lines' \in Seq({"err:chdir", "spid", "pid", "exit"})
           /\ Len(lines') = Len(lines) + 1
           /\ lines'[Len(lines')] = msg
           /\ \A i \in 1 .. Len(lines) : lines'[i] = lines[i]
           /\ \A m : Sent(m)' <=> Sent(m) \/ m = msg
  <1>1. /\ lines' \in Seq({"err:chdir", "spid", "pid", "exit"})
        /\ Len(lines') = Len(lines) + 1
        /\ lines'[Len(lines) + 1] = msg
        /\ \A i \in 1 .. Len(lines) : lines'[i] = lines[i]
    BY DEF IInv, TypeOK
  <1>2. Len(lines) \in Nat
    BY DEF IInv, TypeOK
  <1> QED
    BY <1>1, <1>2 DEF Sent

LEMMA Taken ==
    ASSUME IInv, lines # << >>, lines' = Tail(lines)
    PROVE  /\ lines' \in Seq({"err:chdir", "spid", "pid", "exit"})
           /\ Head(lines) \in {"err:chdir", "spid", "pid", "exit"}
           /\ Sent(Head(lines))
           /\ Len(lines') = Len(lines) - 1
           /\ \A i \in 1 .. Len(lines') : lines'[i] = lines[i + 1]
           /\ \A m : Sent(m)' => Sent(m)
           /\ Head(lines) = "exit" => lines' = << >>
  <1>1. /\ lines' \in Seq({"err:chdir", "spid", "pid", "exit"})
        /\ Len(lines) \in Nat \ {0} /\ Len(lines') = Len(lines) - 1
        /\ \A i \in 1 .. Len(lines') : lines'[i] = lines[i + 1]
        /\ Head(lines) = lines[1]
        /\ lines[1] \in {"err:chdir", "spid", "pid", "exit"}
    BY DEF IInv, TypeOK
  <1>2. Sent(Head(lines)) /\ \A m : Sent(m)' => Sent(m)
    BY <1>1 DEF Sent
  <1>3. \A i \in 1 .. Len(lines) : lines[i] = "exit" => i = Len(lines)
    BY DEF IInv, Written
  <1>4. 1 \in 1 .. Len(lines)
    BY <1>1
  <1>5. Head(lines) = "exit" => Len(lines) = 1
    BY <1>1, <1>3, <1>4
  <1>6. Len(lines') = 0 => lines' = << >>
    BY <1>1
  <1> QED
    BY <1>1, <1>2, <1>5, <1>6

(* What done(), a stop and a shutdown of the server leave behind.          *)
LEMMA DoneTyped ==
    ASSUME NEW error \in {"FailedToStart", "UnknownError"}, mishaps \subseteq Mishap, Done(error)
    PROVE  m_state' = "NotRunning" /\ result' = error /\ mishaps' \subseteq Mishap
  <1>1. {"doneAgain", "doneWhileStarting"} \subseteq Mishap
    BY DEF Mishap
  <1> QED
    BY <1>1 DEF Done

LEMMA Stopped ==
    ASSUME TypeOK, stopProcess
    PROVE  /\ m_processId' = FALSE
           /\ pc' \in {pc, "killStub"}
           /\ commands' \in Seq({"k", "s"})
           /\ UNCHANGED <<m_state, result, m_stubServer, link, lines, terminalVars>>
  <1>1. commands \o <<"k", "s">> \in Seq({"k", "s"})
    <2>1. <<"k", "s">> \in Seq({"k", "s"})
      OBVIOUS
    <2> QED
      BY <2>1 DEF TypeOK
  <1>2. commands \in Seq({"k", "s"})
    BY DEF TypeOK
  <1> QED
    BY <1>1, <1>2 DEF stopProcess

LEMMA ShutDown ==
    ASSUME NEW open, stubServerShutdown(open)
    PROVE  /\ m_stubServer' = FALSE
           /\ link = "open" => lines = << >> /\ link' = open
           /\ link = "pending" => link' = "closed"
           /\ link \notin {"open", "pending"} => link' = link
  <1>1. CASE link = "open"
    BY <1>1 DEF stubServerShutdown
  <1>2. CASE link = "pending"
    BY <1>2 DEF stubServerShutdown
  <1>3. CASE link \notin {"open", "pending"}
    BY <1>3 DEF stubServerShutdown
  <1> QED
    BY <1>1, <1>2, <1>3

(* Every step keeps the types.                                             *)
LEMMA TypeStep == IInv /\ [Next]_vars => TypeOK'
  <1> SUFFICES ASSUME IInv, [Next]_vars PROVE TypeOK'
    OBVIOUS
  <1> USE DEF TypeOK, Mishap
  <1>0. TypeOK
    BY DEF IInv
  <1>1. CASE Start
    BY <1>0, <1>1 DEF Start
  <1>2. CASE StartFails
    BY <1>0, <1>2 DEF StartFails
  <1>3. CASE cleanupAfterStartFailure
    <2>1. Done("FailedToStart")
          /\ UNCHANGED <<pc, m_processId, m_stubServer, m_stubConnectTimer, link, lines, commands,
                         emulator, detaches, stub, child>>
      BY <1>3 DEF cleanupAfterStartFailure
    <2>2. m_state' = "NotRunning" /\ result' = "FailedToStart" /\ mishaps' \subseteq Mishap
      BY <1>0, <2>1, DoneTyped
    <2> QED
      BY <1>0, <2>1, <2>2
  <1>4. CASE stubConnectionAvailable
    <2>1. m_stubConnectTimer' = FALSE /\ link' = "open"
          /\ UNCHANGED <<m_state, result, pc, m_processId, m_stubServer, mishaps, lines, commands,
                         emulator, detaches, stub, child>>
      BY <1>4 DEF stubConnectionAvailable
    <2>2. m_stubConnectTimer' \in BOOLEAN /\ link' \in {"none", "pending", "open", "shut", "closed"}
      BY <2>1
    <2>3. UNCHANGED <<m_state, result, pc, m_processId, m_stubServer, mishaps, lines, commands,
                      emulator, detaches, stub, child>>
      BY <2>1
    <2> QED
      BY <1>0, <2>2, <2>3
  <1>5. CASE readStubOutput
    <2> DEFINE line == Head(lines)
    <2>1. lines # << >> /\ lines' = Tail(lines) /\ mishaps \subseteq Mishap
      BY <1>0, <1>5 DEF readStubOutput
    <2>2. lines' \in Seq({"err:chdir", "spid", "pid", "exit"})
          /\ line \in {"err:chdir", "spid", "pid", "exit"}
      BY <2>1, Taken
    <2>3. CASE line = "spid"
      <3>1. UNCHANGED <<m_state, result, m_processId, mishaps>>
        BY <1>5, <2>3 DEF readStubOutput
      <3> QED
        BY <1>0, <1>5, <2>2, <3>1 DEF readStubOutput
    <2>4. CASE line = "pid"
      <3>1. m_processId' = TRUE /\ m_state' = "Running" /\ UNCHANGED <<result, mishaps>>
        BY <1>5, <2>4 DEF readStubOutput
      <3> QED
        BY <1>0, <1>5, <2>2, <3>1 DEF readStubOutput
    <2>5. CASE line = "err:chdir"
      <3>1. Done("FailedToStart") /\ UNCHANGED m_processId
        BY <1>5, <2>5 DEF readStubOutput
      <3> QED
        BY <1>0, <1>5, <2>1, <2>2, <3>1, DoneTyped DEF readStubOutput
    <2>6. CASE line = "exit"
      <3>1. Done("UnknownError") /\ m_processId' = FALSE
        BY <1>5, <2>6 DEF readStubOutput
      <3>2. m_state' = "NotRunning" /\ result' = "UnknownError" /\ mishaps' \subseteq Mishap
        BY <2>1, <3>1, DoneTyped
      <3>3. UNCHANGED <<pc, m_stubServer, m_stubConnectTimer, link, commands, emulator, detaches,
                        stub, child>>
        BY <1>5 DEF readStubOutput
      <3>4. m_processId' \in BOOLEAN
        BY <3>1
      <3>5. m_state' \in {"NotRunning", "Starting", "Running"}
            /\ result' \in {"none", "FailedToStart", "UnknownError"}
        BY <3>2
      <3> QED
        BY <1>0, <2>2, <3>2, <3>3, <3>4, <3>5
    <2> QED
      BY <2>2, <2>3, <2>4, <2>5, <2>6
  <1>6. CASE sendControlSignal
    <2>1. mishaps' \subseteq Mishap
      BY <1>0, <1>6 DEF sendControlSignal
    <2>2. m_processId' = FALSE /\ pc' \in {pc, "killStub"} /\ commands' \in Seq({"k", "s"})
      BY <1>0, <1>6, Stopped DEF sendControlSignal
    <2>3. UNCHANGED <<m_state, result, m_stubServer, link, lines, terminalVars>>
      BY <1>0, <1>6, Stopped DEF sendControlSignal
    <2>4. m_stubConnectTimer' \in BOOLEAN
      BY <1>0, <1>6 DEF sendControlSignal
    <2>5. m_stubServer' \in BOOLEAN /\ m_processId' \in BOOLEAN
      BY <1>0, <2>2, <2>3
    <2>6. UNCHANGED <<m_state, result, link, lines, emulator, detaches, stub, child>>
      BY <2>3
    <2>7. pc' \in {"loop", "killStub", "waitForFinished", "stubExited"}
      BY <1>0, <2>2
    <2> QED
      BY <1>0, <2>1, <2>2, <2>4, <2>5, <2>6, <2>7
  <1>7. CASE ConnectTimeout
    <2>1. mishaps' \subseteq Mishap
      BY <1>0, <1>7 DEF ConnectTimeout
    <2>2. m_processId' = FALSE /\ pc' \in {pc, "killStub"} /\ commands' \in Seq({"k", "s"})
      BY <1>0, <1>7, Stopped DEF ConnectTimeout
    <2>3. UNCHANGED <<m_state, result, m_stubServer, link, lines, terminalVars>>
      BY <1>0, <1>7, Stopped DEF ConnectTimeout
    <2>4. m_stubConnectTimer' \in BOOLEAN
      BY <1>0, <1>7 DEF ConnectTimeout
    <2>5. m_stubServer' \in BOOLEAN /\ m_processId' \in BOOLEAN
      BY <1>0, <2>2, <2>3
    <2>6. UNCHANGED <<m_state, result, link, lines, emulator, detaches, stub, child>>
      BY <2>3
    <2>7. pc' \in {"loop", "killStub", "waitForFinished", "stubExited"}
      BY <1>0, <2>2
    <2> QED
      BY <1>0, <2>1, <2>2, <2>4, <2>5, <2>6, <2>7
  <1>8. CASE killStub
    <2>1. link' \in {"none", "shut", "closed"} /\ m_stubServer' = FALSE
      BY <1>0, <1>8, ShutDown DEF killStub
    <2> QED
      <3>1. pc' = "waitForFinished"
            /\ UNCHANGED <<m_state, result, m_processId, m_stubConnectTimer, mishaps, lines,
                           commands, terminalVars>>
        BY <1>8 DEF killStub
      <3>2. m_stubServer' \in BOOLEAN /\ m_processId' \in BOOLEAN /\ m_stubConnectTimer' \in BOOLEAN
        BY <1>0, <2>1, <3>1
      <3>3. UNCHANGED <<m_state, result, mishaps, lines, commands, emulator, detaches, stub, child>>
        BY <3>1
      <3>4. link' \in {"none", "pending", "open", "shut", "closed"}
        BY <2>1
      <3>5. pc' \in {"loop", "killStub", "waitForFinished", "stubExited"}
        BY <3>1
      <3> QED
        BY <1>0, <3>2, <3>3, <3>4, <3>5
  <1>9. CASE killStubDone
    BY <1>0, <1>9, DoneTyped DEF killStubDone
  <1>10. CASE stubExited
    BY <1>0, <1>10 DEF stubExited
  <1>11. CASE stubExitedDone
    <2>1. link' \in {"none", "shut", "closed"} /\ m_stubServer' = FALSE
      BY <1>0, <1>11, ShutDown DEF stubExitedDone
    <2>2. m_state' \in {m_state, "NotRunning"} /\ result' \in {result, "UnknownError"}
          /\ mishaps' \subseteq Mishap
      BY <1>0, <1>11, DoneTyped DEF stubExitedDone
    <2> QED
      <3>1. pc' = "loop" /\ m_processId' = FALSE
            /\ UNCHANGED <<m_stubConnectTimer, lines, commands, terminalVars>>
        BY <1>11 DEF stubExitedDone
      <3> QED
        <4>1. m_stubServer' \in BOOLEAN /\ m_processId' \in BOOLEAN
              /\ m_stubConnectTimer' \in BOOLEAN
          BY <1>0, <2>1, <3>1
        <4>2. UNCHANGED <<lines, commands, emulator, detaches, stub, child>>
          BY <3>1
        <4>3. link' \in {"none", "pending", "open", "shut", "closed"}
          BY <2>1
        <4>4. pc' \in {"loop", "killStub", "waitForFinished", "stubExited"}
          BY <3>1
        <4> QED
          BY <1>0, <2>2, <4>1, <4>2, <4>3, <4>4
  <1>12. CASE StubConnects
    BY <1>0, <1>12 DEF StubConnects
  <1>13. CASE StubCannotChangeDir
    <2>1. UNCHANGED <<m_state, result, pc, m_processId, m_stubServer, m_stubConnectTimer, mishaps,
                      link, commands, emulator, detaches, child>>
      BY <1>13 DEF StubCannotChangeDir
    <2>2. stub' = "exited" /\ lines' \in {lines, Append(lines, "err:chdir")}
      BY <1>13 DEF StubCannotChangeDir, sendMsg
    <2>3. lines' \in Seq({"err:chdir", "spid", "pid", "exit"})
      BY <1>0, <2>2
    <2> QED
      BY <1>0, <2>1, <2>2, <2>3
  <1>14. CASE StubFails
    BY <1>0, <1>14 DEF StubFails
  <1>15. CASE StubAnnounces
    <2>1. UNCHANGED <<m_state, result, pc, m_processId, m_stubServer, m_stubConnectTimer, mishaps,
                      link, commands, emulator, detaches, child>>
      BY <1>15 DEF StubAnnounces
    <2>2. stub' \in {"announced", "exited"} /\ lines' \in {lines, Append(lines, "spid")}
      BY <1>15 DEF StubAnnounces, sendMsg
    <2>3. lines' \in Seq({"err:chdir", "spid", "pid", "exit"})
      BY <1>0, <2>2
    <2> QED
      BY <1>0, <2>1, <2>2, <2>3
  <1>16. CASE StubForks
    BY <1>0, <1>16 DEF StubForks
  <1>17. CASE StubSendsPid
    <2>1. UNCHANGED <<m_state, result, pc, m_processId, m_stubServer, m_stubConnectTimer, mishaps,
                      link, commands, emulator, detaches, child>>
      BY <1>17 DEF StubSendsPid
    <2>2. stub' \in {"serving", "detached", "exited"} /\ lines' \in {lines, Append(lines, "pid")}
      BY <1>17 DEF StubSendsPid, sendMsg
    <2>3. lines' \in Seq({"err:chdir", "spid", "pid", "exit"})
      BY <1>0, <2>2
    <2> QED
      BY <1>0, <2>1, <2>2, <2>3
  <1>18. CASE StubReadsCommand
    BY <1>0, <1>18 DEF StubReadsCommand
  <1>19. CASE StubLosesCreator
    BY <1>0, <1>19 DEF StubLosesCreator
  <1>20. CASE sigchldHandler
    <2>1. UNCHANGED <<m_state, result, pc, m_processId, m_stubServer, m_stubConnectTimer, mishaps,
                      link, commands, emulator, detaches>>
      BY <1>20 DEF sigchldHandler
    <2>2. child' = "reaped" /\ stub' \in {"prompting", "exited"}
          /\ lines' \in {lines, Append(lines, "exit")}
      BY <1>20 DEF sigchldHandler, sendMsg
    <2>3. lines' \in Seq({"err:chdir", "spid", "pid", "exit"})
      BY <1>0, <2>2
    <2> QED
      BY <1>0, <2>1, <2>2, <2>3
  <1>21. CASE UserPressesReturn
    BY <1>0, <1>21 DEF UserPressesReturn
  <1>22. CASE ChildEnds
    BY <1>0, <1>22 DEF ChildEnds
  <1>23. CASE EmulatorEnds
    BY <1>0, <1>23 DEF EmulatorEnds
  <1>24. CASE WindowIsClosed
    BY <1>0, <1>24 DEF WindowIsClosed
  <1>25. CASE UNCHANGED vars
    BY <1>0, <1>25 DEF vars
  <1> QED
    BY <1>1, <1>2, <1>3, <1>4, <1>5, <1>6, <1>7, <1>8, <1>9, <1>10, <1>11, <1>12, <1>13, <1>14, <1>15, <1>16, <1>17, <1>18, <1>19, <1>20, <1>21, <1>22, <1>23, <1>24, <1>25 DEF Next, Creator, Stub

-----------------------------------------------------------------------------
(* Every step keeps the rest of the invariant.                             *)
LEMMA RestStep == IInv /\ [Next]_vars => Written' /\ Linked' /\ Quiet'
  <1> SUFFICES ASSUME IInv, [Next]_vars PROVE Written' /\ Linked' /\ Quiet'
    OBVIOUS
  <1> USE DEF Written, Linked, Quiet
  <1>0. TypeOK /\ Written /\ Linked /\ Quiet
    BY DEF IInv
  <1>a. UNCHANGED lines => \A m : Sent(m)' <=> Sent(m)
    BY DEF Sent
  <1>1. CASE Start
    BY <1>0, <1>a, <1>1 DEF Start
  <1>2. CASE StartFails
    BY <1>0, <1>a, <1>2 DEF StartFails
  <1>3. CASE cleanupAfterStartFailure
    BY <1>0, <1>a, <1>3 DEF cleanupAfterStartFailure, Done
  <1>4. CASE stubConnectionAvailable
    BY <1>0, <1>a, <1>4 DEF stubConnectionAvailable
  <1>5. CASE readStubOutput
    <2> DEFINE line == Head(lines)
    <2>1. /\ link = "open" /\ lines # << >> /\ lines' = Tail(lines)
          /\ UNCHANGED <<pc, m_stubServer, link, stub, emulator>>
      BY <1>5 DEF readStubOutput
    <2>2. /\ line \in {"err:chdir", "spid", "pid", "exit"} /\ Sent(line)
          /\ Len(lines') = Len(lines) - 1 /\ Len(lines) \in Nat
          /\ \A i \in 1 .. Len(lines') : lines'[i] = lines[i + 1]
          /\ \A m : Sent(m)' => Sent(m)
          /\ line = "exit" => lines' = << >>
      <3>1. Len(lines) \in Nat
        BY <1>0 DEF TypeOK
      <3> QED
        BY <2>1, <3>1, Taken
    <2>3. Linked'
      BY <1>0, <2>1
    <2>4. m_state' = "Running" => m_state = "Running" \/ line = "pid"
      BY <1>5, <2>2 DEF readStubOutput, Done
    <2>5. m_state' = "NotRunning" => m_state = "NotRunning" \/ line \in {"err:chdir", "exit"}
      BY <1>5, <2>2 DEF readStubOutput, Done
    <2>6. \A i \in 1 .. Len(lines') : lines'[i] = "exit" => i = Len(lines')
      BY <1>0, <2>2
    <2>7. Written'
      BY <1>0, <2>1, <2>2, <2>4, <2>6
    <2>8. line = "exit" => stub \notin {"none", "launched", "connected", "announced", "forked"}
      <3>1. lines = << >> => ~Sent("exit")
        BY DEF Sent
      <3> QED
        BY <1>0, <2>2, <3>1
    <2>9. Quiet'
      <3>1. m_state' = "NotRunning" => ~Sent("pid")' /\ stub \notin {"none", "launched", "connected", "announced", "forked"}
        <4>1. CASE m_state = "NotRunning"
          BY <1>0, <2>1, <2>2, <4>1
        <4>2. CASE line = "err:chdir"
          BY <1>0, <2>1, <2>2, <4>2
        <4>3. CASE line = "exit"
          BY <2>2, <2>8, <4>3 DEF Sent
        <4> QED
          BY <2>5, <4>1, <4>2, <4>3
      <3> QED
        BY <2>1, <3>1
    <2> QED
      BY <2>3, <2>7, <2>9
  <1>6. CASE sendControlSignal
    <2>1. UNCHANGED <<m_state, m_stubServer, link, lines, stub, emulator>> /\ pc' \in {pc, "killStub"}
      BY <1>0, <1>6, Stopped DEF sendControlSignal
    <2> QED
      BY <1>0, <1>a, <2>1
  <1>7. CASE ConnectTimeout
    <2>1. UNCHANGED <<m_state, m_stubServer, link, lines, stub, emulator>> /\ pc' \in {pc, "killStub"}
      BY <1>0, <1>7, Stopped DEF ConnectTimeout
    <2> QED
      BY <1>0, <1>a, <2>1
  <1>8. CASE killStub
    <2>1. /\ m_stubServer' = FALSE /\ link' \notin {"pending", "open"}
          /\ link = "none" => link' = "none"
      <3>1. stubServerShutdown("shut") /\ link \in {"none", "pending", "open", "shut", "closed"}
        BY <1>0, <1>8 DEF killStub, TypeOK
      <3>2. /\ m_stubServer' = FALSE
            /\ link = "open" => link' = "shut"
            /\ link = "pending" => link' = "closed"
            /\ link \notin {"open", "pending"} => link' = link
        BY <3>1, ShutDown
      <3> QED
        BY <3>1, <3>2
    <2>2. UNCHANGED <<m_state, lines, stub, emulator>>
      BY <1>8 DEF killStub
    <2> QED
      BY <1>0, <1>a, <2>1, <2>2
  <1>9. CASE killStubDone
    <2>1. /\ m_state' = "NotRunning" /\ pc' = "loop" /\ pc = "waitForFinished"
          /\ link' = IF link = "shut" THEN "closed" ELSE link
          /\ UNCHANGED <<m_stubServer, lines, stub, emulator>>
      BY <1>9 DEF killStubDone, Done
    <2> QED
      BY <1>0, <1>a, <2>1
  <1>10. CASE stubExited
    BY <1>0, <1>a, <1>10 DEF stubExited
  <1>11. CASE stubExitedDone
    <2>1. /\ m_stubServer' = FALSE /\ link' \notin {"pending", "open"}
          /\ link = "none" => link' = "none"
      <3>1. stubServerShutdown("closed") /\ link \in {"none", "pending", "open", "shut", "closed"}
        BY <1>0, <1>11 DEF stubExitedDone, TypeOK
      <3>2. /\ m_stubServer' = FALSE
            /\ link = "open" => link' = "closed"
            /\ link = "pending" => link' = "closed"
            /\ link \notin {"open", "pending"} => link' = link
        BY <3>1, ShutDown
      <3> QED
        BY <3>1, <3>2
    <2>2. m_state' \in {m_state, "NotRunning"} /\ pc' = "loop"
          /\ UNCHANGED <<lines, stub, emulator>>
      BY <1>11 DEF stubExitedDone, Done
    <2> QED
      BY <1>0, <1>a, <2>1, <2>2
  <1>12. CASE StubConnects
    BY <1>0, <1>a, <1>12 DEF StubConnects
  <1>13. CASE StubCannotChangeDir
    <2>1. stub = "connected" /\ UNCHANGED <<m_state, pc, m_stubServer, link, emulator>>
      BY <1>13 DEF StubCannotChangeDir
    <2>2. CASE lines' = Append(lines, "err:chdir") /\ stub' = "exited" /\ link \notin {"closed", "shut"}
      <3>1. /\ Len(lines') = Len(lines) + 1 /\ Len(lines) \in Nat /\ lines'[Len(lines')] = "err:chdir"
            /\ \A i \in 1 .. Len(lines) : lines'[i] = lines[i]
            /\ \A m : Sent(m)' <=> Sent(m) \/ m = "err:chdir"
        BY <2>2, Added DEF IInv, TypeOK
      <3>2. ~Sent("exit")
        BY <1>0, <2>1 DEF Sent, TypeOK
      <3>3. \A i \in 1 .. Len(lines') : lines'[i] = "exit" => i = Len(lines')
        BY <3>1, <3>2 DEF Sent
      <3> QED
        BY <1>0, <2>1, <2>2, <3>1, <3>2, <3>3 DEF Sent, TypeOK
    <2>3. CASE UNCHANGED lines /\ link \in {"closed", "shut"} /\ stub' = "exited"
      BY <1>0, <1>a, <2>1, <2>3
    <2> QED
      BY <1>13, <1>0, <2>2, <2>3 DEF StubCannotChangeDir, sendMsg, TypeOK
  <1>14. CASE StubFails
    BY <1>0, <1>a, <1>14 DEF StubFails
  <1>15. CASE StubAnnounces
    <2>1. stub = "connected" /\ UNCHANGED <<m_state, pc, m_stubServer, link, emulator>>
      BY <1>15 DEF StubAnnounces
    <2>2. CASE lines' = Append(lines, "spid") /\ stub' = "announced" /\ link \notin {"closed", "shut"}
      <3>1. /\ Len(lines') = Len(lines) + 1 /\ Len(lines) \in Nat /\ lines'[Len(lines')] = "spid"
            /\ \A i \in 1 .. Len(lines) : lines'[i] = lines[i]
            /\ \A m : Sent(m)' <=> Sent(m) \/ m = "spid"
        BY <2>2, Added DEF IInv, TypeOK
      <3>2. ~Sent("exit")
        BY <1>0, <2>1 DEF Sent, TypeOK
      <3>3. \A i \in 1 .. Len(lines') : lines'[i] = "exit" => i = Len(lines')
        BY <3>1, <3>2 DEF Sent
      <3> QED
        BY <1>0, <2>1, <2>2, <3>1, <3>2, <3>3 DEF Sent, TypeOK
    <2>3. CASE UNCHANGED lines /\ link \in {"closed", "shut"} /\ stub' \in {"announced", "exited"}
      <3>1. lines = << >> => ~Sent("pid") /\ ~Sent("err:chdir") /\ ~Sent("exit")
        BY DEF Sent
      <3> QED
        BY <1>0, <1>a, <2>1, <2>3, <3>1
    <2> QED
      BY <1>15, <1>0, <2>2, <2>3 DEF StubAnnounces, sendMsg, TypeOK
  <1>16. CASE StubForks
    BY <1>0, <1>a, <1>16 DEF StubForks
  <1>17. CASE StubSendsPid
    <2>1. stub = "forked" /\ UNCHANGED <<m_state, pc, m_stubServer, link, emulator>>
      BY <1>17 DEF StubSendsPid
    <2>2. CASE lines' = Append(lines, "pid") /\ stub' = "serving" /\ link \notin {"closed", "shut"}
      <3>1. /\ Len(lines') = Len(lines) + 1 /\ Len(lines) \in Nat /\ lines'[Len(lines')] = "pid"
            /\ \A i \in 1 .. Len(lines) : lines'[i] = lines[i]
            /\ \A m : Sent(m)' <=> Sent(m) \/ m = "pid"
        BY <2>2, Added DEF IInv, TypeOK
      <3>2. ~Sent("exit")
        BY <1>0, <2>1 DEF Sent, TypeOK
      <3>3. \A i \in 1 .. Len(lines') : lines'[i] = "exit" => i = Len(lines')
        BY <3>1, <3>2 DEF Sent
      <3> QED
        BY <1>0, <2>1, <2>2, <3>1, <3>2, <3>3 DEF Sent, TypeOK
    <2>3. CASE UNCHANGED lines /\ link \in {"closed", "shut"} /\ stub' \in {"serving", "detached", "exited"}
      BY <1>0, <1>a, <2>1, <2>3
    <2> QED
      BY <1>17, <1>0, <2>2, <2>3 DEF StubSendsPid, sendMsg, TypeOK
  <1>18. CASE StubReadsCommand
    BY <1>0, <1>a, <1>18 DEF StubReadsCommand
  <1>19. CASE StubLosesCreator
    BY <1>0, <1>a, <1>19 DEF StubLosesCreator
  <1>20. CASE sigchldHandler
    <2>1. stub \in {"forked", "serving", "detached"}
          /\ UNCHANGED <<m_state, pc, m_stubServer, link, emulator>>
      BY <1>20 DEF sigchldHandler
    <2>2. CASE lines' = Append(lines, "exit") /\ stub' = "prompting" /\ stub # "detached"
      <3>1. /\ Len(lines') = Len(lines) + 1 /\ Len(lines) \in Nat /\ lines'[Len(lines')] = "exit"
            /\ \A i \in 1 .. Len(lines) : lines'[i] = lines[i]
            /\ \A m : Sent(m)' <=> Sent(m) \/ m = "exit"
        BY <2>2, Added DEF IInv, TypeOK
      <3>2. ~Sent("exit")
        BY <1>0, <2>1, <2>2
      <3>3. \A i \in 1 .. Len(lines') : lines'[i] = "exit" => i = Len(lines')
        BY <3>1, <3>2 DEF Sent
      <3> QED
        BY <1>0, <2>1, <2>2, <3>1, <3>2, <3>3
    <2>3. CASE UNCHANGED lines /\ stub' \in {"prompting", "exited"}
      BY <1>0, <1>a, <2>1, <2>3
    <2> QED
      BY <1>20, <1>0, <2>2, <2>3 DEF sigchldHandler, sendMsg, TypeOK
  <1>21. CASE UserPressesReturn
    BY <1>0, <1>a, <1>21 DEF UserPressesReturn
  <1>22. CASE ChildEnds
    BY <1>0, <1>a, <1>22 DEF ChildEnds
  <1>23. CASE EmulatorEnds
    BY <1>0, <1>a, <1>23 DEF EmulatorEnds
  <1>24. CASE WindowIsClosed
    BY <1>0, <1>a, <1>24 DEF WindowIsClosed
  <1>25. CASE UNCHANGED vars
    BY <1>0, <1>a, <1>25 DEF vars
  <1> QED
    BY <1>1, <1>2, <1>3, <1>4, <1>5, <1>6, <1>7, <1>8, <1>9, <1>10, <1>11, <1>12, <1>13,
       <1>14, <1>15, <1>16, <1>17, <1>18, <1>19, <1>20, <1>21, <1>22, <1>23, <1>24, <1>25
       DEF Next, Creator, Stub

THEOREM Invariance == Spec => []IInv
  <1>1. IInv /\ [Next]_vars => IInv'
    BY TypeStep, RestStep DEF IInv
  <1> QED
    BY Initially, <1>1, PTL DEF Spec

(* A terminal process has its type in every reachable state.               *)
THEOREM TypeCorrect == Spec => []TypeOK
  BY Invariance, PTL DEF IInv
-----------------------------------------------------------------------------
(* The contract.                                                           *)

Broken == {"doneAgain", "doneWhileStarting"}

(* What done() means for the contract.                                     *)
LEMMA DoneMeans ==
    ASSUME NEW error, Done(error), TypeOK,
           m_state = "Running" => error = "UnknownError"
    PROVE  /\ m_state' = "NotRunning" /\ result' = error
           /\ \/ mishaps' \cap Broken # {}
              \/ m_state = "Starting" /\ error = "FailedToStart"
              \/ m_state = "Running" /\ error = "UnknownError"
  <1>1. CASE m_state = "NotRunning"
    BY <1>1 DEF Done, Broken
  <1>2. CASE m_state = "Starting" /\ error # "FailedToStart"
    BY <1>2 DEF Done, Broken
  <1>3. CASE m_state = "Starting" /\ error = "FailedToStart"
    BY <1>3 DEF Done
  <1>4. CASE m_state = "Running"
    BY <1>4 DEF Done
  <1> QED
    BY <1>1, <1>2, <1>3, <1>4 DEF TypeOK

(* What a step does to the state and the result of the process.            *)
Starts == m_state = "NotRunning" /\ result = "none" /\ m_state' = "Starting" /\ UNCHANGED result
HasStarted == m_state = "Starting" /\ m_state' = "Running" /\ UNCHANGED result
Ends ==
    /\ m_state' = "NotRunning"
    /\ \/ m_state = "Starting" /\ result' = "FailedToStart"
       \/ m_state = "Running" /\ result' = "UnknownError"

LEMMA StepMeans ==
    IInv /\ [Next]_vars =>
        \/ mishaps' \cap Broken # {}
        \/ UNCHANGED <<m_state, result>> \/ Starts \/ HasStarted \/ Ends
  <1> SUFFICES ASSUME IInv, [Next]_vars
               PROVE  \/ mishaps' \cap Broken # {}
                      \/ UNCHANGED <<m_state, result>> \/ Starts \/ HasStarted \/ Ends
    OBVIOUS
  <1>0. TypeOK /\ Written /\ Quiet
    BY DEF IInv
  <1>1. CASE Start \/ StartFails
    BY <1>1 DEF Start, StartFails, Starts
  <1>2. CASE cleanupAfterStartFailure
    BY <1>0, <1>2, DoneMeans DEF cleanupAfterStartFailure, Ends
  <1>3. CASE readStubOutput
    <2> DEFINE line == Head(lines)
    <2>1. link = "open" /\ line \in {"err:chdir", "spid", "pid", "exit"} /\ Sent(line)
      BY <1>3, Taken DEF readStubOutput
    <2>2. CASE line = "spid"
      BY <1>3, <2>2 DEF readStubOutput
    <2>3. CASE line = "pid"
      <3>1. m_state' = "Running" /\ UNCHANGED result
        BY <1>3, <2>3 DEF readStubOutput
      <3>2. m_state \in {"Starting", "Running"}
        BY <1>0, <2>1, <2>3 DEF Quiet, TypeOK
      <3> QED
        BY <3>1, <3>2 DEF HasStarted
    <2>4. CASE line = "err:chdir"
      <3>1. Done("FailedToStart")
        BY <1>3, <2>4 DEF readStubOutput
      <3>2. m_state # "Running"
        BY <1>0, <2>1, <2>4 DEF Written
      <3> QED
        BY <1>0, <3>1, <3>2, DoneMeans DEF Ends
    <2>5. CASE line = "exit"
      <3>1. Done("UnknownError")
        BY <1>3, <2>5 DEF readStubOutput
      <3> QED
        BY <1>0, <3>1, DoneMeans DEF Ends
    <2> QED
      BY <2>1, <2>2, <2>3, <2>4, <2>5
  <1>4. CASE sendControlSignal \/ ConnectTimeout
    BY <1>4 DEF sendControlSignal, ConnectTimeout, stopProcess
  <1>5. CASE killStubDone
    BY <1>0, <1>5, DoneMeans DEF killStubDone, Ends
  <1>6. CASE stubExitedDone
    <2>1. Done("UnknownError") \/ UNCHANGED <<m_state, result>>
      BY <1>6 DEF stubExitedDone
    <2> QED
      BY <1>0, <2>1, DoneMeans DEF Ends
  <1>7. CASE stubConnectionAvailable \/ killStub \/ stubExited
    BY <1>7 DEF stubConnectionAvailable, killStub, stubExited
  <1>8. CASE Stub
    BY <1>8 DEF Stub, StubConnects, StubCannotChangeDir, StubFails, StubAnnounces, StubForks,
                StubSendsPid, StubReadsCommand, StubLosesCreator, sigchldHandler
  <1>9. CASE UserPressesReturn \/ ChildEnds \/ EmulatorEnds \/ WindowIsClosed
    BY <1>9 DEF UserPressesReturn, ChildEnds, EmulatorEnds, WindowIsClosed
  <1>10. CASE UNCHANGED vars
    BY <1>10 DEF vars
  <1> QED
    BY <1>1, <1>2, <1>3, <1>4, <1>5, <1>6, <1>7, <1>8, <1>9, <1>10 DEF Next, Creator

(* Those are the steps of the contract.                                    *)
LEMMA ContractStep ==
    ASSUME UNCHANGED <<m_state, result>> \/ Starts \/ HasStarted \/ Ends
    PROVE  [Contract!Next]_Contract!vars
  <1>1. CASE UNCHANGED <<m_state, result>>
    BY <1>1 DEF Contract!vars
  <1>2. CASE Starts
    <2>1. Contract!Start("terminal")
      BY <1>2 DEF Starts, Contract!Start
    <2> QED
      BY <2>1 DEF Contract!Next
  <1>3. CASE HasStarted
    <2>1. Contract!Started("terminal")
      BY <1>3 DEF HasStarted, Contract!Started
    <2> QED
      BY <2>1 DEF Contract!Next
  <1>4. CASE Ends
    <2>1. << >> = Contract!FirstOf(0)
      BY DEF Contract!FirstOf
    <2>2. Contract!Done("terminal")
      BY <1>4, <2>1 DEF Ends, Contract!Done
    <2> QED
      BY <2>2 DEF Contract!Next
  <1> QED
    BY <1>1, <1>2, <1>3, <1>4

(* TerminalImpl implements ProcessInterface, except where its done() comes *)
(* twice, or in Starting without the error FailedToStart.                  *)
THEOREM Refinement == Spec => KeepsContract
  <1>1. Init => Contract!Init
    BY DEF Init, Contract!Init
  <1>2. IInv /\ [Next]_vars =>
          [mishaps' \cap {"doneAgain", "doneWhileStarting"} # {} \/ Contract!Next]_Contract!vars
    BY StepMeans, ContractStep DEF Broken
  <1> QED
    BY <1>1, <1>2, Invariance, PTL DEF Spec, KeepsContract
=============================================================================
