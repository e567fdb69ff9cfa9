----------------------------- MODULE LanguageClient -----------------------------
(***************************************************************************)
(* A language client (languageclient/client.cpp) with its part of the      *)
(* LanguageClientManager, its interface (languageclientinterface.cpp),     *)
(* which lives in a thread of its own, and the server, which may fail to   *)
(* start, refuse to be initialized, hang, or end at any time.              *)
(*                                                                         *)
(* The functions of the GUI thread are operators from one value of d to    *)
(* the next.  The GUI thread makes queued calls of the interface, which    *)
(* queues its signals to the GUI thread.  What the interface writes the    *)
(* server reads at once: one that reads late, or never, is seen by nobody. *)
(*                                                                         *)
(* The server supports incremental synchronisation and sends answers only. *)
(* A document stands for its file; its text is how often it was edited.    *)
(* A deleted client is gone at once: what it still does cannot be seen.    *)
(***************************************************************************)
EXTENDS Integers, Sequences, FiniteSets, FiniteSetsExt

CONSTANTS
    Docs,
    includes,     \* referencesShadowFile(): the documents a document includes
    Generated,    \* the documents a shadow may be made of: headers of forms
    MaxRestarts,  \* ClientPrivate::MaxRestarts
    MaxActs       \* bound: how often the user does something, or pauses

ASSUME ConstantsAssumption ==
    /\ includes \in [Docs -> SUBSET Docs] /\ Generated \subseteq Docs
    /\ MaxRestarts \in Nat /\ MaxActs \in Nat

VARIABLES
    d,        \* ClientPrivate, and what the manager has to do with this client
    events,   \* signals of the interface on their way to the GUI thread
    server,   \* the server and what it knows
    editors,  \* the documents that are open in Qt Creator
    text,     \* their contents
    acts

vars == <<d, events, server, editors, text, acts>>

(* "shadowed": a shadow was opened over a document that is open, or closed *)
(* though it was not open.  "lateError": something was sent when the       *)
(* server had ended.  "refused": a server ended by itself that had refused *)
(* to be initialized and was taken for finished then.                      *)
Mishap == {"shadowed", "lateError", "refused"}

State == {"Uninitialized", "InitializeRequested", "Initialized",
          "ShutdownRequested", "Shutdown", "Error", "Deleted"}

(* No version, of a file that m_documentVersions does not contain.         *)
None == -1

Message ==
    [type : {"initialize", "initialized", "shutdown", "exit"}]
    \cup [type : {"didOpen"}, doc : Docs, text : Nat, version : Nat]
    \cup [type : {"didChange"}, doc : Docs, from : Nat \cup {None}, text : Nat, version : Nat]
    \cup [type : {"didClose", "didSave"}, doc : Docs]
    \cup [type : {"request"}, doc : Docs, text : Nat]

TypeOK ==
    /\ d \in [m_state : State,
              m_openedDocument : SUBSET Docs, m_postponedDocuments : SUBSET Docs,
              m_documentVersions : [Docs -> Nat \cup {None}],
              m_documentsToUpdate : [Docs -> Seq(Nat)], \* from which text to which
              m_documentUpdateTimer : BOOLEAN,
              m_shadowDocuments :
                  [Docs -> [set : BOOLEAN, text : Nat, users : SUBSET Docs]],
              m_responseHandlers : SUBSET {"initialize", "shutdown"},
              m_shutdownTimer : BOOLEAN,
              m_restartsLeft : 0 .. MaxRestarts, m_restartCountResetTimer : BOOLEAN,
              restarts : Nat,                     \* running timers that restart it
              m_clientForDocument : [Docs -> {"none", "this", "other"}],
              m_shuttingDown : BOOLEAN,
              calls : Seq(Message \cup [type : {"start"}]), \* queued for the interface
              mishaps : SUBSET Mishap]            \* history: what has gone wrong
    /\ events \in Seq({"started", "error", "finished", "initialized", "refused", "shutdown"})
    /\ server \in [process : {"none", "starting", "running"},
                   phase : {"new", "initializing", "refused", "answered", "working",
                            "stopping", "stopped"},
                   docs : [Docs -> [version : Nat \cup {None}, text : Nat]],
                   complaints : SUBSET STRING]
    /\ editors \subseteq Docs
    /\ text \in [Docs -> Nat]
    /\ acts \in 0 .. MaxActs

NotOpen == [version |-> None, text |-> 0]

(* A server before its first message.                                      *)
NewServer(process, complaints) ==
    [process |-> process, phase |-> "new", docs |-> [doc \in Docs |-> NotOpen],
     complaints |-> complaints]

(* The client has been created, and start() called.                        *)
Init ==
    /\ d = [m_state |-> "Uninitialized",
            m_openedDocument |-> {}, m_postponedDocuments |-> {},
            m_documentVersions |-> [doc \in Docs |-> None],
            m_documentsToUpdate |-> [doc \in Docs |-> <<>>],
            m_documentUpdateTimer |-> FALSE,
            m_shadowDocuments |-> [doc \in Docs |-> [set |-> FALSE, text |-> 0, users |-> {}]],
            m_responseHandlers |-> {}, m_shutdownTimer |-> FALSE,
            m_restartsLeft |-> MaxRestarts, m_restartCountResetTimer |-> FALSE,
            restarts |-> 0,
            m_clientForDocument |-> [doc \in Docs |-> "none"],
            m_shuttingDown |-> FALSE,
            calls |-> <<[type |-> "start"]>>, mishaps |-> {}]
    /\ events = <<>>
    /\ server = NewServer("none", {})
    /\ editors = {}
    /\ text = [doc \in Docs |-> 0]
    /\ acts = 0
-----------------------------------------------------------------------------
(* Sending.                                                                *)

(* sendMessageNow(), through the InterfaceController.                      *)
sendMessageNow(m, message) == [m EXCEPT !.calls = Append(@, message)]

(* sendMessage(), SendDocUpdates::Ignore.                                  *)
sendIgnoringUpdates(m, message) ==
    IF m.m_state = "Initialized" THEN sendMessageNow(m, message) ELSE m

DidOpen(doc, content, version) ==
    [type |-> "didOpen", doc |-> doc, text |-> content, version |-> version]

DidChange(doc, from, content, version) ==
    [type |-> "didChange", doc |-> doc, from |-> from, text |-> content, version |-> version]

DidClose(doc) == [type |-> "didClose", doc |-> doc]

(* m_documentVersions[file], which adds a file that is not there.           *)
Version(m, doc) == IF m.m_documentVersions[doc] = None THEN 0 ELSE m.m_documentVersions[doc]

(* ++m_documentVersions[file]                                              *)
NextVersion(m, doc) == Version(m, doc) + 1

sendPostponedDocumentUpdates(m) ==
    LET changed == {doc \in Docs : m.m_documentsToUpdate[doc] # <<>>}
        SendUpdate(doc, n) ==
            LET change == m.m_documentsToUpdate[doc] IN
            sendIgnoringUpdates([n EXCEPT !.m_documentVersions[doc] = Version(m, doc)],
                                DidChange(doc, change[1], change[2], Version(m, doc)))
    IN  FoldSet(SendUpdate,
                [m EXCEPT !.m_documentUpdateTimer = FALSE,
                          !.m_documentsToUpdate = [doc \in Docs |-> <<>>]],
                changed)

(* Faulty: the server is asked before it has been told.                    *)
sendMessageFirst(m, message) ==
    IF m.m_state = "Initialized"
    THEN sendPostponedDocumentUpdates(sendMessageNow(m, message))
    ELSE m

(* sendMessage(), SendDocUpdates::Send.                                    *)
sendMessage(m, message) ==
    IF m.m_state = "Initialized"
    THEN sendMessageNow(sendPostponedDocumentUpdates(m), message)
    ELSE m

-----------------------------------------------------------------------------
(* Documents and shadows.                                                  *)
Shadow(m, doc) == m.m_shadowDocuments[doc]

openShadowDocument(m, requiring, doc) ==
    LET n == [m EXCEPT !.m_shadowDocuments[doc].users = @ \cup {requiring}]
        opened == [n EXCEPT !.m_documentVersions[doc] = NextVersion(m, doc),
                            !.mishaps = IF doc \in m.m_openedDocument
                                        THEN @ \cup {"shadowed"} ELSE @]
    IN  IF Shadow(m, doc).users # {} THEN n
        ELSE sendIgnoringUpdates(opened,
                                 DidOpen(doc, Shadow(m, doc).text, NextVersion(m, doc)))

closeShadowDocument(m, doc) ==
    [sendIgnoringUpdates(m, DidClose(doc)) EXCEPT !.m_shadowDocuments[doc].users = {}]

openRequiredShadowDocuments(m, doc) ==
    FoldSet(LAMBDA f, n : openShadowDocument(n, doc, f), m,
            {f \in includes[doc] : Shadow(m, f).set /\ doc \notin Shadow(m, f).users})

closeRequiredShadowDocuments(m, doc) ==
    FoldSet(LAMBDA f, n : IF Shadow(n, f).users = {doc} THEN closeShadowDocument(n, f)
                          ELSE [n EXCEPT !.m_shadowDocuments[f].users = @ \ {doc}],
            m, {f \in Docs : doc \in Shadow(m, f).users})

(* openDocument(), of a document that is supported.  Without a client it   *)
(* gets this one (m_activateDocAutomatically).                             *)
openDocument(m, doc) ==
    LET closed == IF Shadow(m, doc).set
                  THEN [closeShadowDocument(m, doc) EXCEPT
                          !.mishaps = IF Shadow(m, doc).users = {}
                                      THEN @ \cup {"shadowed"} ELSE @]
                  ELSE m
        required == openRequiredShadowDocuments(closed, doc)
        opened == [required EXCEPT
                     !.m_openedDocument = @ \cup {doc},
                     !.m_documentVersions[doc] = Version(required, doc),
                     !.m_clientForDocument[doc] = IF @ = "none" THEN "this" ELSE @]
    IN  IF doc \in m.m_openedDocument THEN m
        ELSE IF m.m_state # "Initialized"
        THEN [m EXCEPT !.m_postponedDocuments = @ \cup {doc}]
        ELSE sendIgnoringUpdates(opened, DidOpen(doc, text[doc], Version(required, doc)))

closeDocument(m, doc) ==
    LET closed == [m EXCEPT !.m_postponedDocuments = @ \ {doc},
                            !.m_documentsToUpdate[doc] = <<>>,
                            !.m_openedDocument = @ \ {doc}]
        told == IF doc \in m.m_openedDocument
                THEN sendIgnoringUpdates(closed, DidClose(doc)) ELSE closed
        required == closeRequiredShadowDocuments(told, doc)
    IN  IF m.m_state # "Initialized" THEN closed
        ELSE IF ~Shadow(required, doc).set THEN required
        ELSE FoldSet(LAMBDA user, n : openShadowDocument(n, user, doc), required,
                     {user \in required.m_openedDocument : doc \in includes[user]})

(* documentContentsChanged(), when the text has become content.            *)
documentContentsChanged(m, doc, content) ==
    IF doc \notin m.m_openedDocument \/ m.m_state # "Initialized" THEN m
    ELSE [m EXCEPT !.m_documentsToUpdate[doc] =
                       IF @ = <<>> THEN <<content - 1, content>> ELSE <<@[1], content>>,
                   !.m_documentVersions[doc] = NextVersion(m, doc),
                   !.m_documentUpdateTimer = TRUE]

documentContentsSaved(m, doc) ==
    IF doc \notin m.m_openedDocument THEN m
    ELSE sendMessage(openRequiredShadowDocuments(m, doc), [type |-> "didSave", doc |-> doc])

(* Faulty: a shadow that is open is not updated.                           *)
setShadowDocumentOnce(m, doc, content) ==
    LET n == [m EXCEPT !.m_shadowDocuments[doc].set = TRUE,
                       !.m_shadowDocuments[doc].text = content]
    IN  IF m.m_state # "Initialized" THEN m
        ELSE IF Shadow(m, doc).users # {} \/ doc \in m.m_openedDocument THEN n
        ELSE FoldSet(LAMBDA user, k : openShadowDocument(k, user, doc), n,
                     {user \in m.m_openedDocument : doc \in includes[user]})

setShadowDocument(m, doc, content) ==
    LET n == [m EXCEPT !.m_shadowDocuments[doc].set = TRUE,
                       !.m_shadowDocuments[doc].text = content]
        version == NextVersion(m, doc)
    IN  IF m.m_state # "Initialized" THEN m
        ELSE IF Shadow(m, doc).users # {}
        THEN sendIgnoringUpdates([n EXCEPT !.m_documentVersions[doc] = version],
                                 DidChange(doc, None, content, version))
        ELSE IF doc \in m.m_openedDocument THEN n
        ELSE FoldSet(LAMBDA user, k : openShadowDocument(k, user, doc), n,
                     {user \in m.m_openedDocument : doc \in includes[user]})

removeShadowDocument(m, doc) ==
    LET closed == IF Shadow(m, doc).users # {} THEN closeShadowDocument(m, doc) ELSE m
    IN  [closed EXCEPT !.m_shadowDocuments[doc] = [set |-> FALSE, text |-> 0, users |-> {}]]

-----------------------------------------------------------------------------
(* The life of the client.                                                 *)
initialize(m) ==
    IF m.m_state # "Uninitialized" THEN m
    ELSE [sendMessageNow(m, [type |-> "initialize"]) EXCEPT
             !.m_responseHandlers = @ \cup {"initialize"},
             !.m_state = "InitializeRequested"]

(* shutdown(); its caller makes sure that the client is initialized.       *)
shutdown(m) ==
    [sendMessage(m, [type |-> "shutdown"]) EXCEPT
        !.m_responseHandlers = @ \cup {"shutdown"},
        !.m_state = "ShutdownRequested",
        !.m_shutdownTimer = TRUE]

deleteClient(m) == [m EXCEPT !.m_state = "Deleted", !.calls = <<>>,
                             !.m_clientForDocument = [doc \in Docs |->
                                 IF @[doc] = "this" THEN "none" ELSE @[doc]]]

(* Faulty: the state is left as it was.                                    *)
resetDocuments(m) ==
    [m EXCEPT
        !.m_restartCountResetTimer = TRUE,
        !.m_restartsLeft = @ - 1,
        !.m_responseHandlers = {},
        !.m_openedDocument = {},
        !.m_shadowDocuments = [doc \in Docs |-> [@[doc] EXCEPT !.users = {}]],
        !.m_documentVersions = [doc \in Docs |-> None]]

(* reset(), when there are restarts left.                                  *)
reset(m) ==
    [m EXCEPT
        !.m_restartCountResetTimer = TRUE,
        !.m_restartsLeft = @ - 1,
        !.m_state = "Uninitialized",
        !.m_responseHandlers = {},
        !.m_openedDocument = {},
        !.m_shadowDocuments = [doc \in Docs |-> [@[doc] EXCEPT !.users = {}]],
        !.m_documentVersions = [doc \in Docs |-> None]]

clientFinished(m) ==
    IF m.m_state \in {"Shutdown", "ShutdownRequested"} \/ m.m_shuttingDown
       \/ m.m_restartsLeft = 0
    THEN deleteClient(m)
    ELSE [reset(m) EXCEPT !.restarts = @ + 1]

clientStarted(m) ==
    IF m.m_shuttingDown THEN clientFinished(m)
    ELSE FoldSet(LAMBDA doc, n : openDocument(n, doc), initialize(m),
                 {doc \in Docs : m.m_clientForDocument[doc] = "this"})

shutdownClient(m) ==
    LET n == [m EXCEPT !.m_clientForDocument = [doc \in Docs |->
                           IF @[doc] = "this" THEN "none" ELSE @[doc]]]
    IN  IF m.m_state = "Initialized" THEN shutdown(n)
        ELSE IF m.m_state \in {"Shutdown", "ShutdownRequested"} THEN n
        ELSE deleteClient(n)

projectClosed(m) ==
    IF m.m_state = "Initialized" THEN shutdown(m)
    ELSE clientFinished([m EXCEPT !.m_state = "Shutdown"])

(* initializeCallback(), of a server that agrees, and of one that refuses:  *)
(* the user may want to try again, or the client is taken for finished.     *)
initializeCallback(m) ==
    LET n == sendMessage([m EXCEPT !.m_state = "Initialized"], [type |-> "initialized"])
    IN  IF m.m_state # "InitializeRequested" THEN m
        ELSE [FoldSet(LAMBDA doc, k : openDocument(k, doc), n, n.m_postponedDocuments)
                EXCEPT !.m_postponedDocuments = {}]

initializeCallbackRefused(m, retry) ==
    IF m.m_state # "InitializeRequested" THEN m
    ELSE IF retry THEN initialize([m EXCEPT !.m_state = "Uninitialized"])
    ELSE clientFinished([m EXCEPT !.m_state = "Error"])

(* Faulty: who waits for the server to end waits for good.                 *)
shutDownCallbackWithoutTimer(m) ==
    IF m.m_state # "ShutdownRequested" THEN [m EXCEPT !.m_shutdownTimer = FALSE]
    ELSE [sendMessageNow(m, [type |-> "exit"]) EXCEPT !.m_state = "Shutdown",
                                                      !.m_shutdownTimer = FALSE]

shutDownCallback(m) ==
    IF m.m_state # "ShutdownRequested" THEN [m EXCEPT !.m_shutdownTimer = FALSE]
    ELSE [sendMessageNow(m, [type |-> "exit"]) EXCEPT !.m_state = "Shutdown",
                                                      !.m_shutdownTimer = TRUE]

-----------------------------------------------------------------------------
(* The GUI thread: the user, the events, the timers.                       *)

(* ~Client() ends the thread of the interface, and with it the server.     *)
Step(m, rest) ==
    /\ d' = m
    /\ IF m.m_state = "Deleted"
       THEN events' = <<>> /\ server' = NewServer("none", server.complaints)
       ELSE events' = rest /\ UNCHANGED server

UserDoes(m) ==
    /\ acts < MaxActs
    /\ acts' = acts + 1
    /\ Step(m, events)

(* documentOpened(); another client may have got the document before.      *)
OpenEditor(doc) ==
    /\ doc \notin editors
    /\ editors' = editors \cup {doc}
    /\ \E client \in {"none", "other"} :
          UserDoes(openDocument([d EXCEPT !.m_clientForDocument[doc] = client], doc))
    /\ UNCHANGED text

CloseEditor(doc) ==
    /\ doc \in editors
    /\ editors' = editors \ {doc}
    /\ UserDoes([closeDocument(d, doc) EXCEPT !.m_clientForDocument[doc] = "none"])
    /\ UNCHANGED text

Edit(doc) ==
    /\ doc \in editors
    /\ text' = [text EXCEPT ![doc] = @ + 1]
    /\ UserDoes(documentContentsChanged(d, doc, text[doc] + 1))
    /\ UNCHANGED editors

(* The manager asks its reachable clients.                                 *)
Save(doc) ==
    /\ doc \in editors /\ d.m_state = "Initialized"
    /\ UserDoes(documentContentsSaved(d, doc))
    /\ UNCHANGED <<editors, text>>

(* A feature of the editor asks the client of its document.                *)
Request(doc) ==
    /\ d.m_clientForDocument[doc] = "this" /\ d.m_state = "Initialized"
    /\ UserDoes(sendMessage(d, [type |-> "request", doc |-> doc, text |-> text[doc]]))
    /\ UNCHANGED <<editors, text>>

(* openDocumentWithClient(), from the tool bar.                            *)
OpenDocumentWithClient(doc, client) ==
    /\ doc \in editors /\ d.m_clientForDocument[doc] # client
    /\ client = "this" => d.m_state = "Initialized"
    /\ LET m == [d EXCEPT !.m_clientForDocument[doc] = client]
       IN  UserDoes(IF client = "this" THEN openDocument(m, doc) ELSE m)
    /\ UNCHANGED <<editors, text>>

(* A form is edited, or removed from its project, in a client for C++.     *)
GeneratedFileChanged(doc) ==
    /\ d.m_state = "Initialized"
    /\ UserDoes(setShadowDocument(d, doc, Shadow(d, doc).text + 1))
    /\ UNCHANGED <<editors, text>>

GeneratedFileRemoved(doc) ==
    /\ d.m_state = "Initialized" /\ Shadow(d, doc).set
    /\ UserDoes(removeShadowDocument(d, doc))
    /\ UNCHANGED <<editors, text>>

(* The settings are changed, the project is closed, or Qt Creator.         *)
LeaveClient ==
    /\ \/ Step(shutdownClient(d), events)
       \/ Step(projectClosed(d), events)
       \/ ~d.m_shuttingDown /\ Step(shutdownClient([d EXCEPT !.m_shuttingDown = TRUE]), events)
    /\ UNCHANGED <<editors, text, acts>>

UpdateTimeout ==
    /\ d.m_documentUpdateTimer
    /\ Step(sendPostponedDocumentUpdates(d), events)
    /\ UNCHANGED <<editors, text, acts>>

(* The timer of clientFinished(), of 5 s, is slower than that of the       *)
(* updates, of 500 ms unless the settings for C++ say otherwise.           *)
RestartTimeout ==
    /\ d.restarts > 0 /\ ~d.m_documentUpdateTimer
    /\ Step(sendMessageNow([d EXCEPT !.restarts = @ - 1], [type |-> "start"]), events)
    /\ UNCHANGED <<editors, text, acts>>

(* The server has not ended for 5 minutes.                                 *)
RestartCountResetTimeout ==
    /\ d.m_restartCountResetTimer
    /\ UserDoes([d EXCEPT !.m_restartsLeft = MaxRestarts, !.m_restartCountResetTimer = FALSE])
    /\ UNCHANGED <<editors, text>>

(* m_shutdownTimer, of 20 s, or the timer of the manager, of 3 s.          *)
ShutdownTimeout ==
    /\ d.m_shutdownTimer \/ d.m_shuttingDown
    /\ Step(deleteClient(d), events)
    /\ UNCHANGED <<editors, text, acts>>

(* handleResponse() takes the handler of the request, if it is still there, *)
(* which makes of the client what it then is.                               *)
Taken(id) == [d EXCEPT !.m_responseHandlers = @ \ {id}]

HandleResponse(id, handled, rest) ==
    Step(IF id \in d.m_responseHandlers THEN handled ELSE d, rest)

Event(type) == events # <<>> /\ Head(events) = type

Started ==
    /\ Event("started")
    /\ Step(clientStarted(d), Tail(events))
    /\ UNCHANGED <<editors, text, acts>>

(* setError().                                                             *)
SetError ==
    /\ Event("error")
    /\ Step([d EXCEPT !.m_state = "Error"], Tail(events))
    /\ UNCHANGED <<editors, text, acts>>

Finished ==
    /\ Event("finished")
    /\ Step(clientFinished(d), Tail(events))
    /\ UNCHANGED <<editors, text, acts>>

InitializeAgreed ==
    /\ Event("initialized")
    /\ HandleResponse("initialize", initializeCallback(Taken("initialize")), Tail(events))
    /\ UNCHANGED <<editors, text, acts>>

InitializeRefused ==
    /\ Event("refused")
    /\ \E retry \in BOOLEAN :
          /\ retry => acts < MaxActs
          /\ acts' = IF retry THEN acts + 1 ELSE acts
          /\ HandleResponse("initialize",
                            initializeCallbackRefused(Taken("initialize"), retry),
                            Tail(events))
    /\ UNCHANGED <<editors, text>>

ShutdownAnswered ==
    /\ Event("shutdown")
    /\ HandleResponse("shutdown", shutDownCallback(Taken("shutdown")), Tail(events))
    /\ UNCHANGED <<editors, text, acts>>

-----------------------------------------------------------------------------
(* The server, and the thread of the interface.                            *)

(* What a server may be told, and when.                                    *)
Legal(message) ==
    CASE message.type = "initialize" -> server.phase \in {"new", "refused"}
      [] message.type = "initialized" -> server.phase = "answered"
      [] message.type = "exit" -> server.phase = "stopped"
      [] OTHER ->
            /\ server.phase = "working"
            /\ message.type \in {"didChange", "didClose", "didSave", "request"} =>
                   server.docs[message.doc] # NotOpen
            /\ message.type = "didOpen" => server.docs[message.doc] = NotOpen
            /\ message.type = "didChange" =>
                   /\ message.from \in {None, server.docs[message.doc].text}
                   /\ message.version > server.docs[message.doc].version
            /\ message.type = "request" => message.text = server.docs[message.doc].text

Read(message) ==
    IF ~Legal(message) THEN [server EXCEPT !.complaints = @ \cup {message.type}]
    ELSE CASE message.type = "initialize" -> [server EXCEPT !.phase = "initializing"]
           [] message.type = "initialized" -> [server EXCEPT !.phase = "working"]
           [] message.type = "shutdown" -> [server EXCEPT !.phase = "stopping"]
           [] message.type \in {"didOpen", "didChange"} ->
                [server EXCEPT !.docs[message.doc] =
                    [version |-> message.version, text |-> message.text]]
           [] message.type = "didClose" -> [server EXCEPT !.docs[message.doc] = NotOpen]
           [] OTHER -> server

(* startImpl() replaces a process that still runs.                         *)
StartImpl ==
    /\ d.calls # <<>> /\ Head(d.calls).type = "start"
    /\ d' = [d EXCEPT !.calls = Tail(@)]
    /\ server' = NewServer("starting", server.complaints)
    /\ UNCHANGED <<events, editors, text, acts>>

(* sendData() to a server, or to none.                                     *)
SendData ==
    /\ d.calls # <<>> /\ Head(d.calls).type # "start"
    /\ IF server.process = "running"
       THEN /\ d' = [d EXCEPT !.calls = Tail(@)]
            /\ server' = Read(Head(d.calls))
            /\ UNCHANGED events
       ELSE /\ d' = [d EXCEPT !.calls = Tail(@), !.mishaps = @ \cup {"lateError"}]
            /\ events' = Append(events, "error")
            /\ UNCHANGED server
    /\ UNCHANGED <<editors, text, acts>>

ServerStarted ==
    /\ server.process = "starting"
    /\ server' = [server EXCEPT !.process = "running"]
    /\ events' = Append(events, "started")
    /\ UNCHANGED <<d, editors, text, acts>>

(* The process ends, or could not be started.                              *)
ServerDone(success) ==
    /\ server.process \in IF success THEN {"running"} ELSE {"starting", "running"}
    /\ server' = NewServer("none", server.complaints)
    /\ events' = events \o (IF success THEN <<"finished">> ELSE <<"error", "finished">>)
    /\ d' = [d EXCEPT !.mishaps = IF server.phase = "refused" THEN @ \cup {"refused"} ELSE @]
    /\ UNCHANGED <<editors, text, acts>>

ServerAnswers ==
    /\ \/ /\ server.phase = "initializing"
          /\ \E phase \in {"answered", "refused"} :
                /\ server' = [server EXCEPT !.phase = phase]
                /\ events' = Append(events, IF phase = "refused" THEN phase ELSE "initialized")
       \/ /\ server.phase = "stopping"
          /\ server' = [server EXCEPT !.phase = "stopped"]
          /\ events' = Append(events, "shutdown")
    /\ UNCHANGED <<d, editors, text, acts>>

UserNext ==
    \/ \E doc \in Docs :
          \/ OpenEditor(doc) \/ CloseEditor(doc) \/ Edit(doc) \/ Save(doc) \/ Request(doc)
          \/ \E client \in {"this", "other"} : OpenDocumentWithClient(doc, client)
    \/ \E doc \in Generated : GeneratedFileChanged(doc) \/ GeneratedFileRemoved(doc)
    \/ LeaveClient

EventNext ==
    Started \/ SetError \/ Finished \/ InitializeAgreed \/ InitializeRefused \/ ShutdownAnswered

InterfaceNext == StartImpl \/ SendData

ServerNext == ServerStarted \/ ServerAnswers \/ \E success \in BOOLEAN : ServerDone(success)

Next ==
    /\ d.m_state # "Deleted"
    /\ \/ UserNext \/ EventNext \/ InterfaceNext \/ ServerNext
       \/ UpdateTimeout \/ RestartTimeout \/ RestartCountResetTimeout \/ ShutdownTimeout

Spec == Init /\ [][Next]_vars

(* Both threads run, timers expire, and a server that is started or told   *)
(* to initialize comes to an end with that, one way or the other.          *)
Fairness ==
    /\ WF_vars(EventNext)
    /\ WF_vars(InterfaceNext)
    /\ WF_vars(UpdateTimeout) /\ WF_vars(RestartTimeout) /\ WF_vars(ShutdownTimeout)
    /\ WF_vars(server.process = "starting" /\ ServerNext)
    /\ WF_vars(server.phase = "initializing" /\ ServerNext)

FairSpec == Spec /\ Fairness
-----------------------------------------------------------------------------
(* The server is told nothing it must take for an error: no document is    *)
(* opened twice, or changed or closed when it is not open; every change    *)
(* starts from the text the server has, with a higher version; a request   *)
(* is about the text the server has; and nothing is said before the        *)
(* handshake, or after the request to shut down, whenever the server is    *)
(* restarted and whatever is put off meanwhile.                            *)
StaysLegal ==
    /\ TypeOK
    /\ d.mishaps \cap {"shadowed", "refused"} = {} => server.complaints = {}

(* When all that was sent has been read, and nothing is put off, the       *)
(* server has the text and the version of every document and every shadow  *)
(* that the client has told it of, and no other.                           *)
ServerHasTheText ==
    /\ d.m_state = "Initialized" /\ server.process = "running" /\ d.calls = <<>>
    /\ d.mishaps \cap {"shadowed", "refused"} = {}
    => \A doc \in Docs :
         server.docs[doc] =
           IF doc \in d.m_openedDocument
           THEN IF d.m_documentsToUpdate[doc] # <<>> THEN server.docs[doc]
                ELSE [version |-> d.m_documentVersions[doc], text |-> text[doc]]
           ELSE IF Shadow(d, doc).users # {}
           THEN [version |-> d.m_documentVersions[doc], text |-> Shadow(d, doc).text]
           ELSE NotOpen

(* A document whose editor asks this client is open in it, also after a    *)
(* restart, and when it was opened or assigned while the server started:   *)
(* otherwise it is asked about a document it does not know.                *)
AssignedIsOpen ==
    d.m_state = "Initialized" =>
        \A doc \in Docs : d.m_clientForDocument[doc] = "this" => doc \in d.m_openedDocument

(* So whatever the client that serves a document is asked about it, the     *)
(* server answers for the text the user sees.                               *)
InSync == ServerHasTheText /\ AssignedIsOpen

(* A client that is not initialized, for the first time or after its       *)
(* server has ended, gets there or is given up, unless the error of a      *)
(* message that was sent in vain comes between, or a refusal.              *)
Recovers ==
    d.m_state \in {"Uninitialized", "InitializeRequested", "Error"} ~>
        \/ d.m_state \in {"Initialized", "Deleted"}
        \/ d.mishaps \cap {"lateError", "refused"} # {}

(* A client that is shut down goes away, whether its server answers, ends, *)
(* fails or does nothing at all.                                           *)
ShutsDown ==
    d.m_state = "ShutdownRequested" \/ d.m_shuttingDown ~> d.m_state = "Deleted"
=============================================================================
