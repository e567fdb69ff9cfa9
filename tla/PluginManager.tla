----------------------------- MODULE PluginManager -----------------------------
(***************************************************************************)
(* The life of Qt Creator's plugins (libs/extensionsystem): which of them  *)
(* are enabled, the load queue, loading, initialising, running, delayed    *)
(* initialisation, and the shutdown that waits for asynchronous plugins.   *)
(*                                                                         *)
(* The plugin manager is sequential; what interleaves with it is the code  *)
(* of the plugins, which it calls, which may fail or crash, and which the  *)
(* event loop calls while it waits.  A call of a plugin's code is two      *)
(* actions, and a crash may happen at any time; what survives it is the    *)
(* lock file, which names the plugin whose code was running.               *)
(*                                                                         *)
(* loadQueue() is recursive, as it is in the code.                         *)
(***************************************************************************)
EXTENDS Integers, Sequences, FiniteSets, SequencesExt

CONSTANTS
    Plugins, None,
    pluginSpecs,     \* all plugins, sorted by name
    Configurations,  \* what may be installed and set up, see Configuration
    HashOrders,      \* orders in which a QHash with plugins may be iterated, all of it
    SendsEarly,      \* may plugins send in code that the plugin manager calls?
    MaxStarts        \* bound: how often Qt Creator is started, by configuration

(* depends: the dependencies that are declared and found.  unresolved: a   *)
(* dependency that is required is not installed; then dependencySpecs is   *)
(* empty.  enabled: isEnabledBySettings().  available: for this platform.  *)
(* required: isRequired(), these are not to be disabled.                   *)
Configuration ==
    [depends : [Plugins -> [Plugins -> {"No", "Required", "Optional"}]],
     unresolved : SUBSET Plugins, enabled : SUBSET Plugins,
     available : SUBSET Plugins, required : SUBSET Plugins]

ASSUME ConstantsAssumption ==
    /\ IsFiniteSet(Plugins) /\ None \notin Plugins
    /\ pluginSpecs \in Seq(Plugins) /\ ToSet(pluginSpecs) = Plugins
    /\ Configurations \subseteq Configuration
    /\ \A c \in Configurations, p \in Plugins, q \in Plugins :
          p \in c.unresolved => c.depends[p][q] = "No"
    /\ HashOrders \subseteq Seq(Plugins)
    /\ \A order \in HashOrders : ToSet(order) = Plugins
    /\ SendsEarly \in BOOLEAN /\ MaxStarts \in [Configurations -> Nat]

VARIABLES
    config,          \* the configuration, the same for every start
    hashOrder,       \* the order in which this process iterates a QHash
    lockFile,        \* on disk: the plugin it names, or None
    spec,            \* PluginSpecPrivate, by plugin
    phase,           \* how far the process is; in a pass: the state aimed at
    queue,           \* loadQueue() as the current passes use it
    todo,            \* what is left of it in this pass
    inCode,          \* the plugin whose code a pass has called
    delayedInitializeQueue,
    delayedInitializeTimer, \* does it exist, and is it active?
    m_isInitializationDone,
    asynchronousPlugins,
    connected,       \* plugins whose asynchronousShutdownFinished is connected
    shutdownEventLoop,
    sent,            \* history: plugins that have sent that signal
    refused,         \* history: plugins whose own code has failed
    culprit,         \* history: who crashed, unless a plugin got to run since
    starts           \* how often Qt Creator has been started

vars == <<config, hashOrder, lockFile, spec, phase, queue, todo, inCode,
          delayedInitializeQueue, delayedInitializeTimer, m_isInitializationDone,
          asynchronousPlugins, connected, shutdownEventLoop,
          sent, refused, culprit, starts>>

shutdownVars == <<asynchronousPlugins, connected, shutdownEventLoop, sent>>
delayVars == <<delayedInitializeQueue, delayedInitializeTimer, m_isInitializationDone>>
passVars == <<queue, todo, inCode>>
startVars == <<config, hashOrder, starts>>

Loading == {"Loaded", "Initialized", "Running"}
Pass == Loading \cup {"Stopped", "Deleted"}
Phase == Pass \cup {"off", "options", "check", "load", "exec", "wait", "ended", "crashed"}

State == {"Read", "Resolved"} \cup Pass

(* destState - 1                                                           *)
Before == [s \in Pass |->
    CASE s = "Loaded"      -> "Resolved"    [] s = "Initialized" -> "Loaded"
      [] s = "Running"     -> "Initialized" [] s = "Stopped"     -> "Running"
      [] s = "Deleted"     -> "Stopped"]

PluginSpec ==
    [state : State, hasError : BOOLEAN, plugin : BOOLEAN,
     force : {"No", "Enabled", "Disabled"}, enabledIndirectly : BOOLEAN]

TypeOK ==
    /\ config \in Configurations /\ hashOrder \in HashOrders
    /\ lockFile \in Plugins \cup {None}
    /\ spec \in [Plugins -> PluginSpec]
    /\ phase \in Phase
    /\ queue \in Seq(Plugins) /\ todo \in Seq(Plugins)
    /\ inCode \in Plugins \cup {None}
    /\ delayedInitializeQueue \in Seq(Plugins)
    /\ delayedInitializeTimer \in BOOLEAN /\ m_isInitializationDone \in BOOLEAN
    /\ asynchronousPlugins \subseteq connected /\ connected \subseteq Plugins
    /\ shutdownEventLoop \in {"none", "runs", "exited"}
    /\ sent \subseteq Plugins /\ refused \subseteq Plugins
    /\ culprit \in Plugins \cup {None}
    /\ starts \in 0 .. MaxStarts[config]

(* The plugin specs once the meta data is read and the dependencies are    *)
(* resolved (readPluginPaths).                                             *)
NewSpecs == [p \in Plugins |->
    [state |-> IF p \in config.unresolved THEN "Read" ELSE "Resolved",
     hasError |-> p \in config.unresolved, plugin |-> FALSE,
     force |-> "No", enabledIndirectly |-> FALSE]]

Init ==
    /\ config \in Configurations /\ hashOrder \in HashOrders
    /\ lockFile = None /\ spec = NewSpecs /\ phase = "off"
    /\ queue = << >> /\ todo = << >> /\ inCode = None
    /\ delayedInitializeQueue = << >> /\ delayedInitializeTimer = FALSE
    /\ m_isInitializationDone = FALSE
    /\ asynchronousPlugins = {} /\ connected = {} /\ shutdownEventLoop = "none"
    /\ sent = {} /\ refused = {} /\ culprit = None
    /\ starts = 0
-----------------------------------------------------------------------------
(* Which plugins are enabled.                                              *)
Requires(p, q) == config.depends[p][q] = "Required"

isEffectivelyEnabled(specs, p) ==
    /\ p \in config.available
    /\ \/ specs[p].force = "Enabled" \/ specs[p].enabledIndirectly
       \/ specs[p].force # "Disabled" /\ p \in config.enabled

EnabledIndirectly(specs, S) ==
    [p \in Plugins |-> [specs[p] EXCEPT !.enabledIndirectly = p \in S]]

(* One round over the plugins whose dependencies are to be enabled, when   *)
(* those of S have been.                                                   *)
EnableOnce(specs, S) ==
    LET Enabled(p) == isEffectivelyEnabled(EnabledIndirectly(specs, S), p)
    IN  S \cup {q \in Plugins : ~Enabled(q) /\ \E p \in Plugins : Requires(p, q) /\ Enabled(p)}

(* Faulty: forgets what the enabled dependencies depend on.                *)
enableDirectDependencies(specs) == EnabledIndirectly(specs, EnableOnce(specs, {}))

(* The loop ends when nothing more is to be enabled: what it has enabled   *)
(* then is the least set to which a round adds nothing.                    *)
ToEnable(specs) ==
    {q \in Plugins : \A S \in SUBSET Plugins : EnableOnce(specs, S) = S => q \in S}

enableDependenciesIndirectly(specs) == EnabledIndirectly(specs, ToEnable(specs))
-----------------------------------------------------------------------------
(* The load queue.  A visit has what the recursion hands on: the queue,    *)
(* the circularityCheckQueue (as a set), who got an error, and the result. *)
Visit == [queue : Seq(Plugins), checked : SUBSET Plugins, errors : SUBSET Plugins,
          found : BOOLEAN]

(* The dependencies of p, after the first i plugins of the order in which  *)
(* they are iterated: they are visited until one is not found.             *)
VisitDependencies(visit, depends, order, p, s) ==
    LET visited[i \in 0 .. Len(order)] ==
            IF i = 0 THEN [s EXCEPT !.checked = @ \cup {p}, !.found = TRUE]
            ELSE IF visited[i - 1].found /\ depends[p][order[i]] # "No"
            THEN visit[<<order[i], visited[i - 1]>>]
            ELSE visited[i - 1]
    IN  visited

(* What the visit of p makes of s, when visit is the recursive call and    *)
(* the dependencies of the plugins in unread are not resolved.             *)
VisitOnce(visit, depends, order, unread, p, s) ==
    LET end == VisitDependencies(visit, depends, order, p, s)[Len(order)]
    IN  IF Contains(s.queue, p) THEN [s EXCEPT !.found = TRUE]
        ELSE IF p \in s.checked THEN [s EXCEPT !.found = FALSE, !.errors = @ \cup {p}]
        ELSE IF p \in unread
        THEN [s EXCEPT !.queue = Append(@, p), !.checked = @ \cup {p}, !.found = FALSE]
        ELSE IF end.found THEN [end EXCEPT !.queue = Append(@, p)]
        ELSE [end EXCEPT !.errors = @ \cup {p}]

Visits(depends, order, unread) ==
    LET visit[c \in Plugins \X Visit] ==
            VisitOnce(visit, depends, order, unread, c[1], c[2])
    IN  visit

(* The plugins are visited one after the other.                            *)
VisitAll(depends, order, unread) ==
    LET visit == Visits(depends, order, unread)
        all[i \in 0 .. Len(pluginSpecs)] ==
            IF i = 0 THEN [queue |-> << >>, checked |-> {}, errors |-> {}, found |-> TRUE]
            ELSE visit[<<pluginSpecs[i], [all[i - 1] EXCEPT !.checked = {}]>>]
    IN  all

LoadQueue(depends, order, unread) ==
    VisitAll(depends, order, unread)[Len(pluginSpecs)]

loadQueue == LoadQueue(config.depends, hashOrder, {p \in Plugins : spec[p].state = "Read"})

WithErrors(specs, errors) ==
    [p \in Plugins |-> [specs[p] EXCEPT !.hasError = @ \/ p \in errors]]

pluginsRequiringPlugin(q, p) ==
    FoldLeft(LAMBDA S, r : IF \E d \in S : Requires(r, d) THEN S \cup {r} ELSE S,
             {p}, q) \ {p}
-----------------------------------------------------------------------------
(* A start: the plugins are found, the options and the lock file looked at.*)
setPluginPaths ==
    /\ phase \in {"off", "ended"} /\ starts < MaxStarts[config]
    /\ starts' = starts + 1
    /\ hashOrder' \in HashOrders
    /\ spec' = enableDependenciesIndirectly(NewSpecs)
    /\ phase' = "options"
    /\ queue' = << >> /\ todo' = << >> /\ inCode' = None
    /\ delayedInitializeQueue' = << >> /\ delayedInitializeTimer' = FALSE
    /\ m_isInitializationDone' = FALSE
    /\ asynchronousPlugins' = {} /\ connected' = {} /\ shutdownEventLoop' = "none"
    /\ sent' = {} /\ refused' = {}
    /\ UNCHANGED <<config, lockFile, culprit>>

SetForce(specs, S, value) ==
    [p \in Plugins |-> IF p \in S THEN [specs[p] EXCEPT !.force = value] ELSE specs[p]]

(* The user disables p for this start, and with it what depends on it.     *)
DisableTemporarily(p) ==
    LET q == loadQueue IN
    spec' = enableDependenciesIndirectly(
                SetForce(WithErrors(spec, q.errors),
                         {p} \cup pluginsRequiringPlugin(q.queue, p), "Disabled"))

Prepares(from, to) ==
    /\ phase = from /\ phase' = to
    /\ UNCHANGED <<startVars, lockFile, passVars, delayVars, shutdownVars, refused, culprit>>

checkForLoadOption(p) ==
    /\ Prepares("options", "check")
    /\ spec' = enableDependenciesIndirectly(SetForce(spec, {p}, "Enabled"))

checkForNoLoadOption(p) == Prepares("options", "check") /\ DisableTemporarily(p)

parseNoOptions == Prepares("options", "check") /\ UNCHANGED spec

AsksAbout(p) == lockFile = p /\ p \notin config.required

disableProblematicPlugin ==
    /\ Prepares("check", "load")
    /\ \E p \in Plugins : AsksAbout(p) /\ DisableTemporarily(p)

(* The user continues, or is not asked.                                    *)
continueWithPlugins ==
    /\ Prepares("check", "load")
    /\ spec' = IF \E p \in Plugins : AsksAbout(p)
               THEN WithErrors(spec, loadQueue.errors) ELSE spec
-----------------------------------------------------------------------------
(* The passes over the load queue.                                         *)
kill(specs, p) ==
    IF specs[p].plugin
    THEN [specs EXCEPT ![p].plugin = FALSE, ![p].state = "Deleted"] ELSE specs

(* The order in which a pass goes through the queue; faulty one first.     *)
StopOrder(dest, q) == IF dest = "Running" THEN Reverse(q) ELSE q
Order(dest, q) == IF dest \in {"Running", "Deleted"} THEN Reverse(q) ELSE q

(* Faulty: puts plugins before what they depend on.                        *)
StartPassDependentsFirst(dest) ==
    LET q == loadQueue IN
    /\ phase' = dest /\ spec' = WithErrors(spec, q.errors)
    /\ queue' = Reverse(q.queue) /\ todo' = Order(dest, queue') /\ inCode' = None

StartPass(dest) ==
    LET q == loadQueue IN
    /\ phase' = dest /\ spec' = WithErrors(spec, q.errors)
    /\ queue' = q.queue /\ todo' = Order(dest, queue') /\ inCode' = None

(* The lock file when the code of a plugin has returned; faulty: it stays. *)
StillLocked == lockFile
Unlocked == None

(* Plugins that do not get to run are cleaned up.                          *)
CleanedUp(p) == IF phase = "Running" THEN kill(spec, p) ELSE spec

loadPlugins ==
    /\ phase = "load"
    /\ StartPass("Loaded")
    /\ UNCHANGED <<startVars, lockFile, delayVars, shutdownVars, refused, culprit>>

(* The pass looks at plugin p next.                                        *)
AtPlugin(p) == phase \in Pass /\ inCode = None /\ todo # << >> /\ p = Head(todo)

passedOver(p) ==
    \/ spec[p].hasError
    \/ spec[p].state # Before[phase]
    \/ phase = "Loaded" /\ ~isEffectivelyEnabled(spec, p)

DependencyIsMissing(p) ==
    /\ phase \in {"Loaded", "Initialized", "Stopped"}
    /\ \E q \in Plugins : Requires(p, q) /\ spec[q].state # phase

(* loadPlugin() returns at once.                                           *)
loadPluginPassesOver(p) ==
    /\ AtPlugin(p) /\ passedOver(p)
    /\ spec' = CleanedUp(p)
    /\ todo' = Tail(todo)
    /\ UNCHANGED <<startVars, lockFile, phase, queue, inCode, delayVars, shutdownVars,
                   refused, culprit>>

(* A dependency is not where it should be: an error.                       *)
loadPluginRefuses(p) ==
    /\ AtPlugin(p) /\ ~passedOver(p) /\ DependencyIsMissing(p)
    /\ spec' = [spec EXCEPT ![p].hasError = TRUE]
    /\ lockFile' = IF phase \in Loading THEN Unlocked ELSE lockFile
    /\ todo' = Tail(todo)
    /\ UNCHANGED <<startVars, phase, queue, inCode, delayVars, shutdownVars,
                   refused, culprit>>

(* The code of the plugin is called, under the lock file when loading.     *)
loadPluginCalls(p) ==
    /\ AtPlugin(p) /\ ~passedOver(p) /\ ~DependencyIsMissing(p) /\ phase # "Deleted"
    /\ inCode' = p
    /\ lockFile' = IF phase \in Loading THEN p ELSE lockFile
    /\ spec' = IF phase = "Stopped" THEN [spec EXCEPT ![p].state = "Stopped"] ELSE spec
    /\ UNCHANGED <<startVars, phase, queue, todo, delayVars, shutdownVars,
                   refused, culprit>>

Returns(p) == inCode = p /\ inCode' = None /\ todo' = Tail(todo)

(* loadLibrary() and initializePlugin().                                   *)
pluginSucceeds(p) ==
    /\ phase \in {"Loaded", "Initialized"} /\ Returns(p)
    /\ spec' = [spec EXCEPT ![p].state = phase, ![p].plugin = TRUE]
    /\ lockFile' = Unlocked
    /\ UNCHANGED <<startVars, phase, queue, delayVars, shutdownVars,
                   refused, culprit>>

pluginFails(p) ==
    /\ phase \in {"Loaded", "Initialized"} /\ Returns(p)
    /\ spec' = [spec EXCEPT ![p].hasError = TRUE]
    /\ refused' = refused \cup {p}
    /\ lockFile' = Unlocked
    /\ UNCHANGED <<startVars, phase, queue, delayVars, shutdownVars, culprit>>

initializeExtensions(p) ==
    /\ phase = "Running" /\ Returns(p)
    /\ spec' = [spec EXCEPT ![p].state = "Running"]
    /\ delayedInitializeQueue' = Append(delayedInitializeQueue, p)
    /\ lockFile' = Unlocked /\ culprit' = None
    /\ UNCHANGED <<startVars, phase, queue, delayedInitializeTimer, m_isInitializationDone,
                   shutdownVars, refused>>

(* Faulty: the plugin is not listened to.                                  *)
stopReturnsUnheard(p, asynchronous) ==
    /\ phase = "Stopped" /\ Returns(p)
    /\ asynchronousPlugins' = asynchronousPlugins \cup {r \in {p} : asynchronous}
    /\ UNCHANGED <<startVars, lockFile, spec, phase, queue, delayVars, connected,
                   shutdownEventLoop, sent, refused, culprit>>

(* aboutToShutdown() returns whether the plugin goes on by itself.         *)
stopReturns(p, asynchronous) ==
    /\ phase = "Stopped" /\ Returns(p)
    /\ asynchronousPlugins' = asynchronousPlugins \cup {r \in {p} : asynchronous}
    /\ connected' = connected \cup {r \in {p} : asynchronous}
    /\ UNCHANGED <<startVars, lockFile, spec, phase, queue, delayVars,
                   shutdownEventLoop, sent, refused, culprit>>

deletePlugin(p) ==
    /\ phase = "Deleted" /\ AtPlugin(p) /\ ~passedOver(p)
    /\ spec' = kill(spec, p)
    /\ todo' = Tail(todo)
    /\ UNCHANGED <<startVars, lockFile, phase, queue, inCode, delayVars, shutdownVars,
                   refused, culprit>>
-----------------------------------------------------------------------------
(* From pass to pass.                                                      *)
PassIsOver(dest) == phase = dest /\ todo = << >> /\ inCode = None

initializePlugins ==
    /\ PassIsOver("Loaded")
    /\ phase' = "Initialized" /\ todo' = Order("Initialized", queue)
    /\ UNCHANGED <<startVars, lockFile, spec, queue, inCode, delayVars, shutdownVars,
                   refused, culprit>>

runPlugins ==
    /\ PassIsOver("Initialized")
    /\ phase' = "Running" /\ todo' = Order("Running", queue)
    /\ UNCHANGED <<startVars, lockFile, spec, queue, inCode, delayVars, shutdownVars,
                   refused, culprit>>

pluginsAreLoaded ==
    /\ PassIsOver("Running")
    /\ phase' = "exec" /\ delayedInitializeTimer' = TRUE
    /\ UNCHANGED <<startVars, lockFile, spec, passVars, delayedInitializeQueue,
                   m_isInitializationDone, shutdownVars, refused, culprit>>

(* The timer calls plugins until one asks for a delay.                     *)
nextDelayedInitialize ==
    /\ phase = "exec" /\ delayedInitializeTimer
    /\ \E n \in 0 .. Len(delayedInitializeQueue) :
          /\ n = 0 => delayedInitializeQueue = << >>
          /\ delayedInitializeQueue' =
                SubSeq(delayedInitializeQueue, n + 1, Len(delayedInitializeQueue))
    /\ delayedInitializeTimer' = (delayedInitializeQueue' # << >>)
    /\ m_isInitializationDone' = (delayedInitializeQueue' = << >>)
    /\ UNCHANGED <<startVars, lockFile, spec, phase, passVars, shutdownVars,
                   refused, culprit>>

(* aboutToQuit: stopAll().                                                 *)
shutdown ==
    /\ phase = "exec"
    /\ delayedInitializeTimer' = FALSE
    /\ StartPass("Stopped")
    /\ UNCHANGED <<startVars, lockFile, delayedInitializeQueue, m_isInitializationDone,
                   shutdownVars, refused, culprit>>

(* Faulty: waits for nothing.                                              *)
MustAlwaysWait == TRUE
MustWait == asynchronousPlugins # {}

waitForAsynchronousPlugins ==
    /\ PassIsOver("Stopped") /\ MustWait
    /\ phase' = "wait" /\ shutdownEventLoop' = "runs"
    /\ UNCHANGED <<startVars, lockFile, spec, passVars, delayVars, asynchronousPlugins,
                   connected, sent, refused, culprit>>

(* What is left to wait for; faulty: the first one ends the wait.          *)
AnyoneFinished(plugins) == TRUE
AllFinished(plugins) == plugins = {}

(* A plugin sends asynchronousShutdownFinished: while the loop runs, or,   *)
(* if it may, earlier, in code of a plugin that is being stopped.          *)
asynchronousShutdownFinished(p) ==
    /\ spec[p].plugin /\ p \notin sent
    /\ \/ phase = "wait" /\ shutdownEventLoop = "runs" /\ p \in connected
       \/ SendsEarly /\ phase = "Stopped" /\ inCode # None /\ p \in connected \cup {inCode}
    /\ sent' = sent \cup {p}
    /\ asynchronousPlugins' = asynchronousPlugins \ {p}
    /\ IF p \in connected /\ AllFinished(asynchronousPlugins')
       THEN IF shutdownEventLoop = "none"
            THEN phase' = "crashed" /\ UNCHANGED shutdownEventLoop
            ELSE shutdownEventLoop' = "exited" /\ UNCHANGED phase
       ELSE UNCHANGED <<phase, shutdownEventLoop>>
    /\ UNCHANGED <<startVars, lockFile, spec, passVars, delayVars, connected,
                   refused, culprit>>

deleteAll ==
    /\ \/ PassIsOver("Stopped") /\ ~MustWait
       \/ phase = "wait" /\ shutdownEventLoop = "exited"
    /\ StartPass("Deleted")
    /\ UNCHANGED <<startVars, lockFile, delayVars, shutdownVars, refused, culprit>>

end ==
    /\ PassIsOver("Deleted") /\ phase' = "ended"
    /\ UNCHANGED <<startVars, lockFile, spec, passVars, delayVars, shutdownVars,
                   refused, culprit>>

(* Qt Creator crashes or is killed; only the lock file is left.            *)
crash ==
    /\ phase \notin {"off", "ended", "crashed"}
    /\ phase' = "off" /\ spec' = NewSpecs
    /\ culprit' = IF phase \in Loading /\ inCode # None THEN inCode ELSE culprit
    /\ queue' = << >> /\ todo' = << >> /\ inCode' = None
    /\ delayedInitializeQueue' = << >> /\ delayedInitializeTimer' = FALSE
    /\ m_isInitializationDone' = FALSE
    /\ asynchronousPlugins' = {} /\ connected' = {} /\ shutdownEventLoop' = "none"
    /\ sent' = {} /\ refused' = {}
    /\ UNCHANGED <<startVars, config, lockFile>>
-----------------------------------------------------------------------------
Manages ==
    \/ setPluginPaths
    \/ parseNoOptions \/ continueWithPlugins \/ disableProblematicPlugin
    \/ \E p \in Plugins : checkForLoadOption(p) \/ checkForNoLoadOption(p)
    \/ loadPlugins \/ initializePlugins \/ runPlugins \/ pluginsAreLoaded
    \/ nextDelayedInitialize
    \/ waitForAsynchronousPlugins \/ deleteAll \/ end
    \/ \E p \in Plugins : \/ loadPluginPassesOver(p) \/ loadPluginRefuses(p)
                          \/ loadPluginCalls(p) \/ deletePlugin(p)

(* The code of a plugin, which comes back.                                 *)
PluginCode(p) ==
    \/ pluginSucceeds(p) \/ pluginFails(p) \/ initializeExtensions(p)
    \/ \E asynchronous \in BOOLEAN : stopReturns(p, asynchronous)

Next ==
    \/ Manages \/ shutdown \/ crash
    \/ \E p \in Plugins : PluginCode(p) \/ asynchronousShutdownFinished(p)

Spec == Init /\ [][Next]_vars
-----------------------------------------------------------------------------
(* A set with all that p and its own members depend on.                    *)
IsClosed(S, p, kinds) ==
    \A r \in S \cup {p}, q \in Plugins : config.depends[r][q] \in kinds => q \in S

(* What p depends on, directly or not, by the kinds of dependencies given: *)
(* the least such set.                                                     *)
Reachable(p, kinds) ==
    {q \in Plugins : \A S \in SUBSET Plugins : IsClosed(S, p, kinds) => q \in S}

AnyKind == {"Required", "Optional"}

InCycle(p) == p \in Reachable(p, AnyKind)

(* The load queue has every plugin at most once, with all that the plugin  *)
(* depends on before it.                                                   *)
QueueIsSorted ==
    phase \in Pass =>
       /\ queue \in Seq(Plugins) /\ IsInjective(queue)
       /\ \A i \in DOMAIN queue, q \in Plugins :
             config.depends[queue[i]][q] # "No" => \E j \in 1 .. i - 1 : queue[j] = q

(* The load queue of a start has every plugin once, with all it depends on *)
(* before it, and leaves out only plugins that depend on a circle or on a  *)
(* plugin with unresolved dependencies; these are reported as errors       *)
(* (PluginManagerPrivate::loadQueue, with its partial results).            *)
LoadQueueIsSorted ==
    /\ TypeOK
    /\ QueueIsSorted
    /\ phase \in Pass =>
       \A p \in Plugins \ ToSet(queue) :
          /\ spec[p].hasError
          /\ \E q \in {p} \cup Reachable(p, AnyKind) : InCycle(q) \/ q \in config.unresolved

(* While the object of a plugin exists, those of all plugins it requires   *)
(* do: whatever fails while loading, and in whatever order plugins are     *)
(* cleaned up or deleted at the end.                                       *)
DependenciesOutlive ==
    \A p, q \in Plugins : Requires(p, q) /\ spec[p].plugin => spec[q].plugin

(* A plugin that is enabled runs after the start, unless its own code, or  *)
(* that of a plugin it requires, fails or is not for this platform, or it  *)
(* depends on a circle or on a plugin with unresolved dependencies.        *)
RunsWhenItCan ==
    phase = "exec" =>
       \A p \in Plugins :
          /\ isEffectivelyEnabled(spec, p)
          /\ \A q \in {p} \cup Reachable(p, {"Required"}) :
                q \in config.available /\ q \notin refused
          /\ \A q \in {p} \cup Reachable(p, AnyKind) :
                ~InCycle(q) /\ q \notin config.unresolved
          => spec[p].state = "Running"

(* No plugin is deleted at the end before every plugin that asked for an   *)
(* asynchronous shutdown has finished it (PluginManagerPrivate::shutdown). *)
DeletedAfterAllFinished == phase = "Deleted" => connected \subseteq sent

(* Qt Creator asks about a plugin only if it crashed in that plugin's code *)
(* while loading, and no start since then got so far as to run a plugin.   *)
CrashIsBlamedRightly ==
    phase \in {"options", "check"} /\ lockFile # None => lockFile = culprit

(* The shutdown waits only while a plugin that is listened to has not sent *)
(* its signal: nobody else ends the event loop.  The loop is kept running  *)
(* "until all plugins requesting AsynchronousShutdown have sent the        *)
(* asynchronousShutdownFinished() signal", says plugin-lifecycle.qdoc; if  *)
(* plugins send early, this is false.                                      *)
WaitsForPluginsOnly == phase = "wait" /\ shutdownEventLoop = "runs" => ~(connected \subseteq sent)
=============================================================================
