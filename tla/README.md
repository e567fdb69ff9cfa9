# Qt Creator: processes, runs, builds, plugins and language servers in TLA+

Qt Creator starts compilers, debuggers, language servers, version control
tools and the user's programs all day, from many threads. It does not fork them
itself: a small helper, the *process launcher*, does it on request, a *process
reaper* ends what nobody wants any more, and a program that needs a terminal is
run by a *stub* in a terminal window. On this layer stand the *RunControl*, which
starts and stops what belongs to one run in the order of its dependencies, the
*BuildManager*, which works off the build steps of all projects, and the
*language client*, which keeps a language server informed about the documents
that are open. Beside it, the *plugin manager* brings all of Qt Creator up and
down, and *mapReduce* spreads searches over a pool of threads.

This directory models these parts (`src/libs/utils`,
`src/libs/extensionsystem`, `src/tools/processlauncher`, and three plugins: `projectexplorer`,
`languageclient`, and what `clangcodemodel` and `boot2qt` do with them), checks
them with TLC and proves the most important facts about them with TLAPS. Source
paths below are relative to the repository.

## Inventory

| Component | State | Operations | Talks to |
| --- | --- | --- | --- |
| `QtcProcess` (`qtcprocess.cpp`) | `m_state`, result, buffers, kill timer, the `ProcessInterface` it owns | start, terminate, kill, write, close, stop, waitFor..., runBlocking | direct calls to, signals from, its `ProcessInterface`; slots of user code |
| `ProcessInterface` (`processinterface.h`) | none: a contract in comments | started, readyRead, done; start, write, sendControlSignal | implemented by the launcher, by QProcess, by a terminal, by remote devices |
| `CallerHandle` (`launchersocket.cpp`) | `m_processState`, stored `m_signals` | flush, flushFor, start, write, stop packets | lives in the owner's thread; `m_signals` shared with the launcher thread under its mutex |
| `LauncherHandle` (`launchersocket.cpp`) | `m_socketError`, wait condition, pointer to the CallerHandle | packet handlers, waitForSignal | lives in the launcher thread; its mutex and condition are shared |
| `LauncherSocket` (`launchersocket.cpp`) | `m_socket`, `m_requests`, `m_handles` | sendData, (un)registerHandle, handleRequests, packets, errors | local socket to the helper |
| `LauncherInterface` (`launcherinterface.cpp`) | the server, the helper's QProcess, the launcher thread | doStart, handleNewConnection, doStop | helper process |
| Launcher helper (`launchersockethandler.cpp`, `processlauncher-main.cpp`) | `m_processes`: token to QProcess | start, write, stop, shutdown packets; signals of its QProcesses | children, `ProcessReaper` |
| `ProcessReaper` (`processreaper.cpp`) | list of setups, list of Reapers, a thread | reap, flush, terminate then kill, destructor | QProcess objects moved into its thread |
| `GeneralProcessBlockingImpl` (`qtcprocess.cpp`) | stored signals, a thread for each wait | waitForSignal, flush | any other `ProcessInterface` |
| `PacketParser` (`launcherpackets.cpp`) | size of the next packet, the rest of the stream | parse | both ends of the socket |
| `Singleton` (`singleton.cpp`) | instances and their dependencies | create on demand, deleteAll | `LauncherInterface`, `ProcessReaper` |
| `TerminalImpl` (`terminalprocess.cpp`) and its stub (`process_stub_unix.c`) | server, socket, connect timer, process ids; the stub's forked program | start, stop, stub connects, reads of its lines; in the stub: commands, SIGCHLD | terminal emulator, local socket |
| `RunControl`, `RunWorker` (`runcontrol.cpp`) | state of the run, states of the workers, their dependencies | initiateStart, initiateStop, forceStop, reports of the workers | workers through queued calls; `AppOutputPane`; QtcProcess |
| `AppOutputPane` (`appoutputpane.cpp`) | tabs, enabled buttons, the prompt | start again, stop, close tab | `RunControl` |
| `BuildManager` (`buildmanager.cpp`) | queue of steps, flags, counters per project, progress, scheduled build | buildLists, cancel, finished, nextStep, aboutToRemoveProject | build steps, build systems that parse, everybody who waits for buildQueueFinished |
| `Client` (`languageclient/client.cpp`) | state, open and postponed documents, changes not sent, shadow documents, versions, timers | open, change, save, close documents; initialize, shutdown, reset | editors; its interface in a thread of its own; the server |
| `LanguageClientManager` (`languageclientmanager.cpp`) | which client serves which document, `m_shuttingDown` | clientStarted, clientFinished, shutdownClient, openDocumentWithClient | its clients, editors |
| `PluginManager`, `PluginSpec` (`pluginmanager.cpp`, `pluginspec.cpp`) | state and errors of each plugin, load queue, queue and timer of delayed initialisation, asynchronous plugins, the lock file | setPluginPaths, options, loadPlugins, nextDelayedInitialize, shutdown | the code of the plugins; the next start, by the lock file |
| `MapReduceBase`, `AsyncJob` (`mapreduce.h`, `runextensions.h`) | watchers of the maps, next item, pending results; the jobs in their pool | schedule, mapFinished, cancelAll, reduce | threads of the pool, whoever holds the future |
| Other plugins | editors, debuggers, version control | see `PROJECT.json` | event loop, process layer |

What is hard in the process layer: two threads and two operating-system processes
share one conversation; a caller may block in a wait, run its event loop, or run user code
from inside a signal that is being delivered; everything may be closed at any
time, before the helper has even connected; the socket may break at either end;
and the end of a process is reported on a path with five hops, each with its own
queue. In the plugins everything happens in the GUI thread, but one event at a
time: whoever reports may do it at once, later, or never, in any order, while the
user presses the next button, and the state a function finds is not the one its
caller saw. The list of hazards, each at its line, is in `PROJECT.json`; the
properties below are aimed at them.

What makes each component correct:

* *client threads*: no wake-up, stored signal or queued request is lost; a
  handle that was cut off is left alone;
* *client and helper*: requests stay in order, every process is reported as done
  exactly once, output is complete, in order and before done;
* *lifetime*: a kill takes effect, a closed child goes away, the helper ends;
* *waits on other interfaces*: the same facts as for the client threads, the same
  contract, the handler always back in its thread, and a stopped process is
  killed in the end;
* *reaper*: every process handed over is deleted once, after its end, and the
  destructor waits for all of them;
* *program in a terminal*: the same contract, whatever becomes of the window, the
  stub and the program; every start is answered, every end is told;
* *run*: workers start after what they depend on and stop before it, what is
  called running or stopped is, and no start, stop or close gets stuck;
* *build*: queue, flags, counters and progress stay in step, one step runs at a
  time, every build ends and is announced once;
* *language client*: the server is told nothing that is not allowed and has the
  text the editor shows, also after a restart; a client works, or is given up,
  and goes away when it is shut down;
* *plugins*: what can run does, after what it depends on; no plugin outlives one
  that it requires; the shutdown waits for those who asked for it, and for nobody
  else; a crash is blamed on the plugin whose code was running;
* *mapReduce*: only whole results are reduced, in order if that was asked for, none
  is left behind, the operation ends, and nothing uses its items afterwards.

## Modules

    LauncherState ----+-- LauncherSocket --+
                      +-- LauncherServer --+-- ProcessLauncher -- MCProcessLauncher
    ProcessInterface ....(refined by).......       |
                                           LauncherProofs

    ProcessInterface ...(refined by)... BlockingProcess -- BlockingProofs

    ProcessInterface ...(refined by)... TerminalProcess -- TerminalProofs

    Reaping ...(refined by)... ProcessReaper -- MCProcessReaper
                                     |
                                     ReaperProofs

    RunControl -- MCRunControl          BuildManager -- MCBuildManager
        |                                   |
        RunControlProofs                    BuildProofs

    PluginManager -- MCPluginManager    MapReduce -- MapReduceProofs
        |
        PluginProofs                    LanguageClient -- MCLanguageClient

**LauncherState** declares the constants and variables of the launcher, grouped
by who owns them (caller threads, shared under a mutex, launcher thread, socket,
helper), the packets and the signals.

**LauncherSocket** is Qt Creator's side. One step of a caller thread is what it
does under one lock or between two points at which another thread can see it:

* `RegisterHandle`, `Start` (or `ProgramMissing`) are `QtcProcess::start`, the
  constructor of `ProcessLauncherImpl` and `CallerHandle::start`. They are two
  steps, because the connection may be lost in between.
* `SendPacket` stores a request under the lock of `LauncherSocket`;
  `PostHandleRequests` is the `invokeMethod` after the lock. While a thread is in
  between it is in `posting` and does nothing else.
* `Control`, `Write`, `Close`, `DestroyInterface`, `UnregisterHandle` are the
  user's calls and `~ProcessLauncherImpl`, which the event loop runs some time
  after `close()`.
* A call of `flushFor`, or of `waitForSignal` around it, is a frame on the stack
  of its thread: `Flush` and `WaitForSignal` push one, `DoWaitForSignal` looks
  and sleeps in one step (it holds the mutex from the look to the sleep),
  `WaitTakes` takes the signals out of the store, `Deliver` handles one of them,
  `FlushReturns` ends the loop, `WaitTimeout` is the deadline. While the slot of
  a signal runs (`inSlot`), user code may make any call, also another wait, which
  is a frame on top.
* The launcher thread does one event at a time. A packet is found
  (`HandleSocketDataAvailable`), its handle locked (`LockHandle`), its signals
  appended one by one (`AppendSignal`), and the caller woken and called
  (`FlushCaller`); other threads run between these steps, as the locks allow.
  `HandleError` and `HandleSocketError` are the loss of the socket.
  `SetSocket`, `HandleRequests`, `DoStop` are the rest of its events.

**LauncherServer** is the helper, a single thread: one action per packet type
and per signal of a QProcess. `process[t]` is the entry of `m_processes` and,
after that, what the reaper does with it; the children are external.

**ProcessLauncher** composes the two, states the fairness and the properties,
and maps its state to **ProcessInterface**, the contract of `processinterface.h`
(`KeepsContract`).

**BlockingProcess** is a `QtcProcess` whose interface is not the launcher: a
terminal, or a process on a device. Two threads again, the caller and the one
that `GeneralProcessBlockingImpl::waitForSignal` creates for a single wait.
`handlerThread` says where the `ProcessInterfaceHandler` (and with it the
interface) lives: `WaitForSignal` moves it out, `MoveToCallerThread` brings it
back, and blocks until the handler is between two signals. `AppendSignal` flushes
directly in the caller's thread; in the temporary one it stores the signal, and
`WakeOne` and `PostFlush` are steps of their own, since the code does both after
it has released `m_mutex`. A frame of `stack` is a flush or a wait, as in
`LauncherSocket`; it also remembers whether `QtcProcessPrivate::waitForSignal`
has split its timeout at the kill timer. When the first half of a split wait ends
without a signal, the process is killed and the second half begins; the handler
is in the caller's thread for a moment in between, where nothing can reach it, so
the model leaves it where it is. The module maps its state to `ProcessInterface`
as the launcher does. It has no MC module: its constants are plain values.

**Reaping** is what the reaper promises; **ProcessReaper** is the code: owners,
the destructor, the thread with its event queue and timers, one `Reaper` per
process. `ProcessReaper::reap` is one step because owners and destructor exclude
each other by `s_instanceMutex`; the loop of `flush()` is a step per lock.

**TerminalProcess** is `TerminalImpl` with the stub, the terminal emulator and the
program, each of which may end at any time. `readStubOutput` takes one line of the
stub; `stopProcess`, `killStub` and the two halves of `stubExited` are the
stretches of code between which the others run (`pc` says which is next, since
`killStub` waits for the emulator in the middle of the GUI thread). `link` is the
socket with its states as both ends see them, `lines` and `commands` are what is
in it. The module maps its state to `ProcessInterface`. It has no constants, and so
no MC module.

**RunControl** numbers the workers in the order of `m_workers`. `OnWorkerStarted`,
`OnWorkerFailed` and `OnWorkerStopped` are the functions of `RunControlPrivate`,
with the loops `ContinueStart` and `ContinueStopOrFinish` at their end; the calls
they queue with timers of 0 ms wait in `calls[w]`. What a worker does is in
`job[w]`; `setup.kind` says which class of worker it is (a `SimpleTargetRunner`
for this or another machine, one that reports its stop at once, one that does so
later, and the `QdbDeviceInferiorRunner`, which does not). `Start`, `ReRun`,
`StopClicked`, `AnswerPrompt`, `CloseTab` are the buttons of the output pane, which
are enabled as the pane last saw the RunControl (`buttons`, refreshed by
`RunControlFinished` and `TabChanged`). `disturbed` remembers what takes a run out
of its order: a forced stop, and a re-run while the timer of the run before is
pending.

**BuildManager** has one action per event: `buildLists`, `cancel`, `StepFinished`,
`ParsingFinished`, `ScheduledBuild` (the queued call), `removeProject`; the private
functions (`nextStep`, `nextBuildQueue`, `startBuildQueue`, `clearBuildQueue`, ...)
are operators from one value of the record `d` to the next, in the order in which
the code calls them. `mishaps` remembers where the code goes wrong, so that the
properties can say how far they hold.

**LanguageClient** is one client, its share of the manager, its interface, and the
server. It is written like BuildManager. `openDocument`, `closeDocument`,
`documentContentsChanged`, `documentContentsSaved`, `setShadowDocument` and
`removeShadowDocument` are the functions of `Client`; `initialize`, `reset`,
`shutdown` and the callbacks are its life; `clientStarted`, `clientFinished` and
`shutdownClient` are the manager. What the GUI thread asks of the interface is
queued in `d.calls` and done by `StartImpl` and `SendData`; what the interface
tells comes back in `events`. The server keeps the version and the text of each
document it was told of (`server.docs`) and collects what it has to complain about
(`Legal`). A document is its file, and its text is how often it was edited, so that
a change says from which text to which it leads.

**PluginManager** is one process after the other, with the lock file that survives
it. `phase` says how far the process is, or, in a pass over the load queue, which
state the plugins are to reach; `StartPass` computes the queue (`loadQueue`, a
recursive function, with the partial results and the errors that the recursion of
the code leaves behind), and one action per branch of `loadPlugin()` takes the next
plugin. A call of a plugin's code is two actions, `loadPluginCalls` and one of
`pluginSucceeds`, `pluginFails`, `initializeExtensions` and `stopReturns`, so that a
`crash`, or a signal of another plugin, may come between. `hashOrder` is the order
in which a `QHash` is iterated: it is the same within a process, and not otherwise
known.

**MapReduce** is the thread of one operation (`pc`, from `run` to `ended`), its event
loop with its queue of `events`, and one job per item (`job`, from `queued` to
`finished`), in threads of their own. `schedule`, `mapFinished` and the two ways to
`reduce` are the functions of `MapReduceBase`; `cancel` sets the flag that
`isCanceled()` reads at once and queues the event that `cancelAll` handles later.

**LauncherProofs**, **ReaperProofs**, **BlockingProofs**, **RunControlProofs**,
**BuildProofs**, **TerminalProofs**, **PluginProofs** and **MapReduceProofs** hold the
theorems.

Definitions with a comment that begins with *Faulty* are not part of the model.
Each is a wrong version of the definition below it, used to make sure that the
property named for it in `PROJECT.json` notices the mistake.

## What TLC checks

| Configuration | Question | Bounds |
| --- | --- | --- |
| `MCProcessLauncher_contract` | Is the contract of `ProcessInterface` kept (`KeepsContract`); does a kill take effect (`KilledProcessIsDone`)? | one process, two pieces of output, all three waits, write, kill, close, no fault, no wait inside a slot |
| `MCProcessLauncher_threads` | `NothingIsStranded` (no wake-up, signal or request), `SilentAfterUnregister`, `ExactlyOneAnswer` | two processes in two threads, no output, waits two deep, close at any time; swapping the two threads with their processes is a symmetry |
| `MCProcessLauncher_faults` | `LossIsReported`, `ClosedProcessIsReaped`, `StoppedLauncherEnds` | one process, one piece of output, a fault of the socket at either end, at any time, terminate, close, shutdown |
| `BlockingProcess_waits` | `SignalsAreServed` (no call sleeps over a signal, and none is forgotten; with the types), `KeepsContract` of another interface, is a stopped process killed in the end (`StoppedProcessIsDone`)? | two pieces of output, every call, also from slots, waits two deep |
| `MCProcessReaper_promise` | `Accounted` (with the types) and the promise of `Reaping` (`KeepsPromise`) | three processes, each starting or running |
| `TerminalProcess_run` | `KeepsContract` but for two named cases, `NewsIsTold` (of starts and ends), `StoppedProgramEnds` | one run of one program; everything can fail at any point |
| `MCRunControl_promise` | `StartsAfterDependencies`, `StopsAfterDependents`, `NothingRunsWhenStopped`, `Settles`, `ClosedIsDeleted` | five setups of up to three workers that Qt Creator really builds, two re-runs |
| `MCBuildManager_builds` | `StaysInStep` (with the types), `AnnouncedOnce`, `RemovedIsGone`, `BuildEnds` | two projects, three targets, five steps (one disabled, one in a thread), six things to build (a rebuild and a list without an enabled step among them), two builds, one parse |
| `MCLanguageClient_documents` | `StaysLegal` (with the types), `InSync`, `Recovers`, `ShutsDown` | a source file and the generated header it includes, one restart, three things the user does |
| `MCPluginManager_starts` | `LoadQueueIsSorted` (with the types), `DependenciesOutlive`, `RunsWhenItCan`, `DeletedAfterAllFinished`, `WaitsForPluginsOnly`, `CrashIsBlamedRightly` | three plugins, every graph of up to three dependencies, two orders of the hash, one start; three starts for a chain, a fork and a circle |
| `MapReduce_maps` | `NothingUsedAfterwards`, `OnlyWholeResults`, `InOrder`, `AllReduced`, `Ends` | four items, three threads, ordered and unordered |
| `MCPluginManager_finish` | `WaitsForPluginsOnly`, violated: see below | plugins that send early, one start |

Why the bounds are enough to be interesting: tokens are independent except for
the shared request queue, the shared socket and, possibly, a shared thread, so two
of them show the interactions of a pair. TLC gives each its own thread, which has
more interleavings; a wait for one process inside a slot of another one of the
same thread is covered by the theorems, which hold for any `ThreadOf`. Two pieces
of output make one that travels in a packet of its own and one that travels with
the end; two frames make a slot that waits. Each control packet is sent at most
once per token, and tokens are never used twice (`uniqueToken()` counts up), so the
queues are finite without any other bound. In `BlockingProcess` two pieces of
output leave one in a flush, or behind a wait, and one just being stored; it has
one process, since no two share anything. Three processes of the reaper let one be
flushed, one be ending and one be handed over at the same time.

Three workers make a chain of dependencies and a fork; the setups are those of
running, profiling and debugging here and on a device, so a dependency that Qt
Creator never builds is not checked (the theorems do not depend on the setup).
Two re-runs let the late timer of one run meet the next one and that be run again.
Two builds are the least that share the queue; the requests include one of two
projects and one with two targets, of which one can fail while the other goes on.
For the language client, two documents are a shadow and the document that needs
it; three acts are, for example, opening a document, an edit, and a save while the
server is restarted. `MaxRestarts` is 2 in the code; with 1 a client is both
restarted and given up, in fewer steps.

Three plugins make a chain, a fork, and circles of two and of three; the three
dependencies may be required or optional, and with two of them the settings or the
platform may leave plugins out. Three starts are one that crashes, one that
crashes elsewhere while the lock file of the first is still there, and one that
asks. Four items in three threads leave one to be scheduled by the end of another,
and two results pending behind a third.

Deadlock is not an error in these runs: user code need not make another call,
and after the shutdown nothing is left to do.

### What the code does against its own words

`MCPluginManager_finish` ends in a violation; the finding in `PROJECT.json` quotes
the lines. `loadPlugin` connects `asynchronousShutdownFinished` after
`aboutToShutdown()` has returned, and counts the plugin then. A plugin that finishes
before is waited for although everybody has sent the signal, and Qt Creator does not
end; one that finishes while another one's `aboutToShutdown()` runs events has an
event loop left that does not exist yet. The same property holds, and is proved,
for plugins that send later.

The models show more places where code and text disagree. They were found while
reading and modelling; no run refutes a property for them, but the models behave as
the code does:

* *BlockingProcess*: the handlers of `ProcessInterfaceHandler` are said to be called
  from the temporary thread while a wait goes on (`qtcprocess.cpp:580`). But
  `moveToThread` works only from the thread the object lives in: a wait in a slot
  of a wait leaves the handler in the outer thread and then brings it back to the
  caller's thread, in which the outer wait sleeps. No signal reaches it, and its
  own `moveToCallerThread`, a blocking call to its own thread, does not return. The
  model stops there (such a frame stays at `back`).
* *BuildManager*: "Delay if any of the involved build systems are currently
  parsing" (`buildmanager.cpp:551`). The steps of the build that is put off stay in
  the shared queue; a build that is going on takes them from there and runs them
  while the build system parses.
* *PluginManager*: `-noload` is to disable "the specified plugin and all plugins that
  depend on it" (`creator-cli.qdoc`). `pluginsRequiringPlugin` looks for these in the
  load queue, which lacks plugins with an error in their dependencies; they stay
  enabled, and enable what they require, so the plugin is loaded.
* *PluginManager*: an optional dependency is either loaded first or "not declared at
  all" (`plugin-metadata.qdoc`). Of two plugins that depend optionally on one that
  is found but has unresolved dependencies itself, the first by name gets an error,
  and the second is loaded without it. And the dependencies come *before* a plugin
  in the load queue, not after it, as `plugin-lifecycle.qdoc` says.
* *MapReduce*: the cleanup function "is called [...] after all map and reduce calls
  have finished" (`mapreduce.h`), but not if the operation is canceled before its
  thread runs: `AsyncJob` then returns without calling anything, and what
  `Utils::findInFiles` prepared for the cleanup is not deleted.

### Where the properties end

The models contain more of this kind. The properties say by name where they end,
so that a reader can see what is not claimed:

* *Launcher.* When the connection is lost, a running process is told that it
  failed to start (the code has a TODO about it), and one that has ended is done
  again. If a slot waits, the inner wait takes later signals than those the outer
  flush has taken: output after done. So `KeepsContract` is checked, and proved,
  without faults and without waits in slots. `ClosedProcessIsReaped` is checked with waits for
  `Started` only: a slot that closes the process a wait without a timeout waits
  for does not end that wait, and the deletion that `close()` asks for needs the
  event loop.
* *BlockingProcess.* A flush goes on when a slot closes the process, and after a
  wait in a slot the outer call goes on with signals that are older than those the
  inner one delivered: `KeepsContract` is claimed until the process is closed or a
  slot waits (`slotWaits`), and so is `StoppedProcessIsDone`. A process that is
  stopped in a slot of `waitForFinished(-1)` is never killed, since the wait is split
  at the kill timer only if that runs when it begins: the property asks for a timer
  that runs in the event loop.
* *ProcessReaper.* After the kill only `QProcess::finished` leads on. A start that
  is found to have failed only then emits none, and the destructor waits for good;
  `ProcessFailedToStart` assumes that it is noticed before the timeout.
* *TerminalProcess.* Done comes twice (`doneAgain`) when `stop()` is followed by the
  connect timer, or by news of the end that was on its way; and for a process that
  is starting, without `FailedToStart` (`doneWhileStarting`), when it is stopped
  or its stub goes before the start is reported. A program that is stopped while
  its stub is coming up may run on (`stoppedWhileStarting`). A stub that fails
  after it has connected tells its user only, and a terminal that is gone before
  its stub has connected leaves nothing to stop (`StartIsAnswered`, half of
  `NewsIsTold`).
* *RunControl.* A forced stop does not wait for processes, and a re-run while the
  100 ms timer of `SimpleTargetRunner::stop()` is pending has its worker reported
  as stopped by the run before (`disturbed`). With other setups than those five, a
  re-run from a button that is out of date can start workers again while one that
  they depend on is still stopping; so `StopsAfterDependents` is claimed until
  something disturbs the run. `QdbDeviceInferiorRunner` closes its
  process and never reports its stop: the liveness properties ask that all workers
  report (`Reporting`).
* *BuildManager.* `overlapped`: while a build was put off, its steps have run with
  the current build, or the queue has come to its end because the rest was disabled.
  `scattered`: a build was asked for in which the steps of one target do not follow
  each other. `queue()` goes through all projects once for each kind of step, so
  that a rebuild, or a build and deployment, of several targets is one. When a step
  fails and errors do not abort the build, only the steps directly behind it are
  dropped; those that come behind the steps of another target are run.
  `abandoned`: the build that was put off is cancelled, or its parse
  fails, while a step runs, and the queue is cleared under that step.
  `lateCancel`: a project is removed while a step in a thread has still to find
  out that it is cancelled. `crashed`: a step that does not exist is used. If
  errors do not abort the build, the steps of a failed target leave the queue and
  their flags stay, so that they belong to other steps.
* *LanguageClient.* `shadowed`: opening or saving a document opens a shadow for a
  header that is open in an editor (didOpen twice), and opening a header closes a
  shadow that was never open. `lateError`: a message that is sent when the server
  has ended puts the client into `Error`, perhaps after `reset()`; the server
  that is started next is then never initialized. `refused`: a server that refuses
  to be initialized is taken for finished, and restarted while it runs; when it
  ends, a second restart follows, and replaces the first.
* *PluginManager.* `RunsWhenItCan` leaves out plugins that depend, be it optionally,
  on a circle or on a plugin with unresolved dependencies: whether these run
  depends on their names and on the order of a hash.
* *MapReduce.* `Ends` is claimed of operations that are canceled, and of those whose
  map functions all return. A map function that is canceled returns; one that never
  asks whether it is canceled would keep the operation.

## Fairness

`FairSpec` assumes of Qt Creator and the helper that a thread that can act does:

* weak fairness for each step of the launcher thread, of the helper, and of a
  caller thread inside one of its own calls;
* strong fairness for the queued flush and the deferred deletion. User code that
  is called again and again disables them for a while, but an event loop serves
  its queue first in, first out, so a posted event is not overtaken forever;
* weak fairness for the result of a start (a QProcess that is starting either
  starts or fails) and for the end of a child that has been *killed*. A child that
  has been asked to terminate may go on.

Nothing is assumed of user code, of deadlines, of faults, of a child that was
not killed, or that the application ever shuts down (in `BlockingProcess`
deadlines and the kill timer do expire, which is what they are for, and a start
comes to an end; the events of the caller get strong fairness, since calls of
user code interrupt its event loop but do not reorder it). In `ProcessReaper`, timers
expire and the reaper's thread runs; owners need not do anything.

In the plugins the event loop runs: weak fairness for each queued call, signal and
timer. A worker of a `RunControl` answers its start one way or the other and ends
when it is told to; it need not end otherwise, and the user need not do anything.
A build step and a parser come to an end; builds are bounded, so no new ones can
keep the queue filled. In `TerminalProcess` the three threads run, the connect
timer expires, and an emulator whose stub has exited ends; the stub need not come
up, the user need not press RETURN, and the program need not end. A language server
that is started runs or fails, and one that is told to initialize answers or ends;
it need not answer a request to shut down, and need not end. The thread of a
`mapReduce` runs, and a map that was canceled returns; other maps need not, and
`Ends` says what follows if they do. `PluginManager` has no liveness property: its
shutdown is a loop over a finite queue, then one wait, and that somebody is left
to end this wait is the invariant `WaitsForPluginsOnly`.

## What is proved

For all constants that satisfy the assumptions in `LauncherState` (any set of
tokens and threads, any owner of a token, any amount of output, any depth of
nesting, with faults or without, any set of calls; the last theorem has hypotheses
of its own):

| Theorem | Property | Argument |
| --- | --- | --- |
| `TypeCorrect` | `TypeOK` | inductive as it stands: one lemma per group of actions, with lemmas for frames, packets and signals |
| `SignalsAreNotStranded` | `NoStrandedSignal` | inductive with `TypeOK`. The launcher thread holds the mutex of the handle from the first stored signal until it has posted the flush; taking signals empties the store or leaves the posted flush alone |
| `UnregisteredIsSilent` | `SilentAfterUnregister` | inductive with `TypeOK`. `unregisterHandle` needs the mutex, so no handler is under way, and `LockHandle` looks again |
| `RequestsAreNotStranded` | `NoStrandedRequest` | inductive with `TypeOK`. A queue that becomes non-empty makes its thread `posting`; only `PostHandleRequests` ends that, and it posts the call |
| `NothingGetsStranded` | `NothingIsStranded` | the conjunction of `NoLostWakeup`, `NoStrandedSignal` and `NoStrandedRequest` |
| `NoWakeupIsLost` | `NoLostWakeup` | not inductive: a call below the innermost one might be asleep, be uncovered and find signals stored. The strengthening `OuterCallsDeliver` says that every call below the innermost is delivering a signal; together they are inductive |
| `AnsweredOnce` | `ExactlyOneAnswer` | not inductive: a handle stops its process when it *handles* a done signal and sets it running when it handles a started one, so where these two are matters. See `AInv` below |
| `LossIsTold` | `LossIsReported` | part of the same invariant |
| `LauncherKeepsContract` | `KeepsContract` | assumes that the connection holds (`~Faults`) and that no slot waits (`MaxDepth <= 1`), as the property does. See `CInv` below |

The first proofs of `LauncherProofs` have one step per action of `Next` that can
disturb the property; lemmas at their head (`SignalSteps`, `HandleSteps`,
`StackSteps`, ...) dispose of the actions that cannot.

For `AnsweredOnce` and `LossIsTold`, the news of a process are in one of four places: the socket,
the handler of the launcher thread (`job`), the store of the handle, and the calls
of the owner's thread that have taken them. `AInv` says of every token
* `StartedFirst`: where started is, nothing is before it, and the places behind it
  on the way are empty. Otherwise a done that is handled first would be followed
  by a started that sets the process running again, with no answer to come;
* `OneAnswer`, the property itself, with what it leans on: a process has its start
  request in the queue or has been started (`Requested`), there is no news of it
  before that (`NotYetStarted`, `Unused`), and its handle is not told that it is
  not running while started is on its way (`StartExpected`);
* `LossComes`: a handle that has been told of the loss and whose process runs, *or
  whose started is still to be handled*, has a done behind that in one of the three
  places of Qt Creator's own; `Lost` says when a handle can be told.

The lemmas on counting (`CountConcat`, `CountTail`, `OnTop`) are about any
sequences; one lemma per way that news move (`ServerSends`, `PacketHandled`,
`SignalStored`, `WaitFlushes`, `SignalsFlushed`, `SignalDelivered`,
`ConnectionLost`, `HandleTold`, `HandleCutOff`) shows that `AInv` is kept.

`LauncherKeepsContract` is about the order and the contents of the news too. What a
QtcProcess has been told of its run is a *position*: 0 while it is starting, 1 + k
when it is running and has had k pieces of output, -1 - p when it has ended at
position p. A signal tells how to get from one position to another (`Tells`), a
packet does too (`PacketTells`), and a packet about another process leads nowhere. A
sequence of them is a `Chain` from p to q. `CInv` is `AInv` with
* `Follows`, for each process that was started and is not closed: there is a chain
  from what the QtcProcess has been told (`Told`), through what a call of its thread
  has taken, what is stored, what the launcher thread is unpacking and what is in the
  socket, to what the helper has sent (`Known`, which relates that to the process, to
  the output that has not been read and to what the child wrote, `Written`). So
  the signal that is handled next is the step that the contract has next
  (`ContractEmits`). The output of a packet with done is part of what done tells;
* `Calm`: the connection is ended by the last deletion of an interface only, when
  nobody is left to tell (`Owned`), so that no handle is told of a loss (`NotLost`);
* `Shallow`: a thread is inside of one call, so what it has taken is in one place.
  With a wait in a slot the chain is false: see *Where the properties end*.

A step that moves news cuts a chain or joins two (`ChainCut`, `ChainAppend`), and
there is one lemma per way to move them (`SendFollows`, `PacketFollows`,
`AppendFollows`, `TakenFollows`, `DeliverFollows`, ...). What the contract sees is
computed from the signals that were delivered by `FlattenSeq` and `SelectInSeq`; the
first is a recursive function, and `Flattened` shows what it comes to for every
sequence (by `InductionUpTo`, see *The queue* below).

For any number of workers and re-runs, and any set of setups whose dependencies
stay among their workers (`RunControl!ConstantsAssumption`):

| Theorem | Property | Argument |
| --- | --- | --- |
| `TypeCorrect` | `TypeOK` | part of `IInv` |
| `AllUp` | `AllUpWhenRunning` | part of `IInv`: `ContinueStart` makes the RunControl `Running` only when it finds nobody who waits |
| `DependenciesFirst` | `StartsAfterDependencies` | part of `IInv`: `CanStart` looks at the dependencies, and no worker goes back while nothing has disturbed the run |
| `DependentsStopFirst` | `StopsAfterDependents` | with `IInv`. `StopsInOrder`: `CanStop` looks at who depends on a worker, and while workers are stopped none comes back (`NoneRevived`); a new run begins when all are at rest (`AllOver`) |
| `StoppedMeansStopped` | `NothingRunsWhenStopped` | not inductive: a worker may be `Done` for the RunControl while its process is still to end, or a call to start it is still queued |

In `RunControlProofs`, `IInv` is `TypeOK` with `Settled` (how far the state of a worker, its queued calls,
its process and its timer agree, while nobody has forced a stop or run the program
again too early), `Outside` (who is not in `m_workers` does nothing), `AllOver`
(when a RunControl has stopped or finished, all its workers are at rest), and the
two properties. Most actions touch one worker; `OnlyTouches` with `ReportStep`,
`SilentStep` and `DownStep` say what is left to show for these.

For any projects, targets and steps, any lists of steps that may be asked for,
whatever is disabled or runs in a thread, and any number of builds and parser runs
(`BuildManager!ConstantsAssumption`):

| Theorem | Property | Argument |
| --- | --- | --- |
| `Agreement` | `StaysInStep` | with `Sound`, see below |
| `ToldOnce` | `AnnouncedOnce` | the count of calls follows each way out of a build (`Settled`). Steps that wait without being run do so for a build system (`IsPutOff`), and without a mishap no build system is waited for in vain (`OnlyPutOff`) |
| `NothingIsLeft` | `RemovedIsGone` | `ProjectIsBuilt`: by `Sound` the counter of a project is above 0 exactly if a step of it is queued or current, so that `isBuilding` finds what has to be cancelled before the project is deleted, and afterwards its counter is 0 |

One event of the BuildManager is a chain of calls (`cancel`, the finishedHandler,
`nextBuildQueue`, `nextStep`, `clearBuildQueue`), and the invariant `BInv` holds at
both ends of it, but not between. So `BuildProofs` has one lemma per function that
says what it returns for every argument (`ClearTypes`, `NextTypes`, `Drops`, ...),
and one that says what it makes of a queue that agrees with its counters: the
finishedHandler gets a step that no longer works (`Ending`), passes on a queue
without a current step (`Between`), and `nextStep` or `clearBuildQueue` make it one
that goes on or is at its end (`Settled`). `Sound` is stronger than `StaysInStep` in
three ways: a BuildManager that is canceling is running, no step of a target that
has failed is *queued* (`NoneFailed`), and the steps of a target are together, the
current one included, so that all that have to go are in front. Counting rests on
lemmas about any sequences (`CountConcat`, `CountTail`, `CountSplit`); `Skipping` and
`Dropping` say what the two loops, which count steps at the front, stop at.

The attempt to prove the invariants corrected the model twice, where TLC's lists of
steps were too tame to show it: that a failed target is left out had been claimed
for `scattered` lists too, and `overlapped` had not counted the case in which all
that is left is disabled.

For any set of processes and owners, and any time that `reap` may be given
(`ReaperProofs`):

| Theorem | Property | Argument |
| --- | --- | --- |
| `AllAccounted` | `Accounted` | `Placed`: a process is at one place only, the list, the flush that is under way, or `m_reaperList`; `Told`: only a Reaper that is finished has queued its signal. `DeletedOnceAfterTheEnd` and `NothingForgotten` are inductive with these |
| `Refinement` | `Promise!Safety`, the safety part of `KeepsPromise` | each step is one of `Reaping` or a stutter. That the destructor returns after the last process needs `LastFlush`: once it has queued the blocking flush, nothing is queued behind it, and after that nothing is left outside `m_reaperList` |

For another interface of a QtcProcess (`BlockingProofs`; any output, any depth of
waits in slots):

| Theorem | Property | Argument |
| --- | --- | --- |
| `AlwaysServed` | `SignalsAreServed` | with `InnermostOnly`: a call that has another one in a slot of its own is delivering, so it cannot be the one that sleeps |
| `Refinement` | `KeepsContract` | `InOrder`: what was taken and what is stored (`Coming`) continues what the QtcProcess was told, piece by piece, until it is closed or a slot waits. So each signal that is handled is the step that the contract has next |

For a program in a terminal (no constants, but messages and commands of any
length):

| Theorem | Property | Argument |
| --- | --- | --- |
| `TypeCorrect` | `TypeOK` | part of the invariant |
| `Refinement` | `KeepsContract` | every step of the GUI thread is a step of `ProcessInterface`, a stutter, or one of the two named mishaps. It needs what the stub can have written by the time it is read (`Written`), where the connection is (`Linked`), and that a process which is not running has nothing left to report (`Quiet`) |

For any finite set of plugins, any configurations and orders of the hash, and any
number of starts (`PluginManager!ConstantsAssumption`):

| Theorem | Property | Argument |
| --- | --- | --- |
| `BlamedRightly` | `CrashIsBlamedRightly` | `LockIsTrue`: while a plugin's code runs in a loading pass, the lock file names it; otherwise it names who crashed Qt Creator, or nobody |
| `AllHaveFinished` | `DeletedAfterAllFinished` | `WaitIsTrue`: who is listened to has sent or is waited for, and the loop is left only when nobody is; also if plugins send early |
| `WaitHasAnEnd` | `WaitsForPluginsOnly` | assumes that plugins do not send early (`~SendsEarly`). `LoopIsTrue`: none has sent before the loop runs, who is waited for is listened to and has not sent |
| `NoneOutlives` | `DependenciesOutlive` | `LifeIsTrue`, on top of a queue that is sorted |
| `QueueHasAll` | `LoadQueueIsSorted`, with `TypeOK` | what the recursion computes (`LoadQueueIsRight`); `QueueStays`: all passes go over that queue, and who is left out of it keeps an error |
| `AllThatCanRun` | `RunsWhenItCan` | `RunIsTrue`: who ought to run is in the queue, has no error and is as far as the pass; what it requires ought to run too, so that it is never refused |

*The queue.* `loadQueue` is a function from visits to visits that calls itself, on a
plugin and on what was checked so far. The proof system takes such a definition for
a choice among the functions that satisfy it, so there are two things to prove. That
there is one (`FixExists`): visits that go fewer than `n` plugins deep exist for every
`n` (`DeepExists`), each visit checks a plugin that had not been checked, and the
plugins are finitely many. That it is the only one that matters (`FixIsUnique`). What
it does is the invariant of a visit (`MayVisit`, `HasVisited`, `Leads`): who is being
visited depends on the plugin at hand, so that whom the visit meets twice is in a
circle, and a plugin is queued after all it depends on, or reported and bad. Induction
is over the number of plugins that are left to check (`Left`). The induction theorems
of the library have operators as parameters, so `InductionUpTo` is derived from the
well-foundedness of the order of the numbers: a property is a set, and the set of
the numbers that are not in it would have a least one. `ConfigIsGraph` relates this to
`Reachable`, which is a least set and no recursion.

*The life.* `LifeIsTrue` is needed because
`DependenciesOutlive` depends on who is still to be called: all passes go over the
same queue (`QueueStays`; `shutdown` computes it anew, but `LoadQueue` looks only at
what is resolved, which the state of a plugin tells, and at the dependencies and the
order of the hash, which stay), what is left of a pass is a part of it in its order
(`InOrder`), and a plugin is as far as the phase and its place say (`AsFarAs`). So
when a pass deletes a plugin, those that require it have been deleted, or never got
as far as having an object; that the clean-up after loading deletes no plugin
under another one is `InitializedInOrder`.

*Who runs.* `DependenciesEnabled`: the least set to which a round of
`enableDependenciesIndirectly` adds nothing leaves nobody enabled without what it
requires, if that is for this platform (`IsClosedBy`); after the start only errors
and states change. Before the first pass only bad plugins have errors, whether the
queue was computed for an option of the user, for the question after a crash or not
at all.

For any number of items and threads (`MapReduce!ConstantsAssumption`):

| Theorem | Property | Argument |
| --- | --- | --- |
| `OperationIsTyped` | `TypeOK` | part of `IInv` |
| `JobsAreOver` | `NothingUsedAfterwards` | `Watched`: a job that is queued or runs has a watcher, and the loop is left only without watchers |
| `WholeResultsAreReduced` | `OnlyWholeResults` | `Whole`, on top of `Told`: a map is stopped half way only if the operation was canceled before, and what ends after that is not reduced |
| `OrderIsKept` | `InOrder` | `Placed`: what is reduced, pending, or about to be reduced are different items, and the next one in order is never left pending |
| `NothingIsLeftBehind` | `AllReduced` | `Complete`: without a cancellation, every item that was scheduled is watched, held, pending or reduced, and all are scheduled when the loop is left. With `Placed`, nothing can be pending then: the next item in order would be neither pending nor reduced |

In `MapReduceProofs`, `IInv` is `TypeOK` with the five named parts, which lean on
each other, and the proof has one lemma per part, with one step per action.

Only model-checked: the liveness properties, those of the refinements included
(they need fairness); `StaysLegal` and `InSync` of `LanguageClient`, whose handlers
fold over sets of documents.

## What is left out

* The standard error channel: it is handled like the standard output, line for
  line. The bytes that go to a child's standard input. Process ids, messages.
* A QtcProcess that is started again. It gets a new `ProcessLauncherImpl` with a
  new token, so for the launcher it is another process; what is not covered is
  that `QtcProcess::start` replaces the interface at once, even below a wait
  whose slot starts the process again. `runBlocking`, its hang detection and the
  callbacks on output.
* What a terminal or a remote device does to run a process: for
  `BlockingProcess` an interface emits its signals in the order the contract
  asks for, and ends when it is killed.
* User code that runs its own event loop inside a slot, or destroys the
  QtcProcess inside its own slot; the slot of `done` that `start()` itself emits
  when it fails.
* A helper that cannot be started at all. `LauncherInterfacePrivate` emits
  `errorOccurred`, to which nothing is connected, and start requests then wait in
  the queue. A handle that is registered after the connection was lost has the
  same fate; the model contains it, but no text says what should happen.
* The crash of the helper is seen by Qt Creator as a lost connection (`Faults`).
* Destroying the application while handles are registered: `DoStop` waits for
  `m_handles` to be empty, as `~LauncherSocket` asserts and `Singleton::deleteAll`
  demands of its callers.
* *Terminal*: the Windows half; the debugger's use of the stub, which keeps the
  program from running until it is attached; slots of started and done that make
  calls. Time: `killStub` waits up to 30 seconds in the GUI thread.
* *RunControl*: the watchdog timers of a worker, which nobody sets; how workers are
  chosen; the immediate refresh of the pane, which `TabChanged` stands for. The
  user is slower than timers of 0 ms (`NothingQueued`), and
  `SimpleTargetRunner::stop` sees the end it waits for.
* *BuildManager*: the modal dialogs (save, stop the running programs), the
  progress bar, the output window, the compile output; the counters per target
  and configuration, which go with those per project. Whether a step is disabled
  does not change while it is queued.
* *LanguageClient*: everything that only asks the server (completion, symbols,
  highlighting, code actions), dynamic registration, requests of the server and
  work-done progress; full synchronisation of the text, and none; other clients
  of the manager, but that a document may be theirs. The server sends answers
  only; a message that cannot be parsed is not modelled (its error would stop the
  timer of a shutdown). Shadow documents that wait for their client. A deleted
  client is gone at once, although `deleteLater` lets queued events come first.
  The timer of a restart, 5 seconds, is taken to be slower than that of the
  updates, which is 500 ms unless the settings for C++ say otherwise; a longer one
  would send changes of the old server to the new one.
* *PluginManager*: reading settings and meta data, the options of plugins, `-test`,
  `-no-crashcheck`, the early exits of `main()`, the object pool, scenarios and
  profiling. A second Qt Creator that shares the lock file while the first one
  loads. Plugins that quit Qt Creator from their own code, except by a crash.
* *MapReduce*: progress values, pausing, `FutureSynchronizer`, `QThreadPool::clear`,
  which nobody calls on such a pool, and an operation that uses the pool of
  another one, which no caller does.
* The rest of Qt Creator: the components in `PROJECT.json` give the reason for
  each. Most of its 1.2 million lines are editors, parsers, data conversion and
  glue to tools, which have no protocol of their own that a model of this size
  would say anything about.

## Plan

Done: the launcher, the reaper, the wait for other interfaces, programs in a
terminal, runs, builds, the documents of a language client, the life of the
plugins, and mapReduce.

1. Proofs: the step of the launcher's refinement; what of `LanguageClient` does not
   depend on its folds.
2. *LauncherInterface and Singleton*: a helper that does not start, lock order,
   destruction in the order of dependencies.
3. *QtcProcess*: `runBlocking` and its hang detection, restart of the same object,
   the line buffers and callbacks of its output.
4. *PacketParser*: packets cut anywhere in the stream come out whole and in order.
5. *Debugger*: the states of `DebuggerEngine` and the requests and answers of
   `GdbEngine`, where a debugger that dies meets a shutdown that is under way.
