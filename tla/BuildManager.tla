------------------------------ MODULE BuildManager ------------------------------
(***************************************************************************)
(* The BuildManager (projectexplorer/buildmanager.cpp): one queue of build *)
(* steps for all projects, worked off one step at a time.                  *)
(*                                                                         *)
(* Everything happens in the GUI thread: one action is one event, and the  *)
(* private functions that an event calls are operators from one value of   *)
(* d, the BuildManagerPrivate, to the next.  A build is put off while a    *)
(* build system that is involved parses; the signal that ends the parsing  *)
(* arrives through a queued connection, so it waits in parsed.             *)
(*                                                                         *)
(* A step in Threads works in a thread of its own (BuildStep::runInThread) *)
(* and ends some time after it is cancelled; the others are processes,     *)
(* which cancel() ends at once (AbstractProcessStep::doCancel).            *)
(***************************************************************************)
EXTENDS Integers, Sequences, FiniteSets

CONSTANTS
    Steps, Targets, Projects, None,
    target,      \* BuildStep::target()
    project,     \* Target::project()
    Disabled,    \* the steps that are not BuildStep::enabled()
    Threads,     \* the steps that run in a thread
    Requests,    \* what can be built: the steps of a list of BuildStepLists
    MaxBuilds,   \* bound: how often the user asks for a build
    MaxParses    \* bound: how often a build system starts to parse

ASSUME ConstantsAssumption ==
    /\ target \in [Steps -> Targets] /\ project \in [Targets -> Projects]
    /\ Disabled \subseteq Steps /\ Threads \subseteq Steps
    /\ Requests \subseteq [steps : Seq(Steps), deploys : BOOLEAN]
    /\ \A r \in Requests : r.steps # << >>
    /\ MaxBuilds \in Nat /\ MaxParses \in Nat
    /\ None \notin Steps \cup Targets

VARIABLES
    d,           \* BuildManagerPrivate, and which steps work and are connected
    parsing,     \* BuildSystem::isParsing(), by target
    listeners,   \* connections to BuildSystem::parsingFinished, by target
    parsed,      \* calls of these connections on their way, each with its success
    removed,     \* projects that have been removed
    abortBuildAllOnError, \* the setting of that name
    builds, parses,       \* how many there have been
    mishaps      \* history: what has gone wrong, see Mishap

vars == <<d, parsing, listeners, parsed, removed, abortBuildAllOnError,
          builds, parses, mishaps>>

(* "overlapped": steps ran while a build was still put off.  "abandoned":  *)
(* that build was given up, and with it the step that ran.                 *)
(* "lateCancel": a project was removed while a step in a thread was still  *)
(* to find out that it is cancelled.  "crashed": a null or dangling        *)
(* pointer was used; nothing is modelled from there on.  "scattered": a    *)
(* build was asked for in which the steps of a target are not together.    *)
(* For a rebuild, for example, queue() puts the build steps of all targets *)
(* after the clean steps of all targets.                                   *)
Mishap == {"overlapped", "abandoned", "lateCancel", "crashed", "scattered"}

ProjectOf(s) == project[target[s]]
StepsOf == [p \in Projects |-> {s \in Steps : ProjectOf(s) = p}]

BuildManagerPrivate ==
    [m_buildQueue : Seq(Steps), m_enabledState : Seq(BOOLEAN),
     m_running : BOOLEAN, m_isDeploying : BOOLEAN, m_canceling : BOOLEAN,
     m_allStepsSucceeded : BOOLEAN, m_currentBuildStep : Steps \cup {None},
     m_activeBuildSteps : [Projects -> Int],
     m_progress : Nat, m_maxProgress : Nat,
     m_scheduledBuild : Targets \cup {None},
     working : SUBSET Steps,     \* run() was called, and finished() not emitted
     connected : SUBSET Steps,   \* finished() calls the finishedHandler
     failed : SUBSET Targets,    \* history: a step failed in this build
     announced : Nat]            \* history: buildQueueFinished() since the
                                 \* BuildManager got something to do
TypeOK ==
    /\ d \in BuildManagerPrivate
    /\ parsing \in [Targets -> BOOLEAN]
    /\ listeners \in [Targets -> Nat]
    /\ parsed \in Seq(BOOLEAN)
    /\ removed \subseteq Projects
    /\ abortBuildAllOnError \in BOOLEAN
    /\ builds \in 0 .. MaxBuilds /\ parses \in 0 .. MaxParses
    /\ mishaps \subseteq Mishap

Init ==
    /\ d = [m_buildQueue |-> << >>, m_enabledState |-> << >>,
            m_running |-> FALSE, m_isDeploying |-> FALSE, m_canceling |-> FALSE,
            m_allStepsSucceeded |-> TRUE, m_currentBuildStep |-> None,
            m_activeBuildSteps |-> [p \in Projects |-> 0],
            m_progress |-> 0, m_maxProgress |-> 0, m_scheduledBuild |-> None,
            working |-> {}, connected |-> {}, failed |-> {}, announced |-> 1]
    /\ parsing \in [Targets -> BOOLEAN]
    /\ listeners = [t \in Targets |-> 0] /\ parsed = << >>
    /\ removed = {} /\ abortBuildAllOnError \in BOOLEAN
    /\ builds = 0 /\ parses = 0 /\ mishaps = {}
-----------------------------------------------------------------------------
(* The functions of the BuildManager.                                      *)
isBuilding(m) == m.m_buildQueue # << >> \/ m.m_running

(* Faulty: asks for the current step only.                                 *)
isBuildingProjectNow(m, p) ==
    m.m_currentBuildStep # None /\ ProjectOf(m.m_currentBuildStep) = p

isBuildingProject(m, p) == m.m_activeBuildSteps[p] > 0

Count(q, S) == Cardinality({i \in DOMAIN q : q[i] \in S})

(* How many of these steps are of project p.                               *)
Amount(q, p) == Count(q, StepsOf[p])

First(q, n) == SubSeq(q, 1, n)
Rest(q, n) == SubSeq(q, n + 1, Len(q))

decrementActiveBuildSteps(m, q) ==
    [m EXCEPT !.m_activeBuildSteps = [p \in Projects |-> @[p] - Amount(q, p)]]

(* Faulty: the projects of the steps still count as being built.           *)
clearBuildQueueWithoutCounting(m) ==
    [m EXCEPT
        !.m_buildQueue = << >>, !.m_enabledState = << >>, !.m_running = FALSE,
        !.m_isDeploying = FALSE, !.m_currentBuildStep = None, !.m_maxProgress = 0,
        !.announced = @ + 1]

clearBuildQueue(m) ==
    [decrementActiveBuildSteps(m, m.m_buildQueue) EXCEPT
        !.m_buildQueue = << >>, !.m_enabledState = << >>, !.m_running = FALSE,
        !.m_isDeploying = FALSE, !.m_currentBuildStep = None, !.m_maxProgress = 0,
        !.announced = @ + 1]

(* nextBuildQueue() while m_canceling.                                     *)
StopAtCancel(m) ==
    clearBuildQueue(decrementActiveBuildSteps([m EXCEPT !.m_canceling = FALSE],
                                              <<m.m_currentBuildStep>>))

(* The last step is done.                                                  *)
EndOfQueue(m) ==
    [m EXCEPT !.m_running = FALSE, !.m_isDeploying = FALSE, !.m_maxProgress = 0,
              !.m_currentBuildStep = None, !.announced = @ + 1]

(* How many disabled steps nextStep() and nextBuildQueue() pass over.      *)
ToSkip(m) == Cardinality({i \in DOMAIN m.m_buildQueue :
                             \A j \in 1 .. i : ~m.m_enabledState[j]})

nextStep(m) ==
    LET q == m.m_buildQueue
        n == ToSkip(m)
        skipped == [decrementActiveBuildSteps(m, First(q, n)) EXCEPT
                      !.m_buildQueue = Rest(@, n), !.m_enabledState = Rest(@, n)]
        first == [m EXCEPT !.m_buildQueue = Tail(@), !.m_enabledState = Tail(@),
                           !.m_currentBuildStep = Head(q)]
    IN  IF n > 0 /\ m.m_canceling
        THEN StopAtCancel(first)
        ELSE IF skipped.m_buildQueue = << >>
        THEN EndOfQueue(skipped)
        ELSE LET s == Head(skipped.m_buildQueue) IN
             [skipped EXCEPT
                !.m_buildQueue = Tail(@), !.m_enabledState = Tail(@),
                !.m_currentBuildStep = s,
                !.working = @ \cup {s}, !.connected = @ \cup {s}]

(* How many steps at the front of the queue are for target t.              *)
SameTarget(q, t) == Cardinality({i \in DOMAIN q : \A j \in 1 .. i : target[q[j]] = t})

BuildFailure(m) ==
    LET t == target[m.m_currentBuildStep]
        q == m.m_buildQueue
        n == SameTarget(q, t)
        failed == [m EXCEPT !.m_allStepsSucceeded = FALSE, !.failed = @ \cup {t}]
        dropped == [decrementActiveBuildSteps(failed, First(q, n)) EXCEPT
                      !.m_buildQueue = Rest(@, n)]
    IN  IF abortBuildAllOnError THEN clearBuildQueue(failed)
        ELSE IF dropped.m_buildQueue = << >> THEN clearBuildQueue(dropped)
        ELSE nextStep(dropped)

nextBuildQueue(m, success) ==
    LET done == decrementActiveBuildSteps([m EXCEPT !.m_progress = @ + 1],
                                          <<m.m_currentBuildStep>>)
    IN  IF m.m_canceling THEN StopAtCancel(m)
        ELSE IF success THEN nextStep(done)
        ELSE BuildFailure(done)

(* The finishedHandler is the same for every step, and takes the current   *)
(* one for the one that has finished.                                      *)
finishedHandler(m, success) ==
    nextBuildQueue([m EXCEPT !.connected = @ \ {m.m_currentBuildStep}], success)

(* The build systems startBuildQueue() may connect to, in a QSet's order.  *)
Busy(m) == {target[m.m_buildQueue[i]] : i \in DOMAIN m.m_buildQueue} \cap
           {t \in Targets : parsing[t]}

(* startBuildQueue(), with the build system that it finds busy, or None.   *)
startBuildQueue(m, busy) ==
    IF m.m_buildQueue = << >> THEN [m EXCEPT !.announced = @ + 1]
    ELSE IF busy # None THEN [m EXCEPT !.m_scheduledBuild = busy]
    ELSE IF ~m.m_running THEN nextStep([m EXCEPT !.m_progress = 0, !.m_running = TRUE,
                                                 !.m_allStepsSucceeded = TRUE])
    ELSE m

Enabled(steps) == [i \in DOMAIN steps |-> steps[i] \notin Disabled]

buildQueueAppend(m, steps) ==
    [m EXCEPT
        !.m_buildQueue = @ \o steps,
        !.m_enabledState = @ \o Enabled(steps),
        !.m_maxProgress = @ + Count(Enabled(steps), {TRUE}),
        !.m_activeBuildSteps = [p \in Projects |-> @[p] + Amount(steps, p)]]

(* Faulty: the connection remains in m_scheduledBuild.                     *)
CancelledButScheduled(m) ==
    IF m.m_scheduledBuild # None
    THEN clearBuildQueue(m)
    ELSE IF ~m.m_running \/ m.m_canceling THEN m
    ELSE [m EXCEPT !.m_canceling = TRUE]

(* cancel().                                                               *)
Cancelled(m) ==
    IF m.m_scheduledBuild # None
    THEN clearBuildQueue([m EXCEPT !.m_scheduledBuild = None])
    ELSE IF ~m.m_running \/ m.m_canceling THEN m
    ELSE IF m.m_currentBuildStep \in Threads THEN [m EXCEPT !.m_canceling = TRUE]
    ELSE LET stopped == [m EXCEPT !.m_canceling = TRUE,
                                  !.working = @ \ {m.m_currentBuildStep}]
         IN  IF m.m_currentBuildStep \in m.connected
             THEN finishedHandler(stopped, FALSE) ELSE stopped
-----------------------------------------------------------------------------
(* The events.                                                             *)
Abandoned(m) == IF m.m_scheduledBuild # None /\ m.m_currentBuildStep # None
                THEN {"abandoned"} ELSE {}

(* disconnect(m_scheduledBuild)                                            *)
Disconnected(m) == [t \in Targets |->
                      IF t = m.m_scheduledBuild THEN listeners[t] - 1 ELSE listeners[t]]

(* startBuildQueue() on m, when the connections are l.                     *)
Start(m, l, known) ==
    \E busy \in IF Busy(m) = {} THEN {None} ELSE Busy(m) :
        /\ d' = startBuildQueue(m, busy)
        /\ listeners' = [t \in Targets |-> IF t = busy THEN l[t] + 1 ELSE l[t]]
        /\ mishaps' = known \cup
              IF d'.m_scheduledBuild # None /\ (d'.m_running \/ d'.m_buildQueue = << >>)
              THEN {"overlapped"} ELSE {}

Together(q) ==
    \A i, j, k \in DOMAIN q :
       i < j /\ j < k /\ target[q[i]] = target[q[k]] => target[q[j]] = target[q[i]]

(* The user builds something, whose actions are enabled: its projects are  *)
(* not being built.  init() of a step may fail.                            *)
buildLists(request) ==
    LET asked == {ProjectOf(request.steps[i]) : i \in DOMAIN request.steps}
        m == [d EXCEPT !.m_isDeploying = @ \/ request.deploys]
    IN  /\ builds < MaxBuilds
        /\ \A p \in asked : p \notin removed /\ ~isBuildingProject(d, p)
        /\ builds' = builds + 1
        /\ \/ /\ \E i \in DOMAIN request.steps : request.steps[i] \notin Disabled
              /\ d' = [m EXCEPT !.m_isDeploying = FALSE]
              /\ UNCHANGED <<listeners, mishaps>>
           \/ Start(buildQueueAppend(
                      [m EXCEPT !.announced = IF isBuilding(d) THEN @ ELSE 0,
                                !.failed = {t \in @ : isBuilding(d) /\ project[t] \notin asked}],
                      request.steps), listeners,
                    mishaps \cup IF Together(request.steps) THEN {} ELSE {"scattered"})
        /\ UNCHANGED <<parsing, parsed, removed, abortBuildAllOnError, parses>>

(* The user presses Cancel Build.                                          *)
cancel ==
    /\ isBuilding(d)
    /\ d' = Cancelled(d)
    /\ listeners' = Disconnected(d)
    /\ mishaps' = mishaps \cup Abandoned(d)
    /\ UNCHANGED <<parsing, parsed, removed, abortBuildAllOnError, builds, parses>>

(* A step emits finished().                                                *)
StepFinished(s, success) ==
    LET m == [d EXCEPT !.working = @ \ {s}] IN
    /\ s \in d.working
    /\ IF s \notin d.connected
       THEN d' = m /\ UNCHANGED mishaps
       ELSE IF d.m_currentBuildStep = None
       THEN d' = m /\ mishaps' = mishaps \cup {"crashed"}
       ELSE d' = finishedHandler(m, success) /\ UNCHANGED mishaps
    /\ UNCHANGED <<parsing, listeners, parsed, removed, abortBuildAllOnError, builds, parses>>

(* A build system starts to parse.                                         *)
ParsingStarted(t) ==
    /\ parses < MaxParses /\ ~parsing[t] /\ project[t] \notin removed
    /\ parsing' = [parsing EXCEPT ![t] = TRUE]
    /\ parses' = parses + 1
    /\ UNCHANGED <<d, listeners, parsed, removed, abortBuildAllOnError, builds, mishaps>>

(* Faulty: does not say so when the parsing failed.                        *)
ParsingSucceeded(t, success) ==
    /\ parsing[t]
    /\ parsing' = [parsing EXCEPT ![t] = FALSE]
    /\ parsed' = IF success THEN parsed \o [i \in 1 .. listeners[t] |-> TRUE] ELSE parsed
    /\ UNCHANGED <<d, listeners, removed, abortBuildAllOnError, builds, parses, mishaps>>

(* It emits parsingFinished(), which is queued for every connection.       *)
ParsingFinished(t, success) ==
    /\ parsing[t]
    /\ parsing' = [parsing EXCEPT ![t] = FALSE]
    /\ parsed' = parsed \o [i \in 1 .. listeners[t] |-> success]
    /\ UNCHANGED <<d, listeners, removed, abortBuildAllOnError, builds, parses, mishaps>>

(* The function that startBuildQueue() has connected to it.                *)
ScheduledBuild ==
    LET m == [d EXCEPT !.m_scheduledBuild = None] IN
    /\ parsed # << >>
    /\ parsed' = Tail(parsed)
    /\ IF d.m_scheduledBuild = None
       THEN UNCHANGED <<d, listeners, mishaps>>
       ELSE IF Head(parsed)
       THEN Start(m, Disconnected(d), mishaps)
       ELSE /\ d' = clearBuildQueue(m)
            /\ listeners' = Disconnected(d)
            /\ mishaps' = mishaps \cup Abandoned(d)
    /\ UNCHANGED <<parsing, removed, abortBuildAllOnError, builds, parses>>

(* A project is closed: aboutToRemoveProject(), and then its targets, with *)
(* their build systems and steps, are deleted.  ~BuildStep() emits         *)
(* finished(false): at most one step of p is still connected.              *)
removeProject(p) ==
    LET m == IF isBuildingProject(d, p) THEN Cancelled(d) ELSE d
        dying == {s \in m.connected : ProjectOf(s) = p}
        lost == dying # {} /\ m.m_currentBuildStep = None
        n == [m EXCEPT !.working = {s \in @ : ProjectOf(s) # p}]
        e == IF dying = {} \/ lost THEN n ELSE finishedHandler(n, FALSE)
        dangling == \/ \E i \in DOMAIN e.m_buildQueue : ProjectOf(e.m_buildQueue[i]) = p
                    \/ e.m_currentBuildStep # None /\ ProjectOf(e.m_currentBuildStep) = p
        known == IF isBuildingProject(d, p) THEN Abandoned(d) ELSE {}
    IN  /\ p \notin removed
        /\ removed' = removed \cup {p}
        /\ d' = [e EXCEPT !.connected = {s \in @ : ProjectOf(s) # p},
                          !.m_scheduledBuild = IF @ # None /\ project[@] = p THEN None ELSE @]
        /\ parsing' = [t \in Targets |-> parsing[t] /\ project[t] # p]
        /\ listeners' = [t \in Targets |->
                           IF project[t] = p THEN 0
                           ELSE IF isBuildingProject(d, p) THEN Disconnected(d)[t]
                           ELSE listeners[t]]
        /\ mishaps' = mishaps \cup known
                        \cup (IF isBuildingProject(d, p) /\ m.m_canceling THEN {"lateCancel"} ELSE {})
                        \cup (IF lost \/ dangling THEN {"crashed"} ELSE {})
        /\ UNCHANGED <<parsed, abortBuildAllOnError, builds, parses>>

Next ==
    /\ "crashed" \notin mishaps
    /\ \/ \E r \in Requests : buildLists(r)
       \/ cancel
       \/ \E s \in Steps, b \in BOOLEAN : StepFinished(s, b)
       \/ \E t \in Targets : ParsingStarted(t)
       \/ \E t \in Targets, b \in BOOLEAN : ParsingFinished(t, b)
       \/ ScheduledBuild
       \/ \E p \in Projects : removeProject(p)

Spec == Init /\ [][Next]_vars

(* A step that works ends, a build system that parses too, and the event   *)
(* loop makes the calls that are queued.                                   *)
Fairness ==
    /\ WF_vars(\E s \in Steps, b \in BOOLEAN : "crashed" \notin mishaps /\ StepFinished(s, b))
    /\ WF_vars(\E t \in Targets, b \in BOOLEAN :
                 "crashed" \notin mishaps /\ ParsingFinished(t, b))
    /\ WF_vars("crashed" \notin mishaps /\ ScheduledBuild)

FairSpec == Spec /\ Fairness
-----------------------------------------------------------------------------
(* m_activeBuildSteps, which enables the build actions of a project and     *)
(* decides whether it can be deleted, counts its steps that are queued or   *)
(* current.                                                                 *)
CountersAgree(m) ==
    \A p \in Projects :
        m.m_activeBuildSteps[p] =
            Amount(m.m_buildQueue, p)
            + (IF m.m_currentBuildStep # None /\ ProjectOf(m.m_currentBuildStep) = p
               THEN 1 ELSE 0)

(* Only the current step works, and it does so exactly while the            *)
(* BuildManager says that it is running.                                    *)
OneStepAtATime(m) ==
    /\ m.working = {m.m_currentBuildStep} \ {None}
    /\ m.m_running <=> m.m_currentBuildStep # None
    /\ m.connected = m.working

(* m_enabledState says of every step in the queue whether it is enabled.    *)
FlagsBelongToSteps(m) == m.m_enabledState = Enabled(m.m_buildQueue)

(* What is done, the current step and the enabled steps in the queue make   *)
(* up m_maxProgress, also after other builds have been added.               *)
ProgressIsTrue(m) ==
    m.m_maxProgress = Count(m.m_enabledState, {TRUE})
                      + (IF m.m_running THEN m.m_progress + 1 ELSE 0)

(* A target whose step has failed is left out for the rest of the build:    *)
(* the steps that follow one that failed are not run without it.            *)
FailedTargetIsLeftOut(m) ==
    m.m_currentBuildStep # None => target[m.m_currentBuildStep] \notin m.failed

(* Queue, counters, flags and progress are kept in lists and numbers of     *)
(* their own, and changed wherever a build is added to, fails, is cancelled *)
(* or skips a step: while nothing has been abandoned they agree, and one    *)
(* step works at a time.  The flags, and with them the progress, do so only *)
(* if an error aborts the build, and a target is left out only if its steps *)
(* are together: when a step has failed those that follow directly leave    *)
(* the queue, and what comes behind the steps of another target is run.     *)
StaysInStep ==
    /\ TypeOK
    /\ "abandoned" \notin mishaps =>
        /\ CountersAgree(d) /\ OneStepAtATime(d)
        /\ "scattered" \notin mishaps => FailedTargetIsLeftOut(d)
        /\ abortBuildAllOnError => FlagsBelongToSteps(d) /\ ProgressIsTrue(d)

(* Whoever waits for buildQueueFinished(), to run the program for example, *)
(* is called once when the BuildManager has nothing left to do, and not    *)
(* before, if no steps ran while a build had to wait for a parser.         *)
AnnouncedOnce ==
    mishaps \subseteq {"scattered"} => d.announced = IF isBuilding(d) THEN 0 ELSE 1

(* A project that is removed leaves no step of it in the queue or at work, *)
(* unless a step in a thread has yet to find out that it is cancelled.     *)
RemovedIsGone ==
    mishaps \cap {"lateCancel", "abandoned"} = {} =>
        /\ "crashed" \notin mishaps
        /\ \A p \in removed : d.m_activeBuildSteps[p] = 0

(* What is being built is built, or is given up: the BuildManager comes to *)
(* rest, whatever fails, is cancelled or parsed meanwhile.                 *)
BuildEnds ==
    isBuilding(d) ~> (~isBuilding(d) \/ mishaps \cap {"abandoned", "crashed"} # {})
=============================================================================
