----------------------------- MODULE PluginProofs ------------------------------
(***************************************************************************)
(* Six properties of PluginManager, proved for any plugins, dependencies,  *)
(* orders of iteration and number of starts: all but one also if plugins   *)
(* send their signal early.                                                *)
(*                                                                         *)
(* The last three are about the load queue, which a recursive function of  *)
(* functions computes.  That there is such a function, and only one, and   *)
(* what its visits do, is proved by induction over the number of plugins   *)
(* that have not been checked: a set of numbers without a least one would  *)
(* be empty.  The set of all plugins is finite, so the recursion ends.     *)
(***************************************************************************)
EXTENDS PluginManager, TLAPS, SequenceTheorems, FiniteSetTheorems

(* While loading, the lock file names the plugin whose code runs; else it  *)
(* names who crashed, if anyone.                                           *)
LockIsTrue ==
    /\ phase \in Loading /\ inCode # None => lockFile = inCode
    /\ lockFile # None => \/ phase \in Loading /\ inCode = lockFile
                          \/ lockFile = culprit

(* A plugin that is connected has sent, or is waited for; the loop exists  *)
(* late only, and is left when nobody is waited for.                       *)
WaitIsTrue ==
    /\ connected \subseteq sent \cup asynchronousPlugins
    /\ shutdownEventLoop # "none" => phase \in {"wait", "Deleted", "ended"}
    /\ shutdownEventLoop = "exited" => asynchronousPlugins = {}
    /\ phase = "Deleted" => asynchronousPlugins = {}

(* At first the lock file names nobody.                                    *)
LEMMA LockStarts == Init => LockIsTrue
  BY DEF Init, LockIsTrue, Loading

(* No step makes the lock file name the wrong plugin.                      *)
LEMMA LockSteps == LockIsTrue /\ [Next]_vars => LockIsTrue'
<1> SUFFICES ASSUME LockIsTrue, [Next]_vars PROVE LockIsTrue'
  OBVIOUS
<1> USE DEF LockIsTrue, Loading
<1>1. CASE UNCHANGED vars
  BY <1>1 DEF vars
<1>2. CASE setPluginPaths
  BY <1>2 DEF setPluginPaths
<1>3. CASE parseNoOptions \/ continueWithPlugins \/ disableProblematicPlugin
  BY <1>3 DEF parseNoOptions, continueWithPlugins, disableProblematicPlugin, Prepares,
              startVars, passVars
<1>4. ASSUME NEW p \in Plugins, checkForLoadOption(p) \/ checkForNoLoadOption(p)
      PROVE  LockIsTrue'
  BY <1>4 DEF checkForLoadOption, checkForNoLoadOption, Prepares, startVars, passVars
<1>5. CASE loadPlugins
  BY <1>5 DEF loadPlugins, StartPass
<1>6. CASE initializePlugins \/ runPlugins \/ pluginsAreLoaded
  BY <1>6 DEF initializePlugins, runPlugins, pluginsAreLoaded, PassIsOver, passVars
<1>7. CASE nextDelayedInitialize
  BY <1>7 DEF nextDelayedInitialize, passVars
<1>8. CASE waitForAsynchronousPlugins \/ deleteAll \/ end
  BY <1>8 DEF waitForAsynchronousPlugins, deleteAll, end, PassIsOver, passVars, StartPass
<1>9. ASSUME NEW p \in Plugins,
             loadPluginPassesOver(p) \/ loadPluginRefuses(p) \/ deletePlugin(p)
      PROVE  LockIsTrue'
  BY <1>9 DEF loadPluginPassesOver, loadPluginRefuses, deletePlugin, AtPlugin, Unlocked
<1>10. ASSUME NEW p \in Plugins, loadPluginCalls(p)
       PROVE  LockIsTrue'
  BY <1>10 DEF loadPluginCalls, AtPlugin
<1>11. ASSUME NEW p \in Plugins, pluginSucceeds(p) \/ pluginFails(p) \/ initializeExtensions(p)
       PROVE  LockIsTrue'
  BY <1>11 DEF pluginSucceeds, pluginFails, initializeExtensions, Returns, Unlocked
<1>12. ASSUME NEW p \in Plugins, NEW asynchronous \in BOOLEAN, stopReturns(p, asynchronous)
       PROVE  LockIsTrue'
  BY <1>12 DEF stopReturns, Returns
<1>13. ASSUME NEW p \in Plugins, asynchronousShutdownFinished(p)
       PROVE  LockIsTrue'
  BY <1>13 DEF asynchronousShutdownFinished, passVars
<1>14. CASE shutdown
  BY <1>14 DEF shutdown, StartPass
<1>15. CASE crash
  BY <1>15 DEF crash
<1> QED
  BY <1>1, <1>2, <1>3, <1>4, <1>5, <1>6, <1>7, <1>8, <1>9, <1>10, <1>11, <1>12, <1>13,
     <1>14, <1>15 DEF Next, Manages, PluginCode

(* Qt Creator never asks about a plugin that did not crash it.             *)
THEOREM BlamedRightly == Spec => []CrashIsBlamedRightly
<1>1. LockIsTrue => CrashIsBlamedRightly
  BY DEF LockIsTrue, CrashIsBlamedRightly, Loading
<1> QED
  BY <1>1, LockStarts, LockSteps, PTL DEF Spec

(* At first nobody is waited for.                                          *)
LEMMA WaitStarts == Init => WaitIsTrue
  BY DEF Init, WaitIsTrue

(* No step forgets a plugin that is waited for.                            *)
LEMMA WaitSteps == WaitIsTrue /\ [Next]_vars => WaitIsTrue'
<1> SUFFICES ASSUME WaitIsTrue, [Next]_vars PROVE WaitIsTrue'
  OBVIOUS
<1> USE DEF WaitIsTrue, shutdownVars
<1>1. CASE UNCHANGED vars
  BY <1>1 DEF vars
<1>2. CASE setPluginPaths
  BY <1>2 DEF setPluginPaths
<1>3. CASE parseNoOptions \/ continueWithPlugins \/ disableProblematicPlugin
  BY <1>3 DEF parseNoOptions, continueWithPlugins, disableProblematicPlugin, Prepares
<1>4. ASSUME NEW p \in Plugins, checkForLoadOption(p) \/ checkForNoLoadOption(p)
      PROVE  WaitIsTrue'
  BY <1>4 DEF checkForLoadOption, checkForNoLoadOption, Prepares
<1>5. CASE loadPlugins \/ shutdown
  BY <1>5 DEF loadPlugins, shutdown, StartPass
<1>6. CASE initializePlugins \/ runPlugins \/ pluginsAreLoaded \/ nextDelayedInitialize
  BY <1>6 DEF initializePlugins, runPlugins, pluginsAreLoaded, nextDelayedInitialize,
              PassIsOver
<1>7. CASE waitForAsynchronousPlugins
  BY <1>7 DEF waitForAsynchronousPlugins
<1>8. CASE deleteAll
  BY <1>8 DEF deleteAll, StartPass, MustWait, PassIsOver
<1>9. CASE end
  BY <1>9 DEF end, PassIsOver
<1>10. ASSUME NEW p \in Plugins, \/ loadPluginPassesOver(p) \/ loadPluginRefuses(p)
                                 \/ loadPluginCalls(p) \/ deletePlugin(p)
       PROVE  WaitIsTrue'
  BY <1>10 DEF loadPluginPassesOver, loadPluginRefuses, loadPluginCalls, deletePlugin
<1>11. ASSUME NEW p \in Plugins, pluginSucceeds(p) \/ pluginFails(p) \/ initializeExtensions(p)
       PROVE  WaitIsTrue'
  BY <1>11 DEF pluginSucceeds, pluginFails, initializeExtensions
<1>12. ASSUME NEW p \in Plugins, NEW asynchronous \in BOOLEAN, stopReturns(p, asynchronous)
       PROVE  WaitIsTrue'
  BY <1>12 DEF stopReturns
<1>13. ASSUME NEW p \in Plugins, asynchronousShutdownFinished(p)
       PROVE  WaitIsTrue'
  BY <1>13 DEF asynchronousShutdownFinished, AllFinished
<1>14. CASE crash
  BY <1>14 DEF crash
<1> QED
  BY <1>1, <1>2, <1>3, <1>4, <1>5, <1>6, <1>7, <1>8, <1>9, <1>10, <1>11, <1>12, <1>13,
     <1>14 DEF Next, Manages, PluginCode

(* No plugin is deleted before all that asked for time have finished.      *)
THEOREM AllHaveFinished == Spec => []DeletedAfterAllFinished
<1>1. WaitIsTrue => DeletedAfterAllFinished
  BY DEF WaitIsTrue, DeletedAfterAllFinished
<1> QED
  BY <1>1, WaitStarts, WaitSteps, PTL DEF Spec

(* Unless plugins send early: none has sent before the loop runs, and it   *)
(* runs only while there is someone to wait for.                           *)
LoopIsTrue ==
    /\ asynchronousPlugins \subseteq connected
    /\ asynchronousPlugins \cap sent = {}
    /\ phase \notin {"wait", "Deleted", "ended"} => sent = {}
    /\ phase = "wait" /\ shutdownEventLoop = "runs" => asynchronousPlugins # {}

(* At first there is no loop.                                              *)
LEMMA LoopStarts == Init => LoopIsTrue
  BY DEF Init, LoopIsTrue

(* No step waits for nobody.                                               *)
LEMMA LoopSteps == ~SendsEarly /\ LoopIsTrue /\ [Next]_vars => LoopIsTrue'
<1> SUFFICES ASSUME ~SendsEarly, LoopIsTrue, [Next]_vars PROVE LoopIsTrue'
  OBVIOUS
<1> USE DEF LoopIsTrue, shutdownVars
<1>1. CASE UNCHANGED vars
  BY <1>1 DEF vars
<1>2. CASE setPluginPaths
  BY <1>2 DEF setPluginPaths
<1>3. CASE parseNoOptions \/ continueWithPlugins \/ disableProblematicPlugin
  BY <1>3 DEF parseNoOptions, continueWithPlugins, disableProblematicPlugin, Prepares
<1>4. ASSUME NEW p \in Plugins, checkForLoadOption(p) \/ checkForNoLoadOption(p)
      PROVE  LoopIsTrue'
  BY <1>4 DEF checkForLoadOption, checkForNoLoadOption, Prepares
<1>5. CASE loadPlugins \/ shutdown
  BY <1>5 DEF loadPlugins, shutdown, StartPass
<1>6. CASE initializePlugins \/ runPlugins \/ pluginsAreLoaded \/ nextDelayedInitialize
  BY <1>6 DEF initializePlugins, runPlugins, pluginsAreLoaded, nextDelayedInitialize,
              PassIsOver
<1>7. CASE waitForAsynchronousPlugins
  BY <1>7 DEF waitForAsynchronousPlugins, MustWait, PassIsOver
<1>8. CASE deleteAll \/ end
  BY <1>8 DEF deleteAll, end, StartPass, PassIsOver
<1>9. ASSUME NEW p \in Plugins, \/ loadPluginPassesOver(p) \/ loadPluginRefuses(p)
                                \/ loadPluginCalls(p) \/ deletePlugin(p)
      PROVE  LoopIsTrue'
  BY <1>9 DEF loadPluginPassesOver, loadPluginRefuses, loadPluginCalls, deletePlugin
<1>10. ASSUME NEW p \in Plugins, pluginSucceeds(p) \/ pluginFails(p) \/ initializeExtensions(p)
       PROVE  LoopIsTrue'
  BY <1>10 DEF pluginSucceeds, pluginFails, initializeExtensions
<1>11. ASSUME NEW p \in Plugins, NEW asynchronous \in BOOLEAN, stopReturns(p, asynchronous)
       PROVE  LoopIsTrue'
  BY <1>11 DEF stopReturns
<1>12. ASSUME NEW p \in Plugins, asynchronousShutdownFinished(p)
       PROVE  LoopIsTrue'
  BY <1>12 DEF asynchronousShutdownFinished, AllFinished
<1>13. CASE crash
  BY <1>13 DEF crash
<1> QED
  BY <1>1, <1>2, <1>3, <1>4, <1>5, <1>6, <1>7, <1>8, <1>9, <1>10, <1>11, <1>12, <1>13
     DEF Next, Manages, PluginCode

(* If no plugin sends before it is listened to, the shutdown never waits   *)
(* for a signal that nobody will send.                                     *)
THEOREM WaitHasAnEnd == ASSUME ~SendsEarly PROVE Spec => []WaitsForPluginsOnly
<1>1. LoopIsTrue => WaitsForPluginsOnly
  BY DEF LoopIsTrue, WaitsForPluginsOnly
<1>2. LoopIsTrue /\ [Next]_vars => LoopIsTrue'
  BY LoopSteps
<1> QED
  BY <1>1, <1>2, LoopStarts, PTL DEF Spec

------------------------------------------------------------------------------

(* A set of numbers has a least one: the order of numbers is well-founded. *)
LEMMA LeastNumber ==
    ASSUME NEW T, T \subseteq Nat, T # {}
    PROVE  \E m \in T : \A k \in T : m <= k
<1> DEFINE L == {ss \in Nat \X Nat : ss[1] < ss[2]}
<1>1. IsWellFoundedOn(L, Nat)
  <2>1. OpToRel(<, Nat) = {ss \in Nat \X Nat : ss[1] < ss[2]}
    BY Zenon DEF OpToRel
  <2> QED
    BY <2>1, NatLessThanWellFounded, Zenon
<1>2. \E m \in T : \A k \in T : <<k, m>> \notin L
  <2> HIDE DEF L
  <2> QED
    BY <1>1, WFMin, Zenon
<1>3. PICK m \in T : \A k \in T : <<k, m>> \notin L
  BY <1>2
<1>4. ASSUME NEW k \in T PROVE m <= k
  <2>1. k \in Nat /\ m \in Nat
    OBVIOUS
  <2>2. <<k, m>> \notin L
    BY <1>3
  <2>3. ~(k < m)
    BY <2>1, <2>2
  <2> QED
    BY <2>1, <2>3
<1> QED
  BY <1>4

(* Induction, as far as n.                                                 *)
LEMMA InductionUpTo ==
    ASSUME NEW n \in Nat, NEW S, 0 \in S,
           \A i \in 1 .. n : i - 1 \in S => i \in S
    PROVE  \A i \in 0 .. n : i \in S
<1> DEFINE T == {i \in 0 .. n : i \notin S}
<1> SUFFICES ASSUME T # {} PROVE FALSE
  OBVIOUS
<1>1. PICK m \in T : \A k \in T : m <= k
  <2>1. T \subseteq Nat
    OBVIOUS
  <2> HIDE DEF T
  <2> QED
    BY <2>1, LeastNumber
<1>2. m \in 1 .. n
  OBVIOUS
<1>3. m - 1 \in 0 .. n /\ m - 1 \notin T
  BY <1>1, <1>2
<1> QED
  BY <1>2, <1>3

(* g starts with b, and takes the i-th step to get to g[i].                *)
Recurs(g, b, n, step) == g[0] = b /\ \A i \in 1 .. n : g[i] = step[i][g[i - 1]]

(* A function may be defined by recursion.                                 *)
LEMMA Recursion ==
    ASSUME NEW S, NEW b \in S, NEW n \in Nat, NEW step \in [1 .. n -> [S -> S]]
    PROVE  \E g \in [0 .. n -> S] : Recurs(g, b, n, step)
<1> DEFINE Upto(k, g) == Recurs(g, b, k, step)
           D == {k \in 0 .. n : \E g \in [0 .. k -> S] : Upto(k, g)}
<1>1. 0 \in D
  <2> DEFINE g == [i \in 0 .. 0 |-> b]
  <2>1. g \in [0 .. 0 -> S] /\ g[0] = b /\ 1 .. 0 = {}
    OBVIOUS
  <2> HIDE DEF g
  <2>2. Upto(0, g)
    BY <2>1 DEF Recurs
  <2> QED
    BY <2>1, <2>2
<1>2. ASSUME NEW k \in 1 .. n, k - 1 \in D PROVE k \in D
  <2>1. PICK g \in [0 .. k - 1 -> S] : Upto(k - 1, g)
    BY <1>2
  <2> DEFINE h == [i \in 0 .. k |-> IF i = k THEN step[k][g[k - 1]] ELSE g[i]]
  <2>2. k - 1 \in 0 .. k - 1 /\ g[k - 1] \in S
    OBVIOUS
  <2>3. step[k][g[k - 1]] \in S
    BY <2>2
  <2>4. h \in [0 .. k -> S]
    <3>1. ASSUME NEW i \in 0 .. k PROVE h[i] \in S
      <4>1. CASE i = k
        BY <2>3, <4>1
      <4>2. CASE i # k
        <5>1. i \in 0 .. k - 1
          BY <4>2
        <5> QED
          BY <4>2, <5>1
      <4> QED
        BY <4>1, <4>2
    <3> QED
      BY <3>1
  <2>5. \A i \in 0 .. k - 1 : h[i] = g[i]
    OBVIOUS
  <2>6. h[k] = step[k][g[k - 1]]
    OBVIOUS
  <2> HIDE DEF h
  <2>7. Upto(k, h)
    BY <2>1, <2>5, <2>6 DEF Recurs
  <2>8. k \in 0 .. n
    OBVIOUS
  <2> QED
    BY <2>4, <2>7, <2>8
<1>3. n \in D
  <2> HIDE DEF D
  <2>1. \A i \in 1 .. n : i - 1 \in D => i \in D
    BY <1>2
  <2>2. \A i \in 0 .. n : i \in D
    BY <1>1, <2>1, InductionUpTo, Zenon
  <2> QED
    BY <2>2
<1> QED
  BY <1>3

(* The parts of a visit.                                                   *)
LEMMA Parts ==
    ASSUME NEW s \in Visit
    PROVE  /\ s.queue \in Seq(Plugins) /\ s.checked \in SUBSET Plugins
           /\ s.errors \in SUBSET Plugins /\ s.found \in BOOLEAN
  BY DEF Visit

(* The ways a visit is changed.                                            *)
Start(s, c, f) == [s EXCEPT !.checked = c, !.found = f]
Answer(s, f) == [s EXCEPT !.found = f]
Recheck(s, c) == [s EXCEPT !.checked = c]
Circle(s, e) == [s EXCEPT !.found = FALSE, !.errors = e]
Fail(s, e) == [s EXCEPT !.errors = e]
Unread(s, q, c) == [s EXCEPT !.queue = q, !.checked = c, !.found = FALSE]
Add(s, q) == [s EXCEPT !.queue = q]

(* What is visited next starts with p checked and nothing missing.         *)
LEMMA StartFields ==
    ASSUME NEW s \in Visit, NEW c \in SUBSET Plugins, NEW f \in BOOLEAN
    PROVE  /\ Start(s, c, f) \in Visit
           /\ Start(s, c, f).queue = s.queue /\ Start(s, c, f).checked = c
           /\ Start(s, c, f).errors = s.errors /\ Start(s, c, f).found = f
  BY DEF Visit, Start

(* A plugin that is in the queue is found.                                 *)
LEMMA AnswerFields ==
    ASSUME NEW s \in Visit, NEW f \in BOOLEAN
    PROVE  /\ Answer(s, f) \in Visit
           /\ Answer(s, f).queue = s.queue /\ Answer(s, f).checked = s.checked
           /\ Answer(s, f).errors = s.errors /\ Answer(s, f).found = f
  BY DEF Visit, Answer

(* Every plugin of pluginSpecs starts with nothing checked.                *)
LEMMA RecheckFields ==
    ASSUME NEW s \in Visit, NEW c \in SUBSET Plugins
    PROVE  /\ Recheck(s, c) \in Visit
           /\ Recheck(s, c).queue = s.queue /\ Recheck(s, c).checked = c
           /\ Recheck(s, c).errors = s.errors /\ Recheck(s, c).found = s.found
  BY DEF Visit, Recheck

(* A circle is an error.                                                   *)
LEMMA CircleFields ==
    ASSUME NEW s \in Visit, NEW e \in SUBSET Plugins
    PROVE  /\ Circle(s, e) \in Visit
           /\ Circle(s, e).queue = s.queue /\ Circle(s, e).checked = s.checked
           /\ Circle(s, e).errors = e /\ Circle(s, e).found = FALSE
  BY DEF Visit, Circle

(* A dependency that is not found is an error.                             *)
LEMMA FailFields ==
    ASSUME NEW s \in Visit, NEW e \in SUBSET Plugins
    PROVE  /\ Fail(s, e) \in Visit
           /\ Fail(s, e).queue = s.queue /\ Fail(s, e).checked = s.checked
           /\ Fail(s, e).errors = e /\ Fail(s, e).found = s.found
  BY DEF Visit, Fail

(* The parts that a visit has.                                             *)
HasParts(t, q, c, e, f) ==
    t \in Visit /\ t.queue = q /\ t.checked = c /\ t.errors = e /\ t.found = f

(* A plugin that was not resolved is queued, and not found.                *)
LEMMA UnreadFields ==
    ASSUME NEW s \in Visit, NEW q \in Seq(Plugins), NEW c \in SUBSET Plugins
    PROVE  HasParts(Unread(s, q, c), q, c, s.errors, FALSE)
  BY DEF Visit, Unread, HasParts

(* A plugin with all its dependencies is queued.                           *)
LEMMA AddFields ==
    ASSUME NEW s \in Visit, NEW q \in Seq(Plugins)
    PROVE  /\ Add(s, q) \in Visit
           /\ Add(s, q).queue = q /\ Add(s, q).checked = s.checked
           /\ Add(s, q).errors = s.errors /\ Add(s, q).found = s.found
  BY DEF Visit, Add

(* The visits of the dependencies of p: v[i] is what the first i make of s.*)
AreVisits(v, visit, depends, order, p, s) ==
    /\ v \in [0 .. Len(order) -> Visit]
    /\ v[0] = Start(s, s.checked \cup {p}, TRUE)
    /\ \A i \in 1 .. Len(order) :
          v[i] = IF v[i - 1].found /\ depends[p][order[i]] # "No"
                 THEN visit[<<order[i], v[i - 1]>>] ELSE v[i - 1]

(* A call of visit gives a visit.                                          *)
IsCall(visit) == \A q \in Plugins, t \in Visit : visit[<<q, t>>] \in Visit

(* The visits of the dependencies are what they are said to be.            *)
LEMMA DependenciesAreVisits ==
    ASSUME NEW visit, IsCall(visit), NEW depends,
           NEW order \in Seq(Plugins), NEW p \in Plugins, NEW s \in Visit
    PROVE  AreVisits(VisitDependencies(visit, depends, order, p, s),
                     visit, depends, order, p, s)
<1> DEFINE v == VisitDependencies(visit, depends, order, p, s)
<1> DEFINE n == Len(order)
           b == Start(s, s.checked \cup {p}, TRUE)
           After(i, t) == IF t.found /\ depends[p][order[i]] # "No"
                          THEN visit[<<order[i], t>>] ELSE t
           step == [i \in 1 .. n |-> [t \in Visit |-> After(i, t)]]
<1>1. n \in Nat /\ b \in Visit
  <2>1. s.checked \cup {p} \in SUBSET Plugins
    BY Parts
  <2>2. TRUE \in BOOLEAN
    OBVIOUS
  <2>3. b \in Visit
    BY <2>1, <2>2, StartFields, Zenon
  <2> QED
    BY <2>3, n \in Nat
<1>2. ASSUME NEW i \in 1 .. n, NEW t \in Visit PROVE After(i, t) \in Visit
  <2>1. order[i] \in Plugins
    OBVIOUS
  <2>2. visit[<<order[i], t>>] \in Visit
    BY <2>1 DEF IsCall
  <2> QED
    BY <2>2
<1>3. step \in [1 .. n -> [Visit -> Visit]]
  <2> HIDE DEF After, n
  <2> QED
    BY <1>2
<1>4. PICK g \in [0 .. n -> Visit] : Recurs(g, b, n, step)
  <2> HIDE DEF step, b, n
  <2> HIDE DEF After
  <2>1. n \in Nat
    BY <1>1
  <2>2. b \in Visit
    BY <1>1
  <2> QED
    BY <2>1, <2>2, <1>3, Recursion, Zenon
<1>5. \A i \in 1 .. n : g[i] = After(i, g[i - 1])
  <2> HIDE DEF After, n, b
  <2>1. \A i \in 1 .. n : g[i - 1] \in Visit
    BY <1>1
  <2> QED
    BY <1>4, <2>1 DEF Recurs
<1>6. g = [i \in 0 .. n |-> IF i = 0 THEN b ELSE After(i, g[i - 1])]
  <2> HIDE DEF After, b, n
  <2> QED
    BY <1>1, <1>4, <1>5 DEF Recurs
<1>7. v = [i \in 0 .. n |-> IF i = 0 THEN b ELSE After(i, v[i - 1])]
  BY <1>6, Zenon DEF VisitDependencies, Start
<1> HIDE DEF v
<1>8. v \in [0 .. n -> Visit] /\ v[0] = b /\ \A i \in 1 .. n : v[i] = After(i, v[i - 1])
  <2> HIDE DEF After, b, n
  <2>1. v[0] = b /\ \A i \in 1 .. n : v[i] = After(i, v[i - 1])
    BY <1>1, <1>7
  <2>2. DOMAIN v = 0 .. n /\ v = [i \in 0 .. n |-> v[i]]
    BY <1>7
  <2>3. \A i \in 0 .. n : v[i] \in Visit
    <3> DEFINE T == {i \in 0 .. n : v[i] \in Visit}
    <3>1. 0 \in T
      BY <1>1, <2>1
    <3>2. \A i \in 1 .. n : i - 1 \in T => i \in T
      BY <1>1, <1>2, <2>1
    <3> QED
      <4> HIDE DEF T
      <4>1. \A i \in 0 .. n : i \in T
        BY <1>1, <3>1, <3>2, InductionUpTo
      <4> QED
        BY <4>1 DEF T
  <2> QED
    BY <2>1, <2>2, <2>3
<1> QED
  BY <1>8, Zenon DEF AreVisits, v, n, b, After

(* A visit only adds to what has been checked.                             *)
IsVisit(visit) ==
    \A q \in Plugins, t \in Visit :
       visit[<<q, t>>] \in Visit /\ t.checked \subseteq visit[<<q, t>>].checked

(* What the visits of dependencies begin with, and their types.            *)
Begin(v, order, p, s) ==
    /\ v[0] \in Visit /\ v[0].queue = s.queue /\ v[0].checked = s.checked \cup {p}
    /\ v[0].errors = s.errors /\ v[0].found = TRUE
    /\ DOMAIN v = 0 .. Len(order) /\ Len(order) \in Nat
    /\ \A i \in 0 .. Len(order) : v[i] \in Visit
    /\ \A i \in 1 .. Len(order) : order[i] \in Plugins /\ i - 1 \in 0 .. Len(order)

(* So they begin.                                                          *)
LEMMA Begun ==
    ASSUME NEW visit, NEW depends, NEW order \in Seq(Plugins),
           NEW p \in Plugins, NEW s \in Visit, NEW v, AreVisits(v, visit, depends, order, p, s)
    PROVE  Begin(v, order, p, s)
<1>1. s.checked \cup {p} \in SUBSET Plugins
  BY Parts
<1>2. /\ v[0] = Start(s, s.checked \cup {p}, TRUE)
      /\ v \in [0 .. Len(order) -> Visit]
  BY DEF AreVisits
<1> DEFINE b == Start(s, s.checked \cup {p}, TRUE)
<1>3. /\ b \in Visit /\ b.queue = s.queue /\ b.checked = s.checked \cup {p}
      /\ b.errors = s.errors /\ b.found = TRUE
  <2>1. TRUE \in BOOLEAN
    OBVIOUS
  <2> QED
    BY <1>1, <2>1, StartFields, Zenon
<1> HIDE DEF b
<1>4. /\ v[0] \in Visit /\ v[0].queue = s.queue /\ v[0].checked = s.checked \cup {p}
      /\ v[0].errors = s.errors /\ v[0].found = TRUE
  BY <1>2, <1>3 DEF b
<1> QED
  BY <1>2, <1>4 DEF Begin

(* Each visits a dependency, unless one was not found.                     *)
LEMMA VisitedNext ==
    ASSUME NEW visit, NEW depends, NEW order, NEW p, NEW s, NEW v,
           AreVisits(v, visit, depends, order, p, s), NEW i \in 1 .. Len(order)
    PROVE  \/ /\ v[i - 1].found /\ depends[p][order[i]] # "No"
              /\ v[i] = visit[<<order[i], v[i - 1]>>]
           \/ ~(v[i - 1].found /\ depends[p][order[i]] # "No") /\ v[i] = v[i - 1]
  BY DEF AreVisits

(* While the dependencies of p are visited, p is checked.                  *)
LEMMA VisitedGrows ==
    ASSUME NEW visit, IsVisit(visit), NEW depends,
           NEW order \in Seq(Plugins), NEW p \in Plugins, NEW s \in Visit,
           NEW v, AreVisits(v, visit, depends, order, p, s)
    PROVE  \A i \in 0 .. Len(order) : v[i] \in Visit /\ s.checked \cup {p} \subseteq v[i].checked
<1> DEFINE D == {i \in 0 .. Len(order) : s.checked \cup {p} \subseteq v[i].checked}
<1>1. /\ v[0].checked = s.checked \cup {p} /\ Len(order) \in Nat
      /\ \A i \in 0 .. Len(order) : v[i] \in Visit
      /\ \A i \in 1 .. Len(order) : order[i] \in Plugins /\ i - 1 \in 0 .. Len(order)
  <2>1. Begin(v, order, p, s)
    BY Begun, Zenon
  <2> QED
    BY <2>1 DEF Begin
<1>2. ASSUME NEW i \in 1 .. Len(order), i - 1 \in D PROVE i \in D
  <2>1. i \in 0 .. Len(order)
    BY <1>1
  <2>2. v[i - 1].checked \subseteq visit[<<order[i], v[i - 1]>>].checked
    BY <1>1, Zenon DEF IsVisit
  <2>3. v[i] = visit[<<order[i], v[i - 1]>>] \/ v[i] = v[i - 1]
    BY VisitedNext
  <2> QED
    BY <1>2, <2>1, <2>2, <2>3
<1>3. 0 \in D
  BY <1>1
<1> QED
  <2> HIDE DEF D
  <2>1. \A i \in 1 .. Len(order) : i - 1 \in D => i \in D
    BY <1>2
  <2>2. \A i \in 0 .. Len(order) : i \in D
    BY <1>1, <1>3, <2>1, InductionUpTo, Zenon
  <2> QED
    BY <1>1, <2>2 DEF D

(* What the visit of p makes of s, by how s, or what is last made of its   *)
(* dependencies, is changed.                                               *)
OneOf(t, last, unread, p, s) ==
    \/ Contains(s.queue, p) /\ t = Answer(s, TRUE)
    \/ ~Contains(s.queue, p) /\ p \in s.checked /\ t = Circle(s, s.errors \cup {p})
    \/ /\ ~Contains(s.queue, p) /\ p \notin s.checked /\ p \in unread
       /\ t = Unread(s, Append(s.queue, p), s.checked \cup {p})
    \/ /\ ~Contains(s.queue, p) /\ p \notin s.checked /\ p \notin unread
       /\ \/ last.found /\ t = Add(last, Append(last.queue, p))
          \/ ~last.found /\ t = Fail(last, last.errors \cup {p})

(* That is what VisitOnce does.                                            *)
LEMMA OnceIs ==
    ASSUME NEW visit, NEW depends, NEW order, NEW unread, NEW p, NEW s
    PROVE  OneOf(VisitOnce(visit, depends, order, unread, p, s),
                 VisitDependencies(visit, depends, order, p, s)[Len(order)], unread, p, s)
  BY Zenon DEF OneOf, VisitOnce, Answer, Circle, Unread, Add, Fail

(* A visit that has what s has checked.                                    *)
Grown(s, t) == t \in Visit /\ s.checked \subseteq t.checked

(* A visit that is made of visits only adds to what has been checked.      *)
LEMMA OnceGrows ==
    ASSUME NEW visit, IsVisit(visit), NEW depends, NEW unread,
           NEW order \in Seq(Plugins), NEW p \in Plugins, NEW s \in Visit
    PROVE  /\ VisitOnce(visit, depends, order, unread, p, s) \in Visit
           /\ s.checked \subseteq VisitOnce(visit, depends, order, unread, p, s).checked
<1> DEFINE last == VisitDependencies(visit, depends, order, p, s)[Len(order)]
<1>1. last \in Visit /\ s.checked \cup {p} \subseteq last.checked
  <2>1. Len(order) \in 0 .. Len(order)
    OBVIOUS
  <2>2. AreVisits(VisitDependencies(visit, depends, order, p, s), visit, depends, order, p, s)
    BY DependenciesAreVisits, Zenon DEF IsVisit, IsCall
  <2> QED
    BY <2>1, <2>2, VisitedGrows, Zenon
<1> HIDE DEF last
<1>2. /\ s.checked \cup {p} \in SUBSET Plugins /\ s.errors \cup {p} \in SUBSET Plugins
      /\ last.errors \cup {p} \in SUBSET Plugins
      /\ Append(s.queue, p) \in Seq(Plugins) /\ Append(last.queue, p) \in Seq(Plugins)
  BY <1>1, Parts
<1>3. Grown(s, Answer(s, TRUE))
  BY AnswerFields DEF Grown
<1>4. Grown(s, Circle(s, s.errors \cup {p}))
  BY <1>2, CircleFields DEF Grown
<1>5. Grown(s, Unread(s, Append(s.queue, p), s.checked \cup {p}))
  <2> DEFINE q == Append(s.queue, p)
             c == s.checked \cup {p}
             t == Unread(s, q, c)
  <2>1. q \in Seq(Plugins) /\ c \in SUBSET Plugins /\ s.checked \subseteq c
    BY <1>2
  <2> HIDE DEF q, c
  <2>2. HasParts(t, q, c, s.errors, FALSE)
    BY <2>1, UnreadFields, Zenon
  <2> HIDE DEF t
  <2>3. Grown(s, t)
    BY <2>1, <2>2 DEF Grown, HasParts
  <2> QED
    BY <2>3 DEF t, q, c
<1>6. Grown(s, Add(last, Append(last.queue, p)))
  <2> DEFINE q == Append(last.queue, p)
             t == Add(last, q)
  <2>1. q \in Seq(Plugins)
    BY <1>2
  <2> HIDE DEF q
  <2>2. t \in Visit /\ t.checked = last.checked
    BY <1>1, <2>1, AddFields, Zenon
  <2> HIDE DEF t
  <2>3. Grown(s, t)
    BY <1>1, <2>2 DEF Grown
  <2> QED
    BY <2>3 DEF t, q
<1>7. Grown(s, Fail(last, last.errors \cup {p}))
  <2> DEFINE e == last.errors \cup {p}
             t == Fail(last, e)
  <2>1. e \in SUBSET Plugins
    BY <1>2
  <2> HIDE DEF e
  <2>2. t \in Visit /\ t.checked = last.checked
    BY <1>1, <2>1, FailFields, Zenon
  <2> HIDE DEF t
  <2>3. Grown(s, t)
    BY <1>1, <2>2 DEF Grown
  <2> QED
    BY <2>3 DEF t, e
<1>8. OneOf(VisitOnce(visit, depends, order, unread, p, s), last, unread, p, s)
  BY OnceIs, Zenon DEF last
<1>9. Grown(s, VisitOnce(visit, depends, order, unread, p, s))
  BY <1>3, <1>4, <1>5, <1>6, <1>7, <1>8, Zenon DEF OneOf
<1> QED
  BY <1>9, Zenon DEF Grown

(* How many plugins have not been checked.                                 *)
Left(s) == Cardinality(Plugins \ s.checked)

(* A visit that checks p has fewer left.                                   *)
LEMMA FewerLeft ==
    ASSUME NEW s \in Visit, NEW t \in Visit, NEW p \in Plugins, p \notin s.checked,
           s.checked \cup {p} \subseteq t.checked
    PROVE  Left(t) < Left(s)
<1> DEFINE S == Plugins \ s.checked
           T == Plugins \ t.checked
<1>1. IsFiniteSet(Plugins) /\ S \subseteq Plugins
  BY ConstantsAssumption
<1>2. IsFiniteSet(S)
  BY <1>1, FS_Subset
<1>3. T \subseteq S /\ T # S
  OBVIOUS
<1> HIDE DEF S, T
<1>4. Cardinality(T) <= Cardinality(S) /\ (Cardinality(T) = Cardinality(S) => T = S)
  BY <1>2, <1>3, FS_Subset
<1>5. IsFiniteSet(T)
  BY <1>2, <1>3, FS_Subset
<1>6. Cardinality(T) \in Nat /\ Cardinality(S) \in Nat
  BY <1>2, <1>5, FS_CardinalityType
<1> QED
  BY <1>3, <1>4, <1>6 DEF Left, S, T

(* There is a number of plugins that are left.                             *)
LEMMA LeftIsNumber ==
    ASSUME NEW s \in Visit
    PROVE  /\ Left(s) \in Nat /\ Cardinality(Plugins) \in Nat
           /\ Left(s) <= Cardinality(Plugins)
<1> DEFINE S == Plugins \ s.checked
<1>1. IsFiniteSet(Plugins) /\ S \subseteq Plugins
  BY ConstantsAssumption
<1> HIDE DEF S
<1>2. IsFiniteSet(S) /\ Cardinality(S) <= Cardinality(Plugins)
  BY <1>1, FS_Subset
<1> QED
  BY <1>1, <1>2, FS_CardinalityType DEF Left, S

(* Two functions agree where p is checked.                                 *)
Agree(visit, other, p, s) ==
    \A q \in Plugins, t \in Visit :
       s.checked \cup {p} \subseteq t.checked => visit[<<q, t>>] = other[<<q, t>>]

(* They make the same of the dependencies of p.                            *)
SameDependencies(visit, other, depends, order, p, s) ==
    VisitDependencies(visit, depends, order, p, s) = VisitDependencies(other, depends, order, p, s)

(* Visits that agree there make the same of its dependencies.              *)
LEMMA SameVisited ==
    ASSUME NEW visit, IsVisit(visit), NEW other, NEW depends,
           NEW order \in Seq(Plugins), NEW p \in Plugins, NEW s \in Visit,
           Agree(visit, other, p, s)
    PROVE  SameDependencies(visit, other, depends, order, p, s)
<1> DEFINE v == VisitDependencies(visit, depends, order, p, s)
           w == VisitDependencies(other, depends, order, p, s)
           b == Start(s, s.checked \cup {p}, TRUE)
           After(i, t) == IF t.found /\ depends[p][order[i]] # "No"
                          THEN other[<<order[i], t>>] ELSE t
           D == {i \in 0 .. Len(order) : v[i] = w[i]}
<1>1. AreVisits(v, visit, depends, order, p, s)
  BY DependenciesAreVisits, Zenon DEF IsVisit, IsCall
<1> HIDE DEF v
<1>2. \A i \in 0 .. Len(order) : v[i] \in Visit /\ s.checked \cup {p} \subseteq v[i].checked
  BY <1>1, VisitedGrows, Zenon
<1>3. /\ Len(order) \in Nat /\ DOMAIN v = 0 .. Len(order)
      /\ \A i \in 1 .. Len(order) : order[i] \in Plugins /\ i - 1 \in 0 .. Len(order)
  <2>1. Begin(v, order, p, s)
    BY <1>1, Begun, Zenon
  <2> QED
    BY <2>1 DEF Begin
<1>4. \A i \in 1 .. Len(order) : v[i] = After(i, v[i - 1])
  <2> SUFFICES ASSUME NEW i \in 1 .. Len(order) PROVE v[i] = After(i, v[i - 1])
    OBVIOUS
  <2>1. visit[<<order[i], v[i - 1]>>] = other[<<order[i], v[i - 1]>>]
    BY <1>2, <1>3 DEF Agree
  <2> QED
    BY <1>1, <2>1, VisitedNext
<1>5. v = [i \in 0 .. Len(order) |-> IF i = 0 THEN b ELSE After(i, v[i - 1])]
  <2>1. v \in [0 .. Len(order) -> Visit] /\ v[0] = b
    BY <1>1 DEF AreVisits
  <2> HIDE DEF b, After
  <2> QED
    BY <1>3, <1>4, <2>1
<1>6. w = [i \in 0 .. Len(order) |-> IF i = 0 THEN b ELSE After(i, w[i - 1])]
  BY <1>5, Zenon DEF VisitDependencies, Start
<1> HIDE DEF w, b
<1>7. 0 \in D
  <2> HIDE DEF After
  <2> QED
    BY <1>3, <1>5, <1>6
<1>8. ASSUME NEW i \in 1 .. Len(order), i - 1 \in D PROVE i \in D
  <2>1. v[i - 1] = w[i - 1]
    BY <1>8
  <2> HIDE DEF After
  <2>2. w[i] = After(i, w[i - 1])
    BY <1>3, <1>6
  <2>3. v[i] = w[i]
    BY <1>4, <2>1, <2>2
  <2> QED
    BY <1>3, <2>3
<1>9. \A i \in 0 .. Len(order) : v[i] = w[i]
  <2>1. \A i \in 1 .. Len(order) : i - 1 \in D => i \in D
    BY <1>8
  <2> HIDE DEF D
  <2>2. \A i \in 0 .. Len(order) : i \in D
    BY <1>3, <1>7, <2>1, InductionUpTo, Zenon
  <2> QED
    BY <2>2 DEF D
<1>10. v = w
  <2>1. v = [i \in 0 .. Len(order) |-> v[i]] /\ w = [i \in 0 .. Len(order) |-> w[i]]
    <3> HIDE DEF After
    <3> QED
      BY <1>5, <1>6
  <2> QED
    BY <1>9, <2>1
<1> QED
  BY <1>10 DEF v, w, SameDependencies

(* They make the same of p.                                                *)
SameVisit(visit, other, depends, order, unread, p, s) ==
    VisitOnce(visit, depends, order, unread, p, s) = VisitOnce(other, depends, order, unread, p, s)

(* Nor does what a visit makes of s then depend on which of them is used.  *)
LEMMA SameOnce ==
    ASSUME NEW visit, IsVisit(visit), NEW other, NEW depends, NEW unread,
           NEW order \in Seq(Plugins), NEW p \in Plugins, NEW s \in Visit,
           p \in s.checked \/ Agree(visit, other, p, s)
    PROVE  SameVisit(visit, other, depends, order, unread, p, s)
<1> DEFINE a == VisitOnce(visit, depends, order, unread, p, s)
           b == VisitOnce(other, depends, order, unread, p, s)
           v == VisitDependencies(visit, depends, order, p, s)[Len(order)]
           w == VisitDependencies(other, depends, order, p, s)[Len(order)]
<1>1. OneOf(a, v, unread, p, s) /\ OneOf(b, w, unread, p, s)
  BY OnceIs, Zenon
<1>2. CASE p \in s.checked
  <2> HIDE DEF a, b, v, w
  <2>1. CASE Contains(s.queue, p)
    <3>1. a = Answer(s, TRUE) /\ b = Answer(s, TRUE)
      BY <1>1, <2>1, Zenon DEF OneOf
    <3> QED
      BY <3>1 DEF a, b, SameVisit
  <2>2. CASE ~Contains(s.queue, p)
    <3>1. a = Circle(s, s.errors \cup {p}) /\ b = Circle(s, s.errors \cup {p})
      BY <1>1, <1>2, <2>2, Zenon DEF OneOf
    <3> QED
      BY <3>1 DEF a, b, SameVisit
  <2> QED
    BY <2>1, <2>2
<1>3. CASE Agree(visit, other, p, s)
  <2>1. SameDependencies(visit, other, depends, order, p, s)
    BY <1>3, SameVisited, Zenon
  <2>2. v = w
    BY <2>1 DEF SameDependencies
  <2> HIDE DEF a, b, v, w
  <2>3. OneOf(b, v, unread, p, s)
    BY <1>1, <2>2
  <2>4. a = b
    <3>1. CASE Contains(s.queue, p)
      <4>1. a = Answer(s, TRUE) /\ b = Answer(s, TRUE)
        BY <1>1, <3>1, Zenon DEF OneOf
      <4> QED
        BY <4>1
    <3>2. CASE ~Contains(s.queue, p) /\ p \in s.checked
      <4>1. a = Circle(s, s.errors \cup {p}) /\ b = Circle(s, s.errors \cup {p})
        BY <1>1, <3>2, Zenon DEF OneOf
      <4> QED
        BY <4>1
    <3>3. CASE ~Contains(s.queue, p) /\ p \notin s.checked /\ p \in unread
      <4> DEFINE c == Unread(s, Append(s.queue, p), s.checked \cup {p})
      <4>1. a = c /\ b = c
        BY <1>1, <3>3, Zenon DEF OneOf
      <4> QED
        BY <4>1
    <3>4. CASE ~Contains(s.queue, p) /\ p \notin s.checked /\ p \notin unread /\ v.found
      <4> DEFINE c == Add(v, Append(v.queue, p))
      <4>1. a = c /\ b = c
        BY <1>1, <2>3, <3>4, Zenon DEF OneOf
      <4> QED
        BY <4>1
    <3>5. CASE ~Contains(s.queue, p) /\ p \notin s.checked /\ p \notin unread /\ ~v.found
      <4> DEFINE c == Fail(v, v.errors \cup {p})
      <4>1. a = c /\ b = c
        BY <1>1, <2>3, <3>5, Zenon DEF OneOf
      <4> QED
        BY <4>1
    <3> QED
      BY <3>1, <3>2, <3>3, <3>4, <3>5
  <2> QED
    BY <2>4 DEF a, b, SameVisit
<1> QED
  BY <1>2, <1>3

(* What a call is made with.                                               *)
LEMMA Pairs ==
    ASSUME NEW q \in Plugins, NEW t \in Visit
    PROVE  <<q, t>> \in Plugins \X Visit /\ <<q, t>>[1] = q /\ <<q, t>>[2] = t
  OBVIOUS

(* Nothing else is a call made with.                                       *)
LEMMA PairsOnly ==
    ASSUME NEW c \in Plugins \X Visit
    PROVE  c[1] \in Plugins /\ c[2] \in Visit /\ c = <<c[1], c[2]>>
  OBVIOUS

(* Visits that go fewer than n plugins deep are as they are said to be.    *)
IsDeep(v, n, depends, order, unread) ==
    /\ IsVisit(v)
    /\ \A q \in Plugins, t \in Visit :
          Left(t) < n => v[<<q, t>>] = VisitOnce(v, depends, order, unread, q, t)

(* At first, no visit is.                                                  *)
LEMMA NoneDeep ==
    ASSUME NEW depends, NEW order, NEW unread
    PROVE  \E v : IsDeep(v, 0, depends, order, unread)
<1> DEFINE v == [c \in Plugins \X Visit |-> c[2]]
<1>1. \A q \in Plugins, t \in Visit : v[<<q, t>>] = t
  BY Pairs, Zenon
<1>2. \A t \in Visit : ~(Left(t) < 0)
  BY LeftIsNumber
<1> HIDE DEF v
<1>3. IsVisit(v)
  BY <1>1 DEF IsVisit
<1> QED
  BY <1>2, <1>3, Zenon DEF IsDeep

(* From there, they can be had one deeper.                                 *)
LEMMA OneDeeper ==
    ASSUME NEW depends, NEW order \in Seq(Plugins), NEW unread, NEW n \in Nat, NEW v,
           IsDeep(v, n, depends, order, unread)
    PROVE  \E w : IsDeep(w, n + 1, depends, order, unread)
<1> DEFINE V(q, t) == IF Left(t) < n + 1 THEN VisitOnce(v, depends, order, unread, q, t) ELSE t
           w == [c \in Plugins \X Visit |-> V(c[1], c[2])]
<1>1. \A q \in Plugins, t \in Visit : w[<<q, t>>] = V(q, t)
  <2> HIDE DEF V
  <2> QED
    BY Pairs, Zenon
<1> HIDE DEF w
<1>2. IsVisit(v)
  BY Zenon DEF IsDeep
<1>3. IsVisit(w)
  <2>1. ASSUME NEW q \in Plugins, NEW t \in Visit
        PROVE  w[<<q, t>>] \in Visit /\ t.checked \subseteq w[<<q, t>>].checked
    <3>1. Grown(t, VisitOnce(v, depends, order, unread, q, t))
      BY <1>2, OnceGrows, Zenon DEF Grown
    <3>2. Grown(t, t)
      BY DEF Grown
    <3>3. Grown(t, V(q, t))
      BY <3>1, <3>2, Zenon
    <3> HIDE DEF V
    <3> QED
      BY <1>1, <3>3 DEF Grown
  <2> QED
    BY <2>1 DEF IsVisit
<1>4. ASSUME NEW q \in Plugins, NEW t \in Visit, Left(t) < n + 1
      PROVE  w[<<q, t>>] = VisitOnce(w, depends, order, unread, q, t)
  <2>1. ASSUME NEW r \in Plugins, NEW u \in Visit, q \notin t.checked,
               t.checked \cup {q} \subseteq u.checked
        PROVE  v[<<r, u>>] = w[<<r, u>>]
    <3>1. Left(u) < Left(t)
      BY <2>1, FewerLeft, Zenon
    <3>2. Left(u) < n /\ Left(u) < n + 1
      BY <1>4, <3>1, LeftIsNumber
    <3>3. v[<<r, u>>] = VisitOnce(v, depends, order, unread, r, u)
      BY <3>2, Zenon DEF IsDeep
    <3>4. w[<<r, u>>] = VisitOnce(v, depends, order, unread, r, u)
      BY <1>1, <3>2, Zenon
    <3> QED
      BY <3>3, <3>4, Zenon
  <2>2. q \in t.checked \/ Agree(v, w, q, t)
    BY <2>1, Zenon DEF Agree
  <2>3. SameVisit(v, w, depends, order, unread, q, t)
    BY <1>2, <2>2, SameOnce, Zenon
  <2>4. w[<<q, t>>] = VisitOnce(v, depends, order, unread, q, t)
    BY <1>1, <1>4, Zenon
  <2> QED
    BY <2>3, <2>4, Zenon DEF SameVisit
<1>5. IsDeep(w, n + 1, depends, order, unread)
  BY <1>3, <1>4, Zenon DEF IsDeep
<1> QED
  BY <1>5

(* So there is a function that is as deep as there are plugins.            *)
LEMMA DeepExists ==
    ASSUME NEW depends, NEW order \in Seq(Plugins), NEW unread
    PROVE  \E v : IsDeep(v, Cardinality(Plugins) + 1, depends, order, unread)
<1> DEFINE S == {n \in Nat : \E v : IsDeep(v, n, depends, order, unread)}
<1>1. Cardinality(Plugins) + 1 \in Nat
  BY ConstantsAssumption, FS_CardinalityType
<1>2. 0 \in S
  BY NoneDeep
<1>3. \A i \in 1 .. Cardinality(Plugins) + 1 : i - 1 \in S => i \in S
  <2> SUFFICES ASSUME NEW i \in 1 .. Cardinality(Plugins) + 1, i - 1 \in S PROVE i \in S
    OBVIOUS
  <2>1. i - 1 \in Nat /\ i \in Nat /\ (i - 1) + 1 = i
    BY <1>1
  <2>2. PICK v : IsDeep(v, i - 1, depends, order, unread)
    OBVIOUS
  <2>3. \E w : IsDeep(w, (i - 1) + 1, depends, order, unread)
    BY <2>1, <2>2, OneDeeper, Zenon
  <2> QED
    BY <2>1, <2>3
<1> HIDE DEF S
<1>4. Cardinality(Plugins) + 1 \in S
  <2>1. \A i \in 0 .. Cardinality(Plugins) + 1 : i \in S
    BY <1>1, <1>2, <1>3, InductionUpTo, Zenon
  <2> QED
    BY <1>1, <2>1
<1> QED
  BY <1>4 DEF S

(* A function that is as the visits are said to be, everywhere,            *)
IsFix(f, depends, order, unread) ==
    \A q \in Plugins, t \in Visit : f[<<q, t>>] = VisitOnce(f, depends, order, unread, q, t)

(* and on nothing else.                                                    *)
IsVisits(g, depends, order, unread) ==
    g = [c \in Plugins \X Visit |-> VisitOnce(g, depends, order, unread, c[1], c[2])]

(* Such a function exists.                                                 *)
LEMMA FixExists ==
    ASSUME NEW depends, NEW order \in Seq(Plugins), NEW unread
    PROVE  \E g : IsVisits(g, depends, order, unread) /\ IsVisit(g)
<1> DEFINE V(f, q, t) == VisitOnce(f, depends, order, unread, q, t)
<1>1. PICK v : IsDeep(v, Cardinality(Plugins) + 1, depends, order, unread)
  BY DeepExists, Zenon
<1>2. IsVisit(v)
  BY <1>1, Zenon DEF IsDeep
<1>3. \A q \in Plugins, t \in Visit : v[<<q, t>>] = V(v, q, t)
  <2>1. \A t \in Visit : Left(t) < Cardinality(Plugins) + 1
    BY LeftIsNumber
  <2> QED
    BY <1>1, <2>1, Zenon DEF IsDeep
<1> DEFINE g == [c \in Plugins \X Visit |-> V(v, c[1], c[2])]
<1>4. \A q \in Plugins, t \in Visit : g[<<q, t>>] = V(v, q, t)
  <2> HIDE DEF V
  <2> QED
    BY Pairs, Zenon
<1>5. IsVisit(g)
  <2> HIDE DEF g, V
  <2>1. \A q \in Plugins, t \in Visit : v[<<q, t>>] = g[<<q, t>>]
    BY <1>3, <1>4, Zenon
  <2> QED
    BY <1>2, <2>1 DEF IsVisit
<1>6. \A q \in Plugins, t \in Visit : V(v, q, t) = V(g, q, t)
  <2> HIDE DEF g
  <2>1. \A q \in Plugins, t \in Visit : v[<<q, t>>] = g[<<q, t>>]
    BY <1>3, <1>4, Zenon
  <2>2. \A q \in Plugins, t \in Visit : Agree(v, g, q, t)
    BY <2>1, Zenon DEF Agree
  <2>3. \A q \in Plugins, t \in Visit : SameVisit(v, g, depends, order, unread, q, t)
    BY <1>2, <2>2, SameOnce, Zenon
  <2> QED
    BY <2>3, Zenon DEF SameVisit
<1>7. g = [c \in Plugins \X Visit |-> V(g, c[1], c[2])]
  <2>1. \A c \in Plugins \X Visit : V(v, c[1], c[2]) = V(g, c[1], c[2])
    <3> HIDE DEF g, V
    <3> QED
      BY <1>6, PairsOnly, Zenon
  <2> HIDE DEF V
  <2> QED
    BY <2>1, Zenon
<1>8. IsVisits(g, depends, order, unread)
  BY <1>7, Zenon DEF IsVisits
<1> HIDE DEF g
<1> QED
  BY <1>5, <1>8, Zenon

(* Two functions agree everywhere.                                         *)
SameCalls(f, g) == \A q \in Plugins, t \in Visit : f[<<q, t>>] = g[<<q, t>>]

(* There is no other.                                                      *)
LEMMA FixIsUnique ==
    ASSUME NEW depends, NEW order \in Seq(Plugins), NEW unread,
           NEW g, IsVisit(g), IsFix(g, depends, order, unread),
           NEW f, IsFix(f, depends, order, unread)
    PROVE  SameCalls(f, g)
<1> DEFINE S == {n \in Nat : \A q \in Plugins, t \in Visit : Left(t) < n => f[<<q, t>>] = g[<<q, t>>]}
           m == Cardinality(Plugins) + 1
<1>1. m \in Nat
  BY ConstantsAssumption, FS_CardinalityType
<1>2. 0 \in S
  BY LeftIsNumber
<1>3. ASSUME NEW i \in 1 .. m, i - 1 \in S PROVE i \in S
  <2>1. ASSUME NEW q \in Plugins, NEW t \in Visit, Left(t) < i PROVE f[<<q, t>>] = g[<<q, t>>]
    <3>1. q \in t.checked \/ Agree(g, f, q, t)
      <4> SUFFICES ASSUME q \notin t.checked, NEW r \in Plugins, NEW u \in Visit,
                          t.checked \cup {q} \subseteq u.checked
                   PROVE  g[<<r, u>>] = f[<<r, u>>]
        BY Zenon DEF Agree
      <4>1. Left(u) < Left(t)
        BY FewerLeft, Zenon
      <4>2. Left(u) < i - 1
        BY <1>1, <2>1, <4>1, LeftIsNumber
      <4> QED
        BY <1>3, <4>2, Zenon
    <3>2. SameVisit(g, f, depends, order, unread, q, t)
      BY <3>1, SameOnce, Zenon
    <3> QED
      BY <3>2, Zenon DEF IsFix, SameVisit
  <2>2. i \in Nat
    BY <1>1
  <2> QED
    BY <2>1, <2>2, Zenon
<1>4. m \in S
  <2>1. \A i \in 1 .. m : i - 1 \in S => i \in S
    BY <1>3
  <2> HIDE DEF S, m
  <2>2. \A i \in 0 .. m : i \in S
    BY <1>1, <1>2, <2>1, InductionUpTo, Zenon
  <2> QED
    BY <1>1, <2>2
<1>5. \A t \in Visit : Left(t) < m
  BY LeftIsNumber
<1> QED
  BY <1>4, <1>5, Zenon DEF SameCalls

(* So the visits are as they are said to be.                               *)
LEMMA VisitsAre ==
    ASSUME NEW depends, NEW order \in Seq(Plugins), NEW unread
    PROVE  /\ IsVisit(Visits(depends, order, unread))
           /\ IsFix(Visits(depends, order, unread), depends, order, unread)
<1> DEFINE V(f, q, t) == VisitOnce(f, depends, order, unread, q, t)
           visit == Visits(depends, order, unread)
<1> HIDE DEF V
<1>0. PICK g : IsVisits(g, depends, order, unread) /\ IsVisit(g)
  BY FixExists, Zenon
<1>1. g = [c \in Plugins \X Visit |-> V(g, c[1], c[2])]
  BY <1>0, Zenon DEF IsVisits, V
<1>2. visit = [c \in Plugins \X Visit |-> V(visit, c[1], c[2])]
  BY <1>1, Zenon DEF Visits, V
<1> HIDE DEF visit
<1> DEFINE Calls == Plugins \X Visit
<1> HIDE DEF Calls
<1>3. ASSUME NEW f, f = [c \in Calls |-> V(f, c[1], c[2])], NEW q \in Plugins, NEW t \in Visit
      PROVE  f[<<q, t>>] = V(f, q, t)
  <2> DEFINE call == <<q, t>>
  <2>1. call \in Calls /\ call[1] = q /\ call[2] = t
    BY Pairs DEF Calls
  <2> HIDE DEF call
  <2>2. f[call] = V(f, call[1], call[2])
    BY <1>3, <2>1, Zenon
  <2>3. f[call] = V(f, q, t)
    BY <2>1, <2>2
  <2> QED
    BY <2>3 DEF call
<1>4. /\ \A q \in Plugins, t \in Visit : visit[<<q, t>>] = V(visit, q, t)
      /\ \A q \in Plugins, t \in Visit : g[<<q, t>>] = V(g, q, t)
  BY <1>1, <1>2, <1>3, Zenon DEF Calls
<1>5. IsFix(g, depends, order, unread) /\ IsFix(visit, depends, order, unread)
  BY <1>4, Zenon DEF IsFix, V
<1>6. SameCalls(visit, g)
  BY <1>0, <1>5, FixIsUnique, Zenon
<1>7. IsVisit(visit)
  BY <1>0, <1>6 DEF IsVisit, SameCalls
<1> QED
  BY <1>5, <1>7 DEF visit

(* A queue that has nothing twice, and what p depends on before p.         *)
Sorted(q, depends) ==
    /\ q \in Seq(Plugins) /\ IsInjective(q)
    /\ \A i \in DOMAIN q, d \in Plugins : depends[q[i]][d] # "No" => \E j \in 1 .. i - 1 : q[j] = d

(* r is q with p added.                                                    *)
IsAdded(q, r, p, depends) ==
    /\ Sorted(r, depends) /\ r \in Seq(Plugins)
    /\ \A c : Contains(r, c) <=> Contains(q, c) \/ c = p

(* What depends only on plugins in the queue may be added to it.           *)
LEMMA SortedGrows ==
    ASSUME NEW depends, NEW q, Sorted(q, depends), NEW p \in Plugins, ~Contains(q, p),
           \A d \in Plugins : depends[p][d] # "No" => Contains(q, d)
    PROVE  IsAdded(q, Append(q, p), p, depends)
<1> DEFINE r == Append(q, p)
<1>1. q \in Seq(Plugins) /\ Len(q) \in Nat /\ DOMAIN q = 1 .. Len(q)
  BY DEF Sorted
<1>2. /\ r \in Seq(Plugins) /\ Len(r) = Len(q) + 1 /\ DOMAIN r = 1 .. Len(q) + 1
      /\ r[Len(q) + 1] = p /\ \A i \in 1 .. Len(q) : r[i] = q[i]
  BY <1>1
<1>3. \A i \in 1 .. Len(q) + 1 : i \in 1 .. Len(q) \/ i = Len(q) + 1
  BY <1>1
<1>4. \A i \in 1 .. Len(q) : i \in 1 .. Len(q) + 1
  BY <1>1
<1>5. Len(q) + 1 \in 1 .. Len(q) + 1
  BY <1>1
<1> HIDE DEF r
<1>6. ASSUME NEW c PROVE Contains(r, c) <=> Contains(q, c) \/ c = p
  BY <1>2, <1>3, <1>4, <1>5 DEF Contains
<1>7. IsInjective(r)
  <2> SUFFICES ASSUME NEW i \in 1 .. Len(q) + 1, NEW j \in 1 .. Len(q) + 1, r[i] = r[j]
               PROVE  i = j
    BY <1>2 DEF IsInjective
  <2>1. \A k \in 1 .. Len(q) : q[k] # p
    BY DEF Contains
  <2>2. CASE i \in 1 .. Len(q) /\ j \in 1 .. Len(q)
    BY <1>1, <1>2, <2>2 DEF Sorted, IsInjective
  <2>3. CASE i = Len(q) + 1 \/ j = Len(q) + 1
    BY <1>2, <1>3, <2>1, <2>3
  <2> QED
    BY <1>3, <2>2, <2>3
<1>8. ASSUME NEW i \in 1 .. Len(q) + 1, NEW d \in Plugins, depends[r[i]][d] # "No"
      PROVE  \E j \in 1 .. i - 1 : r[j] = d
  <2>1. CASE i \in 1 .. Len(q)
    <3>1. PICK j \in 1 .. i - 1 : q[j] = d
      BY <1>1, <1>2, <1>8, <2>1 DEF Sorted
    <3>2. j \in 1 .. Len(q)
      BY <1>1, <2>1
    <3> QED
      BY <1>2, <3>1, <3>2
  <2>2. CASE i = Len(q) + 1
    <3>1. PICK j \in 1 .. Len(q) : q[j] = d
      BY <1>2, <1>8, <2>2 DEF Contains
    <3>2. j \in 1 .. i - 1
      BY <1>1, <2>2
    <3> QED
      BY <1>2, <3>1, <3>2
  <2> QED
    BY <1>3, <2>1, <2>2
<1>9. Sorted(r, depends)
  BY <1>2, <1>7, <1>8 DEF Sorted
<1> QED
  BY <1>2, <1>6, <1>9 DEF r, IsAdded

(* t comes from s by visits.                                               *)
Leads(s, t, depends, bad) ==
    /\ t \in Visit /\ Sorted(t.queue, depends)
    /\ \A c \in Plugins : Contains(s.queue, c) => Contains(t.queue, c)
    /\ s.checked \subseteq t.checked /\ s.errors \subseteq t.errors
    /\ \A c \in t.errors : c \in s.errors \/ c \in bad
    /\ \A c \in t.checked : c \in s.checked \/ Contains(t.queue, c) \/ c \in bad
    /\ \A c \in s.checked : Contains(t.queue, c) => Contains(s.queue, c)

(* One visit after another.                                                *)
LEMMA LeadsOn ==
    ASSUME NEW depends, NEW bad, NEW s \in Visit, NEW u, NEW t,
           Leads(s, u, depends, bad), Leads(u, t, depends, bad)
    PROVE  Leads(s, t, depends, bad)
<1>1. /\ s.checked \subseteq u.checked /\ u.checked \subseteq t.checked
      /\ s.errors \subseteq u.errors /\ u.errors \subseteq t.errors
      /\ s.checked \subseteq Plugins /\ u.checked \subseteq Plugins /\ t.checked \subseteq Plugins
  BY Parts DEF Leads
<1>2. \A c \in Plugins : Contains(s.queue, c) => Contains(t.queue, c)
  BY Zenon DEF Leads
<1>3. \A c \in t.errors : c \in s.errors \/ c \in bad
  BY Zenon DEF Leads
<1>4. \A c \in t.checked : c \in s.checked \/ Contains(t.queue, c) \/ c \in bad
  BY <1>1, Zenon DEF Leads
<1>5. \A c \in s.checked : Contains(t.queue, c) => Contains(s.queue, c)
  BY <1>1, Zenon DEF Leads
<1> QED
  BY <1>1, <1>2, <1>3, <1>4, <1>5, Zenon DEF Leads

(* What a visit of p starts from: whatever is being visited depends on p.  *)
MayVisit(p, s, depends, reach, bad) ==
    /\ Sorted(s.queue, depends)
    /\ \A c \in s.checked : Contains(s.queue, c) \/ c \in bad \/ p \in reach[c]

(* p is in the queue or reported, and if it is not found, it is bad.       *)
HasVisited(p, s, t, depends, bad) ==
    /\ Leads(s, t, depends, bad)
    /\ t.found => Contains(t.queue, p)
    /\ ~t.found => p \in bad
    /\ Contains(t.queue, p) \/ p \in t.errors

(* reach has what a plugin depends on, directly or not, bad has those in   *)
(* circles, unread, and what depends on them.                              *)
IsGraph(depends, unread, reach, bad) ==
    /\ \A p, d \in Plugins : depends[p][d] # "No" => d \in reach[p]
    /\ \A c, p, d \in Plugins : p \in reach[c] /\ depends[p][d] # "No" => d \in reach[c]
    /\ \A p \in Plugins : p \in reach[p] => p \in bad
    /\ \A p \in unread : p \in bad
    /\ \A p, d \in Plugins : depends[p][d] # "No" /\ d \in bad => p \in bad
    /\ \A p \in unread, d \in Plugins : depends[p][d] = "No"

(* Visits of what p depends on are right.                                  *)
AreRight(visit, p, s, depends, reach, bad) ==
    \A q \in Plugins, t \in Visit :
       s.checked \cup {p} \subseteq t.checked /\ MayVisit(q, t, depends, reach, bad)
          => HasVisited(q, t, visit[<<q, t>>], depends, bad)

(* How far the visits of the dependencies have come.                       *)
SoFar(i, v, order, p, depends, bad) ==
    /\ Leads(v[0], v[i], depends, bad)
    /\ v[i].found => \A j \in 1 .. i : depends[p][order[j]] # "No" => Contains(v[i].queue, order[j])
    /\ ~v[i].found => p \in bad

(* The next of them keeps to it.                                           *)
LEMMA Comes ==
    ASSUME NEW visit, IsVisit(visit), NEW depends, NEW unread, NEW reach, NEW bad,
           IsGraph(depends, unread, reach, bad),
           NEW order \in Seq(Plugins), NEW p \in Plugins, NEW s \in Visit,
           MayVisit(p, s, depends, reach, bad), AreRight(visit, p, s, depends, reach, bad),
           NEW v, AreVisits(v, visit, depends, order, p, s),
           NEW i \in 1 .. Len(order), SoFar(i - 1, v, order, p, depends, bad)
    PROVE  SoFar(i, v, order, p, depends, bad)
<1> DEFINE d == order[i]
           u == v[i - 1]
           t == v[i]
<1>1. /\ v[0].queue = s.queue /\ v[0].checked = s.checked \cup {p} /\ v[0] \in Visit
      /\ u \in Visit /\ d \in Plugins /\ i - 1 \in 0 .. Len(order) /\ i \in 0 .. Len(order)
      /\ Len(order) \in Nat /\ \A j \in 1 .. Len(order) : order[j] \in Plugins
  <2>1. Begin(v, order, p, s)
    BY Begun, Zenon
  <2> QED
    BY <2>1 DEF Begin
<1>2. CASE u.found /\ depends[p][d] # "No"
  <2>1. t = visit[<<d, u>>]
    BY <1>2, VisitedNext
  <2>2. s.checked \cup {p} \subseteq u.checked
    <3>1. \A k \in 0 .. Len(order) : v[k] \in Visit /\ s.checked \cup {p} \subseteq v[k].checked
      BY VisitedGrows, Zenon
    <3> QED
      BY <1>1, <3>1
  <2>3. MayVisit(d, u, depends, reach, bad)
    <3>1. Sorted(u.queue, depends)
      BY DEF SoFar, Leads
    <3>2. ASSUME NEW c \in u.checked
          PROVE  Contains(u.queue, c) \/ c \in bad \/ d \in reach[c]
      <4>1. c \in Plugins
        BY <1>1, Parts
      <4>2. CASE c \in s.checked
        <5>1. Contains(s.queue, c) \/ c \in bad \/ p \in reach[c]
          BY <4>2 DEF MayVisit
        <5>2. Contains(s.queue, c) => Contains(u.queue, c)
          BY <1>1, <4>1 DEF SoFar, Leads
        <5>3. p \in reach[c] => d \in reach[c]
          BY <1>1, <1>2, <4>1 DEF IsGraph
        <5> QED
          BY <5>1, <5>2, <5>3, Zenon
      <4>3. CASE c = p
        BY <1>1, <1>2, <4>3 DEF IsGraph
      <4>4. CASE c \notin v[0].checked
        BY <3>2, <4>4, Zenon DEF SoFar, Leads
      <4> QED
        BY <1>1, <4>2, <4>3, <4>4
    <3> QED
      BY <3>1, <3>2 DEF MayVisit
  <2>4. HasVisited(d, u, t, depends, bad)
    BY <1>1, <2>1, <2>2, <2>3, Zenon DEF AreRight
  <2>5. Leads(v[0], t, depends, bad)
    <3>1. Leads(v[0], u, depends, bad) /\ Leads(u, t, depends, bad)
      BY <2>4, Zenon DEF SoFar, HasVisited
    <3> QED
      BY <1>1, <3>1, LeadsOn, Zenon
  <2>6. ASSUME t.found, NEW j \in 1 .. i, depends[p][order[j]] # "No"
        PROVE  Contains(t.queue, order[j])
    <3>1. CASE j = i
      BY <2>4, <2>6, <3>1 DEF HasVisited
    <3>2. CASE j # i
      <4>1. j \in 1 .. i - 1 /\ order[j] \in Plugins
        BY <1>1, <3>2
      <4>2. Contains(u.queue, order[j])
        BY <1>2, <2>6, <4>1 DEF SoFar
      <4> QED
        BY <2>4, <4>1, <4>2 DEF HasVisited, Leads
    <3> QED
      BY <3>1, <3>2
  <2>7. ~t.found => p \in bad
    BY <1>1, <1>2, <2>4 DEF HasVisited, IsGraph
  <2> QED
    BY <2>5, <2>6, <2>7 DEF SoFar
<1>3. CASE ~(u.found /\ depends[p][d] # "No")
  <2>1. \/ t = visit[<<d, u>>] /\ u.found /\ depends[p][d] # "No"
        \/ t = u
    BY VisitedNext
  <2>2. t = u
    BY <1>3, <2>1
  <2>3. ASSUME u.found, NEW j \in 1 .. i, depends[p][order[j]] # "No"
        PROVE  Contains(u.queue, order[j])
    <3>1. j # i
      BY <1>3, <2>3
    <3>2. j \in 1 .. i - 1
      BY <1>1, <3>1
    <3> QED
      BY <2>3, <3>2 DEF SoFar
  <2> QED
    BY <2>2, <2>3 DEF SoFar
<1> QED
  BY <1>2, <1>3

(* What the dependencies end with.                                         *)
LEMMA ComesToEnd ==
    ASSUME NEW visit, IsVisit(visit), NEW depends, NEW unread, NEW reach, NEW bad,
           IsGraph(depends, unread, reach, bad),
           NEW order \in Seq(Plugins), NEW p \in Plugins, NEW s \in Visit,
           MayVisit(p, s, depends, reach, bad), AreRight(visit, p, s, depends, reach, bad),
           NEW v, AreVisits(v, visit, depends, order, p, s)
    PROVE  SoFar(Len(order), v, order, p, depends, bad)
<1> DEFINE D == {i \in 0 .. Len(order) : SoFar(i, v, order, p, depends, bad)}
<1>1. /\ v[0].queue = s.queue /\ v[0] \in Visit /\ v[0].found /\ Len(order) \in Nat
  <2>1. Begin(v, order, p, s)
    BY Begun, Zenon
  <2> QED
    BY <2>1 DEF Begin
<1>2. 0 \in D
  <2>1. Leads(v[0], v[0], depends, bad)
    BY <1>1 DEF Leads, MayVisit
  <2> QED
    BY <1>1, <2>1 DEF SoFar
<1>3. ASSUME NEW i \in 1 .. Len(order), i - 1 \in D PROVE i \in D
  <2>1. SoFar(i - 1, v, order, p, depends, bad)
    BY <1>3
  <2>2. SoFar(i, v, order, p, depends, bad)
    BY <2>1, Comes, Zenon
  <2> QED
    BY <1>1, <2>2
<1>4. Len(order) \in D
  <2>1. \A i \in 1 .. Len(order) : i - 1 \in D => i \in D
    BY <1>3
  <2> HIDE DEF D
  <2>2. \A i \in 0 .. Len(order) : i \in D
    BY <1>1, <1>2, <2>1, InductionUpTo, Zenon
  <2> QED
    BY <1>1, <2>2
<1> QED
  BY <1>4

(* A visit is right when those it makes are.                               *)
LEMMA OnceIsRight ==
    ASSUME NEW visit, IsVisit(visit), NEW depends, NEW unread, NEW reach, NEW bad,
           IsGraph(depends, unread, reach, bad),
           NEW order \in Seq(Plugins), ToSet(order) = Plugins,
           NEW p \in Plugins, NEW s \in Visit,
           MayVisit(p, s, depends, reach, bad),
           p \notin s.checked => AreRight(visit, p, s, depends, reach, bad)
    PROVE  HasVisited(p, s, VisitOnce(visit, depends, order, unread, p, s), depends, bad)
<1> DEFINE t == VisitOnce(visit, depends, order, unread, p, s)
           v == VisitDependencies(visit, depends, order, p, s)
           last == v[Len(order)]
<1>1. OneOf(t, last, unread, p, s)
  BY OnceIs, Zenon
<1>2. AreVisits(v, visit, depends, order, p, s)
  BY DependenciesAreVisits, Zenon DEF IsVisit, IsCall
<1> SUFFICES HasVisited(p, s, t, depends, bad)
  OBVIOUS
<1> HIDE DEF t, v, last
<1>3. /\ v[0].queue = s.queue /\ v[0].checked = s.checked \cup {p} /\ v[0].errors = s.errors
      /\ v[0] \in Visit /\ Len(order) \in Nat /\ last \in Visit
  <2>1. Begin(v, order, p, s)
    BY <1>2, Begun, Zenon
  <2> QED
    BY <2>1 DEF Begin, last
<1>4. Sorted(s.queue, depends) /\ s.checked \subseteq Plugins /\ s.errors \subseteq Plugins
  BY Parts DEF MayVisit
<1>5. CASE Contains(s.queue, p)
  <2>1. t = Answer(s, TRUE)
    BY <1>1, <1>5, Zenon DEF OneOf
  <2>2. /\ t \in Visit /\ t.queue = s.queue /\ t.checked = s.checked
        /\ t.errors = s.errors /\ t.found = TRUE
    BY <2>1, AnswerFields
  <2>3. Leads(s, t, depends, bad)
    BY <2>2, <1>4 DEF Leads
  <2>4. /\ t.found => Contains(t.queue, p)
        /\ ~t.found => p \in bad
        /\ Contains(t.queue, p) \/ p \in t.errors
    BY <2>2, <1>5
  <2> QED
    BY <2>3, <2>4, Zenon DEF HasVisited
<1>6. CASE ~Contains(s.queue, p) /\ p \in s.checked
  <2>1. t = Circle(s, s.errors \cup {p})
    BY <1>1, <1>6, Zenon DEF OneOf
  <2>2. s.errors \cup {p} \in SUBSET Plugins
    BY <1>4
  <2>3. /\ t \in Visit /\ t.queue = s.queue /\ t.checked = s.checked
        /\ t.errors = s.errors \cup {p} /\ t.found = FALSE
    BY <2>1, <2>2, CircleFields
  <2>4. p \in bad
    BY <1>6, Zenon DEF MayVisit, IsGraph
  <2>5. Leads(s, t, depends, bad)
    BY <2>3, <1>4, <2>4 DEF Leads
  <2>6. /\ t.found => Contains(t.queue, p)
        /\ ~t.found => p \in bad
        /\ Contains(t.queue, p) \/ p \in t.errors
    BY <2>3, <2>4
  <2> QED
    BY <2>5, <2>6, Zenon DEF HasVisited
<1>7. CASE ~Contains(s.queue, p) /\ p \notin s.checked /\ p \in unread
  <2> DEFINE q == Append(s.queue, p)
             c == s.checked \cup {p}
  <2>1. t = Unread(s, q, c)
    BY <1>1, <1>7, Zenon DEF OneOf
  <2>2. \A d \in Plugins : depends[p][d] # "No" => Contains(s.queue, d)
    BY <1>7 DEF IsGraph
  <2>3. /\ Sorted(q, depends) /\ q \in Seq(Plugins)
        /\ \A x : Contains(q, x) <=> Contains(s.queue, x) \/ x = p
    <3>1. IsAdded(s.queue, q, p, depends)
      BY <1>4, <1>7, <2>2, SortedGrows, Zenon
    <3> QED
      BY <3>1, Zenon DEF IsAdded
  <2>4. c \in SUBSET Plugins
    BY <1>4
  <2>5. p \in bad
    BY <1>7 DEF IsGraph
  <2> HIDE DEF q, c
  <2>6. /\ t \in Visit /\ t.queue = q /\ t.checked = c
        /\ t.errors = s.errors /\ t.found = FALSE
    <3> DEFINE u == Unread(s, q, c)
    <3>1. q \in Seq(Plugins) /\ c \in SUBSET Plugins
      BY <2>3, <2>4
    <3>2. HasParts(u, q, c, s.errors, FALSE)
      BY <3>1, UnreadFields, Zenon
    <3> QED
      BY <2>1, <3>2 DEF HasParts
  <2>7. Leads(s, t, depends, bad)
    BY <2>6, <1>4, <1>7, <2>3, <2>5 DEF Leads, c
  <2>8. /\ t.found => Contains(t.queue, p)
        /\ ~t.found => p \in bad
        /\ Contains(t.queue, p) \/ p \in t.errors
    BY <2>6, <2>3, <2>5
  <2> QED
    BY <2>7, <2>8, Zenon DEF HasVisited
<1>8. CASE ~Contains(s.queue, p) /\ p \notin s.checked /\ p \notin unread
  <2>1. SoFar(Len(order), v, order, p, depends, bad)
    BY <1>2, <1>8, ComesToEnd, Zenon
  <2>2. Leads(v[0], last, depends, bad) /\ (~last.found => p \in bad)
    BY <2>1 DEF SoFar, last
  <2>3. ~Contains(last.queue, p)
    BY <1>3, <1>8, <2>2 DEF Leads
  <2>4. /\ s.checked \cup {p} \subseteq last.checked /\ s.errors \subseteq last.errors
        /\ \A c \in Plugins : Contains(s.queue, c) => Contains(last.queue, c)
        /\ \A c \in last.errors : c \in s.errors \/ c \in bad
        /\ \A c \in last.checked : c \in s.checked \/ c = p \/ Contains(last.queue, c) \/ c \in bad
        /\ \A c \in s.checked : Contains(last.queue, c) => Contains(s.queue, c)
        /\ Sorted(last.queue, depends)
    BY <1>3, <2>2 DEF Leads
  <2>5. CASE last.found
    <3> DEFINE q == Append(last.queue, p)
    <3>1. t = Add(last, q)
      BY <1>1, <1>8, <2>5, Zenon DEF OneOf
    <3>2. \A d \in Plugins : depends[p][d] # "No" => Contains(last.queue, d)
      <4>1. \A d \in Plugins : \E j \in 1 .. Len(order) : order[j] = d
        <5>1. DOMAIN order = 1 .. Len(order)
          OBVIOUS
        <5> QED
          BY <5>1 DEF ToSet
      <4> QED
        BY <2>1, <2>5, <4>1 DEF SoFar, last
    <3>3. /\ Sorted(q, depends) /\ q \in Seq(Plugins)
          /\ \A x : Contains(q, x) <=> Contains(last.queue, x) \/ x = p
      <4>1. Sorted(last.queue, depends)
        BY <2>4
      <4>2. IsAdded(last.queue, q, p, depends)
        BY <2>3, <3>2, <4>1, SortedGrows, Zenon
      <4> QED
        BY <4>2, Zenon DEF IsAdded
    <3> HIDE DEF q
    <3>4. /\ t \in Visit /\ t.queue = q /\ t.checked = last.checked
          /\ t.errors = last.errors /\ t.found = last.found
      BY <1>3, <3>1, <3>3, AddFields
    <3>5. Leads(s, t, depends, bad)
      BY <3>4, <1>8, <2>4, <3>3 DEF Leads
    <3>6. /\ t.found => Contains(t.queue, p)
          /\ ~t.found => p \in bad
          /\ Contains(t.queue, p) \/ p \in t.errors
      BY <3>4, <2>5, <3>3
    <3> QED
      BY <3>5, <3>6, Zenon DEF HasVisited
  <2>6. CASE ~last.found
    <3>1. t = Fail(last, last.errors \cup {p})
      BY <1>1, <1>8, <2>6, Zenon DEF OneOf
    <3>2. last.errors \cup {p} \in SUBSET Plugins
      BY <1>3, Parts
    <3>3. /\ t \in Visit /\ t.queue = last.queue /\ t.checked = last.checked
          /\ t.errors = last.errors \cup {p} /\ t.found = last.found
      BY <1>3, <3>1, <3>2, FailFields
    <3>4. p \in bad
      BY <2>2, <2>6
    <3>5. Leads(s, t, depends, bad)
      BY <3>3, <1>8, <2>4, <3>4 DEF Leads
    <3>6. /\ t.found => Contains(t.queue, p)
          /\ ~t.found => p \in bad
          /\ Contains(t.queue, p) \/ p \in t.errors
      BY <3>3, <2>6, <3>4
    <3> QED
      BY <3>5, <3>6, Zenon DEF HasVisited
  <2> QED
    BY <2>5, <2>6
<1> QED
  BY <1>5, <1>6, <1>7, <1>8

(* Visits that go fewer than n plugins deep are right.                     *)
VisitIsRight(visit, depends, reach, bad, n) ==
    \A q \in Plugins, t \in Visit :
       Left(t) < n /\ MayVisit(q, t, depends, reach, bad)
          => HasVisited(q, t, visit[<<q, t>>], depends, bad)

(* So all visits are right.                                                *)
LEMMA VisitsAreRight ==
    ASSUME NEW depends, NEW unread, NEW reach, NEW bad, IsGraph(depends, unread, reach, bad),
           NEW order \in Seq(Plugins), ToSet(order) = Plugins,
           NEW p \in Plugins, NEW s \in Visit, MayVisit(p, s, depends, reach, bad)
    PROVE  HasVisited(p, s, Visits(depends, order, unread)[<<p, s>>], depends, bad)
<1> DEFINE visit == Visits(depends, order, unread)
           m == Cardinality(Plugins) + 1
           S == {n \in Nat : VisitIsRight(visit, depends, reach, bad, n)}
<1>1. m \in Nat
  BY ConstantsAssumption, FS_CardinalityType
<1>2. IsVisit(visit) /\ IsFix(visit, depends, order, unread)
  BY VisitsAre, Zenon
<1> HIDE DEF visit
<1>3. 0 \in S
  <2>1. \A t \in Visit : ~(Left(t) < 0)
    BY LeftIsNumber
  <2> QED
    BY <2>1 DEF VisitIsRight
<1>4. ASSUME NEW i \in 1 .. m, i - 1 \in S PROVE i \in S
  <2>1. ASSUME NEW q \in Plugins, NEW t \in Visit, Left(t) < i, MayVisit(q, t, depends, reach, bad)
        PROVE  HasVisited(q, t, visit[<<q, t>>], depends, bad)
    <3>1. q \notin t.checked => AreRight(visit, q, t, depends, reach, bad)
      <4> SUFFICES ASSUME q \notin t.checked, NEW r \in Plugins, NEW u \in Visit,
                          t.checked \cup {q} \subseteq u.checked,
                          MayVisit(r, u, depends, reach, bad)
                   PROVE  HasVisited(r, u, visit[<<r, u>>], depends, bad)
        BY Zenon DEF AreRight
      <4>1. Left(u) < Left(t)
        BY FewerLeft, Zenon
      <4>2. Left(u) < i - 1
        BY <1>1, <2>1, <4>1, LeftIsNumber
      <4> QED
        BY <1>4, <4>2, Zenon DEF VisitIsRight
    <3>2. HasVisited(q, t, VisitOnce(visit, depends, order, unread, q, t), depends, bad)
      BY <1>2, <2>1, <3>1, OnceIsRight, Zenon
    <3>3. visit[<<q, t>>] = VisitOnce(visit, depends, order, unread, q, t)
      BY <1>2, Zenon DEF IsFix
    <3> QED
      BY <3>2, <3>3, Zenon
  <2>2. i \in Nat
    BY <1>1
  <2> QED
    BY <2>1, <2>2, Zenon DEF VisitIsRight
<1>5. m \in S
  <2>1. \A i \in 1 .. m : i - 1 \in S => i \in S
    BY <1>4
  <2> HIDE DEF S, m
  <2>2. \A i \in 0 .. m : i \in S
    BY <1>1, <1>3, <2>1, InductionUpTo, Zenon
  <2> QED
    BY <1>1, <2>2
<1>6. Left(s) < m
  BY LeftIsNumber
<1>7. HasVisited(p, s, visit[<<p, s>>], depends, bad)
  BY <1>5, <1>6, Zenon DEF VisitIsRight
<1> QED
  BY <1>7 DEF visit

(* The queue after the first i plugins.                                    *)
AreAll(all, visit) ==
    /\ all \in [0 .. Len(pluginSpecs) -> Visit]
    /\ all[0] = [queue |-> << >>, checked |-> {}, errors |-> {}, found |-> TRUE]
    /\ \A i \in 1 .. Len(pluginSpecs) : all[i] = visit[<<pluginSpecs[i], Recheck(all[i - 1], {})>>]

(* VisitAll makes them one after the other.                                *)
LEMMA AllAreVisits ==
    ASSUME NEW depends, NEW order \in Seq(Plugins), NEW unread
    PROVE  AreAll(VisitAll(depends, order, unread), Visits(depends, order, unread))
<1> DEFINE visit == Visits(depends, order, unread)
           all == VisitAll(depends, order, unread)
           n == Len(pluginSpecs)
           b == [queue |-> << >>, checked |-> {}, errors |-> {}, found |-> TRUE]
           After(i, t) == visit[<<pluginSpecs[i], Recheck(t, {})>>]
           step == [i \in 1 .. n |-> [t \in Visit |-> After(i, t)]]
<1>1. n \in Nat /\ \A i \in 1 .. n : pluginSpecs[i] \in Plugins
  BY ConstantsAssumption
<1>2. b \in Visit
  BY DEF Visit
<1>3. IsVisit(visit)
  BY VisitsAre, Zenon
<1>4. ASSUME NEW i \in 1 .. n, NEW t \in Visit PROVE After(i, t) \in Visit
  <2>1. Recheck(t, {}) \in Visit
    BY RecheckFields
  <2> HIDE DEF visit, n
  <2> QED
    BY <1>1, <1>3, <2>1 DEF IsVisit
<1>5. step \in [1 .. n -> [Visit -> Visit]]
  <2> HIDE DEF After, n
  <2> QED
    BY <1>4
<1>6. PICK g \in [0 .. n -> Visit] : Recurs(g, b, n, step)
  <2> HIDE DEF step, b, n
  <2> QED
    BY <1>1, <1>2, <1>5, Recursion, Zenon
<1>7. \A i \in 1 .. n : g[i] = After(i, g[i - 1])
  <2> HIDE DEF After, n, b
  <2>1. \A i \in 1 .. n : g[i - 1] \in Visit
    BY <1>1
  <2> QED
    BY <1>6, <2>1 DEF Recurs
<1>8. g = [i \in 0 .. n |-> IF i = 0 THEN b ELSE After(i, g[i - 1])]
  <2> HIDE DEF After, b, n
  <2> QED
    BY <1>1, <1>6, <1>7 DEF Recurs
<1>9. all = [i \in 0 .. n |-> IF i = 0 THEN b ELSE After(i, all[i - 1])]
  BY <1>8, Zenon DEF VisitAll, Recheck
<1> HIDE DEF all
<1>10. all \in [0 .. n -> Visit] /\ all[0] = b /\ \A i \in 1 .. n : all[i] = After(i, all[i - 1])
  <2> HIDE DEF After, b, n
  <2>1. all[0] = b /\ \A i \in 1 .. n : all[i] = After(i, all[i - 1])
    BY <1>1, <1>9
  <2>2. DOMAIN all = 0 .. n /\ all = [i \in 0 .. n |-> all[i]]
    BY <1>9
  <2>3. \A i \in 0 .. n : all[i] \in Visit
    <3> DEFINE T == {i \in 0 .. n : all[i] \in Visit}
    <3>1. 0 \in T
      BY <1>1, <1>2, <2>1
    <3>2. \A i \in 1 .. n : i - 1 \in T => i \in T
      BY <1>1, <1>4, <2>1
    <3> HIDE DEF T
    <3>3. \A i \in 0 .. n : i \in T
      BY <1>1, <3>1, <3>2, InductionUpTo
    <3> QED
      BY <3>3 DEF T
  <2> QED
    BY <2>1, <2>2, <2>3
<1> QED
  BY <1>10, Zenon DEF AreAll, all, n, b, After, visit

(* How far all the visits have come.                                       *)
AllSoFar(i, s, depends, bad) ==
    /\ s \in Visit /\ Sorted(s.queue, depends)
    /\ \A c \in s.errors : c \in bad
    /\ \A j \in 1 .. i : Contains(s.queue, pluginSpecs[j]) \/ pluginSpecs[j] \in s.errors

(* The next plugin keeps to it.                                            *)
LEMMA AllGoesOn ==
    ASSUME NEW depends, NEW unread, NEW reach, NEW bad, IsGraph(depends, unread, reach, bad),
           NEW order \in Seq(Plugins), ToSet(order) = Plugins,
           NEW i \in 1 .. Len(pluginSpecs), NEW s, AllSoFar(i - 1, s, depends, bad)
    PROVE  AllSoFar(i, Visits(depends, order, unread)[<<pluginSpecs[i], Recheck(s, {})>>],
                    depends, bad)
<1> DEFINE p == pluginSpecs[i]
           u == Recheck(s, {})
           t == Visits(depends, order, unread)[<<p, u>>]
<1>1. p \in Plugins /\ \A j \in 1 .. Len(pluginSpecs) : pluginSpecs[j] \in Plugins
  BY ConstantsAssumption
<1>2. u \in Visit /\ u.queue = s.queue /\ u.checked = {} /\ u.errors = s.errors
  BY RecheckFields DEF AllSoFar
<1> HIDE DEF u
<1>3. MayVisit(p, u, depends, reach, bad)
  BY <1>2 DEF MayVisit, AllSoFar
<1>4. HasVisited(p, u, t, depends, bad)
  BY <1>1, <1>2, <1>3, VisitsAreRight, Zenon
<1> HIDE DEF t
<1>5. ASSUME NEW j \in 1 .. i
      PROVE  Contains(t.queue, pluginSpecs[j]) \/ pluginSpecs[j] \in t.errors
  <2>1. CASE j = i
    BY <1>4, <2>1 DEF HasVisited
  <2>2. CASE j # i
    <3>1. j \in 1 .. i - 1 /\ j \in 1 .. Len(pluginSpecs) /\ pluginSpecs[j] \in Plugins
      BY <1>1, <2>2
    <3>2. Contains(u.queue, pluginSpecs[j]) \/ pluginSpecs[j] \in u.errors
      BY <1>2, <3>1 DEF AllSoFar
    <3> QED
      BY <1>4, <3>1, <3>2 DEF HasVisited, Leads
  <2> QED
    BY <2>1, <2>2
<1>6. t \in Visit /\ Sorted(t.queue, depends) /\ \A c \in t.errors : c \in bad
  BY <1>2, <1>4 DEF HasVisited, Leads, AllSoFar
<1>7. AllSoFar(i, t, depends, bad)
  BY <1>5, <1>6 DEF AllSoFar
<1> QED
  BY <1>7 DEF t, u

(* The load queue is sorted, reports bad plugins only, and every plugin is *)
(* in it or reported.                                                      *)
LEMMA LoadQueueIsRight ==
    ASSUME NEW depends, NEW unread, NEW reach, NEW bad, IsGraph(depends, unread, reach, bad),
           NEW order \in Seq(Plugins), ToSet(order) = Plugins
    PROVE  LET t == LoadQueue(depends, order, unread)
           IN  /\ t \in Visit /\ Sorted(t.queue, depends) /\ \A c \in t.errors : c \in bad
               /\ \A p \in Plugins : Contains(t.queue, p) \/ p \in t.errors
<1> DEFINE all == VisitAll(depends, order, unread)
           visit == Visits(depends, order, unread)
           n == Len(pluginSpecs)
           D == {i \in 0 .. n : AllSoFar(i, all[i], depends, bad)}
<1>1. AreAll(all, visit)
  BY AllAreVisits, Zenon
<1>2. n \in Nat /\ \A p \in Plugins : \E j \in 1 .. n : pluginSpecs[j] = p
  <2>1. pluginSpecs \in Seq(Plugins) /\ ToSet(pluginSpecs) = Plugins
    BY ConstantsAssumption
  <2>2. DOMAIN pluginSpecs = 1 .. n /\ n \in Nat
    BY <2>1
  <2> QED
    BY <2>1, <2>2 DEF ToSet
<1> HIDE DEF all
<1>3. 0 \in D
  <2> DEFINE b == [queue |-> << >>, checked |-> {}, errors |-> {}, found |-> TRUE]
  <2>1. b \in Visit /\ b.queue = << >> /\ b.errors = {}
    BY DEF Visit
  <2>2. all[0] = b
    BY <1>1 DEF AreAll
  <2>3. Sorted(<< >>, depends)
    BY DEF Sorted, IsInjective
  <2> HIDE DEF b
  <2>4. AllSoFar(0, all[0], depends, bad)
    BY <2>1, <2>2, <2>3 DEF AllSoFar
  <2> QED
    BY <1>2, <2>4
<1>4. ASSUME NEW i \in 1 .. n, i - 1 \in D PROVE i \in D
  <2>1. AllSoFar(i - 1, all[i - 1], depends, bad)
    BY <1>4
  <2>2. AllSoFar(i, visit[<<pluginSpecs[i], Recheck(all[i - 1], {})>>], depends, bad)
    BY <2>1, AllGoesOn, Zenon
  <2>3. all[i] = visit[<<pluginSpecs[i], Recheck(all[i - 1], {})>>]
    BY <1>1 DEF AreAll
  <2> HIDE DEF visit
  <2>4. AllSoFar(i, all[i], depends, bad)
    BY <2>2, <2>3
  <2> QED
    BY <1>2, <2>4
<1>5. n \in D
  <2>1. \A i \in 1 .. n : i - 1 \in D => i \in D
    BY <1>4
  <2> HIDE DEF D, n
  <2>2. \A i \in 0 .. n : i \in D
    BY <1>2, <1>3, <2>1, InductionUpTo, Zenon
  <2> QED
    BY <1>2, <2>2
<1>6. AllSoFar(n, all[n], depends, bad)
  BY <1>5
<1>7. all[n] = LoadQueue(depends, order, unread)
  BY Zenon DEF LoadQueue, all
<1> DEFINE t == LoadQueue(depends, order, unread)
<1>8. AllSoFar(n, t, depends, bad)
  BY <1>6, <1>7
<1> HIDE DEF t, n
<1>9. \A p \in Plugins : Contains(t.queue, p) \/ p \in t.errors
  BY <1>2, <1>8 DEF AllSoFar, n
<1>10. t \in Visit /\ Sorted(t.queue, depends) /\ \A c \in t.errors : c \in bad
  BY <1>8 DEF AllSoFar
<1> QED
  BY <1>9, <1>10 DEF t

(* Who is in a circle, or not resolved, or depends on such a plugin.       *)
Bad == {p \in Plugins : \E q \in {p} \cup Reachable(p, AnyKind) :
                              InCycle(q) \/ q \in config.unresolved}

(* What a configuration has.                                               *)
LEMMA ConfigIsTyped ==
    ASSUME config \in Configurations
    PROVE  /\ config \in Configuration
           /\ \A p, d \in Plugins : config.depends[p][d] # "No" <=> config.depends[p][d] \in AnyKind
           /\ config.unresolved \subseteq Plugins
           /\ \A p \in config.unresolved, d \in Plugins : config.depends[p][d] = "No"
<1>1. config \in Configuration /\ \A p, q \in Plugins :
                                     p \in config.unresolved => config.depends[p][q] = "No"
  BY ConstantsAssumption
<1>2. \A p, d \in Plugins : config.depends[p][d] \in {"No", "Required", "Optional"}
  BY <1>1 DEF Configuration
<1>3. config.unresolved \subseteq Plugins
  BY <1>1 DEF Configuration
<1> QED
  BY <1>1, <1>2, <1>3 DEF AnyKind

(* What p depends on is reachable, and so is what that depends on.         *)
LEMMA ReachableIsClosed ==
    ASSUME NEW p \in Plugins, NEW kinds,
           NEW r \in {p} \cup Reachable(p, kinds), NEW q \in Plugins, config.depends[r][q] \in kinds
    PROVE  q \in Reachable(p, kinds)
<1> SUFFICES ASSUME NEW S \in SUBSET Plugins, IsClosed(S, p, kinds) PROVE q \in S
  BY Zenon DEF Reachable
<1>1. r \in S \cup {p}
  BY DEF Reachable
<1> QED
  BY <1>1 DEF IsClosed

(* What is reachable from there is reachable.                              *)
LEMMA ReachableOn ==
    ASSUME NEW p \in Plugins, NEW kinds, NEW r \in Reachable(p, kinds),
           NEW q \in Reachable(r, kinds)
    PROVE  q \in Reachable(p, kinds)
<1> DEFINE S == Reachable(p, kinds)
<1>1. S \in SUBSET Plugins /\ r \in S
  BY DEF Reachable
<1>2. IsClosed(S, r, kinds)
  <2>1. ASSUME NEW x \in S \cup {r}, NEW y \in Plugins, config.depends[x][y] \in kinds
        PROVE  y \in S
    <3>1. x \in {p} \cup Reachable(p, kinds)
      BY <2>1
    <3> QED
      BY <2>1, <3>1, ReachableIsClosed, Zenon
  <2> HIDE DEF S
  <2> QED
    BY <2>1, Zenon DEF IsClosed
<1> HIDE DEF S
<1>3. q \in S
  BY <1>1, <1>2, Zenon DEF Reachable
<1> QED
  BY <1>3 DEF S

(* The dependencies of a configuration, and who is bad in it.              *)
LEMMA ConfigIsGraph ==
    ASSUME config \in Configurations
    PROVE  IsGraph(config.depends, config.unresolved,
                   [p \in Plugins |-> Reachable(p, AnyKind)], Bad)
<1> DEFINE reach == [p \in Plugins |-> Reachable(p, AnyKind)]
<1>1. /\ \A p, d \in Plugins : config.depends[p][d] # "No" <=> config.depends[p][d] \in AnyKind
      /\ config.unresolved \subseteq Plugins
      /\ \A p \in config.unresolved, d \in Plugins : config.depends[p][d] = "No"
  BY ConfigIsTyped, Zenon
<1>2. \A p \in Plugins : reach[p] = Reachable(p, AnyKind)
  BY Zenon
<1> HIDE DEF reach
<1>3. ASSUME NEW p \in Plugins, NEW d \in Plugins, config.depends[p][d] # "No"
      PROVE  d \in Reachable(p, AnyKind)
  <2>1. p \in {p} \cup Reachable(p, AnyKind) /\ config.depends[p][d] \in AnyKind
    BY <1>1, <1>3
  <2> QED
    BY <2>1, ReachableIsClosed, Zenon
<1>4. ASSUME NEW c \in Plugins, NEW p \in Plugins, NEW d \in Plugins,
             p \in Reachable(c, AnyKind), config.depends[p][d] # "No"
      PROVE  d \in Reachable(c, AnyKind)
  <2>1. p \in {c} \cup Reachable(c, AnyKind) /\ config.depends[p][d] \in AnyKind
    BY <1>1, <1>4
  <2> QED
    BY <2>1, ReachableIsClosed, Zenon
<1>5. \A p \in Plugins : p \in Reachable(p, AnyKind) => p \in Bad
  BY DEF Bad, InCycle
<1>6. \A p \in config.unresolved : p \in Bad
  BY <1>1 DEF Bad
<1>7. ASSUME NEW p \in Plugins, NEW d \in Plugins, config.depends[p][d] # "No", d \in Bad
      PROVE  p \in Bad
  <2>1. PICK q \in {d} \cup Reachable(d, AnyKind) : InCycle(q) \/ q \in config.unresolved
    BY <1>7 DEF Bad
  <2>2. d \in Reachable(p, AnyKind)
    BY <1>3, <1>7
  <2>3. q \in Reachable(p, AnyKind)
    <3>1. CASE q = d
      BY <2>2, <3>1
    <3>2. CASE q \in Reachable(d, AnyKind)
      BY <2>2, <3>2, ReachableOn, Zenon
    <3> QED
      BY <3>1, <3>2
  <2> QED
    BY <2>1, <2>3 DEF Bad
<1>8. IsGraph(config.depends, config.unresolved, reach, Bad)
  <2>1. \A p, d \in Plugins : config.depends[p][d] # "No" => d \in reach[p]
    BY <1>2, <1>3
  <2>2. \A c, p, d \in Plugins :
           p \in reach[c] /\ config.depends[p][d] # "No" => d \in reach[c]
    BY <1>2, <1>4
  <2>3. \A p \in Plugins : p \in reach[p] => p \in Bad
    BY <1>2, <1>5
  <2> QED
    BY <1>1, <1>6, <1>7, <2>1, <2>2, <2>3, Zenon DEF IsGraph
<1> QED
  BY <1>8 DEF reach

(* So this holds of the queue of this start.                               *)
VisitedIsRight ==
    LET t == LoadQueue(config.depends, hashOrder, config.unresolved)
    IN  /\ t \in Visit /\ Sorted(t.queue, config.depends) /\ \A c \in t.errors : c \in Bad
        /\ \A p \in Plugins : Contains(t.queue, p) \/ p \in t.errors

(* It does, whatever the configuration and the order of iteration.         *)
LEMMA QueueOfStart ==
    ASSUME config \in Configurations, hashOrder \in HashOrders
    PROVE  VisitedIsRight
<1>1. hashOrder \in Seq(Plugins) /\ ToSet(hashOrder) = Plugins
  BY ConstantsAssumption
<1>2. IsGraph(config.depends, config.unresolved, [p \in Plugins |-> Reachable(p, AnyKind)], Bad)
  BY ConfigIsGraph, Zenon
<1> QED
  BY <1>1, <1>2, LoadQueueIsRight, Zenon DEF VisitedIsRight

------------------------------------------------------------------------------

(* The queue of this start.                                                *)
Visited == LoadQueue(config.depends, hashOrder, config.unresolved)

(* Who is in the queue, and in what is left of it.                         *)
InQueue(p) == \E i \in DOMAIN queue : queue[i] = p
InTodo(p) == \E i \in DOMAIN todo : todo[i] = p

(* The states in which a plugin has its object, and those from which it    *)
(* goes on without an error.                                               *)
Alive == {"Loaded", "Initialized", "Running", "Stopped"}
Well == {"Initialized", "Running", "Stopped"}
Is(p, S) == spec[p].state \in S

(* The types of what a plugin's life depends on.                           *)
AreTyped ==
    /\ config \in Configurations /\ hashOrder \in HashOrders
    /\ spec \in [Plugins -> PluginSpec]
    /\ phase \in Phase /\ inCode \in Plugins \cup {None}

(* Whether it was resolved, and has its object, is in the state of a       *)
(* plugin.                                                                 *)
ObjectIsState ==
    \A p \in Plugins : /\ spec[p].state = "Read" <=> p \in config.unresolved
                       /\ spec[p].plugin <=> Is(p, Alive)

(* All passes go over the same queue; who is not in it gets no object, and *)
(* who has an error in it never had one of the later states.               *)
QueueStays ==
    phase \in Pass \cup {"exec", "wait"} =>
        /\ queue = Visited.queue
        /\ \A p \in Plugins : /\ p \in Visited.errors => spec[p].hasError
                              /\ Is(p, Alive) => InQueue(p)
                              /\ Is(p, Well) => ~spec[p].hasError

(* What is left of a pass is part of the queue, in order.                  *)
InOrder ==
    phase \in Pass =>
        /\ todo \in Seq(Plugins) /\ IsInjective(todo)
        /\ \A p \in Plugins : InTodo(p) => InQueue(p)
        /\ \A i, j \in DOMAIN todo :
              Requires(todo[i], todo[j]) =>
                  IF phase \in {"Running", "Deleted"} THEN i < j ELSE j < i

(* A pass calls the first plugin that is left, of those in the right state *)
(* whose dependencies have been called.                                    *)
CalledInTurn ==
    inCode # None /\ phase # "crashed" =>
        /\ phase \in Loading \cup {"Stopped"} /\ todo # << >> /\ inCode = Head(todo)
        /\ ~spec[inCode].hasError
        /\ spec[inCode].state = IF phase = "Stopped" THEN "Stopped" ELSE Before[phase]
        /\ phase \in {"Loaded", "Initialized"} =>
              \A q \in Plugins : Requires(inCode, q) => spec[q].state = phase

(* How far plugins are, by the phase: before, in and after a pass.         *)
Unloaded == {"Read", "Resolved"}

AsFarAs(p) ==
    /\ phase \in {"off", "options", "check", "load"} => Is(p, Unloaded)
    /\ phase = "Loaded" => Is(p, Unloaded \cup {"Loaded"})
    /\ phase = "Initialized" => Is(p, Unloaded \cup {"Loaded", "Initialized"})
    /\ phase = "Running" =>
        Is(p, Unloaded \cup IF InTodo(p) THEN {"Loaded", "Initialized"} ELSE {"Running", "Deleted"})
    /\ phase = "exec" => Is(p, Unloaded \cup {"Running", "Deleted"})
    /\ phase = "Stopped" =>
        Is(p, Unloaded \cup {"Deleted"} \cup
              IF InTodo(p) /\ p # inCode THEN {"Running"} ELSE {"Stopped"})
    /\ phase = "wait" => Is(p, Unloaded \cup {"Stopped", "Deleted"})
    /\ phase = "Deleted" =>
        Is(p, Unloaded \cup {"Deleted"} \cup IF InTodo(p) THEN {"Stopped"} ELSE {})

(* Who has been initialized requires who has been.                         *)
InitializedInOrder ==
    phase \in {"Initialized", "Running"} =>
        \A p, q \in Plugins : Requires(p, q) /\ Is(p, {"Initialized", "Running"})
                                 => Is(q, {"Initialized", "Running"})

(* What makes DependenciesOutlive inductive: types, the same queue in all  *)
(* passes, called in its order, with every plugin as far as the phase and  *)
(* its place say.                                                          *)
LifeIsTrue ==
    /\ AreTyped /\ ObjectIsState /\ QueueStays /\ InOrder /\ CalledInTurn
    /\ (\A p \in Plugins : AsFarAs(p)) /\ InitializedInOrder /\ DependenciesOutlive

------------------------------------------------------------------------------
(* The queue of this start is sorted.                                      *)
LEMMA QueueIsWell ==
    ASSUME config \in Configurations, hashOrder \in HashOrders, queue = Visited.queue
    PROVE  QueueIsSorted
<1>1. VisitedIsRight
  BY QueueOfStart, Zenon
<1>2. Sorted(queue, config.depends)
  BY <1>1 DEF VisitedIsRight, Visited
<1> QED
  BY <1>2 DEF Sorted, QueueIsSorted

(* In a sorted queue a plugin comes after those it requires.               *)
LEMMA QueueIsInOrder ==
    ASSUME QueueIsSorted, phase \in Pass
    PROVE  \A i, j \in DOMAIN queue : Requires(queue[i], queue[j]) => j < i
<1> SUFFICES ASSUME NEW i \in DOMAIN queue, NEW j \in DOMAIN queue, Requires(queue[i], queue[j])
             PROVE  j < i
  OBVIOUS
<1>1. DOMAIN queue = 1 .. Len(queue) /\ Len(queue) \in Nat /\ queue[j] \in Plugins
  BY DEF QueueIsSorted
<1>2. PICK k \in 1 .. i - 1 : queue[k] = queue[j]
  BY <1>1 DEF QueueIsSorted, Requires
<1>3. k \in DOMAIN queue
  BY <1>1
<1>4. k = j
  BY <1>2, <1>3 DEF QueueIsSorted, IsInjective
<1> QED
  BY <1>1, <1>2, <1>4

(* What reversing a queue without duplicates does to its places.           *)
LEMMA Reversed ==
    ASSUME NEW q \in Seq(Plugins), IsInjective(q)
    PROVE  /\ Reverse(q) \in Seq(Plugins) /\ IsInjective(Reverse(q))
           /\ DOMAIN Reverse(q) = DOMAIN q
           /\ \A i \in DOMAIN q : Reverse(q)[i] = q[Len(q) - i + 1] /\ Len(q) - i + 1 \in DOMAIN q
           /\ \A i, j \in DOMAIN q : i < j <=> Len(q) - j + 1 < Len(q) - i + 1
           /\ \A i \in DOMAIN q : Reverse(q)[Len(q) - i + 1] = q[i]
<1>1. DOMAIN q = 1 .. Len(q) /\ Len(q) \in Nat
  OBVIOUS
<1>2. \A i \in 1 .. Len(q) : /\ Len(q) - i + 1 \in 1 .. Len(q)
                             /\ Len(q) - (Len(q) - i + 1) + 1 = i
  BY <1>1
<1>3. DOMAIN Reverse(q) = 1 .. Len(q) /\ \A i \in 1 .. Len(q) : Reverse(q)[i] = q[Len(q) - i + 1]
  BY <1>1, <1>2 DEF Reverse
<1>4. Reverse(q) = [i \in 1 .. Len(q) |-> q[Len(q) - i + 1]]
  BY <1>1, <1>2 DEF Reverse
<1>5. \A i \in 1 .. Len(q) : q[i] \in Plugins
  BY <1>1
<1>6. Reverse(q) \in Seq(Plugins)
  <2> DEFINE r == [i \in 1 .. Len(q) |-> q[Len(q) - i + 1]]
  <2>1. r \in [1 .. Len(q) -> Plugins]
    BY <1>1, <1>2, <1>5
  <2> HIDE DEF r
  <2>2. r \in Seq(Plugins)
    BY <1>1, <2>1, SeqDef
  <2> QED
    BY <1>4, <2>2
<1>7. IsInjective(Reverse(q))
  <2> SUFFICES ASSUME NEW i \in 1 .. Len(q), NEW j \in 1 .. Len(q), Reverse(q)[i] = Reverse(q)[j]
               PROVE  i = j
    BY <1>3 DEF IsInjective
  <2>1. q[Len(q) - i + 1] = q[Len(q) - j + 1]
    BY <1>3
  <2>2. Len(q) - i + 1 = Len(q) - j + 1
    BY <1>1, <1>2, <2>1 DEF IsInjective
  <2> QED
    BY <1>1, <2>2
<1> QED
  BY <1>1, <1>2, <1>3, <1>6, <1>7

(* A pass starts with all of the queue, in its order.                      *)
LEMMA NewPass ==
    ASSUME AreTyped', queue' = Visited.queue', phase' \in Pass, todo' = Order(phase', queue')
    PROVE  InOrder' /\ \A p \in Plugins : InTodo(p)' <=> InQueue(p)'
<1>0. QueueIsSorted'
  <2>1. (AreTyped /\ queue = Visited.queue => QueueIsSorted)'
    BY QueueIsWell, PTL DEF AreTyped
  <2> QED
    BY <2>1
<1>1. /\ queue' \in Seq(Plugins) /\ IsInjective(queue')
      /\ \A i, j \in DOMAIN queue' : config'.depends[queue'[i]][queue'[j]] = "Required" => j < i
  <2>1. (QueueIsSorted /\ phase \in Pass
            => \A i, j \in DOMAIN queue : Requires(queue[i], queue[j]) => j < i)'
    BY QueueIsInOrder, PTL
  <2> QED
    BY <1>0, <2>1 DEF QueueIsSorted, Requires
<1>2. CASE phase' \in {"Running", "Deleted"}
  <2>1. todo' = Reverse(queue')
    BY <1>2 DEF Order
  <2>2. /\ todo' \in Seq(Plugins) /\ IsInjective(todo') /\ DOMAIN todo' = DOMAIN queue'
        /\ \A i \in DOMAIN queue' : /\ todo'[i] = queue'[Len(queue') - i + 1]
                                    /\ Len(queue') - i + 1 \in DOMAIN queue'
        /\ \A i, j \in DOMAIN queue' :
              i < j <=> Len(queue') - j + 1 < Len(queue') - i + 1
        /\ \A i \in DOMAIN queue' : todo'[Len(queue') - i + 1] = queue'[i]
    BY <1>1, <2>1, Reversed
  <2>3. \A p \in Plugins : InTodo(p)' <=> InQueue(p)'
    BY <2>2 DEF InTodo, InQueue
  <2>4. \A i, j \in DOMAIN todo' : config'.depends[todo'[i]][todo'[j]] = "Required" => i < j
    <3> SUFFICES ASSUME NEW i \in DOMAIN todo', NEW j \in DOMAIN todo',
                        config'.depends[todo'[i]][todo'[j]] = "Required"
                 PROVE  i < j
      OBVIOUS
    <3> DEFINE k == Len(queue') - i + 1
               l == Len(queue') - j + 1
    <3>1. /\ k \in DOMAIN queue' /\ l \in DOMAIN queue'
          /\ todo'[i] = queue'[k] /\ todo'[j] = queue'[l]
          /\ i < j <=> l < k
      BY <2>2
    <3> HIDE DEF k, l
    <3> QED
      BY <1>1, <3>1
  <2> QED
    BY <1>2, <2>2, <2>3, <2>4 DEF InOrder, Requires
<1>3. CASE phase' \notin {"Running", "Deleted"}
  <2>1. todo' = queue'
    BY <1>3 DEF Order
  <2> QED
    BY <1>1, <1>3, <2>1 DEF InOrder, Requires, InTodo, InQueue
<1> QED
  BY <1>2, <1>3

(* The plugin that is looked at: nothing that is left comes before it, and *)
(* without it, the rest is still in order.                                 *)
LEMMA AtHead ==
    ASSUME InOrder, NEW p \in Plugins, phase \in Pass, todo # << >>, p = Head(todo)
    PROVE  /\ InTodo(p)
           /\ \A q \in Plugins :
                 Requires(q, p) /\ phase \in {"Running", "Deleted"} => ~InTodo(q)
           /\ \A q \in Plugins :
                 Requires(p, q) /\ phase \notin {"Running", "Deleted"} => ~InTodo(q)
<1>1. todo \in Seq(Plugins) /\ 1 \in DOMAIN todo /\ todo[1] = p /\ DOMAIN todo = 1 .. Len(todo)
  BY DEF InOrder
<1>2. \A i \in DOMAIN todo : ~(i < 1)
  BY <1>1
<1> QED
  BY <1>1, <1>2 DEF InOrder, InTodo

(* Going on to the next plugin leaves the rest in order.                   *)
LEMMA Popped ==
    ASSUME InOrder, phase \in Pass, todo # << >>, todo' = Tail(todo),
           UNCHANGED <<config, phase, queue>>
    PROVE  InOrder' /\ \A q \in Plugins : InTodo(q)' <=> InTodo(q) /\ q # Head(todo)
<1>1. /\ todo \in Seq(Plugins) /\ todo' \in Seq(Plugins) /\ Len(todo) \in Nat \ {0}
      /\ DOMAIN todo = 1 .. Len(todo) /\ DOMAIN todo' = 1 .. Len(todo) - 1
      /\ Head(todo) = todo[1]
      /\ \A i \in 1 .. Len(todo) - 1 : todo'[i] = todo[i + 1]
  BY DEF InOrder
<1>2. \A i \in DOMAIN todo' : i + 1 \in DOMAIN todo /\ todo'[i] = todo[i + 1] /\ i + 1 # 1
  BY <1>1
<1>3. \A i \in DOMAIN todo : i # 1 => i - 1 \in DOMAIN todo' /\ todo'[i - 1] = todo[i]
  BY <1>1
<1>4. \A i, j \in DOMAIN todo : todo[i] = todo[j] => i = j
  BY DEF InOrder, IsInjective
<1>5. \A q \in Plugins : InTodo(q)' <=> InTodo(q) /\ q # Head(todo)
  <2> SUFFICES ASSUME NEW q \in Plugins PROVE InTodo(q)' <=> InTodo(q) /\ q # Head(todo)
    OBVIOUS
  <2>1. InTodo(q)' => InTodo(q) /\ q # Head(todo)
    BY <1>1, <1>2, <1>4 DEF InTodo
  <2>2. InTodo(q) /\ q # Head(todo) => InTodo(q)'
    BY <1>1, <1>3 DEF InTodo
  <2> QED
    BY <2>1, <2>2
<1>6. IsInjective(todo')
  BY <1>1, <1>2, <1>4 DEF IsInjective
<1>7. \A i, j \in DOMAIN todo' :
         Requires(todo[i], todo[j])' => IF phase \in {"Running", "Deleted"} THEN i < j ELSE j < i
  <2> SUFFICES ASSUME NEW i \in DOMAIN todo', NEW j \in DOMAIN todo', Requires(todo[i], todo[j])'
               PROVE  IF phase \in {"Running", "Deleted"} THEN i < j ELSE j < i
    OBVIOUS
  <2>1. Requires(todo[i + 1], todo[j + 1])
    BY <1>2 DEF Requires
  <2>2. IF phase \in {"Running", "Deleted"} THEN i + 1 < j + 1 ELSE j + 1 < i + 1
    BY <1>2, <2>1 DEF InOrder
  <2> QED
    BY <1>1, <2>2
<1>8. \A q \in Plugins : InTodo(q)' => InQueue(q)'
  BY <1>5 DEF InOrder, InQueue
<1> QED
  BY <1>1, <1>5, <1>6, <1>7, <1>8 DEF InOrder

------------------------------------------------------------------------------
(* What prepares the plugins leaves their states and objects alone.        *)
SameObjects(old, new) ==
    /\ new \in [Plugins -> PluginSpec]
    /\ \A p \in Plugins : new[p].state = old[p].state /\ new[p].plugin = old[p].plugin

(* Setting a mark of some plugins leaves the rest of them alone.           *)
LEMMA Marked ==
    ASSUME NEW specs \in [Plugins -> PluginSpec], NEW S
    PROVE  /\ SameObjects(specs, EnabledIndirectly(specs, S))
           /\ SameObjects(specs, WithErrors(specs, S))
           /\ SameObjects(specs, SetForce(specs, S, "Enabled"))
           /\ SameObjects(specs, SetForce(specs, S, "Disabled"))
           /\ \A p \in Plugins : WithErrors(specs, S)[p].hasError <=> specs[p].hasError \/ p \in S
<1> USE DEF SameObjects, PluginSpec
<1>1. SameObjects(specs, EnabledIndirectly(specs, S))
  <2>1. ASSUME NEW p \in Plugins, NEW b \in BOOLEAN
        PROVE  LET new == [specs[p] EXCEPT !.enabledIndirectly = b] IN
               /\ specs[p] \in PluginSpec /\ new \in PluginSpec
               /\ new.state = specs[p].state /\ new.plugin = specs[p].plugin
    OBVIOUS
  <2> HIDE DEF PluginSpec
  <2>2. EnabledIndirectly(specs, S) =
           [p \in Plugins |-> [specs[p] EXCEPT !.enabledIndirectly = p \in S]]
    BY DEF EnabledIndirectly
  <2> DEFINE new == EnabledIndirectly(specs, S)
  <2>3. new \in [Plugins -> PluginSpec]
    <3>1. ASSUME NEW p \in Plugins
          PROVE  [specs[p] EXCEPT !.enabledIndirectly = p \in S] \in PluginSpec
      <4>1. (p \in S) \in BOOLEAN
        OBVIOUS
      <4> QED
        BY <2>1, <4>1
    <3> QED
      BY <2>2, <3>1
  <2>4. \A p \in Plugins : new[p].state = specs[p].state /\ new[p].plugin = specs[p].plugin
    <3> SUFFICES ASSUME NEW p \in Plugins
                 PROVE  new[p].state = specs[p].state /\ new[p].plugin = specs[p].plugin
      OBVIOUS
    <3>1. new[p] = [specs[p] EXCEPT !.enabledIndirectly = p \in S]
      BY <2>2
    <3> QED
      BY <2>1, <3>1
  <2> HIDE DEF new
  <2> QED
    BY <2>3, <2>4 DEF new
<1>2. /\ SameObjects(specs, WithErrors(specs, S))
      /\ \A p \in Plugins : WithErrors(specs, S)[p].hasError <=> specs[p].hasError \/ p \in S
  <2>1. ASSUME NEW p \in Plugins, NEW b \in BOOLEAN
        PROVE  LET new == [specs[p] EXCEPT !.hasError = b] IN
               /\ specs[p] \in PluginSpec /\ new \in PluginSpec /\ new.hasError = b
               /\ new.state = specs[p].state /\ new.plugin = specs[p].plugin
    OBVIOUS
  <2>2. \A p \in Plugins : specs[p].hasError \in BOOLEAN
    OBVIOUS
  <2> HIDE DEF PluginSpec
  <2>3. WithErrors(specs, S) =
           [p \in Plugins |-> [specs[p] EXCEPT !.hasError = specs[p].hasError \/ p \in S]]
    BY DEF WithErrors
  <2>4. \A p \in Plugins : (specs[p].hasError \/ p \in S) \in BOOLEAN
    OBVIOUS
  <2> QED
    BY <2>1, <2>3, <2>4
<1>3. ASSUME NEW force \in {"Enabled", "Disabled"}
      PROVE  SameObjects(specs, SetForce(specs, S, force))
  <2>1. ASSUME NEW p \in Plugins
        PROVE  /\ specs[p] \in PluginSpec /\ [specs[p] EXCEPT !.force = force] \in PluginSpec
               /\ [specs[p] EXCEPT !.force = force].state = specs[p].state
               /\ [specs[p] EXCEPT !.force = force].plugin = specs[p].plugin
    BY <1>3
  <2> HIDE DEF PluginSpec
  <2> QED
    BY <2>1 DEF SetForce
<1> QED
  BY <1>1, <1>2, <1>3

(* The ways in which one plugin changes.                                   *)
LEMMA OneChanges ==
    ASSUME NEW specs \in [Plugins -> PluginSpec], NEW p \in Plugins, NEW s \in State
    PROVE  /\ [specs EXCEPT ![p].hasError = TRUE] \in [Plugins -> PluginSpec]
           /\ [specs EXCEPT ![p].state = s] \in [Plugins -> PluginSpec]
           /\ [specs EXCEPT ![p].state = s, ![p].plugin = TRUE] \in [Plugins -> PluginSpec]
           /\ kill(specs, p) \in [Plugins -> PluginSpec]
<1> USE DEF PluginSpec
<1>1. [specs EXCEPT ![p].hasError = TRUE] \in [Plugins -> PluginSpec]
  OBVIOUS
<1>2. [specs EXCEPT ![p].state = s] \in [Plugins -> PluginSpec]
  OBVIOUS
<1>3. [specs EXCEPT ![p].state = s, ![p].plugin = TRUE] \in [Plugins -> PluginSpec]
  OBVIOUS
<1>4. kill(specs, p) \in [Plugins -> PluginSpec]
  <2>1. [specs EXCEPT ![p].plugin = FALSE, ![p].state = "Deleted"] \in [Plugins -> PluginSpec]
    <3>1. "Deleted" \in State
      BY DEF State, Pass
    <3> QED
      BY <3>1
  <2> QED
    BY <2>1 DEF kill
<1> QED
  BY <1>1, <1>2, <1>3, <1>4

(* The plugins a start reads have their type.                              *)
LEMMA NewOnes ==
    ASSUME config \in Configurations
    PROVE  NewSpecs \in [Plugins -> PluginSpec]
  BY DEF NewSpecs, PluginSpec, State

(* What happens between a start and its first pass.                        *)
Preparing ==
    \/ parseNoOptions \/ continueWithPlugins \/ disableProblematicPlugin
    \/ \E p \in Plugins : checkForLoadOption(p) \/ checkForNoLoadOption(p)

(* What happens before the first pass leaves states and objects alone.     *)
LEMMA Prepared ==
    ASSUME AreTyped, Preparing
    PROVE  SameObjects(spec, spec')
<1>1. spec \in [Plugins -> PluginSpec] /\ SameObjects(spec, spec)
  BY DEF AreTyped, SameObjects
<1>2. ASSUME NEW s \in [Plugins -> PluginSpec], SameObjects(spec, s)
      PROVE  SameObjects(spec, enableDependenciesIndirectly(s))
  <2>1. SameObjects(s, enableDependenciesIndirectly(s))
    BY Marked DEF enableDependenciesIndirectly
  <2> QED
    BY <1>2, <2>1 DEF SameObjects
<1>3. ASSUME NEW p \in Plugins PROVE DisableTemporarily(p) => SameObjects(spec, spec')
  <2> DEFINE q == loadQueue
             S == {p} \cup pluginsRequiringPlugin(q.queue, p)
             s == WithErrors(spec, q.errors)
             t == SetForce(s, S, "Disabled")
  <2>1. DisableTemporarily(p) => spec' = enableDependenciesIndirectly(t)
    BY DEF DisableTemporarily
  <2>2. SameObjects(spec, s)
    BY <1>1, Marked
  <2>3. SameObjects(s, t)
    <3> HIDE DEF S, q, s
    <3> QED
      BY <2>2, Marked DEF SameObjects
  <2>4. t \in [Plugins -> PluginSpec] /\ SameObjects(spec, t)
    BY <2>2, <2>3 DEF SameObjects
  <2> HIDE DEF t
  <2> QED
    BY <1>2, <2>1, <2>4
<1>4. CASE parseNoOptions
  BY <1>1, <1>4 DEF parseNoOptions
<1>5. CASE continueWithPlugins
  <2>1. spec' = spec \/ spec' = WithErrors(spec, loadQueue.errors)
    BY <1>5 DEF continueWithPlugins
  <2> QED
    BY <1>1, <2>1, Marked
<1>6. CASE disableProblematicPlugin
  BY <1>3, <1>6 DEF disableProblematicPlugin
<1>7. ASSUME NEW p \in Plugins, checkForLoadOption(p) PROVE SameObjects(spec, spec')
  <2> DEFINE t == SetForce(spec, {p}, "Enabled")
  <2>1. spec' = enableDependenciesIndirectly(t)
    BY <1>7 DEF checkForLoadOption
  <2>2. t \in [Plugins -> PluginSpec] /\ SameObjects(spec, t)
    BY <1>1, Marked DEF SameObjects
  <2> HIDE DEF t
  <2> QED
    BY <1>2, <2>1, <2>2
<1>8. ASSUME NEW p \in Plugins, checkForNoLoadOption(p) PROVE SameObjects(spec, spec')
  BY <1>3, <1>8 DEF checkForNoLoadOption
<1> QED
  BY <1>4, <1>5, <1>6, <1>7, <1>8 DEF Preparing

(* At first no plugin has an object.                                       *)
LEMMA LifeStarts == Init => LifeIsTrue
<1> SUFFICES ASSUME Init PROVE LifeIsTrue
  OBVIOUS
<1> USE DEF Init, NewSpecs, Is
<1>1. config \in Configuration
  BY ConstantsAssumption
<1>2. AreTyped
  BY NewOnes DEF AreTyped, Phase
<1> QED
  BY <1>2 DEF LifeIsTrue, ObjectIsState, QueueStays, InOrder, CalledInTurn, AsFarAs,
      InitializedInOrder, DependenciesOutlive, Alive, Unloaded, Pass, Loading

(* Every step keeps the types.                                             *)
LEMMA TypesStay == AreTyped /\ [Next]_vars => AreTyped'
<1> SUFFICES ASSUME AreTyped, [Next]_vars PROVE AreTyped'
  OBVIOUS
<1> USE DEF AreTyped, startVars, passVars
<1>1. CASE UNCHANGED vars
  BY <1>1 DEF vars
<1>2. CASE setPluginPaths
  <2>1. NewSpecs \in [Plugins -> PluginSpec]
    BY NewOnes
  <2>2. enableDependenciesIndirectly(NewSpecs) \in [Plugins -> PluginSpec]
    BY <2>1, Marked DEF enableDependenciesIndirectly, SameObjects
  <2> QED
    BY <1>2, <2>2 DEF setPluginPaths, Phase
<1>3. CASE crash
  BY <1>3, NewOnes DEF crash, Phase
<1>4. CASE Preparing
  <2>1. /\ phase' \in {"check", "load"}
        /\ UNCHANGED <<config, hashOrder, inCode>>
    BY <1>4 DEF Preparing, parseNoOptions, continueWithPlugins, disableProblematicPlugin,
                checkForLoadOption, checkForNoLoadOption, Prepares
  <2> QED
    BY <1>4, <2>1, Prepared DEF SameObjects, Phase
<1>5. CASE loadPlugins \/ shutdown \/ deleteAll
  <2>1. /\ phase' \in Pass /\ inCode' = None
        /\ spec' = WithErrors(spec, loadQueue.errors)
        /\ UNCHANGED <<config, hashOrder>>
    BY <1>5 DEF loadPlugins, shutdown, deleteAll, StartPass, Pass, Loading
  <2> QED
    BY <2>1, Marked DEF SameObjects, Phase
<1>6. CASE initializePlugins \/ runPlugins \/ pluginsAreLoaded \/ nextDelayedInitialize
  BY <1>6 DEF initializePlugins, runPlugins, pluginsAreLoaded, nextDelayedInitialize, Phase, Pass,
       Loading
<1>7. CASE waitForAsynchronousPlugins \/ end
  BY <1>7 DEF waitForAsynchronousPlugins, end, Phase, Pass, Loading
<1>8. ASSUME NEW p \in Plugins, loadPluginPassesOver(p) \/ loadPluginRefuses(p) \/ deletePlugin(p)
      PROVE  AreTyped'
  <2>1. UNCHANGED <<config, hashOrder, phase, inCode>>
    BY <1>8 DEF loadPluginPassesOver, loadPluginRefuses, deletePlugin
  <2>2. \/ spec' = spec \/ spec' = kill(spec, p)
        \/ spec' = [spec EXCEPT ![p].hasError = TRUE]
    BY <1>8 DEF loadPluginPassesOver, loadPluginRefuses, deletePlugin, CleanedUp
  <2>3. spec \in [Plugins -> PluginSpec] /\ "Read" \in State
    BY DEF State
  <2>4. /\ kill(spec, p) \in [Plugins -> PluginSpec]
        /\ [spec EXCEPT ![p].hasError = TRUE] \in [Plugins -> PluginSpec]
    BY <2>3, OneChanges
  <2>5. spec' \in [Plugins -> PluginSpec]
    BY <2>2, <2>3, <2>4
  <2> QED
    BY <2>1, <2>5
<1>9. ASSUME NEW p \in Plugins, loadPluginCalls(p)
      PROVE  AreTyped'
  <2>1. spec' = spec \/ spec' = [spec EXCEPT ![p].state = "Stopped"]
    BY <1>9 DEF loadPluginCalls
  <2>2. "Stopped" \in State
    BY DEF State, Pass
  <2> QED
    BY <1>9, <2>1, <2>2, OneChanges DEF loadPluginCalls
<1>10. ASSUME NEW p \in Plugins, PluginCode(p)
       PROVE  AreTyped'
  <2>1. inCode' = None /\ UNCHANGED <<config, hashOrder, phase>>
    BY <1>10 DEF PluginCode, pluginSucceeds, pluginFails, initializeExtensions, stopReturns, Returns
  <2>2. \/ spec' = spec \/ spec' = [spec EXCEPT ![p].hasError = TRUE]
        \/ spec' = [spec EXCEPT ![p].state = "Running"]
        \/ phase \in State /\ spec' = [spec EXCEPT ![p].state = phase, ![p].plugin = TRUE]
    BY <1>10 DEF PluginCode, pluginSucceeds, pluginFails, initializeExtensions, stopReturns,
                 State, Pass, Loading
  <2>3. "Running" \in State
    BY DEF State, Pass, Loading
  <2>4. spec \in [Plugins -> PluginSpec]
    OBVIOUS
  <2>5. /\ [spec EXCEPT ![p].hasError = TRUE] \in [Plugins -> PluginSpec]
        /\ [spec EXCEPT ![p].state = "Running"] \in [Plugins -> PluginSpec]
        /\ phase \in State =>
                [spec EXCEPT ![p].state = phase, ![p].plugin = TRUE] \in [Plugins -> PluginSpec]
    BY <2>3, <2>4, OneChanges
  <2>6. spec' \in [Plugins -> PluginSpec]
    BY <2>2, <2>4, <2>5
  <2> QED
    BY <2>1, <2>6
<1>11. ASSUME NEW p \in Plugins, asynchronousShutdownFinished(p)
       PROVE  AreTyped'
  BY <1>11 DEF asynchronousShutdownFinished, Phase
<1> QED
  BY <1>1, <1>2, <1>3, <1>4, <1>5, <1>6, <1>7, <1>8, <1>9, <1>10, <1>11 DEF Next, Manages, Preparing

------------------------------------------------------------------------------
(* A plugin of which nothing changes is still as far as it was.            *)
LEMMA StillAsFar ==
    ASSUME NEW q \in Plugins, AsFarAs(q), phase' = phase, spec'[q].state = spec[q].state,
           InTodo(q)' <=> InTodo(q), q # inCode, q # inCode'
    PROVE  AsFarAs(q)'
<1> DEFINE before == InTodo(q)
           after == InTodo(q)'
<1>1. before \in BOOLEAN /\ after \in BOOLEAN /\ (after <=> before)
  BY DEF InTodo
<1>2. CASE before
  BY <1>1, <1>2 DEF AsFarAs, Is
<1>3. CASE ~before
  BY <1>1, <1>3 DEF AsFarAs, Is
<1> QED
  BY <1>2, <1>3

(* Steps that neither change a plugin nor go on with a pass.               *)
LEMMA Stands ==
    ASSUME LifeIsTrue, AreTyped',
           UNCHANGED <<config, hashOrder, spec, queue, todo, inCode>>,
           phase' \in {phase, "crashed"} \/ (phase' = "ended" /\ inCode = None)
    PROVE  LifeIsTrue'
<1>1. Visited' = Visited /\ \A p \in Plugins : InTodo(p)' = InTodo(p) /\ InQueue(p)' = InQueue(p)
  BY DEF InTodo, InQueue, Visited
<1> USE DEF LifeIsTrue, Is, Requires
<1>2. ObjectIsState' /\ DependenciesOutlive'
  BY DEF ObjectIsState, DependenciesOutlive
<1>3. QueueStays' /\ InOrder'
  <2>1. phase' \in Pass \cup {"exec", "wait"} => phase' = phase
    BY DEF Pass, Loading
  <2>2. QueueStays'
    BY <1>1, <2>1 DEF QueueStays
  <2>3. InOrder'
    BY <1>1, <2>1 DEF InOrder
  <2> QED
    BY <2>2, <2>3
<1>4. CalledInTurn' /\ InitializedInOrder'
  BY DEF CalledInTurn, InitializedInOrder
<1>5. \A p \in Plugins : AsFarAs(p)'
  BY <1>1 DEF AsFarAs
<1> QED
  BY <1>2, <1>3, <1>4, <1>5

(* Before the first pass no plugin has an object.                          *)
LEMMA Unborn ==
    ASSUME ObjectIsState', \A p \in Plugins : Is(p, Unloaded)', AreTyped', inCode' = None,
           phase' \in {"off", "options", "check", "load"}
    PROVE  LifeIsTrue'
<1>1. \A p \in Plugins : ~spec'[p].plugin
  BY DEF ObjectIsState, Is, Unloaded, Alive
<1> QED
  BY <1>1 DEF LifeIsTrue, QueueStays, InOrder, CalledInTurn, AsFarAs, InitializedInOrder,
       DependenciesOutlive, Pass, Loading

(* A new start, a crash and what comes before the first pass.              *)
LEMMA Restarts ==
    ASSUME LifeIsTrue, AreTyped', setPluginPaths \/ crash \/ Preparing
    PROVE  LifeIsTrue'
<1>1. config' = config /\ phase' \in {"off", "options", "check", "load"}
  BY DEF setPluginPaths, crash, startVars, Preparing, parseNoOptions, continueWithPlugins,
         disableProblematicPlugin, checkForLoadOption, checkForNoLoadOption, Prepares
<1>2. CASE setPluginPaths \/ crash
  <2>1. /\ NewSpecs \in [Plugins -> PluginSpec]
        /\ \A p \in Plugins : /\ NewSpecs[p].state =
                                IF p \in config.unresolved THEN "Read" ELSE "Resolved"
                              /\ ~NewSpecs[p].plugin
    BY NewOnes DEF LifeIsTrue, AreTyped, NewSpecs
  <2>2. spec' = NewSpecs \/ spec' = enableDependenciesIndirectly(NewSpecs)
    BY <1>2 DEF setPluginPaths, crash
  <2>3. SameObjects(NewSpecs, spec')
    BY <2>1, <2>2, Marked DEF enableDependenciesIndirectly, SameObjects
  <2>4. inCode' = None
    BY <1>2 DEF setPluginPaths, crash
  <2>5. ObjectIsState' /\ \A p \in Plugins : Is(p, Unloaded)'
    BY <1>1, <2>1, <2>3 DEF SameObjects, ObjectIsState, Is, Alive, Unloaded
  <2> QED
    BY <1>1, <2>4, <2>5, Unborn
<1>3. CASE Preparing
  <2>1. phase \in {"options", "check"} /\ inCode' = inCode
    BY <1>3 DEF Preparing, parseNoOptions, continueWithPlugins, passVars,
         disableProblematicPlugin, checkForLoadOption, checkForNoLoadOption, Prepares
  <2>2. SameObjects(spec, spec')
    BY <1>3, Prepared DEF LifeIsTrue
  <2>3. inCode' = None
    BY <2>1 DEF LifeIsTrue, CalledInTurn, Loading
  <2>4. \A p \in Plugins : Is(p, Unloaded)'
    BY <2>1, <2>2 DEF LifeIsTrue, AsFarAs, SameObjects, Is
  <2>5. ObjectIsState'
    BY <1>1, <2>2 DEF LifeIsTrue, SameObjects, ObjectIsState, Is
  <2> QED
    BY <1>1, <2>3, <2>4, <2>5, Unborn
<1> QED
  BY <1>2, <1>3

(* A pass that computes the queue finds the one that it knows.             *)
LEMMA PassStarts ==
    ASSUME LifeIsTrue, AreTyped',
           loadPlugins \/ shutdown \/ deleteAll
    PROVE  LifeIsTrue'
<1> DEFINE dest == phase'
<1>1. /\ dest \in {"Loaded", "Stopped", "Deleted"}
      /\ spec' = WithErrors(spec, loadQueue.errors)
      /\ queue' = loadQueue.queue /\ todo' = Order(dest, queue') /\ inCode' = None
      /\ UNCHANGED <<config, hashOrder>>
      /\ dest = "Loaded" => phase = "load"
      /\ dest = "Stopped" => phase = "exec"
      /\ dest = "Deleted" =>
            \/ phase = "wait"
            \/ phase = "Stopped" /\ todo = << >> /\ inCode = None
  <2>1. CASE loadPlugins
    BY <2>1 DEF loadPlugins, StartPass, startVars
  <2>2. CASE shutdown
    <3>1. phase = "exec" /\ phase' = "Stopped"
      BY <2>2 DEF shutdown, StartPass
    <3>2. /\ spec' = WithErrors(spec, loadQueue.errors)
          /\ queue' = loadQueue.queue /\ todo' = Order("Stopped", queue') /\ inCode' = None
          /\ UNCHANGED <<config, hashOrder>>
      BY <2>2 DEF shutdown, StartPass, startVars
    <3> QED
      BY <3>1, <3>2
  <2>3. CASE deleteAll
    BY <2>3 DEF deleteAll, PassIsOver, StartPass, startVars
  <2> QED
    BY <2>1, <2>2, <2>3
<1>2. loadQueue = Visited
  <2>1. {p \in Plugins : spec[p].state = "Read"} = config.unresolved
    BY ConstantsAssumption DEF LifeIsTrue, ObjectIsState, AreTyped, Configuration
  <2> QED
    BY <2>1 DEF loadQueue, Visited
<1>3. /\ phase' = dest /\ phase' \in Pass /\ inCode' = None
      /\ spec' = WithErrors(spec, Visited.errors)
      /\ queue' = Visited.queue /\ todo' = Order(dest, queue')
      /\ Visited' = Visited /\ config' = config
  BY <1>1, <1>2 DEF Pass, Loading, Visited
<1>4. InOrder' /\ \A p \in Plugins : InTodo(p)' <=> InQueue(p)'
  BY <1>3, NewPass
<1>5. /\ SameObjects(spec, spec')
      /\ \A p \in Plugins : spec'[p].hasError <=> spec[p].hasError \/ p \in Visited.errors
  BY <1>3, Marked DEF LifeIsTrue, AreTyped
<1>6. \A p \in Plugins : Is(p, Alive) =>
         dest # "Loaded" /\ InQueue(p)' /\ (Is(p, Well) => ~spec'[p].hasError)
  <2> SUFFICES ASSUME NEW p \in Plugins, Is(p, Alive)
               PROVE  dest # "Loaded" /\ InQueue(p)' /\ (Is(p, Well) => ~spec'[p].hasError)
    OBVIOUS
  <2>1. dest # "Loaded"
    BY <1>1 DEF LifeIsTrue, AsFarAs, Is, Alive, Unloaded
  <2>2. phase \in Pass \cup {"exec", "wait"}
    BY <1>1, <2>1 DEF Pass
  <2> QED
    BY <1>3, <1>5, <2>1, <2>2 DEF LifeIsTrue, QueueStays, InQueue
<1> USE DEF SameObjects, Is
<1>7. ObjectIsState' /\ DependenciesOutlive'
  BY <1>3, <1>5 DEF LifeIsTrue, ObjectIsState, DependenciesOutlive, Requires
<1>8. QueueStays'
  BY <1>3, <1>5, <1>6 DEF QueueStays, Alive, Well
<1>9. CalledInTurn' /\ InitializedInOrder'
  BY <1>1, <1>3 DEF CalledInTurn, InitializedInOrder
<1>10. \A p \in Plugins : AsFarAs(p)'
  <2> SUFFICES ASSUME NEW p \in Plugins PROVE AsFarAs(p)'
    OBVIOUS
  <2>1. InTodo(p) => todo # << >>
    BY DEF InTodo
  <2>2. AsFarAs(p) /\ spec'[p].state = spec[p].state /\ inCode' = None
    BY <1>3, <1>5 DEF LifeIsTrue
  <2>3. Is(p, Alive) => InTodo(p)'
    BY <1>4, <1>6
  <2>4. CASE dest = "Loaded"
    BY <1>1, <2>2, <2>4 DEF AsFarAs
  <2>5. CASE dest = "Stopped"
    <3>1. spec[p].state \in Unloaded \cup {"Running", "Deleted"}
      BY <1>1, <2>2, <2>5 DEF AsFarAs
    <3>2. spec[p].state = "Running" => InTodo(p)'
      BY <2>3 DEF Alive
    <3> QED
      BY <2>2, <2>5, <3>1, <3>2, ConstantsAssumption DEF AsFarAs
  <2>6. CASE dest = "Deleted"
    <3>1. spec[p].state \in Unloaded \cup {"Stopped", "Deleted"}
      BY <1>1, <2>1, <2>2, <2>6 DEF AsFarAs
    <3>2. spec[p].state = "Stopped" => InTodo(p)'
      BY <2>3 DEF Alive
    <3> QED
      BY <2>2, <2>6, <3>1, <3>2 DEF AsFarAs
  <2> QED
    BY <1>1, <2>4, <2>5, <2>6
<1> QED
  BY <1>4, <1>7, <1>8, <1>9, <1>10 DEF LifeIsTrue

(* From one pass to the next, with the same queue.                         *)
LEMMA PassFollows ==
    ASSUME LifeIsTrue, AreTyped',
           \/ initializePlugins \/ runPlugins \/ pluginsAreLoaded
           \/ waitForAsynchronousPlugins
    PROVE  LifeIsTrue'
<1>1. /\ UNCHANGED <<config, hashOrder, spec, queue, inCode>>
      /\ inCode = None /\ todo = << >>
      /\ \/ phase = "Loaded" /\ phase' = "Initialized" /\ todo' = Order(phase', queue')
         \/ phase = "Initialized" /\ phase' = "Running" /\ todo' = Order(phase', queue')
         \/ phase = "Running" /\ phase' = "exec"
         \/ phase = "Stopped" /\ phase' = "wait"
  BY DEF initializePlugins, runPlugins, pluginsAreLoaded, waitForAsynchronousPlugins, PassIsOver,
         startVars, passVars
<1>2. /\ phase \in Pass /\ queue' = Visited.queue /\ Visited' = Visited
      /\ \A p \in Plugins : /\ ~InTodo(p)
                            /\ InQueue(p)' = InQueue(p)
  BY <1>1 DEF LifeIsTrue, QueueStays, Pass, Loading, Visited, InTodo, InQueue
<1>3. QueueStays'
  BY <1>1, <1>2 DEF LifeIsTrue, QueueStays, Is
<1>4. InOrder' /\ (phase' \in Pass => \A p \in Plugins : InTodo(p)' <=> InQueue(p)')
  <2>1. CASE phase' \in Pass
    <3>1. queue' = Visited.queue' /\ todo' = Order(phase', queue')
      BY <1>1, <1>2, <2>1 DEF Pass, Loading
    <3> QED
      BY <2>1, <3>1, NewPass
  <2> QED
    BY <2>1 DEF InOrder
<1>5. ObjectIsState' /\ DependenciesOutlive'
  BY <1>1 DEF LifeIsTrue, ObjectIsState, DependenciesOutlive, Requires, Is
<1>6. CalledInTurn'
  BY <1>1 DEF CalledInTurn
<1>7. \A p \in Plugins : AsFarAs(p)'
  <2> SUFFICES ASSUME NEW p \in Plugins PROVE AsFarAs(p)'
    OBVIOUS
  <2>1. AsFarAs(p) /\ spec'[p].state = spec[p].state /\ ~InTodo(p)
    BY <1>1, <1>2 DEF LifeIsTrue
  <2>2. phase \in Pass => (Is(p, Alive) => InQueue(p))
    BY DEF LifeIsTrue, QueueStays
  <2>3. phase' = "Running" => (Is(p, {"Loaded", "Initialized"}) => InTodo(p)')
    BY <1>2, <1>4, <2>2 DEF Is, Alive, Pass, Loading
  <2> QED
    BY <1>1, <2>1, <2>3 DEF AsFarAs, Is, Unloaded
<1>8. InitializedInOrder'
  <2> SUFFICES ASSUME NEW p \in Plugins, NEW q \in Plugins, Requires(p, q)',
                      Is(p, {"Initialized", "Running"})', phase' \in {"Initialized", "Running"}
               PROVE  Is(q, {"Initialized", "Running"})'
    BY DEF InitializedInOrder
  <2>1. Requires(p, q) /\ Is(p, {"Initialized", "Running"}) /\ AsFarAs(p)
    BY <1>1 DEF Requires, Is, LifeIsTrue
  <2>2. phase = "Initialized"
    BY <1>1, <2>1 DEF AsFarAs, Is, Unloaded
  <2> QED
    BY <1>1, <2>1, <2>2 DEF LifeIsTrue, InitializedInOrder, Is
<1> QED
  BY <1>3, <1>4, <1>5, <1>6, <1>7, <1>8 DEF LifeIsTrue

(* A pass passes over a plugin, and cleans it up if all were to run; in    *)
(* the last one it deletes the plugin.                                     *)
LEMMA PassesOver ==
    ASSUME LifeIsTrue, AreTyped', NEW p \in Plugins, loadPluginPassesOver(p) \/ deletePlugin(p)
    PROVE  LifeIsTrue'
<1>1. /\ phase \in Pass /\ todo # << >> /\ p = Head(todo) /\ inCode = None /\ inCode' = None
      /\ todo' = Tail(todo) /\ UNCHANGED <<config, hashOrder, phase, queue>>
  BY DEF loadPluginPassesOver, deletePlugin, AtPlugin, startVars
<1>2. InOrder' /\ \A q \in Plugins : InTodo(q)' <=> InTodo(q) /\ q # p
  BY <1>1, Popped DEF LifeIsTrue
<1>3. /\ InTodo(p)
      /\ \A q \in Plugins : Requires(q, p) /\ phase \in {"Running", "Deleted"} => ~InTodo(q)
  BY <1>1, AtHead DEF LifeIsTrue
<1>4. /\ \A q \in Plugins \ {p} : spec'[q] = spec[q]
      /\ spec'[p].hasError = spec[p].hasError
      /\ IF /\ spec[p].plugin /\ phase \in {"Running", "Deleted"}
            /\ phase = "Deleted" => ~passedOver(p)
         THEN ~spec'[p].plugin /\ spec'[p].state = "Deleted"
         ELSE spec'[p] = spec[p]
  <2>1. spec \in [Plugins -> PluginSpec]
    BY DEF LifeIsTrue, AreTyped
  <2> QED
    BY <1>1, <2>1 DEF loadPluginPassesOver, deletePlugin, AtPlugin, CleanedUp, kill, PluginSpec
<1>5. Visited' = Visited /\ \A q \in Plugins : InQueue(q)' = InQueue(q)
  BY <1>1 DEF Visited, InQueue
<1>6. ObjectIsState'
  BY <1>1, <1>4 DEF LifeIsTrue, ObjectIsState, Is, Alive
<1>7. QueueStays'
  BY <1>1, <1>4, <1>5 DEF LifeIsTrue, QueueStays, Is, Alive, Well
<1>8. CalledInTurn'
  BY <1>1 DEF CalledInTurn
<1>9. /\ phase = "Running" => spec[p].state \in Unloaded \cup {"Loaded"}
      /\ phase = "Stopped" => spec[p].state \in Unloaded \cup {"Deleted"}
      /\ phase = "Deleted" /\ passedOver(p) => spec[p].state \in Unloaded \cup {"Deleted"}
  <2>1. AsFarAs(p) /\ (spec[p].state \in Well => ~spec[p].hasError)
    BY <1>1 DEF LifeIsTrue, QueueStays, Is
  <2>2. ASSUME phase \in {"Running", "Stopped", "Deleted"}, phase = "Deleted" => passedOver(p)
        PROVE  spec[p].hasError \/ spec[p].state # Before[phase]
    BY <2>2 DEF loadPluginPassesOver, deletePlugin, passedOver
  <2>3. /\ Before["Running"] = "Initialized" /\ Before["Stopped"] = "Running"
        /\ Before["Deleted"] = "Stopped"
    BY DEF Before, Pass, Loading
  <2> QED
    BY <1>1, <1>3, <2>1, <2>2, <2>3, ConstantsAssumption DEF AsFarAs, Is, Well
<1>10. \A q \in Plugins : AsFarAs(q)'
  <2>1. ASSUME NEW q \in Plugins, q # p PROVE AsFarAs(q)'
    <3>1. AsFarAs(q) /\ spec'[q] = spec[q] /\ (InTodo(q)' <=> InTodo(q)) /\ q # None
      BY <1>2, <1>4, <2>1, ConstantsAssumption DEF LifeIsTrue
    <3> QED
      BY <1>1, <3>1, StillAsFar
  <2>2. AsFarAs(p)'
    <3>1. AsFarAs(p) /\ ~InTodo(p)' /\ (spec[p].plugin <=> spec[p].state \in Alive)
      BY <1>2 DEF LifeIsTrue, ObjectIsState, Is
    <3> QED
      BY <1>1, <1>4, <1>9, <3>1 DEF AsFarAs, Is, Alive, Unloaded, Pass, Loading
  <2> QED
    BY <2>1, <2>2
<1>11. ASSUME NEW q \in Plugins, Requires(q, p), spec'[q].plugin, ~spec'[p].plugin
       PROVE  FALSE
  <2>1. spec[q].plugin /\ spec[p].plugin /\ q # p
    BY <1>4, <1>11 DEF LifeIsTrue, DependenciesOutlive
  <2>2. phase \in {"Running", "Deleted"} /\ ~InTodo(q)
    BY <1>3, <1>4, <1>11, <2>1
  <2>3. spec[q].state \in Alive /\ AsFarAs(q)
    BY <2>1 DEF LifeIsTrue, ObjectIsState, Is
  <2>4. phase = "Running" /\ spec[q].state = "Running"
    BY <2>2, <2>3 DEF AsFarAs, Is, Alive, Unloaded
  <2>5. spec[p].state \in {"Initialized", "Running"}
    BY <1>11, <2>4 DEF LifeIsTrue, InitializedInOrder, Is
  <2> QED
    BY <1>9, <2>4, <2>5 DEF Unloaded
<1>12. DependenciesOutlive'
  <2> SUFFICES ASSUME NEW q \in Plugins, NEW r \in Plugins, Requires(q, r), spec'[q].plugin
               PROVE  spec'[r].plugin
    BY <1>1 DEF DependenciesOutlive, Requires
  <2>1. spec[q].plugin /\ spec[r].plugin
    BY <1>4 DEF LifeIsTrue, DependenciesOutlive
  <2> QED
    BY <1>4, <1>11, <2>1
<1>13. InitializedInOrder'
  <2> SUFFICES ASSUME NEW q \in Plugins, NEW r \in Plugins, Requires(q, r),
                      spec'[q].state \in {"Initialized", "Running"},
                      phase \in {"Initialized", "Running"}
               PROVE  spec'[r].state \in {"Initialized", "Running"}
    BY <1>1 DEF InitializedInOrder, Requires, Is
  <2>1. spec[q].state \in {"Initialized", "Running"}
    BY <1>4
  <2>2. spec[r].state \in {"Initialized", "Running"}
    BY <2>1 DEF LifeIsTrue, InitializedInOrder, Is
  <2> QED
    BY <1>4, <1>9, <2>2 DEF Unloaded
<1> QED
  BY <1>2, <1>6, <1>7, <1>8, <1>10, <1>12, <1>13 DEF LifeIsTrue

(* A plugin gets an error because a dependency is not ready: never when    *)
(* the plugins are stopped.                                                *)
LEMMA Refuses ==
    ASSUME LifeIsTrue, AreTyped', NEW p \in Plugins, loadPluginRefuses(p)
    PROVE  LifeIsTrue'
<1>1. /\ phase \in {"Loaded", "Initialized", "Stopped"}
      /\ todo # << >> /\ p = Head(todo) /\ inCode = None /\ inCode' = None
      /\ todo' = Tail(todo) /\ UNCHANGED <<config, hashOrder, phase, queue>>
      /\ spec[p].state = Before[phase]
  BY DEF loadPluginRefuses, AtPlugin, DependencyIsMissing, passedOver, startVars
<1>2. InOrder' /\ \A q \in Plugins : InTodo(q)' <=> InTodo(q) /\ q # p
  BY <1>1, Popped DEF LifeIsTrue, Pass, Loading
<1>3. /\ \A q \in Plugins : spec'[q].state = spec[q].state /\ spec'[q].plugin = spec[q].plugin
      /\ \A q \in Plugins \ {p} : spec'[q].hasError = spec[q].hasError
      /\ spec'[p].hasError
  BY DEF LifeIsTrue, AreTyped, loadPluginRefuses, PluginSpec
<1>4. /\ Before["Loaded"] = "Resolved" /\ Before["Initialized"] = "Loaded"
      /\ Before["Stopped"] = "Running"
  BY DEF Before, Pass, Loading
<1>5. phase # "Stopped"
  <2> SUFFICES ASSUME phase = "Stopped" PROVE FALSE
    OBVIOUS
  <2>1. PICK q \in Plugins : Requires(p, q) /\ spec[q].state # "Stopped"
    BY <1>1 DEF loadPluginRefuses, DependencyIsMissing
  <2>2. ~InTodo(q)
    BY <1>1, <2>1, AtHead DEF LifeIsTrue, Pass
  <2>3. spec[p].plugin /\ spec[q].plugin
    BY <1>1, <1>4, <2>1 DEF LifeIsTrue, ObjectIsState, DependenciesOutlive, Is, Alive
  <2>4. spec[q].state \in Alive /\ AsFarAs(q)
    BY <2>3 DEF LifeIsTrue, ObjectIsState, Is
  <2> QED
    BY <2>1, <2>2, <2>4 DEF AsFarAs, Is, Alive, Unloaded
<1>6. Visited' = Visited /\ \A q \in Plugins : InQueue(q)' = InQueue(q)
  BY <1>1 DEF Visited, InQueue
<1>7. ObjectIsState' /\ DependenciesOutlive' /\ InitializedInOrder' /\ CalledInTurn'
  BY <1>1, <1>3 DEF LifeIsTrue, ObjectIsState, DependenciesOutlive, InitializedInOrder,
                CalledInTurn,
     Requires, Is
<1>8. QueueStays'
  BY <1>1, <1>3, <1>4, <1>5, <1>6 DEF LifeIsTrue, QueueStays, Is, Well
<1>9. \A q \in Plugins : AsFarAs(q)'
  BY <1>1, <1>3, <1>5 DEF LifeIsTrue, AsFarAs, Is
<1> QED
  BY <1>2, <1>7, <1>8, <1>9 DEF LifeIsTrue

(* A pass calls the code of a plugin.                                      *)
LEMMA Calls ==
    ASSUME LifeIsTrue, AreTyped', NEW p \in Plugins, loadPluginCalls(p)
    PROVE  LifeIsTrue'
<1>1. /\ phase \in Pass \ {"Deleted"} /\ todo # << >> /\ p = Head(todo)
      /\ inCode = None /\ inCode' = p
      /\ UNCHANGED <<config, hashOrder, phase, queue, todo>>
      /\ ~spec[p].hasError /\ spec[p].state = Before[phase]
      /\ phase \in {"Loaded", "Initialized", "Stopped"} =>
            \A q \in Plugins : Requires(p, q) => spec[q].state = phase
  BY DEF loadPluginCalls, AtPlugin, passedOver, DependencyIsMissing, startVars
<1>2. /\ InOrder' /\ Visited' = Visited
      /\ \A q \in Plugins : InTodo(q)' = InTodo(q) /\ InQueue(q)' = InQueue(q)
  BY <1>1 DEF LifeIsTrue, InOrder, Visited, InTodo, InQueue, Requires
<1>3. /\ \A q \in Plugins \ {p} : spec'[q] = spec[q]
      /\ spec'[p].hasError = spec[p].hasError /\ spec'[p].plugin = spec[p].plugin
      /\ spec'[p].state = IF phase = "Stopped" THEN "Stopped" ELSE spec[p].state
  BY DEF LifeIsTrue, AreTyped, loadPluginCalls, PluginSpec
<1>4. /\ phase = "Stopped" => spec[p].state = "Running"
      /\ phase = "Loaded" => spec[p].state = "Resolved"
  BY <1>1 DEF Before, Pass, Loading
<1>5. ObjectIsState'
  BY <1>1, <1>3, <1>4 DEF LifeIsTrue, ObjectIsState, Is, Alive
<1>6. DependenciesOutlive' /\ InitializedInOrder'
  BY <1>1, <1>3 DEF LifeIsTrue, DependenciesOutlive, InitializedInOrder, Requires, Is
<1>7. QueueStays'
  BY <1>1, <1>2, <1>3, <1>4 DEF LifeIsTrue, QueueStays, Is, Alive, Well
<1>8. CalledInTurn'
  <2>1. \A q \in Plugins : phase \in {"Loaded", "Initialized"} /\ Requires(p, q) => q # p
    BY <1>1 DEF Before, Pass, Loading
  <2> QED
    BY <1>1, <1>3, <2>1 DEF CalledInTurn, Requires, Pass
<1>9. \A q \in Plugins : AsFarAs(q)'
  <2>1. ASSUME NEW q \in Plugins, q # p PROVE AsFarAs(q)'
    <3>1. AsFarAs(q) /\ spec'[q] = spec[q] /\ q # None
      BY <1>3, <2>1, ConstantsAssumption DEF LifeIsTrue
    <3> QED
      BY <1>1, <1>2, <2>1, <3>1, StillAsFar
  <2>2. AsFarAs(p)'
    <3>1. AsFarAs(p)
      BY DEF LifeIsTrue
    <3> QED
      BY <1>1, <1>2, <1>3, <3>1 DEF AsFarAs, Is
  <2> QED
    BY <2>1, <2>2
<1> QED
  BY <1>2, <1>5, <1>6, <1>7, <1>8, <1>9 DEF LifeIsTrue

(* The code of a plugin returns, and its state follows.                    *)
LEMMA Return ==
    ASSUME LifeIsTrue, AreTyped', NEW p \in Plugins, PluginCode(p)
    PROVE  LifeIsTrue'
<1>1. /\ inCode = p /\ inCode' = None /\ todo' = Tail(todo)
      /\ phase \in Loading \cup {"Stopped"}
      /\ UNCHANGED <<config, hashOrder, phase, queue>>
  BY DEF PluginCode, pluginSucceeds, pluginFails, initializeExtensions, stopReturns, Returns,
         Loading, startVars
<1>2. /\ todo # << >> /\ p = Head(todo) /\ ~spec[p].hasError
      /\ spec[p].state = IF phase = "Stopped" THEN "Stopped" ELSE Before[phase]
      /\ phase \in {"Loaded", "Initialized"} =>
            \A q \in Plugins : Requires(p, q) => spec[q].state = phase
  BY <1>1, ConstantsAssumption DEF LifeIsTrue, CalledInTurn, Loading
<1>3. InOrder' /\ \A q \in Plugins : InTodo(q)' <=> InTodo(q) /\ q # p
  BY <1>1, <1>2, Popped DEF LifeIsTrue, Pass
<1>4. InTodo(p) /\ InQueue(p)
  BY <1>1, <1>2, AtHead DEF LifeIsTrue, InOrder, Pass
<1>5. /\ \A q \in Plugins \ {p} : spec'[q] = spec[q]
      /\ \/ /\ phase \in {"Loaded", "Initialized"}
            /\ spec'[p].state = phase /\ spec'[p].plugin /\ ~spec'[p].hasError
         \/ /\ phase \in {"Loaded", "Initialized"}
            /\ spec'[p].state = spec[p].state /\ spec'[p].plugin = spec[p].plugin
         \/ /\ phase = "Running" /\ spec'[p].state = "Running"
            /\ spec'[p].plugin = spec[p].plugin /\ ~spec'[p].hasError
         \/ phase = "Stopped" /\ spec'[p] = spec[p]
  <2>1. spec \in [Plugins -> PluginSpec]
    BY DEF LifeIsTrue, AreTyped
  <2> QED
    BY <1>2, <2>1
       DEF PluginCode, pluginSucceeds, pluginFails, initializeExtensions, stopReturns,
           PluginSpec
<1>6. /\ Before["Loaded"] = "Resolved" /\ Before["Initialized"] = "Loaded"
      /\ Before["Running"] = "Initialized"
  BY DEF Before, Pass, Loading
<1>7. Visited' = Visited /\ \A q \in Plugins : InQueue(q)' = InQueue(q)
  BY <1>1 DEF Visited, InQueue
<1>8. \A q \in Plugins : Requires(p, q) /\ spec'[p].plugin => spec'[q].plugin
  BY <1>1, <1>2, <1>5 DEF LifeIsTrue, ObjectIsState, DependenciesOutlive, Is, Alive
<1>9. ObjectIsState'
  BY <1>1, <1>2, <1>5, <1>6 DEF LifeIsTrue, ObjectIsState, Is, Alive, Loading
<1>10. DependenciesOutlive'
  BY <1>1, <1>2, <1>5, <1>6, <1>8, <1>9
     DEF LifeIsTrue, ObjectIsState, DependenciesOutlive, Requires, Is, Alive, Loading
<1>11. QueueStays'
  BY <1>1, <1>2, <1>4, <1>5, <1>6, <1>7 DEF LifeIsTrue, QueueStays, Is, Alive, Well, Loading
<1>12. CalledInTurn'
  BY <1>1 DEF CalledInTurn
<1>13. InitializedInOrder'
  BY <1>1, <1>2, <1>5, <1>6 DEF LifeIsTrue, InitializedInOrder, Requires, Is, Loading
<1>14. \A q \in Plugins : AsFarAs(q)'
  <2>1. ASSUME NEW q \in Plugins, q # p PROVE AsFarAs(q)'
    <3>1. AsFarAs(q) /\ spec'[q] = spec[q] /\ (InTodo(q)' <=> InTodo(q)) /\ q # None
      BY <1>3, <1>5, <2>1, ConstantsAssumption DEF LifeIsTrue
    <3> QED
      BY <1>1, <2>1, <3>1, StillAsFar
  <2>2. AsFarAs(p)'
    <3>1. AsFarAs(p) /\ ~InTodo(p)'
      BY <1>3 DEF LifeIsTrue
    <3> QED
      BY <1>1, <1>2, <1>5, <1>6, <3>1 DEF AsFarAs, Is, Unloaded, Loading
  <2> QED
    BY <2>1, <2>2
<1> QED
  BY <1>3, <1>9, <1>10, <1>11, <1>12, <1>13, <1>14 DEF LifeIsTrue

(* Every step keeps the invariant.                                         *)
LEMMA LifeSteps == LifeIsTrue /\ [Next]_vars => LifeIsTrue'
<1> SUFFICES ASSUME LifeIsTrue, [Next]_vars PROVE LifeIsTrue'
  OBVIOUS
<1>1. AreTyped'
  BY TypesStay DEF LifeIsTrue
<1>2. CASE UNCHANGED vars
  <2>1. UNCHANGED <<config, hashOrder, spec, phase, queue, todo, inCode>>
    BY <1>2 DEF vars
  <2> QED
    BY <1>1, <2>1, Stands
<1>3. CASE setPluginPaths \/ crash \/ Preparing
  BY <1>1, <1>3, Restarts
<1>4. CASE loadPlugins \/ shutdown \/ deleteAll
  BY <1>1, <1>4, PassStarts
<1>5. CASE initializePlugins \/ runPlugins \/ pluginsAreLoaded \/ waitForAsynchronousPlugins
  BY <1>1, <1>5, PassFollows
<1>6. CASE nextDelayedInitialize \/ end
  BY <1>1, <1>6, Stands DEF nextDelayedInitialize, end, PassIsOver, startVars, passVars
<1>7. ASSUME NEW p \in Plugins, asynchronousShutdownFinished(p) PROVE LifeIsTrue'
  <2>1. UNCHANGED <<config, hashOrder, spec, queue, todo, inCode>> /\ phase' \in {phase, "crashed"}
    BY <1>7 DEF asynchronousShutdownFinished, startVars, passVars
  <2> QED
    BY <1>1, <2>1, Stands
<1>8. ASSUME NEW p \in Plugins, \/ loadPluginPassesOver(p) \/ loadPluginRefuses(p)
                                \/ loadPluginCalls(p) \/ deletePlugin(p) \/ PluginCode(p)
      PROVE  LifeIsTrue'
  BY <1>1, <1>8, PassesOver, Refuses, Calls, Return
<1> QED
  BY <1>2, <1>3, <1>4, <1>5, <1>6, <1>7, <1>8 DEF Next, Manages, Preparing

(* No plugin's object ever outlives that of a plugin it requires: whatever *)
(* the passes of loadPlugins, shutdown and deleteAll go over, fail to      *)
(* load, clean up and delete, and wherever a start ends.                   *)
THEOREM NoneOutlives == Spec => []DependenciesOutlive
<1>1. LifeIsTrue => DependenciesOutlive
  BY DEF LifeIsTrue
<1> QED
  BY <1>1, LifeStarts, LifeSteps, PTL DEF Spec
-----------------------------------------------------------------------------
(* A change to a queue of plugins leaves it one.                           *)
LEMMA QueuesStay ==
    ASSUME NEW q \in Seq(Plugins)
    PROVE  /\ Reverse(q) \in Seq(Plugins)
           /\ q # << >> => Tail(q) \in Seq(Plugins)
           /\ \A p \in Plugins : Append(q, p) \in Seq(Plugins)
           /\ \A n \in 0 .. Len(q) : SubSeq(q, n + 1, Len(q)) \in Seq(Plugins)
<1>1. Reverse(q) \in Seq(Plugins)
  <2>1. \A j \in 1 .. Len(q) : q[(Len(q) - j) + 1] \in Plugins
    <3> SUFFICES ASSUME NEW j \in 1 .. Len(q) PROVE q[(Len(q) - j) + 1] \in Plugins
      OBVIOUS
    <3>1. (Len(q) - j) + 1 \in 1 .. Len(q)
      OBVIOUS
    <3> QED
      BY <3>1
  <2> DEFINE r == [j \in 1 .. Len(q) |-> q[(Len(q) - j) + 1]]
  <2>2. r \in [1 .. Len(q) -> Plugins]
    BY <2>1
  <2> HIDE DEF r
  <2>3. r \in Seq(Plugins)
    BY <2>2, SeqDef
  <2> QED
    BY <2>3 DEF Reverse, r
<1>2. \A n \in 0 .. Len(q) : SubSeq(q, n + 1, Len(q)) \in Seq(Plugins)
  <2> SUFFICES ASSUME NEW n \in 0 .. Len(q) PROVE SubSeq(q, n + 1, Len(q)) \in Seq(Plugins)
    OBVIOUS
  <2>1. \A i \in n + 1 .. Len(q) : q[i] \in Plugins
    OBVIOUS
  <2>2. n + 1 \in Int /\ Len(q) \in Int
    OBVIOUS
  <2>3. \A i \in n + 1 .. Len(q) : i \in 1 .. Len(q)
    OBVIOUS
  <2> QED
    BY <2>1, <2>2, <2>3, SubSeqProperties
<1> QED
  BY <1>1, <1>2

(* The types of what AreTyped does not have.                               *)
QueuesAreTyped ==
    /\ queue \in Seq(Plugins) /\ todo \in Seq(Plugins)
    /\ delayedInitializeQueue \in Seq(Plugins)

(* The types of the rest: what no action computes from the graph of the    *)
(* plugins.                                                                *)
OthersAreTyped ==
    /\ lockFile \in Plugins \cup {None}
    /\ delayedInitializeTimer \in BOOLEAN /\ m_isInitializationDone \in BOOLEAN
    /\ asynchronousPlugins \subseteq connected /\ connected \subseteq Plugins
    /\ shutdownEventLoop \in {"none", "runs", "exited"}
    /\ sent \subseteq Plugins /\ refused \subseteq Plugins
    /\ culprit \in Plugins \cup {None}
    /\ starts \in 0 .. MaxStarts[config]

(* The queues are made of plugins: what is left to do is taken from the    *)
(* front of the queue, or is all of it, one way round or the other.        *)
LEMMA QueuesSteps ==
    ASSUME LifeIsTrue, LifeIsTrue', QueuesAreTyped, [Next]_vars
    PROVE  QueuesAreTyped'
<1> USE DEF QueuesAreTyped
<1>0. << >> \in Seq(Plugins)
  OBVIOUS
<1>1. CASE UNCHANGED vars
  BY <1>1 DEF vars
<1>2. CASE setPluginPaths \/ crash
  BY <1>0, <1>2 DEF setPluginPaths, crash
<1>3. CASE Preparing
  BY <1>3 DEF Preparing, parseNoOptions, continueWithPlugins, disableProblematicPlugin,
              checkForLoadOption, checkForNoLoadOption, Prepares, passVars, delayVars
<1>4. CASE loadPlugins \/ shutdown \/ deleteAll
  <2>1. /\ UNCHANGED delayedInitializeQueue /\ phase' \in Pass
        /\ todo' = queue' \/ todo' = Reverse(queue')
    BY <1>4 DEF loadPlugins, shutdown, deleteAll, StartPass, delayVars, Order, Pass, Loading
  <2>2. queue' = Visited.queue' /\ AreTyped'
    BY <2>1 DEF LifeIsTrue, QueueStays
  <2>3. (AreTyped /\ queue = Visited.queue => QueueIsSorted)'
    BY QueueIsWell, PTL DEF AreTyped
  <2>4. queue' \in Seq(Plugins)
    BY <2>1, <2>2, <2>3 DEF QueueIsSorted
  <2> QED
    BY <2>1, <2>4, QueuesStay
<1>5. CASE initializePlugins \/ runPlugins \/ pluginsAreLoaded \/ waitForAsynchronousPlugins \/ end
  <2>1. /\ UNCHANGED <<queue, delayedInitializeQueue>>
        /\ todo' = todo \/ todo' = queue \/ todo' = Reverse(queue)
    BY <1>5 DEF initializePlugins, runPlugins, pluginsAreLoaded, waitForAsynchronousPlugins, end,
                Order, passVars, delayVars
  <2> QED
    BY <2>1, QueuesStay
<1>6. CASE nextDelayedInitialize
  <2>1. PICK n \in 0 .. Len(delayedInitializeQueue) :
           delayedInitializeQueue' =
              SubSeq(delayedInitializeQueue, n + 1, Len(delayedInitializeQueue))
    BY <1>6 DEF nextDelayedInitialize
  <2>2. UNCHANGED <<queue, todo>>
    BY <1>6 DEF nextDelayedInitialize, passVars
  <2>3. delayedInitializeQueue' \in Seq(Plugins)
    BY <2>1, QueuesStay, Zenon
  <2> QED
    BY <2>2, <2>3
<1>7. ASSUME NEW p \in Plugins, asynchronousShutdownFinished(p) PROVE QueuesAreTyped'
  BY <1>7 DEF asynchronousShutdownFinished, passVars, delayVars
<1>8. ASSUME NEW p \in Plugins, \/ loadPluginPassesOver(p) \/ loadPluginRefuses(p)
                                \/ loadPluginCalls(p) \/ deletePlugin(p)
      PROVE  QueuesAreTyped'
  <2>1. /\ UNCHANGED <<queue, delayedInitializeQueue>>
        /\ todo' = todo \/ (todo # << >> /\ todo' = Tail(todo))
    BY <1>8 DEF loadPluginPassesOver, loadPluginRefuses, loadPluginCalls, deletePlugin, AtPlugin,
                delayVars
  <2> QED
    BY <2>1, QueuesStay
<1>9. ASSUME NEW p \in Plugins, PluginCode(p) PROVE QueuesAreTyped'
  <2>1. /\ UNCHANGED queue /\ todo' = Tail(todo) /\ inCode = p
        /\ phase \in Loading \cup {"Stopped"}
        /\ \/ UNCHANGED delayedInitializeQueue
           \/ delayedInitializeQueue' = Append(delayedInitializeQueue, p)
    BY <1>9 DEF PluginCode, pluginSucceeds, pluginFails, initializeExtensions, stopReturns, Returns,
                delayVars, Loading
  <2>2. todo # << >>
    BY <2>1, ConstantsAssumption DEF LifeIsTrue, CalledInTurn, Loading
  <2> QED
    BY <2>1, <2>2, QueuesStay
<1> QED
  BY <1>1, <1>2, <1>3, <1>4, <1>5, <1>6, <1>7, <1>8, <1>9 DEF Next, Manages, Preparing

(* The others: a step sets one of them to a plugin, to nobody or to a      *)
(* Boolean, or leaves it.                                                  *)
LEMMA OthersSteps ==
    ASSUME AreTyped, OthersAreTyped, [Next]_vars
    PROVE  OthersAreTyped'
<1> USE DEF OthersAreTyped, shutdownVars, delayVars, startVars
<1>1. CASE UNCHANGED vars
  BY <1>1 DEF vars
<1>2. CASE setPluginPaths \/ crash
  <2>1. MaxStarts[config] \in Nat
    BY ConstantsAssumption DEF AreTyped
  <2>2. setPluginPaths => starts' = starts + 1 /\ starts < MaxStarts[config]
    BY DEF setPluginPaths
  <2>3. crash => starts' = starts
    BY DEF crash
  <2>4. starts' \in 0 .. MaxStarts[config] /\ config' = config
    BY <1>2, <2>1, <2>2, <2>3 DEF setPluginPaths, crash
  <2> QED
    BY <1>2, <2>4 DEF setPluginPaths, crash, AreTyped
<1>3. CASE Preparing
  BY <1>3 DEF Preparing, parseNoOptions, continueWithPlugins, disableProblematicPlugin,
              checkForLoadOption, checkForNoLoadOption, Prepares
<1>4. CASE loadPlugins \/ deleteAll \/ initializePlugins \/ runPlugins \/ end
  BY <1>4 DEF loadPlugins, deleteAll, initializePlugins, runPlugins, end
<1>5. CASE pluginsAreLoaded \/ nextDelayedInitialize \/ shutdown
  BY <1>5 DEF pluginsAreLoaded, nextDelayedInitialize, shutdown
<1>6. CASE waitForAsynchronousPlugins
  BY <1>6 DEF waitForAsynchronousPlugins
<1>7. ASSUME NEW p \in Plugins, asynchronousShutdownFinished(p) PROVE OthersAreTyped'
  BY <1>7 DEF asynchronousShutdownFinished
<1>8. ASSUME NEW p \in Plugins, \/ loadPluginPassesOver(p) \/ loadPluginRefuses(p)
                                \/ loadPluginCalls(p) \/ deletePlugin(p)
      PROVE  OthersAreTyped'
  BY <1>8 DEF loadPluginPassesOver, loadPluginRefuses, loadPluginCalls, deletePlugin, Unlocked
<1>9. ASSUME NEW p \in Plugins, pluginSucceeds(p) \/ pluginFails(p) \/ initializeExtensions(p)
      PROVE  OthersAreTyped'
  BY <1>9 DEF pluginSucceeds, pluginFails, initializeExtensions, Unlocked
<1>10. ASSUME NEW p \in Plugins, NEW asynchronous \in BOOLEAN, stopReturns(p, asynchronous)
       PROVE  OthersAreTyped'
  BY <1>10 DEF stopReturns
<1> QED
  BY <1>1, <1>2, <1>3, <1>4, <1>5, <1>6, <1>7, <1>8, <1>9, <1>10
     DEF Next, Manages, PluginCode, Preparing

(* The load queue has every plugin, after all it depends on; or the plugin *)
(* is bad, and has an error.                                               *)
THEOREM QueueHasAll == Spec => []LoadQueueIsSorted
<1> DEFINE Inv == LifeIsTrue /\ QueuesAreTyped /\ OthersAreTyped
<1>1. Init => Inv
  <2> SUFFICES ASSUME Init PROVE QueuesAreTyped /\ OthersAreTyped
    BY LifeStarts
  <2>1. MaxStarts[config] \in Nat
    BY ConstantsAssumption DEF Init
  <2>2. QueuesAreTyped
    BY DEF Init, QueuesAreTyped
  <2>3. OthersAreTyped
    <3>1. starts \in 0 .. MaxStarts[config]
      BY <2>1 DEF Init
    <3>2. delayedInitializeTimer \in BOOLEAN /\ m_isInitializationDone \in BOOLEAN
      BY DEF Init
    <3>3. lockFile \in Plugins \cup {None} /\ culprit \in Plugins \cup {None}
      BY DEF Init
    <3>4. /\ asynchronousPlugins \subseteq connected /\ connected \subseteq Plugins
          /\ sent \subseteq Plugins /\ refused \subseteq Plugins
      BY DEF Init
    <3>5. shutdownEventLoop \in {"none", "runs", "exited"}
      BY DEF Init
    <3> QED
      BY <3>1, <3>2, <3>3, <3>4, <3>5 DEF OthersAreTyped
  <2> QED
    BY <2>2, <2>3
<1>2. Inv /\ [Next]_vars => Inv'
  <2> SUFFICES ASSUME Inv, [Next]_vars PROVE Inv'
    OBVIOUS
  <2>1. LifeIsTrue'
    BY LifeSteps
  <2>2. QueuesAreTyped' /\ OthersAreTyped'
    BY <2>1, QueuesSteps, OthersSteps DEF LifeIsTrue
  <2> QED
    BY <2>1, <2>2
<1>3. Inv => LoadQueueIsSorted
  <2> SUFFICES ASSUME Inv PROVE LoadQueueIsSorted
    OBVIOUS
  <2>1. AreTyped
    BY DEF LifeIsTrue
  <2>2. TypeOK
    BY <2>1 DEF TypeOK, AreTyped, QueuesAreTyped, OthersAreTyped
  <2>3. CASE phase \notin Pass
    BY <2>2, <2>3 DEF LoadQueueIsSorted, QueueIsSorted
  <2>4. CASE phase \in Pass
    <3>1. queue = Visited.queue /\ \A p \in Plugins : p \in Visited.errors => spec[p].hasError
      BY <2>4 DEF LifeIsTrue, QueueStays
    <3>2. QueueIsSorted
      BY <2>1, <3>1, QueueIsWell DEF AreTyped
    <3>3. VisitedIsRight
      BY <2>1, QueueOfStart DEF AreTyped
    <3>4. ASSUME NEW p \in Plugins \ ToSet(queue)
          PROVE  /\ spec[p].hasError
                 /\ \E q \in {p} \cup Reachable(p, AnyKind) : InCycle(q) \/ q \in config.unresolved
      <4>1. DOMAIN queue = 1 .. Len(queue)
        BY DEF QueuesAreTyped
      <4>2. ~Contains(queue, p)
        BY <4>1 DEF Contains, ToSet
      <4>3. p \in Visited.errors
        BY <3>1, <3>3, <4>2 DEF VisitedIsRight, Visited
      <4>4. p \in Bad
        BY <3>3, <4>3 DEF VisitedIsRight, Visited
      <4> QED
        BY <3>1, <4>3, <4>4 DEF Bad
    <3> QED
      BY <2>2, <3>2, <3>4 DEF LoadQueueIsSorted
  <2> QED
    BY <2>3, <2>4
<1> QED
  BY <1>1, <1>2, <1>3, PTL DEF Spec
-----------------------------------------------------------------------------
(* Who ought to run when the start is over: the condition of RunsWhenItCan.*)
OughtToRun(p) ==
    /\ isEffectivelyEnabled(spec, p)
    /\ \A q \in {p} \cup Reachable(p, {"Required"}) : q \in config.available /\ q \notin refused
    /\ p \notin Bad

(* A plugin is enabled only with those that it requires, if they are for   *)
(* this platform.                                                          *)
IsClosedBy(specs) ==
    \A p, q \in Plugins :
        Requires(p, q) /\ isEffectivelyEnabled(specs, p) /\ q \in config.available
            => isEffectivelyEnabled(specs, q)

(* While a pass loads plugins, who ought to run is in the queue, and is as *)
(* far as the pass.                                                        *)
IsOnItsWay(p) ==
    /\ InQueue(p) /\ ~spec[p].hasError
    /\ spec[p].state = IF InTodo(p) THEN Before[phase] ELSE phase

(* What makes RunsWhenItCan inductive, with the life of the plugins: the   *)
(* dependencies are enabled, and only bad plugins have errors before the   *)
(* first pass.                                                             *)
RunIsTrue ==
    /\ phase \in {"options", "check", "load"} \cup Loading => IsClosedBy(spec)
    /\ phase \in {"options", "check", "load"} => \A p \in Plugins \ Bad : ~spec[p].hasError
    /\ phase \in Loading => \A p \in Plugins : OughtToRun(p) => IsOnItsWay(p)
    /\ phase = "exec" => \A p \in Plugins : OughtToRun(p) => spec[p].state = "Running"

(* What plugins depend on, and who is bad, is for every start the same.    *)
LEMMA SameGraph ==
    ASSUME config' = config
    PROVE  /\ \A p \in Plugins : /\ Reachable(p, AnyKind)' = Reachable(p, AnyKind)
                                 /\ Reachable(p, {"Required"})' = Reachable(p, {"Required"})
           /\ Bad' = Bad
<1>1. \A p \in Plugins : Reachable(p, AnyKind)' = Reachable(p, AnyKind)
  BY DEF Reachable, IsClosed, AnyKind
<1>2. \A p \in Plugins : Reachable(p, {"Required"})' = Reachable(p, {"Required"})
  BY DEF Reachable, IsClosed
<1>3. Bad' = {p \in Plugins : \E q \in {p} \cup Reachable(p, AnyKind)' :
                    q \in Reachable(q, AnyKind)' \/ q \in config.unresolved}
  BY DEF Bad, InCycle
<1>4. ASSUME NEW p \in Plugins, NEW q \in {p} \cup Reachable(p, AnyKind) PROVE q \in Plugins
  BY DEF Reachable
<1>5. Bad' = Bad
  BY <1>1, <1>3, <1>4 DEF Bad, InCycle
<1> QED
  BY <1>1, <1>2, <1>5

(* The marks that enable a plugin.                                         *)
SameMarks(old, new) ==
    \A p \in Plugins : /\ new[p].force = old[p].force
                       /\ new[p].enabledIndirectly = old[p].enabledIndirectly

(* As long as no mark changes, no plugin is newly enabled.                 *)
LEMMA StillEnabled ==
    ASSUME config' = config, SameMarks(spec, spec')
    PROVE  /\ \A p \in Plugins : isEffectivelyEnabled(spec, p)' <=> isEffectivelyEnabled(spec, p)
           /\ IsClosedBy(spec) => IsClosedBy(spec)'
           /\ refused \subseteq refused' =>
                 \A p \in Plugins : OughtToRun(p)' => OughtToRun(p)
<1>1. \A p \in Plugins : isEffectivelyEnabled(spec, p)' <=> isEffectivelyEnabled(spec, p)
  BY DEF isEffectivelyEnabled, SameMarks
<1>2. IsClosedBy(spec) => IsClosedBy(spec)'
  BY <1>1 DEF IsClosedBy, Requires
<1>3. ASSUME refused \subseteq refused', NEW p \in Plugins, OughtToRun(p)' PROVE OughtToRun(p)
  <2>1. /\ Reachable(p, {"Required"})' = Reachable(p, {"Required"}) /\ Bad' = Bad
    BY SameGraph
  <2>2. /\ isEffectivelyEnabled(spec, p)' /\ p \notin Bad'
        /\ \A q \in {p} \cup Reachable(p, {"Required"})' :
              q \in config'.available /\ q \notin refused'
    BY <1>3 DEF OughtToRun
  <2>3. \A q \in {p} \cup Reachable(p, {"Required"}) : q \in config.available /\ q \notin refused
    BY <1>3, <2>1, <2>2
  <2> QED
    BY <1>1, <2>1, <2>2, <2>3 DEF OughtToRun
<1> QED
  BY <1>1, <1>2, <1>3

(* Who ought to run requires only plugins that ought to.                   *)
LEMMA OughtTogether ==
    ASSUME config \in Configurations, IsClosedBy(spec), NEW p \in Plugins, NEW q \in Plugins,
           Requires(p, q), OughtToRun(p)
    PROVE  OughtToRun(q)
<1>1. config.depends[p][q] = "Required"
  BY DEF Requires
<1>2. q \in Reachable(p, {"Required"})
  <2>1. p \in {p} \cup Reachable(p, {"Required"}) /\ config.depends[p][q] \in {"Required"}
    BY <1>1
  <2> QED
    BY <2>1, ReachableIsClosed, Zenon
<1>3. \A r \in {q} \cup Reachable(q, {"Required"}) : r \in Reachable(p, {"Required"})
  BY <1>2, ReachableOn, Zenon
<1>4. isEffectivelyEnabled(spec, q)
  BY <1>2 DEF IsClosedBy, OughtToRun
<1>5. q \notin Bad
  <2>1. IsGraph(config.depends, config.unresolved, [r \in Plugins |-> Reachable(r, AnyKind)], Bad)
    BY ConfigIsGraph, Zenon
  <2>2. q \in Bad => p \in Bad
    BY <1>1, <2>1 DEF IsGraph
  <2> QED
    BY <2>2 DEF OughtToRun
<1> QED
  BY <1>3, <1>4, <1>5 DEF OughtToRun

(* Who is enabled when a plugin's dependencies in S are to be.             *)
LEMMA EnabledBy ==
    ASSUME NEW specs \in [Plugins -> PluginSpec], NEW S, NEW p \in Plugins
    PROVE  isEffectivelyEnabled(EnabledIndirectly(specs, S), p) <=>
              /\ p \in config.available
              /\ \/ specs[p].force = "Enabled" \/ p \in S
                 \/ specs[p].force # "Disabled" /\ p \in config.enabled
<1>1. EnabledIndirectly(specs, S)[p] = [specs[p] EXCEPT !.enabledIndirectly = p \in S]
  BY DEF EnabledIndirectly
<1>2. specs[p] \in PluginSpec
  OBVIOUS
<1>3. /\ EnabledIndirectly(specs, S)[p].force = specs[p].force
      /\ EnabledIndirectly(specs, S)[p].enabledIndirectly <=> p \in S
  BY <1>1, <1>2 DEF PluginSpec
<1> QED
  BY <1>3 DEF isEffectivelyEnabled

(* The least set to which a round adds nothing has what is required.       *)
LEMMA DependenciesEnabled ==
    ASSUME NEW specs \in [Plugins -> PluginSpec]
    PROVE  IsClosedBy(enableDependenciesIndirectly(specs))
<1> SUFFICES ASSUME NEW p \in Plugins, NEW q \in Plugins, Requires(p, q), q \in config.available,
                    isEffectivelyEnabled(EnabledIndirectly(specs, ToEnable(specs)), p),
                    ~isEffectivelyEnabled(EnabledIndirectly(specs, ToEnable(specs)), q)
             PROVE  FALSE
  BY DEF IsClosedBy, enableDependenciesIndirectly
<1>1. q \notin ToEnable(specs)
  BY EnabledBy
<1>2. PICK S \in SUBSET Plugins : EnableOnce(specs, S) = S /\ q \notin S
  BY <1>1, Zenon DEF ToEnable
<1>3. ToEnable(specs) \subseteq S
  BY <1>2 DEF ToEnable
<1>4. isEffectivelyEnabled(EnabledIndirectly(specs, S), p)
  BY <1>3, EnabledBy
<1>5. ~isEffectivelyEnabled(EnabledIndirectly(specs, S), q)
  BY <1>2, EnabledBy
<1>6. q \in EnableOnce(specs, S)
  BY <1>4, <1>5, Zenon DEF EnableOnce
<1> QED
  BY <1>2, <1>6

(* What sets marks or errors leaves the others alone.                      *)
LEMMA Kept ==
    ASSUME NEW specs \in [Plugins -> PluginSpec], NEW S, NEW force
    PROVE  /\ SameMarks(specs, WithErrors(specs, S))
           /\ \A p \in Plugins :
                 /\ EnabledIndirectly(specs, S)[p].hasError = specs[p].hasError
                 /\ SetForce(specs, S, force)[p].hasError = specs[p].hasError
<1>1. ASSUME NEW p \in Plugins, NEW value
      PROVE  /\ [specs[p] EXCEPT !.enabledIndirectly = value].hasError = specs[p].hasError
             /\ [specs[p] EXCEPT !.force = value].hasError = specs[p].hasError
             /\ [specs[p] EXCEPT !.hasError = value].force = specs[p].force
             /\ [specs[p] EXCEPT !.hasError = value].enabledIndirectly = specs[p].enabledIndirectly
  BY DEF PluginSpec
<1> QED
  BY <1>1 DEF SameMarks, WithErrors, EnabledIndirectly, SetForce

(* The queue that a pass, or the user's choice, computes is this start's;  *)
(* only bad plugins get errors from it.                                    *)
LEMMA OnlyBadOnes ==
    ASSUME LifeIsTrue
    PROVE  /\ loadQueue = Visited /\ \A p \in Visited.errors : p \in Bad
           /\ \A p \in Plugins : Contains(Visited.queue, p) \/ p \in Visited.errors
<1>1. {p \in Plugins : spec[p].state = "Read"} = config.unresolved
  BY ConstantsAssumption DEF LifeIsTrue, ObjectIsState, AreTyped, Configuration
<1>2. VisitedIsRight
  BY QueueOfStart DEF LifeIsTrue, AreTyped
<1> QED
  BY <1>1, <1>2 DEF loadQueue, Visited, VisitedIsRight

(* Before the first pass: who is enabled, and who has an error.            *)
LEMMA RunPrepared ==
    ASSUME LifeIsTrue, RunIsTrue, setPluginPaths \/ crash \/ Preparing
    PROVE  RunIsTrue'
<1> DEFINE early == {"options", "check", "load"}
           Errors(s) == \A p \in Plugins \ Bad : ~s[p].hasError
<1>0. spec \in [Plugins -> PluginSpec] /\ config \in Configurations
  BY DEF LifeIsTrue, AreTyped
<1>1. config' = config /\ phase' \in {"off"} \cup early /\ Bad' = Bad
  <2>1. config' = config /\ phase' \in {"off"} \cup early
    BY DEF setPluginPaths, crash, startVars, Preparing, parseNoOptions, continueWithPlugins,
         disableProblematicPlugin, checkForLoadOption, checkForNoLoadOption, Prepares
  <2> QED
    BY <2>1, SameGraph
<1>2. ASSUME NEW s \in [Plugins -> PluginSpec], Errors(s),
             spec' = enableDependenciesIndirectly(s)
      PROVE  RunIsTrue'
  <2>1. IsClosedBy(spec')
    BY <1>2, DependenciesEnabled
  <2>2. IsClosedBy(spec)'
    BY <1>1, <2>1 DEF IsClosedBy, isEffectivelyEnabled, Requires
  <2>3. \A p \in Plugins : spec'[p].hasError = s[p].hasError
    BY <1>2, Kept DEF enableDependenciesIndirectly
  <2>4. Errors(spec')
    BY <1>2, <2>3
  <2> QED
    BY <1>1, <2>2, <2>4 DEF RunIsTrue, Loading
<1>3. ASSUME phase \in early, SameMarks(spec, spec'), Errors(spec')
      PROVE  RunIsTrue'
  <2>1. IsClosedBy(spec)'
    BY <1>1, <1>3, StillEnabled DEF RunIsTrue
  <2> QED
    BY <1>1, <1>3, <2>1 DEF RunIsTrue, Loading
<1>4. ASSUME phase \in early
      PROVE  LET s == WithErrors(spec, loadQueue.errors)
             IN  s \in [Plugins -> PluginSpec] /\ Errors(s) /\ SameMarks(spec, s)
  <2> DEFINE s == WithErrors(spec, loadQueue.errors)
  <2>1. /\ SameObjects(spec, s)
        /\ \A p \in Plugins : s[p].hasError <=> spec[p].hasError \/ p \in loadQueue.errors
    BY <1>0, Marked
  <2>2. SameMarks(spec, s)
    BY <1>0, Kept
  <2> HIDE DEF s
  <2>3. Errors(s)
    BY <1>4, <2>1, OnlyBadOnes DEF RunIsTrue
  <2> QED
    BY <2>1, <2>2, <2>3 DEF SameObjects, s
<1>5. ASSUME NEW p \in Plugins, phase \in early, DisableTemporarily(p) PROVE RunIsTrue'
  <2> DEFINE q == loadQueue
             S == {p} \cup pluginsRequiringPlugin(q.queue, p)
             s == WithErrors(spec, q.errors)
             t == SetForce(s, S, "Disabled")
  <2>1. spec' = enableDependenciesIndirectly(t)
    BY <1>5 DEF DisableTemporarily
  <2>2. s \in [Plugins -> PluginSpec] /\ Errors(s)
    BY <1>4, <1>5
  <2>3. t \in [Plugins -> PluginSpec] /\ Errors(t)
    <3> HIDE DEF S, q, s
    <3>1. t \in [Plugins -> PluginSpec]
      BY <2>2, Marked DEF SameObjects
    <3>2. \A r \in Plugins : t[r].hasError = s[r].hasError
      BY <2>2, Kept
    <3> QED
      BY <2>2, <3>1, <3>2
  <2> HIDE DEF t
  <2> QED
    BY <1>2, <2>1, <2>3
<1>6. CASE setPluginPaths
  <2>1. spec' = enableDependenciesIndirectly(NewSpecs)
    BY <1>6 DEF setPluginPaths
  <2>2. NewSpecs \in [Plugins -> PluginSpec]
    BY <1>0, NewOnes
  <2>3. config.unresolved \subseteq Bad
    BY <1>0, ConfigIsTyped DEF Bad
  <2>4. Errors(NewSpecs)
    BY <2>3 DEF NewSpecs
  <2> QED
    BY <1>2, <2>1, <2>2, <2>4
<1>7. CASE crash
  BY <1>7 DEF crash, RunIsTrue, Loading
<1>8. CASE parseNoOptions
  <2>1. phase \in early /\ spec' = spec
    BY <1>8 DEF parseNoOptions, Prepares
  <2> QED
    BY <1>3, <2>1 DEF RunIsTrue, SameMarks
<1>9. CASE continueWithPlugins
  <2>1. phase \in early /\ (spec' = spec \/ spec' = WithErrors(spec, loadQueue.errors))
    BY <1>9 DEF continueWithPlugins, Prepares
  <2>2. SameMarks(spec, spec') /\ Errors(spec')
    BY <1>4, <2>1 DEF RunIsTrue, SameMarks
  <2> QED
    BY <1>3, <2>1, <2>2
<1>10. CASE disableProblematicPlugin
  BY <1>5, <1>10 DEF disableProblematicPlugin, Prepares
<1>11. ASSUME NEW p \in Plugins, checkForLoadOption(p) PROVE RunIsTrue'
  <2> DEFINE t == SetForce(spec, {p}, "Enabled")
  <2>1. spec' = enableDependenciesIndirectly(t) /\ phase \in early
    BY <1>11 DEF checkForLoadOption, Prepares
  <2>2. t \in [Plugins -> PluginSpec]
    BY <1>0, Marked DEF SameObjects
  <2>3. \A r \in Plugins : t[r].hasError = spec[r].hasError
    BY <1>0, Kept
  <2> HIDE DEF t
  <2>4. Errors(t)
    BY <2>1, <2>3 DEF RunIsTrue
  <2> QED
    BY <1>2, <2>1, <2>2, <2>4
<1>12. ASSUME NEW p \in Plugins, checkForNoLoadOption(p) PROVE RunIsTrue'
  BY <1>5, <1>12 DEF checkForNoLoadOption, Prepares
<1> QED
  BY <1>6, <1>7, <1>8, <1>9, <1>10, <1>11, <1>12 DEF Preparing

(* The first pass starts with all that ought to run, resolved.             *)
LEMMA RunLoads ==
    ASSUME LifeIsTrue, LifeIsTrue', RunIsTrue, loadPlugins
    PROVE  RunIsTrue'
<1>1. /\ phase = "load" /\ phase' = "Loaded" /\ config' = config
      /\ spec' = WithErrors(spec, loadQueue.errors)
      /\ todo' = Order(phase', queue') /\ UNCHANGED refused
  BY DEF loadPlugins, StartPass, startVars
<1>2. queue' = Visited.queue'
  BY <1>1 DEF LifeIsTrue, QueueStays, Pass, Loading
<1>3. \A p \in Plugins : InTodo(p)' <=> InQueue(p)'
  BY <1>1, <1>2, NewPass DEF LifeIsTrue, Pass, Loading
<1>4. SameMarks(spec, spec') /\ SameObjects(spec, spec')
  BY <1>1, Kept, Marked DEF LifeIsTrue, AreTyped
<1>5. \A p \in Plugins : spec'[p].hasError <=> spec[p].hasError \/ p \in Visited.errors
  BY <1>1, Marked, OnlyBadOnes DEF LifeIsTrue, AreTyped
<1>6. IsClosedBy(spec)'
  BY <1>1, <1>4, StillEnabled DEF RunIsTrue
<1>7. ASSUME NEW p \in Plugins, OughtToRun(p)' PROVE IsOnItsWay(p)'
  <2>1. p \notin Bad /\ p \notin config.unresolved
    <3>1. p \notin Bad
      BY <1>1, <1>4, <1>7, StillEnabled DEF OughtToRun
    <3> QED
      BY <3>1 DEF Bad
  <2>2. p \notin Visited.errors /\ Contains(Visited.queue, p)
    BY <2>1, OnlyBadOnes
  <2>3. ~spec'[p].hasError
    BY <1>1, <1>5, <2>1, <2>2 DEF RunIsTrue
  <2>4. InQueue(p)'
    <3>1. Visited' = Visited
      BY <1>1 DEF loadPlugins, startVars, Visited
    <3>2. queue' \in Seq(Plugins)
      <4>1. (AreTyped /\ queue = Visited.queue => QueueIsSorted)'
        BY QueueIsWell, PTL DEF AreTyped
      <4> QED
        BY <1>1, <1>2, <4>1 DEF LifeIsTrue, QueueIsSorted, Pass, Loading
    <3>3. DOMAIN queue' = 1 .. Len(queue')
      BY <3>2
    <3> QED
      BY <1>2, <2>2, <3>1, <3>3 DEF Contains, InQueue
  <2>5. spec'[p].state = "Resolved"
    <3>1. spec[p].state \in {"Read", "Resolved"} /\ spec[p].state # "Read"
      BY <1>1, <2>1 DEF LifeIsTrue, AsFarAs, Is, Unloaded, ObjectIsState
    <3> QED
      BY <1>4, <3>1 DEF SameObjects
  <2>6. Before["Loaded"] = "Resolved"
    BY DEF Before, Pass, Loading
  <2> QED
    BY <1>1, <1>3, <2>3, <2>4, <2>5, <2>6 DEF IsOnItsWay
<1> QED
  BY <1>1, <1>6, <1>7 DEF RunIsTrue

(* The next pass starts where the last one has come to.                    *)
LEMMA RunFollows ==
    ASSUME LifeIsTrue, LifeIsTrue', RunIsTrue,
           initializePlugins \/ runPlugins \/ pluginsAreLoaded
    PROVE  RunIsTrue'
<1>1. /\ UNCHANGED <<config, spec, queue, refused>> /\ todo = << >>
      /\ \/ phase = "Loaded" /\ phase' = "Initialized" /\ todo' = Order(phase', queue')
         \/ phase = "Initialized" /\ phase' = "Running" /\ todo' = Order(phase', queue')
         \/ phase = "Running" /\ phase' = "exec"
  BY DEF initializePlugins, runPlugins, pluginsAreLoaded, PassIsOver, startVars, passVars
<1>2. phase \in Loading
  BY <1>1 DEF Loading
<1>3. \A p \in Plugins : OughtToRun(p)' => OughtToRun(p)
  BY <1>1, StillEnabled DEF SameMarks
<1>4. \A p \in Plugins :
         OughtToRun(p)' => spec'[p].state = phase /\ ~spec'[p].hasError /\ InQueue(p)'
  <2>1. \A p \in Plugins : ~InTodo(p) /\ (InQueue(p)' <=> InQueue(p))
    BY <1>1 DEF InTodo, InQueue
  <2> QED
    BY <1>1, <1>2, <1>3, <2>1 DEF RunIsTrue, IsOnItsWay
<1>5. CASE phase' = "exec"
  BY <1>1, <1>4, <1>5 DEF RunIsTrue, Loading
<1>6. CASE phase' # "exec"
  <2>1. phase' \in Loading /\ Before[phase'] = phase /\ todo' = Order(phase', queue')
    BY <1>1, <1>6 DEF Before, Pass, Loading
  <2>2. queue' = Visited.queue' /\ phase' \in Pass
    BY <2>1 DEF LifeIsTrue, QueueStays, Pass
  <2>3. \A p \in Plugins : InTodo(p)' <=> InQueue(p)'
    BY <2>1, <2>2, NewPass DEF LifeIsTrue
  <2>4. \A p \in Plugins : OughtToRun(p)' => IsOnItsWay(p)'
    BY <1>4, <2>1, <2>3 DEF IsOnItsWay
  <2>5. IsClosedBy(spec)'
    BY <1>1, <1>2, StillEnabled DEF RunIsTrue, SameMarks
  <2> QED
    BY <1>6, <2>1, <2>4, <2>5 DEF RunIsTrue, Loading
<1> QED
  BY <1>5, <1>6

(* A pass goes on to the next plugin: nobody else changes, and p, if it    *)
(* ought to run, is as far as the pass.                                    *)
LEMMA RunGoesOn ==
    ASSUME LifeIsTrue, RunIsTrue, phase \in Loading, NEW p \in Plugins,
           todo # << >>, p = Head(todo), todo' = Tail(todo), UNCHANGED <<config, phase, queue>>, refused \subseteq refused',
           SameMarks(spec, spec'), \A q \in Plugins \ {p} : spec'[q] = spec[q],
           OughtToRun(p)' => ~spec'[p].hasError /\ spec'[p].state = phase
    PROVE  RunIsTrue'
<1>1. \A q \in Plugins : InTodo(q)' <=> InTodo(q) /\ q # p
  BY Popped DEF LifeIsTrue, Pass
<1>2. IsClosedBy(spec)' /\ \A q \in Plugins : OughtToRun(q)' => OughtToRun(q)
  BY StillEnabled DEF RunIsTrue
<1>3. ASSUME NEW q \in Plugins, OughtToRun(q)' PROVE IsOnItsWay(q)'
  <2>1. IsOnItsWay(q)
    BY <1>2, <1>3 DEF RunIsTrue
  <2>2. InQueue(q)'
    BY <2>1 DEF IsOnItsWay, InQueue
  <2>3. CASE q = p
    BY <1>1, <1>3, <2>2, <2>3 DEF IsOnItsWay
  <2>4. CASE q # p
    <3>1. ~spec[q].hasError /\ spec[q].state = IF InTodo(q) THEN Before[phase] ELSE phase
      BY <2>1 DEF IsOnItsWay
    <3>2. InTodo(q)' <=> InTodo(q)
      BY <1>1, <2>4
    <3>3. CASE InTodo(q)
      BY <2>2, <2>4, <3>1, <3>2, <3>3 DEF IsOnItsWay
    <3>4. CASE ~InTodo(q)
      BY <2>2, <2>4, <3>1, <3>2, <3>4 DEF IsOnItsWay
    <3> QED
      BY <3>3, <3>4
  <2> QED
    BY <2>3, <2>4
<1> QED
  BY <1>2, <1>3 DEF RunIsTrue, Loading

(* Nobody who ought to run is passed over, cleaned up or refused.          *)
LEMMA RunLeaves ==
    ASSUME LifeIsTrue, RunIsTrue, NEW p \in Plugins, phase \in Loading,
           loadPluginPassesOver(p) \/ loadPluginRefuses(p)
    PROVE  RunIsTrue'
<1>1. /\ todo # << >> /\ p = Head(todo) /\ todo' = Tail(todo)
      /\ UNCHANGED <<config, phase, queue, refused>>
      /\ \/ passedOver(p) /\ (spec' = spec \/ spec' = kill(spec, p))
         \/ ~passedOver(p) /\ DependencyIsMissing(p) /\ spec' = [spec EXCEPT ![p].hasError = TRUE]
  BY DEF loadPluginPassesOver, loadPluginRefuses, AtPlugin, CleanedUp, startVars
<1>2. SameMarks(spec, spec') /\ \A q \in Plugins \ {p} : spec'[q] = spec[q]
  <2>1. spec \in [Plugins -> PluginSpec]
    BY DEF LifeIsTrue, AreTyped
  <2>2. /\ SameMarks(spec, [spec EXCEPT ![p].hasError = TRUE])
        /\ SameMarks(spec, [spec EXCEPT ![p].plugin = FALSE, ![p].state = "Deleted"])
        /\ SameMarks(spec, spec)
    BY <2>1 DEF SameMarks, PluginSpec
  <2>3. \A q \in Plugins \ {p} : spec'[q] = spec[q]
    BY <1>1, <2>1 DEF kill
  <2> QED
    BY <1>1, <2>2, <2>3 DEF kill
<1>3. ~OughtToRun(p)
  <2> SUFFICES ASSUME OughtToRun(p) PROVE FALSE
    OBVIOUS
  <2>1. InOrder /\ phase \in Pass /\ config \in Configurations /\ IsClosedBy(spec)
    BY DEF LifeIsTrue, AreTyped, RunIsTrue, Pass
  <2>2. InTodo(p) /\ IsOnItsWay(p)
    BY <1>1, <2>1, AtHead DEF RunIsTrue
  <2>3. ~passedOver(p)
    BY <2>2 DEF passedOver, IsOnItsWay, OughtToRun
  <2>4. PICK q \in Plugins : Requires(p, q) /\ spec[q].state # phase
    BY <1>1, <2>3 DEF DependencyIsMissing
  <2>5. phase \notin {"Running", "Deleted"}
    BY <1>1, <2>3 DEF DependencyIsMissing, Loading
  <2>6. ~InTodo(q)
    BY <1>1, <2>1, <2>4, <2>5, AtHead
  <2>7. OughtToRun(q)
    BY <2>1, <2>4, OughtTogether
  <2> QED
    BY <2>4, <2>6, <2>7 DEF RunIsTrue, IsOnItsWay
<1>4. ~OughtToRun(p)'
  BY <1>1, <1>2, <1>3, StillEnabled
<1> QED
  BY <1>1, <1>2, <1>4, RunGoesOn

(* The code of a plugin returns: unless it has refused, the plugin is as   *)
(* far as the pass.                                                        *)
LEMMA RunReturns ==
    ASSUME LifeIsTrue, RunIsTrue, NEW p \in Plugins, phase \in Loading, PluginCode(p)
    PROVE  RunIsTrue'
<1>1. /\ inCode = p /\ todo' = Tail(todo) /\ UNCHANGED <<config, phase, queue>>
      /\ \/ spec' = [spec EXCEPT ![p].state = phase, ![p].plugin = TRUE] /\ refused' = refused
         \/ spec' = [spec EXCEPT ![p].hasError = TRUE] /\ refused' = refused \cup {p}
         \/ phase = "Running" /\ spec' = [spec EXCEPT ![p].state = "Running"] /\ refused' = refused
  BY DEF PluginCode, pluginSucceeds, pluginFails, initializeExtensions, stopReturns, Returns,
         startVars, Loading
<1>2. todo # << >> /\ p = Head(todo) /\ ~spec[p].hasError
  BY <1>1, ConstantsAssumption DEF LifeIsTrue, CalledInTurn, Loading
<1>3. spec \in [Plugins -> PluginSpec]
  BY DEF LifeIsTrue, AreTyped
<1>4. /\ SameMarks(spec, [spec EXCEPT ![p].state = phase, ![p].plugin = TRUE])
      /\ SameMarks(spec, [spec EXCEPT ![p].hasError = TRUE])
      /\ SameMarks(spec, [spec EXCEPT ![p].state = "Running"])
  BY <1>3 DEF SameMarks, PluginSpec
<1>5. \A q \in Plugins \ {p} : spec'[q] = spec[q]
  BY <1>1, <1>3
<1>6. CASE refused' = refused \cup {p}
  <2>1. ~OughtToRun(p)'
    BY <1>6 DEF OughtToRun
  <2> QED
    BY <1>1, <1>2, <1>4, <1>5, <2>1, RunGoesOn
<1>7. CASE /\ refused' = refused
           /\ \/ spec' = [spec EXCEPT ![p].state = phase, ![p].plugin = TRUE]
              \/ phase = "Running" /\ spec' = [spec EXCEPT ![p].state = "Running"]
  <2>1. ~spec'[p].hasError /\ spec'[p].state = phase
    BY <1>1, <1>2, <1>3, <1>7 DEF PluginSpec
  <2> QED
    BY <1>1, <1>2, <1>4, <1>5, <1>7, <2>1, RunGoesOn
<1> QED
  BY <1>1, <1>6, <1>7

(* Every step keeps the invariant.                                         *)
LEMMA RunSteps ==
    ASSUME LifeIsTrue, LifeIsTrue', RunIsTrue, [Next]_vars
    PROVE  RunIsTrue'
<1>1. ASSUME UNCHANGED <<config, spec, phase, queue, todo, refused>> PROVE RunIsTrue'
  <2>1. SameMarks(spec, spec')
    BY <1>1 DEF SameMarks
  <2>2. /\ IsClosedBy(spec) => IsClosedBy(spec)'
        /\ \A p \in Plugins : OughtToRun(p)' => OughtToRun(p)
    BY <1>1, <2>1, StillEnabled
  <2>3. Bad' = Bad /\ \A p \in Plugins : IsOnItsWay(p) => IsOnItsWay(p)'
    BY <1>1, SameGraph DEF IsOnItsWay, InQueue, InTodo
  <2> QED
    BY <1>1, <2>2, <2>3 DEF RunIsTrue
<1>2. ASSUME phase' \notin {"options", "check", "load", "exec"} \cup Loading PROVE RunIsTrue'
  BY <1>2 DEF RunIsTrue
<1>3. CASE UNCHANGED vars
  BY <1>1, <1>3 DEF vars
<1>4. CASE setPluginPaths \/ crash \/ Preparing
  BY <1>4, RunPrepared
<1>5. CASE loadPlugins
  BY <1>5, RunLoads
<1>6. CASE initializePlugins \/ runPlugins \/ pluginsAreLoaded
  BY <1>6, RunFollows
<1>7. CASE nextDelayedInitialize
  BY <1>1, <1>7 DEF nextDelayedInitialize, startVars, passVars
<1>8. CASE shutdown \/ deleteAll \/ waitForAsynchronousPlugins \/ end
  BY <1>2, <1>8 DEF shutdown, deleteAll, waitForAsynchronousPlugins, end, StartPass, Loading
<1>9. ASSUME NEW p \in Plugins, asynchronousShutdownFinished(p) PROVE RunIsTrue'
  <2>1. phase \in {"wait", "Stopped"} /\ phase' \in {phase, "crashed"}
    BY <1>9 DEF asynchronousShutdownFinished
  <2> QED
    BY <1>2, <2>1 DEF Loading
<1>10. ASSUME NEW p \in Plugins, \/ loadPluginPassesOver(p) \/ loadPluginRefuses(p)
                                 \/ loadPluginCalls(p) \/ deletePlugin(p) \/ PluginCode(p)
       PROVE  RunIsTrue'
  <2>1. phase' = phase /\ phase \in Pass
    BY <1>10 DEF loadPluginPassesOver, loadPluginRefuses, loadPluginCalls, deletePlugin, AtPlugin,
         PluginCode, pluginSucceeds, pluginFails, initializeExtensions, stopReturns, Pass, Loading
  <2>2. CASE phase \notin Loading
    BY <1>2, <2>1, <2>2 DEF Pass
  <2>3. CASE phase \in Loading
    <3>1. CASE loadPluginCalls(p)
      BY <1>1, <2>3, <3>1 DEF loadPluginCalls, startVars, Loading
    <3>2. CASE deletePlugin(p)
      BY <2>3, <3>2 DEF deletePlugin, Loading
    <3> QED
      BY <1>10, <2>3, <3>1, <3>2, RunLeaves, RunReturns
  <2> QED
    BY <2>2, <2>3
<1> QED
  BY <1>3, <1>4, <1>5, <1>6, <1>7, <1>8, <1>9, <1>10 DEF Next, Manages, Preparing

(* When the passes that load plugins are over, every plugin that is        *)
(* enabled runs, unless its own code or that of a plugin it requires has   *)
(* failed or is not for this platform, or it depends on a circle or on     *)
(* what is not installed.                                                  *)
THEOREM AllThatCanRun == Spec => []RunsWhenItCan
<1>1. Init => RunIsTrue
  BY DEF Init, RunIsTrue, Loading
<1>2. RunIsTrue => RunsWhenItCan
  <2> SUFFICES ASSUME RunIsTrue, phase = "exec", NEW p \in Plugins, isEffectivelyEnabled(spec, p),
                      \A q \in {p} \cup Reachable(p, {"Required"}) :
                         q \in config.available /\ q \notin refused,
                      \A q \in {p} \cup Reachable(p, AnyKind) :
                         ~InCycle(q) /\ q \notin config.unresolved
               PROVE  spec[p].state = "Running"
    BY Zenon DEF RunsWhenItCan
  <2>1. p \notin Bad
    BY DEF Bad
  <2>2. OughtToRun(p)
    BY <2>1 DEF OughtToRun
  <2> QED
    BY <2>2 DEF RunIsTrue
<1>3. LifeIsTrue /\ LifeIsTrue' /\ RunIsTrue /\ [Next]_vars => RunIsTrue'
  BY RunSteps
<1> QED
  BY <1>1, <1>2, <1>3, LifeStarts, LifeSteps, PTL DEF Spec
=============================================================================
