------------------------------ MODULE BuildProofs ------------------------------
(***************************************************************************)
(* What BuildManager promises, for any projects, targets, steps and lists  *)
(* of steps, any number of builds and of parser runs: the queue and what   *)
(* is kept beside it agree, the end of a build is told once, and a project *)
(* that is removed leaves nothing behind.                                  *)
(*                                                                         *)
(* An event is a chain of calls, each from one BuildManagerPrivate to the  *)
(* next.  Sound is what holds at its ends, Between and Ending what holds   *)
(* before nextStep() and before the finishedHandler, which lead to Settled *)
(* from there.  BInv adds what the history tells of the state: why steps   *)
(* wait that do not run, and how often the end has been told.              *)
(***************************************************************************)
EXTENDS BuildManager, TLAPS, FiniteSetTheorems, SequenceTheorems

------------------------------------------------------------------------------
(* The invariant.                                                           *)

(* A BuildManagerPrivate with at least as many flags as steps.              *)
Typed(m) ==
    m \in BuildManagerPrivate /\ Len(m.m_buildQueue) <= Len(m.m_enabledState)

(* Nothing is being built.                                                  *)
Idle(m) ==
    /\ m.m_buildQueue = << >> /\ m.m_currentBuildStep = None
    /\ abortBuildAllOnError => m.m_enabledState = << >>
    /\ ~m.m_running /\ ~m.m_canceling /\ m.working = {} /\ m.connected = {}
    /\ \A p \in Projects : m.m_activeBuildSteps[p] = 0
    /\ m.m_maxProgress = 0

(* No step of a target that has failed is queued.                           *)
NoneFailed(m) ==
    \A i \in DOMAIN m.m_buildQueue : target[m.m_buildQueue[i]] \notin m.failed

(* What the queue says of itself while no step works.                       *)
Between(m, known) ==
    /\ Typed(m) /\ m.m_running /\ ~m.m_canceling /\ m.working = {} /\ m.connected = {}
    /\ \A p \in Projects : m.m_activeBuildSteps[p] = Amount(m.m_buildQueue, p)
    /\ abortBuildAllOnError =>
          /\ FlagsBelongToSteps(m)
          /\ m.m_maxProgress = Count(m.m_enabledState, {TRUE}) + m.m_progress
    /\ "scattered" \notin known => NoneFailed(m) /\ Together(m.m_buildQueue)

(* What it says while one does, or nothing has been started.                *)
Agrees(m, known) ==
    /\ CountersAgree(m)
    /\ abortBuildAllOnError => FlagsBelongToSteps(m) /\ ProgressIsTrue(m)
    /\ "scattered" \notin known =>
          /\ FailedTargetIsLeftOut(m) /\ NoneFailed(m) /\ Together(m.m_buildQueue)
          /\ m.m_currentBuildStep # None =>
                Together(<<m.m_currentBuildStep>> \o m.m_buildQueue)

(* What holds of d between two events, unless a step has been abandoned.    *)
Sound(m, known) ==
    Typed(m) /\ OneStepAtATime(m) /\ Agrees(m, known) /\ (m.m_canceling => m.m_running)

(* Steps that wait do so for one of their build systems.                    *)
IsPutOff(m) ==
    ~m.m_running /\ m.m_buildQueue # << >> =>
        \E i \in DOMAIN m.m_buildQueue : target[m.m_buildQueue[i]] = m.m_scheduledBuild

(* And only steps that wait have one.                                       *)
OnlyPutOff(m) == m.m_scheduledBuild # None => ~m.m_running /\ m.m_buildQueue # << >>

(* The types, and that what a build waits for will tell it.                 *)
Types ==
    /\ TypeOK /\ Typed(d)
    /\ d.m_scheduledBuild # None => listeners[d.m_scheduledBuild] > 0

(* The history and the state: nothing but a mishap takes the one from the   *)
(* other.                                                                   *)
Holds(m, known, gone) ==
    /\ "abandoned" \notin known => Sound(m, known) /\ IsPutOff(m)
    /\ known \cap {"abandoned", "overlapped"} = {} => OnlyPutOff(m)
    /\ known \subseteq {"scattered"} => m.announced = IF isBuilding(m) THEN 0 ELSE 1
    /\ known \cap {"lateCancel", "abandoned"} = {} =>
          "crashed" \notin known /\ \A p \in gone : m.m_activeBuildSteps[p] = 0

(* All there is to know.                                                    *)
BInv == Types /\ Holds(d, mishaps, removed)

------------------------------------------------------------------------------
(* Counting: a count is a number, and 0 if there is nothing to count.       *)
LEMMA Counted ==
    ASSUME NEW X, NEW s \in Seq(X), NEW S
    PROVE  /\ IsFiniteSet({i \in DOMAIN s : s[i] \in S})
           /\ Count(s, S) \in Nat
           /\ Count(s, S) = 0 <=> \A i \in DOMAIN s : s[i] \notin S
<1>1. DOMAIN s = 1 .. Len(s) /\ Len(s) \in Nat
  OBVIOUS
<1>2. IsFiniteSet(1 .. Len(s))
  BY <1>1, FS_Interval
<1>3. IsFiniteSet({i \in DOMAIN s : s[i] \in S})
  BY <1>1, <1>2, FS_Subset
<1> QED
  BY <1>3, FS_CardinalityType, FS_EmptySet DEF Count

(* Two sets, the first shifted away from the second.                        *)
LEMMA Shifted ==
    ASSUME NEW A, IsFiniteSet(A), NEW B, IsFiniteSet(B), NEW C, NEW f \in Bijection(B, C),
           A \cap C = {}
    PROVE  /\ IsFiniteSet(A \cup C)
           /\ Cardinality(A \cup C) = Cardinality(A) + Cardinality(B)
<1>1. IsFiniteSet(C) /\ Cardinality(C) = Cardinality(B)
  BY FS_Bijection DEF ExistsBijection
<1>2. /\ IsFiniteSet(A \cup C)
      /\ Cardinality(A \cup C) = Cardinality(A) + Cardinality(C) - Cardinality(A \cap C)
  BY <1>1, FS_Union
<1>3. Cardinality(A \cap C) = 0
  BY FS_EmptySet
<1> QED
  BY <1>1, <1>2, <1>3, FS_CardinalityType

(* A count adds up over a concatenation.                                    *)
LEMMA CountConcat ==
    ASSUME NEW X, NEW s \in Seq(X), NEW t \in Seq(X), NEW S
    PROVE  Count(s \o t, S) = Count(s, S) + Count(t, S)
<1> DEFINE A == {i \in DOMAIN s : s[i] \in S}
           B == {i \in DOMAIN t : t[i] \in S}
           C == {i \in Len(s) + 1 .. Len(s) + Len(t) : (s \o t)[i] \in S}
           f == [i \in B |-> i + Len(s)]
<1>1. /\ DOMAIN s = 1 .. Len(s) /\ Len(s) \in Nat
      /\ DOMAIN t = 1 .. Len(t) /\ Len(t) \in Nat
      /\ DOMAIN (s \o t) = 1 .. Len(s) + Len(t)
      /\ \A i \in 1 .. Len(s) : (s \o t)[i] = s[i]
      /\ \A i \in 1 .. Len(t) : (s \o t)[i + Len(s)] = t[i]
  OBVIOUS
<1>2. IsFiniteSet(A) /\ IsFiniteSet(B)
  BY Counted
<1>3. f \in Bijection(B, C)
  <2>1. \A i \in B : i + Len(s) \in C
    BY <1>1
  <2>2. \A i \in C : i - Len(s) \in B /\ i = (i - Len(s)) + Len(s)
    BY <1>1
  <2>3. \A a, b \in B : a + Len(s) = b + Len(s) => a = b
    BY <1>1
  <2> QED
    BY <2>1, <2>2, <2>3 DEF Bijection, Injection, Surjection, IsInjective
<1>4. A \cap C = {} /\ {i \in DOMAIN (s \o t) : (s \o t)[i] \in S} = A \cup C
  BY <1>1
<1>5. Cardinality(A \cup C) = Cardinality(A) + Cardinality(B)
  BY <1>2, <1>3, <1>4, Shifted
<1> QED
  BY <1>4, <1>5 DEF Count

(* The sequences that change by an element, or in the middle.               *)
LEMMA CountAppend ==
    ASSUME NEW X, NEW s \in Seq(X), NEW e \in X, NEW S
    PROVE  Count(Append(s, e), S) = Count(s, S) + (IF e \in S THEN 1 ELSE 0)
<1>1. <<e>> \in Seq(X) /\ Append(s, e) = s \o <<e>>
  OBVIOUS
<1>2. {i \in DOMAIN <<e>> : <<e>>[i] \in S} = IF e \in S THEN {1} ELSE {}
  OBVIOUS
<1>3. Count(<<e>>, S) = IF e \in S THEN 1 ELSE 0
  BY <1>2, FS_EmptySet, FS_Singleton DEF Count
<1>4. Count(s \o <<e>>, S) = Count(s, S) + Count(<<e>>, S)
  BY <1>1, CountConcat, Zenon
<1> QED
  BY <1>1, <1>3, <1>4

(* It loses what the first element has counted.                             *)
LEMMA CountTail ==
    ASSUME NEW X, NEW s \in Seq(X), s # <<>>, NEW S
    PROVE  Count(s, S) = Count(Tail(s), S) + (IF Head(s) \in S THEN 1 ELSE 0)
<1>1. /\ <<>> \in Seq(X) /\ Head(s) \in X /\ Tail(s) \in Seq(X)
      /\ <<Head(s)>> \in Seq(X) /\ s = <<Head(s)>> \o Tail(s)
      /\ <<Head(s)>> = Append(<<>>, Head(s))
  OBVIOUS
<1>2. Count(<<Head(s)>> \o Tail(s), S) = Count(<<Head(s)>>, S) + Count(Tail(s), S)
  BY <1>1, CountConcat, Zenon
<1>3. Count(Append(<<>>, Head(s)), S) = Count(<<>>, S) + (IF Head(s) \in S THEN 1 ELSE 0)
  BY <1>1, CountAppend, Zenon
<1>4. Count(Tail(s), S) \in Nat
  BY <1>1, Counted, Zenon
<1>5. (\A i \in DOMAIN <<>> : <<>>[i] \notin S) => Count(<<>>, S) = 0
  BY <1>1, Counted, Zenon
<1>6. Count(<<>>, S) = 0
  BY <1>5
<1>7. Count(s, S) = Count(Append(<<>>, Head(s)), S) + Count(Tail(s), S)
  BY <1>1, <1>2, Zenon
<1> QED
  BY <1>3, <1>4, <1>6, <1>7

(* It is the sum of the counts before and after a place.                    *)
LEMMA CountSplit ==
    ASSUME NEW X, NEW s \in Seq(X), NEW n \in 0 .. Len(s), NEW S
    PROVE  /\ SubSeq(s, 1, n) \in Seq(X) /\ SubSeq(s, n + 1, Len(s)) \in Seq(X)
           /\ Count(s, S) = Count(SubSeq(s, 1, n), S) + Count(SubSeq(s, n + 1, Len(s)), S)
<1>1. SubSeq(s, 1, n) \in Seq(X) /\ SubSeq(s, n + 1, Len(s)) \in Seq(X)
  OBVIOUS
<1>2. /\ 1 \in 1 .. Len(s) + 1 /\ n \in 1 - 1 .. Len(s) /\ Len(s) \in n .. Len(s)
      /\ SubSeq(s, 1, Len(s)) = s
  OBVIOUS
<1>3. SubSeq(s, 1, n) \o SubSeq(s, n + 1, Len(s)) = SubSeq(s, 1, Len(s))
  BY <1>2, ConcatAdjacentSubSeq, Zenon
<1>4. Count(SubSeq(s, 1, n) \o SubSeq(s, n + 1, Len(s)), S)
        = Count(SubSeq(s, 1, n), S) + Count(SubSeq(s, n + 1, Len(s)), S)
  BY <1>1, CountConcat, Zenon
<1> QED
  BY <1>1, <1>2, <1>3, <1>4, Zenon

(* It is 0 for the empty sequence.                                          *)
LEMMA CountEmpty == \A S : Count(<< >>, S) = 0
<1>1. \A S : {i \in DOMAIN << >> : << >>[i] \in S} = {}
  OBVIOUS
<1> QED
  BY <1>1, FS_EmptySet DEF Count

(* A set of places that has all places before each of them.                 *)
LEMMA Prefix ==
    ASSUME NEW L \in Nat, NEW S \in SUBSET (1 .. L), \A i \in S : \A j \in 1 .. i : j \in S
    PROVE  Cardinality(S) \in 0 .. L /\ S = 1 .. Cardinality(S)
<1> DEFINE c == Cardinality(S)
<1>1. IsFiniteSet(1 .. L) /\ Cardinality(1 .. L) = L
  BY FS_Interval
<1>2. IsFiniteSet(S) /\ c \in Nat /\ c <= L
  <2>1. IsFiniteSet(S) /\ Cardinality(S) <= Cardinality(1 .. L)
    BY <1>1, FS_Subset, Zenon
  <2>2. c \in Nat
    BY <2>1, FS_CardinalityType, Zenon
  <2> QED
    BY <1>1, <2>1, <2>2, Zenon
<1>3. IsFiniteSet(1 .. c) /\ Cardinality(1 .. c) = c
  BY <1>2, FS_Interval
<1>4. ASSUME NEW i \in S PROVE i \in 1 .. c
  <2>1. i \in Nat /\ 1 .. i \in SUBSET S
    OBVIOUS
  <2>2. Cardinality(1 .. i) = i
    BY <2>1, FS_Interval
  <2>3. Cardinality(1 .. i) <= c
    BY <1>2, <2>1, FS_Subset
  <2> QED
    BY <1>2, <2>1, <2>2, <2>3
<1>5. S \in SUBSET (1 .. c) /\ Cardinality(S) = Cardinality(1 .. c)
  BY <1>3, <1>4
<1>6. S = 1 .. c
  BY <1>3, <1>5, FS_Subset, Zenon
<1> QED
  BY <1>2, <1>6

(* What nextStep() passes over are all disabled steps at the front.         *)
LEMMA Skipping ==
    ASSUME NEW m, Typed(m)
    PROVE  /\ ToSkip(m) \in 0 .. Len(m.m_buildQueue)
           /\ \A i \in 1 .. ToSkip(m) : m.m_enabledState[i] = FALSE
           /\ ToSkip(m) < Len(m.m_buildQueue) => m.m_enabledState[ToSkip(m) + 1] = TRUE
<1> DEFINE q == m.m_buildQueue
           f == m.m_enabledState
           S == {i \in DOMAIN q : \A j \in 1 .. i : ~f[j]}
           n == Cardinality(S)
<1>1. /\ DOMAIN q = 1 .. Len(q) /\ Len(q) \in Nat /\ Len(f) \in Nat /\ Len(q) <= Len(f)
      /\ \A i \in 1 .. Len(q) : f[i] \in BOOLEAN
  BY DEF Typed, BuildManagerPrivate
<1>2. S \in SUBSET (1 .. Len(q)) /\ \A i \in S : \A j \in 1 .. i : j \in S
  BY <1>1
<1> HIDE DEF S
<1>3. n \in 0 .. Len(q) /\ S = 1 .. n
  BY <1>1, <1>2, Prefix
<1>4. \A i \in 1 .. n : i \in S
  BY <1>3
<1>5. \A i \in 1 .. n : f[i] = FALSE
  <2> SUFFICES ASSUME NEW i \in 1 .. n PROVE f[i] = FALSE
    OBVIOUS
  <2>1. i \in S /\ i \in 1 .. i /\ i \in 1 .. Len(q)
    BY <1>1, <1>3, <1>4
  <2>2. ~f[i]
    BY <2>1 DEF S
  <2> QED
    BY <1>1, <2>1, <2>2
<1>6. ASSUME n < Len(q) PROVE f[n + 1] = TRUE
  <2>1. n + 1 \in DOMAIN q /\ n + 1 \notin S
    BY <1>1, <1>3, <1>6
  <2>2. PICK j \in 1 .. n + 1 : f[j]
    BY <2>1 DEF S
  <2>3. j = n + 1
    BY <1>3, <1>5, <2>2
  <2> QED
    BY <1>1, <2>1, <2>2, <2>3
<1>7. ToSkip(m) = n
  BY DEF ToSkip, S
<1> QED
  BY <1>3, <1>5, <1>6, <1>7

(* What a failure drops are all steps of the target, if they are together.  *)
LEMMA Dropping ==
    ASSUME NEW q \in Seq(Steps), NEW t
    PROVE  /\ SameTarget(q, t) \in 0 .. Len(q)
           /\ (\A i \in DOMAIN q : target[q[i]] = t =>
                  \A j \in DOMAIN q : j < i => target[q[j]] = t)
                => \A i \in DOMAIN q : target[q[i]] = t => i <= SameTarget(q, t)
<1> DEFINE S == {i \in DOMAIN q : \A j \in 1 .. i : target[q[j]] = t}
           n == Cardinality(S)
<1>1. DOMAIN q = 1 .. Len(q) /\ Len(q) \in Nat
  OBVIOUS
<1>2. S \in SUBSET (1 .. Len(q)) /\ \A i \in S : \A j \in 1 .. i : j \in S
  BY <1>1
<1>3. (\A i \in DOMAIN q : target[q[i]] = t => \A j \in DOMAIN q : j < i => target[q[j]] = t)
        => \A i \in DOMAIN q : target[q[i]] = t => i \in S
  <2> SUFFICES ASSUME \A i \in DOMAIN q : target[q[i]] = t =>
                         \A j \in DOMAIN q : j < i => target[q[j]] = t,
                      NEW i \in DOMAIN q, target[q[i]] = t, NEW j \in 1 .. i
               PROVE  target[q[j]] = t
    OBVIOUS
  <2> QED
    BY <1>1
<1> HIDE DEF S
<1>4. n \in 0 .. Len(q) /\ S = 1 .. n
  BY <1>1, <1>2, Prefix
<1>5. SameTarget(q, t) = n
  BY DEF SameTarget, S
<1> QED
  BY <1>1, <1>3, <1>4, <1>5

------------------------------------------------------------------------------
(* Amounts, flags and targets of the queues that the functions make.        *)
LEMMA Amounts ==
    ASSUME NEW q \in Seq(Steps), NEW p \in Projects
    PROVE  /\ Amount(q, p) \in Nat
           /\ Amount(q, p) = 0 <=> \A i \in DOMAIN q : ProjectOf(q[i]) # p
           /\ Amount(<< >>, p) = 0
           /\ \A s \in Steps : Amount(<<s>>, p) = IF ProjectOf(s) = p THEN 1 ELSE 0
           /\ \A r \in Seq(Steps) : Amount(q \o r, p) = Amount(q, p) + Amount(r, p)
           /\ q # << >> =>
                 Amount(q, p) = Amount(Tail(q), p) + (IF ProjectOf(Head(q)) = p THEN 1 ELSE 0)
           /\ \A n \in 0 .. Len(q) : Amount(q, p) = Amount(First(q, n), p) + Amount(Rest(q, n), p)
<1>1. \A s \in Steps : s \in StepsOf[p] <=> ProjectOf(s) = p
  BY DEF StepsOf
<1>2. \A i \in DOMAIN q : q[i] \in Steps
  OBVIOUS
<1>3. Amount(q, p) \in Nat /\ (Amount(q, p) = 0 <=> \A i \in DOMAIN q : q[i] \notin StepsOf[p])
  BY Counted DEF Amount
<1>4. Amount(<< >>, p) = 0
  BY CountEmpty DEF Amount
<1>5. ASSUME NEW s \in Steps PROVE Amount(<<s>>, p) = IF ProjectOf(s) = p THEN 1 ELSE 0
  <2>1. << >> \in Seq(Steps) /\ <<s>> = Append(<< >>, s)
    OBVIOUS
  <2>2. Count(Append(<< >>, s), StepsOf[p]) = Count(<< >>, StepsOf[p])
                                             + (IF s \in StepsOf[p] THEN 1 ELSE 0)
    BY <2>1, CountAppend, Zenon
  <2>3. Count(<< >>, StepsOf[p]) = 0
    BY CountEmpty, Zenon
  <2> QED
    BY <1>1, <2>1, <2>2, <2>3 DEF Amount
<1>6. ASSUME NEW r \in Seq(Steps) PROVE Amount(q \o r, p) = Amount(q, p) + Amount(r, p)
  BY CountConcat, Zenon DEF Amount
<1>7. ASSUME q # << >>
      PROVE  Amount(q, p) = Amount(Tail(q), p) + (IF ProjectOf(Head(q)) = p THEN 1 ELSE 0)
  <2>1. Head(q) \in Steps
    BY <1>7
  <2>2. Count(q, StepsOf[p]) = Count(Tail(q), StepsOf[p])
                              + (IF Head(q) \in StepsOf[p] THEN 1 ELSE 0)
    BY <1>7, CountTail, Zenon
  <2> QED
    BY <1>1, <2>1, <2>2 DEF Amount
<1>8. ASSUME NEW n \in 0 .. Len(q)
      PROVE  Amount(q, p) = Amount(First(q, n), p) + Amount(Rest(q, n), p)
  BY CountSplit, Zenon DEF Amount, First, Rest
<1> QED
  BY <1>1, <1>2, <1>3, <1>4, <1>5, <1>6, <1>7, <1>8

(* What a sequence is split into.                                           *)
RestIs(q, n, X) ==
    /\ First(q, n) \in Seq(X) /\ Rest(q, n) \in Seq(X)
    /\ Len(Rest(q, n)) = Len(q) - n
    /\ \A i \in 1 .. Len(q) - n : Rest(q, n)[i] = q[i + n]
    /\ DOMAIN First(q, n) = 1 .. n /\ \A i \in 1 .. n : First(q, n)[i] = q[i]
    /\ Rest(q, n) = << >> <=> n = Len(q)
    /\ n < Len(q) => /\ Head(Rest(q, n)) = q[n + 1]
                     /\ Tail(Rest(q, n)) \in Seq(X) /\ q[n + 1] \in X
                     /\ Len(Tail(Rest(q, n))) = Len(q) - n - 1
                     /\ \A i \in 1 .. Len(q) - n - 1 : Tail(Rest(q, n))[i] = q[i + n + 1]
                     /\ Rest(q, n) = <<q[n + 1]>> \o Tail(Rest(q, n))

(* First() and Rest() make that of a sequence.                              *)
LEMMA Rests ==
    ASSUME NEW X, NEW q \in Seq(X), NEW n \in 0 .. Len(q)
    PROVE  RestIs(q, n, X)
<1>1. Len(q) \in Nat /\ n \in Nat /\ n <= Len(q) /\ DOMAIN q = 1 .. Len(q)
  OBVIOUS
<1>2. /\ First(q, n) \in Seq(X) /\ Rest(q, n) \in Seq(X)
      /\ Len(Rest(q, n)) = Len(q) - n
      /\ \A i \in 1 .. Len(q) - n : Rest(q, n)[i] = q[i + n]
      /\ DOMAIN First(q, n) = 1 .. n /\ \A i \in 1 .. n : First(q, n)[i] = q[i]
  <2>1. /\ SubSeq(q, 1, n) \in Seq(X) /\ DOMAIN SubSeq(q, 1, n) = 1 .. n
        /\ \A i \in 1 .. n : SubSeq(q, 1, n)[i] = q[i]
    OBVIOUS
  <2>2. SubSeq(q, n + 1, Len(q)) \in Seq(X)
    OBVIOUS
  <2>3. Len(SubSeq(q, n + 1, Len(q))) = Len(q) - n
    OBVIOUS
  <2>4. \A i \in 1 .. Len(q) - n : SubSeq(q, n + 1, Len(q))[i] = q[i + n]
    OBVIOUS
  <2>5. First(q, n) = SubSeq(q, 1, n) /\ Rest(q, n) = SubSeq(q, n + 1, Len(q))
    BY Zenon DEF First, Rest
  <2>6. /\ First(q, n) \in Seq(X) /\ DOMAIN First(q, n) = 1 .. n
        /\ \A i \in 1 .. n : First(q, n)[i] = q[i]
    BY <2>1, <2>5, Zenon
  <2>7. Rest(q, n) \in Seq(X) /\ Len(Rest(q, n)) = Len(q) - n
    BY <2>2, <2>3, <2>5, Zenon
  <2>8. \A i \in 1 .. Len(q) - n : Rest(q, n)[i] = q[i + n]
    BY <2>4, <2>5, Zenon
  <2> QED
    BY <2>6, <2>7, <2>8, Zenon
<1>3. Rest(q, n) = << >> <=> n = Len(q)
  <2> DEFINE r == Rest(q, n)
  <2>1. r \in Seq(X) /\ Len(r) = Len(q) - n
    BY <1>2, Zenon
  <2> HIDE DEF r
  <2>2. r = << >> <=> Len(r) = 0
    BY <2>1
  <2>3. Len(r) = 0 <=> n = Len(q)
    <3> DEFINE L == Len(q)
               K == Len(r)
    <3>1. L \in Nat /\ n \in Nat /\ K = L - n
      BY <1>1, <2>1
    <3> HIDE DEF L, K
    <3>2. K = 0 <=> n = L
      BY <3>1
    <3> QED
      BY <3>2, Zenon DEF K, L
  <2> QED
    BY <2>2, <2>3, Zenon DEF r
<1>4. ASSUME n < Len(q)
      PROVE  /\ Head(Rest(q, n)) = q[n + 1]
             /\ Tail(Rest(q, n)) \in Seq(X) /\ q[n + 1] \in X
             /\ Len(Tail(Rest(q, n))) = Len(q) - n - 1
             /\ \A i \in 1 .. Len(q) - n - 1 : Tail(Rest(q, n))[i] = q[i + n + 1]
             /\ Rest(q, n) = <<q[n + 1]>> \o Tail(Rest(q, n))
  <2> DEFINE r == Rest(q, n)
  <2>1. r \in Seq(X) /\ r # << >> /\ Len(r) = Len(q) - n /\ r[1] = q[n + 1] /\ q[n + 1] \in X
    BY <1>1, <1>2, <1>3, <1>4
  <2>2. \A i \in 1 .. Len(q) - n - 1 : i + 1 \in 1 .. Len(q) - n /\ r[i + 1] = q[i + n + 1]
    BY <1>1, <1>2, <1>4
  <2> HIDE DEF r
  <2>3. /\ Head(r) = r[1] /\ Tail(r) \in Seq(X) /\ Len(Tail(r)) = Len(r) - 1
        /\ \A i \in 1 .. Len(r) - 1 : Tail(r)[i] = r[i + 1]
        /\ r = <<r[1]>> \o Tail(r)
    BY <2>1
  <2> QED
    BY <1>1, <2>1, <2>2, <2>3 DEF r
<1> QED
  BY <1>2, <1>3, <1>4 DEF RestIs

(* What is left of steps that are together is so too.                       *)
LEMMA TogetherRest ==
    ASSUME NEW q \in Seq(Steps), NEW n \in 0 .. Len(q), Together(q)
    PROVE  /\ Together(Rest(q, n))
           /\ n < Len(q) => Together(Tail(Rest(q, n)))
<1>1. /\ DOMAIN q = 1 .. Len(q) /\ Len(q) \in Nat /\ n \in Nat
      /\ DOMAIN Rest(q, n) = 1 .. Len(q) - n
      /\ \A i \in 1 .. Len(q) - n : i + n \in 1 .. Len(q) /\ Rest(q, n)[i] = q[i + n]
  <2>1. RestIs(q, n, Steps)
    BY Rests
  <2> QED
    BY <2>1 DEF RestIs
<1>2. Together(Rest(q, n))
  <2> DEFINE r == Rest(q, n)
  <2>a. /\ DOMAIN r = 1 .. Len(q) - n
        /\ \A i \in 1 .. Len(q) - n : i + n \in 1 .. Len(q) /\ r[i] = q[i + n]
    BY <1>1
  <2> HIDE DEF r
  <2> SUFFICES Together(r)
    BY DEF r
  <2> SUFFICES ASSUME NEW i \in 1 .. Len(q) - n, NEW j \in 1 .. Len(q) - n,
                      NEW k \in 1 .. Len(q) - n,
                      i < j, j < k, target[r[i]] = target[r[k]]
               PROVE  target[r[j]] = target[r[i]]
    BY <2>a DEF Together
  <2>1. i + n < j + n /\ j + n < k + n
    BY <1>1
  <2>2. \A a, b, c \in DOMAIN q :
           a < b /\ b < c /\ target[q[a]] = target[q[c]] => target[q[b]] = target[q[a]]
    BY DEF Together
  <2>3. /\ i + n \in DOMAIN q /\ j + n \in DOMAIN q /\ k + n \in DOMAIN q
        /\ r[i] = q[i + n] /\ r[j] = q[j + n] /\ r[k] = q[k + n]
    BY <1>1, <2>a
  <2> DEFINE x == i + n
             y == j + n
             z == k + n
  <2>4. /\ x \in DOMAIN q /\ y \in DOMAIN q /\ z \in DOMAIN q /\ x < y /\ y < z
        /\ r[i] = q[x] /\ r[j] = q[y] /\ r[k] = q[z]
    BY <2>1, <2>3
  <2> HIDE DEF x, y, z
  <2> QED
    BY <2>2, <2>4
<1>3. ASSUME n < Len(q) PROVE Together(Tail(Rest(q, n)))
  <2>1. /\ DOMAIN Tail(Rest(q, n)) = 1 .. Len(q) - n - 1
        /\ \A i \in 1 .. Len(q) - n - 1 : /\ i + n + 1 \in 1 .. Len(q)
                                          /\ Tail(Rest(q, n))[i] = q[i + n + 1]
    <3>1. /\ Tail(Rest(q, n)) \in Seq(Steps) /\ Len(Tail(Rest(q, n))) = Len(q) - n - 1
          /\ \A i \in 1 .. Len(q) - n - 1 : Tail(Rest(q, n))[i] = q[i + n + 1]
      <4>1. RestIs(q, n, Steps)
        BY Rests
      <4> QED
        BY <1>3, <4>1 DEF RestIs
    <3> DEFINE w == Tail(Rest(q, n))
    <3> HIDE DEF w
    <3>2. w \in Seq(Steps) /\ Len(w) = Len(q) - n - 1
      BY <3>1 DEF w
    <3>3. DOMAIN w = 1 .. Len(q) - n - 1
      BY <3>2
    <3>4. \A i \in 1 .. Len(q) - n - 1 : i + n + 1 \in 1 .. Len(q)
      <4> DEFINE l == Len(q)
      <4>1. l \in Nat /\ n \in Nat /\ n < l
        BY <1>1, <1>3
      <4> HIDE DEF l
      <4>2. \A i \in 1 .. l - n - 1 : i + n + 1 \in 1 .. l
        BY <4>1
      <4> QED
        BY <4>2 DEF l
    <3> QED
      BY <3>1, <3>3, <3>4, Zenon DEF w
  <2> DEFINE r == Tail(Rest(q, n))
  <2>2. /\ DOMAIN r = 1 .. Len(q) - n - 1
        /\ \A i \in 1 .. Len(q) - n - 1 : i + n + 1 \in 1 .. Len(q) /\ r[i] = q[i + n + 1]
    BY <2>1
  <2> HIDE DEF r
  <2> SUFFICES Together(r)
    BY DEF r
  <2> SUFFICES ASSUME NEW i \in 1 .. Len(q) - n - 1, NEW j \in 1 .. Len(q) - n - 1,
                      NEW k \in 1 .. Len(q) - n - 1,
                      i < j, j < k, target[r[i]] = target[r[k]]
               PROVE  target[r[j]] = target[r[i]]
    BY <2>2 DEF Together
  <2>3. i + n + 1 < j + n + 1 /\ j + n + 1 < k + n + 1
    BY <1>1
  <2>4. \A a, b, c \in DOMAIN q :
           a < b /\ b < c /\ target[q[a]] = target[q[c]] => target[q[b]] = target[q[a]]
    BY DEF Together
  <2>5. /\ i + n + 1 \in DOMAIN q /\ j + n + 1 \in DOMAIN q /\ k + n + 1 \in DOMAIN q
        /\ r[i] = q[i + n + 1] /\ r[j] = q[j + n + 1] /\ r[k] = q[k + n + 1]
    BY <1>1, <2>2
  <2> DEFINE x == i + n + 1
             y == j + n + 1
             z == k + n + 1
  <2>6. /\ x \in DOMAIN q /\ y \in DOMAIN q /\ z \in DOMAIN q /\ x < y /\ y < z
        /\ r[i] = q[x] /\ r[j] = q[y] /\ r[k] = q[z]
    BY <2>3, <2>5
  <2> HIDE DEF x, y, z
  <2> QED
    BY <2>4, <2>6
<1> QED
  BY <1>2, <1>3

(* What a concatenation consists of.                                        *)
LEMMA Concats ==
    ASSUME NEW X, NEW f \in Seq(X), NEW g \in Seq(X)
    PROVE  /\ f \o g \in Seq(X) /\ Len(f \o g) = Len(f) + Len(g)
           /\ \A i \in 1 .. Len(f) : (f \o g)[i] = f[i]
           /\ \A i \in Len(f) + 1 .. Len(f) + Len(g) : (f \o g)[i] = g[i - Len(f)]
<1>1. f \o g \in Seq(X) /\ Len(f \o g) = Len(f) + Len(g)
  OBVIOUS
<1>2. \A i \in 1 .. Len(f) : (f \o g)[i] = f[i]
  OBVIOUS
<1>3. \A i \in Len(f) + 1 .. Len(f) + Len(g) : (f \o g)[i] = g[i - Len(f)]
  OBVIOUS
<1> QED
  BY <1>1, <1>2, <1>3, Zenon

(* The flags of a queue follow it through all that happens to it.           *)
LEMMA Flags ==
    ASSUME NEW q \in Seq(Steps)
    PROVE  /\ Enabled(q) \in Seq(BOOLEAN) /\ Len(Enabled(q)) = Len(q)
           /\ \A r \in Seq(Steps) : Enabled(q \o r) = Enabled(q) \o Enabled(r)
           /\ \A n \in 0 .. Len(q) : /\ Enabled(Rest(q, n)) = Rest(Enabled(q), n)
                                     /\ n < Len(q) => Enabled(Tail(Rest(q, n)))
                                                         = Tail(Rest(Enabled(q), n))
<1>1. \A r \in Seq(Steps) : /\ DOMAIN r = 1 .. Len(r) /\ Len(r) \in Nat
                            /\ Enabled(r) \in [1 .. Len(r) -> BOOLEAN]
  BY DEF Enabled
<1>2. \A r \in Seq(Steps) : Enabled(r) \in Seq(BOOLEAN)
  BY <1>1, SeqDef
<1>3. \A r \in Seq(Steps) : Len(Enabled(r)) = Len(r)
  BY <1>1, <1>2
<1>4. ASSUME NEW r \in Seq(Steps) PROVE Enabled(q \o r) = Enabled(q) \o Enabled(r)
  <2> DEFINE f == Enabled(q)
             g == Enabled(r)
             h == Enabled(q \o r)
  <2>1. /\ q \o r \in Seq(Steps) /\ Len(q \o r) = Len(q) + Len(r)
        /\ \A i \in 1 .. Len(q) : (q \o r)[i] = q[i]
        /\ \A i \in Len(q) + 1 .. Len(q) + Len(r) : (q \o r)[i] = r[i - Len(q)]
    BY Concats, Zenon
  <2>2. /\ f \in Seq(BOOLEAN) /\ g \in Seq(BOOLEAN) /\ Len(f) = Len(q) /\ Len(g) = Len(r)
        /\ h \in Seq(BOOLEAN) /\ Len(h) = Len(q) + Len(r)
    BY <1>2, <1>3, <2>1
  <2>3. /\ \A i \in 1 .. Len(q) : f[i] = (q[i] \notin Disabled)
        /\ \A i \in 1 .. Len(r) : g[i] = (r[i] \notin Disabled)
        /\ \A i \in 1 .. Len(q) + Len(r) : h[i] = ((q \o r)[i] \notin Disabled)
    BY <1>1, <2>1 DEF Enabled
  <2> HIDE DEF f, g, h
  <2>4. /\ f \o g \in Seq(BOOLEAN) /\ Len(f \o g) = Len(f) + Len(g)
        /\ \A i \in 1 .. Len(f) : (f \o g)[i] = f[i]
        /\ \A i \in Len(f) + 1 .. Len(f) + Len(g) : (f \o g)[i] = g[i - Len(f)]
    <3> DEFINE B == BOOLEAN
    <3>1. f \in Seq(B) /\ g \in Seq(B)
      BY <2>2
    <3> HIDE DEF B
    <3>2. /\ f \o g \in Seq(B) /\ Len(f \o g) = Len(f) + Len(g)
          /\ \A i \in 1 .. Len(f) : (f \o g)[i] = f[i]
          /\ \A i \in Len(f) + 1 .. Len(f) + Len(g) : (f \o g)[i] = g[i - Len(f)]
      BY <3>1, Concats, Zenon
    <3> QED
      BY <3>2, Zenon DEF B
  <2> DEFINE fg == f \o g
             qr == q \o r
  <2> HIDE DEF fg, qr
  <2>5. ASSUME NEW i \in 1 .. Len(q) + Len(r) PROVE h[i] = fg[i]
    <3>1. CASE i <= Len(q)
      <4>1. i \in 1 .. Len(q)
        BY <1>1, <3>1
      <4>2. h[i] = (qr[i] \notin Disabled) /\ qr[i] = q[i] /\ fg[i] = f[i]
        BY <2>1, <2>2, <2>3, <2>4, <4>1, Zenon DEF fg, qr
      <4> QED
        BY <2>3, <4>1, <4>2
    <3>2. CASE i > Len(q)
      <4>1. i \in Len(q) + 1 .. Len(q) + Len(r) /\ i - Len(q) \in 1 .. Len(r)
        BY <1>1, <3>2
      <4>2. /\ h[i] = (qr[i] \notin Disabled) /\ qr[i] = r[i - Len(q)]
            /\ fg[i] = g[i - Len(q)]
        BY <2>1, <2>2, <2>3, <2>4, <4>1, Zenon DEF fg, qr
      <4> QED
        BY <2>3, <4>1, <4>2
    <3> QED
      BY <1>1, <3>1, <3>2
  <2>6. fg \in Seq(BOOLEAN) /\ Len(fg) = Len(q) + Len(r)
    BY <2>2, <2>4, Zenon DEF fg
  <2>7. h = fg
    BY <2>2, <2>5, <2>6, SeqEqual
  <2> QED
    BY <2>7 DEF f, g, h, fg
<1>5. ASSUME NEW n \in 0 .. Len(q)
      PROVE  /\ Enabled(Rest(q, n)) = Rest(Enabled(q), n)
             /\ n < Len(q) => Enabled(Tail(Rest(q, n))) = Tail(Rest(Enabled(q), n))
  <2> DEFINE f == Enabled(q)
  <2>1. /\ f \in Seq(BOOLEAN) /\ Len(f) = Len(q)
        /\ \A i \in 1 .. Len(q) : f[i] = (q[i] \notin Disabled)
    BY <1>1, <1>2, <1>3 DEF Enabled
  <2>2. /\ Rest(q, n) \in Seq(Steps) /\ Len(Rest(q, n)) = Len(q) - n
        /\ \A i \in 1 .. Len(q) - n : Rest(q, n)[i] = q[i + n]
        /\ n < Len(q) => /\ Tail(Rest(q, n)) \in Seq(Steps)
                         /\ Len(Tail(Rest(q, n))) = Len(q) - n - 1
                         /\ \A i \in 1 .. Len(q) - n - 1 : Tail(Rest(q, n))[i] = q[i + n + 1]
    <3>1. RestIs(q, n, Steps)
      BY Rests
    <3> QED
      BY <3>1 DEF RestIs
  <2>3. /\ Rest(f, n) \in Seq(BOOLEAN) /\ Len(Rest(f, n)) = Len(q) - n
        /\ \A i \in 1 .. Len(q) - n : Rest(f, n)[i] = f[i + n]
        /\ n < Len(q) => /\ Tail(Rest(f, n)) \in Seq(BOOLEAN)
                         /\ Len(Tail(Rest(f, n))) = Len(q) - n - 1
                         /\ \A i \in 1 .. Len(q) - n - 1 : Tail(Rest(f, n))[i] = f[i + n + 1]
    <3> HIDE DEF f
    <3>1. n \in 0 .. Len(f)
      BY <2>1
    <3>2. RestIs(f, n, BOOLEAN)
      BY <2>1, <3>1, Rests
    <3> QED
      BY <2>1, <3>2 DEF RestIs
  <2>4. /\ \A i \in 1 .. Len(q) - n : i + n \in 1 .. Len(q)
        /\ \A i \in 1 .. Len(q) - n - 1 : i + n + 1 \in 1 .. Len(q)
    BY <1>1
  <2>5. Enabled(Rest(q, n)) = Rest(f, n)
    <3>1. /\ Enabled(Rest(q, n)) \in Seq(BOOLEAN) /\ Len(Enabled(Rest(q, n))) = Len(q) - n
          /\ \A i \in 1 .. Len(q) - n : Enabled(Rest(q, n))[i] = (Rest(q, n)[i] \notin Disabled)
      BY <1>1, <1>2, <1>3, <2>2 DEF Enabled
    <3>2. \A i \in 1 .. Len(q) - n : Enabled(Rest(q, n))[i] = Rest(f, n)[i]
      <4> HIDE DEF f
      <4> QED
        BY <2>1, <2>2, <2>3, <2>4, <3>1
    <3> HIDE DEF f
    <3> QED
      BY <2>3, <3>1, <3>2, SeqEqual
  <2>6. ASSUME n < Len(q) PROVE Enabled(Tail(Rest(q, n))) = Tail(Rest(f, n))
    <3> DEFINE r == Tail(Rest(q, n))
               g == Tail(Rest(f, n))
    <3>1. /\ r \in Seq(Steps) /\ Len(r) = Len(q) - n - 1
          /\ \A i \in 1 .. Len(q) - n - 1 : r[i] = q[i + n + 1]
          /\ g \in Seq(BOOLEAN) /\ Len(g) = Len(q) - n - 1
          /\ \A i \in 1 .. Len(q) - n - 1 : g[i] = f[i + n + 1]
      BY <2>2, <2>3, <2>6
    <3> HIDE DEF r, g, f
    <3>2. /\ Enabled(r) \in Seq(BOOLEAN) /\ Len(Enabled(r)) = Len(q) - n - 1
          /\ \A i \in 1 .. Len(q) - n - 1 : Enabled(r)[i] = (r[i] \notin Disabled)
      BY <1>1, <1>2, <1>3, <3>1 DEF Enabled
    <3>3. \A i \in 1 .. Len(q) - n - 1 : Enabled(r)[i] = g[i]
      BY <2>1, <2>4, <3>1, <3>2
    <3>4. Enabled(r) = g
      BY <3>1, <3>2, <3>3, SeqEqual
    <3> QED
      BY <3>4 DEF r, g
  <2> QED
    BY <2>5, <2>6
<1> QED
  BY <1>2, <1>3, <1>4, <1>5

------------------------------------------------------------------------------
(* The functions keep the types, whatever has happened before.  The sets of *)
(* the members have names, which keeps their definitions out of the way.    *)
Queues == Seq(Steps)
FlagLists == Seq(BOOLEAN)
Booleans == BOOLEAN
Currents == Steps \cup {None}
Counters == [Projects -> Int]
Numbers == Nat
Schedules == Targets \cup {None}
StepSets == SUBSET Steps
TargetSets == SUBSET Targets

Private ==
    [m_buildQueue : Queues, m_enabledState : FlagLists,
     m_running : Booleans, m_isDeploying : Booleans, m_canceling : Booleans,
     m_allStepsSucceeded : Booleans, m_currentBuildStep : Currents,
     m_activeBuildSteps : Counters, m_progress : Numbers, m_maxProgress : Numbers,
     m_scheduledBuild : Schedules, working : StepSets, connected : StepSets,
     failed : TargetSets, announced : Numbers]

(* The two ways to write the type are the same.                             *)
LEMMA Privates == BuildManagerPrivate = Private
  BY DEF BuildManagerPrivate, Private, Queues, FlagLists, Booleans, Currents, Counters,
         Numbers, Schedules, StepSets, TargetSets

(* The values that the functions assign have their types.                   *)
LEMMA Members ==
    /\ << >> \in Queues /\ << >> \in FlagLists
    /\ TRUE \in Booleans /\ FALSE \in Booleans
    /\ None \in Currents /\ None \in Schedules
    /\ 0 \in Numbers /\ \A n \in Numbers : n + 1 \in Numbers
  BY DEF Queues, FlagLists, Booleans, Currents, Schedules, Numbers

Less(m, q) == [p \in Projects |-> m.m_activeBuildSteps[p] - Amount(q, p)]

(* decrementActiveBuildSteps() changes nothing but the counters.            *)
LEMMA Decrements ==
    ASSUME NEW m \in BuildManagerPrivate, NEW q \in Seq(Steps \cup {None})
    PROVE  /\ decrementActiveBuildSteps(m, q) = [m EXCEPT !.m_activeBuildSteps = Less(m, q)]
           /\ Less(m, q) \in Counters
           /\ \A p \in Projects : Less(m, q)[p] = m.m_activeBuildSteps[p] - Amount(q, p)
<1>1. \A p \in Projects : Amount(q, p) \in Nat /\ m.m_activeBuildSteps[p] \in Int
  <2>1. m.m_activeBuildSteps \in [Projects -> Int]
    BY DEF BuildManagerPrivate
  <2> QED
    BY <2>1, Counted DEF Amount
<1> QED
  BY <1>1 DEF decrementActiveBuildSteps, Less, Counters

(* The steps that are counted, of which the current one may be missing.     *)
LEMMA SeqOfSteps ==
    /\ Seq(Steps) \subseteq Seq(Steps \cup {None})
    /\ \A s \in Steps \cup {None} : <<s>> \in Seq(Steps \cup {None})
  OBVIOUS

(* What clearBuildQueue() makes of m.                                       *)
IsCleared(m, r) ==
    /\ Typed(r)
    /\ r.m_buildQueue = << >> /\ r.m_enabledState = << >> /\ r.m_running = FALSE
    /\ r.m_currentBuildStep = None /\ r.m_maxProgress = 0
    /\ r.announced = m.announced + 1
    /\ r.m_canceling = m.m_canceling /\ r.m_scheduledBuild = m.m_scheduledBuild
    /\ r.working = m.working /\ r.connected = m.connected /\ r.failed = m.failed
    /\ \A p \in Projects : r.m_activeBuildSteps[p] =
          m.m_activeBuildSteps[p] - Amount(m.m_buildQueue, p)

(* clearBuildQueue() does so.                                               *)
LEMMA ClearTypes ==
    ASSUME NEW m \in BuildManagerPrivate
    PROVE  IsCleared(m, clearBuildQueue(m))
<1> DEFINE a == Less(m, m.m_buildQueue)
           r == clearBuildQueue(m)
<1>1. m.m_buildQueue \in Seq(Steps \cup {None})
  BY SeqOfSteps DEF BuildManagerPrivate
<1>2. /\ decrementActiveBuildSteps(m, m.m_buildQueue) = [m EXCEPT !.m_activeBuildSteps = a]
      /\ a \in Counters
      /\ \A p \in Projects : a[p] = m.m_activeBuildSteps[p] - Amount(m.m_buildQueue, p)
  BY <1>1, Decrements
<1>3. m \in Private
  BY Privates
<1>4. r = [[m EXCEPT !.m_activeBuildSteps = a] EXCEPT
             !.m_buildQueue = << >>, !.m_enabledState = << >>, !.m_running = FALSE,
             !.m_isDeploying = FALSE, !.m_currentBuildStep = None, !.m_maxProgress = 0,
             !.announced = @ + 1]
  BY <1>2 DEF clearBuildQueue
<1> HIDE DEF a, r
<1>5. r \in Private
  <2>1. m.announced + 1 \in Numbers
    BY <1>3, Members DEF Private
  <2> QED
    BY <1>2, <1>3, <1>4, <2>1, Members DEF Private
<1>6. /\ r.m_buildQueue = << >> /\ r.m_enabledState = << >> /\ r.m_running = FALSE
      /\ r.m_currentBuildStep = None /\ r.m_maxProgress = 0
      /\ r.announced = m.announced + 1
      /\ r.m_canceling = m.m_canceling /\ r.m_scheduledBuild = m.m_scheduledBuild
      /\ r.working = m.working /\ r.connected = m.connected /\ r.failed = m.failed
      /\ r.m_activeBuildSteps = a
  BY <1>3, <1>4 DEF Private
<1>7. Typed(r)
  BY <1>5, <1>6, Privates DEF Typed
<1> QED
  BY <1>2, <1>6, <1>7 DEF r, IsCleared

(* What remains when the build is cancelled.                                *)
IsStopped(m, r) ==
    /\ Typed(r)
    /\ r.m_buildQueue = << >> /\ r.m_enabledState = << >> /\ r.m_running = FALSE
    /\ r.m_currentBuildStep = None /\ r.m_maxProgress = 0
    /\ r.announced = m.announced + 1
    /\ r.m_canceling = FALSE /\ r.m_scheduledBuild = m.m_scheduledBuild
    /\ r.working = m.working /\ r.connected = m.connected /\ r.failed = m.failed
    /\ \A p \in Projects : r.m_activeBuildSteps[p] =
          m.m_activeBuildSteps[p] - Amount(<<m.m_currentBuildStep>>, p)
             - Amount(m.m_buildQueue, p)

(* nextBuildQueue() does so while m_canceling.                              *)
LEMMA StopTypes ==
    ASSUME NEW m \in BuildManagerPrivate
    PROVE  IsStopped(m, StopAtCancel(m))
<1> DEFINE n == [m EXCEPT !.m_canceling = FALSE]
           q == <<m.m_currentBuildStep>>
           a == Less(n, q)
           c == [n EXCEPT !.m_activeBuildSteps = a]
<1>1. n \in BuildManagerPrivate /\ q \in Seq(Steps \cup {None})
  BY SeqOfSteps DEF BuildManagerPrivate
<1>2. /\ decrementActiveBuildSteps(n, q) = c /\ a \in Counters
      /\ \A p \in Projects : a[p] = n.m_activeBuildSteps[p] - Amount(q, p)
  BY <1>1, Decrements
<1>3. n.m_activeBuildSteps = m.m_activeBuildSteps
  BY DEF BuildManagerPrivate
<1> HIDE DEF a
<1>4. /\ c \in Private /\ c.m_canceling = FALSE
      /\ c.m_buildQueue = m.m_buildQueue /\ c.announced = m.announced
      /\ c.m_scheduledBuild = m.m_scheduledBuild /\ c.working = m.working
      /\ c.connected = m.connected /\ c.failed = m.failed
      /\ c.m_activeBuildSteps = a
  BY <1>2, Privates, Members DEF Private
<1>5. StopAtCancel(m) = clearBuildQueue(c)
  BY <1>2 DEF StopAtCancel
<1> HIDE DEF c, n, q
<1>6. IsCleared(c, clearBuildQueue(c))
  BY <1>4, Privates, ClearTypes
<1> QED
  BY <1>2, <1>3, <1>4, <1>5, <1>6 DEF q, IsCleared, IsStopped

(* What nextStep() makes of a queue: the end, or the first enabled step.    *)
IsAdvanced(m, r) ==
    LET q == m.m_buildQueue
        f == m.m_enabledState
        n == ToSkip(m)
    IN  /\ Typed(r)
        /\ n \in 0 .. Len(q) /\ n \in 0 .. Len(f)
        /\ r.m_scheduledBuild = m.m_scheduledBuild /\ r.failed = m.failed
        /\ r.m_canceling = m.m_canceling /\ r.m_progress = m.m_progress
        /\ \A p \in Projects : r.m_activeBuildSteps[p] =
              m.m_activeBuildSteps[p] - Amount(First(q, n), p)
        /\ n = Len(q) =>
              /\ r.m_buildQueue = << >> /\ r.m_enabledState = Rest(f, n)
              /\ r.m_running = FALSE /\ r.m_currentBuildStep = None
              /\ r.m_maxProgress = 0 /\ r.announced = m.announced + 1
              /\ r.working = m.working /\ r.connected = m.connected
        /\ n # Len(q) =>
              /\ n < Len(q) /\ q[n + 1] \in Steps
              /\ r.m_buildQueue = Tail(Rest(q, n)) /\ r.m_enabledState = Tail(Rest(f, n))
              /\ r.m_running = m.m_running /\ r.m_currentBuildStep = q[n + 1]
              /\ r.m_maxProgress = m.m_maxProgress /\ r.announced = m.announced
              /\ r.working = m.working \cup {q[n + 1]}
              /\ r.connected = m.connected \cup {q[n + 1]}

(* nextStep() does so, unless it finds that the build is cancelled.         *)
LEMMA NextTypes ==
    ASSUME NEW m, Typed(m), ~(ToSkip(m) > 0 /\ m.m_canceling)
    PROVE  IsAdvanced(m, nextStep(m))
<1> DEFINE q == m.m_buildQueue
           f == m.m_enabledState
           n == ToSkip(m)
           a == Less(m, First(q, n))
           k == [m EXCEPT !.m_activeBuildSteps = a, !.m_buildQueue = Rest(@, n),
                          !.m_enabledState = Rest(@, n)]
           r == nextStep(m)
<1>1. m \in BuildManagerPrivate /\ q \in Seq(Steps) /\ f \in Seq(BOOLEAN) /\ Len(q) <= Len(f)
  BY DEF Typed, BuildManagerPrivate
<1>2. n \in 0 .. Len(q) /\ n \in 0 .. Len(f) /\ Len(q) \in Nat /\ Len(f) \in Nat /\ n \in Nat
  <2>1. ToSkip(m) \in 0 .. Len(m.m_buildQueue)
    BY Skipping, Zenon
  <2>2. Len(q) \in Nat /\ Len(f) \in Nat
    BY <1>1
  <2> HIDE DEF q, f
  <2>3. n \in 0 .. Len(q)
    BY <2>1, Zenon DEF q
  <2> HIDE DEF n
  <2> QED
    BY <1>1, <2>2, <2>3
<1> HIDE DEF n
<1>3. RestIs(q, n, Steps) /\ RestIs(f, n, BOOLEAN)
  <2> HIDE DEF q, f
  <2>1. RestIs(q, n, Steps)
    BY <1>1, <1>2, Rests
  <2>2. RestIs(f, n, BOOLEAN)
    BY <1>1, <1>2, Rests
  <2> QED
    BY <2>1, <2>2
<1>4. First(q, n) \in Seq(Steps \cup {None})
  BY <1>3, SeqOfSteps DEF RestIs
<1>5. /\ decrementActiveBuildSteps(m, First(q, n)) = [m EXCEPT !.m_activeBuildSteps = a]
      /\ a \in Counters
      /\ \A p \in Projects : a[p] = m.m_activeBuildSteps[p] - Amount(First(q, n), p)
  BY <1>1, <1>4, Decrements
<1> HIDE DEF a
<1>6. [decrementActiveBuildSteps(m, First(q, n)) EXCEPT
          !.m_buildQueue = Rest(@, n), !.m_enabledState = Rest(@, n)] = k
  BY <1>5
<1>7. m \in Private
  BY <1>1, Privates
<1>8. /\ k \in Private
      /\ k.m_buildQueue = Rest(q, n) /\ k.m_enabledState = Rest(f, n)
      /\ k.m_activeBuildSteps = a
      /\ k.m_scheduledBuild = m.m_scheduledBuild /\ k.failed = m.failed
      /\ k.m_canceling = m.m_canceling /\ k.m_progress = m.m_progress
      /\ k.m_maxProgress = m.m_maxProgress
      /\ k.m_running = m.m_running /\ k.announced = m.announced
      /\ k.working = m.working /\ k.connected = m.connected
  <2>1. Rest(q, n) \in Queues /\ Rest(f, n) \in FlagLists
    BY <1>3 DEF RestIs, Queues, FlagLists
  <2> QED
    BY <1>5, <1>7, <2>1 DEF Private
<1>9. r = IF k.m_buildQueue = << >> THEN EndOfQueue(k)
          ELSE [k EXCEPT !.m_buildQueue = Tail(@), !.m_enabledState = Tail(@),
                         !.m_currentBuildStep = Head(k.m_buildQueue),
                         !.working = @ \cup {Head(k.m_buildQueue)},
                         !.connected = @ \cup {Head(k.m_buildQueue)}]
  <2> DEFINE c == n > 0 /\ m.m_canceling
             stop == StopAtCancel([m EXCEPT !.m_buildQueue = Tail(@),
                                            !.m_enabledState = Tail(@),
                                            !.m_currentBuildStep = Head(q)])
             skip == [decrementActiveBuildSteps(m, First(q, n)) EXCEPT
                        !.m_buildQueue = Rest(@, n), !.m_enabledState = Rest(@, n)]
             end(s) == IF s.m_buildQueue = << >> THEN EndOfQueue(s)
                       ELSE [s EXCEPT !.m_buildQueue = Tail(@), !.m_enabledState = Tail(@),
                                      !.m_currentBuildStep = Head(s.m_buildQueue),
                                      !.working = @ \cup {Head(s.m_buildQueue)},
                                      !.connected = @ \cup {Head(s.m_buildQueue)}]
  <2>1. r = IF c THEN stop ELSE end(skip)
    BY Zenon DEF nextStep, n
  <2>2. ~c
    BY Zenon DEF n
  <2>3. skip = k
    BY <1>6
  <2> HIDE DEF c, stop, skip, k, r, end
  <2>4. r = end(k)
    BY <2>1, <2>2, <2>3, Zenon
  <2> QED
    BY <2>4 DEF end
<1> HIDE DEF k, r
<1>10. CASE n = Len(q)
  <2>1. /\ Rest(q, n) = << >> /\ Rest(f, n) \in Seq(BOOLEAN)
        /\ Len(<< >>) = 0 /\ Len(Rest(f, n)) \in Nat
    <3> HIDE DEF q, f
    <3>1. Rest(q, n) = << >>
      BY <1>3, <1>10 DEF RestIs
    <3>2. Rest(f, n) \in Seq(BOOLEAN)
      BY <1>3 DEF RestIs
    <3> HIDE DEF n
    <3>3. Len(Rest(f, n)) \in Nat
      BY <3>2
    <3> QED
      BY <3>1, <3>2, <3>3
  <2>2. r = EndOfQueue(k)
    BY <1>8, <1>9, <2>1
  <2>3. r = [k EXCEPT !.m_running = FALSE, !.m_isDeploying = FALSE, !.m_maxProgress = 0,
                      !.m_currentBuildStep = None, !.announced = @ + 1]
    BY <2>2 DEF EndOfQueue
  <2>4. k.announced + 1 \in Numbers
    BY <1>8, Members DEF Private
  <2>5. r \in Private
    BY <1>8, <2>3, <2>4, Members DEF Private
  <2>6. /\ r.m_scheduledBuild = k.m_scheduledBuild /\ r.failed = k.failed
        /\ r.m_canceling = k.m_canceling /\ r.m_progress = k.m_progress
        /\ r.m_buildQueue = k.m_buildQueue /\ r.m_enabledState = k.m_enabledState
        /\ r.m_running = FALSE /\ r.m_currentBuildStep = None
        /\ r.m_maxProgress = 0 /\ r.announced = k.announced + 1
        /\ r.working = k.working /\ r.connected = k.connected
        /\ r.m_activeBuildSteps = k.m_activeBuildSteps
    BY <1>8, <2>3 DEF Private
  <2>7. Typed(r)
    BY <1>8, <2>1, <2>5, <2>6, Privates DEF Typed
  <2> QED
    BY <1>2, <1>5, <1>8, <1>10, <2>1, <2>6, <2>7 DEF r, n, IsAdvanced
<1>11. CASE n # Len(q)
  <2> DEFINE tq == Tail(Rest(q, n))
             tf == Tail(Rest(f, n))
             s == q[n + 1]
  <2>1. n < Len(q) /\ n < Len(f)
    <3> HIDE DEF q, f
    <3> QED
      BY <1>1, <1>2, <1>11
  <2>2. Rest(q, n) # << >> /\ Head(Rest(q, n)) = s /\ s \in Steps /\ s \in Currents
    BY <1>3, <2>1 DEF RestIs, Currents
  <2>3. tq \in Queues /\ tf \in FlagLists
    BY <1>3, <2>1 DEF RestIs, Queues, FlagLists
  <2>4. Len(tq) = Len(q) - n - 1 /\ Len(tf) = Len(f) - n - 1
    BY <1>3, <2>1 DEF RestIs
  <2>5. Len(tq) <= Len(tf)
    <3> HIDE DEF q, f, tq, tf
    <3> QED
      BY <1>1, <1>2, <2>4
  <2>6. m.working \cup {s} \in StepSets /\ m.connected \cup {s} \in StepSets
    BY <1>7, <2>2 DEF Private, StepSets
  <2> HIDE DEF s
  <2>7. r = [k EXCEPT !.m_buildQueue = tq, !.m_enabledState = tf,
                      !.m_currentBuildStep = s,
                      !.working = m.working \cup {s}, !.connected = m.connected \cup {s}]
    BY <1>8, <1>9, <2>2
  <2> HIDE DEF tq, tf, q, f
  <2>8. r \in Private
    BY <1>8, <2>2, <2>3, <2>6, <2>7 DEF Private
  <2>9. /\ r.m_scheduledBuild = m.m_scheduledBuild /\ r.failed = m.failed
        /\ r.m_canceling = m.m_canceling /\ r.m_progress = m.m_progress
        /\ r.m_buildQueue = tq /\ r.m_enabledState = tf
        /\ r.m_running = m.m_running /\ r.m_currentBuildStep = s
        /\ r.m_maxProgress = m.m_maxProgress /\ r.announced = m.announced
        /\ r.working = m.working \cup {s} /\ r.connected = m.connected \cup {s}
        /\ r.m_activeBuildSteps = a
    BY <1>8, <2>7 DEF Private
  <2>10. Typed(r)
    BY <2>5, <2>8, <2>9, Privates DEF Typed
  <2> QED
    BY <1>2, <1>5, <1>11, <2>1, <2>2, <2>9, <2>10 DEF r, tq, tf, s, n, q, f, IsAdvanced
<1> QED
  BY <1>10, <1>11 DEF r

(* And while one waits for a cancelled step.                                *)
LEMMA NextKeepsTypes ==
    ASSUME NEW m, Typed(m)
    PROVE  Typed(nextStep(m)) /\ nextStep(m).m_scheduledBuild = m.m_scheduledBuild
<1> DEFINE q == m.m_buildQueue
           f == m.m_enabledState
           n == ToSkip(m)
           first == [m EXCEPT !.m_buildQueue = Tail(@), !.m_enabledState = Tail(@),
                              !.m_currentBuildStep = Head(q)]
<1>1. m \in Private /\ q \in Seq(Steps) /\ f \in Seq(BOOLEAN) /\ Len(q) <= Len(f)
  BY Privates DEF Typed, BuildManagerPrivate
<1>2. CASE ToSkip(m) > 0 /\ m.m_canceling
  <2>1. Len(q) > 0 /\ Len(f) > 0
    <3>1. n \in 0 .. Len(m.m_buildQueue)
      BY Skipping, Zenon
    <3>2. Len(q) \in Nat /\ Len(f) \in Nat /\ n > 0
      BY <1>1, <1>2
    <3> HIDE DEF n
    <3> QED
      BY <1>1, <1>2, <3>1, <3>2
  <2>2. Tail(q) \in Queues /\ Tail(f) \in FlagLists /\ Head(q) \in Currents
    <3> DEFINE B == BOOLEAN
    <3>1. q \in Seq(Steps) /\ f \in Seq(B) /\ Len(q) > 0 /\ Len(f) > 0
      BY <1>1, <2>1
    <3> HIDE DEF q, f, B
    <3>2. Tail(q) \in Seq(Steps) /\ Head(q) \in Steps
      BY <3>1
    <3>3. Tail(f) \in Seq(B)
      BY <3>1
    <3> QED
      BY <3>2, <3>3 DEF B, Queues, FlagLists, Currents
  <2>3. first \in Private /\ first.m_scheduledBuild = m.m_scheduledBuild
    BY <1>1, <2>2 DEF Private
  <2>4. nextStep(m) = StopAtCancel(first)
    BY <1>2 DEF nextStep
  <2> HIDE DEF first
  <2>5. IsStopped(first, StopAtCancel(first))
    BY <2>3, Privates, StopTypes
  <2> QED
    BY <2>3, <2>4, <2>5 DEF IsStopped
<1>3. CASE ~(ToSkip(m) > 0 /\ m.m_canceling)
  <2> HIDE DEF n, q, f, first
  <2>1. IsAdvanced(m, nextStep(m))
    BY <1>3, NextTypes, Zenon
  <2> QED
    BY <2>1 DEF IsAdvanced
<1> QED
  BY <1>2, <1>3

------------------------------------------------------------------------------
(* What the functions do before they go on with nextStep(), or give up.     *)
Keeps(m, r) ==
    /\ Typed(r)
    /\ r.m_running = m.m_running /\ r.m_canceling = m.m_canceling
    /\ r.m_currentBuildStep = m.m_currentBuildStep
    /\ r.m_scheduledBuild = m.m_scheduledBuild /\ r.m_maxProgress = m.m_maxProgress
    /\ r.working = m.working /\ r.announced = m.announced

(* The handler is no longer connected.                                      *)
Handled(m) == [m EXCEPT !.connected = @ \ {m.m_currentBuildStep}]

IsHandled(m, r) ==
    /\ Keeps(m, r)
    /\ r.m_buildQueue = m.m_buildQueue /\ r.m_enabledState = m.m_enabledState
    /\ r.m_activeBuildSteps = m.m_activeBuildSteps
    /\ r.failed = m.failed /\ r.m_progress = m.m_progress
    /\ r.connected = m.connected \ {m.m_currentBuildStep}

(* The finishedHandler does that first.                                     *)
LEMMA Handles ==
    ASSUME NEW m, Typed(m)
    PROVE  IsHandled(m, Handled(m))
<1> DEFINE r == Handled(m)
<1>1. m \in Private /\ Len(m.m_buildQueue) <= Len(m.m_enabledState)
  BY Privates DEF Typed
<1>2. m.connected \ {m.m_currentBuildStep} \in StepSets
  BY <1>1 DEF Private, StepSets
<1>3. /\ r \in Private
      /\ r.m_running = m.m_running /\ r.m_canceling = m.m_canceling
      /\ r.m_currentBuildStep = m.m_currentBuildStep
      /\ r.m_scheduledBuild = m.m_scheduledBuild /\ r.m_maxProgress = m.m_maxProgress
      /\ r.working = m.working /\ r.announced = m.announced
      /\ r.m_buildQueue = m.m_buildQueue /\ r.m_enabledState = m.m_enabledState
      /\ r.m_activeBuildSteps = m.m_activeBuildSteps
      /\ r.failed = m.failed /\ r.m_progress = m.m_progress
      /\ r.connected = m.connected \ {m.m_currentBuildStep}
  BY <1>1, <1>2 DEF Private, Handled
<1> HIDE DEF r
<1>4. Typed(r)
  BY <1>1, <1>3, Privates DEF Typed
<1> QED
  BY <1>3, <1>4 DEF r, Keeps, IsHandled

(* The current step counts as done.                                         *)
Done(m) ==
    decrementActiveBuildSteps([m EXCEPT !.m_progress = @ + 1], <<m.m_currentBuildStep>>)

IsDone(m, r) ==
    /\ Keeps(m, r)
    /\ r.m_buildQueue = m.m_buildQueue /\ r.m_enabledState = m.m_enabledState
    /\ r.failed = m.failed /\ r.m_progress = m.m_progress + 1
    /\ r.connected = m.connected
    /\ \A p \in Projects : r.m_activeBuildSteps[p] =
          m.m_activeBuildSteps[p] - Amount(<<m.m_currentBuildStep>>, p)

(* nextBuildQueue() counts the step as done.                                *)
LEMMA Does ==
    ASSUME NEW m, Typed(m)
    PROVE  IsDone(m, Done(m))
<1> DEFINE n == [m EXCEPT !.m_progress = @ + 1]
           q == <<m.m_currentBuildStep>>
           a == Less(n, q)
           r == Done(m)
<1>1. m \in Private /\ Len(m.m_buildQueue) <= Len(m.m_enabledState)
  BY Privates DEF Typed
<1>2. m.m_progress + 1 \in Numbers
  BY <1>1, Members DEF Private
<1>3. n \in BuildManagerPrivate /\ n.m_activeBuildSteps = m.m_activeBuildSteps
  BY <1>1, <1>2, Privates DEF Private
<1>4. q \in Seq(Steps \cup {None})
  <2>1. m.m_currentBuildStep \in Steps \cup {None}
    BY <1>1 DEF Private, Currents
  <2> QED
    BY <2>1, SeqOfSteps
<1> HIDE DEF q, n
<1>5. /\ decrementActiveBuildSteps(n, q) = [n EXCEPT !.m_activeBuildSteps = a]
      /\ a \in Counters
      /\ \A p \in Projects : a[p] = n.m_activeBuildSteps[p] - Amount(q, p)
  BY <1>3, <1>4, Decrements
<1> HIDE DEF a
<1>6. r = [n EXCEPT !.m_activeBuildSteps = a]
  BY <1>5 DEF Done, n, q
<1> HIDE DEF r
<1>7. /\ r \in Private
      /\ r.m_running = m.m_running /\ r.m_canceling = m.m_canceling
      /\ r.m_currentBuildStep = m.m_currentBuildStep
      /\ r.m_scheduledBuild = m.m_scheduledBuild /\ r.m_maxProgress = m.m_maxProgress
      /\ r.working = m.working /\ r.announced = m.announced
      /\ r.m_buildQueue = m.m_buildQueue /\ r.m_enabledState = m.m_enabledState
      /\ r.m_activeBuildSteps = a
      /\ r.failed = m.failed /\ r.m_progress = m.m_progress + 1
      /\ r.connected = m.connected
  BY <1>1, <1>2, <1>5, <1>6 DEF Private, n
<1>8. Typed(r)
  BY <1>1, <1>7, Privates DEF Typed
<1> QED
  BY <1>3, <1>5, <1>7, <1>8 DEF r, q, Keeps, IsDone

(* The build, or that of the target of the step, has failed.                *)
Failed(m) == [m EXCEPT !.m_allStepsSucceeded = FALSE,
                       !.failed = @ \cup {target[m.m_currentBuildStep]}]

IsFailed(m, r) ==
    /\ Keeps(m, r)
    /\ r.m_buildQueue = m.m_buildQueue /\ r.m_enabledState = m.m_enabledState
    /\ r.m_activeBuildSteps = m.m_activeBuildSteps
    /\ r.failed = m.failed \cup {target[m.m_currentBuildStep]}
    /\ r.m_progress = m.m_progress /\ r.connected = m.connected

(* It notes the failure.                                                    *)
LEMMA Fails ==
    ASSUME NEW m, Typed(m), m.m_currentBuildStep \in Steps
    PROVE  IsFailed(m, Failed(m))
<1> DEFINE r == Failed(m)
           g == m.failed \cup {target[m.m_currentBuildStep]}
<1>1. m \in Private /\ Len(m.m_buildQueue) <= Len(m.m_enabledState)
  BY Privates DEF Typed
<1>2. g \in TargetSets
  BY <1>1, ConstantsAssumption DEF Private, TargetSets
<1>3. r = [m EXCEPT !.m_allStepsSucceeded = FALSE, !.failed = g]
  BY <1>1 DEF Private, Failed
<1> HIDE DEF r, g
<1>4. /\ r \in Private
      /\ r.m_running = m.m_running /\ r.m_canceling = m.m_canceling
      /\ r.m_currentBuildStep = m.m_currentBuildStep
      /\ r.m_scheduledBuild = m.m_scheduledBuild /\ r.m_maxProgress = m.m_maxProgress
      /\ r.working = m.working /\ r.announced = m.announced
      /\ r.m_buildQueue = m.m_buildQueue /\ r.m_enabledState = m.m_enabledState
      /\ r.m_activeBuildSteps = m.m_activeBuildSteps
      /\ r.failed = g /\ r.m_progress = m.m_progress /\ r.connected = m.connected
  BY <1>1, <1>2, <1>3, Members DEF Private
<1>5. Typed(r)
  BY <1>1, <1>4, Privates DEF Typed
<1> QED
  BY <1>4, <1>5 DEF r, g, Keeps, IsFailed

(* The steps of its target that follow directly leave the queue.            *)
Dropped(m) ==
    LET n == SameTarget(m.m_buildQueue, target[m.m_currentBuildStep])
    IN  [decrementActiveBuildSteps(Failed(m), First(m.m_buildQueue, n)) EXCEPT
           !.m_buildQueue = Rest(@, n)]

IsDropped(m, r) ==
    LET q == m.m_buildQueue
        n == SameTarget(q, target[m.m_currentBuildStep])
    IN  /\ Keeps(m, r)
        /\ n \in 0 .. Len(q)
        /\ r.m_buildQueue = Rest(q, n)
        /\ r.failed = m.failed \cup {target[m.m_currentBuildStep]}
        /\ r.connected = m.connected
        /\ \A p \in Projects : r.m_activeBuildSteps[p] =
              m.m_activeBuildSteps[p] - Amount(First(q, n), p)

(* It drops the steps.                                                      *)
LEMMA Drops ==
    ASSUME NEW m, Typed(m), m.m_currentBuildStep \in Steps
    PROVE  IsDropped(m, Dropped(m))
<1> DEFINE q == m.m_buildQueue
           t == target[m.m_currentBuildStep]
           n == SameTarget(q, t)
           k == Failed(m)
           a == Less(k, First(q, n))
           r == Dropped(m)
<1>1. IsFailed(m, k)
  BY Fails
<1>2. k \in Private /\ q \in Seq(Steps) /\ k.m_buildQueue = q
  BY <1>1, Privates DEF IsFailed, Keeps, Typed, Private, Queues
<1>3. n \in 0 .. Len(q)
  <2> HIDE DEF q, t
  <2> QED
    BY <1>2, Dropping
<1>4. RestIs(q, n, Steps)
  <2> HIDE DEF q, n
  <2> QED
    BY <1>2, <1>3, Rests
<1>5. First(q, n) \in Seq(Steps \cup {None})
  BY <1>4, SeqOfSteps DEF RestIs
<1> HIDE DEF k, n
<1>6. /\ decrementActiveBuildSteps(k, First(q, n)) = [k EXCEPT !.m_activeBuildSteps = a]
      /\ a \in Counters
      /\ \A p \in Projects : a[p] = k.m_activeBuildSteps[p] - Amount(First(q, n), p)
  BY <1>2, <1>5, Privates, Decrements
<1> HIDE DEF a
<1>7. r = [[k EXCEPT !.m_activeBuildSteps = a] EXCEPT !.m_buildQueue = Rest(@, n)]
  BY <1>6 DEF Dropped, k, n
<1>8. Rest(q, n) \in Queues
  BY <1>4 DEF RestIs, Queues
<1> HIDE DEF r, q
<1>9. /\ r \in Private
      /\ r.m_running = k.m_running /\ r.m_canceling = k.m_canceling
      /\ r.m_currentBuildStep = k.m_currentBuildStep
      /\ r.m_scheduledBuild = k.m_scheduledBuild /\ r.m_maxProgress = k.m_maxProgress
      /\ r.working = k.working /\ r.announced = k.announced
      /\ r.m_buildQueue = Rest(q, n) /\ r.m_enabledState = k.m_enabledState
      /\ r.m_activeBuildSteps = a
      /\ r.failed = k.failed /\ r.connected = k.connected
  BY <1>2, <1>6, <1>7, <1>8 DEF Private
<1>10. Typed(r)
  <2>1. Len(q) <= Len(k.m_enabledState)
    BY <1>1, <1>2 DEF IsFailed, Keeps, Typed
  <2>2. Len(Rest(q, n)) = Len(q) - n
    BY <1>4 DEF RestIs
  <2>3. k.m_enabledState \in Seq(BOOLEAN)
    BY <1>2 DEF Private, FlagLists
  <2> DEFINE f == k.m_enabledState
  <2>4. Len(f) \in Nat /\ Len(q) \in Nat
    BY <1>2, <2>3
  <2> HIDE DEF f
  <2>5. Len(Rest(q, n)) <= Len(f)
    BY <1>3, <2>1, <2>2, <2>4 DEF f
  <2> QED
    BY <1>9, <2>5, Privates DEF Typed, f
<1> QED
  BY <1>1, <1>3, <1>6, <1>9, <1>10 DEF r, q, n, IsFailed, Keeps, IsDropped

(* The finishedHandler, by what has happened.                               *)
LEMMA Ends ==
    ASSUME NEW m, NEW success
    PROVE  /\ finishedHandler(m, success) = nextBuildQueue(Handled(m), success)
           /\ m.m_canceling => nextBuildQueue(m, success) = StopAtCancel(m)
           /\ ~m.m_canceling =>
                 nextBuildQueue(m, success) =
                    IF success THEN nextStep(Done(m)) ELSE BuildFailure(Done(m))
           /\ BuildFailure(m) =
                 IF abortBuildAllOnError THEN clearBuildQueue(Failed(m))
                 ELSE IF Dropped(m).m_buildQueue = << >> THEN clearBuildQueue(Dropped(m))
                 ELSE nextStep(Dropped(m))
<1>1. finishedHandler(m, success) = nextBuildQueue(Handled(m), success)
  BY Zenon DEF finishedHandler, Handled
<1>2. nextBuildQueue(m, success) = IF m.m_canceling THEN StopAtCancel(m)
                                   ELSE IF success THEN nextStep(Done(m))
                                   ELSE BuildFailure(Done(m))
  BY Zenon DEF nextBuildQueue, Done
<1>3. BuildFailure(m) =
         IF abortBuildAllOnError THEN clearBuildQueue(Failed(m))
         ELSE IF Dropped(m).m_buildQueue = << >> THEN clearBuildQueue(Dropped(m))
         ELSE nextStep(Dropped(m))
  BY Zenon DEF BuildFailure, Dropped, Failed
<1> QED
  BY <1>1, <1>2, <1>3, Zenon

(* The handler keeps the types, and what is put off.                        *)
LEMMA FinishKeepsTypes ==
    ASSUME NEW m, Typed(m), m.m_currentBuildStep \in Steps, NEW success
    PROVE  /\ Typed(finishedHandler(m, success))
           /\ finishedHandler(m, success).m_scheduledBuild = m.m_scheduledBuild
<1> DEFINE h == Handled(m)
           k == Done(h)
           g == Failed(k)
           x == Dropped(k)
           r == finishedHandler(m, success)
<1>1. IsHandled(m, h)
  BY Handles
<1>2. Typed(h) /\ h.m_scheduledBuild = m.m_scheduledBuild /\ h.m_currentBuildStep \in Steps
  BY <1>1 DEF IsHandled, Keeps
<1>3. r = nextBuildQueue(h, success)
  BY Ends, Zenon
<1> HIDE DEF h, r
<1>4. IsDone(h, k)
  BY <1>2, Does
<1>5. Typed(k) /\ k.m_scheduledBuild = m.m_scheduledBuild /\ k.m_currentBuildStep \in Steps
  BY <1>2, <1>4 DEF IsDone, Keeps
<1>6. CASE h.m_canceling
  <2>1. r = StopAtCancel(h)
    BY <1>3, <1>6, Ends, Zenon
  <2>2. IsStopped(h, StopAtCancel(h))
    BY <1>2, StopTypes DEF Typed
  <2> QED
    BY <1>2, <2>1, <2>2 DEF IsStopped, r
<1> HIDE DEF k
<1>7. CASE ~h.m_canceling /\ success
  <2>1. r = nextStep(k)
    BY <1>3, <1>7, Ends, Zenon DEF k
  <2>2. Typed(nextStep(k)) /\ nextStep(k).m_scheduledBuild = k.m_scheduledBuild
    BY <1>5, NextKeepsTypes, Zenon
  <2> QED
    BY <1>5, <2>1, <2>2 DEF r
<1>8. CASE ~h.m_canceling /\ ~success
  <2>1. r = BuildFailure(k)
    BY <1>3, <1>8, Ends, Zenon DEF k
  <2>2. IsFailed(k, g) /\ IsDropped(k, x)
    BY <1>5, Fails, Drops
  <2>3. /\ Typed(g) /\ g.m_scheduledBuild = m.m_scheduledBuild
        /\ Typed(x) /\ x.m_scheduledBuild = m.m_scheduledBuild
    BY <1>5, <2>2 DEF IsFailed, IsDropped, Keeps
  <2>4. r \in {clearBuildQueue(g), clearBuildQueue(x), nextStep(x)}
    BY <2>1, Ends
  <2> HIDE DEF g, x
  <2>5. IsCleared(g, clearBuildQueue(g)) /\ IsCleared(x, clearBuildQueue(x))
    BY <2>3, ClearTypes DEF Typed
  <2>6. Typed(nextStep(x)) /\ nextStep(x).m_scheduledBuild = x.m_scheduledBuild
    BY <2>3, NextKeepsTypes, Zenon
  <2> QED
    BY <2>3, <2>4, <2>5, <2>6 DEF IsCleared, r
<1> QED
  BY <1>6, <1>7, <1>8

------------------------------------------------------------------------------
(* What the functions do to a queue that agrees with its counters.          *)

(* From m the queue has gone on, or has come to its end.                    *)
Settled(m, r, known) ==
    /\ Typed(r) /\ Sound(r, known)
    /\ r.m_running \/ Idle(r)
    /\ r.m_scheduledBuild = m.m_scheduledBuild
    /\ r.announced = m.announced + (IF r.m_running THEN 0 ELSE 1)
    /\ \A p \in Projects : m.m_activeBuildSteps[p] = 0 => r.m_activeBuildSteps[p] = 0

(* Nothing to do is a state like any other.                                 *)
LEMMA IdleIsSound ==
    ASSUME NEW m, NEW known, Typed(m), Idle(m)
    PROVE  Sound(m, known)
<1>1. << >> \in Seq(Steps) /\ Len(<< >>) = 0 /\ DOMAIN << >> = {}
  OBVIOUS
<1>2. Enabled(<< >>) = << >>
  <2>1. Enabled(<< >>) \in Seq(BOOLEAN) /\ Len(Enabled(<< >>)) = Len(<< >>)
    BY <1>1, Flags, Zenon
  <2> QED
    BY <1>1, <2>1
<1>3. CountersAgree(m)
  <2>1. \A p \in Projects : Amount(<< >>, p) = 0
    BY <1>1, Amounts
  <2> QED
    BY <2>1 DEF CountersAgree, Idle
<1>4. OneStepAtATime(m)
  BY DEF OneStepAtATime, Idle
<1>5. abortBuildAllOnError => FlagsBelongToSteps(m) /\ ProgressIsTrue(m)
  BY <1>2, CountEmpty DEF FlagsBelongToSteps, ProgressIsTrue, Idle
<1>6. /\ FailedTargetIsLeftOut(m) /\ NoneFailed(m) /\ Together(m.m_buildQueue)
      /\ m.m_currentBuildStep = None
  BY <1>1 DEF FailedTargetIsLeftOut, NoneFailed, Together, Idle
<1> QED
  BY <1>3, <1>4, <1>5, <1>6 DEF Sound, Agrees, Idle

(* nextStep() leads there from a queue of which no step works.              *)
LEMMA NextSettles ==
    ASSUME NEW m, NEW known, Between(m, known)
    PROVE  Settled(m, nextStep(m), known)
<1> DEFINE q == m.m_buildQueue
           f == m.m_enabledState
           n == ToSkip(m)
           r == nextStep(m)
<1>1. /\ Typed(m) /\ q \in Seq(Steps) /\ f \in Seq(BOOLEAN)
      /\ m.announced \in Nat /\ m.m_progress \in Nat
  BY DEF Between, Typed, BuildManagerPrivate
<1>2. IsAdvanced(m, r)
  BY <1>1, NextTypes DEF Between
<1>3. /\ \A i \in 1 .. n : f[i] = FALSE
      /\ n < Len(q) => f[n + 1] = TRUE
  BY <1>1, Skipping, Zenon
<1> HIDE DEF n, r
<1>4. n \in 0 .. Len(q) /\ n \in 0 .. Len(f) /\ Len(q) \in Nat /\ Len(f) \in Nat /\ n \in Nat
  <2>1. n \in 0 .. Len(q) /\ n \in 0 .. Len(f)
    BY <1>2 DEF IsAdvanced, n
  <2>2. Len(q) \in Nat /\ Len(f) \in Nat
    BY <1>1
  <2> HIDE DEF q, f
  <2> QED
    BY <2>1, <2>2
<1>5. RestIs(q, n, Steps) /\ RestIs(f, n, BOOLEAN)
  <2> HIDE DEF q, f
  <2> QED
    BY <1>1, <1>4, Rests
<1>6. \A p \in Projects : /\ r.m_activeBuildSteps[p] = Amount(Rest(q, n), p)
                          /\ m.m_activeBuildSteps[p] = 0 => r.m_activeBuildSteps[p] = 0
  <2> SUFFICES ASSUME NEW p \in Projects
               PROVE  /\ r.m_activeBuildSteps[p] = Amount(Rest(q, n), p)
                      /\ m.m_activeBuildSteps[p] = 0 => r.m_activeBuildSteps[p] = 0
    OBVIOUS
  <2>1. r.m_activeBuildSteps[p] = m.m_activeBuildSteps[p] - Amount(First(q, n), p)
    BY <1>2 DEF IsAdvanced, n
  <2>2. m.m_activeBuildSteps[p] = Amount(q, p)
    BY DEF Between
  <2> HIDE DEF q
  <2>3. First(q, n) \in Seq(Steps) /\ Rest(q, n) \in Seq(Steps)
    BY <1>5 DEF RestIs
  <2>4. Amount(q, p) = Amount(First(q, n), p) + Amount(Rest(q, n), p)
    BY <1>1, <1>4, Amounts
  <2>5. Amount(First(q, n), p) \in Nat /\ Amount(Rest(q, n), p) \in Nat
    BY <2>3, Amounts
  <2> QED
    BY <2>1, <2>2, <2>4, <2>5
<1>7. /\ Typed(r) /\ r.m_scheduledBuild = m.m_scheduledBuild /\ r.failed = m.failed
      /\ r.m_canceling = FALSE /\ r.m_progress = m.m_progress
  BY <1>2 DEF IsAdvanced, Between, Typed, BuildManagerPrivate
<1>8. CASE n = Len(q)
  <2>1. /\ r.m_buildQueue = << >> /\ r.m_enabledState = Rest(f, n)
        /\ r.m_running = FALSE /\ r.m_currentBuildStep = None
        /\ r.m_maxProgress = 0 /\ r.announced = m.announced + 1
        /\ r.working = m.working /\ r.connected = m.connected
    BY <1>2, <1>8 DEF IsAdvanced, n
  <2>2. abortBuildAllOnError => Rest(f, n) = << >>
    <3>1. abortBuildAllOnError => Len(f) = Len(q)
      BY <1>1, Flags DEF Between, FlagsBelongToSteps
    <3> HIDE DEF q, f
    <3> QED
      BY <1>5, <1>8, <3>1 DEF RestIs
  <2>3. \A p \in Projects : r.m_activeBuildSteps[p] = 0
    <3>1. Rest(q, n) = << >> /\ << >> \in Seq(Steps)
      BY <1>5, <1>8 DEF RestIs
    <3> QED
      BY <1>6, <3>1, Amounts
  <2>4. Idle(r)
    BY <1>7, <2>1, <2>2, <2>3 DEF Idle, Between
  <2>5. Sound(r, known)
    BY <1>7, <2>4, IdleIsSound
  <2> QED
    BY <1>6, <1>7, <2>1, <2>4, <2>5 DEF Settled, r
<1>9. CASE n # Len(q)
  <2> DEFINE s == q[n + 1]
             tq == Tail(Rest(q, n))
             tf == Tail(Rest(f, n))
  <2>1. /\ n < Len(q) /\ s \in Steps
        /\ r.m_buildQueue = tq /\ r.m_enabledState = tf
        /\ r.m_running = m.m_running /\ r.m_currentBuildStep = s
        /\ r.m_maxProgress = m.m_maxProgress /\ r.announced = m.announced
        /\ r.working = m.working \cup {s} /\ r.connected = m.connected \cup {s}
    BY <1>2, <1>9 DEF IsAdvanced, n
  <2>2. s # None
    BY <2>1, ConstantsAssumption
  <2>3. OneStepAtATime(r)
    BY <2>1, <2>2 DEF OneStepAtATime, Between
  <2>4. /\ tq \in Seq(Steps) /\ Rest(q, n) \in Seq(Steps) /\ Rest(q, n) # << >>
        /\ Head(Rest(q, n)) = s /\ Rest(q, n) = <<s>> \o tq
        /\ Len(tq) = Len(q) - n - 1
        /\ \A i \in 1 .. Len(q) - n - 1 : tq[i] = q[i + n + 1]
    BY <1>5, <1>9, <2>1, Zenon DEF RestIs
  <2>5. CountersAgree(r)
    <3> SUFFICES ASSUME NEW p \in Projects
                 PROVE  r.m_activeBuildSteps[p] = Amount(tq, p) + (IF ProjectOf(s) = p THEN 1 ELSE 0)
      BY <2>1, <2>2 DEF CountersAgree
    <3> HIDE DEF tq, s, q
    <3>1. Amount(Rest(q, n), p) = Amount(Tail(Rest(q, n)), p)
                                  + (IF ProjectOf(Head(Rest(q, n))) = p THEN 1 ELSE 0)
      BY <2>4, Amounts
    <3> QED
      BY <1>6, <2>4, <3>1 DEF tq
  <2>6. ASSUME abortBuildAllOnError PROVE FlagsBelongToSteps(r)
    <3>1. f = Enabled(q)
      BY <2>6 DEF Between, FlagsBelongToSteps
    <3> HIDE DEF f, q
    <3>2. Enabled(Tail(Rest(q, n))) = Tail(Rest(Enabled(q), n))
      BY <1>1, <1>4, <2>1, Flags
    <3> QED
      BY <2>1, <3>1, <3>2 DEF FlagsBelongToSteps
  <2>7. ASSUME abortBuildAllOnError PROVE ProgressIsTrue(r)
    <3>1. m.m_maxProgress = Count(f, {TRUE}) + m.m_progress
      BY <2>7 DEF Between
    <3>2. n < Len(f)
      <4> HIDE DEF f, q
      <4>1. Len(q) <= Len(f)
        BY <1>1 DEF Typed, q, f
      <4> QED
        BY <1>4, <2>1, <4>1
    <3> HIDE DEF f
    <3>3. /\ First(f, n) \in Seq(BOOLEAN) /\ Rest(f, n) \in Seq(BOOLEAN) /\ tf \in Seq(BOOLEAN)
          /\ Rest(f, n) # << >> /\ Head(Rest(f, n)) = f[n + 1]
          /\ DOMAIN First(f, n) = 1 .. n /\ \A i \in 1 .. n : First(f, n)[i] = f[i]
      BY <1>5, <3>2 DEF RestIs
    <3> DEFINE B == BOOLEAN
    <3>4. f \in Seq(B) /\ First(f, n) \in Seq(B) /\ Rest(f, n) \in Seq(B) /\ tf \in Seq(B)
      BY <1>1, <3>3
    <3> HIDE DEF B
    <3>5. Count(f, {TRUE}) = Count(First(f, n), {TRUE}) + Count(Rest(f, n), {TRUE})
      BY <1>4, <3>4, CountSplit DEF First, Rest
    <3>6. Count(First(f, n), {TRUE}) = 0
      <4>1. \A i \in DOMAIN First(f, n) : First(f, n)[i] \notin {TRUE}
        BY <1>3, <3>3 DEF f
      <4> QED
        BY <3>4, <4>1, Counted
    <3>7. Count(Rest(f, n), {TRUE}) = Count(tf, {TRUE})
                                       + (IF Head(Rest(f, n)) \in {TRUE} THEN 1 ELSE 0)
      BY <3>3, <3>4, CountTail
    <3>8. Head(Rest(f, n)) \in {TRUE}
      BY <1>3, <2>1, <3>3 DEF f
    <3>9. Count(tf, {TRUE}) \in Nat
      BY <3>4, Counted
    <3> HIDE DEF tf
    <3>a. m.m_progress \in Nat
      BY <1>1
    <3>b. Count(Rest(f, n), {TRUE}) = Count(tf, {TRUE}) + 1
      BY <3>7, <3>8
    <3>10. m.m_maxProgress = Count(tf, {TRUE}) + m.m_progress + 1
      BY <3>1, <3>5, <3>6, <3>9, <3>a, <3>b
    <3>11. /\ r.m_maxProgress = m.m_maxProgress /\ r.m_enabledState = tf /\ r.m_running
           /\ r.m_progress = m.m_progress
      BY <1>7, <2>1 DEF Between
    <3> QED
      BY <1>1, <3>9, <3>10, <3>11 DEF ProgressIsTrue
  <2>8. ASSUME "scattered" \notin known
        PROVE  /\ FailedTargetIsLeftOut(r) /\ NoneFailed(r) /\ Together(tq)
               /\ Together(<<s>> \o tq)
    <3>1. NoneFailed(m) /\ Together(q)
      BY <2>8 DEF Between
    <3> HIDE DEF q, s, tq
    <3>2. Together(Rest(q, n)) /\ Together(Tail(Rest(q, n)))
      BY <1>1, <1>4, <2>1, <3>1, TogetherRest
    <3>3. \A i \in DOMAIN q : target[q[i]] \notin m.failed
      BY <3>1 DEF NoneFailed, q
    <3>4. n + 1 \in DOMAIN q /\ DOMAIN tq = 1 .. Len(q) - n - 1
          /\ \A i \in 1 .. Len(q) - n - 1 : i + n + 1 \in DOMAIN q
      BY <1>1, <1>4, <2>1, <2>4
    <3>5. target[s] \notin m.failed
      BY <3>3, <3>4 DEF s
    <3>6. \A i \in DOMAIN tq : target[tq[i]] \notin m.failed
      BY <2>4, <3>3, <3>4
    <3> QED
      BY <1>7, <2>1, <2>4, <3>2, <3>5, <3>6 DEF FailedTargetIsLeftOut, NoneFailed, tq
  <2>9. Agrees(r, known)
    BY <2>1, <2>5, <2>6, <2>7, <2>8 DEF Agrees
  <2>10. r.m_running = TRUE
    BY <2>1, <1>1 DEF Between, Typed, BuildManagerPrivate
  <2>11. Sound(r, known)
    BY <1>7, <2>3, <2>9, <2>10 DEF Sound
  <2>12. r.announced = m.announced + 0
    BY <1>1, <2>1
  <2> HIDE DEF s, tq, tf
  <2> QED
    BY <1>6, <1>7, <2>10, <2>11, <2>12 DEF Settled, r
<1> QED
  BY <1>8, <1>9

(* The current step is no longer at work, and its end is about to be told.  *)
Ending(m, known) ==
    /\ Typed(m) /\ m.m_running /\ m.m_currentBuildStep # None
    /\ m.working = {} /\ m.connected \subseteq {m.m_currentBuildStep}
    /\ Agrees(m, known)

(* clearBuildQueue() leaves nothing to do.                                  *)
LEMMA ClearIsIdle ==
    ASSUME NEW m, NEW r, Typed(m), IsCleared(m, r),
           m.working = {}, m.connected = {}, ~m.m_canceling,
           \A p \in Projects : m.m_activeBuildSteps[p] = Amount(m.m_buildQueue, p)
    PROVE  Idle(r) /\ Typed(r) /\ r.announced = m.announced + 1
<1>1. \A p \in Projects : Amount(m.m_buildQueue, p) \in Nat
  BY Amounts DEF Typed, BuildManagerPrivate
<1> QED
  BY <1>1 DEF IsCleared, Idle

(* A step is done: what it has counted for is gone from the counters.       *)
LEMMA DoneIsBetween ==
    ASSUME NEW m, NEW known, Ending(m, known), ~m.m_canceling
    PROVE  LET k == Done(Handled(m)) IN
           /\ Between(k, known)
           /\ k.m_currentBuildStep = m.m_currentBuildStep /\ k.m_buildQueue = m.m_buildQueue
           /\ k.m_scheduledBuild = m.m_scheduledBuild /\ k.announced = m.announced
           /\ \A p \in Projects : m.m_activeBuildSteps[p] = 0 => k.m_activeBuildSteps[p] = 0
<1> DEFINE h == Handled(m)
           k == Done(h)
           q == m.m_buildQueue
           s == m.m_currentBuildStep
<1>1. IsHandled(m, h)
  BY Handles DEF Ending
<1> HIDE DEF h
<1>2. IsDone(h, k)
  BY <1>1, Does DEF IsHandled, Keeps
<1> HIDE DEF k
<1>3. /\ Typed(k) /\ k.m_running /\ ~k.m_canceling /\ k.working = {} /\ k.connected = {}
      /\ k.m_currentBuildStep = s /\ k.m_buildQueue = q /\ k.m_enabledState = m.m_enabledState
      /\ k.m_scheduledBuild = m.m_scheduledBuild /\ k.announced = m.announced
      /\ k.failed = m.failed /\ k.m_progress = m.m_progress + 1
      /\ k.m_maxProgress = m.m_maxProgress
      /\ \A p \in Projects : k.m_activeBuildSteps[p] = m.m_activeBuildSteps[p] - Amount(<<s>>, p)
  BY <1>1, <1>2 DEF IsHandled, IsDone, Keeps, Ending
<1>4. q \in Seq(Steps) /\ s \in Steps /\ m.m_progress \in Nat
  BY DEF Ending, Typed, BuildManagerPrivate
<1>5. \A p \in Projects : /\ k.m_activeBuildSteps[p] = Amount(q, p)
                          /\ m.m_activeBuildSteps[p] = 0 => k.m_activeBuildSteps[p] = 0
  <2> SUFFICES ASSUME NEW p \in Projects
               PROVE  /\ k.m_activeBuildSteps[p] = Amount(q, p)
                      /\ m.m_activeBuildSteps[p] = 0 => k.m_activeBuildSteps[p] = 0
    OBVIOUS
  <2>1. m.m_activeBuildSteps[p] = Amount(q, p) + (IF ProjectOf(s) = p THEN 1 ELSE 0)
    BY DEF Ending, Agrees, CountersAgree
  <2>2. Amount(q, p) \in Nat /\ Amount(<<s>>, p) = IF ProjectOf(s) = p THEN 1 ELSE 0
    <3> HIDE DEF q, s
    <3> QED
      BY <1>4, Amounts
  <2>3. k.m_activeBuildSteps[p] = m.m_activeBuildSteps[p] - Amount(<<s>>, p)
    BY <1>3
  <2> HIDE DEF q, s
  <2> QED
    BY <2>1, <2>2, <2>3
<1>6. ASSUME abortBuildAllOnError
      PROVE  /\ FlagsBelongToSteps(k)
             /\ k.m_maxProgress = Count(k.m_enabledState, {TRUE}) + k.m_progress
  BY <1>3, <1>6 DEF Ending, Agrees, FlagsBelongToSteps, ProgressIsTrue
<1>7. "scattered" \notin known => NoneFailed(k) /\ Together(k.m_buildQueue)
  BY <1>3 DEF Ending, Agrees, NoneFailed
<1>8. Between(k, known)
  BY <1>3, <1>5, <1>6, <1>7 DEF Between
<1> QED
  BY <1>3, <1>5, <1>8 DEF k, h

(* The rest of the queue, without the target of the step that failed.       *)
LEMMA DropIsBetween ==
    ASSUME NEW m, NEW known, Between(m, known), ~abortBuildAllOnError,
           m.m_currentBuildStep \in Steps,
           "scattered" \notin known => Together(<<m.m_currentBuildStep>> \o m.m_buildQueue)
    PROVE  LET x == Dropped(m) IN
           /\ Between(x, known)
           /\ x.m_scheduledBuild = m.m_scheduledBuild /\ x.announced = m.announced
           /\ \A p \in Projects : m.m_activeBuildSteps[p] = 0 => x.m_activeBuildSteps[p] = 0
<1> DEFINE q == m.m_buildQueue
           s == m.m_currentBuildStep
           t == target[s]
           n == SameTarget(q, t)
           x == Dropped(m)
<1>1. Typed(m) /\ q \in Seq(Steps) /\ s \in Steps
  BY DEF Between, Typed, BuildManagerPrivate
<1>2. IsDropped(m, x)
  BY <1>1, Drops
<1> HIDE DEF x
<1>3. /\ Typed(x) /\ x.m_running /\ ~x.m_canceling /\ x.working = {} /\ x.connected = {}
      /\ x.m_scheduledBuild = m.m_scheduledBuild /\ x.announced = m.announced
      /\ x.m_buildQueue = Rest(q, n) /\ x.failed = m.failed \cup {t}
      /\ n \in 0 .. Len(q)
      /\ \A p \in Projects : x.m_activeBuildSteps[p] =
            m.m_activeBuildSteps[p] - Amount(First(q, n), p)
  BY <1>2 DEF IsDropped, Keeps, Between
<1>4. (\A i \in DOMAIN q : target[q[i]] = t => \A j \in DOMAIN q : j < i => target[q[j]] = t)
         => \A i \in DOMAIN q : target[q[i]] = t => i <= n
  <2> HIDE DEF q, t
  <2> QED
    BY <1>1, Dropping
<1> HIDE DEF n
<1>5. RestIs(q, n, Steps)
  <2> HIDE DEF q
  <2> QED
    BY <1>1, <1>3, Rests
<1>6. \A p \in Projects : /\ x.m_activeBuildSteps[p] = Amount(Rest(q, n), p)
                          /\ m.m_activeBuildSteps[p] = 0 => x.m_activeBuildSteps[p] = 0
  <2> SUFFICES ASSUME NEW p \in Projects
               PROVE  /\ x.m_activeBuildSteps[p] = Amount(Rest(q, n), p)
                      /\ m.m_activeBuildSteps[p] = 0 => x.m_activeBuildSteps[p] = 0
    OBVIOUS
  <2>1. x.m_activeBuildSteps[p] = m.m_activeBuildSteps[p] - Amount(First(q, n), p)
    BY <1>3
  <2>2. m.m_activeBuildSteps[p] = Amount(q, p)
    BY DEF Between
  <2> HIDE DEF q
  <2>3. First(q, n) \in Seq(Steps) /\ Rest(q, n) \in Seq(Steps)
    BY <1>5 DEF RestIs
  <2>4. Amount(q, p) = Amount(First(q, n), p) + Amount(Rest(q, n), p)
    BY <1>1, <1>3, Amounts
  <2>5. Amount(First(q, n), p) \in Nat /\ Amount(Rest(q, n), p) \in Nat
    BY <2>3, Amounts
  <2> QED
    BY <2>1, <2>2, <2>4, <2>5
<1>7. ASSUME "scattered" \notin known PROVE NoneFailed(x) /\ Together(Rest(q, n))
  <2>1. NoneFailed(m) /\ Together(q) /\ Together(<<s>> \o q)
    BY <1>7 DEF Between
  <2>2. \A i \in DOMAIN q : target[q[i]] \notin m.failed
    BY <2>1 DEF NoneFailed
  <2> HIDE DEF q
  <2>3. Together(Rest(q, n))
    BY <1>1, <1>3, <2>1, TogetherRest
  <2>4. DOMAIN q = 1 .. Len(q) /\ Len(q) \in Nat /\ n \in Nat /\ n <= Len(q)
    BY <1>1, <1>3
  <2>5. /\ DOMAIN (<<s>> \o q) = 1 .. Len(q) + 1 /\ (<<s>> \o q)[1] = s
        /\ \A i \in 1 .. Len(q) : (<<s>> \o q)[i + 1] = q[i]
    BY <1>1
  <2>6. ASSUME NEW i \in DOMAIN q, target[q[i]] = t, NEW j \in DOMAIN q, j < i
        PROVE  target[q[j]] = t
    <3> DEFINE z == <<s>> \o q
    <3>1. /\ 1 \in DOMAIN z /\ i + 1 \in DOMAIN z /\ j + 1 \in DOMAIN z
          /\ 1 < j + 1 /\ j + 1 < i + 1
          /\ z[1] = s /\ z[i + 1] = q[i] /\ z[j + 1] = q[j]
      BY <2>4, <2>5, <2>6
    <3>2. Together(z)
      BY <2>1
    <3> HIDE DEF z, s
    <3>3. \A a, b, c \in DOMAIN z :
             a < b /\ b < c /\ target[z[a]] = target[z[c]] => target[z[b]] = target[z[a]]
      BY <3>2 DEF Together
    <3> QED
      BY <2>6, <3>1, <3>3
  <2>7. \A i \in DOMAIN q : target[q[i]] = t => i <= n
    BY <1>4, <2>6
  <2>8. /\ DOMAIN Rest(q, n) = 1 .. Len(q) - n
        /\ \A i \in 1 .. Len(q) - n : Rest(q, n)[i] = q[i + n]
    <3>1. Rest(q, n) \in Seq(Steps) /\ Len(Rest(q, n)) = Len(q) - n
          /\ \A i \in 1 .. Len(q) - n : Rest(q, n)[i] = q[i + n]
      BY <1>5 DEF RestIs
    <3> QED
      BY <3>1
  <2>9. \A i \in 1 .. Len(q) - n : target[q[i + n]] \notin m.failed \cup {t}
    <3> SUFFICES ASSUME NEW i \in 1 .. Len(q) - n
                 PROVE  target[q[i + n]] \notin m.failed /\ target[q[i + n]] # t
      OBVIOUS
    <3>1. i + n \in DOMAIN q /\ ~(i + n <= n)
      BY <2>4
    <3> QED
      BY <2>2, <2>7, <3>1
  <2> DEFINE z == Rest(q, n)
             g == m.failed \cup {t}
  <2>10. x.m_buildQueue = z /\ x.failed = g
    BY <1>3
  <2>11. \A i \in DOMAIN z : target[z[i]] \notin g
    BY <2>8, <2>9
  <2> HIDE DEF z, g
  <2>12. NoneFailed(x)
    BY <2>10, <2>11 DEF NoneFailed
  <2> QED
    BY <2>3, <2>12
<1>8. Between(x, known)
  BY <1>3, <1>6, <1>7 DEF Between
<1> QED
  BY <1>3, <1>6, <1>8 DEF x

(* The finishedHandler leads from the end of the current step to the next.  *)
LEMMA FinishSettles ==
    ASSUME NEW m, NEW known, Ending(m, known), NEW success
    PROVE  /\ Settled(m, finishedHandler(m, success), known)
           /\ m.m_canceling => Idle(finishedHandler(m, success))
<1> DEFINE h == Handled(m)
           k == Done(h)
           r == finishedHandler(m, success)
<1>1. IsHandled(m, h)
  BY Handles DEF Ending
<1>2. r = nextBuildQueue(h, success)
  BY Ends, Zenon
<1> HIDE DEF r
<1>3. h.m_canceling = m.m_canceling /\ Typed(h)
  BY <1>1 DEF IsHandled, Keeps
<1>4. m.m_currentBuildStep \in Steps /\ m.m_buildQueue \in Seq(Steps)
  BY DEF Ending, Typed, BuildManagerPrivate
<1>5. ASSUME m.m_canceling PROVE Settled(m, r, known) /\ Idle(r)
  <2> HIDE DEF h
  <2>1. r = StopAtCancel(h)
    BY <1>2, <1>3, <1>5, Ends, Zenon
  <2>2. IsStopped(h, r)
    BY <1>3, <2>1, StopTypes DEF Typed
  <2>3. /\ Typed(r) /\ r.m_buildQueue = << >> /\ r.m_enabledState = << >>
        /\ r.m_running = FALSE /\ r.m_canceling = FALSE
        /\ r.m_currentBuildStep = None /\ r.m_maxProgress = 0
        /\ r.working = {} /\ r.connected = {}
        /\ r.announced = m.announced + 1 /\ r.m_scheduledBuild = m.m_scheduledBuild
        /\ \A p \in Projects : r.m_activeBuildSteps[p] =
              m.m_activeBuildSteps[p] - Amount(<<m.m_currentBuildStep>>, p)
                 - Amount(m.m_buildQueue, p)
    BY <1>1, <2>2 DEF IsStopped, IsHandled, Keeps, Ending
  <2>4. ASSUME NEW p \in Projects PROVE r.m_activeBuildSteps[p] = 0
    <3> DEFINE q == m.m_buildQueue
               s == m.m_currentBuildStep
    <3>1. m.m_activeBuildSteps[p] = Amount(q, p) + (IF ProjectOf(s) = p THEN 1 ELSE 0)
      BY DEF Ending, Agrees, CountersAgree
    <3> HIDE DEF q, s
    <3>2. Amount(q, p) \in Nat /\ Amount(<<s>>, p) = IF ProjectOf(s) = p THEN 1 ELSE 0
      BY <1>4, Amounts DEF q, s
    <3>3. r.m_activeBuildSteps[p] = m.m_activeBuildSteps[p] - Amount(<<s>>, p) - Amount(q, p)
      BY <2>3 DEF q, s
    <3> QED
      BY <3>1, <3>2, <3>3
  <2>5. Idle(r)
    BY <2>3, <2>4 DEF Idle
  <2>6. Sound(r, known)
    BY <2>3, <2>5, IdleIsSound
  <2> QED
    BY <2>3, <2>4, <2>5, <2>6 DEF Settled
<1>6. ASSUME ~m.m_canceling PROVE Settled(m, r, known)
  <2>1. /\ Between(k, known)
        /\ k.m_currentBuildStep = m.m_currentBuildStep /\ k.m_buildQueue = m.m_buildQueue
        /\ k.m_scheduledBuild = m.m_scheduledBuild /\ k.announced = m.announced
        /\ \A p \in Projects : m.m_activeBuildSteps[p] = 0 => k.m_activeBuildSteps[p] = 0
    BY <1>6, DoneIsBetween
  <2>2. r = IF success THEN nextStep(k) ELSE BuildFailure(k)
    BY <1>2, <1>3, <1>6, Ends, Zenon
  <2> HIDE DEF h, k
  <2>3. CASE success
    <3>1. Settled(k, nextStep(k), known)
      BY <2>1, NextSettles
    <3> QED
      BY <2>1, <2>2, <2>3, <3>1 DEF Settled
  <2>4. ASSUME NEW x, NEW c, Between(x, known), IsCleared(x, c),
               x.m_scheduledBuild = k.m_scheduledBuild, x.announced = k.announced
        PROVE  Settled(m, c, known)
    <3>1. /\ Typed(x) /\ x.working = {} /\ x.connected = {} /\ ~x.m_canceling
          /\ \A p \in Projects : x.m_activeBuildSteps[p] = Amount(x.m_buildQueue, p)
      BY <2>4 DEF Between
    <3>2. Idle(c) /\ Typed(c) /\ c.announced = x.announced + 1
      BY <2>4, <3>1, ClearIsIdle, Zenon
    <3>3. Sound(c, known)
      BY <3>2, IdleIsSound
    <3>4. c.m_running = FALSE /\ c.m_scheduledBuild = x.m_scheduledBuild
      BY <2>4 DEF IsCleared
    <3> QED
      BY <2>1, <2>4, <3>2, <3>3, <3>4 DEF Settled, Idle
  <2>5. CASE ~success /\ abortBuildAllOnError
    <3> DEFINE g == Failed(k)
    <3>1. r = clearBuildQueue(g)
      BY <2>2, <2>5, Ends
    <3>2. IsFailed(k, g)
      BY <1>4, <2>1, Fails DEF Between
    <3> HIDE DEF g
    <3>3. IsCleared(g, r)
      BY <3>1, <3>2, ClearTypes DEF IsFailed, Keeps, Typed
    <3>4. /\ Typed(g) /\ g.working = {} /\ g.connected = {} /\ ~g.m_canceling
          /\ \A p \in Projects : g.m_activeBuildSteps[p] = Amount(g.m_buildQueue, p)
          /\ g.m_scheduledBuild = k.m_scheduledBuild /\ g.announced = k.announced
      BY <2>1, <3>2 DEF IsFailed, Keeps, Between
    <3>5. Idle(r) /\ Typed(r) /\ r.announced = g.announced + 1
      BY <3>3, <3>4, ClearIsIdle, Zenon
    <3>6. Sound(r, known)
      BY <3>5, IdleIsSound
    <3>7. r.m_running = FALSE /\ r.m_scheduledBuild = g.m_scheduledBuild
      BY <3>3 DEF IsCleared
    <3> QED
      BY <2>1, <3>4, <3>5, <3>6, <3>7 DEF Settled, Idle
  <2>6. CASE ~success /\ ~abortBuildAllOnError
    <3> DEFINE x == Dropped(k)
    <3>1. r = IF x.m_buildQueue = << >> THEN clearBuildQueue(x) ELSE nextStep(x)
      BY <2>2, <2>6, Ends
    <3>2. "scattered" \notin known => Together(<<k.m_currentBuildStep>> \o k.m_buildQueue)
      BY <2>1 DEF Ending, Agrees
    <3>3. /\ Between(x, known)
          /\ x.m_scheduledBuild = k.m_scheduledBuild /\ x.announced = k.announced
          /\ \A p \in Projects : k.m_activeBuildSteps[p] = 0 => x.m_activeBuildSteps[p] = 0
      BY <1>4, <2>1, <2>6, <3>2, DropIsBetween
    <3> HIDE DEF x
    <3>4. CASE x.m_buildQueue = << >>
      <4>1. IsCleared(x, r)
        BY <3>1, <3>3, <3>4, ClearTypes DEF Between, Typed
      <4> QED
        BY <2>4, <3>3, <4>1, Zenon
    <3>5. CASE x.m_buildQueue # << >>
      <4>1. Settled(x, nextStep(x), known)
        BY <3>3, NextSettles
      <4> QED
        BY <2>1, <3>1, <3>3, <3>5, <4>1 DEF Settled
    <3> QED
      BY <3>4, <3>5
  <2> QED
    BY <2>3, <2>5, <2>6
<1> QED
  BY <1>5, <1>6 DEF r

------------------------------------------------------------------------------
(* Nothing that the queue and its counters say has changed.                 *)
SameQueue(m, n) ==
    /\ n.m_buildQueue = m.m_buildQueue /\ n.m_enabledState = m.m_enabledState
    /\ n.m_running = m.m_running /\ n.m_currentBuildStep = m.m_currentBuildStep
    /\ n.m_activeBuildSteps = m.m_activeBuildSteps
    /\ n.m_progress = m.m_progress /\ n.m_maxProgress = m.m_maxProgress
    /\ n.failed = m.failed

Alike(m, n) ==
    /\ SameQueue(m, n)
    /\ n.m_canceling = m.m_canceling /\ n.working = m.working /\ n.connected = m.connected

(* The queue then agrees with its counters as before.                       *)
LEMMA SameAgrees ==
    ASSUME NEW m, NEW n, NEW known, NEW more, Agrees(m, known), SameQueue(m, n),
           known \subseteq more
    PROVE  Agrees(n, more)
<1>1. CountersAgree(n)
  BY DEF Agrees, SameQueue, CountersAgree
<1>2. abortBuildAllOnError => FlagsBelongToSteps(n) /\ ProgressIsTrue(n)
  BY DEF Agrees, SameQueue, FlagsBelongToSteps, ProgressIsTrue
<1>3. "scattered" \notin more =>
         /\ FailedTargetIsLeftOut(n) /\ NoneFailed(n) /\ Together(n.m_buildQueue)
         /\ n.m_currentBuildStep # None => Together(<<n.m_currentBuildStep>> \o n.m_buildQueue)
  <2> SUFFICES ASSUME "scattered" \notin more
               PROVE  /\ FailedTargetIsLeftOut(n) /\ NoneFailed(n) /\ Together(n.m_buildQueue)
                      /\ n.m_currentBuildStep # None =>
                            Together(<<n.m_currentBuildStep>> \o n.m_buildQueue)
    OBVIOUS
  <2>1. /\ FailedTargetIsLeftOut(m) /\ NoneFailed(m) /\ Together(m.m_buildQueue)
        /\ m.m_currentBuildStep # None => Together(<<m.m_currentBuildStep>> \o m.m_buildQueue)
    BY DEF Agrees
  <2> QED
    BY <2>1 DEF SameQueue, FailedTargetIsLeftOut, NoneFailed
<1> QED
  BY <1>1, <1>2, <1>3 DEF Agrees

(* What is alike is sound.                                                  *)
LEMMA AlikeIsSound ==
    ASSUME NEW m, NEW n, NEW known, NEW more, Sound(m, known), Typed(n), Alike(m, n),
           known \subseteq more
    PROVE  Sound(n, more)
<1>1. Agrees(n, more)
  BY SameAgrees DEF Sound, Alike
<1>2. OneStepAtATime(n) /\ (n.m_canceling => n.m_running)
  BY DEF Sound, Alike, SameQueue, OneStepAtATime
<1> QED
  BY <1>1, <1>2 DEF Sound

(* To put a build off changes nothing else.                                 *)
LEMMA Scheduling ==
    ASSUME NEW m, Typed(m), NEW t \in Targets \cup {None}
    PROVE  LET n == [m EXCEPT !.m_scheduledBuild = t] IN
           /\ Typed(n) /\ Alike(m, n) /\ n.m_scheduledBuild = t /\ n.announced = m.announced
<1>1. m \in Private /\ Len(m.m_buildQueue) <= Len(m.m_enabledState)
  BY Privates DEF Typed
<1>2. t \in Schedules
  BY DEF Schedules
<1> DEFINE n == [m EXCEPT !.m_scheduledBuild = t]
<1>3. n \in Private /\ Alike(m, n) /\ n.m_scheduledBuild = t /\ n.announced = m.announced
  BY <1>1, <1>2 DEF Private, Alike, SameQueue
<1> HIDE DEF n
<1>4. Typed(n)
  BY <1>1, <1>3, Privates DEF Typed, Alike, SameQueue
<1> QED
  BY <1>3, <1>4 DEF n

------------------------------------------------------------------------------
(* Cancelling.                                                              *)
Stopped(m) == [m EXCEPT !.m_canceling = TRUE, !.working = @ \ {m.m_currentBuildStep}]

(* cancel(), by what it finds.                                              *)
LEMMA Cancels ==
    ASSUME NEW m, Typed(m)
    PROVE  LET r == Cancelled(m)
               n == [m EXCEPT !.m_scheduledBuild = None]
               c == [m EXCEPT !.m_canceling = TRUE]
               s == Stopped(m)
           IN  /\ m.m_scheduledBuild # None => r = clearBuildQueue(n)
               /\ m.m_scheduledBuild = None =>
                     /\ ~m.m_running \/ m.m_canceling => r = m
                     /\ m.m_running /\ ~m.m_canceling =>
                           /\ m.m_currentBuildStep \in Threads => r = c
                           /\ m.m_currentBuildStep \notin Threads =>
                                 r = IF m.m_currentBuildStep \in m.connected
                                     THEN finishedHandler(s, FALSE) ELSE s
               /\ Typed(c) /\ Typed(s) /\ Typed(n)
               /\ c.m_scheduledBuild = m.m_scheduledBuild
               /\ s.m_scheduledBuild = m.m_scheduledBuild
               /\ s.m_currentBuildStep = m.m_currentBuildStep
<1>1. m \in Private /\ Len(m.m_buildQueue) <= Len(m.m_enabledState)
  BY Privates DEF Typed
<1> DEFINE r == Cancelled(m)
           n == [m EXCEPT !.m_scheduledBuild = None]
           c == [m EXCEPT !.m_canceling = TRUE]
           s == Stopped(m)
<1>2. Typed(n)
  BY Scheduling
<1>3. Typed(c) /\ c.m_scheduledBuild = m.m_scheduledBuild
  <2>1. /\ c \in Private /\ c.m_scheduledBuild = m.m_scheduledBuild
        /\ c.m_buildQueue = m.m_buildQueue /\ c.m_enabledState = m.m_enabledState
    BY <1>1, Members DEF Private
  <2> HIDE DEF c
  <2> QED
    BY <1>1, <2>1, Privates DEF Typed
<1>4. /\ Typed(s) /\ s.m_scheduledBuild = m.m_scheduledBuild
      /\ s.m_currentBuildStep = m.m_currentBuildStep
  <2> DEFINE w == m.working \ {m.m_currentBuildStep}
  <2>1. w \in StepSets
    BY <1>1 DEF Private, StepSets
  <2>2. s = [m EXCEPT !.m_canceling = TRUE, !.working = w]
    BY DEF Stopped
  <2> HIDE DEF w, s
  <2>3. /\ s \in Private /\ s.m_scheduledBuild = m.m_scheduledBuild
        /\ s.m_currentBuildStep = m.m_currentBuildStep
        /\ s.m_buildQueue = m.m_buildQueue /\ s.m_enabledState = m.m_enabledState
    BY <1>1, <2>1, <2>2, Members DEF Private
  <2> QED
    BY <1>1, <2>3, Privates DEF Typed
<1>5. r = IF m.m_scheduledBuild # None THEN clearBuildQueue(n)
          ELSE IF ~m.m_running \/ m.m_canceling THEN m
          ELSE IF m.m_currentBuildStep \in Threads THEN c
          ELSE IF m.m_currentBuildStep \in m.connected
               THEN finishedHandler(s, FALSE) ELSE s
  BY Zenon DEF Cancelled, Stopped
<1> HIDE DEF r, n, c, s
<1>6. /\ m.m_scheduledBuild # None => r = clearBuildQueue(n)
      /\ m.m_scheduledBuild = None =>
            /\ ~m.m_running \/ m.m_canceling => r = m
            /\ m.m_running /\ ~m.m_canceling =>
                  /\ m.m_currentBuildStep \in Threads => r = c
                  /\ m.m_currentBuildStep \notin Threads =>
                        r = IF m.m_currentBuildStep \in m.connected
                            THEN finishedHandler(s, FALSE) ELSE s
  BY <1>5
<1> QED
  BY <1>2, <1>3, <1>4, <1>6 DEF r, n, c, s

(* cancel() keeps the types.                                                *)
LEMMA CancelKeepsTypes ==
    ASSUME NEW m, Typed(m)
    PROVE  Typed(Cancelled(m)) /\ Cancelled(m).m_scheduledBuild = None
<1> DEFINE r == Cancelled(m)
           n == [m EXCEPT !.m_scheduledBuild = None]
           c == [m EXCEPT !.m_canceling = TRUE]
           s == Stopped(m)
<1>1. /\ m.m_scheduledBuild # None => r = clearBuildQueue(n)
      /\ m.m_scheduledBuild = None =>
            /\ ~m.m_running \/ m.m_canceling => r = m
            /\ m.m_running /\ ~m.m_canceling =>
                  /\ m.m_currentBuildStep \in Threads => r = c
                  /\ m.m_currentBuildStep \notin Threads =>
                        r = IF m.m_currentBuildStep \in m.connected
                            THEN finishedHandler(s, FALSE) ELSE s
      /\ Typed(c) /\ Typed(s) /\ Typed(n)
      /\ c.m_scheduledBuild = m.m_scheduledBuild
      /\ s.m_scheduledBuild = m.m_scheduledBuild
      /\ s.m_currentBuildStep = m.m_currentBuildStep
  BY Cancels
<1>2. n.m_scheduledBuild = None
  BY Scheduling
<1> HIDE DEF r, n, c, s
<1>3. IsCleared(n, clearBuildQueue(n))
  BY <1>1, ClearTypes DEF Typed
<1>4. ASSUME m.m_currentBuildStep \in m.connected
      PROVE  /\ Typed(finishedHandler(s, FALSE))
             /\ finishedHandler(s, FALSE).m_scheduledBuild = s.m_scheduledBuild
  <2>1. s.m_currentBuildStep \in Steps
    BY <1>1, <1>4 DEF Typed, BuildManagerPrivate
  <2> QED
    BY <1>1, <2>1, FinishKeepsTypes, Zenon
<1>5. Typed(r) /\ r.m_scheduledBuild = None
  BY <1>1, <1>2, <1>3, <1>4 DEF IsCleared
<1> QED
  BY <1>5 DEF r

(* While nothing is abandoned the queue ends, or waits for the last step.   *)
LEMMA CancelSettles ==
    ASSUME NEW m, NEW known, Sound(m, known), IsPutOff(m), isBuilding(m),
           ~(m.m_scheduledBuild # None /\ m.m_currentBuildStep # None)
    PROVE  LET r == Cancelled(m) IN
           /\ Typed(r) /\ Sound(r, known) /\ r.m_scheduledBuild = None
           /\ \/ Idle(r) /\ r.announced = m.announced + 1
              \/ r.m_running /\ r.m_canceling /\ r.announced = m.announced
           /\ \A p \in Projects : m.m_activeBuildSteps[p] = 0 => r.m_activeBuildSteps[p] = 0
<1> DEFINE r == Cancelled(m)
           n == [m EXCEPT !.m_scheduledBuild = None]
           c == [m EXCEPT !.m_canceling = TRUE]
           s == Stopped(m)
<1>1. Typed(m) /\ m \in Private
  BY Privates DEF Sound, Typed
<1>2. /\ m.m_scheduledBuild # None => r = clearBuildQueue(n)
      /\ m.m_scheduledBuild = None =>
            /\ ~m.m_running \/ m.m_canceling => r = m
            /\ m.m_running /\ ~m.m_canceling =>
                  /\ m.m_currentBuildStep \in Threads => r = c
                  /\ m.m_currentBuildStep \notin Threads =>
                        r = IF m.m_currentBuildStep \in m.connected
                            THEN finishedHandler(s, FALSE) ELSE s
      /\ Typed(c) /\ Typed(s) /\ Typed(n)
  BY <1>1, Cancels
<1>3. Typed(r) /\ r.m_scheduledBuild = None
  BY <1>1, CancelKeepsTypes
<1> HIDE DEF r
<1>4. CASE m.m_scheduledBuild # None
  <2>1. Alike(m, n) /\ n.announced = m.announced
    BY <1>1, Scheduling
  <2> HIDE DEF n
  <2>2. IsCleared(n, r)
    BY <1>2, <1>4, ClearTypes DEF Typed
  <2>3. m.m_currentBuildStep = None /\ ~m.m_running /\ ~m.m_canceling
    BY <1>4 DEF Sound, OneStepAtATime
  <2>4. n.working = {} /\ n.connected = {} /\ ~n.m_canceling
    BY <2>1, <2>3 DEF Sound, OneStepAtATime, Alike, SameQueue
  <2>5. \A p \in Projects : n.m_activeBuildSteps[p] = Amount(n.m_buildQueue, p)
    <3>1. \A p \in Projects : m.m_activeBuildSteps[p] = Amount(m.m_buildQueue, p) + 0
      BY <2>3 DEF Sound, Agrees, CountersAgree
    <3>2. \A p \in Projects : Amount(m.m_buildQueue, p) \in Nat
      BY <1>1, Amounts DEF Typed, BuildManagerPrivate
    <3> QED
      BY <2>1, <3>1, <3>2 DEF Alike, SameQueue
  <2>6. Idle(r) /\ Typed(r) /\ r.announced = n.announced + 1
    BY <1>2, <2>2, <2>4, <2>5, ClearIsIdle, Zenon
  <2>7. Sound(r, known)
    BY <2>6, IdleIsSound
  <2> QED
    BY <1>3, <2>1, <2>6, <2>7 DEF Idle, r
<1>5. CASE m.m_scheduledBuild = None /\ m.m_canceling
  <2>1. r = m
    BY <1>2, <1>5
  <2> QED
    BY <1>3, <1>5, <2>1 DEF Sound, r
<1>6. CASE m.m_scheduledBuild = None /\ ~m.m_running
  <2>1. m.m_buildQueue # << >>
    BY <1>6 DEF isBuilding
  <2>2. PICK i \in DOMAIN m.m_buildQueue : target[m.m_buildQueue[i]] = None
    BY <1>6, <2>1 DEF IsPutOff
  <2>3. m.m_buildQueue[i] \in Steps
    BY <1>1 DEF Typed, BuildManagerPrivate
  <2> QED
    BY <2>2, <2>3, ConstantsAssumption
<1>7. CASE m.m_scheduledBuild = None /\ m.m_running /\ ~m.m_canceling
  <2>1. /\ m.m_currentBuildStep # None /\ m.working = {m.m_currentBuildStep}
        /\ m.connected = {m.m_currentBuildStep}
    BY <1>7 DEF Sound, OneStepAtATime
  <2>2. CASE m.m_currentBuildStep \in Threads
    <3>1. r = c
      BY <1>2, <1>7, <2>2
    <3>2. /\ SameQueue(m, c) /\ c.m_canceling = TRUE
          /\ c.working = m.working /\ c.connected = m.connected /\ c.announced = m.announced
      BY <1>1 DEF Private, SameQueue
    <3> HIDE DEF c
    <3>3. Agrees(c, known)
      BY <3>2, SameAgrees DEF Sound
    <3>4. Sound(c, known)
      BY <1>2, <1>7, <3>2, <3>3 DEF Sound, SameQueue, OneStepAtATime
    <3> QED
      BY <1>3, <1>7, <3>1, <3>2, <3>4 DEF SameQueue, r
  <2>3. CASE m.m_currentBuildStep \notin Threads
    <3>1. r = finishedHandler(s, FALSE)
      BY <1>2, <1>7, <2>1, <2>3
    <3>2. /\ SameQueue(m, s) /\ s.m_canceling = TRUE
          /\ s.working = {} /\ s.connected = m.connected /\ s.announced = m.announced
      BY <1>1, <2>1 DEF Private, SameQueue, Stopped
    <3> HIDE DEF s
    <3>3. Agrees(s, known)
      BY <3>2, SameAgrees DEF Sound
    <3>4. Ending(s, known)
      BY <1>2, <1>7, <2>1, <3>2, <3>3 DEF Ending, SameQueue
    <3>5. Settled(s, finishedHandler(s, FALSE), known) /\ Idle(finishedHandler(s, FALSE))
      BY <3>2, <3>4, FinishSettles
    <3> QED
      BY <1>3, <3>1, <3>2, <3>5 DEF Settled, Idle, SameQueue, r
  <2> QED
    BY <2>2, <2>3
<1> QED
  BY <1>4, <1>5, <1>6, <1>7

------------------------------------------------------------------------------
(* Building.                                                                *)
LEMMA TogetherConcat ==
    ASSUME NEW a \in Seq(Steps), NEW b \in Seq(Steps), Together(a), Together(b),
           \A i \in DOMAIN a, j \in DOMAIN b : target[a[i]] # target[b[j]]
    PROVE  Together(a \o b)
<1> DEFINE c == a \o b
<1>1. /\ DOMAIN a = 1 .. Len(a) /\ DOMAIN b = 1 .. Len(b) /\ Len(a) \in Nat /\ Len(b) \in Nat
      /\ DOMAIN c = 1 .. Len(a) + Len(b)
      /\ \A i \in 1 .. Len(a) : c[i] = a[i]
      /\ \A i \in Len(a) + 1 .. Len(a) + Len(b) : c[i] = b[i - Len(a)]
  <2>1. /\ c \in Seq(Steps) /\ Len(c) = Len(a) + Len(b)
        /\ \A i \in 1 .. Len(a) : c[i] = a[i]
        /\ \A i \in Len(a) + 1 .. Len(a) + Len(b) : c[i] = b[i - Len(a)]
    BY Concats, Zenon
  <2>2. DOMAIN c = 1 .. Len(c)
    BY <2>1
  <2>3. DOMAIN a = 1 .. Len(a) /\ DOMAIN b = 1 .. Len(b) /\ Len(a) \in Nat /\ Len(b) \in Nat
    OBVIOUS
  <2> QED
    BY <2>1, <2>2, <2>3, Zenon
<1> HIDE DEF c
<1>2. \A i \in 1 .. Len(a) + Len(b) :
         \/ i \in DOMAIN a /\ c[i] = a[i]
         \/ i > Len(a) /\ i - Len(a) \in DOMAIN b /\ c[i] = b[i - Len(a)]
  BY <1>1
<1> SUFFICES ASSUME NEW i \in 1 .. Len(a) + Len(b), NEW j \in 1 .. Len(a) + Len(b),
                    NEW k \in 1 .. Len(a) + Len(b), i < j, j < k, target[c[i]] = target[c[k]]
             PROVE  target[c[j]] = target[c[i]]
  BY <1>1 DEF Together, c
<1>3. /\ \A x, y, z \in DOMAIN a :
            x < y /\ y < z /\ target[a[x]] = target[a[z]] => target[a[y]] = target[a[x]]
      /\ \A x, y, z \in DOMAIN b :
            x < y /\ y < z /\ target[b[x]] = target[b[z]] => target[b[y]] = target[b[x]]
  BY DEF Together
<1>4. CASE k \in DOMAIN a
  <2>1. i \in DOMAIN a /\ j \in DOMAIN a
    BY <1>1, <1>4
  <2>2. c[i] = a[i] /\ c[j] = a[j] /\ c[k] = a[k]
    BY <1>1, <1>4, <2>1
  <2> QED
    BY <1>3, <1>4, <2>1, <2>2
<1>5. CASE i > Len(a)
  <2> DEFINE x == i - Len(a)
             y == j - Len(a)
             z == k - Len(a)
  <2>1. /\ x \in DOMAIN b /\ y \in DOMAIN b /\ z \in DOMAIN b /\ x < y /\ y < z
        /\ c[i] = b[x] /\ c[j] = b[y] /\ c[k] = b[z]
    BY <1>1, <1>5
  <2> HIDE DEF x, y, z
  <2> QED
    BY <1>3, <2>1
<1>6. CASE k \notin DOMAIN a /\ ~(i > Len(a))
  <2>1. i \in DOMAIN a /\ c[i] = a[i]
    BY <1>1, <1>6
  <2>2. k - Len(a) \in DOMAIN b /\ c[k] = b[k - Len(a)]
    BY <1>2, <1>6
  <2> QED
    BY <2>1, <2>2
<1> QED
  BY <1>4, <1>5, <1>6

(* What is appended.                                                        *)
IsAppended(m, steps, r) ==
    /\ Typed(r)
    /\ r.m_buildQueue = m.m_buildQueue \o steps
    /\ r.m_enabledState = m.m_enabledState \o Enabled(steps)
    /\ r.m_running = m.m_running /\ r.m_canceling = m.m_canceling
    /\ r.m_currentBuildStep = m.m_currentBuildStep
    /\ r.m_scheduledBuild = m.m_scheduledBuild
    /\ r.m_progress = m.m_progress
    /\ r.m_maxProgress = m.m_maxProgress + Count(Enabled(steps), {TRUE})
    /\ r.working = m.working /\ r.connected = m.connected
    /\ r.failed = m.failed /\ r.announced = m.announced
    /\ \A p \in Projects : r.m_activeBuildSteps[p] = m.m_activeBuildSteps[p] + Amount(steps, p)

(* buildQueueAppend() does so.                                              *)
LEMMA Appends ==
    ASSUME NEW m, Typed(m), NEW steps \in Seq(Steps)
    PROVE  IsAppended(m, steps, buildQueueAppend(m, steps))
<1> DEFINE q == m.m_buildQueue
           f == m.m_enabledState
           e == Enabled(steps)
           c == Count(e, {TRUE})
           a == [p \in Projects |-> m.m_activeBuildSteps[p] + Amount(steps, p)]
           qs == q \o steps
           fe == f \o e
           x == m.m_maxProgress + c
           r == buildQueueAppend(m, steps)
<1>1. m \in Private /\ q \in Seq(Steps) /\ f \in Seq(BOOLEAN) /\ Len(q) <= Len(f)
  BY Privates DEF Typed, BuildManagerPrivate
<1>2. e \in Seq(BOOLEAN) /\ Len(e) = Len(steps)
  BY Flags
<1> HIDE DEF e
<1>3. c \in Nat
  BY <1>2, Counted
<1>4. a \in Counters
  <2>1. \A p \in Projects : m.m_activeBuildSteps[p] \in Int /\ Amount(steps, p) \in Nat
    BY <1>1, Amounts DEF Private, Counters
  <2> QED
    BY <2>1 DEF Counters
<1>5. /\ qs \in Seq(Steps) /\ Len(qs) = Len(q) + Len(steps)
      /\ fe \in Seq(BOOLEAN) /\ Len(fe) = Len(f) + Len(e)
  <2>1. q \in Seq(Steps) /\ f \in Seq(BOOLEAN)
    BY <1>1
  <2> HIDE DEF q, f
  <2>2. qs \in Seq(Steps) /\ Len(qs) = Len(q) + Len(steps)
    BY <2>1, Concats, Zenon
  <2>3. fe \in Seq(BOOLEAN) /\ Len(fe) = Len(f) + Len(e)
    BY <1>2, <2>1, Concats, Zenon
  <2> QED
    BY <2>2, <2>3
<1>6. Len(qs) <= Len(fe)
  <2>1. Len(q) \in Nat /\ Len(f) \in Nat /\ Len(e) \in Nat /\ Len(steps) \in Nat
    <3> HIDE DEF q, f
    <3> QED
      BY <1>1, <1>2
  <2> HIDE DEF q, f, qs, fe
  <2> QED
    BY <1>1, <1>2, <1>5, <2>1
<1> HIDE DEF c
<1>7. x \in Numbers
  BY <1>1, <1>3 DEF Private, Numbers
<1>8. r = [m EXCEPT !.m_buildQueue = qs, !.m_enabledState = fe, !.m_maxProgress = x,
                    !.m_activeBuildSteps = a]
  <2>1. [p \in Projects |-> m.m_activeBuildSteps[p] + Amount(steps, p)] = a
    OBVIOUS
  <2> QED
    BY <1>1 DEF Private, buildQueueAppend, c, e
<1>9. qs \in Queues /\ fe \in FlagLists
  BY <1>5 DEF Queues, FlagLists
<1> HIDE DEF qs, fe, x, a, r
<1>10. /\ r \in Private /\ r.m_buildQueue = qs /\ r.m_enabledState = fe
       /\ r.m_running = m.m_running /\ r.m_canceling = m.m_canceling
       /\ r.m_currentBuildStep = m.m_currentBuildStep
       /\ r.m_scheduledBuild = m.m_scheduledBuild
       /\ r.m_progress = m.m_progress
       /\ r.m_maxProgress = x
       /\ r.working = m.working /\ r.connected = m.connected
       /\ r.failed = m.failed /\ r.announced = m.announced
       /\ r.m_activeBuildSteps = a
  BY <1>1, <1>4, <1>7, <1>8, <1>9 DEF Private
<1>11. Typed(r)
  BY <1>6, <1>10, Privates DEF Typed
<1> QED
  BY <1>10, <1>11 DEF r, a, x, c, e, qs, fe, IsAppended

(* The projects are not being built: none of their targets is in the queue. *)
LEMMA AppendIsSound ==
    ASSUME NEW m, NEW known, Sound(m, known), NEW steps \in Seq(Steps),
           NEW asked, asked = {ProjectOf(steps[i]) : i \in DOMAIN steps},
           \A p \in asked : ~isBuildingProject(m, p),
           NEW n, Typed(n), SameQueue([m EXCEPT !.failed = n.failed], n),
           n.m_canceling = m.m_canceling, n.working = m.working, n.connected = m.connected,
           n.failed \subseteq m.failed, \A t \in n.failed : project[t] \notin asked
    PROVE  Sound(buildQueueAppend(n, steps),
                 known \cup IF Together(steps) THEN {} ELSE {"scattered"})
<1> DEFINE r == buildQueueAppend(n, steps)
           more == known \cup IF Together(steps) THEN {} ELSE {"scattered"}
           q == m.m_buildQueue
           f == m.m_enabledState
           s == m.m_currentBuildStep
<1>1. IsAppended(n, steps, r)
  BY Appends
<1> HIDE DEF r
<1>2. /\ m \in Private /\ q \in Seq(Steps) /\ f \in Seq(BOOLEAN) /\ s \in Steps \cup {None}
      /\ m.m_progress \in Nat
  BY Privates DEF Sound, Typed, BuildManagerPrivate
<1>3. /\ Typed(r)
      /\ r.m_buildQueue = q \o steps /\ r.m_enabledState = f \o Enabled(steps)
      /\ r.m_running = m.m_running /\ r.m_canceling = m.m_canceling
      /\ r.m_currentBuildStep = s
      /\ r.m_progress = m.m_progress
      /\ r.m_maxProgress = m.m_maxProgress + Count(Enabled(steps), {TRUE})
      /\ r.working = m.working /\ r.connected = m.connected
      /\ r.failed = n.failed
      /\ \A p \in Projects : r.m_activeBuildSteps[p] = m.m_activeBuildSteps[p] + Amount(steps, p)
  BY <1>1, <1>2 DEF IsAppended, SameQueue, Private
<1>4. OneStepAtATime(r) /\ (r.m_canceling => r.m_running)
  BY <1>3 DEF Sound, OneStepAtATime
<1>5. CountersAgree(r)
  <2> SUFFICES ASSUME NEW p \in Projects
               PROVE  r.m_activeBuildSteps[p] =
                         Amount(q \o steps, p) + (IF s # None /\ ProjectOf(s) = p THEN 1 ELSE 0)
    BY <1>3 DEF CountersAgree
  <2>1. m.m_activeBuildSteps[p] = Amount(q, p) + (IF s # None /\ ProjectOf(s) = p THEN 1 ELSE 0)
    BY DEF Sound, Agrees, CountersAgree
  <2>2. r.m_activeBuildSteps[p] = m.m_activeBuildSteps[p] + Amount(steps, p)
    BY <1>3
  <2> HIDE DEF q, s
  <2>3. /\ Amount(q \o steps, p) = Amount(q, p) + Amount(steps, p)
        /\ Amount(q, p) \in Nat /\ Amount(steps, p) \in Nat
    BY <1>2, Amounts
  <2> QED
    BY <2>1, <2>2, <2>3
<1>6. ASSUME abortBuildAllOnError PROVE FlagsBelongToSteps(r) /\ ProgressIsTrue(r)
  <2>1. f = Enabled(q) /\ ProgressIsTrue(m)
    BY <1>6 DEF Sound, Agrees, FlagsBelongToSteps
  <2> DEFINE B == BOOLEAN
             e == Enabled(steps)
  <2>2. e \in Seq(B) /\ f \in Seq(B)
    BY <1>2, Flags
  <2>3. m.m_maxProgress = Count(f, {TRUE}) + (IF m.m_running THEN m.m_progress + 1 ELSE 0)
    BY <2>1 DEF ProgressIsTrue
  <2> HIDE DEF f, q, B
  <2>4. Enabled(q \o steps) = f \o e
    BY <1>2, <2>1, Flags
  <2> HIDE DEF e
  <2>5. Count(f \o e, {TRUE}) = Count(f, {TRUE}) + Count(e, {TRUE})
    BY <2>2, CountConcat
  <2>6. Count(f, {TRUE}) \in Nat /\ Count(e, {TRUE}) \in Nat
    BY <2>2, Counted
  <2>7. FlagsBelongToSteps(r)
    BY <1>3, <2>4 DEF FlagsBelongToSteps, e
  <2>8. ProgressIsTrue(r)
    BY <1>2, <1>3, <2>3, <2>5, <2>6 DEF ProgressIsTrue, e
  <2> QED
    BY <2>7, <2>8
<1>7. ASSUME "scattered" \notin more
      PROVE  /\ FailedTargetIsLeftOut(r) /\ NoneFailed(r) /\ Together(r.m_buildQueue)
             /\ r.m_currentBuildStep # None =>
                   Together(<<r.m_currentBuildStep>> \o r.m_buildQueue)
  <2>1. /\ Together(steps) /\ Together(q) /\ FailedTargetIsLeftOut(m) /\ NoneFailed(m)
        /\ s # None => Together(<<s>> \o q)
    BY <1>7 DEF Sound, Agrees
  <2>2. \A i \in DOMAIN q : target[q[i]] \notin m.failed
    BY <2>1 DEF NoneFailed
  <2>3. ASSUME NEW p \in asked
        PROVE  /\ \A i \in DOMAIN q : ProjectOf(q[i]) # p
               /\ s # None => ProjectOf(s) # p
    <3>1. p \in Projects
      BY ConstantsAssumption DEF ProjectOf
    <3>2. m.m_activeBuildSteps[p] = Amount(q, p) + (IF s # None /\ ProjectOf(s) = p THEN 1 ELSE 0)
      BY <3>1 DEF Sound, Agrees, CountersAgree
    <3>3. ~(m.m_activeBuildSteps[p] > 0)
      BY DEF isBuildingProject
    <3> HIDE DEF q, s
    <3>4. Amount(q, p) \in Nat /\ (Amount(q, p) = 0 <=> \A i \in DOMAIN q : ProjectOf(q[i]) # p)
      BY <1>2, <3>1, Amounts
    <3> DEFINE c == Amount(q, p)
    <3>5. c = 0 /\ (s # None => ProjectOf(s) # p)
      <4>1. c \in Nat
        BY <3>4
      <4> HIDE DEF c
      <4> QED
        BY <3>2, <3>3, <4>1 DEF c
    <3> QED
      BY <3>4, <3>5
  <2>4. \A i \in DOMAIN steps : ProjectOf(steps[i]) \in asked
    OBVIOUS
  <2>5. /\ \A i \in DOMAIN q, j \in DOMAIN steps : target[q[i]] # target[steps[j]]
        /\ s # None => \A j \in DOMAIN steps : target[s] # target[steps[j]]
    BY <2>3, <2>4 DEF ProjectOf
  <2> HIDE DEF q, s
  <2>6. Together(q \o steps)
    BY <1>2, <2>1, <2>5, TogetherConcat
  <2>7. ASSUME s # None PROVE Together(<<s>> \o (q \o steps))
    <3> DEFINE a == <<s>> \o q
    <3>1. /\ s \in Steps /\ a \in Seq(Steps) /\ DOMAIN a = 1 .. Len(q) + 1 /\ a[1] = s
          /\ Len(q) \in Nat /\ DOMAIN q = 1 .. Len(q)
          /\ \A i \in 1 .. Len(q) : a[i + 1] = q[i]
      BY <1>2, <2>7
    <3>2. Together(a)
      BY <2>1, <2>7
    <3>3. <<s>> \o (q \o steps) = a \o steps
      <4>1. <<s>> \in Seq(Steps)
        BY <3>1
      <4> QED
        BY <1>2, <4>1, ConcatAssociative
    <3> HIDE DEF a
    <3>4. ASSUME NEW i \in DOMAIN a, NEW j \in DOMAIN steps PROVE target[a[i]] # target[steps[j]]
      <4>1. CASE i = 1
        BY <2>5, <2>7, <3>1, <4>1
      <4>2. CASE i # 1
        <5>1. i - 1 \in DOMAIN q /\ a[i] = q[i - 1]
          BY <3>1, <4>2
        <5> QED
          BY <2>5, <5>1
      <4> QED
        BY <4>1, <4>2
    <3>5. Together(a \o steps)
      BY <2>1, <3>1, <3>2, <3>4, TogetherConcat
    <3> QED
      BY <3>3, <3>5
  <2>8. FailedTargetIsLeftOut(r)
    BY <1>3, <2>1 DEF FailedTargetIsLeftOut, s
  <2>9. NoneFailed(r)
    <3> DEFINE z == q \o steps
    <3>1. /\ z \in Seq(Steps) /\ Len(z) = Len(q) + Len(steps)
          /\ \A i \in 1 .. Len(q) : z[i] = q[i]
          /\ \A i \in Len(q) + 1 .. Len(q) + Len(steps) : z[i] = steps[i - Len(q)]
      <4>1. q \in Seq(Steps) /\ steps \in Seq(Steps)
        BY <1>2
      <4> QED
        BY <4>1, Concats, ZenonT(30)
    <3>2. /\ DOMAIN q = 1 .. Len(q) /\ Len(q) \in Nat
          /\ DOMAIN steps = 1 .. Len(steps) /\ Len(steps) \in Nat
      BY <1>2
    <3> HIDE DEF z
    <3>3. ASSUME NEW i \in DOMAIN z PROVE target[z[i]] \notin n.failed
      <4>1. i \in 1 .. Len(q) + Len(steps)
        BY <3>1
      <4>2. CASE i \in DOMAIN q
        BY <2>2, <3>1, <3>2, <4>2
      <4>3. CASE i \notin DOMAIN q
        <5>1. i - Len(q) \in DOMAIN steps /\ z[i] = steps[i - Len(q)]
          BY <3>1, <3>2, <4>1, <4>3
        <5>2. ProjectOf(z[i]) \in asked
          BY <2>4, <5>1
        <5> QED
          BY <5>2 DEF ProjectOf
      <4> QED
        BY <4>2, <4>3
    <3>4. r.m_buildQueue = z /\ r.failed = n.failed
      BY <1>3 DEF z
    <3> QED
      BY <3>3, <3>4 DEF NoneFailed
  <2> QED
    BY <1>3, <2>6, <2>7, <2>8, <2>9
<1>8. Agrees(r, more)
  BY <1>5, <1>6, <1>7 DEF Agrees
<1> QED
  BY <1>3, <1>4, <1>8 DEF Sound, r

(* startBuildQueue() found its build system busy, or none of them.          *)
Begun(m) == [m EXCEPT !.m_progress = 0, !.m_running = TRUE, !.m_allStepsSucceeded = TRUE]

(* A queue that is not worked off begins as one between two steps.          *)
LEMMA Begins ==
    ASSUME NEW m, Typed(m)
    PROVE  LET n == Begun(m) IN
           /\ Typed(n)
           /\ n.m_buildQueue = m.m_buildQueue /\ n.m_enabledState = m.m_enabledState
           /\ n.m_running = TRUE /\ n.m_canceling = m.m_canceling
           /\ n.m_activeBuildSteps = m.m_activeBuildSteps
           /\ n.m_progress = 0 /\ n.m_maxProgress = m.m_maxProgress
           /\ n.m_scheduledBuild = m.m_scheduledBuild
           /\ n.working = m.working /\ n.connected = m.connected
           /\ n.failed = m.failed /\ n.announced = m.announced
<1> DEFINE n == Begun(m)
<1>1. m \in Private /\ Len(m.m_buildQueue) <= Len(m.m_enabledState)
  BY Privates DEF Typed
<1>2. /\ n \in Private
      /\ n.m_buildQueue = m.m_buildQueue /\ n.m_enabledState = m.m_enabledState
      /\ n.m_running = TRUE /\ n.m_canceling = m.m_canceling
      /\ n.m_activeBuildSteps = m.m_activeBuildSteps
      /\ n.m_progress = 0 /\ n.m_maxProgress = m.m_maxProgress
      /\ n.m_scheduledBuild = m.m_scheduledBuild
      /\ n.working = m.working /\ n.connected = m.connected
      /\ n.failed = m.failed /\ n.announced = m.announced
  BY <1>1, Members DEF Private, Begun
<1> HIDE DEF n
<1>3. Typed(n)
  BY <1>1, <1>2, Privates DEF Typed
<1> QED
  BY <1>2, <1>3 DEF n

(* startBuildQueue(), by what it finds.                                     *)
Outcome(m, busy, r, n, e, b) ==
    /\ m.m_buildQueue = << >> => r = e
    /\ m.m_buildQueue # << >> =>
          /\ busy # None => r = n
          /\ busy = None => r = IF ~m.m_running THEN nextStep(b) ELSE m
    /\ Typed(e) /\ Alike(m, e) /\ e.m_scheduledBuild = m.m_scheduledBuild
    /\ Typed(n) /\ Alike(m, n) /\ n.m_scheduledBuild = busy
    /\ n.announced = m.announced

LEMMA Starts ==
    ASSUME NEW m, Typed(m), NEW busy \in Targets \cup {None}
    PROVE  Outcome(m, busy, startBuildQueue(m, busy), [m EXCEPT !.m_scheduledBuild = busy],
                   [m EXCEPT !.announced = m.announced + 1], Begun(m))
<1> DEFINE r == startBuildQueue(m, busy)
           n == [m EXCEPT !.m_scheduledBuild = busy]
           e == [m EXCEPT !.announced = m.announced + 1]
<1>1. m \in Private /\ Len(m.m_buildQueue) <= Len(m.m_enabledState)
  BY Privates DEF Typed
<1>2. Typed(n) /\ Alike(m, n) /\ n.m_scheduledBuild = busy /\ n.announced = m.announced
  BY Scheduling
<1>3. Typed(e) /\ Alike(m, e) /\ e.m_scheduledBuild = m.m_scheduledBuild
  <2>1. m.announced + 1 \in Numbers
    BY <1>1, Members DEF Private
  <2>2. /\ e \in Private /\ Alike(m, e) /\ e.m_scheduledBuild = m.m_scheduledBuild
    BY <1>1, <2>1 DEF Private, Alike, SameQueue
  <2> HIDE DEF e
  <2> QED
    BY <1>1, <2>2, Privates DEF Typed, Alike, SameQueue
<1>4. r = IF m.m_buildQueue = << >> THEN e ELSE IF busy # None THEN n
          ELSE IF ~m.m_running THEN nextStep(Begun(m)) ELSE m
  BY Zenon DEF startBuildQueue, Begun
<1> HIDE DEF r, n, e
<1>5. /\ m.m_buildQueue = << >> => r = e
      /\ m.m_buildQueue # << >> =>
            /\ busy # None => r = n
            /\ busy = None => r = IF ~m.m_running THEN nextStep(Begun(m)) ELSE m
  BY <1>4
<1>6. Outcome(m, busy, r, n, e, Begun(m))
  BY <1>2, <1>3, <1>5 DEF Outcome
<1> QED
  BY <1>6 DEF r, n, e

(* startBuildQueue() keeps the types.                                       *)
LEMMA StartKeepsTypes ==
    ASSUME NEW m, Typed(m), NEW busy \in Targets \cup {None}
    PROVE  LET r == startBuildQueue(m, busy) IN
           /\ Typed(r)
           /\ r.m_scheduledBuild = m.m_scheduledBuild \/ r.m_scheduledBuild = busy
<1> DEFINE r == startBuildQueue(m, busy)
           n == [m EXCEPT !.m_scheduledBuild = busy]
           e == [m EXCEPT !.announced = m.announced + 1]
           b == Begun(m)
<1>1. /\ m.m_buildQueue = << >> => r = e
      /\ m.m_buildQueue # << >> =>
            /\ busy # None => r = n
            /\ busy = None => r = IF ~m.m_running THEN nextStep(b) ELSE m
      /\ Typed(e) /\ e.m_scheduledBuild = m.m_scheduledBuild
      /\ Typed(n) /\ n.m_scheduledBuild = busy
  <2>1. Outcome(m, busy, r, n, e, b)
    BY Starts
  <2> HIDE DEF r, n, e, b
  <2> QED
    BY <2>1 DEF Outcome
<1>2. Typed(b) /\ b.m_scheduledBuild = m.m_scheduledBuild
  BY Begins
<1> HIDE DEF r, n, e, b
<1>3. Typed(nextStep(b)) /\ nextStep(b).m_scheduledBuild = b.m_scheduledBuild
  BY <1>2, NextKeepsTypes, Zenon
<1>4. Typed(r) /\ (r.m_scheduledBuild = m.m_scheduledBuild \/ r.m_scheduledBuild = busy)
  BY <1>1, <1>2, <1>3
<1> QED
  BY <1>4 DEF r

(* A sound queue is started, or put off, or its end is told.                *)
LEMMA StartSettles ==
    ASSUME NEW m, NEW known, Sound(m, known),
           NEW busy \in Targets \cup {None}, busy # None => busy \in Busy(m)
    PROVE  LET r == startBuildQueue(m, busy) IN
           /\ Typed(r) /\ Sound(r, known) /\ IsPutOff(r)
           /\ m.m_buildQueue # << >> =>
                 r.announced = m.announced + (IF isBuilding(r) THEN 0 ELSE 1)
           /\ \A p \in Projects : m.m_activeBuildSteps[p] = 0 => r.m_activeBuildSteps[p] = 0
<1> DEFINE r == startBuildQueue(m, busy)
           n == [m EXCEPT !.m_scheduledBuild = busy]
           e == [m EXCEPT !.announced = m.announced + 1]
           b == Begun(m)
<1>1. Typed(m) /\ m \in Private /\ m.announced \in Nat
  BY Privates DEF Sound, Typed, Private, Numbers
<1>2. /\ m.m_buildQueue = << >> => r = e
      /\ m.m_buildQueue # << >> =>
            /\ busy # None => r = n
            /\ busy = None => r = IF ~m.m_running THEN nextStep(b) ELSE m
      /\ Typed(e) /\ Alike(m, e)
      /\ Typed(n) /\ Alike(m, n) /\ n.m_scheduledBuild = busy /\ n.announced = m.announced
  <2>1. Outcome(m, busy, r, n, e, b)
    BY <1>1, Starts
  <2> HIDE DEF r, n, e, b
  <2> QED
    BY <2>1 DEF Outcome
<1> HIDE DEF r, n, e
<1>3. CASE m.m_buildQueue = << >>
  <2>1. Sound(e, known)
    BY <1>2, AlikeIsSound
  <2> QED
    BY <1>2, <1>3, <2>1 DEF Alike, SameQueue, IsPutOff, r
<1>4. CASE m.m_buildQueue # << >> /\ busy # None
  <2>1. r = n
    BY <1>2, <1>4
  <2>2. Sound(n, known)
    BY <1>2, AlikeIsSound
  <2>3. IsPutOff(n)
    <3>1. PICK i \in DOMAIN m.m_buildQueue : target[m.m_buildQueue[i]] = busy
      BY <1>4 DEF Busy
    <3> QED
      BY <1>2, <3>1 DEF IsPutOff, Alike, SameQueue
  <2>4. isBuilding(n)
    BY <1>2, <1>4 DEF isBuilding, Alike, SameQueue
  <2>5. n.announced = m.announced + (IF isBuilding(n) THEN 0 ELSE 1)
    BY <1>1, <1>2, <2>4
  <2>6. n.m_activeBuildSteps = m.m_activeBuildSteps
    BY <1>2 DEF Alike, SameQueue
  <2> QED
    BY <1>2, <2>1, <2>2, <2>3, <2>5, <2>6 DEF r
<1>5. CASE m.m_buildQueue # << >> /\ busy = None /\ m.m_running
  <2>1. r = m
    BY <1>2, <1>5
  <2>2. IsPutOff(m) /\ isBuilding(m)
    BY <1>5 DEF IsPutOff, isBuilding
  <2> QED
    BY <1>1, <2>1, <2>2 DEF r
<1>6. CASE m.m_buildQueue # << >> /\ busy = None /\ ~m.m_running
  <2>1. r = nextStep(b)
    BY <1>2, <1>6
  <2>2. /\ Typed(b)
        /\ b.m_buildQueue = m.m_buildQueue /\ b.m_enabledState = m.m_enabledState
        /\ b.m_running = TRUE /\ b.m_canceling = m.m_canceling
        /\ b.m_activeBuildSteps = m.m_activeBuildSteps
        /\ b.m_progress = 0 /\ b.m_maxProgress = m.m_maxProgress
        /\ b.working = m.working /\ b.connected = m.connected
        /\ b.failed = m.failed /\ b.announced = m.announced
    BY <1>1, Begins
  <2> HIDE DEF b
  <2>3. /\ m.m_currentBuildStep = None /\ m.working = {} /\ m.connected = {} /\ ~m.m_canceling
    BY <1>6 DEF Sound, OneStepAtATime
  <2>4. \A p \in Projects : b.m_activeBuildSteps[p] = Amount(b.m_buildQueue, p)
    <3>1. \A p \in Projects : m.m_activeBuildSteps[p] = Amount(m.m_buildQueue, p) + 0
      BY <2>3 DEF Sound, Agrees, CountersAgree
    <3>2. \A p \in Projects : Amount(m.m_buildQueue, p) \in Nat
      BY <1>1, Amounts DEF Private, Queues
    <3> QED
      BY <2>2, <3>1, <3>2
  <2>5. ASSUME abortBuildAllOnError
        PROVE  /\ FlagsBelongToSteps(b)
               /\ b.m_maxProgress = Count(b.m_enabledState, {TRUE}) + b.m_progress
    <3>1. FlagsBelongToSteps(m) /\ m.m_maxProgress = Count(m.m_enabledState, {TRUE}) + 0
      BY <1>6, <2>5 DEF Sound, Agrees, ProgressIsTrue
    <3> QED
      BY <2>2, <3>1 DEF FlagsBelongToSteps
  <2>6. "scattered" \notin known => NoneFailed(b) /\ Together(b.m_buildQueue)
    BY <2>2 DEF Sound, Agrees, NoneFailed
  <2>7. Between(b, known)
    BY <2>2, <2>3, <2>4, <2>5, <2>6 DEF Between
  <2>8. Settled(b, r, known)
    BY <2>1, <2>7, NextSettles
  <2>9. r.m_running <=> isBuilding(r)
    BY <2>8 DEF Settled, Idle, isBuilding
  <2>10. IsPutOff(r)
    BY <2>8 DEF Settled, Idle, IsPutOff
  <2> QED
    BY <2>2, <2>8, <2>9, <2>10 DEF Settled, r
<1> QED
  BY <1>3, <1>4, <1>5, <1>6

------------------------------------------------------------------------------
(* The events.                                                              *)
LEMMA HoldsPrimed ==
    ASSUME abortBuildAllOnError' = abortBuildAllOnError, Holds(d', mishaps', removed')
    PROVE  Holds(d, mishaps, removed)'
  BY DEF Holds, Sound, Agrees

(* Types of the next state, written out.                                    *)
LEMMA TypesPrimed ==
    ASSUME Typed(d'), parsing' \in [Targets -> BOOLEAN], listeners' \in [Targets -> Nat],
           parsed' \in Seq(BOOLEAN), removed' \subseteq Projects,
           abortBuildAllOnError' \in BOOLEAN, builds' \in 0 .. MaxBuilds,
           parses' \in 0 .. MaxParses, mishaps' \subseteq Mishap,
           d'.m_scheduledBuild # None => listeners'[d'.m_scheduledBuild] > 0
    PROVE  Types'
  BY DEF Types, TypeOK, Typed

(* Types, written out.                                                      *)
LEMMA Typing ==
    ASSUME Types
    PROVE  /\ Typed(d) /\ d \in BuildManagerPrivate
           /\ parsing \in [Targets -> BOOLEAN] /\ listeners \in [Targets -> Nat]
           /\ parsed \in Seq(BOOLEAN) /\ removed \subseteq Projects
           /\ abortBuildAllOnError \in BOOLEAN /\ builds \in 0 .. MaxBuilds
           /\ parses \in 0 .. MaxParses /\ mishaps \subseteq Mishap
           /\ d.m_scheduledBuild # None => listeners[d.m_scheduledBuild] > 0
           /\ d.m_scheduledBuild \in Targets \cup {None}
  BY DEF Types, TypeOK, Typed, BuildManagerPrivate

(* What is sound stays so when more mishaps are known.                      *)
LEMMA MoreIsSound ==
    ASSUME NEW m, NEW known, NEW more, Sound(m, known), known \subseteq more
    PROVE  Sound(m, more)
  BY AlikeIsSound DEF Sound, Alike, SameQueue

(* What is busy is a target.                                                *)
LEMMA BusyTargets ==
    ASSUME NEW m, Typed(m)
    PROVE  Busy(m) \subseteq Targets
  BY DEF Busy

(* The build system that a build waits for is connected to it.              *)
LEMMA Disconnects ==
    ASSUME Types, d.m_scheduledBuild # None
    PROVE  Disconnected(d) \in [Targets -> Nat]
<1>1. listeners \in [Targets -> Nat] /\ listeners[d.m_scheduledBuild] > 0
  BY Typing
<1> QED
  BY <1>1 DEF Disconnected

(* Start keeps the types.                                                   *)
LEMMA StartTypes ==
    ASSUME NEW m, Typed(m), NEW l \in [Targets -> Nat],
           m.m_scheduledBuild # None => l[m.m_scheduledBuild] > 0,
           NEW known \in SUBSET Mishap, Start(m, l, known)
    PROVE  /\ Typed(d') /\ listeners' \in [Targets -> Nat] /\ mishaps' \subseteq Mishap
           /\ d'.m_scheduledBuild # None => listeners'[d'.m_scheduledBuild] > 0
<1>1. PICK busy \in IF Busy(m) = {} THEN {None} ELSE Busy(m) :
         /\ d' = startBuildQueue(m, busy)
         /\ listeners' = [t \in Targets |-> IF t = busy THEN l[t] + 1 ELSE l[t]]
         /\ mishaps' = known \cup
               IF d'.m_scheduledBuild # None /\ (d'.m_running \/ d'.m_buildQueue = << >>)
               THEN {"overlapped"} ELSE {}
  BY Zenon DEF Start
<1>2. busy \in Targets \cup {None}
  BY BusyTargets
<1>3. /\ Typed(d')
      /\ d'.m_scheduledBuild = m.m_scheduledBuild \/ d'.m_scheduledBuild = busy
  BY <1>1, <1>2, StartKeepsTypes
<1>4. listeners' \in [Targets -> Nat]
  BY <1>1
<1>5. mishaps' \subseteq Mishap
  BY <1>1 DEF Mishap
<1>6. d'.m_scheduledBuild \in Targets \cup {None}
  BY <1>3 DEF Typed, BuildManagerPrivate
<1>7. ASSUME NEW t \in Targets, t = m.m_scheduledBuild \/ t = busy PROVE listeners'[t] > 0
  <2>1. l[t] \in Nat /\ listeners'[t] = IF t = busy THEN l[t] + 1 ELSE l[t]
    BY <1>1
  <2>2. t # None
    BY ConstantsAssumption
  <2> QED
    BY <1>7, <2>1, <2>2
<1>8. d'.m_scheduledBuild # None => listeners'[d'.m_scheduledBuild] > 0
  BY <1>3, <1>6, <1>7
<1> QED
  BY <1>3, <1>4, <1>5, <1>8

(* Start keeps the rest of the invariant.                                   *)
LEMMA StartHolds ==
    ASSUME NEW m, Typed(m), NEW l, NEW known, NEW gone \in SUBSET Projects, Start(m, l, known),
           "abandoned" \notin known => Sound(m, known),
           known \subseteq {"scattered"} => m.m_buildQueue # << >> /\ m.announced = 0,
           known \cap {"lateCancel", "abandoned"} = {} =>
              "crashed" \notin known /\ \A p \in gone : m.m_activeBuildSteps[p] = 0
    PROVE  Holds(d', mishaps', gone)
<1>1. PICK busy \in IF Busy(m) = {} THEN {None} ELSE Busy(m) :
         /\ d' = startBuildQueue(m, busy)
         /\ listeners' = [t \in Targets |-> IF t = busy THEN l[t] + 1 ELSE l[t]]
         /\ mishaps' = known \cup
               IF d'.m_scheduledBuild # None /\ (d'.m_running \/ d'.m_buildQueue = << >>)
               THEN {"overlapped"} ELSE {}
  BY Zenon DEF Start
<1>2. busy \in Targets \cup {None} /\ (busy # None => busy \in Busy(m))
  BY BusyTargets
<1>3. CASE "abandoned" \in known
  BY <1>1, <1>3 DEF Holds
<1>4. CASE "abandoned" \notin known
  <2> DEFINE r == startBuildQueue(m, busy)
  <2>1. /\ Sound(r, known) /\ IsPutOff(r)
        /\ m.m_buildQueue # << >> =>
              r.announced = m.announced + (IF isBuilding(r) THEN 0 ELSE 1)
        /\ \A p \in Projects : m.m_activeBuildSteps[p] = 0 => r.m_activeBuildSteps[p] = 0
    BY <1>2, <1>4, StartSettles
  <2>2. d' = r
    BY <1>1
  <2> HIDE DEF r
  <2>3. known \subseteq mishaps' /\ mishaps' \subseteq known \cup {"overlapped"}
    BY <1>1
  <2>4. Sound(d', mishaps') /\ IsPutOff(d')
    BY <2>1, <2>2, <2>3, MoreIsSound
  <2>5. mishaps' \cap {"abandoned", "overlapped"} = {} => OnlyPutOff(d')
    BY <1>1 DEF OnlyPutOff
  <2>6. mishaps' \subseteq {"scattered"} =>
           d'.announced = IF isBuilding(d') THEN 0 ELSE 1
    BY <2>1, <2>2, <2>3
  <2>7. mishaps' \cap {"lateCancel", "abandoned"} = {} =>
           "crashed" \notin mishaps' /\ \A p \in gone : d'.m_activeBuildSteps[p] = 0
    BY <2>1, <2>2, <2>3
  <2> QED
    BY <2>4, <2>5, <2>6, <2>7 DEF Holds
<1> QED
  BY <1>3, <1>4

(* What is asked for, before it is appended.                                *)
Asked(m, deploys, n, fs) ==
    [[m EXCEPT !.m_isDeploying = @ \/ deploys] EXCEPT !.announced = n, !.failed = fs]

(* What is asked for and appended, and what is when init() fails.           *)
AreAsked(m, deploys, n, fs) ==
    LET k == Asked(m, deploys, n, fs)
        x == [[m EXCEPT !.m_isDeploying = @ \/ deploys] EXCEPT !.m_isDeploying = FALSE]
    IN  /\ Typed(k) /\ SameQueue([m EXCEPT !.failed = k.failed], k)
        /\ k.m_canceling = m.m_canceling /\ k.working = m.working
        /\ k.connected = m.connected /\ k.failed = fs /\ k.announced = n
        /\ k.m_scheduledBuild = m.m_scheduledBuild
        /\ k.m_activeBuildSteps = m.m_activeBuildSteps
        /\ k.m_buildQueue = m.m_buildQueue
        /\ Typed(x) /\ Alike(m, x) /\ x.m_scheduledBuild = m.m_scheduledBuild
        /\ x.announced = m.announced

(* Nothing of the queue changes before the steps are appended.              *)
LEMMA Asks ==
    ASSUME NEW m, Typed(m), NEW deploys \in BOOLEAN, NEW n \in Nat, NEW fs \in SUBSET Targets
    PROVE  AreAsked(m, deploys, n, fs)
<1> DEFINE b == m.m_isDeploying \/ deploys
           k == Asked(m, deploys, n, fs)
           x == [[m EXCEPT !.m_isDeploying = @ \/ deploys] EXCEPT !.m_isDeploying = FALSE]
<1>1. m \in Private /\ Len(m.m_buildQueue) <= Len(m.m_enabledState)
  BY Privates DEF Typed
<1>2. b \in Booleans /\ n \in Numbers /\ fs \in TargetSets
  BY DEF Booleans, Numbers, TargetSets
<1>3. k = [m EXCEPT !.m_isDeploying = b, !.announced = n, !.failed = fs]
  BY <1>1 DEF Asked, Private
<1>4. x = [m EXCEPT !.m_isDeploying = FALSE]
  BY <1>1 DEF Private
<1> HIDE DEF b, k, x
<1>5. /\ k \in Private
      /\ k.m_buildQueue = m.m_buildQueue /\ k.m_enabledState = m.m_enabledState
      /\ k.m_running = m.m_running /\ k.m_currentBuildStep = m.m_currentBuildStep
      /\ k.m_activeBuildSteps = m.m_activeBuildSteps
      /\ k.m_progress = m.m_progress
      /\ k.m_maxProgress = m.m_maxProgress
      /\ k.m_canceling = m.m_canceling /\ k.working = m.working
      /\ k.connected = m.connected /\ k.failed = fs /\ k.announced = n
      /\ k.m_scheduledBuild = m.m_scheduledBuild
  BY <1>1, <1>2, <1>3 DEF Private
<1>6. SameQueue([m EXCEPT !.failed = k.failed], k)
  BY <1>1, <1>5 DEF Private, SameQueue
<1>7. /\ x \in Private /\ Alike(m, x) /\ x.m_scheduledBuild = m.m_scheduledBuild
      /\ x.announced = m.announced
  BY <1>1, <1>4, Members DEF Private, Alike, SameQueue
<1>8. Typed(k) /\ Typed(x)
  BY <1>1, <1>5, <1>7, Privates DEF Typed, Alike, SameQueue
<1> QED
  BY <1>5, <1>6, <1>7, <1>8 DEF k, x, AreAsked

(* The events keep the invariant: the user builds,                          *)
LEMMA Builds ==
    ASSUME BInv, NEW request \in Requests, buildLists(request)
    PROVE  Types' /\ Holds(d, mishaps, removed)'
<1> DEFINE steps == request.steps
           asked == {ProjectOf(steps[i]) : i \in DOMAIN steps}
           m == [d EXCEPT !.m_isDeploying = @ \/ request.deploys]
           x == [m EXCEPT !.m_isDeploying = FALSE]
           n == IF isBuilding(d) THEN d.announced ELSE 0
           fs == {t \in d.failed : isBuilding(d) /\ project[t] \notin asked}
           k == Asked(d, request.deploys, n, fs)
           a == buildQueueAppend(k, steps)
           known == mishaps \cup IF Together(steps) THEN {} ELSE {"scattered"}
<1>1. Types /\ Holds(d, mishaps, removed)
  BY DEF BInv
<1>2. steps \in Seq(Steps) /\ steps # << >> /\ request.deploys \in BOOLEAN
  BY ConstantsAssumption
<1>3. /\ builds < MaxBuilds
      /\ \A p \in asked : p \notin removed /\ ~isBuildingProject(d, p)
      /\ builds' = builds + 1
      /\ \/ d' = x /\ UNCHANGED <<listeners, mishaps>>
         \/ Start(a, listeners, known)
      /\ UNCHANGED <<parsing, parsed, removed, abortBuildAllOnError, parses>>
  <2>1. d.m_isDeploying \in BOOLEAN /\ d \in Private
    BY <1>1, Typing, Privates DEF BuildManagerPrivate
  <2>2. k = [m EXCEPT !.announced = IF isBuilding(d) THEN @ ELSE 0,
                      !.failed = {t \in @ : isBuilding(d) /\ project[t] \notin asked}]
    BY <2>1 DEF Private, Asked
  <2> HIDE DEF k, x
  <2> QED
    BY <2>2, Zenon DEF buildLists, x
<1>4. /\ Typed(d) /\ d \in BuildManagerPrivate
      /\ parsing \in [Targets -> BOOLEAN] /\ listeners \in [Targets -> Nat]
      /\ parsed \in Seq(BOOLEAN) /\ removed \subseteq Projects
      /\ abortBuildAllOnError \in BOOLEAN /\ builds \in 0 .. MaxBuilds
      /\ parses \in 0 .. MaxParses /\ mishaps \subseteq Mishap
      /\ d.m_scheduledBuild # None => listeners[d.m_scheduledBuild] > 0
  BY <1>1, Typing
<1>5. n \in Nat /\ fs \in SUBSET Targets
  BY <1>4 DEF BuildManagerPrivate
<1>6. /\ Typed(k) /\ SameQueue([d EXCEPT !.failed = k.failed], k)
      /\ k.m_canceling = d.m_canceling /\ k.working = d.working
      /\ k.connected = d.connected /\ k.failed = fs /\ k.announced = n
      /\ k.m_scheduledBuild = d.m_scheduledBuild
      /\ k.m_activeBuildSteps = d.m_activeBuildSteps
      /\ k.m_buildQueue = d.m_buildQueue
      /\ Typed(x) /\ Alike(d, x) /\ x.m_scheduledBuild = d.m_scheduledBuild
      /\ x.announced = d.announced
  <2> HIDE DEF n, fs, k, x, m
  <2>1. AreAsked(d, request.deploys, n, fs)
    BY <1>2, <1>4, <1>5, Asks, Zenon
  <2> QED
    BY <2>1, Zenon DEF AreAsked, k, x, m
<1>7. /\ IsAppended(k, steps, a)
  <2> HIDE DEF k, steps
  <2> QED
    BY <1>2, <1>6, Appends
<1>8. builds' \in 0 .. MaxBuilds
  BY <1>3, <1>4, ConstantsAssumption
<1>9. known \in SUBSET Mishap
  BY <1>4 DEF Mishap
<1>10. CASE d' = x /\ UNCHANGED <<listeners, mishaps>>
  <2> HIDE DEF x
  <2>1. Types'
    BY <1>3, <1>4, <1>6, <1>8, <1>10, TypesPrimed
  <2>2. "abandoned" \notin mishaps => Sound(x, mishaps) /\ IsPutOff(x)
    <3>1. ASSUME "abandoned" \notin mishaps PROVE Sound(x, mishaps)
      BY <1>1, <1>6, <3>1, AlikeIsSound DEF Holds
    <3> QED
      BY <1>1, <1>6, <3>1 DEF Holds, IsPutOff, Alike, SameQueue
  <2>3. mishaps \cap {"abandoned", "overlapped"} = {} => OnlyPutOff(x)
    BY <1>1, <1>6 DEF Holds, OnlyPutOff, Alike, SameQueue
  <2>4. mishaps \subseteq {"scattered"} => x.announced = IF isBuilding(x) THEN 0 ELSE 1
    BY <1>1, <1>6 DEF Holds, isBuilding, Alike, SameQueue
  <2>5. mishaps \cap {"lateCancel", "abandoned"} = {} =>
           "crashed" \notin mishaps /\ \A p \in removed : x.m_activeBuildSteps[p] = 0
    BY <1>1, <1>6 DEF Holds, Alike, SameQueue
  <2>6. Holds(d', mishaps', removed')
    BY <1>3, <1>10, <2>2, <2>3, <2>4, <2>5 DEF Holds
  <2> QED
    BY <1>3, <2>1, <2>6, HoldsPrimed
<1>11. CASE Start(a, listeners, known)
  <2>1. Typed(a) /\ a.m_scheduledBuild = d.m_scheduledBuild
    BY <1>6, <1>7 DEF IsAppended
  <2>2. ASSUME "abandoned" \notin known PROVE Sound(a, known)
    <3>1. Sound(d, mishaps)
      BY <1>1, <2>2 DEF Holds
    <3>2. /\ k.failed \subseteq d.failed /\ \A t \in k.failed : project[t] \notin asked
          /\ \A p \in asked : ~isBuildingProject(d, p)
      BY <1>3, <1>6
    <3> HIDE DEF k, steps
    <3> QED
      BY <1>2, <1>6, <3>1, <3>2, AppendIsSound
  <2>3. ASSUME known \subseteq {"scattered"} PROVE a.m_buildQueue # << >> /\ a.announced = 0
    <3>1. mishaps \subseteq {"scattered"}
      BY <2>3
    <3>2. a.announced = 0
      BY <1>1, <1>6, <1>7, <3>1 DEF IsAppended, Holds
    <3>3. a.m_buildQueue = d.m_buildQueue \o steps /\ d.m_buildQueue \in Seq(Steps)
      BY <1>4, <1>6, <1>7 DEF IsAppended, BuildManagerPrivate
    <3> DEFINE q == d.m_buildQueue
    <3>4. a.m_buildQueue = q \o steps /\ q \in Seq(Steps)
      BY <3>3
    <3> HIDE DEF q, steps, a
    <3>5. q \o steps # << >>
      BY <1>2, <3>4
    <3> QED
      BY <3>2, <3>4, <3>5
  <2>4. ASSUME known \cap {"lateCancel", "abandoned"} = {}
        PROVE  "crashed" \notin known /\ \A p \in removed : a.m_activeBuildSteps[p] = 0
    <3>1. mishaps \cap {"lateCancel", "abandoned"} = {}
      BY <2>4
    <3>2. "crashed" \notin known
      BY <1>1, <3>1 DEF Holds
    <3>3. ASSUME NEW p \in removed PROVE a.m_activeBuildSteps[p] = 0
      <4>1. p \in Projects /\ d.m_activeBuildSteps[p] = 0
        BY <1>1, <1>4, <3>1, <3>3 DEF Holds
      <4>2. \A i \in DOMAIN steps : ProjectOf(steps[i]) # p
        BY <1>3, <3>3
      <4>3. Amount(steps, p) = 0
        BY <1>2, <4>1, <4>2, Amounts
      <4>4. a.m_activeBuildSteps[p] = d.m_activeBuildSteps[p] + Amount(steps, p)
        BY <1>6, <1>7, <4>1, Zenon DEF IsAppended
      <4> QED
        BY <4>1, <4>3, <4>4
    <3> QED
      BY <3>2, <3>3
  <2> HIDE DEF a, known
  <2>5. /\ Typed(d') /\ listeners' \in [Targets -> Nat] /\ mishaps' \subseteq Mishap
        /\ d'.m_scheduledBuild # None => listeners'[d'.m_scheduledBuild] > 0
    BY <1>4, <1>9, <1>11, <2>1, StartTypes
  <2>6. Types'
    BY <1>3, <1>4, <1>8, <2>5, TypesPrimed
  <2>7. Holds(d', mishaps', removed)
    BY <1>4, <1>11, <2>1, <2>2, <2>3, <2>4, StartHolds
  <2> QED
    BY <1>3, <2>6, <2>7, HoldsPrimed
<1> QED
  BY <1>3, <1>10, <1>11

(* or cancels,                                                              *)
LEMMA CancelHolds ==
    ASSUME BInv, cancel
    PROVE  Types' /\ Holds(d, mishaps, removed)'
<1>1. Types /\ Holds(d, mishaps, removed)
  BY DEF BInv
<1>2. /\ Typed(d) /\ d \in BuildManagerPrivate
      /\ parsing \in [Targets -> BOOLEAN] /\ listeners \in [Targets -> Nat]
      /\ parsed \in Seq(BOOLEAN) /\ removed \subseteq Projects
      /\ abortBuildAllOnError \in BOOLEAN /\ builds \in 0 .. MaxBuilds
      /\ parses \in 0 .. MaxParses /\ mishaps \subseteq Mishap
      /\ d.m_scheduledBuild \in Targets \cup {None}
  BY <1>1, Typing
<1>3. /\ isBuilding(d) /\ d' = Cancelled(d) /\ listeners' = Disconnected(d)
      /\ mishaps' = mishaps \cup Abandoned(d)
      /\ UNCHANGED <<parsing, parsed, removed, abortBuildAllOnError, builds, parses>>
  BY DEF cancel
<1>4. Typed(d') /\ d'.m_scheduledBuild = None
  BY <1>2, <1>3, CancelKeepsTypes
<1>5. listeners' \in [Targets -> Nat]
  <2>1. CASE d.m_scheduledBuild = None
    <3>1. None \notin Targets
      BY ConstantsAssumption
    <3> QED
      BY <1>2, <1>3, <2>1, <3>1 DEF Disconnected
  <2>2. CASE d.m_scheduledBuild # None
    BY <1>1, <1>3, <2>2, Disconnects
  <2> QED
    BY <2>1, <2>2
<1>6. mishaps' \subseteq Mishap
  BY <1>2, <1>3 DEF Abandoned, Mishap
<1>7. Types'
  BY <1>2, <1>3, <1>4, <1>5, <1>6, TypesPrimed
<1>8. CASE "abandoned" \in mishaps'
  <2>1. Holds(d', mishaps', removed')
    BY <1>8 DEF Holds
  <2> QED
    BY <1>3, <1>7, <2>1, HoldsPrimed
<1>9. CASE "abandoned" \notin mishaps'
  <2>1. /\ "abandoned" \notin mishaps /\ mishaps' = mishaps
        /\ ~(d.m_scheduledBuild # None /\ d.m_currentBuildStep # None)
    BY <1>3, <1>9 DEF Abandoned
  <2>2. Sound(d, mishaps) /\ IsPutOff(d)
    BY <1>1, <2>1 DEF Holds
  <2>3. /\ Sound(d', mishaps)
        /\ \/ Idle(d') /\ d'.announced = d.announced + 1
           \/ d'.m_running /\ d'.m_canceling /\ d'.announced = d.announced
        /\ \A p \in Projects : d.m_activeBuildSteps[p] = 0 => d'.m_activeBuildSteps[p] = 0
    BY <1>3, <2>1, <2>2, CancelSettles
  <2>4. IsPutOff(d') /\ OnlyPutOff(d')
    BY <1>4, <2>3 DEF IsPutOff, OnlyPutOff, Idle
  <2>5. mishaps \subseteq {"scattered"} => d'.announced = IF isBuilding(d') THEN 0 ELSE 1
    BY <1>1, <1>3, <2>3 DEF Holds, Idle, isBuilding
  <2>6. mishaps \cap {"lateCancel", "abandoned"} = {} =>
           "crashed" \notin mishaps /\ \A p \in removed : d'.m_activeBuildSteps[p] = 0
    BY <1>1, <1>2, <2>3 DEF Holds
  <2>7. Holds(d', mishaps', removed')
    BY <1>3, <2>1, <2>3, <2>4, <2>5, <2>6 DEF Holds
  <2> QED
    BY <1>3, <1>7, <2>7, HoldsPrimed
<1> QED
  BY <1>8, <1>9

(* a step ends,                                                             *)
LEMMA StepFinishes ==
    ASSUME BInv, NEW s \in Steps, NEW success \in BOOLEAN, StepFinished(s, success)
    PROVE  Types' /\ Holds(d, mishaps, removed)'
<1> DEFINE w == d.working \ {s}
           m == [d EXCEPT !.working = w]
<1>1. Types /\ Holds(d, mishaps, removed)
  BY DEF BInv
<1>2. /\ Typed(d) /\ d \in Private
      /\ parsing \in [Targets -> BOOLEAN] /\ listeners \in [Targets -> Nat]
      /\ parsed \in Seq(BOOLEAN) /\ removed \subseteq Projects
      /\ abortBuildAllOnError \in BOOLEAN /\ builds \in 0 .. MaxBuilds
      /\ parses \in 0 .. MaxParses /\ mishaps \subseteq Mishap
      /\ d.m_scheduledBuild # None => listeners[d.m_scheduledBuild] > 0
  BY <1>1, Typing, Privates
<1>3. /\ m = [d EXCEPT !.working = @ \ {s}]
      /\ s \in d.working
      /\ \/ s \notin d.connected /\ d' = m /\ mishaps' = mishaps
         \/ /\ s \in d.connected /\ d.m_currentBuildStep = None
            /\ d' = m /\ mishaps' = mishaps \cup {"crashed"}
         \/ /\ s \in d.connected /\ d.m_currentBuildStep # None
            /\ d' = finishedHandler(m, success) /\ mishaps' = mishaps
      /\ UNCHANGED <<parsing, listeners, parsed, removed, abortBuildAllOnError, builds, parses>>
  <2>1. m = [d EXCEPT !.working = @ \ {s}]
    BY <1>2 DEF Private
  <2> HIDE DEF m
  <2> QED
    BY <2>1 DEF StepFinished
<1>4. /\ Typed(m) /\ SameQueue(d, m) /\ m.working = w /\ m.connected = d.connected
      /\ m.m_canceling = d.m_canceling /\ m.announced = d.announced
      /\ m.m_scheduledBuild = d.m_scheduledBuild
  <2>1. w \in StepSets
    BY <1>2 DEF Private, StepSets
  <2> HIDE DEF w
  <2>2. /\ m \in Private /\ SameQueue(d, m) /\ m.working = w /\ m.connected = d.connected
        /\ m.m_canceling = d.m_canceling /\ m.announced = d.announced
        /\ m.m_scheduledBuild = d.m_scheduledBuild
    BY <1>2, <2>1 DEF Private, SameQueue
  <2> HIDE DEF m
  <2> QED
    BY <1>2, <2>2, Privates DEF Typed, SameQueue
<1> HIDE DEF m, w
<1>5. ASSUME d.m_currentBuildStep # None
      PROVE  /\ Typed(finishedHandler(m, success))
             /\ finishedHandler(m, success).m_scheduledBuild = d.m_scheduledBuild
  <2>1. m.m_currentBuildStep \in Steps
    BY <1>2, <1>4, <1>5 DEF Private, Currents, SameQueue
  <2> QED
    BY <1>4, <2>1, FinishKeepsTypes
<1>6. Typed(d') /\ d'.m_scheduledBuild = d.m_scheduledBuild
  BY <1>3, <1>4, <1>5
<1>7. mishaps \subseteq mishaps' /\ mishaps' \subseteq Mishap
  BY <1>2, <1>3 DEF Mishap
<1>8. Types'
  BY <1>2, <1>3, <1>6, <1>7, TypesPrimed
<1>9. CASE "abandoned" \in mishaps
  <2>1. Holds(d', mishaps', removed')
    BY <1>7, <1>9 DEF Holds
  <2> QED
    BY <1>3, <1>8, <2>1, HoldsPrimed
<1>10. CASE "abandoned" \notin mishaps
  <2>1. Sound(d, mishaps)
    BY <1>1, <1>10 DEF Holds
  <2>2. /\ s = d.m_currentBuildStep /\ s # None /\ d.working = {s} /\ d.connected = {s}
        /\ d.m_running
    BY <1>3, <2>1 DEF Sound, OneStepAtATime
  <2>3. d' = finishedHandler(m, success) /\ mishaps' = mishaps
    BY <1>3, <2>2
  <2>4. Agrees(m, mishaps)
    BY <1>4, <2>1, SameAgrees DEF Sound
  <2>5. Ending(m, mishaps)
    BY <1>4, <2>2, <2>4 DEF Ending, SameQueue, w
  <2>6. Settled(m, d', mishaps)
    BY <2>3, <2>5, FinishSettles
  <2>7. /\ Sound(d', mishaps) /\ (d'.m_running \/ Idle(d'))
        /\ d'.announced = d.announced + (IF d'.m_running THEN 0 ELSE 1)
        /\ \A p \in Projects : d.m_activeBuildSteps[p] = 0 => d'.m_activeBuildSteps[p] = 0
    BY <1>4, <2>6 DEF Settled, SameQueue
  <2>8. IsPutOff(d')
    BY <2>7 DEF IsPutOff, Idle
  <2>9. mishaps \cap {"abandoned", "overlapped"} = {} => OnlyPutOff(d')
    BY <1>1, <1>6, <2>2 DEF Holds, OnlyPutOff
  <2>10. mishaps \subseteq {"scattered"} => d'.announced = IF isBuilding(d') THEN 0 ELSE 1
    BY <1>1, <2>2, <2>7 DEF Holds, Idle, isBuilding
  <2>11. mishaps \cap {"lateCancel", "abandoned"} = {} =>
           "crashed" \notin mishaps /\ \A p \in removed : d'.m_activeBuildSteps[p] = 0
    BY <1>1, <1>2, <2>7 DEF Holds
  <2>12. Holds(d', mishaps', removed')
    BY <1>3, <2>3, <2>7, <2>8, <2>9, <2>10, <2>11 DEF Holds
  <2> QED
    BY <1>3, <1>8, <2>12, HoldsPrimed
<1> QED
  BY <1>9, <1>10

(* What concerns neither the BuildManager nor the projects keeps it,        *)
LEMMA SameHolds ==
    ASSUME Holds(d, mishaps, removed), d' = d, mishaps' = mishaps, removed' = removed,
           abortBuildAllOnError' = abortBuildAllOnError
    PROVE  Holds(d, mishaps, removed)'
<1>1. Holds(d', mishaps', removed')
  OBVIOUS
<1> QED
  BY <1>1, HoldsPrimed

(* like a build system that starts to parse                                 *)
LEMMA ParsingStarts ==
    ASSUME BInv, NEW t \in Targets, ParsingStarted(t)
    PROVE  Types' /\ Holds(d, mishaps, removed)'
<1>1. /\ parses < MaxParses /\ parsing' = [parsing EXCEPT ![t] = TRUE] /\ parses' = parses + 1
      /\ UNCHANGED <<d, listeners, parsed, removed, abortBuildAllOnError, builds, mishaps>>
  BY DEF ParsingStarted
<1>2. Types /\ Holds(d, mishaps, removed)
  BY DEF BInv
<1>3. parses' \in 0 .. MaxParses /\ parsing' \in [Targets -> BOOLEAN]
  BY <1>1, <1>2, Typing, ConstantsAssumption
<1>4. Types'
  BY <1>1, <1>2, <1>3, Typing, TypesPrimed
<1> QED
  BY <1>1, <1>2, <1>4, SameHolds

(* and one that has parsed;                                                 *)
LEMMA ParsingEnds ==
    ASSUME BInv, NEW t \in Targets, NEW success \in BOOLEAN, ParsingFinished(t, success)
    PROVE  Types' /\ Holds(d, mishaps, removed)'
<1>1. /\ parsing' = [parsing EXCEPT ![t] = FALSE]
      /\ parsed' = parsed \o [i \in 1 .. listeners[t] |-> success]
      /\ UNCHANGED <<d, listeners, removed, abortBuildAllOnError, builds, parses, mishaps>>
  BY DEF ParsingFinished
<1>2. Types /\ Holds(d, mishaps, removed)
  BY DEF BInv
<1>3. parsing' \in [Targets -> BOOLEAN]
  BY <1>1, <1>2, Typing
<1>4. parsed' \in Seq(BOOLEAN)
  <2> DEFINE B == BOOLEAN
             calls == [i \in 1 .. listeners[t] |-> success]
  <2>1. parsed \in Seq(B) /\ listeners[t] \in Nat /\ success \in B
    BY <1>2, Typing
  <2> HIDE DEF B
  <2>2. calls \in Seq(B)
    <3>1. calls \in [1 .. listeners[t] -> B]
      BY <2>1
    <3> HIDE DEF calls
    <3> QED
      BY <2>1, <3>1, SeqDef
  <2> HIDE DEF calls
  <2>3. parsed \o calls \in Seq(B)
    BY <2>1, <2>2
  <2> QED
    BY <1>1, <2>3 DEF B, calls
<1>5. Types'
  BY <1>1, <1>2, <1>3, <1>4, Typing, TypesPrimed
<1> QED
  BY <1>1, <1>2, <1>5, SameHolds

(* a build that was put off goes on, or is given up,                        *)
LEMMA ScheduledBuilds ==
    ASSUME BInv, ScheduledBuild
    PROVE  Types' /\ Holds(d, mishaps, removed)'
<1> DEFINE m == [d EXCEPT !.m_scheduledBuild = None]
<1>1. Types /\ Holds(d, mishaps, removed)
  BY DEF BInv
<1>2. /\ Typed(d) /\ d \in BuildManagerPrivate
      /\ parsing \in [Targets -> BOOLEAN] /\ listeners \in [Targets -> Nat]
      /\ parsed \in Seq(BOOLEAN) /\ removed \subseteq Projects
      /\ abortBuildAllOnError \in BOOLEAN /\ builds \in 0 .. MaxBuilds
      /\ parses \in 0 .. MaxParses /\ mishaps \subseteq Mishap
  BY <1>1, Typing
<1>3. /\ parsed # << >> /\ parsed' = Tail(parsed)
      /\ \/ d.m_scheduledBuild = None /\ UNCHANGED <<d, listeners, mishaps>>
         \/ d.m_scheduledBuild # None /\ Start(m, Disconnected(d), mishaps)
         \/ /\ d.m_scheduledBuild # None /\ d' = clearBuildQueue(m)
            /\ listeners' = Disconnected(d) /\ mishaps' = mishaps \cup Abandoned(d)
      /\ UNCHANGED <<parsing, removed, abortBuildAllOnError, builds, parses>>
  <2> HIDE DEF m
  <2> QED
    BY DEF ScheduledBuild, m
<1>4. parsed' \in Seq(BOOLEAN)
  <2> DEFINE B == BOOLEAN
  <2>1. parsed \in Seq(B) /\ parsed # << >>
    BY <1>2, <1>3
  <2> HIDE DEF B
  <2>2. Tail(parsed) \in Seq(B)
    BY <2>1
  <2> QED
    BY <1>3, <2>2 DEF B
<1>5. Typed(m) /\ Alike(d, m) /\ m.m_scheduledBuild = None /\ m.announced = d.announced
  BY <1>2, Scheduling
<1> HIDE DEF m
<1>6. CASE d.m_scheduledBuild = None /\ UNCHANGED <<d, listeners, mishaps>>
  <2>1. Types'
    BY <1>1, <1>2, <1>3, <1>4, <1>6, Typing, TypesPrimed
  <2> QED
    BY <1>1, <1>3, <1>6, <2>1, SameHolds
<1>7. ASSUME "abandoned" \notin mishaps PROVE Sound(m, mishaps)
  BY <1>1, <1>5, <1>7, AlikeIsSound DEF Holds
<1>8. ASSUME mishaps \subseteq {"scattered"}, d.m_scheduledBuild # None
      PROVE  m.m_buildQueue # << >> /\ ~m.m_running /\ m.announced = 0
  <2>1. /\ mishaps \cap {"abandoned", "overlapped"} = {} /\ OnlyPutOff(d)
        /\ d.announced = IF isBuilding(d) THEN 0 ELSE 1
    BY <1>1, <1>8 DEF Holds
  <2> QED
    BY <1>5, <1>8, <2>1 DEF OnlyPutOff, isBuilding, Alike, SameQueue
<1>9. ASSUME mishaps \cap {"lateCancel", "abandoned"} = {}
      PROVE  "crashed" \notin mishaps /\ \A p \in removed : m.m_activeBuildSteps[p] = 0
  BY <1>1, <1>5, <1>9 DEF Holds, Alike, SameQueue
<1>10. CASE d.m_scheduledBuild # None /\ Start(m, Disconnected(d), mishaps)
  <2>1. Disconnected(d) \in [Targets -> Nat]
    BY <1>1, <1>10, Disconnects
  <2>2. /\ Typed(d') /\ listeners' \in [Targets -> Nat] /\ mishaps' \subseteq Mishap
        /\ d'.m_scheduledBuild # None => listeners'[d'.m_scheduledBuild] > 0
    BY <1>2, <1>5, <1>10, <2>1, StartTypes
  <2>3. Types'
    BY <1>2, <1>3, <1>4, <2>2, TypesPrimed
  <2>4. Holds(d', mishaps', removed)
    BY <1>2, <1>5, <1>7, <1>8, <1>9, <1>10, StartHolds
  <2> QED
    BY <1>3, <2>3, <2>4, HoldsPrimed
<1>11. CASE /\ d.m_scheduledBuild # None /\ d' = clearBuildQueue(m)
            /\ listeners' = Disconnected(d) /\ mishaps' = mishaps \cup Abandoned(d)
  <2>1. IsCleared(m, d')
    BY <1>5, <1>11, ClearTypes DEF Typed
  <2>2. Typed(d') /\ d'.m_scheduledBuild = None
    BY <1>5, <2>1 DEF IsCleared
  <2>3. listeners' \in [Targets -> Nat]
    BY <1>1, <1>11, Disconnects
  <2>4. mishaps' \subseteq Mishap
    BY <1>2, <1>11 DEF Abandoned, Mishap
  <2>5. Types'
    BY <1>2, <1>3, <1>4, <2>2, <2>3, <2>4, TypesPrimed
  <2>6. CASE "abandoned" \in mishaps'
    <3>1. Holds(d', mishaps', removed')
      BY <2>6 DEF Holds
    <3> QED
      BY <1>3, <2>5, <3>1, HoldsPrimed
  <2>7. CASE "abandoned" \notin mishaps'
    <3>1. "abandoned" \notin mishaps /\ mishaps' = mishaps /\ d.m_currentBuildStep = None
      BY <1>11, <2>7 DEF Abandoned
    <3>2. Sound(m, mishaps) /\ m.m_currentBuildStep = None
      BY <1>5, <1>7, <3>1 DEF Alike, SameQueue
    <3>3. m.working = {} /\ m.connected = {} /\ ~m.m_canceling
      BY <3>2 DEF Sound, OneStepAtATime
    <3>4. \A p \in Projects : m.m_activeBuildSteps[p] = Amount(m.m_buildQueue, p)
      <4>1. \A p \in Projects : m.m_activeBuildSteps[p] = Amount(m.m_buildQueue, p) + 0
        BY <3>2 DEF Sound, Agrees, CountersAgree
      <4>2. \A p \in Projects : Amount(m.m_buildQueue, p) \in Nat
        BY <1>5, Amounts DEF Typed, BuildManagerPrivate
      <4> QED
        BY <4>1, <4>2
    <3>5. Idle(d') /\ d'.announced = m.announced + 1
      BY <1>5, <2>1, <3>3, <3>4, ClearIsIdle
    <3>6. Sound(d', mishaps)
      BY <2>2, <3>5, IdleIsSound
    <3>7. IsPutOff(d') /\ OnlyPutOff(d') /\ ~isBuilding(d')
      BY <2>2, <3>5 DEF IsPutOff, OnlyPutOff, isBuilding, Idle
    <3>8. mishaps \subseteq {"scattered"} => d'.announced = 1
      BY <1>8, <1>11, <3>5
    <3>9. mishaps \cap {"lateCancel", "abandoned"} = {} =>
             "crashed" \notin mishaps /\ \A p \in removed : d'.m_activeBuildSteps[p] = 0
      BY <1>2, <1>9, <3>5 DEF Idle
    <3>10. Holds(d', mishaps', removed')
      BY <1>3, <3>1, <3>6, <3>7, <3>8, <3>9 DEF Holds
    <3> QED
      BY <1>3, <2>5, <3>10, HoldsPrimed
  <2> QED
    BY <2>6, <2>7
<1> QED
  BY <1>3, <1>6, <1>10, <1>11

------------------------------------------------------------------------------
(* A project is removed: its steps no longer work, then it is forgotten.    *)
Without(m, p) == [m EXCEPT !.working = {s \in @ : ProjectOf(s) # p}]

Forgotten(m, p) ==
    [m EXCEPT !.connected = {s \in @ : ProjectOf(s) # p},
              !.m_scheduledBuild = IF @ # None /\ project[@] = p THEN None ELSE @]

(* Both change nothing of the queue.                                        *)
LEMMA Removes ==
    ASSUME NEW m, Typed(m), NEW p
    PROVE  LET n == Without(m, p)
               f == Forgotten(m, p)
           IN  /\ Typed(n) /\ SameQueue(m, n) /\ n.m_canceling = m.m_canceling
               /\ n.working = {s \in m.working : ProjectOf(s) # p}
               /\ n.connected = m.connected /\ n.announced = m.announced
               /\ n.m_scheduledBuild = m.m_scheduledBuild
               /\ Typed(f) /\ SameQueue(m, f) /\ f.m_canceling = m.m_canceling
               /\ f.working = m.working
               /\ f.connected = {s \in m.connected : ProjectOf(s) # p}
               /\ f.announced = m.announced
               /\ f.m_scheduledBuild = IF m.m_scheduledBuild # None
                                          /\ project[m.m_scheduledBuild] = p
                                       THEN None ELSE m.m_scheduledBuild
<1> DEFINE n == Without(m, p)
           f == Forgotten(m, p)
           w == {s \in m.working : ProjectOf(s) # p}
           c == {s \in m.connected : ProjectOf(s) # p}
           t == IF m.m_scheduledBuild # None /\ project[m.m_scheduledBuild] = p
                THEN None ELSE m.m_scheduledBuild
<1>1. m \in Private /\ Len(m.m_buildQueue) <= Len(m.m_enabledState)
  BY Privates DEF Typed
<1>2. w \in StepSets /\ c \in StepSets
  BY <1>1 DEF Private, StepSets
<1>3. t \in Schedules
  BY <1>1, Members DEF Private
<1>4. n = [m EXCEPT !.working = w]
  BY DEF Without
<1>5. f = [m EXCEPT !.connected = c, !.m_scheduledBuild = t]
  BY DEF Forgotten
<1> HIDE DEF n, f, w, c, t
<1>6. /\ n \in Private /\ SameQueue(m, n) /\ n.m_canceling = m.m_canceling
      /\ n.working = w /\ n.connected = m.connected /\ n.announced = m.announced
      /\ n.m_scheduledBuild = m.m_scheduledBuild
  BY <1>1, <1>2, <1>4 DEF Private, SameQueue
<1>7. /\ f \in Private /\ SameQueue(m, f) /\ f.m_canceling = m.m_canceling
      /\ f.working = m.working /\ f.connected = c /\ f.announced = m.announced
      /\ f.m_scheduledBuild = t
  BY <1>1, <1>2, <1>3, <1>5 DEF Private, SameQueue
<1>8. Typed(n) /\ Typed(f)
  BY <1>1, <1>6, <1>7, Privates DEF Typed, SameQueue
<1> QED
  BY <1>6, <1>7, <1>8 DEF n, f, w, c, t

(* The counter of a project tells whether it is being built.                *)
LEMMA ProjectIsBuilt ==
    ASSUME NEW m, NEW known, Sound(m, known), NEW p \in Projects
    PROVE  /\ isBuildingProject(m, p) => isBuilding(m)
           /\ ~isBuildingProject(m, p) =>
                 /\ m.m_activeBuildSteps[p] = 0
                 /\ \A i \in DOMAIN m.m_buildQueue : ProjectOf(m.m_buildQueue[i]) # p
                 /\ m.m_currentBuildStep # None => ProjectOf(m.m_currentBuildStep) # p
<1> DEFINE q == m.m_buildQueue
           s == m.m_currentBuildStep
           a == m.m_activeBuildSteps[p]
           c == Amount(q, p)
<1>1. q \in Seq(Steps)
  BY DEF Sound, Typed, BuildManagerPrivate
<1>2. a = c + (IF s # None /\ ProjectOf(s) = p THEN 1 ELSE 0)
  BY DEF Sound, Agrees, CountersAgree
<1>3. c \in Nat /\ (c = 0 <=> \A i \in DOMAIN q : ProjectOf(q[i]) # p)
  <2> HIDE DEF q
  <2> QED
    BY <1>1, Amounts
<1>4. /\ isBuildingProject(m, p) <=> a > 0
      /\ isBuilding(m) <=> q # << >> \/ m.m_running
      /\ m.m_running <=> s # None
  BY DEF isBuildingProject, isBuilding, Sound, OneStepAtATime
<1>5. ASSUME a > 0 PROVE isBuilding(m)
  <2>1. c > 0 \/ s # None
    <3> HIDE DEF a, c, s
    <3> QED
      BY <1>2, <1>3, <1>5
  <2>2. ASSUME c > 0 PROVE q # << >>
    <3> HIDE DEF c, q
    <3>1. ~(\A i \in DOMAIN q : ProjectOf(q[i]) # p)
      BY <1>3, <2>2
    <3> QED
      BY <3>1
  <2> QED
    BY <1>4, <2>1, <2>2
<1>6. ASSUME ~(a > 0) PROVE a = 0 /\ c = 0 /\ (s # None => ProjectOf(s) # p)
  <2> HIDE DEF a, c, s
  <2> QED
    BY <1>2, <1>3, <1>6
<1> QED
  BY <1>3, <1>4, <1>5, <1>6

(* and a project is removed: the counters tell what to cancel first.        *)
LEMMA ProjectsLeave ==
    ASSUME BInv, NEW p \in Projects, removeProject(p)
    PROVE  Types' /\ Holds(d, mishaps, removed)'
<1> DEFINE built == isBuildingProject(d, p)
           m == IF built THEN Cancelled(d) ELSE d
           dying == {s \in m.connected : ProjectOf(s) = p}
           lost == dying # {} /\ m.m_currentBuildStep = None
           n == Without(m, p)
           e == IF dying = {} \/ lost THEN n ELSE finishedHandler(n, FALSE)
           f == Forgotten(e, p)
           dangling == \/ \E i \in DOMAIN e.m_buildQueue : ProjectOf(e.m_buildQueue[i]) = p
                       \/ e.m_currentBuildStep # None /\ ProjectOf(e.m_currentBuildStep) = p
           known == IF built THEN Abandoned(d) ELSE {}
           late == IF built /\ m.m_canceling THEN {"lateCancel"} ELSE {}
           crash == IF lost \/ dangling THEN {"crashed"} ELSE {}
<1>1. Types /\ Holds(d, mishaps, removed)
  BY DEF BInv
<1>2. /\ Typed(d) /\ d \in BuildManagerPrivate
      /\ parsing \in [Targets -> BOOLEAN] /\ listeners \in [Targets -> Nat]
      /\ parsed \in Seq(BOOLEAN) /\ removed \subseteq Projects
      /\ abortBuildAllOnError \in BOOLEAN /\ builds \in 0 .. MaxBuilds
      /\ parses \in 0 .. MaxParses /\ mishaps \subseteq Mishap
      /\ d.m_scheduledBuild # None => listeners[d.m_scheduledBuild] > 0
      /\ d.m_scheduledBuild \in Targets \cup {None}
  BY <1>1, Typing
<1>3. /\ p \notin removed /\ removed' = removed \cup {p}
      /\ d' = f
      /\ parsing' = [t \in Targets |-> parsing[t] /\ project[t] # p]
      /\ listeners' = [t \in Targets |->
                         IF project[t] = p THEN 0
                         ELSE IF built THEN Disconnected(d)[t] ELSE listeners[t]]
      /\ mishaps' = mishaps \cup known \cup late \cup crash
      /\ UNCHANGED <<parsed, abortBuildAllOnError, builds, parses>>
  BY Zenon DEF removeProject, Without, Forgotten
<1>4. Typed(m) /\ (built => m.m_scheduledBuild = None) /\ (~built => m = d)
  BY <1>2, CancelKeepsTypes
<1> HIDE DEF m
<1>5. /\ Typed(n) /\ SameQueue(m, n) /\ n.m_canceling = m.m_canceling
      /\ n.working = {s \in m.working : ProjectOf(s) # p}
      /\ n.connected = m.connected /\ n.announced = m.announced
      /\ n.m_scheduledBuild = m.m_scheduledBuild
  BY <1>4, Removes
<1> HIDE DEF n
<1>6. Typed(e) /\ e.m_scheduledBuild = m.m_scheduledBuild
  <2>1. CASE dying = {} \/ lost
    BY <1>5, <2>1
  <2>2. CASE ~(dying = {} \/ lost)
    <3>1. n.m_currentBuildStep \in Steps
      BY <1>5, <2>2 DEF SameQueue, Typed, BuildManagerPrivate
    <3>2. e = finishedHandler(n, FALSE)
      BY <2>2
    <3> HIDE DEF e
    <3> QED
      BY <1>5, <3>1, <3>2, FinishKeepsTypes, Zenon
  <2> QED
    BY <2>1, <2>2
<1> HIDE DEF e, dying
<1>7. /\ Typed(f) /\ SameQueue(e, f) /\ f.m_canceling = e.m_canceling
      /\ f.working = e.working
      /\ f.connected = {s \in e.connected : ProjectOf(s) # p}
      /\ f.announced = e.announced
      /\ f.m_scheduledBuild = IF e.m_scheduledBuild # None /\ project[e.m_scheduledBuild] = p
                              THEN None ELSE e.m_scheduledBuild
  BY <1>6, Removes
<1> HIDE DEF f
<1>8. Types'
  <2>1. listeners' \in [Targets -> Nat]
    <3>1. Disconnected(d) \in [Targets -> Nat]
      <4>1. CASE d.m_scheduledBuild = None
        <5>1. None \notin Targets
          BY ConstantsAssumption
        <5> QED
          BY <1>2, <4>1, <5>1 DEF Disconnected
      <4>2. CASE d.m_scheduledBuild # None
        BY <1>1, <4>2, Disconnects
      <4> QED
        BY <4>1, <4>2
    <3> QED
      BY <1>2, <1>3, <3>1
  <2>2. ASSUME d'.m_scheduledBuild # None PROVE listeners'[d'.m_scheduledBuild] > 0
    <3> DEFINE t == d'.m_scheduledBuild
    <3>1. t = m.m_scheduledBuild /\ project[t] # p /\ t # None
      BY <1>3, <1>6, <1>7, <2>2
    <3>2. ~built /\ m = d
      BY <1>4, <3>1
    <3>3. t \in Targets /\ listeners[t] > 0
      BY <1>2, <3>1, <3>2
    <3> HIDE DEF built
    <3> QED
      BY <1>3, <3>1, <3>2, <3>3
  <2>3. parsing' \in [Targets -> BOOLEAN]
    BY <1>2, <1>3
  <2>4. mishaps' \subseteq Mishap
    BY <1>2, <1>3 DEF Abandoned, Mishap
  <2>5. removed' \subseteq Projects
    BY <1>2, <1>3
  <2> QED
    BY <1>2, <1>3, <1>7, <2>1, <2>2, <2>3, <2>4, <2>5, TypesPrimed
<1>9. CASE "abandoned" \in mishaps'
  <2>1. Holds(d', mishaps', removed')
    BY <1>9 DEF Holds
  <2> QED
    BY <1>3, <1>8, <2>1, HoldsPrimed
<1>10. CASE "abandoned" \notin mishaps'
  <2>1. "abandoned" \notin mishaps /\ known = {} /\ mishaps \subseteq mishaps'
    BY <1>3, <1>10 DEF Abandoned
  <2>2. Sound(d, mishaps) /\ IsPutOff(d)
    BY <1>1, <2>1 DEF Holds
  <2>3. /\ built => isBuilding(d)
        /\ ~built => /\ d.m_activeBuildSteps[p] = 0
                     /\ \A i \in DOMAIN d.m_buildQueue : ProjectOf(d.m_buildQueue[i]) # p
                     /\ d.m_currentBuildStep # None => ProjectOf(d.m_currentBuildStep) # p
    BY <2>2, ProjectIsBuilt
  <2>4. CASE ~built
    <3>1. m = d
      BY <1>4, <2>4
    <3>2. d.connected = d.working /\ \A s \in d.working : ProjectOf(s) # p
      BY <2>2, <2>3, <2>4 DEF Sound, OneStepAtATime
    <3>3. dying = {}
      BY <3>1, <3>2 DEF dying
    <3>4. e = n
      BY <3>3 DEF e
    <3>a. /\ SameQueue(d, n) /\ n.m_canceling = d.m_canceling /\ n.announced = d.announced
          /\ n.working = {s \in d.working : ProjectOf(s) # p} /\ n.connected = d.connected
      BY <1>5, <3>1
    <3>b. /\ SameQueue(n, d') /\ d'.m_canceling = n.m_canceling /\ d'.announced = n.announced
          /\ d'.working = n.working
          /\ d'.connected = {s \in n.connected : ProjectOf(s) # p}
      BY <1>3, <1>7, <3>4
    <3>c. d'.working = d.working /\ d'.connected = d.connected
      BY <3>2, <3>a, <3>b
    <3>5. Alike(d, d') /\ d'.announced = d.announced
      BY <3>a, <3>b, <3>c DEF Alike, SameQueue
    <3>6. Sound(d', mishaps')
      BY <1>3, <1>7, <2>1, <2>2, <3>5, AlikeIsSound
    <3>7. d'.m_scheduledBuild = IF d.m_scheduledBuild # None /\ project[d.m_scheduledBuild] = p
                                THEN None ELSE d.m_scheduledBuild
      BY <1>3, <1>6, <1>7, <3>1
    <3>8. IsPutOff(d')
      <4> SUFFICES ASSUME ~d'.m_running, d'.m_buildQueue # << >>
                   PROVE  \E i \in DOMAIN d'.m_buildQueue :
                             target[d'.m_buildQueue[i]] = d'.m_scheduledBuild
        BY DEF IsPutOff
      <4>1. PICK i \in DOMAIN d.m_buildQueue : target[d.m_buildQueue[i]] = d.m_scheduledBuild
        BY <2>2, <3>5 DEF IsPutOff, Alike, SameQueue
      <4>2. project[d.m_scheduledBuild] # p
        BY <2>3, <2>4, <4>1 DEF ProjectOf
      <4> QED
        BY <3>5, <3>7, <4>1, <4>2 DEF Alike, SameQueue
    <3>9. mishaps' = mishaps
      <4>1. late = {}
        BY <2>4
      <4>2. crash = {}
        <5>1. e.m_buildQueue = d.m_buildQueue /\ e.m_currentBuildStep = d.m_currentBuildStep
          BY <1>5, <3>1, <3>4 DEF SameQueue
        <5> QED
          BY <2>3, <2>4, <3>3, <5>1
      <4> QED
        BY <1>3, <2>1, <4>1, <4>2
    <3>10. mishaps \cap {"abandoned", "overlapped"} = {} => OnlyPutOff(d')
      BY <1>1, <3>5, <3>7 DEF Holds, OnlyPutOff, Alike, SameQueue
    <3>11. mishaps \subseteq {"scattered"} => d'.announced = IF isBuilding(d') THEN 0 ELSE 1
      BY <1>1, <3>5 DEF Holds, isBuilding, Alike, SameQueue
    <3>12. mishaps \cap {"lateCancel", "abandoned"} = {} =>
              "crashed" \notin mishaps /\ \A r \in removed' : d'.m_activeBuildSteps[r] = 0
      BY <1>1, <1>3, <2>3, <2>4, <3>5 DEF Holds, Alike, SameQueue
    <3>13. Holds(d', mishaps', removed')
      BY <3>6, <3>8, <3>9, <3>10, <3>11, <3>12 DEF Holds
    <3> QED
      BY <1>3, <1>8, <3>13, HoldsPrimed
  <2>5. CASE built
    <3>1. ~(d.m_scheduledBuild # None /\ d.m_currentBuildStep # None)
      BY <2>1, <2>5 DEF Abandoned
    <3>2. /\ Sound(m, mishaps) /\ m.m_scheduledBuild = None
          /\ \/ Idle(m) /\ m.announced = d.announced + 1
             \/ m.m_running /\ m.m_canceling /\ m.announced = d.announced
          /\ \A r \in Projects : d.m_activeBuildSteps[r] = 0 => m.m_activeBuildSteps[r] = 0
      BY <2>2, <2>3, <2>5, <3>1, CancelSettles DEF m
    <3>3. d'.m_scheduledBuild = None
      BY <1>3, <1>6, <1>7, <3>2
    <3>4. CASE Idle(m) /\ m.announced = d.announced + 1
      <4>1. dying = {}
        BY <3>4 DEF dying, Idle
      <4>2. e = n
        BY <4>1 DEF e
      <4>3. Alike(m, d') /\ d'.announced = m.announced
        BY <1>3, <1>5, <1>7, <3>4, <4>2 DEF Idle, Alike, SameQueue
      <4>4. Idle(d')
        BY <3>4, <4>3 DEF Idle, Alike, SameQueue
      <4>5. Sound(d', mishaps')
        BY <1>3, <1>7, <4>4, IdleIsSound
      <4>6. mishaps' = mishaps
        <5>1. late = {}
          BY <3>4 DEF Idle
        <5>2. crash = {}
          <6>1. e.m_buildQueue = << >> /\ e.m_currentBuildStep = None
            BY <1>5, <3>4, <4>2 DEF SameQueue, Idle
          <6>2. ~lost /\ ~dangling
            BY <4>1, <6>1
          <6> QED
            BY <6>2
        <5> QED
          BY <1>3, <2>1, <5>1, <5>2
      <4>7. IsPutOff(d') /\ OnlyPutOff(d') /\ ~isBuilding(d')
        BY <3>3, <4>4 DEF IsPutOff, OnlyPutOff, isBuilding, Idle
      <4>8. mishaps \subseteq {"scattered"} => d'.announced = 1
        BY <1>1, <2>3, <2>5, <3>4, <4>3 DEF Holds
      <4>9. mishaps \cap {"lateCancel", "abandoned"} = {} =>
               "crashed" \notin mishaps /\ \A r \in removed' : d'.m_activeBuildSteps[r] = 0
        BY <1>1, <1>2, <1>3, <4>4 DEF Holds, Idle
      <4>10. Holds(d', mishaps', removed')
        BY <4>5, <4>6, <4>7, <4>8, <4>9 DEF Holds
      <4> QED
        BY <1>3, <1>8, <4>10, HoldsPrimed
    <3>5. CASE m.m_running /\ m.m_canceling
      <4>1. "lateCancel" \in mishaps'
        BY <1>3, <2>5, <3>5
      <4>2. /\ m.m_currentBuildStep # None /\ m.working = {m.m_currentBuildStep}
            /\ m.connected = {m.m_currentBuildStep}
        BY <3>2, <3>5 DEF Sound, OneStepAtATime
      <4>3. Sound(d', mishaps') /\ IsPutOff(d')
        <5>1. CASE ProjectOf(m.m_currentBuildStep) # p
          <6>1. dying = {}
            BY <4>2, <5>1 DEF dying
          <6>2. e = n
            BY <6>1 DEF e
          <6>3. Alike(m, d')
            BY <1>3, <1>5, <1>7, <4>2, <5>1, <6>2 DEF Alike, SameQueue
          <6>4. Sound(d', mishaps')
            BY <1>3, <1>7, <2>1, <3>2, <6>3, AlikeIsSound
          <6>5. IsPutOff(d')
            BY <3>5, <6>3 DEF IsPutOff, Alike, SameQueue
          <6> QED
            BY <6>4, <6>5
        <5>2. CASE ProjectOf(m.m_currentBuildStep) = p
          <6>1. dying # {} /\ ~lost
            BY <4>2, <5>2 DEF dying
          <6>2. e = finishedHandler(n, FALSE)
            BY <6>1 DEF e
          <6>3. n.working = {}
            BY <1>5, <4>2, <5>2
          <6>4. Agrees(n, mishaps)
            BY <1>5, <3>2, SameAgrees DEF Sound
          <6>5. Ending(n, mishaps)
            BY <1>5, <3>5, <4>2, <6>3, <6>4 DEF Ending, SameQueue
          <6>6. Idle(e)
            BY <1>5, <3>5, <6>2, <6>5, FinishSettles
          <6>7. Idle(d')
            BY <1>3, <1>7, <6>6 DEF Idle, SameQueue
          <6>8. Sound(d', mishaps')
            BY <1>3, <1>7, <6>7, IdleIsSound
          <6> QED
            BY <6>7, <6>8 DEF IsPutOff, Idle
        <5> QED
          BY <5>1, <5>2
      <4>4. OnlyPutOff(d')
        BY <3>3 DEF OnlyPutOff
      <4>5. Holds(d', mishaps', removed')
        BY <4>1, <4>3, <4>4 DEF Holds
      <4> QED
        BY <1>3, <1>8, <4>5, HoldsPrimed
    <3> QED
      BY <3>2, <3>4, <3>5
  <2> QED
    BY <2>4, <2>5
<1> QED
  BY <1>9, <1>10

------------------------------------------------------------------------------
(* BInv is inductive, and so it holds.                                      *)
LEMMA BuildsStart ==
    ASSUME Init
    PROVE  BInv
<1> DEFINE B == BOOLEAN
<1>1. << >> \in Seq(Steps) /\ << >> \in Seq(BOOLEAN) /\ Len(<< >>) = 0
  OBVIOUS
<1>2. /\ d = [m_buildQueue |-> << >>, m_enabledState |-> << >>,
              m_running |-> FALSE, m_isDeploying |-> FALSE, m_canceling |-> FALSE,
              m_allStepsSucceeded |-> TRUE, m_currentBuildStep |-> None,
              m_activeBuildSteps |-> [p \in Projects |-> 0],
              m_progress |-> 0, m_maxProgress |-> 0, m_scheduledBuild |-> None,
              working |-> {}, connected |-> {}, failed |-> {}, announced |-> 1]
      /\ parsing \in [Targets -> BOOLEAN]
      /\ listeners = [t \in Targets |-> 0] /\ parsed = << >>
      /\ removed = {} /\ abortBuildAllOnError \in BOOLEAN
      /\ builds = 0 /\ parses = 0 /\ mishaps = {}
  BY DEF Init
<1>3. d \in Private
  <2>1. [p \in Projects |-> 0] \in Counters /\ 1 \in Numbers
        /\ {} \in StepSets /\ {} \in TargetSets
    BY DEF Counters, Numbers, StepSets, TargetSets
  <2> QED
    BY <1>2, <2>1, Members DEF Private
<1>4. Typed(d)
  BY <1>1, <1>2, <1>3, Privates DEF Typed
<1>5. Idle(d)
  BY <1>2 DEF Idle
<1>6. Sound(d, mishaps)
  BY <1>4, <1>5, IdleIsSound
<1>7. Holds(d, mishaps, removed)
  BY <1>2, <1>6 DEF Holds, IsPutOff, OnlyPutOff, isBuilding
<1>8. Types
  <2>1. d \in BuildManagerPrivate /\ d.m_scheduledBuild = None
    BY <1>2, <1>3, Privates
  <2>2. listeners \in [Targets -> Nat] /\ parsed \in Seq(BOOLEAN)
    BY <1>2
  <2>3. builds \in 0 .. MaxBuilds /\ parses \in 0 .. MaxParses
    BY <1>2, ConstantsAssumption
  <2> QED
    BY <1>2, <1>4, <2>1, <2>2, <2>3 DEF Types, TypeOK
<1> QED
  BY <1>7, <1>8 DEF BInv

LEMMA BuildsGoOn ==
    ASSUME BInv, [Next]_vars
    PROVE  BInv'
<1>1. Types /\ Holds(d, mishaps, removed)
  BY DEF BInv
<1>2. ASSUME NEW r \in Requests, buildLists(r) PROVE Types' /\ Holds(d, mishaps, removed)'
  BY <1>2, Builds
<1>3. ASSUME cancel PROVE Types' /\ Holds(d, mishaps, removed)'
  BY <1>3, CancelHolds
<1>4. ASSUME NEW s \in Steps, NEW b \in BOOLEAN, StepFinished(s, b)
      PROVE  Types' /\ Holds(d, mishaps, removed)'
  BY <1>4, StepFinishes
<1>5. ASSUME NEW t \in Targets, ParsingStarted(t) PROVE Types' /\ Holds(d, mishaps, removed)'
  BY <1>5, ParsingStarts
<1>6. ASSUME NEW t \in Targets, NEW b \in BOOLEAN, ParsingFinished(t, b)
      PROVE  Types' /\ Holds(d, mishaps, removed)'
  BY <1>6, ParsingEnds
<1>7. ASSUME ScheduledBuild PROVE Types' /\ Holds(d, mishaps, removed)'
  BY <1>7, ScheduledBuilds
<1>8. ASSUME NEW p \in Projects, removeProject(p) PROVE Types' /\ Holds(d, mishaps, removed)'
  BY <1>8, ProjectsLeave
<1>9. ASSUME UNCHANGED vars PROVE Types' /\ Holds(d, mishaps, removed)'
  <2>1. UNCHANGED <<d, parsing, listeners, parsed, removed, abortBuildAllOnError,
                    builds, parses, mishaps>>
    BY <1>9 DEF vars
  <2>2. Types'
    BY <1>1, <2>1, Typing, TypesPrimed
  <2> QED
    BY <1>1, <2>1, <2>2, SameHolds
<1>10. Types' /\ Holds(d, mishaps, removed)'
  BY <1>2, <1>3, <1>4, <1>5, <1>6, <1>7, <1>8, <1>9 DEF Next
<1> QED
  BY <1>10 DEF BInv

LEMMA BuildsHold == Spec => []BInv
  BY BuildsStart, BuildsGoOn, PTL DEF Spec

(* Queue, counters, flags and progress of the BuildManager agree, and one   *)
(* step works at a time, however builds are added, put off, fail, are       *)
(* cancelled or lose their project: by BInv, whose part Sound says the same *)
(* of the queue between the calls of an event.                              *)
THEOREM Agreement == Spec => []StaysInStep
<1>1. BInv => StaysInStep
  BY DEF BInv, Types, Holds, Sound, Agrees, StaysInStep
<1> QED
  BY <1>1, BuildsHold, PTL

(* buildQueueFinished() is emitted once when the queue has come to its end, *)
(* and not before: no way out of a build misses it or takes it twice.       *)
THEOREM ToldOnce == Spec => []AnnouncedOnce
<1>1. BInv => AnnouncedOnce
  BY DEF BInv, Holds, AnnouncedOnce
<1> QED
  BY <1>1, BuildsHold, PTL

(* A project that is removed leaves nothing behind: the counters of Sound   *)
(* are what decides whether its build is cancelled first.                   *)
THEOREM NothingIsLeft == Spec => []RemovedIsGone
<1>1. BInv => RemovedIsGone
  BY DEF BInv, Holds, RemovedIsGone
<1> QED
  BY <1>1, BuildsHold, PTL
==============================================================================
