---------------------------- MODULE MapReduceProofs ----------------------------
(***************************************************************************)
(* The safety properties of MapReduce, proved for any number of items and  *)
(* threads, for both options, with a cancellation at any time.             *)
(***************************************************************************)
EXTENDS MapReduce, TLAPS, FiniteSetTheorems

Reduced(i) == \E k \in 1 .. Len(reduced) : reduced[k] = i

(* The thread is in mapFinished(), and has not reduced its results yet.    *)
Holding == pc \in {"schedule", "reduce"} /\ current # None

(* Where a map is: what is watched has been scheduled, a job that is not   *)
(* finished is watched, and an event tells of a finished job.              *)
Watched ==
    /\ \A i \in m_mapWatcher : i < m_currentIndex
    /\ \A i \in Index : job[i] = "none" <=> i >= m_currentIndex
    /\ \A i \in Index : job[i] \in {"queued", "running"} => i \in m_mapWatcher
    /\ \A k \in 1 .. Len(events) : events[k] # Canceled => job[events[k]] = "finished"
    /\ pc = "start" => events = << >>
    /\ pc \in {"start", "construct", "exec"} => m_mapWatcher = {} /\ current = None /\ ~didSchedule
    /\ pc \in {"loop", "cleanup"} => current = None
    /\ pc \in {"reduce", "drain", "finish"} => current # None
    /\ pc = "schedule" /\ current = None /\ ~didSchedule => m_mapWatcher = {}
    /\ pc \in {"cleanup", "ended"} => m_mapWatcher = {}
    /\ current # None => job[current] = "finished" /\ current \notin m_mapWatcher

(* The end of a map is told once, and only as long as it is watched.       *)
Told ==
    /\ \A k \in 1 .. Len(events) : events[k] # Canceled => events[k] \in m_mapWatcher
    /\ \A k, l \in 1 .. Len(events) :
          events[k] = events[l] /\ events[k] # Canceled => k = l

(* Nothing is stopped half way in an operation that is not canceled.       *)
Whole ==
    /\ \A k \in 1 .. Len(events) : events[k] = Canceled => canceled
    /\ \A i \in Index : jobCanceled[i] => canceled
    /\ \A i \in Index : job[i] = "finished" /\ ~jobCanceled[i] => results[i] = "all"
    /\ Holding => results[current] = "all"
    /\ \A i \in m_pendingResults : results[i] = "all"
    /\ OnlyWholeResults

(* Which results are in m_pendingResults, and which have been reduced.     *)
Placed ==
    /\ InOrder
    /\ m_option = "Ordered" => Len(reduced) = m_nextIndex
    /\ \A k \in 1 .. Len(reduced) : reduced[k] \notin m_mapWatcher /\ job[reduced[k]] = "finished"
    /\ \A i \in m_pendingResults : i \notin m_mapWatcher /\ job[i] = "finished" /\ ~Reduced(i)
    /\ Holding => ~Reduced(current) /\ current \notin m_pendingResults
    /\ pc # "drain" => m_nextIndex \notin m_pendingResults
    /\ pc = "drain" => m_option = "Ordered"
    /\ m_option = "Unordered" => m_pendingResults = {}

(* Every item that was scheduled is watched, in hand, pending or reduced,  *)
(* and nothing is forgotten when the loop is left.                         *)
Complete ==
    ~canceled =>
       /\ \A i \in Index : i < m_currentIndex =>
             \/ i \in m_mapWatcher \/ (Holding /\ i = current)
             \/ i \in m_pendingResults \/ Reduced(i)
       /\ pc \in {"reduce", "drain", "finish"} => ~MaySchedule
       /\ pc \in {"cleanup", "ended"} => m_currentIndex = size
       /\ pc = "ended" => cleanedUp

IInv == TypeOK /\ Watched /\ Told /\ Whole /\ Placed /\ Complete
-----------------------------------------------------------------------------
LEMMA Starts == Init => IInv
<1> SUFFICES ASSUME Init PROVE IInv
  OBVIOUS
<1> USE ConstantsAssumption DEF Init, Index, None, Canceled
<1>1. TypeOK
  <2>1. << >> \in Seq(Index \cup {Canceled}) /\ << >> \in Seq(Index)
    OBVIOUS
  <2>2. size \in Index \cup {None} /\ 0 \in 0 .. size
    OBVIOUS
  <2> QED
    BY <2>1, <2>2 DEF TypeOK
<1>2. Watched
  BY DEF Watched
<1>6. Told
  BY DEF Told
<1>3. Whole
  BY DEF Whole, OnlyWholeResults, Holding
<1>4. Placed
  BY DEF Placed, InOrder, Holding, Reduced
<1>5. Complete
  BY DEF Complete, Holding
<1> QED
  BY <1>1, <1>2, <1>3, <1>4, <1>5, <1>6 DEF IInv

(* A job that finishes posts one event, the last one.                      *)
LEMMA Posted ==
  ASSUME NEW S, NEW s \in Seq(S), NEW e \in S
  PROVE  /\ Append(s, e) \in Seq(S) /\ Len(Append(s, e)) = Len(s) + 1
         /\ \A k \in 1 .. Len(s) : Append(s, e)[k] = s[k]
         /\ Append(s, e)[Len(s) + 1] = e
  OBVIOUS

LEMMA Taken ==
  ASSUME NEW S, NEW s \in Seq(S), s # << >>
  PROVE  /\ Head(s) = s[1] /\ Head(s) \in S /\ Tail(s) \in Seq(S)
         /\ Len(s) > 0 /\ Len(Tail(s)) = Len(s) - 1
         /\ \A k \in 1 .. Len(Tail(s)) : Tail(s)[k] = s[k + 1]
  OBVIOUS

(* What is reduced once one more is.                                       *)
LEMMA Grows ==
  ASSUME TypeOK, NEW x \in Index, reduced' = Append(reduced, x)
  PROVE  /\ \A i : Reduced(i)' <=> Reduced(i) \/ i = x
         /\ Len(reduced') = Len(reduced) + 1
         /\ reduced'[Len(reduced) + 1] = x
         /\ \A k \in 1 .. Len(reduced) : reduced'[k] = reduced[k]
<1>1. reduced \in Seq(Index)
  BY DEF TypeOK
<1>2. /\ Len(reduced') = Len(reduced) + 1 /\ reduced'[Len(reduced) + 1] = x
      /\ \A k \in 1 .. Len(reduced) : reduced'[k] = reduced[k]
  BY <1>1, Posted
<1>3. Len(reduced) \in Nat
  BY <1>1
<1> QED
  BY <1>2, <1>3 DEF Reduced

(* One more whole result leaves all of them whole.                         *)
LEMMA WholeGrows ==
  ASSUME TypeOK, OnlyWholeResults, NEW x \in Index, reduced' = Append(reduced, x),
         results[x] = "all", results' = results
  PROVE  OnlyWholeResults'
<1>1. /\ Len(reduced') = Len(reduced) + 1 /\ reduced'[Len(reduced) + 1] = x
      /\ \A k \in 1 .. Len(reduced) : reduced'[k] = reduced[k]
  BY Grows
<1>2. Len(reduced) \in Nat
  BY DEF TypeOK
<1> QED
  BY <1>1, <1>2 DEF OnlyWholeResults

(* The next one, and no other, may be reduced where the order counts.      *)
LEMMA OrderGrows ==
  ASSUME TypeOK, InOrder, NEW x \in Index, reduced' = Append(reduced, x), ~Reduced(x),
         m_option = "Ordered" => Len(reduced) = x, m_option' = m_option
  PROVE  InOrder'
<1>1. /\ Len(reduced') = Len(reduced) + 1 /\ reduced'[Len(reduced) + 1] = x
      /\ \A k \in 1 .. Len(reduced) : reduced'[k] = reduced[k]
  BY Grows
<1>2. Len(reduced) \in Nat
  BY DEF TypeOK
<1>3. \A k \in 1 .. Len(reduced) : reduced[k] # x
  BY DEF Reduced
<1> QED
  BY <1>1, <1>2, <1>3 DEF InOrder

(* Only items are reduced.                                                 *)
LEMMA ReducedTyped ==
  ASSUME TypeOK
  PROVE  \A k \in 1 .. Len(reduced) : reduced[k] \in Index
  BY DEF TypeOK

(* Types.                                                                  *)
LEMMA TypeSteps == IInv /\ [Next]_vars => TypeOK'
<1> SUFFICES ASSUME IInv, [Next]_vars PROVE TypeOK'
  OBVIOUS
<1> USE ConstantsAssumption DEF IInv, TypeOK, Index, None, Canceled
<1>1. CASE UNCHANGED vars
  BY <1>1 DEF vars, operationVars, jobVars
<1>2. CASE run
  BY <1>2 DEF run, GoTo, operationVars, jobVars
<1>3. CASE MapReduceBase
  <2>1. << >> \in Seq(Index \cup {Canceled}) /\ <<Canceled>> \in Seq(Index \cup {Canceled})
    OBVIOUS
  <2> QED
    BY <1>3, <2>1 DEF MapReduceBase, GoTo, operationVars, jobVars
<1>4. CASE exec
  BY <1>4 DEF exec, GoTo, operationVars, jobVars
<1>5. CASE schedule
  BY <1>5 DEF schedule, MaySchedule, jobVars
<1>6. CASE scheduled
  BY <1>6 DEF scheduled, GoTo, operationVars, jobVars
<1>7. CASE cancelAll
  BY <1>7 DEF cancelAll, operationVars
<1>8. ASSUME NEW i \in Index, mapFinished(i) PROVE TypeOK'
  <2>1. Tail(events) \in Seq(Index \cup {Canceled})
    BY <1>8, Taken DEF mapFinished
  <2> QED
    BY <1>8, <2>1 DEF mapFinished, operationVars, jobVars
<1>9. CASE reduceUnordered
  <2>1. current \in Index
    BY <1>9 DEF reduceUnordered, GoTo, Watched
  <2> QED
    BY <1>9, <2>1 DEF reduceUnordered, GoTo, operationVars, jobVars
<1>10. CASE reduceNext
  <2>1. current \in Index
    BY <1>10 DEF reduceNext, GoTo, Watched
  <2> QED
    BY <1>10, <2>1 DEF reduceNext, GoTo, operationVars, jobVars
<1>11. CASE reducePending
  BY <1>11 DEF reducePending, jobVars
<1>12. CASE reducedPending
  BY <1>12 DEF reducedPending, GoTo, operationVars, jobVars
<1>13. CASE reduceLater
  <2>1. current \in Index
    BY <1>13 DEF reduceLater, GoTo, Watched
  <2> QED
    BY <1>13, <2>1 DEF reduceLater, GoTo, operationVars, jobVars
<1>14. CASE deleteWatcher
  BY <1>14 DEF deleteWatcher, GoTo, jobVars
<1>15. CASE cleanup
  BY <1>15 DEF cleanup, GoTo, jobVars
<1>16. ASSUME NEW i \in Index, runJob(i) PROVE TypeOK'
  <2>1. Append(events, i) \in Seq(Index \cup {Canceled})
    BY Posted
  <2>2. job' \in [Index -> {"none", "queued", "running", "finished"}]
    BY <1>16 DEF runJob, reportFinished
  <2>3. events' \in Seq(Index \cup {Canceled})
    BY <1>16, <2>1 DEF runJob, reportFinished
  <2> QED
    BY <1>16, <2>2, <2>3 DEF runJob, operationVars
<1>17. ASSUME NEW i \in Index, mapReturns(i) PROVE TypeOK'
  BY <1>17 DEF mapReturns, reportFinished, operationVars
<1>18. ASSUME NEW i \in Index, reportResult(i) PROVE TypeOK'
  BY <1>18 DEF reportResult, operationVars
<1>19. CASE cancel
  BY <1>19 DEF cancel, operationVars, jobVars
<1> QED
  BY <1>1, <1>2, <1>3, <1>4, <1>5, <1>6, <1>7, <1>8, <1>9, <1>10, <1>11, <1>12, <1>13, <1>14,
     <1>15, <1>16, <1>17, <1>18, <1>19 DEF Next, Operation, Returns

(* What is watched stays in step with the jobs.                            *)
LEMMA WatchedSteps == IInv /\ [Next]_vars => Watched'
<1> SUFFICES ASSUME IInv, [Next]_vars PROVE Watched'
  OBVIOUS
<1> USE ConstantsAssumption DEF IInv, TypeOK, Watched, Index, None, Canceled
<1>1. CASE UNCHANGED vars
  BY <1>1 DEF vars, operationVars, jobVars
<1>2. CASE run
  BY <1>2 DEF run, GoTo, operationVars, jobVars
<1>3. CASE MapReduceBase
  BY <1>3 DEF MapReduceBase, GoTo, operationVars, jobVars
<1>4. CASE exec
  BY <1>4 DEF exec, GoTo, operationVars, jobVars
<1>5. CASE schedule
  BY <1>5 DEF schedule, GoTo, operationVars, jobVars, MaySchedule
<1>6. CASE scheduled
  BY <1>6 DEF scheduled, GoTo, operationVars, jobVars
<1>7. CASE cancelAll
  BY <1>7 DEF cancelAll, GoTo, operationVars, jobVars
<1>8. ASSUME NEW i \in Index, mapFinished(i) PROVE Watched'
  BY <1>8 DEF mapFinished, GoTo, operationVars, jobVars
<1>9. CASE reduceUnordered
  BY <1>9 DEF reduceUnordered, GoTo, operationVars, jobVars
<1>10. CASE reduceNext
  BY <1>10 DEF reduceNext, GoTo, operationVars, jobVars
<1>11. CASE reducePending
  BY <1>11 DEF reducePending, GoTo, operationVars, jobVars
<1>12. CASE reducedPending
  BY <1>12 DEF reducedPending, GoTo, operationVars, jobVars
<1>13. CASE reduceLater
  BY <1>13 DEF reduceLater, GoTo, operationVars, jobVars
<1>14. CASE deleteWatcher
  BY <1>14 DEF deleteWatcher, GoTo, operationVars, jobVars, Quits
<1>15. CASE cleanup
  BY <1>15 DEF cleanup, GoTo, operationVars, jobVars
<1>16. ASSUME NEW i \in Index, runJob(i) PROVE Watched'
  <2>1. CASE jobCanceled[i]
    <3>1. /\ events' = Append(events, i) /\ job' = [job EXCEPT ![i] = "finished"]
          /\ pc # "start" /\ i \in m_mapWatcher /\ i # current
      BY <1>16, <2>1 DEF runJob, reportFinished
    <3>2. /\ Len(events') = Len(events) + 1 /\ events'[Len(events) + 1] = i
          /\ \A k \in 1 .. Len(events) : events'[k] = events[k]
      BY <3>1, Posted
    <3>3. \A k \in 1 .. Len(events) : events[k] \in Index \cup {Canceled}
      OBVIOUS
    <3>4. \A k \in 1 .. Len(events') : events'[k] # Canceled => job'[events'[k]] = "finished"
      BY <3>1, <3>2, <3>3
    <3> QED
      BY <1>16, <2>1, <3>1, <3>4 DEF runJob, operationVars
  <2>2. CASE ~jobCanceled[i]
    BY <1>16, <2>2 DEF runJob, operationVars
  <2> QED
    BY <2>1, <2>2
<1>17. ASSUME NEW i \in Index, mapReturns(i) PROVE Watched'
  BY <1>17 DEF mapReturns, GoTo, operationVars, jobVars, reportFinished
<1>18. ASSUME NEW i \in Index, reportResult(i) PROVE Watched'
  BY <1>18 DEF reportResult, GoTo, operationVars, jobVars
<1>19. CASE cancel
  BY <1>19 DEF cancel, GoTo, operationVars, jobVars
<1> QED
  BY <1>1, <1>2, <1>3, <1>4, <1>5, <1>6, <1>7, <1>8, <1>9, <1>10, <1>11, <1>12, <1>13, <1>14, <1>15, <1>16, <1>17, <1>18, <1>19 DEF Next, Operation, Returns

(* No end is told twice.                                                   *)
LEMMA ToldSteps == IInv /\ [Next]_vars => Told'
<1> SUFFICES ASSUME IInv, [Next]_vars PROVE Told'
  OBVIOUS
<1> USE ConstantsAssumption DEF IInv, TypeOK, Watched, Told, Index, None, Canceled
<1>1. CASE UNCHANGED <<events, m_mapWatcher>>
  BY <1>1
<1>2. CASE MapReduceBase
  BY <1>2 DEF MapReduceBase, GoTo, operationVars
<1>3. CASE schedule
  BY <1>3 DEF schedule
<1>4. CASE cancelAll
  <2>1. events # << >> /\ events' = Tail(events) /\ m_mapWatcher' = m_mapWatcher
    BY <1>4 DEF cancelAll, operationVars
  <2>2. /\ Len(events') = Len(events) - 1
        /\ \A k \in 1 .. Len(events') : events'[k] = events[k + 1]
    BY <2>1, Taken
  <2> QED
    BY <2>1, <2>2
<1>5. ASSUME NEW i \in Index, mapFinished(i) PROVE Told'
  <2>1. /\ events # << >> /\ i = events[1] /\ events' = Tail(events)
        /\ m_mapWatcher' = m_mapWatcher \ {i}
    BY <1>5 DEF mapFinished
  <2>2. /\ Len(events') = Len(events) - 1
        /\ \A k \in 1 .. Len(events') : events'[k] = events[k + 1]
    BY <2>1, Taken
  <2> QED
    BY <2>1, <2>2
<1>6. ASSUME NEW i \in Index, runJob(i), jobCanceled[i] PROVE Told'
  <2>1. /\ events' = Append(events, i) /\ m_mapWatcher' = m_mapWatcher
        /\ job[i] # "finished" /\ i \in m_mapWatcher
    BY <1>6 DEF runJob, reportFinished, operationVars
  <2>3. \A k \in 1 .. Len(events) : events[k] # i
    <3> SUFFICES ASSUME NEW k \in 1 .. Len(events), events[k] = i PROVE FALSE
      OBVIOUS
    <3>1. events[k] # Canceled
      BY <2>1
    <3> QED
      BY <3>1, <2>1
  <2>2. /\ Len(events') = Len(events) + 1 /\ events'[Len(events) + 1] = i
        /\ \A k \in 1 .. Len(events) : events'[k] = events[k]
    BY <2>1, Posted
  <2> QED
    BY <2>1, <2>2, <2>3
<1>7. ASSUME NEW i \in Index, mapReturns(i) PROVE Told'
  <2>1. /\ events' = Append(events, i) /\ m_mapWatcher' = m_mapWatcher
        /\ job[i] # "finished" /\ i \in m_mapWatcher
    BY <1>7 DEF mapReturns, reportFinished, operationVars
  <2>3. \A k \in 1 .. Len(events) : events[k] # i
    <3> SUFFICES ASSUME NEW k \in 1 .. Len(events), events[k] = i PROVE FALSE
      OBVIOUS
    <3>1. events[k] # Canceled
      BY <2>1
    <3> QED
      BY <3>1, <2>1
  <2>2. /\ Len(events') = Len(events) + 1 /\ events'[Len(events) + 1] = i
        /\ \A k \in 1 .. Len(events) : events'[k] = events[k]
    BY <2>1, Posted
  <2> QED
    BY <2>1, <2>2, <2>3
<1>8. CASE cancel
  <2>1. CASE events' = events
    BY <1>8, <2>1 DEF cancel, operationVars
  <2>2. CASE events' = Append(events, Canceled)
    <3>1. /\ Len(events') = Len(events) + 1 /\ events'[Len(events) + 1] = Canceled
          /\ \A k \in 1 .. Len(events) : events'[k] = events[k]
      BY <2>2, Posted
    <3> QED
      BY <1>8, <3>1 DEF cancel, operationVars
  <2> QED
    BY <1>8, <2>1, <2>2 DEF cancel
<1> QED
  BY <1>1, <1>2, <1>3, <1>4, <1>5, <1>6, <1>7, <1>8 DEF Next, Operation, Returns, vars,
     operationVars, run, exec, scheduled, reduceUnordered, reduceNext, reducePending,
     reducedPending, reduceLater, deleteWatcher, cleanup, runJob, reportResult

(* No map is taken for whole that was stopped.                             *)
LEMMA WholeSteps == IInv /\ [Next]_vars => Whole'
<1> SUFFICES ASSUME IInv, [Next]_vars PROVE Whole'
  OBVIOUS
<1> USE ConstantsAssumption DEF IInv, TypeOK, Watched, Index, None, Canceled, Holding, Whole, OnlyWholeResults
<1>1. CASE UNCHANGED vars
  BY <1>1 DEF vars, operationVars, jobVars
<1>2. CASE run
  BY <1>2 DEF run, GoTo, operationVars, jobVars
<1>3. CASE MapReduceBase
  BY <1>3 DEF MapReduceBase, GoTo, operationVars, jobVars
<1>4. CASE exec
  BY <1>4 DEF exec, GoTo, operationVars, jobVars
<1>5. CASE schedule
  BY <1>5 DEF schedule, MaySchedule
<1>6. CASE scheduled
  BY <1>6 DEF scheduled, GoTo, operationVars, jobVars
<1>7. CASE cancelAll
  BY <1>7 DEF cancelAll, operationVars
<1>8. ASSUME NEW i \in Index, mapFinished(i) PROVE Whole'
  <2>1. /\ events # << >> /\ i = events[1] /\ job[i] = "finished"
        /\ \A k \in 1 .. Len(Tail(events)) : k + 1 \in 1 .. Len(events) /\ Tail(events)[k] = events[k + 1]
    <3>1. events # << >> /\ i = Head(events) /\ events \in Seq(Index \cup {Canceled})
      BY <1>8 DEF mapFinished
    <3>2. i = events[1] /\ Len(events) \in Nat /\ 1 \in 1 .. Len(events)
          /\ Len(Tail(events)) = Len(events) - 1
          /\ \A k \in 1 .. Len(Tail(events)) : Tail(events)[k] = events[k + 1]
      BY <3>1
    <3>3. job[i] = "finished"
      BY <3>2
    <3> QED
      BY <3>1, <3>2, <3>3
  <2>2. ~canceled => results[i] = "all"
    BY <2>1
  <2>3. \A k \in 1 .. Len(events') : events'[k] = Canceled => canceled
    BY <1>8, <2>1 DEF mapFinished
  <2> QED
    BY <1>8, <2>2, <2>3 DEF mapFinished, jobVars
<1>9. CASE reduceUnordered
  <2>1. current \in Index /\ reduced' = Append(reduced, current) /\ results[current] = "all"
    BY <1>9 DEF reduceUnordered, GoTo
  <2>2. OnlyWholeResults'
    BY <1>9, <2>1, WholeGrows DEF reduceUnordered, jobVars
  <2> HIDE DEF OnlyWholeResults
  <2> QED
    BY <1>9, <2>2 DEF reduceUnordered, GoTo, jobVars
<1>10. CASE reduceNext
  <2>1. current \in Index /\ reduced' = Append(reduced, current) /\ results[current] = "all"
    BY <1>10 DEF reduceNext, GoTo
  <2>2. OnlyWholeResults'
    BY <1>10, <2>1, WholeGrows DEF reduceNext, jobVars
  <2> HIDE DEF OnlyWholeResults
  <2> QED
    BY <1>10, <2>2 DEF reduceNext, GoTo, jobVars
<1>11. CASE reducePending
  BY <1>11 DEF reducePending, jobVars
<1>12. CASE reducedPending
  BY <1>12 DEF reducedPending, GoTo, operationVars, jobVars
<1>13. CASE reduceLater
  BY <1>13 DEF reduceLater, GoTo, jobVars
<1>14. CASE deleteWatcher
  BY <1>14 DEF deleteWatcher, GoTo, jobVars
<1>15. CASE cleanup
  BY <1>15 DEF cleanup, GoTo, jobVars
<1>16. ASSUME NEW i \in Index, runJob(i) PROVE Whole'
  BY <1>16 DEF runJob, reportFinished, operationVars
<1>17. ASSUME NEW i \in Index, mapReturns(i) PROVE Whole'
  <2>1. /\ UNCHANGED <<canceled, pc, operationVars, jobCanceled, results>>
        /\ job' = [job EXCEPT ![i] = "finished"] /\ events' = Append(events, i)
        /\ results[i] = "all" \/ jobCanceled[i]
    BY <1>17 DEF mapReturns, reportFinished
  <2>2. /\ Len(events) \in Nat /\ Len(events') = Len(events) + 1 /\ events'[Len(events) + 1] = i
        /\ \A k \in 1 .. Len(events) : events'[k] = events[k]
    BY <2>1
  <2>3. \A k \in 1 .. Len(events') : events'[k] = Canceled => canceled'
    BY <2>1, <2>2
  <2>4. \A j \in Index : job'[j] = "finished" /\ ~jobCanceled'[j] => results'[j] = "all"
    BY <2>1
  <2>5. UNCHANGED <<canceled, pc, current, m_pendingResults, reduced, jobCanceled, results>>
    BY <2>1 DEF operationVars
  <2> QED
    BY <2>3, <2>4, <2>5
<1>18. ASSUME NEW i \in Index, reportResult(i) PROVE Whole'
  BY <1>18 DEF reportResult, operationVars
<1>19. CASE cancel
  BY <1>19 DEF cancel, operationVars, jobVars
<1> QED
  BY <1>1, <1>2, <1>3, <1>4, <1>5, <1>6, <1>7, <1>8, <1>9, <1>10, <1>11, <1>12, <1>13, <1>14,
     <1>15, <1>16, <1>17, <1>18, <1>19 DEF Next, Operation, Returns

(* The results are where they belong.                                      *)
LEMMA PlacedSteps == IInv /\ [Next]_vars => Placed'
<1> SUFFICES ASSUME IInv, [Next]_vars PROVE Placed'
  OBVIOUS
<1> USE ConstantsAssumption DEF IInv, TypeOK, Watched, Told, Index, None, Canceled, Holding, Placed, InOrder, Reduced
<1>1. CASE UNCHANGED vars
  BY <1>1 DEF vars, operationVars, jobVars
<1>2. CASE run
  BY <1>2 DEF run, GoTo, operationVars, jobVars
<1>3. CASE MapReduceBase
  BY <1>3 DEF MapReduceBase, GoTo, operationVars, jobVars
<1>4. CASE exec
  BY <1>4 DEF exec, GoTo, operationVars, jobVars
<1>5. CASE schedule
  BY <1>5 DEF schedule, MaySchedule
<1>6. CASE scheduled
  BY <1>6 DEF scheduled, GoTo, operationVars, jobVars
<1>7. CASE cancelAll
  BY <1>7 DEF cancelAll, operationVars
<1>8. ASSUME NEW i \in Index, mapFinished(i) PROVE Placed'
  <2>1. i \in m_mapWatcher /\ job[i] = "finished"
    <3>1. events # << >> /\ i = events[1]
      BY <1>8, Taken DEF mapFinished
    <3>2. 1 \in 1 .. Len(events)
      BY <3>1
    <3> QED
      BY <3>1, <3>2
  <2>2. /\ m_mapWatcher' = m_mapWatcher \ {i} /\ current' = i /\ pc' # "drain"
        /\ UNCHANGED <<m_option, m_pendingResults, m_nextIndex, reduced, job>>
        /\ pc = "loop"
    BY <1>8 DEF mapFinished, jobVars
  <2>3. InOrder' /\ ~Reduced(i)'
    BY <2>1, <2>2
  <2> HIDE DEF InOrder
  <2> QED
    BY <2>1, <2>2, <2>3
<1>9. CASE reduceUnordered
  <2>1. /\ current \in Index /\ ~Reduced(current) /\ reduced' = Append(reduced, current)
        /\ m_option = "Unordered" /\ m_pendingResults = {} /\ pc' = "finish"
        /\ current \notin m_mapWatcher /\ job[current] = "finished"
        /\ UNCHANGED <<m_option, m_mapWatcher, m_pendingResults, m_nextIndex, job>>
    BY <1>9 DEF reduceUnordered, GoTo, jobVars
  <2>2. /\ \A j : Reduced(j)' <=> Reduced(j) \/ j = current
        /\ Len(reduced') = Len(reduced) + 1 /\ Len(reduced) \in Nat
        /\ reduced'[Len(reduced) + 1] = current
        /\ \A k \in 1 .. Len(reduced) : reduced'[k] = reduced[k]
    BY <2>1, Grows
  <2>4. InOrder'
    <3> HIDE DEF InOrder, Reduced
    <3>1. InOrder
      BY DEF InOrder
    <3> QED
      BY <2>1, <3>1, OrderGrows
  <2>5. \A k \in 1 .. Len(reduced') : reduced'[k] \notin m_mapWatcher /\ job[reduced'[k]] = "finished"
    <3> SUFFICES ASSUME NEW k \in 1 .. Len(reduced')
                 PROVE  reduced'[k] \notin m_mapWatcher /\ job[reduced'[k]] = "finished"
      OBVIOUS
    <3>1. CASE k = Len(reduced) + 1
      BY <2>1, <2>2, <3>1
    <3>2. CASE k \in 1 .. Len(reduced)
      <4>1. reduced'[k] = reduced[k]
        BY <2>2, <3>2
      <4>2. reduced[k] \notin m_mapWatcher /\ job[reduced[k]] = "finished"
        BY <3>2
      <4> QED
        BY <4>1, <4>2
    <3> QED
      BY <2>2, <3>1, <3>2
  <2> HIDE DEF Reduced, InOrder
  <2> QED
    BY <2>1, <2>4, <2>5
<1>10. CASE reduceNext
  <2>1. current \in Index /\ m_nextIndex = current /\ reduced' = Append(reduced, current)
    BY <1>10 DEF reduceNext, GoTo
  <2>2. /\ \A j : Reduced(j)' <=> Reduced(j) \/ j = current
        /\ Len(reduced') = Len(reduced) + 1
        /\ reduced'[Len(reduced) + 1] = current
        /\ \A k \in 1 .. Len(reduced) : reduced'[k] = reduced[k]
    BY <2>1, Grows
  <2>3. InOrder'
    BY <1>10, <2>2 DEF reduceNext, GoTo, jobVars
  <2>4. \A k \in 1 .. Len(reduced') : reduced'[k] \notin m_mapWatcher /\ job[reduced'[k]] = "finished"
    BY <1>10, <2>2 DEF reduceNext, GoTo
  <2>5. m_option = "Ordered" /\ Len(reduced') = m_nextIndex'
    BY <1>10, <2>2 DEF reduceNext
  <2>6. \A j \in m_pendingResults' :
           j \notin m_mapWatcher /\ job[j] = "finished" /\ j # current /\ ~Reduced(j)
    BY <1>10, <2>1 DEF reduceNext, GoTo
  <2> HIDE DEF Reduced, InOrder
  <2> QED
    BY <1>10, <2>2, <2>3, <2>4, <2>5, <2>6 DEF reduceNext, GoTo, jobVars
<1>11. CASE reducePending
  <2>1. m_nextIndex \in Index /\ reduced' = Append(reduced, m_nextIndex)
    BY <1>11 DEF reducePending
  <2>2. /\ \A j : Reduced(j)' <=> Reduced(j) \/ j = m_nextIndex
        /\ Len(reduced') = Len(reduced) + 1
        /\ reduced'[Len(reduced) + 1] = m_nextIndex
        /\ \A k \in 1 .. Len(reduced) : reduced'[k] = reduced[k]
    BY <2>1, Grows
  <2>3. InOrder'
    <3> HIDE DEF InOrder, Reduced
    <3>1. m_option' = m_option /\ m_nextIndex \in m_pendingResults /\ ~Reduced(m_nextIndex)
          /\ m_option = "Ordered" /\ Len(reduced) = m_nextIndex /\ InOrder
      BY <1>11 DEF reducePending
    <3> QED
      BY <2>1, <3>1, OrderGrows
  <2>4. \A k \in 1 .. Len(reduced') : reduced'[k] \notin m_mapWatcher /\ job[reduced'[k]] = "finished"
    BY <1>11, <2>2 DEF reducePending
  <2>5. m_option = "Ordered" /\ Len(reduced') = m_nextIndex'
    BY <1>11, <2>2 DEF reducePending
  <2>6. \A j \in m_pendingResults' :
           j \notin m_mapWatcher /\ job[j] = "finished" /\ j # m_nextIndex /\ ~Reduced(j)
    BY <1>11 DEF reducePending
  <2> HIDE DEF Reduced, InOrder
  <2> QED
    BY <1>11, <2>2, <2>3, <2>4, <2>5, <2>6 DEF reducePending, jobVars
<1>12. CASE reducedPending
  BY <1>12 DEF reducedPending, GoTo, operationVars, jobVars
<1>13. CASE reduceLater
  BY <1>13 DEF reduceLater, GoTo, jobVars
<1>14. CASE deleteWatcher
  BY <1>14 DEF deleteWatcher, GoTo, jobVars
<1>15. CASE cleanup
  BY <1>15 DEF cleanup, GoTo, jobVars
<1>16. ASSUME NEW i \in Index, runJob(i) PROVE Placed'
  <2>1. \A j \in Index : job[j] = "finished" => job'[j] = "finished"
    BY <1>16 DEF runJob, reportFinished
  <2>2. /\ InOrder' = InOrder
        /\ \A j : Reduced(j)' <=> Reduced(j)
    BY <1>16 DEF runJob, operationVars
  <2>3. \A k \in 1 .. Len(reduced) : reduced[k] \in Index
    BY ReducedTyped
  <2>4. UNCHANGED <<pc, operationVars>>
    BY <1>16 DEF runJob
  <2>5. \A k \in 1 .. Len(reduced') : reduced'[k] \notin m_mapWatcher' /\ job'[reduced'[k]] = "finished"
    BY <2>1, <2>3, <2>4 DEF operationVars
  <2>6. \A j \in m_pendingResults' : j \notin m_mapWatcher' /\ job'[j] = "finished" /\ ~Reduced(j)
    BY <2>1, <2>4 DEF operationVars
  <2> HIDE DEF Reduced, InOrder
  <2> QED
    BY <2>2, <2>4, <2>5, <2>6 DEF operationVars
<1>17. ASSUME NEW i \in Index, mapReturns(i) PROVE Placed'
  BY <1>17 DEF mapReturns, reportFinished, operationVars
<1>18. ASSUME NEW i \in Index, reportResult(i) PROVE Placed'
  BY <1>18 DEF reportResult, operationVars
<1>19. CASE cancel
  BY <1>19 DEF cancel, operationVars, jobVars
<1> QED
  BY <1>1, <1>2, <1>3, <1>4, <1>5, <1>6, <1>7, <1>8, <1>9, <1>10, <1>11, <1>12, <1>13, <1>14,
     <1>15, <1>16, <1>17, <1>18, <1>19 DEF Next, Operation, Returns

(* A pool without a watched map has a thread to spare.                     *)
LEMMA AllScheduled ==
  ASSUME TypeOK, ~MaySchedule, m_mapWatcher = {}
  PROVE  m_currentIndex = size
<1>1. Cardinality({}) = 0
  BY FS_EmptySet
<1>2. HasThread
  BY <1>1, ConstantsAssumption DEF HasThread
<1> QED
  BY <1>2, ConstantsAssumption DEF MaySchedule, TypeOK

(* No item is forgotten.                                                   *)
LEMMA CompleteSteps == IInv /\ [Next]_vars => Complete'
<1> SUFFICES ASSUME IInv, [Next]_vars PROVE Complete'
  OBVIOUS
<1> USE ConstantsAssumption DEF IInv, TypeOK, Watched, Index, None, Canceled, Holding, Placed, Complete, Reduced, MaySchedule, HasThread
<1>1. CASE UNCHANGED vars
  BY <1>1 DEF vars, operationVars, jobVars
<1>2. CASE run
  BY <1>2 DEF run, GoTo, operationVars, jobVars
<1>3. CASE MapReduceBase
  BY <1>3 DEF MapReduceBase, GoTo, operationVars, jobVars
<1>4. CASE exec
  BY <1>4 DEF exec, GoTo, operationVars, jobVars
<1>5. CASE schedule
  BY <1>5 DEF schedule, MaySchedule
<1>6. CASE scheduled
  <2>1. ~MaySchedule /\ (m_mapWatcher = {} => m_currentIndex = size)
    BY <1>6, AllScheduled DEF scheduled
  <2>2. \A i : Reduced(i)' <=> Reduced(i)
    BY <1>6 DEF scheduled, operationVars
  <2>3. MaySchedule' = MaySchedule
    BY <1>6 DEF scheduled, operationVars
  <2> HIDE DEF Reduced, MaySchedule
  <2> QED
    BY <1>6, <2>1, <2>2, <2>3 DEF scheduled, GoTo, operationVars, jobVars
<1>7. CASE cancelAll
  BY <1>7 DEF cancelAll, operationVars
<1>8. ASSUME NEW i \in Index, mapFinished(i) PROVE Complete'
  BY <1>8 DEF mapFinished, jobVars
<1>9. CASE reduceUnordered
  <2>1. current \in Index /\ reduced' = Append(reduced, current)
    BY <1>9 DEF reduceUnordered, GoTo
  <2>2. \A i : Reduced(i)' <=> Reduced(i) \/ i = current
    BY <2>1, Grows
  <2> HIDE DEF Reduced
  <2> QED
    BY <1>9, <2>1, <2>2 DEF reduceUnordered, GoTo, jobVars
<1>10. CASE reduceNext
  <2>1. current \in Index /\ reduced' = Append(reduced, current)
    BY <1>10 DEF reduceNext, GoTo
  <2>2. \A i : Reduced(i)' <=> Reduced(i) \/ i = current
    BY <2>1, Grows
  <2> HIDE DEF Reduced
  <2> QED
    BY <1>10, <2>1, <2>2 DEF reduceNext, GoTo, jobVars
<1>11. CASE reducePending
  <2>1. m_nextIndex \in Index /\ reduced' = Append(reduced, m_nextIndex)
    BY <1>11 DEF reducePending
  <2>2. \A i : Reduced(i)' <=> Reduced(i) \/ i = m_nextIndex
    BY <2>1, Grows
  <2> HIDE DEF Reduced
  <2> QED
    BY <1>11, <2>1, <2>2 DEF reducePending, jobVars
<1>12. CASE reducedPending
  BY <1>12 DEF reducedPending, GoTo, operationVars, jobVars
<1>13. CASE reduceLater
  BY <1>13 DEF reduceLater, GoTo, jobVars
<1>14. CASE deleteWatcher
  <2>1. ~canceled => ~MaySchedule
    BY <1>14 DEF deleteWatcher, GoTo
  <2>2. ~canceled /\ m_mapWatcher = {} => m_currentIndex = size
    BY <2>1, AllScheduled
  <2>3. \A i : Reduced(i)' <=> Reduced(i)
    BY <1>14 DEF deleteWatcher
  <2> HIDE DEF Reduced, MaySchedule
  <2> QED
    BY <1>14, <2>2, <2>3 DEF deleteWatcher, GoTo, jobVars, Quits
<1>15. CASE cleanup
  BY <1>15 DEF cleanup, GoTo, jobVars
<1>16. ASSUME NEW i \in Index, runJob(i) PROVE Complete'
  BY <1>16 DEF runJob, reportFinished, operationVars
<1>17. ASSUME NEW i \in Index, mapReturns(i) PROVE Complete'
  BY <1>17 DEF mapReturns, reportFinished, operationVars
<1>18. ASSUME NEW i \in Index, reportResult(i) PROVE Complete'
  BY <1>18 DEF reportResult, operationVars
<1>19. CASE cancel
  BY <1>19 DEF cancel, operationVars, jobVars
<1> QED
  BY <1>1, <1>2, <1>3, <1>4, <1>5, <1>6, <1>7, <1>8, <1>9, <1>10, <1>11, <1>12, <1>13, <1>14,
     <1>15, <1>16, <1>17, <1>18, <1>19 DEF Next, Operation, Returns
-----------------------------------------------------------------------------
LEMMA IInvHolds == Spec => []IInv
<1>1. IInv /\ [Next]_vars => IInv'
  <2> SUFFICES ASSUME IInv, [Next]_vars PROVE IInv'
    OBVIOUS
  <2>1. TypeOK' /\ Watched' /\ Told'
    BY TypeSteps, WatchedSteps, ToldSteps
  <2>2. Whole' /\ Placed' /\ Complete'
    BY WholeSteps, PlacedSteps, CompleteSteps
  <2> QED
    BY <2>1, <2>2 DEF IInv
<1> QED
  BY Starts, <1>1, PTL DEF Spec

(* The variables of the operation and of its jobs keep their types.        *)
THEOREM OperationIsTyped == Spec => []TypeOK
<1>1. IInv => TypeOK
  BY DEF IInv
<1> QED
  BY IInvHolds, <1>1, PTL

(* When Utils::mapReduce returns, no job of its pool uses the items, the   *)
(* map function or the state any more.                                     *)
THEOREM JobsAreOver == Spec => []NothingUsedAfterwards
<1>1. IInv => NothingUsedAfterwards
  BY DEF IInv, TypeOK, Watched, NothingUsedAfterwards
<1> QED
  BY IInvHolds, <1>1, PTL

(* What a map reported before it was stopped half way is never reduced.    *)
THEOREM WholeResultsAreReduced == Spec => []OnlyWholeResults
<1>1. IInv => OnlyWholeResults
  BY DEF IInv, Whole
<1> QED
  BY IInvHolds, <1>1, PTL

(* Results are reduced in order with Ordered, and never twice.             *)
THEOREM OrderIsKept == Spec => []InOrder
<1>1. IInv => InOrder
  BY DEF IInv, Placed
<1> QED
  BY IInvHolds, <1>1, PTL

(* An operation that ends without having been canceled has reduced every   *)
(* item: if some were left in m_pendingResults, the next one would be      *)
(* neither there nor reduced.                                              *)
THEOREM NothingIsLeftBehind == Spec => []AllReduced
<1>1. ASSUME IInv PROVE AllReduced
  <2> SUFFICES ASSUME pc = "ended", ~canceled, NEW i \in Index PROVE Reduced(i)
    BY <1>1 DEF AllReduced, Reduced, IInv, Complete
  <2>1. m_mapWatcher = {} /\ m_currentIndex = size /\ ~Holding /\ m_nextIndex \notin m_pendingResults
    BY <1>1 DEF IInv, Watched, Complete, Placed, Holding
  <2>2. \A j \in Index : j \in m_pendingResults \/ Reduced(j)
    BY <1>1, <2>1, ConstantsAssumption DEF IInv, Complete, Index
  <2>3. CASE m_option = "Unordered"
    BY <1>1, <2>2, <2>3 DEF IInv, Placed
  <2>4. CASE m_option = "Ordered"
    <3>1. Len(reduced) = m_nextIndex /\ \A k \in 1 .. Len(reduced) : reduced[k] = k - 1
      BY <1>1, <2>4 DEF IInv, Placed, InOrder
    <3>2. m_nextIndex \in 0 .. size
      BY <1>1 DEF IInv, TypeOK
    <3>3. ~Reduced(m_nextIndex)
      BY <3>1, <3>2, ConstantsAssumption DEF Reduced
    <3>4. m_nextIndex = size
      BY <2>1, <2>2, <3>2, <3>3, ConstantsAssumption DEF Index
    <3>5. i + 1 \in 1 .. Len(reduced) /\ reduced[i + 1] = i
      BY <3>1, <3>4, ConstantsAssumption DEF Index
    <3> QED
      BY <3>5 DEF Reduced
  <2> QED
    BY <1>1, <2>3, <2>4, ConstantsAssumption DEF IInv, TypeOK
<1> QED
  BY IInvHolds, <1>1, PTL
=============================================================================
