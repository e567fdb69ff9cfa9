------------------------------- MODULE MapReduce -------------------------------
(***************************************************************************)
(* Utils::mapReduce (libs/utils/mapreduce.h) with the jobs that            *)
(* Utils::runAsync starts (runextensions.h): a map function is called for  *)
(* each item in the threads of a pool, and the results are reduced in one  *)
(* thread, that of the operation, which runs an event loop meanwhile.      *)
(*                                                                         *)
(* What may come between any two steps of that thread is the jobs in the   *)
(* pool and, at any time, the cancellation of the operation.  A QFuture    *)
(* tells its QFutureWatcher by an event, posted under the lock under which *)
(* its state changes.                                                      *)
(***************************************************************************)
EXTENDS Naturals, Sequences, FiniteSets

CONSTANTS
    size,            \* the number of items
    maxThreadCount,  \* how many maps the pool runs at a time
    Options          \* a set of MapReduceOptions, "Ordered" and "Unordered"

ASSUME ConstantsAssumption ==
    /\ size \in Nat /\ maxThreadCount \in Nat
    /\ Options \subseteq {"Ordered", "Unordered"}

Index == 0 .. size - 1
None == size
Canceled == size     \* as an event

VARIABLES
    m_option,
    canceled,        \* of m_futureInterface, the future of the operation
    pc,              \* what the thread of the operation does next
    events,          \* posted to the watchers, all in that thread
    m_currentIndex,  \* and m_iterator: the next item
    m_mapWatcher,    \* the maps that are watched, by index
    current,         \* the map that mapFinished is about, None in exec
    didSchedule,
    m_pendingResults, m_nextIndex,
    job,             \* the AsyncJob of each item
    jobCanceled,     \* is its future canceled?
    results,         \* what it has reported: nothing, some or all results
    reduced,         \* history: the items whose results were reduced
    cleanedUp        \* history: the cleanup function was called

operationVars == <<m_option, m_currentIndex, m_mapWatcher, current, didSchedule,
                   m_pendingResults, m_nextIndex, reduced, cleanedUp>>
jobVars == <<job, jobCanceled, results>>
vars == <<canceled, pc, events, operationVars, jobVars>>

TypeOK ==
    /\ m_option \in Options /\ canceled \in BOOLEAN
    /\ pc \in {"start", "construct", "exec", "schedule", "loop", "reduce", "drain",
               "finish", "cleanup", "ended"}
    /\ events \in Seq(Index \cup {Canceled})
    /\ m_currentIndex \in 0 .. size /\ m_mapWatcher \subseteq Index
    /\ current \in Index \cup {None} /\ didSchedule \in BOOLEAN
    /\ m_pendingResults \subseteq Index /\ m_nextIndex \in 0 .. size
    /\ job \in [Index -> {"none", "queued", "running", "finished"}]
    /\ jobCanceled \in [Index -> BOOLEAN]
    /\ results \in [Index -> {"none", "some", "all"}]
    /\ reduced \in Seq(Index) /\ cleanedUp \in BOOLEAN

Init ==
    /\ m_option \in Options /\ canceled = FALSE
    /\ pc = "start" /\ events = << >>
    /\ m_currentIndex = 0 /\ m_mapWatcher = {} /\ current = None /\ didSchedule = FALSE
    /\ m_pendingResults = {} /\ m_nextIndex = 0
    /\ job = [i \in Index |-> "none"] /\ jobCanceled = [i \in Index |-> FALSE]
    /\ results = [i \in Index |-> "none"]
    /\ reduced = << >> /\ cleanedUp = FALSE
-----------------------------------------------------------------------------
(* The thread of the operation.                                            *)
GoTo(from, to) == pc = from /\ pc' = to

(* AsyncJob::run: a job that was canceled before is not run at all.        *)
run ==
    /\ GoTo("start", IF canceled THEN "ended" ELSE "construct")
    /\ UNCHANGED <<canceled, events, operationVars, jobVars>>

(* The init function, and the constructor with m_selfWatcher.setFuture().  *)
MapReduceBase ==
    /\ GoTo("construct", "exec")
    /\ events' = IF canceled THEN <<Canceled>> ELSE << >>
    /\ UNCHANGED <<canceled, operationVars, jobVars>>

exec ==
    /\ GoTo("exec", IF canceled THEN "cleanup" ELSE "schedule")
    /\ UNCHANGED <<canceled, events, operationVars, jobVars>>

HasThread == Cardinality(m_mapWatcher) < (IF maxThreadCount > 1 THEN maxThreadCount ELSE 1)

MaySchedule == m_currentIndex < size /\ HasThread

schedule ==
    /\ pc = "schedule" /\ MaySchedule
    /\ m_mapWatcher' = m_mapWatcher \cup {m_currentIndex}
    /\ job' = [job EXCEPT ![m_currentIndex] = "queued"]
    /\ m_currentIndex' = m_currentIndex + 1
    /\ didSchedule' = TRUE
    /\ UNCHANGED <<canceled, pc, events, m_option, current, m_pendingResults, m_nextIndex,
                   reduced, cleanedUp, jobCanceled, results>>

(* schedule() is through; it was called by mapFinished or exec.            *)
scheduled ==
    /\ ~MaySchedule
    /\ GoTo("schedule", IF current # None THEN "reduce"
                        ELSE IF didSchedule THEN "loop" ELSE "cleanup")
    /\ UNCHANGED <<canceled, events, operationVars, jobVars>>

(* Faulty: cancels the first map only.                                     *)
cancelFirst ==
    /\ pc = "loop" /\ events # << >> /\ Head(events) = Canceled
    /\ events' = Tail(events)
    /\ jobCanceled' = [i \in Index |-> jobCanceled[i] \/
          (i \in m_mapWatcher /\ \A j \in m_mapWatcher : i <= j)]
    /\ UNCHANGED <<canceled, pc, operationVars, job, results>>

cancelAll ==
    /\ pc = "loop" /\ events # << >> /\ Head(events) = Canceled
    /\ events' = Tail(events)
    /\ jobCanceled' = [i \in Index |-> jobCanceled[i] \/ i \in m_mapWatcher]
    /\ UNCHANGED <<canceled, pc, operationVars, job, results>>

(* Faulty: reduces what a canceled operation has.                          *)
mapFinishedAnyhow(i) ==
    /\ pc = "loop" /\ events # << >> /\ i = Head(events)
    /\ events' = Tail(events)
    /\ m_mapWatcher' = m_mapWatcher \ {i}
    /\ current' = i /\ didSchedule' = FALSE
    /\ pc' = "schedule"
    /\ UNCHANGED <<canceled, m_option, m_currentIndex, m_pendingResults, m_nextIndex,
                   reduced, cleanedUp, jobVars>>

(* mapFinished(), up to its look at isCanceled().                          *)
mapFinished(i) ==
    /\ pc = "loop" /\ events # << >> /\ i = Head(events)
    /\ events' = Tail(events)
    /\ m_mapWatcher' = m_mapWatcher \ {i}
    /\ current' = i /\ didSchedule' = FALSE
    /\ pc' = IF canceled THEN "finish" ELSE "schedule"
    /\ UNCHANGED <<canceled, m_option, m_currentIndex, m_pendingResults, m_nextIndex,
                   reduced, cleanedUp, jobVars>>

reduceUnordered ==
    /\ m_option = "Unordered" /\ GoTo("reduce", "finish")
    /\ reduced' = Append(reduced, current)
    /\ UNCHANGED <<canceled, events, m_option, m_currentIndex, m_mapWatcher, current,
                   didSchedule, m_pendingResults, m_nextIndex, cleanedUp, jobVars>>

(* Faulty: the results that directly follow are left where they are.       *)
reduceNextOnly ==
    /\ m_option = "Ordered" /\ m_nextIndex = current /\ GoTo("reduce", "finish")
    /\ reduced' = Append(reduced, current) /\ m_nextIndex' = m_nextIndex + 1
    /\ UNCHANGED <<canceled, events, m_option, m_currentIndex, m_mapWatcher, current,
                   didSchedule, m_pendingResults, cleanedUp, jobVars>>

reduceNext ==
    /\ m_option = "Ordered" /\ m_nextIndex = current /\ GoTo("reduce", "drain")
    /\ reduced' = Append(reduced, current) /\ m_nextIndex' = m_nextIndex + 1
    /\ UNCHANGED <<canceled, events, m_option, m_currentIndex, m_mapWatcher, current,
                   didSchedule, m_pendingResults, cleanedUp, jobVars>>

(* Faulty: the first of the pending results is taken for the next one.     *)
reduceFirstPending ==
    /\ pc = "drain" /\ m_pendingResults # {}
    /\ \E i \in m_pendingResults :
          /\ \A j \in m_pendingResults : i <= j
          /\ reduced' = Append(reduced, i)
          /\ m_pendingResults' = m_pendingResults \ {i}
          /\ m_nextIndex' = i + 1
    /\ UNCHANGED <<canceled, pc, events, m_option, m_currentIndex, m_mapWatcher, current,
                   didSchedule, cleanedUp, jobVars>>

reducePending ==
    /\ pc = "drain" /\ m_nextIndex \in m_pendingResults
    /\ reduced' = Append(reduced, m_nextIndex)
    /\ m_pendingResults' = m_pendingResults \ {m_nextIndex}
    /\ m_nextIndex' = m_nextIndex + 1
    /\ UNCHANGED <<canceled, pc, events, m_option, m_currentIndex, m_mapWatcher, current,
                   didSchedule, cleanedUp, jobVars>>

reducedPending ==
    /\ m_nextIndex \notin m_pendingResults /\ GoTo("drain", "finish")
    /\ UNCHANGED <<canceled, events, operationVars, jobVars>>

reduceLater ==
    /\ m_option = "Ordered" /\ m_nextIndex # current /\ GoTo("reduce", "finish")
    /\ m_pendingResults' = m_pendingResults \cup {current}
    /\ UNCHANGED <<canceled, events, m_option, m_currentIndex, m_mapWatcher, current,
                   didSchedule, m_nextIndex, reduced, cleanedUp, jobVars>>

(* Is the event loop left?  Faulty: as soon as there is nothing to schedule*)
QuitsEarly == ~didSchedule
Quits == ~didSchedule /\ m_mapWatcher = {}

(* The end of mapFinished().                                               *)
deleteWatcher ==
    /\ GoTo("finish", IF Quits THEN "cleanup" ELSE "loop")
    /\ current' = None
    /\ UNCHANGED <<canceled, events, m_option, m_currentIndex, m_mapWatcher, didSchedule,
                   m_pendingResults, m_nextIndex, reduced, cleanedUp, jobVars>>

(* The cleanup function; then the job of the operation is finished.        *)
cleanup ==
    /\ GoTo("cleanup", "ended")
    /\ cleanedUp' = TRUE
    /\ UNCHANGED <<canceled, events, m_option, m_currentIndex, m_mapWatcher, current,
                   didSchedule, m_pendingResults, m_nextIndex, reduced, jobVars>>
-----------------------------------------------------------------------------
(* The jobs in the threads of the pool.                                    *)
reportFinished(i) ==
    /\ job' = [job EXCEPT ![i] = "finished"]
    /\ events' = Append(events, i)

(* AsyncJob::run.                                                          *)
runJob(i) ==
    /\ job[i] = "queued"
    /\ IF jobCanceled[i] THEN reportFinished(i)
       ELSE job' = [job EXCEPT ![i] = "running"] /\ UNCHANGED events
    /\ UNCHANGED <<canceled, pc, operationVars, jobCanceled, results>>

(* The map function reports a result, and returns when it has reported all *)
(* results, or finds out that it is canceled.                              *)
reportResult(i) ==
    /\ job[i] = "running" /\ results[i] # "all" /\ ~jobCanceled[i]
    /\ results' = [results EXCEPT ![i] = IF @ = "none" THEN "some" ELSE "all"]
    /\ UNCHANGED <<canceled, pc, events, operationVars, job, jobCanceled>>

mapReturns(i) ==
    /\ job[i] = "running" /\ (results[i] = "all" \/ jobCanceled[i])
    /\ reportFinished(i)
    /\ UNCHANGED <<canceled, pc, operationVars, jobCanceled, results>>

(* Somebody cancels the future of the operation.                           *)
cancel ==
    /\ ~canceled /\ pc # "ended"
    /\ canceled' = TRUE
    /\ events' = IF pc \in {"start", "construct"} THEN events ELSE Append(events, Canceled)
    /\ UNCHANGED <<pc, operationVars, jobVars>>
-----------------------------------------------------------------------------
Operation ==
    \/ run \/ MapReduceBase \/ exec \/ schedule \/ scheduled
    \/ cancelAll \/ (\E i \in Index : mapFinished(i))
    \/ reduceUnordered \/ reduceNext \/ reducePending \/ reducedPending \/ reduceLater
    \/ deleteWatcher \/ cleanup

Returns(i) == runJob(i) \/ mapReturns(i)

Next == Operation \/ cancel \/ \E i \in Index : Returns(i) \/ reportResult(i)

Spec == Init /\ [][Next]_vars

(* Threads run, and a map function looks whether it is canceled; it need   *)
(* not come to an end otherwise.                                           *)
FairSpec == Spec /\ WF_vars(Operation) /\ \A i \in Index : WF_vars(Returns(i))
-----------------------------------------------------------------------------
(* When the operation returns, and with it the items, the map function and *)
(* the state go away, no job uses them or will (schedule passes std::cref).*)
NothingUsedAfterwards ==
    pc \in {"cleanup", "ended"} =>
       \A i \in Index : job[i] \in {"none", "finished"}

(* Only complete results are reduced: those of a map that was stopped half *)
(* way are not, however the cancellation and the end of the map overlap.   *)
OnlyWholeResults ==
    \A k \in 1 .. Len(reduced) : results[reduced[k]] = "all"

(* With MapReduceOption::Ordered the results are reduced in the order of   *)
(* the items, without a gap, although the maps end in any order; with      *)
(* either option, none twice.                                              *)
InOrder ==
    /\ m_option = "Ordered" => \A k \in 1 .. Len(reduced) : reduced[k] = k - 1
    /\ \A k, l \in 1 .. Len(reduced) : reduced[k] = reduced[l] => k = l

(* When the operation is over and was not canceled, every item was mapped  *)
(* and reduced, none is left behind in m_pendingResults, and the cleanup   *)
(* function has been called.  (mapreduce.h promises the latter without the *)
(* exception; a job that is canceled early calls neither init nor cleanup.)*)
AllReduced ==
    pc = "ended" /\ ~canceled =>
       /\ cleanedUp
       /\ \A i \in Index : \E k \in 1 .. Len(reduced) : reduced[k] = i

(* An operation whose maps all come to their end comes to its own; one     *)
(* that is canceled ends also if no map ever ends by itself.               *)
Ends ==
    (\A i \in Index : job[i] = "running" ~> job[i] = "finished") \/ <>canceled
        => <>(pc = "ended")
=============================================================================
