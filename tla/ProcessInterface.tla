---------------------------- MODULE ProcessInterface ----------------------------
(***************************************************************************)
(* What a ProcessInterface promises to its QtcProcess, after the comments  *)
(* at its signals in libs/utils/processinterface.h and the checks in       *)
(* QtcProcessPrivate's handlers: started, then the output, then done, and  *)
(* nothing twice.  Run is the set of runs of processes; a run starts once. *)
(***************************************************************************)
EXTENDS Naturals, Sequences

CONSTANTS
    Run,
    MaxOutput   \* how often a child writes

VARIABLES
    state,      \* the state of the process as the signals tell it
    result,     \* the error of the ProcessResultData it ended with
    written,    \* how much the child has written
    output      \* what its reader has been given, in the order given

vars == <<state, result, written, output>>

Init ==
    /\ state = [r \in Run |-> "NotRunning"]
    /\ result = [r \in Run |-> "none"]
    /\ written = [r \in Run |-> 0]
    /\ output = [r \in Run |-> <<>>]

(* The first n pieces the child wrote, in the order it wrote them.          *)
FirstOf(n) == [i \in 1 .. n |-> i]

(* ProcessInterface::start: called in Starting, entered just before.        *)
Start(r) ==
    /\ state[r] = "NotRunning" /\ result[r] = "none"
    /\ state' = [state EXCEPT ![r] = "Starting"]
    /\ UNCHANGED <<result, written, output>>

(* Emitted in Starting only; the process enters Running.                    *)
Started(r) ==
    /\ state[r] = "Starting"
    /\ state' = [state EXCEPT ![r] = "Running"]
    /\ UNCHANGED <<result, written, output>>

(* Emitted in Running only.                                                 *)
ReadyRead(r) ==
    /\ state[r] = "Running"
    /\ \E n \in Len(output[r]) + 1 .. written[r] :
            output' = [output EXCEPT ![r] = FirstOf(n)]
    /\ UNCHANGED <<state, result, written>>

(* Emitted in Starting with the error FailedToStart, or in Running with     *)
(* another one, when all that the child wrote has been given out.           *)
Done(r) ==
    /\ \/ state[r] = "Starting" /\ result' = [result EXCEPT ![r] = "FailedToStart"]
       \/ /\ state[r] = "Running"
          /\ \E error \in {"Crashed", "UnknownError"} :
                result' = [result EXCEPT ![r] = error]
    /\ output[r] = FirstOf(written[r])
    /\ state' = [state EXCEPT ![r] = "NotRunning"]
    /\ UNCHANGED <<written, output>>

(* The owner closes the process; nothing more is given out.                 *)
Close(r) ==
    /\ state' = [state EXCEPT ![r] = "Closed"]
    /\ UNCHANGED <<result, written, output>>

(* External: the child writes, at its own pace.                             *)
ChildWrites(r) ==
    /\ written[r] < MaxOutput
    /\ written' = [written EXCEPT ![r] = @ + 1]
    /\ UNCHANGED <<state, result, output>>

Next ==
    \E r \in Run :
        \/ Start(r) \/ Started(r) \/ ReadyRead(r) \/ Done(r) \/ Close(r)
        \/ ChildWrites(r)

Spec == Init /\ [][Next]_vars
=============================================================================
