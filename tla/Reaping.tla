-------------------------------- MODULE Reaping --------------------------------
(***************************************************************************)
(* What ProcessReaper promises (libs/utils/processreaper.h): a live        *)
(* process handed to it is ended and deleted, without its owner waiting    *)
(* for that; but who destroys the reaper waits for all of them.            *)
(***************************************************************************)
CONSTANT Process

VARIABLES
    status,     \* of a process: "owned", "reaping" or "gone"
    phase       \* of the reaper: "running", "stopping" or "stopped"

vars == <<status, phase>>

Init ==
    /\ status = [p \in Process |-> "owned"]
    /\ phase = "running"

Reap(p) ==
    /\ phase = "running" /\ status[p] = "owned"
    /\ status' = [status EXCEPT ![p] = "reaping"]
    /\ UNCHANGED phase

(* A process is deleted: by its owner when it has ended before, or by the   *)
(* reaper.                                                                  *)
Delete(p, from) ==
    /\ status[p] = from
    /\ status' = [status EXCEPT ![p] = "gone"]
    /\ UNCHANGED phase

BeginStop ==
    /\ phase = "running"
    /\ phase' = "stopping"
    /\ UNCHANGED status

Stop ==
    /\ phase = "stopping" /\ \A p \in Process : status[p] # "reaping"
    /\ phase' = "stopped"
    /\ UNCHANGED status

Next ==
    \/ \E p \in Process : Reap(p) \/ Delete(p, "owned") \/ Delete(p, "reaping")
    \/ BeginStop
    \/ Stop

Safety == Init /\ [][Next]_vars

Spec ==
    /\ Safety
    /\ \A p \in Process : WF_vars(Delete(p, "reaping"))
    /\ WF_vars(Stop)
=============================================================================
