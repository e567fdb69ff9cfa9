----------------------------- MODULE MCBuildManager -----------------------------
(* Two projects, one of them with two targets, for TLC.                     *)
EXTENDS BuildManager, TLC

CONSTANTS a1, a2, a3, b1, b2, ta, ta2, tb, A, B

MCTarget == (a1 :> ta) @@ (a2 :> ta) @@ (a3 :> ta2) @@ (b1 :> tb) @@ (b2 :> tb)
MCProject == (ta :> A) @@ (ta2 :> A) @@ (tb :> B)

(* The active target of A, all of its targets, B, all projects, a rebuild   *)
(* of all projects, and a list with nothing that is enabled.                *)
Usual == {[steps |-> <<a1, a2>>, deploys |-> FALSE],
          [steps |-> <<a2, a1, a3>>, deploys |-> TRUE],
          [steps |-> <<b1, b2>>, deploys |-> FALSE],
          [steps |-> <<a1, b1, b2>>, deploys |-> FALSE],
          [steps |-> <<b1, a1, b2>>, deploys |-> FALSE],
          [steps |-> <<a2>>, deploys |-> FALSE]}
=============================================================================
