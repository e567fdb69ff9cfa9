--------------------------- MODULE MCProcessLauncher ---------------------------
(* Small instances of ProcessLauncher for TLC.                              *)
EXTENDS ProcessLauncher

CONSTANTS t1, t2, thr1, thr2

OneThread == [t \in Token |-> thr1]
TwoThreads == [t \in Token |-> IF t = t1 THEN thr1 ELSE thr2]

(* With TwoThreads, a token and its thread may change places with the other *)
(* two.                                                                     *)
SwapThreads ==
    {[x \in {t1, t2, thr1, thr2} |-> x],
     [x \in {t1, t2, thr1, thr2} |->
        CASE x = t1 -> t2 [] x = t2 -> t1 [] x = thr1 -> thr2 [] OTHER -> thr1]}
=============================================================================
