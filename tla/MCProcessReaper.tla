---------------------------- MODULE MCProcessReaper ----------------------------
(* Small instances of ProcessReaper for TLC.                                *)
EXTENDS ProcessReaper
=============================================================================
