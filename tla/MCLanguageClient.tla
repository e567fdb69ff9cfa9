---------------------------- MODULE MCLanguageClient ----------------------------
(* A source file and the header of a form that it includes, for TLC.        *)
EXTENDS LanguageClient

CONSTANTS source, header

MCIncludes == [doc \in Docs |-> IF doc = source THEN {header} ELSE {}]
=============================================================================
