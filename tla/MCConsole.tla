------------------------------- MODULE MCConsole -------------------------------
(* Console with two of everything that may cross: calls, providers, groups,  *)
(* personalities, edits and processes.                                       *)
EXTENDS Console

CONSTANTS p1, p2, v1, v2, t1, t2

OneCatalogue == [p \in Providers |-> IF p = p1 THEN {"a", "b"} ELSE {}]
TwoPresets == [t \in Templates |-> IF t = t1 THEN v1 ELSE v2]
=============================================================================
