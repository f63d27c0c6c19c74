----------------------------- MODULE MCHashTab -----------------------------
(***************************************************************************)
(* An instance of HashTab for TLC: three keys belong at position 2 of a    *)
(* table of four, so that they run over its end, and one of them belongs   *)
(* elsewhere in a table of eight; the fourth key is in their way.          *)
(***************************************************************************)
EXTENDS HashTab

Clustered == [k \in Keys |-> CASE k = "a" -> 2 [] k = "b" -> 6 [] k = "c" -> 2 [] k = "d" -> 0]
=============================================================================
