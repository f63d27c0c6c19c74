---------------------------- MODULE MCProfilers ----------------------------
(***************************************************************************)
(* Two instruments on one slot or two, so that a slot is used again, and   *)
(* a ring shorter than the number of ticks, so that it wraps around.       *)
(***************************************************************************)
EXTENDS Profilers, TLC

Symmetric == Permutations(Threads)
=============================================================================
