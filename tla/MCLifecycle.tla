---------------------------- MODULE MCLifecycle ----------------------------
(***************************************************************************)
(* A few requests of every kind a run allows: enough for each to arrive    *)
(* before, between and after the steps of start and exit.                  *)
(***************************************************************************)
EXTENDS Lifecycle

AllEnvs == [start : BOOLEAN, exit : BOOLEAN, signals : BOOLEAN, faults : BOOLEAN]

\* The agent holds the exit, and nothing goes wrong.
HeldAtExit == {[start |-> FALSE, exit |-> TRUE, signals |-> FALSE, faults |-> FALSE]}
=============================================================================
