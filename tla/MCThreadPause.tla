--------------------------- MODULE MCThreadPause ---------------------------
(***************************************************************************)
(* One main thread, three slots for the threads the application starts and *)
(* one daemon; two rounds instead of eight, so that few threads make a     *)
(* pause give up.                                                          *)
(***************************************************************************)
EXTENDS ThreadPause

\* Every environment without faults, and the richest of those with faults.
MostEnvs == {e \in [start : BOOLEAN, spawning : BOOLEAN, faults : BOOLEAN] :
               e.faults => e.start /\ e.spawning}
=============================================================================
