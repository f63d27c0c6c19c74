------------------------------ MODULE MCErrLog ------------------------------
(***************************************************************************)
(* The ring with three entries and three different messages: it fills up,  *)
(* wraps around and evicts several times.                                  *)
(***************************************************************************)
EXTENDS ErrLog
=============================================================================
