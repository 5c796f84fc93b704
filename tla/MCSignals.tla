------------------------------- MODULE MCSignals -------------------------------
(* Signals with two workers of one process. *)
EXTENDS Signals
==============================================================================
