------------------------------ MODULE MCDeboard ------------------------------
(* Two automations of one tenant and a deboard pass that is called again and *)
(* again.  No symmetry: the run checks liveness.                             *)
EXTENDS Deboard

CONSTANTS a1, a2, p1
==============================================================================
