-------------------------- MODULE MCRunFinalization --------------------------
(* Two deliveries of the submit message race two finalizers.               *)
EXTENDS RunFinalization, TLC

CONSTANTS w1, w2, f1, f2

MCSymmetry == Permutations({w1, w2}) \cup Permutations({f1, f2})
==============================================================================
