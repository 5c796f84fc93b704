--------------------------- MODULE MCControlPlane ---------------------------
(* ControlPlane on small instances: one or two editors, deliveries and     *)
(* runners, two wallets, two or three commits.                             *)
EXTENDS ControlPlane, TLC

CONSTANTS w1, w2, e1, e2, d1, d2, r1, r2

MCSymmetry == Permutations(Wallets) \cup Permutations(Editors)
              \cup Permutations(Deliveries) \cup Permutations(Runners)
==============================================================================
