----------------------------- MODULE MCSpotSync -----------------------------
(* Instances of SpotSync for TLC: requests are interchangeable.               *)
EXTENDS SpotSync, TLC

Symmetry == Permutations(Editors)
=============================================================================
