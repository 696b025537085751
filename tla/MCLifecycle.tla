----------------------------- MODULE MCLifecycle -----------------------------
(* Two `up`s and a `down` of one project, at once or one after another.     *)
EXTENDS ProjectLifecycle, TLC

Symmetry == Permutations(Sups) \cup Permutations(Ups) \cup Permutations(Downs)
=============================================================================
