----------------------------- MODULE DiscoveryMC -----------------------------
(* Finite instances of Discovery for TLC. *)
EXTENDS Discovery, TLC

Symmetry == Permutations(Tasks) \cup Permutations(Attempts)
              \cup Permutations(Planners) \cup Permutations(Ids)
=============================================================================
