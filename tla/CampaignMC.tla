----------------------------- MODULE CampaignMC -----------------------------
(* Finite instances of Campaign for TLC. *)
EXTENDS Campaign, TLC

Symmetry == Permutations(Requests) \cup Permutations(Planners)
=============================================================================
