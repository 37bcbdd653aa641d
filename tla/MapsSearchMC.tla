---------------------------- MODULE MapsSearchMC ----------------------------
(* Instances of MapsSearch for TLC. *)
EXTENDS MapsSearch

\* A list that changes its order and length between two sessions.
ChangingFeeds == {<<1, 2, 3, 4, 5>>, <<4, 2, 1>>}

\* A list that stays as it is.
SteadyFeeds == {<<1, 2, 3, 4, 5, 6>>}
=============================================================================
