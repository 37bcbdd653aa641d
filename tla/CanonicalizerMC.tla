-------------------------- MODULE CanonicalizerMC --------------------------
(* A finite instance of Canonicalizer for TLC. *)
EXTENDS Canonicalizer

Id(name, address, postal, phone, domain) ==
  [f \in Fields |-> CASE f = "name" -> name [] f = "address" -> address
                      [] f = "postal" -> postal [] f = "phone" -> phone
                      [] f = "domain" -> domain [] OTHER -> None]

\* Two old candidates and two new ones in workspace 1, a new one in workspace 2;
\* candidates 3 and 5 are found where candidate 2 was.
MCCandidates == 1 .. 5
MCOld == {1, 2}
MCWorkspaceOf == <<1, 1, 1, 1, 2>>
MCListingOf == <<1, 2, 2, 3, 2>>

\* Names n and m are close, l is less so; P and p are one phone, x is none.
MCValues == {"n", "m", "l", "a", "z", "P", "p", "q", "x", "d"}
MCNormal == [v \in MCValues \cup {None} |->
               CASE v = "P" -> "p" [] v = "x" -> None [] OTHER -> v]
MCNameSimilarity ==
  [pair \in (MCValues \cup {None}) \X (MCValues \cup {None}) |->
     CASE pair[1] = pair[2] -> 100
       [] {pair[1], pair[2]} = {"n", "m"} -> 92
       [] OTHER -> 70]
MCAddressSimilarity ==
  [pair \in (MCValues \cup {None}) \X (MCValues \cup {None}) |->
     IF pair[1] = pair[2] THEN 100 ELSE 0]

MCOldIdentities ==
  { Id("n", "a", "z", "P", None),     \* a phone
    Id("n", "a", None, "q", "d"),     \* another phone, and a domain
    Id("n", "a", "z", None, None),    \* nothing to tell it apart
    Id("m", "a", "z", "x", "d"),      \* close to both, with a phone that is none
    Id("l", "a", "z", None, None) }   \* less close to the first

MCFound == {[name |-> "n", address |-> "a"]}
=============================================================================
