------------------------------ MODULE Matching ------------------------------
(***************************************************************************)
(* The matching rules of canonicalizeBusinessCandidate, as operators on a  *)
(* view of the database: which Business a candidate belongs to, and the    *)
(* rows after the candidate has been linked to it.                         *)
(*                                                                         *)
(* A view has the candidate rows and the Business rows.  A Business is     *)
(* created for one candidate and never deleted, so that candidate names it.*)
(* Text is kept as values with a normal form; scores are out of 100, and   *)
(* the weighted score out of 10000.                                        *)
(***************************************************************************)
EXTENDS Integers, FiniteSets

CONSTANTS
  Candidates,         \* BusinessCandidate rows that may come to exist
  WorkspaceOf,        \* the workspace of a candidate
  ListingOf,          \* its provider and providerExternalId
  Values, None,       \* texts of identity columns; None is null (or empty)
  Normal,             \* the normal form of a text (normalize.ts)
  NameSimilarity,     \* of two normal forms, 0 .. 100
  AddressSimilarity

Fields == {"name", "address", "city", "postal", "phone", "domain"}

Texts == Values \cup {None}

Identities == [Fields -> Texts]

ASSUME MatchingAssumption ==
  /\ IsFiniteSet(Candidates)
  /\ None \notin Values
  /\ None \notin Candidates
  /\ Normal \in [Texts -> Texts] /\ Normal[None] = None
  /\ NameSimilarity \in [Texts \X Texts -> 0 .. 100]
  /\ AddressSimilarity \in [Texts \X Texts -> 0 .. 100]

Reasons == {"PROVIDER_EXTERNAL_ID", "CANONICAL_DOMAIN", "PHONE",
            "NAME_ADDRESS_EXACT", "NAME_CITY_POSTAL_EXACT",
            "FUZZY_HIGH_CONFIDENCE", "FUZZY_LOW_CONFIDENCE_NOT_MERGED",
            "NEW_CANONICAL"}

\* A candidate row; business is matchedBusinessId.
Rows == [identity : Identities, business : Candidates \cup {None},
         reason : Reasons \cup {"none"}]

Absent == [identity |-> "none"]

\* A Business row; phone is the text next to its normal form.
Businesses == [workspace : {WorkspaceOf[c] : c \in Candidates},
               phone : Texts,
               normal : [Fields -> {Normal[t] : t \in Texts}]]

Nothing == [workspace |-> "none"]

Views == [row : [Candidates -> Rows \cup {Absent}],
          business : [Candidates -> Businesses \cup {Nothing}]]

Exists(view, c) == view.row[c] # Absent

Matched(view, c) == Exists(view, c) /\ view.row[c].business # None
-----------------------------------------------------------------------------
\* normalizeIdentity
NormalIdentity(identity) == [f \in Fields |-> Normal[identity[f]]]

\* hasStrongIdentifierConflict
Conflict(left, right) ==
  \E f \in {"domain", "phone"} :
    left[f] # None /\ right[f] # None /\ left[f] # right[f]

\* scoreFuzzyMatch
Score(left, right) ==
  60 * NameSimilarity[left["name"], right["name"]]
    + 40 * AddressSimilarity[left["address"], right["address"]]

\* The thresholds of canAutoMergeFuzzy on the best match itself.
GoodEnough(left, right) ==
  /\ Score(left, right) >= 9300
  /\ NameSimilarity[left["name"], right["name"]] >= 90
  /\ AddressSimilarity[left["address"], right["address"]] >= 88

WorkspaceBusinesses(view, c) ==
  {b \in Candidates : /\ view.business[b] # Nothing
                      /\ view.business[b].workspace = WorkspaceOf[c]}

\* Businesses of the workspace that agree on the fields, all of them given.
Agreeing(view, c, fields) ==
  LET normal == NormalIdentity(view.row[c].identity)
  IN {b \in WorkspaceBusinesses(view, c) :
        \A f \in fields : normal[f] # None /\ view.business[b].normal[f] = normal[f]}

Vetoed(view, c) ==
  {b \in WorkspaceBusinesses(view, c) :
     Conflict(NormalIdentity(view.row[c].identity), view.business[b].normal)}

\* Mutant of SameListing: looks at this candidate's campaign only.
SameListingNowhere(view, c) == {}

\* findProviderIdentityMatch: what the other candidates of the listing match.
SameListing(view, c) ==
  {view.row[d].business : d \in
     {d \in Candidates \ {c} : /\ Matched(view, d)
                               /\ WorkspaceOf[d] = WorkspaceOf[c]
                               /\ ListingOf[d] = ListingOf[c]}}

\* The exact rules, in their order; a rule decides when it has a single match.
ExactRules(view, c) ==
  << [reason |-> "PROVIDER_EXTERNAL_ID",   matches |-> SameListing(view, c)],
     [reason |-> "CANONICAL_DOMAIN",       matches |-> Agreeing(view, c, {"domain"})],
     [reason |-> "PHONE",                  matches |-> Agreeing(view, c, {"phone"})],
     [reason |-> "NAME_ADDRESS_EXACT",
      matches |-> Agreeing(view, c, {"name", "address"}) \ Vetoed(view, c)],
     [reason |-> "NAME_CITY_POSTAL_EXACT",
      matches |-> Agreeing(view, c, {"name", "city", "postal"}) \ Vetoed(view, c)] >>

Deciding(rules) == {i \in DOMAIN rules : Cardinality(rules[i].matches) = 1}

\* findFuzzyPool without the vetoed: by postal code if there is one, else by city.
FuzzyPool(view, c) ==
  Agreeing(view, c, IF Normal[view.row[c].identity["postal"]] # None
                    THEN {"postal"} ELSE {"city"}) \ Vetoed(view, c)

FuzzyDecision(view, c) ==
  LET normal   == NormalIdentity(view.row[c].identity)
      pool     == FuzzyPool(view, c)
      score[b \in pool] == Score(normal, view.business[b].normal)
      best     == CHOOSE b \in pool : \A d \in pool : score[b] >= score[d]
      alone    == \A d \in pool \ {best} : score[best] - score[d] >= 300
  IN CASE pool # {} /\ GoodEnough(normal, view.business[best].normal) /\ alone ->
            [business |-> best, reason |-> "FUZZY_HIGH_CONFIDENCE"]
       [] pool # {} /\ score[best] >= 8000
            /\ ~(GoodEnough(normal, view.business[best].normal) /\ alone) ->
            [business |-> c, reason |-> "FUZZY_LOW_CONFIDENCE_NOT_MERGED"]
       [] OTHER -> [business |-> c, reason |-> "NEW_CANONICAL"]

\* The business a candidate without one gets, and why; itself if it is new.
Decision(view, c) ==
  LET rules == ExactRules(view, c)
      first == CHOOSE i \in Deciding(rules) : \A j \in Deciding(rules) : i <= j
  IN IF Deciding(rules) # {}
     THEN [business |-> CHOOSE b \in rules[first].matches : TRUE,
           reason   |-> rules[first].reason]
     ELSE FuzzyDecision(view, c)
-----------------------------------------------------------------------------
\* Mutant of Founded: keeps the texts as they were found.
FoundedRaw(view, c) ==
  [workspace |-> WorkspaceOf[c],
   phone     |-> view.row[c].identity["phone"],
   normal    |-> view.row[c].identity]

\* createCanonical: the new Business row.
Founded(view, c) ==
  [workspace |-> WorkspaceOf[c],
   phone     |-> view.row[c].identity["phone"],
   normal    |-> NormalIdentity(view.row[c].identity)]

\* Mutant of Enriched: takes the candidate's phone whether there was one or not.
EnrichedAlways(view, c, b) ==
  LET normal == NormalIdentity(view.row[c].identity)
  IN [view.business[b] EXCEPT
        !.phone = IF normal["phone"] # None THEN view.row[c].identity["phone"] ELSE @,
        !.normal["phone"]  = IF normal["phone"] # None THEN normal["phone"] ELSE @,
        !.normal["domain"] = IF @ = None THEN normal["domain"] ELSE @]

\* linkExisting: a missing phone or domain of the Business is filled in.
Enriched(view, c, b) ==
  LET old    == view.business[b]
      normal == NormalIdentity(view.row[c].identity)
      fills  == old.phone = None /\ normal["phone"] # None
  IN [old EXCEPT
        !.phone = IF fills THEN view.row[c].identity["phone"] ELSE @,
        !.normal["phone"]  = IF fills THEN normal["phone"] ELSE @,
        !.normal["domain"] = IF @ = None THEN normal["domain"] ELSE @]

\* Mutant of Canonicalized: decides again for a candidate that has a business.
CanonicalizedAgain(view, c) ==
  LET decision == Decision(view, c)
      b        == decision.business
  IN [row      |-> [view.row EXCEPT ![c].business = b, ![c].reason = decision.reason],
      business |-> [view.business EXCEPT
                      ![b] = IF b = c THEN Founded(view, c) ELSE Enriched(view, c, b)]]

\* canonicalizeBusinessCandidate: a candidate that has a business keeps it.
Canonicalized(view, c) ==
  LET decision == Decision(view, c)
      b        == decision.business
  IN IF Matched(view, c) THEN view
     ELSE [row      |-> [view.row EXCEPT ![c].business = b,
                                         ![c].reason = decision.reason],
           business |-> [view.business EXCEPT
                           ![b] = IF b = c THEN Founded(view, c)
                                  ELSE Enriched(view, c, b)]]
=============================================================================
