------------------------- MODULE CanonicalizerProofs -------------------------
(***************************************************************************)
(* Proofs about Canonicalizer, for any candidates, workspaces, listings,   *)
(* texts, similarities and numbers of pages and backfills.                 *)
(*                                                                         *)
(* A decision is right about the rows that its transaction sees, and these *)
(* are right about the workspace because nobody else writes there: rows of *)
(* the workspace change only under its lock.  SoundIn says what a view of  *)
(* a workspace must satisfy for a decision to keep it so.                  *)
(***************************************************************************)
EXTENDS Canonicalizer, FiniteSetTheorems, WellFoundedInduction, TLAPS

In(w) == {c \in Candidates : WorkspaceOf[c] = w}

Strong == {"domain", "phone"}

\* What a candidate says of phone and domain is what the business says, or the
\* business has a phone that is none, and keeps it.
Agreed(v, c, b) ==
  \A f \in Strong :
    Normal[v.row[c].identity[f]] # None =>
      \/ v.business[b].normal[f] = Normal[v.row[c].identity[f]]
      \/ f = "phone" /\ v.business[b].phone # None /\ v.business[b].normal[f] = None

\* Rows have their types, and a business the workspace of its founder.
WellFormed(v) ==
  /\ v \in Views
  /\ \A b \in Candidates : v.business[b] # Nothing => v.business[b].workspace = WorkspaceOf[b]

\* A match is with a business of the workspace, ...
LinksIn(v, w) ==
  \A c \in In(w) : Matched(v, c) =>
    v.row[c].business \in In(w) /\ v.business[v.row[c].business] # Nothing

\* ... whose founder is matched and which has a phone if it has one to compare.
FoundersIn(v, w) ==
  \A b \in In(w) : v.business[b] # Nothing =>
    /\ Matched(v, b)
    /\ v.business[b].normal["phone"] # None => v.business[b].phone # None

ListingsIn(v, w) ==
  \A c, d \in In(w) :
    Matched(v, c) /\ Matched(v, d) /\ ListingOf[c] = ListingOf[d]
      => v.row[c].business = v.row[d].business

WeakIn(v, w) ==
  \A c \in In(w) : Matched(v, c) /\ v.row[c].reason \in WeakReasons =>
    Agreed(v, c, v.row[c].business)

\* Two businesses of one name and address, and two that phone or domain tell apart.
Alike(v, b, d) ==
  /\ b # d /\ v.business[b] # Nothing /\ v.business[d] # Nothing
  /\ \A f \in {"name", "address"} :
       v.business[b].normal[f] = v.business[d].normal[f] /\ v.business[b].normal[f] # None

Apart(v, b, d) == Conflict(v.business[b].normal, v.business[d].normal)

\* Where two businesses are alike and not apart, two others of the name and address
\* are apart: a candidate that is like one of them has had no single match.
AmbiguousIn(v, w) ==
  \A b, d \in In(w) : Alike(v, b, d) /\ ~Apart(v, b, d) =>
    \E e, f \in In(w) : Alike(v, e, f) /\ Apart(v, e, f) /\ (Alike(v, b, e) \/ b = e)

SoundIn(v, w) ==
  LinksIn(v, w) /\ FoundersIn(v, w) /\ ListingsIn(v, w) /\ WeakIn(v, w) /\ AmbiguousIn(v, w)

\* A match and what a business is known by are in the new view what they were.
KeepsIn(old, new, w) ==
  \A c \in In(w) :
    /\ Matched(old, c) => /\ Matched(new, c)
                          /\ new.row[c].business = old.row[c].business
                          /\ new.row[c].reason = old.row[c].reason
    /\ old.business[c] # Nothing =>
         /\ new.business[c] # Nothing
         /\ \A f \in Fields : old.business[c].normal[f] # None =>
              new.business[c].normal[f] = old.business[c].normal[f]

SameIn(old, new, w) ==
  \A c \in In(w) : old.row[c] = new.row[c] /\ old.business[c] = new.business[c]
-----------------------------------------------------------------------------
(***************************************************************************)
(* Rows.                                                                   *)
(***************************************************************************)
LEMMA RowIsNotAbsent == \A row \in Rows : row # Absent
<1> SUFFICES ASSUME NEW row \in Rows, row = Absent PROVE FALSE
  OBVIOUS
<1>1. DOMAIN row = {"identity", "business", "reason"}
  BY DEF Rows
<1>2. DOMAIN row = {"identity"}
  BY DEF Absent
<1> QED
  BY <1>1, <1>2

LEMMA BusinessIsSomething ==
  \A workspace, phone, normal :
    [workspace |-> workspace, phone |-> phone, normal |-> normal] # Nothing
<1> SUFFICES ASSUME NEW workspace, NEW phone, NEW normal,
                    [workspace |-> workspace, phone |-> phone, normal |-> normal] = Nothing
             PROVE  FALSE
  OBVIOUS
<1>1. DOMAIN [workspace |-> workspace, phone |-> phone, normal |-> normal]
        = {"workspace", "phone", "normal"}
  OBVIOUS
<1>2. DOMAIN Nothing = {"workspace"}
  BY DEF Nothing
<1> QED
  BY <1>1, <1>2

\* A candidate that exists has a typed row, a business that exists a typed one.
LEMMA RowTypes ==
  ASSUME NEW v \in Views, NEW c \in Candidates
  PROVE  /\ Exists(v, c) => v.row[c] \in Rows
         /\ v.business[c] # Nothing => v.business[c] \in Businesses
BY DEF Views, Exists

LEMMA NormalTypes ==
  ASSUME NEW v \in Views, NEW c \in Candidates, Exists(v, c)
  PROVE  /\ v.row[c].identity \in [Fields -> Texts]
         /\ \A f \in Fields : NormalIdentity(v.row[c].identity)[f] = Normal[v.row[c].identity[f]]
         /\ NormalIdentity(v.row[c].identity) \in [Fields -> {Normal[t] : t \in Texts}]
<1>1. v.row[c].identity \in [Fields -> Texts]
  BY RowTypes DEF Rows, Identities
<1> QED
  BY <1>1 DEF NormalIdentity

\* A set of numbers has a least one.
LEMMA LeastOf == ASSUME NEW T \in SUBSET Nat, T # {} PROVE \E m \in T : \A n \in T : m <= n
<1> DEFINE R == {p \in Nat \X Nat : p[1] < p[2]}
<1>1. IsWellFoundedOn(R, Nat)
  <2>1. OpToRel(<, Nat) = R
    BY DEF OpToRel
  <2> QED
    BY <2>1, NatLessThanWellFounded
<1>2. \A n, m \in Nat : <<n, m>> \notin R => m <= n
  <2> TAKE n \in Nat, m \in Nat
  <2>1. <<n, m>> \in Nat \X Nat /\ <<n, m>>[1] = n /\ <<n, m>>[2] = m
    OBVIOUS
  <2> QED
    BY <2>1
<1> HIDE DEF R
<1>3. PICK m \in T : \A n \in T : <<n, m>> \notin R
  BY <1>1, WFMin
<1>4. ASSUME NEW n \in T PROVE m <= n
  <2>1. n \in Nat /\ m \in Nat /\ <<n, m>> \notin R
    BY <1>3
  <2> QED
    BY ONLY <2>1, <1>2
<1> QED
  BY <1>4

\* A candidate with the best score.
LEMMA BestOf ==
  ASSUME NEW S, S # {}, NEW score \in [S -> {n \in Nat : n <= 10000}]
  PROVE  \E b \in S : \A d \in S : score[b] >= score[d]
<1> DEFINE T == {m \in Nat : \A b \in S : score[b] <= m}
<1>1. \A b \in S : score[b] \in Nat /\ score[b] <= 10000
  OBVIOUS
<1>2. 10000 \in T
  BY <1>1
<1>3. T \in SUBSET Nat /\ T # {}
  BY <1>2
<1>4. PICK m \in T : \A n \in T : m <= n
  <2> HIDE DEF T
  <2> QED
    BY ONLY <1>3, LeastOf
<1>5. m \in Nat /\ \A b \in S : score[b] <= m
  OBVIOUS
<1>6. \E b \in S : score[b] = m
  <2> SUFFICES ASSUME \A b \in S : score[b] # m PROVE FALSE
    OBVIOUS
  <2>1. \A b \in S : score[b] <= m - 1
    BY <1>1, <1>5
  <2>2. m - 1 \in Nat
    BY <1>1, <1>5, <2>1
  <2>3. m - 1 \in T
    BY <2>1, <2>2
  <2> HIDE DEF T
  <2>4. m <= m - 1
    BY <1>4, <2>3
  <2> QED
    BY <1>5, <2>4
<1> QED
  BY <1>5, <1>6
-----------------------------------------------------------------------------
(***************************************************************************)
(* The decision.                                                           *)
(***************************************************************************)
Normals == [Fields -> {Normal[t] : t \in Texts}]

LEMMA ScoreType ==
  ASSUME NEW left \in Normals, NEW right \in Normals
  PROVE  Score(left, right) \in {n \in Nat : n <= 10000}
<1> DEFINE N == {n \in Nat : n <= 100}
<1>1. 0 .. 100 = N
  OBVIOUS
<1>2. NameSimilarity \in [Texts \X Texts -> N] /\ AddressSimilarity \in [Texts \X Texts -> N]
  BY <1>1, MatchingAssumption
<1>3. \A t \in Texts : Normal[t] \in Texts
  BY MatchingAssumption
<1>4. /\ left["name"] \in Texts /\ right["name"] \in Texts
      /\ left["address"] \in Texts /\ right["address"] \in Texts
  BY <1>3 DEF Normals, Fields
<1>5. \A s, t \in Texts : NameSimilarity[s, t] \in N /\ AddressSimilarity[s, t] \in N
  <2> TAKE s \in Texts, t \in Texts
  <2>1. <<s, t>> \in Texts \X Texts
    OBVIOUS
  <2> HIDE DEF N
  <2> QED
    BY <1>2, <2>1
<1>6. \A n, m \in N : 60 * n + 40 * m \in Nat /\ 60 * n + 40 * m <= 10000
  OBVIOUS
<1> DEFINE n == NameSimilarity[left["name"], right["name"]]
           m == AddressSimilarity[left["address"], right["address"]]
<1>7. n \in N /\ m \in N
  <2> HIDE DEF N
  <2> QED
    BY <1>4, <1>5
<1>8. Score(left, right) = 60 * n + 40 * m
  BY DEF Score
<1> HIDE DEF n, m, N
<1> QED
  BY <1>6, <1>7, <1>8

\* A business found by a rule on identity is one of the workspace.
LEMMA AgreeingIsIn ==
  ASSUME NEW v, WellFormed(v), NEW w, NEW c \in In(w), NEW fields, NEW b \in Agreeing(v, c, fields)
  PROVE  b \in In(w) /\ v.business[b] # Nothing /\ b \in WorkspaceBusinesses(v, c)
BY DEF WellFormed, In, Agreeing, WorkspaceBusinesses

LEMMA NotVetoed ==
  ASSUME NEW v, NEW c, NEW b \in WorkspaceBusinesses(v, c), b \notin Vetoed(v, c)
  PROVE  ~Conflict(NormalIdentity(v.row[c].identity), v.business[b].normal)
BY DEF Vetoed

\* The fuzzy rule: nothing, or a member of the pool.
LEMMA FuzzyFacts ==
  ASSUME NEW v \in Views, NEW c \in Candidates, Exists(v, c)
  PROVE  \/ /\ FuzzyDecision(v, c).business = c
            /\ FuzzyDecision(v, c).reason \in Reasons \ (WeakReasons)
         \/ /\ FuzzyDecision(v, c).business \in FuzzyPool(v, c)
            /\ FuzzyDecision(v, c).reason = "FUZZY_HIGH_CONFIDENCE"
<1> DEFINE normal == NormalIdentity(v.row[c].identity)
           pool == FuzzyPool(v, c)
           score == [b \in pool |-> Score(normal, v.business[b].normal)]
           best == CHOOSE b \in pool : \A d \in pool : score[b] >= score[d]
           good == GoodEnough(normal, v.business[best].normal)
           alone == \A d \in pool \ {best} : score[best] - score[d] >= 300
<1>1. normal \in Normals
  BY NormalTypes DEF Normals
<1>2. \A b \in pool : b \in Candidates /\ v.business[b] # Nothing
  BY DEF FuzzyPool, Agreeing, WorkspaceBusinesses
<1>3. \A b \in pool : v.business[b].normal \in Normals
  BY <1>2, RowTypes DEF Businesses, Normals
<1>4. score \in [pool -> {n \in Nat : n <= 10000}]
  <2> HIDE DEF normal, pool
  <2>1. \A b \in pool : Score(normal, v.business[b].normal) \in {n \in Nat : n <= 10000}
    BY <1>1, <1>3, ScoreType
  <2> QED
    BY <2>1
<1>5. pool # {} => best \in pool
  <2> HIDE DEF score, pool
  <2> QED
    BY <1>4, BestOf
<1>6. FuzzyDecision(v, c) =
        CASE pool # {} /\ good /\ alone -> [business |-> best, reason |-> "FUZZY_HIGH_CONFIDENCE"]
          [] pool # {} /\ score[best] >= 8000 /\ ~(good /\ alone) ->
               [business |-> c, reason |-> "FUZZY_LOW_CONFIDENCE_NOT_MERGED"]
          [] OTHER -> [business |-> c, reason |-> "NEW_CANONICAL"]
  BY DEF FuzzyDecision
<1> HIDE DEF normal, pool, score, best, good, alone
<1>7. \/ pool # {} /\ FuzzyDecision(v, c) = [business |-> best, reason |-> "FUZZY_HIGH_CONFIDENCE"]
      \/ FuzzyDecision(v, c) = [business |-> c, reason |-> "FUZZY_LOW_CONFIDENCE_NOT_MERGED"]
      \/ FuzzyDecision(v, c) = [business |-> c, reason |-> "NEW_CANONICAL"]
  BY <1>6
<1> QED
  BY <1>5, <1>7 DEF Reasons, WeakReasons, pool

\* The other candidates of a listing have one business, of the workspace.
LEMMA SameListingFacts ==
  ASSUME NEW v, NEW w, NEW c \in In(w), LinksIn(v, w), ListingsIn(v, w)
  PROVE  /\ \A x \in SameListing(v, c) : x \in In(w) /\ v.business[x] # Nothing
         /\ \A x, y \in SameListing(v, c) : x = y
<1>1. \A x \in SameListing(v, c) :
        \E d \in In(w) : Matched(v, d) /\ ListingOf[d] = ListingOf[c] /\ x = v.row[d].business
  BY DEF SameListing, In
<1>2. \A x \in SameListing(v, c) : x \in In(w) /\ v.business[x] # Nothing
  BY <1>1 DEF LinksIn
<1>3. ASSUME NEW x \in SameListing(v, c), NEW y \in SameListing(v, c) PROVE x = y
  BY <1>1 DEF ListingsIn
<1> QED
  BY <1>2, <1>3

\* The exact rules: the first that has a single match decides.
LEMMA ExactFacts ==
  ASSUME NEW v, WellFormed(v), NEW w, NEW c \in In(w), LinksIn(v, w), ListingsIn(v, w),
         Deciding(ExactRules(v, c)) # {}
  PROVE  /\ Decision(v, c).reason \in Reasons
         /\ Decision(v, c).business \in In(w)
         /\ v.business[Decision(v, c).business] # Nothing
         /\ Decision(v, c).reason \in WeakReasons =>
              ~Conflict(NormalIdentity(v.row[c].identity),
                        v.business[Decision(v, c).business].normal)
         /\ \A x \in SameListing(v, c) : Decision(v, c).business = x
<1> DEFINE rules == ExactRules(v, c)
           first == CHOOSE i \in Deciding(rules) : \A j \in Deciding(rules) : i <= j
           match == CHOOSE b \in rules[first].matches : TRUE
<1>1. Decision(v, c) = [business |-> match, reason |-> rules[first].reason]
  BY DEF Decision
<1>2. /\ DOMAIN rules = 1 .. 5
      /\ rules[1] = [reason |-> "PROVIDER_EXTERNAL_ID", matches |-> SameListing(v, c)]
      /\ rules[2] = [reason |-> "CANONICAL_DOMAIN", matches |-> Agreeing(v, c, {"domain"})]
      /\ rules[3] = [reason |-> "PHONE", matches |-> Agreeing(v, c, {"phone"})]
      /\ rules[4] = [reason |-> "NAME_ADDRESS_EXACT",
                     matches |-> Agreeing(v, c, {"name", "address"}) \ Vetoed(v, c)]
      /\ rules[5] = [reason |-> "NAME_CITY_POSTAL_EXACT",
                     matches |-> Agreeing(v, c, {"name", "city", "postal"}) \ Vetoed(v, c)]
  BY DEF ExactRules
<1>3. Deciding(rules) \subseteq 1 .. 5
  BY <1>2 DEF Deciding
<1>4. first \in Deciding(rules) /\ \A j \in Deciding(rules) : first <= j
  <2>1. Deciding(rules) \in SUBSET Nat
    BY <1>3
  <2>2. \E i \in Deciding(rules) : \A j \in Deciding(rules) : i <= j
    <3> DEFINE deciding == Deciding(rules)
    <3>1. deciding \in SUBSET Nat /\ deciding # {}
      BY <2>1
    <3> HIDE DEF deciding
    <3>2. \E i \in deciding : \A j \in deciding : i <= j
      BY ONLY <3>1, LeastOf
    <3> QED
      BY <3>2 DEF deciding
  <2> QED
    BY <2>2
<1>5. Cardinality(rules[first].matches) = 1
  BY <1>4 DEF Deciding
<1>6. match \in rules[first].matches
  <2>1. rules[first].matches # {}
    BY <1>5, FS_EmptySet
  <2> QED
    BY <2>1
<1>7. first \in 1 .. 5
  BY <1>3, <1>4
<1> HIDE DEF rules, first, match
<1>8. first = 1 \/ first = 2 \/ first = 3 \/ first = 4 \/ first = 5
  BY <1>7
<1>9. \A x \in SameListing(v, c) : match = x
  <2> SUFFICES ASSUME NEW x \in SameListing(v, c) PROVE match = x
    OBVIOUS
  <2>1. SameListing(v, c) = {x}
    BY SameListingFacts
  <2>2. 1 \in Deciding(rules)
    <3>1. Cardinality({x}) = 1
      BY FS_Singleton
    <3>2. 1 \in DOMAIN rules /\ rules[1].matches = {x}
      BY <2>1, <1>2
    <3> QED
      BY <3>1, <3>2 DEF Deciding
  <2>3. first = 1
    BY <2>2, <1>4, <1>8
  <2> QED
    BY <2>1, <2>3, <1>2, <1>6
<1>10. rules[first].reason \in Reasons
  BY <1>2, <1>8 DEF Reasons
<1>11. match \in In(w) /\ v.business[match] # Nothing
  <2>1. CASE first = 1
    BY <2>1, <1>2, <1>6, SameListingFacts
  <2>2. CASE first # 1
    <3>1. match \in Agreeing(v, c, {"domain"}) \/ match \in Agreeing(v, c, {"phone"})
          \/ match \in Agreeing(v, c, {"name", "address"})
          \/ match \in Agreeing(v, c, {"name", "city", "postal"})
      BY <2>2, <1>2, <1>6, <1>8
    <3> QED
      BY <3>1, AgreeingIsIn
  <2> QED
    BY <2>1, <2>2
<1>12. rules[first].reason \in WeakReasons =>
         ~Conflict(NormalIdentity(v.row[c].identity), v.business[match].normal)
  <2> SUFFICES ASSUME rules[first].reason \in WeakReasons
               PROVE  ~Conflict(NormalIdentity(v.row[c].identity), v.business[match].normal)
    OBVIOUS
  <2>1. first = 4 \/ first = 5
    BY <1>2, <1>8 DEF WeakReasons
  <2>2. match \notin Vetoed(v, c) /\ (match \in Agreeing(v, c, {"name", "address"})
                                      \/ match \in Agreeing(v, c, {"name", "city", "postal"}))
    BY <2>1, <1>2, <1>6
  <2>3. match \in WorkspaceBusinesses(v, c)
    BY <2>2 DEF Agreeing
  <2> QED
    BY <2>2, <2>3, NotVetoed
<1> QED
  BY <1>1, <1>9, <1>10, <1>11, <1>12

\* What a decision is: the candidate itself, or a business of the workspace that is
\* that of its listing, if there is one.
LEMMA DecisionFacts ==
  ASSUME NEW v, WellFormed(v), NEW w, NEW c \in In(w), LinksIn(v, w), ListingsIn(v, w),
         Exists(v, c), NEW d, d = Decision(v, c)
  PROVE  /\ d.reason \in Reasons
         /\ \/ d.business = c /\ d.reason \notin WeakReasons
            \/ /\ d.business \in In(w) /\ v.business[d.business] # Nothing
               /\ d.reason \in WeakReasons =>
                    ~Conflict(NormalIdentity(v.row[c].identity), v.business[d.business].normal)
         /\ \A x \in SameListing(v, c) : d.business = x
<1>1. CASE Deciding(ExactRules(v, c)) # {}
  BY <1>1, ExactFacts
<1>2. CASE Deciding(ExactRules(v, c)) = {}
  <2>1. d = FuzzyDecision(v, c)
    BY <1>2 DEF Decision
  <2>2. \A x \in SameListing(v, c) : FALSE
    <3> SUFFICES ASSUME NEW x \in SameListing(v, c) PROVE FALSE
      OBVIOUS
    <3>1. SameListing(v, c) = {x}
      BY SameListingFacts
    <3>2. 1 \in DOMAIN ExactRules(v, c) /\ ExactRules(v, c)[1].matches = {x}
      BY <3>1 DEF ExactRules
    <3> QED
      BY <3>2, <1>2, FS_Singleton DEF Deciding
  <2>3. v \in Views /\ c \in Candidates
    BY DEF WellFormed, In
  <2>4. CASE d.business = c /\ d.reason \in Reasons \ WeakReasons
    BY <2>2, <2>4
  <2>5. CASE d.business \in FuzzyPool(v, c) /\ d.reason = "FUZZY_HIGH_CONFIDENCE"
    <3>1. d.business \notin Vetoed(v, c) /\ \E fields : d.business \in Agreeing(v, c, fields)
      BY <2>5 DEF FuzzyPool
    <3>2. d.business \in In(w) /\ v.business[d.business] # Nothing
          /\ d.business \in WorkspaceBusinesses(v, c)
      BY <3>1, AgreeingIsIn
    <3> QED
      BY <2>2, <2>5, <3>1, <3>2, NotVetoed DEF Reasons
  <2> QED
    BY <2>1, <2>3, <2>4, <2>5, FuzzyFacts
<1> QED
  BY <1>1, <1>2
-----------------------------------------------------------------------------
(***************************************************************************)
(* What linking a candidate does to a business.                            *)
(***************************************************************************)
LEMMA EnrichedIs ==
  ASSUME NEW v \in Views, NEW c \in Candidates, NEW b \in Candidates,
         Exists(v, c), v.business[b] # Nothing,
         NEW old, old = v.business[b],
         NEW normal, normal = NormalIdentity(v.row[c].identity),
         NEW e, e = Enriched(v, c, b)
  PROVE  /\ e \in Businesses /\ e # Nothing /\ e.workspace = old.workspace
         /\ IF old.phone = None /\ normal["phone"] # None
            THEN e.phone = v.row[c].identity["phone"] /\ e.normal["phone"] = normal["phone"]
            ELSE e.phone = old.phone /\ e.normal["phone"] = old.normal["phone"]
         /\ e.normal["domain"] = IF old.normal["domain"] = None THEN normal["domain"]
                                 ELSE old.normal["domain"]
         /\ \A f \in Fields \ Strong : e.normal[f] = old.normal[f]
<1> DEFINE fills == old.phone = None /\ normal["phone"] # None
           phone == IF fills THEN v.row[c].identity["phone"] ELSE old.phone
           known == [old.normal EXCEPT
                       !["phone"]  = IF fills THEN normal["phone"] ELSE @,
                       !["domain"] = IF @ = None THEN normal["domain"] ELSE @]
           N == {Normal[t] : t \in Texts}
<1>1. old \in Businesses
  BY RowTypes
<1>2. /\ old.phone \in Texts /\ old.normal \in [Fields -> N]
      /\ old.workspace \in {WorkspaceOf[d] : d \in Candidates}
      /\ old = [workspace |-> old.workspace, phone |-> old.phone, normal |-> old.normal]
  BY <1>1 DEF Businesses
<1>3. v.row[c].identity \in [Fields -> Texts] /\ normal \in [Fields -> N]
  BY NormalTypes
<1>4. e = [workspace |-> old.workspace, phone |-> phone, normal |-> known]
  BY <1>2 DEF Enriched, Fields
<1>5. "phone" \in Fields /\ "domain" \in Fields
  BY DEF Fields
<1>6. phone \in Texts
  BY <1>2, <1>3, <1>5
<1> HIDE DEF N, fills
<1>7. /\ known \in [Fields -> N]
      /\ known["phone"] = IF fills THEN normal["phone"] ELSE old.normal["phone"]
      /\ known["domain"] = IF old.normal["domain"] = None THEN normal["domain"]
                           ELSE old.normal["domain"]
      /\ \A f \in Fields \ Strong : known[f] = old.normal[f]
  BY <1>2, <1>3, <1>5 DEF Strong
<1>8. /\ e.workspace = old.workspace /\ e.phone = phone /\ e.normal = known /\ e # Nothing
  BY <1>4, BusinessIsSomething
<1>9. e \in Businesses
  <2> HIDE DEF phone, known
  <2> QED
    BY <1>2, <1>4, <1>6, <1>7 DEF Businesses, N
<1> QED
  BY <1>7, <1>8, <1>9 DEF fills

LEMMA EnrichedFacts ==
  ASSUME NEW v \in Views, NEW c \in Candidates, NEW b \in Candidates,
         Exists(v, c), v.business[b] # Nothing,
         NEW old, old = v.business[b], old.normal["phone"] # None => old.phone # None,
         NEW normal, normal = NormalIdentity(v.row[c].identity),
         NEW e, e = Enriched(v, c, b)
  PROVE  /\ \A f \in Fields : old.normal[f] # None => e.normal[f] = old.normal[f]
         /\ e.normal["phone"] # None => e.phone # None
         /\ old.phone # None => e.phone # None /\ e.normal["phone"] = old.normal["phone"]
         /\ ~Conflict(normal, old.normal) =>
              \A f \in Strong : normal[f] # None =>
                \/ e.normal[f] = normal[f]
                \/ f = "phone" /\ e.phone # None /\ e.normal[f] = None
<1>1. /\ IF old.phone = None /\ normal["phone"] # None
         THEN e.phone = v.row[c].identity["phone"] /\ e.normal["phone"] = normal["phone"]
         ELSE e.phone = old.phone /\ e.normal["phone"] = old.normal["phone"]
      /\ e.normal["domain"] = IF old.normal["domain"] = None THEN normal["domain"]
                              ELSE old.normal["domain"]
      /\ \A f \in Fields \ Strong : e.normal[f] = old.normal[f]
  BY EnrichedIs
<1>2. normal["phone"] # None => v.row[c].identity["phone"] # None
  <2>1. normal["phone"] = Normal[v.row[c].identity["phone"]]
    BY NormalTypes DEF Fields
  <2> QED
    BY <2>1, MatchingAssumption
<1>3. \A f \in Fields : f = "phone" \/ f = "domain" \/ f \in Fields \ Strong
  BY DEF Strong
<1>4. \A f \in Fields : old.normal[f] # None => e.normal[f] = old.normal[f]
  BY <1>1, <1>3
<1>5. e.normal["phone"] # None => e.phone # None
  BY <1>1, <1>2
<1>6. old.phone # None => e.phone # None /\ e.normal["phone"] = old.normal["phone"]
  BY <1>1
<1>7. ~Conflict(normal, old.normal) =>
        \A f \in Strong : normal[f] # None =>
          \/ e.normal[f] = normal[f]
          \/ f = "phone" /\ e.phone # None /\ e.normal[f] = None
  <2> SUFFICES ASSUME ~Conflict(normal, old.normal), NEW f \in Strong, normal[f] # None
               PROVE  \/ e.normal[f] = normal[f]
                      \/ f = "phone" /\ e.phone # None /\ e.normal[f] = None
    OBVIOUS
  <2>1. old.normal[f] = None \/ old.normal[f] = normal[f]
    BY DEF Conflict, Strong
  <2> QED
    BY <1>1, <2>1 DEF Strong
<1> QED
  BY <1>4, <1>5, <1>6, <1>7

LEMMA FoundedFacts ==
  ASSUME NEW v \in Views, NEW c \in Candidates, Exists(v, c), NEW e, e = Founded(v, c)
  PROVE  /\ e \in Businesses /\ e # Nothing /\ e.workspace = WorkspaceOf[c]
         /\ e.normal["phone"] # None => e.phone # None
         /\ e.normal = NormalIdentity(v.row[c].identity)
<1>1. v.row[c].identity \in [Fields -> Texts]
  BY NormalTypes
<1>2. e = [workspace |-> WorkspaceOf[c], phone |-> v.row[c].identity["phone"],
           normal |-> NormalIdentity(v.row[c].identity)]
  BY DEF Founded
<1>3. e # Nothing
  BY <1>2, BusinessIsSomething
<1>4. e \in Businesses
  BY <1>1, <1>2, NormalTypes DEF Businesses, Fields
<1>5. e.normal["phone"] = Normal[v.row[c].identity["phone"]]
  BY <1>2, NormalTypes DEF Fields
<1> QED
  BY <1>2, <1>3, <1>4, <1>5, MatchingAssumption
-----------------------------------------------------------------------------
(***************************************************************************)
(* Canonicalizing a candidate keeps its workspace sound.                   *)
(***************************************************************************)
\* Nothing outside of the workspace changes.
Outside(old, new, w) ==
  \A c \in Candidates \ In(w) : new.row[c] = old.row[c] /\ new.business[c] = old.business[c]

\* A view after a candidate has been joined to a business: e is the Business then.
LEMMA LinkFacts ==
  ASSUME NEW v, WellFormed(v), NEW w, SoundIn(v, w), NEW c \in In(w), Exists(v, c),
         ~Matched(v, c), NEW d, d = Decision(v, c), NEW n, n = Canonicalized(v, c)
  PROVE  \E e \in Businesses :
           /\ e # Nothing /\ e.workspace = w /\ d.business \in In(w)
           /\ d.business = c \/ v.business[d.business] # Nothing
           /\ n = [row |-> [v.row EXCEPT ![c].business = d.business, ![c].reason = d.reason],
                   business |-> [v.business EXCEPT ![d.business] = e]]
           /\ e.normal["phone"] # None => e.phone # None
           /\ v.business[d.business] # Nothing =>
                /\ \A f \in Fields : v.business[d.business].normal[f] # None =>
                     e.normal[f] = v.business[d.business].normal[f]
                /\ v.business[d.business].phone # None =>
                     e.phone # None
                     /\ e.normal["phone"] = v.business[d.business].normal["phone"]
                /\ \A f \in Fields \ Strong : e.normal[f] = v.business[d.business].normal[f]
           /\ d.business = c => /\ Deciding(ExactRules(v, c)) = {}
                               /\ e.normal = NormalIdentity(v.row[c].identity)
           /\ d.reason \in WeakReasons =>
                \A f \in Strong : Normal[v.row[c].identity[f]] # None =>
                  \/ e.normal[f] = Normal[v.row[c].identity[f]]
                  \/ f = "phone" /\ e.phone # None /\ e.normal[f] = None
<1> DEFINE b == d.business
           e == IF b = c THEN Founded(v, c) ELSE Enriched(v, c, b)
           normal == NormalIdentity(v.row[c].identity)
<1>1. v \in Views /\ c \in Candidates /\ WorkspaceOf[c] = w
  BY DEF WellFormed, In
<1>2. /\ \/ b = c /\ d.reason \notin WeakReasons
         \/ /\ b \in In(w) /\ v.business[b] # Nothing
            /\ d.reason \in WeakReasons => ~Conflict(normal, v.business[b].normal)
  BY DecisionFacts DEF SoundIn
<1>3. n = [row |-> [v.row EXCEPT ![c].business = b, ![c].reason = d.reason],
           business |-> [v.business EXCEPT ![b] = e]]
  BY DEF Canonicalized
<1>4. v.business[c] = Nothing
  BY DEF SoundIn, FoundersIn
<1>5. \A f \in Strong : normal[f] = Normal[v.row[c].identity[f]]
  BY <1>1, NormalTypes DEF Strong, Fields
<1>6. CASE b = c
  <2>1. e = Founded(v, c) /\ d.reason \notin WeakReasons
    BY <1>2, <1>4, <1>6
  <2>2. /\ e \in Businesses /\ e # Nothing /\ e.workspace = w
        /\ e.normal["phone"] # None => e.phone # None
        /\ e.normal = NormalIdentity(v.row[c].identity)
    BY <2>1, <1>1, FoundedFacts
  <2>3. Deciding(ExactRules(v, c)) = {}
    BY <1>4, <1>6, ExactFacts DEF SoundIn
  <2> HIDE DEF e
  <2> QED
    BY <2>1, <2>2, <2>3, <1>3, <1>4, <1>6
<1>7. CASE b # c
  <2>1. e = Enriched(v, c, b) /\ b \in Candidates /\ b \in In(w) /\ v.business[b] # Nothing
    BY <1>2, <1>7 DEF In
  <2>2. v.business[b].normal["phone"] # None => v.business[b].phone # None
    BY <2>1 DEF SoundIn, FoundersIn
  <2>3. v.business[b].workspace = w
    BY <2>1 DEF WellFormed, In
  <2>4. e \in Businesses /\ e # Nothing /\ e.workspace = w
    BY <2>1, <2>3, <1>1, EnrichedIs
  <2>5. /\ \A f \in Fields : v.business[b].normal[f] # None =>
             e.normal[f] = v.business[b].normal[f]
        /\ e.normal["phone"] # None => e.phone # None
        /\ v.business[b].phone # None =>
             e.phone # None /\ e.normal["phone"] = v.business[b].normal["phone"]
        /\ ~Conflict(normal, v.business[b].normal) =>
             \A f \in Strong : normal[f] # None =>
               \/ e.normal[f] = normal[f]
               \/ f = "phone" /\ e.phone # None /\ e.normal[f] = None
    BY <2>1, <2>2, <1>1, EnrichedFacts
  <2>6. \A f \in Fields \ Strong : e.normal[f] = v.business[b].normal[f]
    BY <2>1, <1>1, EnrichedIs
  <2>7. d.reason \in WeakReasons =>
          \A f \in Strong : Normal[v.row[c].identity[f]] # None =>
            \/ e.normal[f] = Normal[v.row[c].identity[f]]
            \/ f = "phone" /\ e.phone # None /\ e.normal[f] = None
    BY <2>5, <1>2, <1>5, <1>7
  <2> HIDE DEF e, normal
  <2> QED
    BY <2>1, <2>4, <2>5, <2>6, <2>7, <1>3, <1>7
<1> QED
  BY <1>6, <1>7

\* What is filled in does not change who is alike, and keeps apart who was.
LEMMA EnrichedStaysAmbiguous ==
  ASSUME NEW v, NEW w, AmbiguousIn(v, w), NEW n, NEW b \in In(w), v.business[b] # Nothing,
         n.business[b] # Nothing,
         \A f \in Fields : v.business[b].normal[f] # None =>
           n.business[b].normal[f] = v.business[b].normal[f],
         \A f \in Fields \ Strong : n.business[b].normal[f] = v.business[b].normal[f],
         \A x \in In(w) : x # b => n.business[x] = v.business[x]
  PROVE  AmbiguousIn(n, w)
<1>1. \A x \in In(w) :
        /\ n.business[x] # Nothing <=> v.business[x] # Nothing
        /\ \A f \in Fields : v.business[x].normal[f] # None =>
             n.business[x].normal[f] = v.business[x].normal[f]
        /\ \A f \in {"name", "address"} : n.business[x].normal[f] = v.business[x].normal[f]
  BY DEF Fields, Strong
<1>2. \A x, y \in In(w) : Alike(n, x, y) <=> Alike(v, x, y)
  BY <1>1 DEF Alike
<1>3. \A x, y \in In(w) : Apart(v, x, y) => Apart(n, x, y)
  BY <1>1 DEF Apart, Conflict, Fields
<1> QED
  BY <1>2, <1>3 DEF AmbiguousIn

\* A business is founded beside one that it is like, and not apart from, only
\* where the rule on name and address had two matches or more.
LEMMA FoundedStaysAmbiguous ==
  ASSUME NEW v, WellFormed(v), NEW w, AmbiguousIn(v, w), NEW c \in In(w), Exists(v, c),
         v.business[c] = Nothing, Deciding(ExactRules(v, c)) = {}, NEW n,
         n.business[c] # Nothing, n.business[c].normal = NormalIdentity(v.row[c].identity),
         \A x \in In(w) : x # c => n.business[x] = v.business[x]
  PROVE  AmbiguousIn(n, w)
<1> DEFINE matches == Agreeing(v, c, {"name", "address"}) \ Vetoed(v, c)
<1>1. \A x, y \in In(w) : Alike(v, x, y) => Alike(n, x, y) /\ (Apart(n, x, y) <=> Apart(v, x, y))
  BY DEF Alike, Apart
<1>2. \A x, y \in In(w) : Alike(n, x, y) /\ x # c /\ y # c => Alike(v, x, y)
  BY DEF Alike
<1>3. ASSUME NEW y \in In(w), Alike(n, c, y), ~Apart(n, c, y)
      PROVE  \E e, f \in In(w) :
               Alike(v, e, f) /\ Apart(v, e, f) /\ (Alike(v, y, e) \/ y = e)
  <2>1. y # c /\ n.business[y] = v.business[y] /\ v.business[y] # Nothing /\ y \in Candidates
    BY <1>3 DEF Alike, In
  <2>2. y \in matches
    <3>1. y \in WorkspaceBusinesses(v, c)
      BY <2>1 DEF WorkspaceBusinesses, WellFormed, In
    <3>2. y \in Agreeing(v, c, {"name", "address"})
      BY <1>3, <2>1, <3>1 DEF Agreeing, Alike
    <3>3. y \notin Vetoed(v, c)
      BY <1>3, <2>1 DEF Vetoed, Apart
    <3> QED
      BY <3>2, <3>3
  <2>3. matches # {y}
    <3>1. 4 \in DOMAIN ExactRules(v, c) /\ ExactRules(v, c)[4].matches = matches
      BY DEF ExactRules
    <3>2. Cardinality(matches) # 1
      BY ONLY <3>1, Deciding(ExactRules(v, c)) = {} DEF Deciding
    <3>3. Cardinality({y}) = 1
      BY ONLY FS_Singleton
    <3> QED
      BY ONLY <3>2, <3>3
  <2>4. PICK z \in matches : z # y
    BY <2>2, <2>3
  <2>5. z \in In(w) /\ v.business[z] # Nothing
    BY <2>4, AgreeingIsIn
  <2>6. Alike(v, y, z)
    BY <2>1, <2>2, <2>4, <2>5 DEF Agreeing, Alike
  <2>7. CASE Apart(v, y, z)
    BY <2>5, <2>6, <2>7
  <2>8. CASE ~Apart(v, y, z)
    BY <2>5, <2>6, <2>8 DEF AmbiguousIn
  <2> QED
    BY <2>7, <2>8
<1>4. \A x, y \in In(w) : /\ Alike(n, x, y) <=> Alike(n, y, x)
                          /\ Apart(n, x, y) <=> Apart(n, y, x)
  BY DEF Alike, Apart, Conflict
<1>5. \A x, y, z \in In(w) : Alike(n, x, y) /\ Alike(n, y, z) /\ x # z => Alike(n, x, z)
  BY DEF Alike
<1>6. \A e, f \in In(w) : Alike(v, e, f) => e # c
  BY DEF Alike
<1> SUFFICES ASSUME NEW x \in In(w), NEW y \in In(w), Alike(n, x, y), ~Apart(n, x, y)
             PROVE  \E e, f \in In(w) :
                      Alike(n, e, f) /\ Apart(n, e, f) /\ (Alike(n, x, e) \/ x = e)
  BY DEF AmbiguousIn
<1>7. CASE x = c
  BY <1>1, <1>3, <1>5, <1>6, <1>7
<1>8. CASE y = c
  BY <1>1, <1>3, <1>4, <1>8
<1>9. CASE x # c /\ y # c
  BY <1>1, <1>2, <1>9 DEF AmbiguousIn
<1> QED
  BY <1>7, <1>8, <1>9

LEMMA LinkSound ==
  ASSUME NEW v, WellFormed(v), NEW w, SoundIn(v, w), NEW c \in In(w), Exists(v, c),
         ~Matched(v, c), NEW n, n = Canonicalized(v, c)
  PROVE  /\ WellFormed(n) /\ SoundIn(n, w) /\ KeepsIn(v, n, w) /\ Outside(v, n, w)
         /\ Matched(n, c) /\ \A x \in Candidates : x # c => n.row[x] = v.row[x]
<1> DEFINE d == Decision(v, c)
           b == d.business
<1>1. PICK e \in Businesses :
        /\ e # Nothing /\ e.workspace = w /\ b \in In(w)
        /\ b = c \/ v.business[b] # Nothing
        /\ n = [row |-> [v.row EXCEPT ![c].business = b, ![c].reason = d.reason],
                business |-> [v.business EXCEPT ![b] = e]]
        /\ e.normal["phone"] # None => e.phone # None
        /\ v.business[b] # Nothing =>
             /\ \A f \in Fields : v.business[b].normal[f] # None =>
                  e.normal[f] = v.business[b].normal[f]
             /\ v.business[b].phone # None =>
                  e.phone # None /\ e.normal["phone"] = v.business[b].normal["phone"]
             /\ \A f \in Fields \ Strong : e.normal[f] = v.business[b].normal[f]
        /\ b = c => /\ Deciding(ExactRules(v, c)) = {}
                    /\ e.normal = NormalIdentity(v.row[c].identity)
        /\ d.reason \in WeakReasons =>
             \A f \in Strong : Normal[v.row[c].identity[f]] # None =>
               \/ e.normal[f] = Normal[v.row[c].identity[f]]
               \/ f = "phone" /\ e.phone # None /\ e.normal[f] = None
  BY LinkFacts
<1>2. d.reason \in Reasons /\ \A x \in SameListing(v, c) : b = x
  BY DecisionFacts DEF SoundIn
<1> HIDE DEF d
<1>3. /\ v \in Views /\ c \in Candidates /\ WorkspaceOf[c] = w /\ b \in Candidates
      /\ v.row \in [Candidates -> Rows \cup {Absent}]
      /\ v.business \in [Candidates -> Businesses \cup {Nothing}]
  BY <1>1 DEF WellFormed, In, Views
<1>4. /\ v.row[c] \in Rows /\ n.row[c] \in Rows
      /\ n.row[c].identity = v.row[c].identity /\ n.row[c].business = b
      /\ n.row[c].reason = d.reason
      /\ n.row \in [Candidates -> Rows \cup {Absent}]
      /\ \A x \in Candidates : x # c => n.row[x] = v.row[x]
  <2>1. v.row[c] \in Rows
    BY <1>3, RowTypes
  <2>2. [v.row[c] EXCEPT !.business = b, !.reason = d.reason] \in Rows
    BY <2>1, <1>2, <1>3 DEF Rows
  <2>3. n.row = [v.row EXCEPT ![c].business = b, ![c].reason = d.reason]
    BY <1>1
  <2>4. /\ n.row[c] = [v.row[c] EXCEPT !.business = b, !.reason = d.reason]
        /\ DOMAIN n.row = Candidates
        /\ n.row = [x \in Candidates |-> n.row[x]]
        /\ \A x \in Candidates : x # c => n.row[x] = v.row[x]
    BY <2>3, <1>3
  <2>5. /\ n.row[c].identity = v.row[c].identity /\ n.row[c].business = b
        /\ n.row[c].reason = d.reason
    BY <2>1, <2>4 DEF Rows
  <2> QED
    BY <2>1, <2>2, <2>3, <2>4, <2>5, <1>3
<1>5. /\ n.business \in [Candidates -> Businesses \cup {Nothing}]
      /\ n.business[b] = e
      /\ \A x \in Candidates : x # b => n.business[x] = v.business[x]
  BY <1>1, <1>3
<1>6. WellFormed(n)
  <2>1. n \in Views
    BY <1>1, <1>4, <1>5 DEF Views
  <2> QED
    BY <2>1, <1>1, <1>5 DEF WellFormed, In
<1>7. Matched(n, c) /\ Exists(n, c)
  <2>1. b # None
    BY <1>3, MatchingAssumption
  <2> QED
    BY <2>1, <1>4, RowIsNotAbsent DEF Matched, Exists
<1>8. \A x \in Candidates : x # c => (Matched(n, x) <=> Matched(v, x))
  BY <1>4 DEF Matched, Exists
<1> HIDE DEF b
<1>9. In(w) \subseteq Candidates
  BY DEF In
<1>10. LinksIn(n, w)
  BY <1>1, <1>4, <1>5, <1>8, <1>9 DEF SoundIn, LinksIn
<1>11. FoundersIn(n, w)
  BY <1>1, <1>5, <1>7, <1>8, <1>9 DEF SoundIn, FoundersIn
<1>12. ListingsIn(n, w)
  <2>1. ASSUME NEW x \in In(w), x # c, Matched(v, x), ListingOf[x] = ListingOf[c]
        PROVE  v.row[x].business = b
    <3>1. v.row[x].business \in SameListing(v, c)
      BY <2>1, <1>3 DEF SameListing, In
    <3> QED
      BY <3>1, <1>2
  <2> QED
    BY <2>1, <1>4, <1>8, <1>9 DEF SoundIn, ListingsIn
<1>13. WeakIn(n, w)
  <2> SUFFICES ASSUME NEW x \in In(w), Matched(n, x), n.row[x].reason \in WeakReasons
               PROVE  Agreed(n, x, n.row[x].business)
    BY DEF WeakIn
  <2>1. CASE x = c
    BY <2>1, <1>1, <1>4, <1>5 DEF Agreed
  <2>2. CASE x # c
    <3>1. n.row[x] = v.row[x] /\ Matched(v, x) /\ Agreed(v, x, v.row[x].business)
          /\ v.row[x].business \in Candidates /\ v.business[v.row[x].business] # Nothing
      BY <2>2, <1>4, <1>8, <1>9 DEF SoundIn, WeakIn, LinksIn
    <3>2. CASE v.row[x].business # b
      BY <3>1, <3>2, <1>5 DEF Agreed
    <3>3. CASE v.row[x].business = b
      BY <3>1, <3>3, <1>1, <1>5 DEF Agreed, Strong, Fields
    <3> QED
      BY <3>2, <3>3
  <2> QED
    BY <2>1, <2>2
<1>14. KeepsIn(v, n, w)
  BY <1>1, <1>4, <1>5, <1>8, <1>9 DEF KeepsIn
<1>15. Outside(v, n, w)
  BY <1>1, <1>4, <1>5 DEF Outside
<1>16. AmbiguousIn(n, w)
  <2>1. \A x \in In(w) : x # b => n.business[x] = v.business[x]
    BY <1>5, <1>9
  <2>2. AmbiguousIn(v, w) /\ n.business[b] = e /\ e # Nothing /\ b \in In(w)
    BY <1>1, <1>5 DEF SoundIn
  <2>3. CASE v.business[b] # Nothing
    <3>1. /\ \A f \in Fields : v.business[b].normal[f] # None =>
               n.business[b].normal[f] = v.business[b].normal[f]
          /\ \A f \in Fields \ Strong : n.business[b].normal[f] = v.business[b].normal[f]
      BY <2>2, <2>3, <1>1
    <3> QED
      BY ONLY <2>1, <2>2, <2>3, <3>1, EnrichedStaysAmbiguous
  <2>4. CASE v.business[b] = Nothing
    <3>1. /\ b = c /\ Deciding(ExactRules(v, c)) = {}
          /\ n.business[c].normal = NormalIdentity(v.row[c].identity)
      BY <2>2, <2>4, <1>1
    <3>2. v.business[c] = Nothing /\ n.business[c] # Nothing
          /\ \A x \in In(w) : x # c => n.business[x] = v.business[x]
      BY ONLY <2>1, <2>2, <2>4, <3>1
    <3>3. WellFormed(v) /\ Exists(v, c) /\ c \in In(w)
      OBVIOUS
    <3> QED
      BY ONLY <2>2, <3>1, <3>2, <3>3, FoundedStaysAmbiguous
  <2> QED
    BY <2>3, <2>4
<1> QED
  BY <1>4, <1>6, <1>7, <1>10, <1>11, <1>12, <1>13, <1>14, <1>15, <1>16 DEF SoundIn

\* One candidate, whether it has a business already or not.
LEMMA CanonicalizedSound ==
  ASSUME NEW v, WellFormed(v), NEW w, SoundIn(v, w), NEW c \in In(w), Exists(v, c),
         NEW n, n = Canonicalized(v, c)
  PROVE  /\ WellFormed(n) /\ SoundIn(n, w) /\ KeepsIn(v, n, w) /\ Outside(v, n, w)
         /\ Matched(n, c) /\ \A x \in Candidates : x # c => n.row[x] = v.row[x]
<1>1. CASE Matched(v, c)
  <2>1. n = v
    BY <1>1 DEF Canonicalized
  <2> QED
    BY <1>1, <2>1 DEF KeepsIn, Outside
<1>2. CASE ~Matched(v, c)
  BY <1>2, LinkSound
<1> QED
  BY <1>1, <1>2

\* The upsert writes name and address only, which nothing rests on.
LEMMA UpsertSound ==
  ASSUME NEW v, WellFormed(v), NEW w, SoundIn(v, w), NEW c \in In(w),
         NEW found \in [name : Values, address : Values], NEW u, u = Upserted(v, c, found)
  PROVE  /\ WellFormed(u) /\ SoundIn(u, w) /\ KeepsIn(v, u, w) /\ Outside(v, u, w)
         /\ Exists(u, c) /\ \A x \in Candidates : x # c => u.row[x] = v.row[x]
<1> DEFINE blank == [f \in Fields |-> None]
           old == IF Exists(v, c) THEN v.row[c]
                  ELSE [identity |-> blank, business |-> None, reason |-> "none"]
           identity == [old.identity EXCEPT !["name"] = found.name, !["address"] = found.address]
<1>1. /\ c \in Candidates /\ In(w) \subseteq Candidates /\ v \in Views
      /\ v.row \in [Candidates -> Rows \cup {Absent}]
      /\ v = [row |-> v.row, business |-> v.business]
  BY DEF WellFormed, In, Views
<1>2. old \in Rows
  <2>1. Exists(v, c) => v.row[c] \in Rows
    BY <1>1, RowTypes
  <2>2. blank \in Identities
    BY DEF Identities, Texts
  <2>3. [identity |-> blank, business |-> None, reason |-> "none"] \in Rows
    <3> HIDE DEF blank
    <3> QED
      BY <2>2 DEF Rows
  <2> QED
    BY <2>1, <2>3
<1>3. /\ old.identity \in [Fields -> Texts]
      /\ old = [identity |-> old.identity, business |-> old.business, reason |-> old.reason]
      /\ old.business \in Candidates \cup {None} /\ old.reason \in Reasons \cup {"none"}
  <2> HIDE DEF old
  <2> QED
    BY <1>2 DEF Rows, Identities
<1>4. u = [v EXCEPT !.row[c] = [old EXCEPT !.identity["name"] = found.name,
                                           !.identity["address"] = found.address]]
  BY DEF Upserted
<1>5. /\ identity \in Identities
      /\ \A f \in Strong : identity[f] = old.identity[f]
  <2> HIDE DEF old
  <2> QED
    BY <1>3 DEF Identities, Texts, Strong, Fields
<1>6. [old EXCEPT !.identity["name"] = found.name, !.identity["address"] = found.address]
        = [identity |-> identity, business |-> old.business, reason |-> old.reason]
  <2> DEFINE i == old.identity
             b == old.business
             r == old.reason
             name == found.name
             address == found.address
  <2>1. old = [identity |-> i, business |-> b, reason |-> r]
    BY <1>3
  <2> HIDE DEF old, i, b, r, name, address
  <2>2. [old EXCEPT !.identity["name"] = name, !.identity["address"] = address]
          = [identity |-> [i EXCEPT !["name"] = name, !["address"] = address],
             business |-> b, reason |-> r]
    <3> DEFINE first == [old EXCEPT !.identity["name"] = name]
               named == [i EXCEPT !["name"] = name]
    <3>1. first = [identity |-> named, business |-> b, reason |-> r]
      BY ONLY <2>1
    <3>2. [first EXCEPT !.identity["address"] = address]
            = [identity |-> [named EXCEPT !["address"] = address], business |-> b, reason |-> r]
      <4> HIDE DEF first, named
      <4> QED
        BY ONLY <3>1
    <3>3. [old EXCEPT !.identity["name"] = name, !.identity["address"] = address]
            = [first EXCEPT !.identity["address"] = address]
      BY ONLY <2>1
    <3>4. [i EXCEPT !["name"] = name, !["address"] = address]
            = [named EXCEPT !["address"] = address]
      BY ONLY <2>1
    <3> QED
      BY ONLY <3>2, <3>3, <3>4
  <2> QED
    BY <2>2 DEF i, b, r, name, address
<1> DEFINE new == [identity |-> identity, business |-> old.business, reason |-> old.reason]
<1>7. new \in Rows
  <2> HIDE DEF identity, old
  <2> QED
    BY <1>3, <1>5 DEF Rows
<1>8. /\ new.identity = identity /\ new.business = old.business /\ new.reason = old.reason
  OBVIOUS
<1> HIDE DEF new, identity
<1>9. u = [row |-> [v.row EXCEPT ![c] = new], business |-> v.business]
  <2>1. u = [v EXCEPT !.row[c] = new]
    BY <1>4, <1>6 DEF new
  <2> HIDE DEF old
  <2> QED
    BY <2>1, <1>1
<1>10. /\ u.business = v.business /\ u.row[c] = new
       /\ \A x \in Candidates : x # c => u.row[x] = v.row[x]
       /\ u.row \in [Candidates -> Rows \cup {Absent}]
  BY <1>1, <1>7, <1>9
<1>11. Exists(u, c)
  BY <1>7, <1>10, RowIsNotAbsent DEF Exists
<1>12. WellFormed(u)
  <2>1. u \in Views
    BY <1>1, <1>9, <1>10 DEF Views
  <2> QED
    BY <2>1, <1>10 DEF WellFormed
<1>13. \A x \in Candidates :
         /\ Matched(u, x) <=> Matched(v, x)
         /\ Matched(v, x) => /\ u.row[x].business = v.row[x].business
                             /\ u.row[x].reason = v.row[x].reason
                             /\ \A f \in Strong : u.row[x].identity[f] = v.row[x].identity[f]
  <2>1. ASSUME NEW x \in Candidates, x # c
        PROVE  (Matched(u, x) <=> Matched(v, x)) /\ u.row[x] = v.row[x]
    BY <2>1, <1>10 DEF Matched, Exists
  <2>2. Matched(u, c) <=> Matched(v, c)
    BY <1>8, <1>10, <1>11 DEF Matched
  <2>3. Matched(v, c) => old = v.row[c]
    BY DEF Matched
  <2>4. Matched(v, c) => /\ u.row[c].business = v.row[c].business
                         /\ u.row[c].reason = v.row[c].reason
                         /\ \A f \in Strong : u.row[c].identity[f] = v.row[c].identity[f]
    <3> HIDE DEF old
    <3> QED
      BY <2>3, <1>5, <1>8, <1>10
  <2> QED
    BY <2>1, <2>2, <2>4
<1>14. LinksIn(u, w) /\ FoundersIn(u, w) /\ ListingsIn(u, w)
  BY <1>1, <1>10, <1>13 DEF SoundIn, LinksIn, FoundersIn, ListingsIn
<1>15. WeakIn(u, w)
  BY <1>1, <1>10, <1>13 DEF SoundIn, WeakIn, Agreed
<1>16. KeepsIn(v, u, w) /\ Outside(v, u, w)
  BY <1>1, <1>10, <1>13 DEF KeepsIn, Outside
<1>17. AmbiguousIn(u, w)
  BY <1>10 DEF SoundIn, AmbiguousIn, Alike, Apart
<1> QED
  BY <1>10, <1>11, <1>12, <1>14, <1>15, <1>16, <1>17 DEF SoundIn
-----------------------------------------------------------------------------
(***************************************************************************)
(* The transactions.                                                       *)
(***************************************************************************)
IsTx(r) ==
  /\ r = [pc |-> r.pc, workspace |-> r.workspace, todo |-> r.todo, found |-> r.found,
          wrote |-> r.wrote]
  /\ r.pc \in Steps /\ r.todo \subseteq Candidates /\ r.workspace \in Workspaces \cup {0}

\* What the statements of transaction r see on database d.
ViewOf(d, r) == [row      |-> Overlay(d.row, r.wrote.row),
                 business |-> Overlay(d.business, r.wrote.business)]

\* A transaction at work sees a sound workspace, in which it has matched what it
\* wrote; it has written nowhere else.
Working(d, r) ==
  /\ DOMAIN r.wrote.row \subseteq In(r.workspace)
  /\ DOMAIN r.wrote.business \subseteq In(r.workspace)
  /\ r.todo \subseteq In(r.workspace)
  /\ WellFormed(ViewOf(d, r)) /\ SoundIn(ViewOf(d, r), r.workspace)
  /\ KeepsIn(d, ViewOf(d, r), r.workspace)
  /\ \A c \in DOMAIN r.wrote.row : Matched(ViewOf(d, r), c)

TxShape ==
  /\ tx = [a \in Actors |-> tx[a]]
  /\ \A a \in Actors : IsTx(tx[a])

DbInv == WellFormed(db) /\ \A w \in Workspaces : SoundIn(db, w)

\* The lock of a workspace is with the transaction that lists or works there.
LockInv ==
  /\ lock \in [Workspaces -> Actors \cup {Nobody}]
  /\ \A a \in Actors : tx[a].pc \in {"lock", "list", "work"} => tx[a].workspace \in Workspaces
  /\ \A a \in Actors : tx[a].pc \in {"list", "work"} => lock[tx[a].workspace] = a

WorkInv ==
  \A a \in Actors : IF tx[a].pc = "work" THEN Working(db, tx[a]) ELSE tx[a].wrote = NoWrites

\* A page knows what it found, a backfill has candidates that exist.
TodoInv ==
  /\ \A p \in Pages : tx[p].pc = "work" =>
       /\ tx[p].todo \subseteq DOMAIN tx[p].found
       /\ \A c \in tx[p].todo : tx[p].found[c] \in [name : Values, address : Values]
  /\ \A b \in Backfills : tx[b].pc = "work" =>
       \A c \in tx[b].todo : Exists(ViewOf(db, tx[b]), c)

CanonInv == TxShape /\ DbInv /\ LockInv /\ WorkInv /\ TodoInv /\ BackfillLeavesNone

\* What a view has, row by row.
LEMMA ViewRows ==
  ASSUME NEW d, WellFormed(d), NEW r, NEW v, v = ViewOf(d, r)
  PROVE  /\ \A c \in Candidates :
              /\ v.row[c] = IF c \in DOMAIN r.wrote.row THEN r.wrote.row[c] ELSE d.row[c]
              /\ v.business[c] = IF c \in DOMAIN r.wrote.business
                                 THEN r.wrote.business[c] ELSE d.business[c]
         /\ v.row = [c \in Candidates |-> v.row[c]]
         /\ v.business = [c \in Candidates |-> v.business[c]]
         /\ v = [row |-> v.row, business |-> v.business]
<1>1. DOMAIN d.row = Candidates /\ DOMAIN d.business = Candidates
  BY DEF WellFormed, Views
<1> QED
  BY <1>1 DEF ViewOf, Overlay

LEMMA SoundSame ==
  ASSUME NEW v, NEW u, NEW w, SoundIn(v, w), SameIn(v, u, w)
  PROVE  SoundIn(u, w)
<1>1. \A c \in In(w) : /\ u.row[c] = v.row[c] /\ u.business[c] = v.business[c]
                       /\ Matched(u, c) <=> Matched(v, c)
  BY DEF SameIn, Matched, Exists
<1>2. LinksIn(u, w) /\ FoundersIn(u, w) /\ ListingsIn(u, w)
  BY <1>1 DEF SoundIn, LinksIn, FoundersIn, ListingsIn
<1>3. WeakIn(u, w)
  <2> SUFFICES ASSUME NEW c \in In(w), Matched(u, c), u.row[c].reason \in WeakReasons
               PROVE  Agreed(u, c, u.row[c].business)
    BY DEF WeakIn
  <2>1. u.row[c] = v.row[c] /\ Matched(v, c) /\ v.row[c].reason \in WeakReasons
    BY <1>1
  <2>2. Agreed(v, c, v.row[c].business) /\ v.row[c].business \in In(w)
    BY <2>1 DEF SoundIn, WeakIn, LinksIn
  <2>3. u.business[v.row[c].business] = v.business[v.row[c].business]
    BY <2>2, <1>1
  <2> QED
    BY <2>1, <2>2, <2>3 DEF Agreed
<1>4. AmbiguousIn(u, w)
  <2>1. \A x, y \in In(w) : /\ Alike(u, x, y) <=> Alike(v, x, y)
                            /\ Apart(u, x, y) <=> Apart(v, x, y)
    BY <1>1 DEF Alike, Apart
  <2> QED
    BY <2>1 DEF SoundIn, AmbiguousIn
<1> QED
  BY <1>2, <1>3, <1>4 DEF SoundIn

LEMMA KeepsTwice ==
  ASSUME NEW d, NEW v, NEW n, NEW w, KeepsIn(d, v, w), KeepsIn(v, n, w)
  PROVE  KeepsIn(d, n, w)
BY DEF KeepsIn

\* The work of a transaction is not disturbed by changes in other workspaces.
LEMMA WorkingStays ==
  ASSUME NEW d, NEW e, WellFormed(d), WellFormed(e), NEW r, Working(d, r),
         SameIn(d, e, r.workspace)
  PROVE  Working(e, r) /\ SameIn(ViewOf(d, r), ViewOf(e, r), r.workspace)
<1> DEFINE w == r.workspace
           v == ViewOf(d, r)
           u == ViewOf(e, r)
<1>0. \A c \in Candidates :
        /\ v.row[c] = IF c \in DOMAIN r.wrote.row THEN r.wrote.row[c] ELSE d.row[c]
        /\ v.business[c] = IF c \in DOMAIN r.wrote.business
                           THEN r.wrote.business[c] ELSE d.business[c]
  BY DEF WellFormed, Views, ViewOf, Overlay
<1>1. /\ \A c \in Candidates :
           /\ u.row[c] = IF c \in DOMAIN r.wrote.row THEN r.wrote.row[c] ELSE e.row[c]
           /\ u.business[c] = IF c \in DOMAIN r.wrote.business
                              THEN r.wrote.business[c] ELSE e.business[c]
      /\ u.row = [c \in Candidates |-> u.row[c]]
      /\ u.business = [c \in Candidates |-> u.business[c]]
      /\ u = [row |-> u.row, business |-> u.business]
  <2> HIDE DEF u
  <2>1. u = ViewOf(e, r)
    BY DEF u
  <2> QED
    BY <2>1, ViewRows
<1>2. /\ WellFormed(v) /\ SoundIn(v, w) /\ KeepsIn(d, v, w)
      /\ DOMAIN r.wrote.row \subseteq In(w) /\ DOMAIN r.wrote.business \subseteq In(w)
      /\ r.todo \subseteq In(w) /\ \A c \in DOMAIN r.wrote.row : Matched(v, c)
      /\ In(w) \subseteq Candidates
  BY DEF Working, In
<1> HIDE DEF v, u, w
<1>3. SameIn(v, u, w)
  BY <1>0, <1>1, <1>2 DEF SameIn, w
<1>4. WellFormed(u)
  <2>1. /\ \A c \in Candidates : v.row[c] \in Rows \cup {Absent}
        /\ \A c \in Candidates : v.business[c] \in Businesses \cup {Nothing}
        /\ \A c \in Candidates : e.row[c] \in Rows \cup {Absent}
        /\ \A c \in Candidates : e.business[c] \in Businesses \cup {Nothing}
    BY <1>2 DEF WellFormed, Views
  <2>2. \A c \in Candidates : /\ u.row[c] = v.row[c] \/ u.row[c] = e.row[c]
                              /\ u.business[c] = v.business[c] \/ u.business[c] = e.business[c]
    BY <1>0, <1>1
  <2>3. u \in Views
    BY <1>1, <2>1, <2>2 DEF Views
  <2> QED
    BY <1>2, <2>2, <2>3 DEF WellFormed
<1>5. SoundIn(u, w)
  BY <1>2, <1>3, SoundSame
<1>6. KeepsIn(e, u, w)
  <2>1. \A c \in In(w) : /\ e.row[c] = d.row[c] /\ e.business[c] = d.business[c]
                         /\ u.row[c] = v.row[c] /\ u.business[c] = v.business[c]
    BY <1>3 DEF SameIn, w
  <2> QED
    BY <1>2, <2>1 DEF KeepsIn, Matched, Exists
<1>7. \A c \in DOMAIN r.wrote.row : Matched(u, c)
  BY <1>2, <1>3 DEF SameIn, Matched, Exists
<1> QED
  BY <1>2, <1>3, <1>4, <1>5, <1>6, <1>7 DEF Working, v, u, w

\* One candidate is written: the transaction sees what it decided.
Written(r, c, n, v) ==
  [r EXCEPT !.todo = @ \ {c},
            !.wrote = [row      |-> [x \in DOMAIN r.wrote.row \cup {c} |-> n.row[x]],
                       business |-> [b \in DOMAIN r.wrote.business \cup
                                       {d \in Candidates : n.business[d] # v.business[d]}
                                       |-> n.business[b]]]]

LEMMA WriteWorks ==
  ASSUME NEW d, WellFormed(d), NEW r, IsTx(r), Working(d, r), NEW c \in r.todo,
         NEW v, v = ViewOf(d, r), NEW n, WellFormed(n), SoundIn(n, r.workspace),
         KeepsIn(v, n, r.workspace), Outside(v, n, r.workspace), Matched(n, c),
         \A x \in Candidates : x # c => n.row[x] = v.row[x],
         NEW s, s = Written(r, c, n, v)
  PROVE  /\ IsTx(s) /\ s.pc = r.pc /\ s.workspace = r.workspace /\ s.todo = r.todo \ {c}
         /\ s.found = r.found /\ ViewOf(d, s) = n /\ Working(d, s)
<1> DEFINE w == r.workspace
           rows == DOMAIN r.wrote.row \cup {c}
           bs == DOMAIN r.wrote.business \cup {b \in Candidates : n.business[b] # v.business[b]}
           row == [x \in rows |-> n.row[x]]
           business == [b \in bs |-> n.business[b]]
<1>1. /\ DOMAIN r.wrote.row \subseteq In(w) /\ DOMAIN r.wrote.business \subseteq In(w)
      /\ r.todo \subseteq In(w) /\ KeepsIn(d, v, w)
      /\ \A x \in DOMAIN r.wrote.row : Matched(v, x)
      /\ In(w) \subseteq Candidates
  BY DEF Working, In
<1>2. /\ IsTx(s) /\ s.pc = r.pc /\ s.workspace = w /\ s.todo = r.todo \ {c}
      /\ s.found = r.found /\ s.wrote = [row |-> row, business |-> business]
  <2> HIDE DEF row, business
  <2>1. r = [pc |-> r.pc, workspace |-> r.workspace, todo |-> r.todo, found |-> r.found,
             wrote |-> r.wrote]
    BY DEF IsTx
  <2>2. s = [r EXCEPT !.todo = r.todo \ {c},
                      !.wrote = [row |-> row, business |-> business]]
    BY <2>1 DEF Written, row, business
  <2>3. s = [pc |-> r.pc, workspace |-> r.workspace, todo |-> r.todo \ {c}, found |-> r.found,
             wrote |-> [row |-> row, business |-> business]]
    BY <2>1, <2>2
  <2>4. /\ s.pc = r.pc /\ s.workspace = r.workspace /\ s.todo = r.todo \ {c}
        /\ s.found = r.found /\ s.wrote = [row |-> row, business |-> business]
    BY ONLY <2>3
  <2>5. r.pc \in Steps /\ r.todo \subseteq Candidates /\ r.workspace \in Workspaces \cup {0}
    BY DEF IsTx
  <2>6. s = [pc |-> s.pc, workspace |-> s.workspace, todo |-> s.todo, found |-> s.found,
             wrote |-> s.wrote]
    BY ONLY <2>3
  <2>7. s.pc \in Steps /\ s.todo \subseteq Candidates /\ s.workspace \in Workspaces \cup {0}
    BY <2>4, <2>5
  <2> QED
    BY <2>4, <2>6, <2>7 DEF IsTx
<1>3. /\ DOMAIN row = rows /\ DOMAIN business = bs
      /\ s.wrote.row = row /\ s.wrote.business = business
  BY <1>2
<1>4. /\ \A x \in Candidates :
           /\ v.row[x] = IF x \in DOMAIN r.wrote.row THEN r.wrote.row[x] ELSE d.row[x]
           /\ v.business[x] = IF x \in DOMAIN r.wrote.business
                              THEN r.wrote.business[x] ELSE d.business[x]
  BY DEF WellFormed, Views, ViewOf, Overlay
<1>5. /\ n.row \in [Candidates -> Rows \cup {Absent}]
      /\ n.business \in [Candidates -> Businesses \cup {Nothing}]
      /\ n = [row |-> n.row, business |-> n.business]
      /\ DOMAIN d.row = Candidates /\ DOMAIN d.business = Candidates
  BY DEF WellFormed, Views
<1>6. ViewOf(d, s) = n
  <2>1. \A x \in Candidates : (IF x \in rows THEN row[x] ELSE d.row[x]) = n.row[x]
    BY <1>4
  <2>2. \A x \in Candidates : (IF x \in bs THEN business[x] ELSE d.business[x]) = n.business[x]
    BY <1>4
  <2> HIDE DEF row, business
  <2>3. Overlay(d.row, row) = n.row
    BY <2>1, <1>3, <1>5 DEF Overlay
  <2>4. Overlay(d.business, business) = n.business
    BY <2>2, <1>3, <1>5 DEF Overlay
  <2> QED
    BY <2>3, <2>4, <1>3, <1>5 DEF ViewOf
<1>7. rows \subseteq In(w)
  BY <1>1
<1>8. bs \subseteq In(w)
  BY <1>1 DEF Outside
<1>9. KeepsIn(d, n, w)
  BY <1>1, KeepsTwice
<1>10. \A x \in rows : Matched(n, x)
  <2>1. \A x \in rows : x # c => Matched(v, x) /\ x \in Candidates
    BY <1>1
  <2> QED
    BY <2>1 DEF Matched, Exists
<1> HIDE DEF row, business
<1>11. Working(d, s)
  BY <1>1, <1>2, <1>3, <1>6, <1>7, <1>8, <1>9, <1>10 DEF Working
<1> QED
  BY <1>2, <1>6, <1>11

\* What a transaction leaves when it commits.
LEMMA CommitWorks ==
  ASSUME NEW d, WellFormed(d), \A w \in Workspaces : SoundIn(d, w), NEW r, Working(d, r),
         NEW v, v = ViewOf(d, r)
  PROVE  /\ WellFormed(v) /\ \A w \in Workspaces : SoundIn(v, w)
         /\ \A w \in Workspaces : w # r.workspace => SameIn(d, v, w)
         /\ Outside(d, v, r.workspace) /\ KeepsIn(d, v, r.workspace)
         /\ Unmatched(v) \subseteq Unmatched(d)
<1>1. \A x \in Candidates :
           /\ v.row[x] = IF x \in DOMAIN r.wrote.row THEN r.wrote.row[x] ELSE d.row[x]
           /\ v.business[x] = IF x \in DOMAIN r.wrote.business
                              THEN r.wrote.business[x] ELSE d.business[x]
  BY DEF WellFormed, Views, ViewOf, Overlay
<1>2. /\ DOMAIN r.wrote.row \subseteq In(r.workspace)
      /\ DOMAIN r.wrote.business \subseteq In(r.workspace)
      /\ WellFormed(v) /\ SoundIn(v, r.workspace) /\ KeepsIn(d, v, r.workspace)
      /\ \A c \in DOMAIN r.wrote.row : Matched(v, c)
  BY DEF Working
<1>3. Outside(d, v, r.workspace)
  BY <1>1, <1>2 DEF Outside
<1>4. \A w \in Workspaces : w # r.workspace => SameIn(d, v, w)
  BY <1>3 DEF Outside, SameIn, In
<1>5. \A w \in Workspaces : SoundIn(v, w)
  BY <1>2, <1>4, SoundSame
<1>6. Unmatched(v) \subseteq Unmatched(d)
  BY <1>1, <1>2 DEF Unmatched, Matched, Exists
<1> QED
  BY <1>2, <1>3, <1>4, <1>5, <1>6
-----------------------------------------------------------------------------
(***************************************************************************)
(* The invariant.                                                          *)
(***************************************************************************)
\* One transaction moves and has then what it must have; no row is committed.
LEMMA TxMoves ==
  ASSUME CanonInv, NEW a \in Actors, NEW r, IsTx(r), tx' = [tx EXCEPT ![a] = r], db' = db,
         lock' \in [Workspaces -> Actors \cup {Nobody}],
         \A w \in Workspaces : lock[w] # a => lock'[w] = lock[w] \/ lock[w] = Nobody,
         r.pc \in {"lock", "list", "work"} => r.workspace \in Workspaces,
         r.pc \in {"list", "work"} => lock'[r.workspace] = a,
         IF r.pc = "work" THEN Working(db, r) ELSE r.wrote = NoWrites,
         r.pc = "work" /\ a \in Pages =>
           /\ r.todo \subseteq DOMAIN r.found
           /\ \A c \in r.todo : r.found[c] \in [name : Values, address : Values],
         r.pc = "work" /\ a \in Backfills => \A c \in r.todo : Exists(ViewOf(db, r), c),
         r.pc = "done" => Unmatched(db) = {}
  PROVE  CanonInv'
<1>1. /\ tx' = [b \in Actors |-> tx'[b]] /\ tx'[a] = r
      /\ \A b \in Actors : b # a => tx'[b] = tx[b]
  BY DEF CanonInv, TxShape
<1>2. \A b \in Actors : IsTx(tx[b])
  BY DEF CanonInv, TxShape
<1>3. TxShape'
  <2>1. \A b \in Actors : IsTx(tx'[b])
    BY <1>1, <1>2
  <2> QED
    BY <1>1, <2>1 DEF TxShape
<1>4. DbInv'
  BY DEF CanonInv, DbInv
<1>5. LockInv'
  <2>1. ASSUME NEW b \in Actors, b # a, tx[b].pc \in {"list", "work"}
        PROVE  lock'[tx[b].workspace] = b
    <3>1. lock[tx[b].workspace] = b /\ tx[b].workspace \in Workspaces
      BY <2>1 DEF CanonInv, LockInv
    <3>2. b # Nobody
      BY CanonicalizerAssumption
    <3> QED
      BY <2>1, <3>1, <3>2
  <2>2. \A b \in Actors : tx[b].pc \in {"lock", "list", "work"} => tx[b].workspace \in Workspaces
    BY DEF CanonInv, LockInv
  <2> QED
    BY <1>1, <2>1, <2>2 DEF LockInv
<1>6. WorkInv'
  BY <1>1 DEF CanonInv, WorkInv
<1>7. TodoInv'
  <2>1. \A b \in Pages \cup Backfills : b \in Actors
    BY DEF Actors
  <2>2. \A p \in Pages : tx'[p].pc = "work" =>
          /\ tx'[p].todo \subseteq DOMAIN tx'[p].found
          /\ \A c \in tx'[p].todo : tx'[p].found[c] \in [name : Values, address : Values]
    BY <1>1, <2>1 DEF CanonInv, TodoInv
  <2>3. \A b \in Backfills : tx'[b].pc = "work" =>
          \A c \in tx'[b].todo : Exists(ViewOf(db, tx'[b]), c)
    BY <1>1, <2>1 DEF CanonInv, TodoInv
  <2> QED
    BY <2>2, <2>3 DEF TodoInv
<1>8. BackfillLeavesNone'
  <2>1. \A b \in Backfills : b \in Actors
    BY DEF Actors
  <2>2. Unmatched(db)' = Unmatched(db)
    BY DEF Unmatched
  <2> QED
    BY <1>1, <2>1, <2>2 DEF CanonInv, BackfillLeavesNone
<1> QED
  BY <1>3, <1>4, <1>5, <1>6, <1>7, <1>8 DEF CanonInv

\* A transaction that has written nothing sees what is committed.
LEMMA NothingWritten ==
  ASSUME NEW d, WellFormed(d), NEW r, r.wrote = NoWrites
  PROVE  ViewOf(d, r) = d
<1>1. /\ DOMAIN d.row = Candidates /\ DOMAIN d.business = Candidates
      /\ d = [row |-> d.row, business |-> d.business]
      /\ d.row = [c \in Candidates |-> d.row[c]]
      /\ d.business = [c \in Candidates |-> d.business[c]]
  BY DEF WellFormed, Views
<1>2. /\ DOMAIN r.wrote.row = {} /\ DOMAIN r.wrote.business = {}
  BY DEF NoWrites
<1>3. Overlay(d.row, r.wrote.row) = d.row
  BY <1>1, <1>2 DEF Overlay
<1>4. Overlay(d.business, r.wrote.business) = d.business
  BY <1>1, <1>2 DEF Overlay
<1> QED
  BY <1>1, <1>3, <1>4 DEF ViewOf

\* It may begin its work on any candidates of its workspace.
LEMMA WorkBegins ==
  ASSUME NEW d, WellFormed(d), NEW r, r.wrote = NoWrites, SoundIn(d, r.workspace),
         r.todo \subseteq In(r.workspace)
  PROVE  Working(d, r)
<1>1. ViewOf(d, r) = d
  BY NothingWritten
<1>2. DOMAIN r.wrote.row = {} /\ DOMAIN r.wrote.business = {}
  BY DEF NoWrites
<1>3. KeepsIn(d, d, r.workspace)
  BY DEF KeepsIn
<1> QED
  BY <1>1, <1>2, <1>3 DEF Working

LEMMA IdleIsTx ==
  /\ IsTx(IdleTx) /\ IdleTx.pc = "idle" /\ IdleTx.wrote = NoWrites
BY DEF IsTx, IdleTx, Steps

\* A transaction begins.
Begun(pc, w) ==
  [pc |-> pc, workspace |-> w, todo |-> {}, found |-> << >>, wrote |-> NoWrites]

LEMMA BegunIsTx ==
  \A pc \in Steps, w \in Workspaces \cup {0} :
    /\ IsTx(Begun(pc, w)) /\ Begun(pc, w).pc = pc /\ Begun(pc, w).workspace = w
    /\ Begun(pc, w).wrote = NoWrites
<1> TAKE pc \in Steps, w \in Workspaces \cup {0}
<1> DEFINE r == Begun(pc, w)
<1>1. r = [pc |-> pc, workspace |-> w, todo |-> {}, found |-> << >>, wrote |-> NoWrites]
  BY DEF Begun
<1> HIDE DEF r
<1>2. /\ r.pc = pc /\ r.workspace = w /\ r.todo = {} /\ r.found = << >> /\ r.wrote = NoWrites
  BY ONLY <1>1
<1>3. IsTx(r)
  BY <1>1, <1>2 DEF IsTx
<1> QED
  BY <1>2, <1>3 DEF r

LEMMA BeginPageStep == ASSUME CanonInv, NEW p \in Pages, BeginPage(p) PROVE CanonInv'
<1>1. PICK w \in Workspaces :
        tx' = [tx EXCEPT ![p] = [IdleTx EXCEPT !.pc = "lock", !.workspace = w]]
  BY DEF BeginPage
<1> DEFINE r == [IdleTx EXCEPT !.pc = "lock", !.workspace = w]
<1>2. IsTx(r) /\ r.pc = "lock" /\ r.workspace = w /\ r.wrote = NoWrites
  <2>1. "lock" \in Steps /\ w \in Workspaces \cup {0}
    BY DEF Steps
  <2> HIDE DEF r
  <2>2. r = [IdleTx EXCEPT !.pc = "lock", !.workspace = w]
    BY DEF r
  <2>3. r = Begun("lock", w)
    BY <2>2 DEF Begun, IdleTx
  <2> QED
    BY <2>1, <2>3, BegunIsTx
<1>3. p \in Actors /\ tx' = [tx EXCEPT ![p] = r]
  BY <1>1 DEF Actors
<1>4. /\ db' = db /\ lock' = lock /\ lock \in [Workspaces -> Actors \cup {Nobody}]
  BY DEF BeginPage, CanonInv, LockInv
<1> HIDE DEF r
<1> QED
  BY <1>2, <1>3, <1>4, TxMoves

LEMMA BeginBackfillStep == ASSUME CanonInv, NEW b \in Backfills, BeginBackfill(b) PROVE CanonInv'
<1> DEFINE r == [IdleTx EXCEPT !.pc = "pick"]
<1>1. IsTx(r) /\ r.pc = "pick" /\ r.wrote = NoWrites
  <2>1. "pick" \in Steps /\ 0 \in Workspaces \cup {0}
    BY DEF Steps
  <2> HIDE DEF r
  <2>2. r = [IdleTx EXCEPT !.pc = "pick"]
    BY DEF r
  <2>3. r = Begun("pick", 0)
    BY <2>2 DEF Begun, IdleTx
  <2> QED
    BY <2>1, <2>3, BegunIsTx
<1>2. b \in Actors /\ tx' = [tx EXCEPT ![b] = r]
  BY DEF Actors, BeginBackfill
<1>3. /\ db' = db /\ lock' = lock /\ lock \in [Workspaces -> Actors \cup {Nobody}]
  BY DEF BeginBackfill, CanonInv, LockInv
<1> HIDE DEF r
<1> QED
  BY <1>1, <1>2, <1>3, TxMoves

LEMMA PickStep == ASSUME CanonInv, NEW b \in Backfills, Pick(b) PROVE CanonInv'
<1>1. b \in Actors
  BY DEF Actors
<1>2. /\ db' = db /\ lock' = lock /\ lock \in [Workspaces -> Actors \cup {Nobody}]
  BY DEF Pick, CanonInv, LockInv
<1>3. CASE Unmatched(db) = {}
  <2> DEFINE r == [IdleTx EXCEPT !.pc = "done"]
  <2>1. IsTx(r) /\ r.pc = "done" /\ r.wrote = NoWrites
    <3>1. "done" \in Steps /\ 0 \in Workspaces \cup {0}
      BY DEF Steps
    <3> HIDE DEF r
    <3>2. r = [IdleTx EXCEPT !.pc = "done"]
      BY DEF r
    <3>3. r = Begun("done", 0)
      BY <3>2 DEF Begun, IdleTx
    <3> QED
      BY <3>1, <3>3, BegunIsTx
  <2>2. tx' = [tx EXCEPT ![b] = r]
    BY <1>3 DEF Pick
  <2> HIDE DEF r
  <2> QED
    BY <1>1, <1>2, <1>3, <2>1, <2>2, TxMoves
<1>4. CASE Unmatched(db) # {}
  <2> DEFINE S == {WorkspaceOf[c] : c \in Unmatched(db)}
             w == Min(S)
             r == [IdleTx EXCEPT !.pc = "lock", !.workspace = w]
  <2>1. w \in Workspaces
    <3>1. S \subseteq Workspaces /\ S \in SUBSET Nat /\ S # {}
      BY <1>4, CanonicalizerAssumption DEF Unmatched, Workspaces
    <3> HIDE DEF S
    <3>2. \E m \in S : \A n \in S : m <= n
      BY ONLY <3>1, LeastOf
    <3>3. w \in S
      BY <3>2 DEF Min
    <3> QED
      BY <3>1, <3>3
  <2> HIDE DEF w, S
  <2>2. IsTx(r) /\ r.pc = "lock" /\ r.workspace = w /\ r.wrote = NoWrites
    <3>1. "lock" \in Steps /\ w \in Workspaces \cup {0}
      BY <2>1 DEF Steps
    <3> HIDE DEF r
    <3>2. r = [IdleTx EXCEPT !.pc = "lock", !.workspace = w]
      BY DEF r
    <3>3. r = Begun("lock", w)
      BY <3>2 DEF Begun, IdleTx
    <3> QED
      BY <3>1, <3>3, BegunIsTx
  <2>3. tx' = [tx EXCEPT ![b] = r]
    BY <1>4 DEF Pick, w, S
  <2> HIDE DEF r
  <2> QED
    BY <1>1, <1>2, <2>1, <2>2, <2>3, TxMoves
<1> QED
  BY <1>3, <1>4

\* A transaction goes on.
Changed(s, pc, T, f) ==
  [pc |-> pc, workspace |-> s.workspace, todo |-> T, found |-> f, wrote |-> s.wrote]

LEMMA ChangedIsTx ==
  ASSUME NEW s, IsTx(s), NEW pc \in Steps, NEW T \in SUBSET Candidates, NEW f,
         NEW r, r = Changed(s, pc, T, f)
  PROVE  /\ IsTx(r) /\ r.pc = pc /\ r.workspace = s.workspace /\ r.todo = T /\ r.found = f
         /\ r.wrote = s.wrote
<1>1. r = [pc |-> pc, workspace |-> s.workspace, todo |-> T, found |-> f, wrote |-> s.wrote]
  BY DEF Changed
<1>2. /\ r.pc = pc /\ r.workspace = s.workspace /\ r.todo = T /\ r.found = f
      /\ r.wrote = s.wrote
  BY ONLY <1>1
<1>3. s.workspace \in Workspaces \cup {0}
  BY DEF IsTx
<1> QED
  BY <1>1, <1>2, <1>3 DEF IsTx

\* What the invariant says of one transaction.
LEMMA OneTx ==
  ASSUME CanonInv, NEW a \in Actors
  PROVE  /\ IsTx(tx[a]) /\ tx[a] = Changed(tx[a], tx[a].pc, tx[a].todo, tx[a].found)
         /\ WellFormed(db)
         /\ tx[a].pc # "work" => tx[a].wrote = NoWrites
         /\ tx[a].pc \in {"lock", "list", "work"} =>
              tx[a].workspace \in Workspaces /\ SoundIn(db, tx[a].workspace)
         /\ tx[a].pc \in {"list", "work"} => lock[tx[a].workspace] = a
         /\ tx[a].pc = "work" => Working(db, tx[a])
         /\ lock \in [Workspaces -> Actors \cup {Nobody}]
         /\ \A r : tx' = [tx EXCEPT ![a] = r] => tx'[a] = r
<1>1. IsTx(tx[a]) /\ tx = [b \in Actors |-> tx[b]]
  BY DEF CanonInv, TxShape
<1>2. tx[a] = Changed(tx[a], tx[a].pc, tx[a].todo, tx[a].found)
  BY <1>1 DEF IsTx, Changed
<1>3. /\ WellFormed(db) /\ lock \in [Workspaces -> Actors \cup {Nobody}]
      /\ tx[a].pc # "work" => tx[a].wrote = NoWrites
      /\ tx[a].pc = "work" => Working(db, tx[a])
  BY DEF CanonInv, DbInv, LockInv, WorkInv
<1>4. tx[a].pc \in {"lock", "list", "work"} =>
        tx[a].workspace \in Workspaces /\ SoundIn(db, tx[a].workspace)
  BY DEF CanonInv, DbInv, LockInv
<1>5. tx[a].pc \in {"list", "work"} => lock[tx[a].workspace] = a
  BY DEF CanonInv, LockInv
<1> QED
  BY <1>1, <1>2, <1>3, <1>4, <1>5

LEMMA AcquireStep == ASSUME CanonInv, NEW a \in Actors, Acquire(a) PROVE CanonInv'
<1> DEFINE s == tx[a]
           r == [s EXCEPT !.pc = "list"]
<1>1. /\ s.pc = "lock" /\ lock[s.workspace] = Nobody /\ db' = db
      /\ lock' = [lock EXCEPT ![s.workspace] = a] /\ tx' = [tx EXCEPT ![a] = r]
  BY DEF Acquire
<1>2. /\ IsTx(s) /\ s = Changed(s, s.pc, s.todo, s.found) /\ s.wrote = NoWrites
      /\ s.workspace \in Workspaces /\ lock \in [Workspaces -> Actors \cup {Nobody}]
  BY <1>1, OneTx
<1>3. r = Changed(s, "list", s.todo, s.found)
  <2> HIDE DEF s
  <2> QED
    BY <1>2 DEF Changed
<1> HIDE DEF r, s
<1>4. IsTx(r) /\ r.pc = "list" /\ r.workspace = s.workspace /\ r.wrote = NoWrites
  <2>1. "list" \in Steps /\ s.todo \in SUBSET Candidates
    BY <1>2 DEF Steps, IsTx
  <2>2. /\ IsTx(r) /\ r.pc = "list" /\ r.workspace = s.workspace /\ r.wrote = s.wrote
    BY <1>2, <1>3, <2>1, ChangedIsTx
  <2> QED
    BY <1>2, <2>2
<1>5. /\ lock' \in [Workspaces -> Actors \cup {Nobody}] /\ lock'[s.workspace] = a
      /\ \A w \in Workspaces : lock[w] # a => lock'[w] = lock[w] \/ lock[w] = Nobody
  BY <1>1, <1>2
<1> QED
  BY <1>1, <1>2, <1>4, <1>5, TxMoves

\* The end of a transaction without a commit.
LEMMA AbortStep == ASSUME CanonInv, NEW a \in Actors, Abort(a) PROVE CanonInv'
<1>1. db' = db /\ lock' = Unlocked(a) /\ tx' = [tx EXCEPT ![a] = IdleTx]
  BY DEF Abort
<1>2. lock \in [Workspaces -> Actors \cup {Nobody}]
  BY DEF CanonInv, LockInv
<1>3. /\ lock' \in [Workspaces -> Actors \cup {Nobody}]
      /\ \A w \in Workspaces : lock[w] # a => lock'[w] = lock[w] \/ lock[w] = Nobody
  BY <1>1, <1>2 DEF Unlocked
<1> DEFINE r == IdleTx
<1>4. IsTx(r) /\ r.pc = "idle" /\ r.wrote = NoWrites /\ tx' = [tx EXCEPT ![a] = r]
  BY <1>1, IdleIsTx
<1> HIDE DEF r
<1> QED
  BY <1>1, <1>3, <1>4, TxMoves

\* A transaction that has its lock goes to work on candidates T of its workspace.
LEMMA WorkStep ==
  ASSUME CanonInv, NEW a \in Actors, tx[a].pc = "list", UNCHANGED <<db, lock>>,
         NEW T, T \subseteq In(tx[a].workspace), NEW f,
         NEW r, r = Changed(tx[a], "work", T, f), tx' = [tx EXCEPT ![a] = r],
         a \in Pages => /\ T \subseteq DOMAIN f
                        /\ \A c \in T : f[c] \in [name : Values, address : Values],
         a \in Backfills => \A c \in T : Exists(db, c)
  PROVE  CanonInv'
<1> DEFINE s == tx[a]
<1>1. /\ IsTx(s) /\ s.wrote = NoWrites /\ WellFormed(db)
      /\ s.workspace \in Workspaces /\ SoundIn(db, s.workspace)
      /\ lock[s.workspace] = a /\ lock \in [Workspaces -> Actors \cup {Nobody}]
  BY OneTx
<1>2. T \subseteq In(s.workspace) /\ r = Changed(s, "work", T, f)
  OBVIOUS
<1> HIDE DEF s
<1>3. /\ IsTx(r) /\ r.pc = "work" /\ r.workspace = s.workspace /\ r.todo = T /\ r.found = f
      /\ r.wrote = NoWrites
  <2>1. "work" \in Steps /\ T \in SUBSET Candidates
    BY <1>2 DEF Steps, In
  <2>2. /\ IsTx(r) /\ r.pc = "work" /\ r.workspace = s.workspace /\ r.todo = T /\ r.found = f
        /\ r.wrote = s.wrote
    BY <1>1, <1>2, <2>1, ChangedIsTx
  <2> QED
    BY <1>1, <2>2
<1>4. Working(db, r) /\ ViewOf(db, r) = db
  <2>1. SoundIn(db, r.workspace) /\ r.todo \subseteq In(r.workspace) /\ r.wrote = NoWrites
    BY <1>1, <1>2, <1>3
  <2> QED
    BY <1>1, <2>1, WorkBegins, NothingWritten
<1> QED
  BY <1>1, <1>3, <1>4, TxMoves

LEMMA TakeStep == ASSUME CanonInv, NEW p \in Pages, Take(p) PROVE CanonInv'
<1> DEFINE s == tx[p]
<1>1. PICK S \in SUBSET {c \in Candidates : WorkspaceOf[c] = s.workspace} :
        \E found \in [S -> Found] :
          tx' = [tx EXCEPT ![p].pc = "work", ![p].todo = S, ![p].found = found]
  BY DEF Take
<1>2. PICK found \in [S -> Found] :
        tx' = [tx EXCEPT ![p].pc = "work", ![p].todo = S, ![p].found = found]
  BY <1>1
<1>3. /\ p \in Actors /\ p \notin Backfills
  BY CanonicalizerAssumption DEF Actors
<1>4. s.pc = "list" /\ UNCHANGED <<db, lock>>
  BY DEF Take
<1>5. IsTx(s) /\ s = Changed(s, s.pc, s.todo, s.found)
  BY <1>3, OneTx
<1> DEFINE r == [s EXCEPT !.pc = "work", !.todo = S, !.found = found]
<1>6. tx' = [tx EXCEPT ![p] = r]
  BY <1>2
<1>7. r = Changed(s, "work", S, found)
  <2> HIDE DEF s
  <2>1. r = [s EXCEPT !.pc = "work", !.todo = S, !.found = found]
    OBVIOUS
  <2> HIDE DEF r
  <2> QED
    BY <1>5, <2>1 DEF Changed
<1>8. S \subseteq In(s.workspace)
  BY <1>1 DEF In
<1>9. S \subseteq DOMAIN found /\ \A c \in S : found[c] \in [name : Values, address : Values]
  BY <1>2, CanonicalizerAssumption
<1> HIDE DEF r
<1> QED
  BY <1>3, <1>4, <1>6, <1>7, <1>8, <1>9, WorkStep

LEMMA ListStep == ASSUME CanonInv, NEW b \in Backfills, List(b) PROVE CanonInv'
<1> DEFINE s == tx[b]
           T == Oldest({c \in Unmatched(View(b)) : WorkspaceOf[c] = s.workspace}, BatchSize)
           r == [s EXCEPT !.pc = "work", !.todo = T]
<1>1. b \in Actors /\ b \notin Pages
  BY CanonicalizerAssumption DEF Actors
<1>2. s.pc = "list" /\ UNCHANGED <<db, lock>> /\ tx' = [tx EXCEPT ![b] = r]
  BY DEF List
<1>3. /\ IsTx(s) /\ s = Changed(s, s.pc, s.todo, s.found) /\ s.wrote = NoWrites
      /\ WellFormed(db)
  BY <1>1, <1>2, OneTx
<1>4. View(b) = db
  <2>1. View(b) = ViewOf(db, s)
    BY DEF View, ViewOf
  <2> HIDE DEF s
  <2> QED
    BY <1>3, <2>1, NothingWritten
<1>5. T \subseteq In(s.workspace) /\ \A c \in T : Exists(db, c)
  BY <1>4 DEF Oldest, Unmatched, In
<1> HIDE DEF T
<1>6. r = Changed(s, "work", T, s.found)
  <2> HIDE DEF s
  <2>1. r = [s EXCEPT !.pc = "work", !.todo = T]
    OBVIOUS
  <2> HIDE DEF r
  <2> QED
    BY <1>3, <2>1 DEF Changed
<1> HIDE DEF r
<1> QED
  BY <1>1, <1>2, <1>5, <1>6, WorkStep

\* A transaction at work writes what it has decided about one candidate.
LEMMA WriteStep ==
  ASSUME CanonInv, NEW a \in Actors, tx[a].pc = "work", UNCHANGED <<db, lock>>,
         NEW c \in tx[a].todo, NEW n, Write(a, c, n), WellFormed(n),
         SoundIn(n, tx[a].workspace), KeepsIn(View(a), n, tx[a].workspace),
         Outside(View(a), n, tx[a].workspace), Matched(n, c),
         \A x \in Candidates : x # c => n.row[x] = View(a).row[x]
  PROVE  CanonInv'
<1> DEFINE s == tx[a]
           v == View(a)
           r == Written(s, c, n, v)
<1>1. tx' = [tx EXCEPT ![a] = r]
  BY DEF Write, Written
<1>2. v = ViewOf(db, s)
  BY DEF View, ViewOf
<1>3. /\ IsTx(s) /\ WellFormed(db) /\ s.workspace \in Workspaces /\ Working(db, s)
      /\ lock[s.workspace] = a /\ lock \in [Workspaces -> Actors \cup {Nobody}]
  BY OneTx
<1>4. /\ c \in s.todo /\ SoundIn(n, s.workspace) /\ KeepsIn(v, n, s.workspace)
      /\ Outside(v, n, s.workspace) /\ \A x \in Candidates : x # c => n.row[x] = v.row[x]
  OBVIOUS
<1>5. r = Written(s, c, n, v)
  OBVIOUS
<1>6. a \in Backfills => \A x \in s.todo : Exists(v, x) /\ x \in Candidates
  <2>1. s.todo \subseteq Candidates
    BY <1>3 DEF IsTx
  <2> QED
    BY <1>2, <2>1 DEF CanonInv, TodoInv
<1>7. a \in Pages => /\ s.todo \subseteq DOMAIN s.found
                     /\ \A x \in s.todo : s.found[x] \in [name : Values, address : Values]
  BY DEF CanonInv, TodoInv
<1>8. s.pc = "work" /\ Matched(n, c) /\ WellFormed(n)
  OBVIOUS
<1> HIDE DEF r, v, s
<1>9. /\ IsTx(r) /\ r.pc = s.pc /\ r.workspace = s.workspace /\ r.todo = s.todo \ {c}
      /\ r.found = s.found /\ ViewOf(db, r) = n /\ Working(db, r)
  BY ONLY <1>2, <1>3, <1>4, <1>5, <1>8, WriteWorks
<1>10. a \in Backfills => \A x \in r.todo : Exists(ViewOf(db, r), x)
  BY <1>4, <1>6, <1>9 DEF Exists
<1>11. a \in Pages => /\ r.todo \subseteq DOMAIN r.found
                      /\ \A x \in r.todo : r.found[x] \in [name : Values, address : Values]
  BY <1>7, <1>9
<1> QED
  BY <1>1, <1>3, <1>8, <1>9, <1>10, <1>11, TxMoves

LEMMA PersistResultStep ==
  ASSUME CanonInv, NEW p \in Actors, NEW c \in Candidates, PersistResult(p, c)
  PROVE  CanonInv'
<1> DEFINE v == View(p)
           w == tx[p].workspace
           found == tx[p].found[c]
           u == Upserted(v, c, found)
           n == Canonicalized(u, c)
<1>1. /\ p \in Pages /\ tx[p].pc = "work" /\ c \in tx[p].todo /\ UNCHANGED <<db, lock>>
      /\ Write(p, c, n)
  BY DEF PersistResult
<1>2. Working(db, tx[p]) /\ v = ViewOf(db, tx[p])
  BY <1>1, OneTx DEF View, ViewOf
<1>3. WellFormed(v) /\ SoundIn(v, w) /\ c \in In(w)
  <2>1. /\ WellFormed(ViewOf(db, tx[p])) /\ SoundIn(ViewOf(db, tx[p]), w)
        /\ tx[p].todo \subseteq In(w)
    BY <1>2 DEF Working
  <2> HIDE DEF v
  <2> QED
    BY <1>1, <1>2, <2>1
<1>4. found \in [name : Values, address : Values]
  BY <1>1 DEF CanonInv, TodoInv
<1>5. u = Upserted(v, c, found) /\ n = Canonicalized(u, c) /\ v = View(p) /\ w = tx[p].workspace
  OBVIOUS
<1> HIDE DEF n, u, v, w, found
<1>6. /\ WellFormed(u) /\ SoundIn(u, w) /\ KeepsIn(v, u, w) /\ Outside(v, u, w)
      /\ Exists(u, c) /\ \A x \in Candidates : x # c => u.row[x] = v.row[x]
  BY ONLY <1>3, <1>4, <1>5, UpsertSound
<1>7. /\ WellFormed(n) /\ SoundIn(n, w) /\ KeepsIn(u, n, w) /\ Outside(u, n, w)
      /\ Matched(n, c) /\ \A x \in Candidates : x # c => n.row[x] = u.row[x]
  BY ONLY <1>3, <1>5, <1>6, CanonicalizedSound
<1>8. KeepsIn(v, n, w)
  BY <1>6, <1>7, KeepsTwice
<1>9. Outside(v, n, w) /\ \A x \in Candidates : x # c => n.row[x] = v.row[x]
  BY <1>6, <1>7 DEF Outside
<1> QED
  BY <1>1, <1>5, <1>7, <1>8, <1>9, WriteStep

LEMMA BackfillCandidateStep ==
  ASSUME CanonInv, NEW b \in Actors, NEW c \in Candidates, BackfillCandidate(b, c)
  PROVE  CanonInv'
<1> DEFINE v == View(b)
           w == tx[b].workspace
           n == Canonicalized(v, c)
<1>1. /\ b \in Backfills /\ tx[b].pc = "work" /\ c \in tx[b].todo /\ UNCHANGED <<db, lock>>
      /\ Write(b, c, n)
  BY DEF BackfillCandidate, Oldest
<1>2. Working(db, tx[b]) /\ v = ViewOf(db, tx[b])
  BY <1>1, OneTx DEF View, ViewOf
<1>3. WellFormed(v) /\ SoundIn(v, w) /\ c \in In(w) /\ Exists(v, c)
  <2>1. /\ WellFormed(ViewOf(db, tx[b])) /\ SoundIn(ViewOf(db, tx[b]), w)
        /\ tx[b].todo \subseteq In(w)
    BY <1>2 DEF Working
  <2>2. Exists(ViewOf(db, tx[b]), c)
    BY <1>1 DEF CanonInv, TodoInv
  <2> HIDE DEF v
  <2> QED
    BY <1>1, <1>2, <2>1, <2>2
<1>4. n = Canonicalized(v, c) /\ v = View(b) /\ w = tx[b].workspace
  OBVIOUS
<1> HIDE DEF n, v, w
<1>5. /\ WellFormed(n) /\ SoundIn(n, w) /\ KeepsIn(v, n, w) /\ Outside(v, n, w)
      /\ Matched(n, c) /\ \A x \in Candidates : x # c => n.row[x] = v.row[x]
  BY ONLY <1>3, <1>4, CanonicalizedSound
<1> QED
  BY <1>1, <1>4, <1>5, WriteStep

\* What a commit does to the committed rows.
LEMMA CommitFacts ==
  ASSUME CanonInv, NEW a \in Actors, Commit(a)
  PROVE  /\ tx[a].pc = "work" /\ tx[a].workspace \in Workspaces
         /\ WellFormed(db') /\ \A w \in Workspaces : SoundIn(db', w)
         /\ \A w \in Workspaces : w # tx[a].workspace => SameIn(db, db', w)
         /\ Outside(db, db', tx[a].workspace) /\ KeepsIn(db, db', tx[a].workspace)
         /\ Unmatched(db') \subseteq Unmatched(db)
<1> DEFINE r == tx[a]
           v == View(a)
<1>1. tx[a].pc = "work" /\ db' = v
  BY DEF Commit
<1>2. /\ WellFormed(db) /\ Working(db, r) /\ r.workspace \in Workspaces
      /\ \A w \in Workspaces : SoundIn(db, w)
  BY <1>1, OneTx DEF CanonInv, DbInv
<1>3. v = ViewOf(db, r)
  BY DEF View, ViewOf
<1> HIDE DEF v, r
<1>4. /\ WellFormed(v) /\ \A w \in Workspaces : SoundIn(v, w)
      /\ \A w \in Workspaces : w # r.workspace => SameIn(db, v, w)
      /\ Outside(db, v, r.workspace) /\ KeepsIn(db, v, r.workspace)
      /\ Unmatched(v) \subseteq Unmatched(db)
  BY ONLY <1>2, <1>3, CommitWorks
<1> QED
  BY <1>1, <1>2, <1>4 DEF r

LEMMA CommitStep == ASSUME CanonInv, NEW a \in Actors, Commit(a) PROVE CanonInv'
<1> DEFINE r == IF a \in Backfills THEN [IdleTx EXCEPT !.pc = "pick"] ELSE IdleTx
           e == db'
<1>1. /\ tx[a].pc = "work" /\ lock' = Unlocked(a) /\ tx' = [tx EXCEPT ![a] = r]
  BY DEF Commit
<1>2. /\ WellFormed(e) /\ \A w \in Workspaces : SoundIn(e, w)
      /\ \A w \in Workspaces : w # tx[a].workspace => SameIn(db, e, w)
      /\ Unmatched(e) \subseteq Unmatched(db)
  BY CommitFacts
<1>3. IsTx(r) /\ r.pc \in {"idle", "pick"} /\ r.wrote = NoWrites
  <2>1. CASE a \in Backfills
    <3> DEFINE q == [IdleTx EXCEPT !.pc = "pick"]
    <3>1. "pick" \in Steps /\ 0 \in Workspaces \cup {0}
      BY DEF Steps
    <3>2. r = q
      BY <2>1
    <3> HIDE DEF q, r
    <3>3. q = [IdleTx EXCEPT !.pc = "pick"]
      BY DEF q
    <3>4. q = Begun("pick", 0)
      BY <3>3 DEF Begun, IdleTx
    <3> QED
      BY <3>1, <3>2, <3>4, BegunIsTx
  <2>2. CASE a \notin Backfills
    <3>1. r = IdleTx
      BY <2>2
    <3> HIDE DEF r
    <3> QED
      BY <3>1, IdleIsTx
  <2> QED
    BY <2>1, <2>2
<1> HIDE DEF r, e
<1>4. /\ tx' = [b \in Actors |-> tx'[b]] /\ tx'[a] = r
      /\ \A b \in Actors : b # a => tx'[b] = tx[b]
  BY <1>1 DEF CanonInv, TxShape
<1>5. TxShape'
  <2>1. \A b \in Actors : IsTx(tx[b])
    BY DEF CanonInv, TxShape
  <2>2. \A b \in Actors : IsTx(tx'[b])
    BY <1>3, <1>4, <2>1
  <2> QED
    BY <1>4, <2>2 DEF TxShape
<1>6. DbInv'
  BY <1>2 DEF DbInv, e
<1>7. lock \in [Workspaces -> Actors \cup {Nobody}] /\ lock[tx[a].workspace] = a
  BY <1>1, OneTx
<1>8. LockInv'
  <2>1. lock' \in [Workspaces -> Actors \cup {Nobody}]
    BY <1>1, <1>7 DEF Unlocked
  <2>2. \A b \in Actors : tx[b].pc \in {"lock", "list", "work"} => tx[b].workspace \in Workspaces
    BY DEF CanonInv, LockInv
  <2>3. ASSUME NEW b \in Actors, b # a, tx[b].pc \in {"list", "work"}
        PROVE  lock'[tx[b].workspace] = b
    <3>1. lock[tx[b].workspace] = b
      BY <2>3 DEF CanonInv, LockInv
    <3> QED
      BY <2>2, <2>3, <3>1, <1>1, <1>7 DEF Unlocked
  <2> QED
    BY <1>3, <1>4, <2>1, <2>2, <2>3 DEF LockInv
<1>9. ASSUME NEW b \in Actors, b # a, tx[b].pc = "work"
      PROVE  Working(e, tx[b]) /\ SameIn(ViewOf(db, tx[b]), ViewOf(e, tx[b]), tx[b].workspace)
  <2> DEFINE s == tx[b]
  <2>1. /\ s.workspace \in Workspaces /\ lock[s.workspace] = b /\ Working(db, s)
        /\ WellFormed(db)
    BY <1>9, OneTx
  <2>2. SameIn(db, e, s.workspace)
    BY <1>2, <1>7, <1>9, <2>1
  <2> HIDE DEF s
  <2>3. Working(e, s) /\ SameIn(ViewOf(db, s), ViewOf(e, s), s.workspace)
    BY ONLY <1>2, <2>1, <2>2, WorkingStays
  <2> QED
    BY <2>3 DEF s
<1>10. WorkInv'
  BY <1>3, <1>4, <1>9 DEF CanonInv, WorkInv, e
<1>11. TodoInv'
  <2>1. \A b \in Pages \cup Backfills : b \in Actors
    BY DEF Actors
  <2>2. \A p \in Pages : tx'[p].pc = "work" =>
          /\ tx'[p].todo \subseteq DOMAIN tx'[p].found
          /\ \A c \in tx'[p].todo : tx'[p].found[c] \in [name : Values, address : Values]
    BY <1>3, <1>4, <2>1 DEF CanonInv, TodoInv
  <2>3. ASSUME NEW b \in Backfills, tx'[b].pc = "work", NEW c \in tx'[b].todo
        PROVE  Exists(ViewOf(e, tx'[b]), c)
    <3>1. b \in Actors /\ b # a /\ tx'[b] = tx[b]
      BY <1>3, <1>4, <2>1, <2>3
    <3>2. Exists(ViewOf(db, tx[b]), c)
      BY <2>3, <3>1 DEF CanonInv, TodoInv
    <3>3. /\ Working(e, tx[b])
          /\ SameIn(ViewOf(db, tx[b]), ViewOf(e, tx[b]), tx[b].workspace)
      BY <1>9, <2>3, <3>1
    <3>4. c \in In(tx[b].workspace)
      BY <2>3, <3>1, <3>3 DEF Working
    <3>5. ViewOf(e, tx[b]).row[c] = ViewOf(db, tx[b]).row[c]
      BY <3>3, <3>4 DEF SameIn
    <3> QED
      BY <3>1, <3>2, <3>5 DEF Exists
  <2> QED
    BY <2>2, <2>3 DEF TodoInv, e
<1>12. BackfillLeavesNone'
  <2>1. \A b \in Backfills : b \in Actors
    BY DEF Actors
  <2>2. ASSUME NEW b \in Backfills, tx'[b].pc = "done" PROVE Unmatched(e) = {}
    <3>1. tx[b].pc = "done"
      BY <1>3, <1>4, <2>1, <2>2
    <3>2. Unmatched(db) = {}
      BY <3>1 DEF CanonInv, BackfillLeavesNone
    <3> QED
      BY <3>2, <1>2
  <2> QED
    BY <2>2 DEF BackfillLeavesNone, e, Unmatched, Matched, Exists
<1> QED
  BY <1>5, <1>6, <1>8, <1>10, <1>11, <1>12 DEF CanonInv
-----------------------------------------------------------------------------
(***************************************************************************)
(* The theorems.                                                           *)
(***************************************************************************)
LEMMA CanonInit == Init => CanonInv
<1> SUFFICES ASSUME Init PROVE CanonInv
  OBVIOUS
<1>1. PICK identity \in [Old -> OldIdentities] :
        db = [row |-> [c \in Candidates |->
                         IF c \in Old
                         THEN [identity |-> identity[c], business |-> None, reason |-> "none"]
                         ELSE Absent],
              business |-> [c \in Candidates |-> Nothing]]
  BY DEF Init
<1> DEFINE row == [c \in Candidates |->
                     IF c \in Old
                     THEN [identity |-> identity[c], business |-> None, reason |-> "none"]
                     ELSE Absent]
           business == [c \in Candidates |-> Nothing]
<1>2. \A c \in Old : [identity |-> identity[c], business |-> None, reason |-> "none"] \in Rows
  BY CanonicalizerAssumption DEF Rows
<1>3. /\ row \in [Candidates -> Rows \cup {Absent}]
      /\ business \in [Candidates -> Businesses \cup {Nothing}]
      /\ \A c \in Candidates : row[c] = Absent \/ row[c].business = None
      /\ \A c \in Candidates : business[c] = Nothing
  BY <1>2
<1>4. db = [row |-> row, business |-> business]
  BY <1>1
<1> HIDE DEF row, business
<1>5. db.row = row /\ db.business = business
  BY <1>4
<1>6. \A c \in Candidates : ~Matched(db, c) /\ db.business[c] = Nothing
  BY <1>3, <1>5 DEF Matched, Exists
<1>7. DbInv
  <2>1. WellFormed(db)
    BY <1>3, <1>4, <1>6 DEF WellFormed, Views
  <2>2. \A w : In(w) \subseteq Candidates
    BY DEF In
  <2>3. \A w \in Workspaces : SoundIn(db, w)
    BY <1>6, <2>2 DEF SoundIn, LinksIn, FoundersIn, ListingsIn, WeakIn, AmbiguousIn, Alike
  <2> QED
    BY <2>1, <2>3 DEF DbInv
<1>8. /\ tx = [a \in Actors |-> tx[a]]
      /\ \A a \in Actors : tx[a] = IdleTx /\ tx[a].pc = "idle" /\ tx[a].wrote = NoWrites
  <2>1. tx = [a \in Actors |-> IdleTx]
    BY DEF Init
  <2>2. IdleTx.pc = "idle" /\ IdleTx.wrote = NoWrites
    BY IdleIsTx
  <2> QED
    BY <2>1, <2>2
<1>9. TxShape
  BY <1>8, IdleIsTx DEF TxShape
<1>10. \A a \in Pages \cup Backfills : a \in Actors
  BY DEF Actors
<1>11. LockInv
  BY <1>8 DEF LockInv, Init
<1>12. WorkInv
  BY <1>8 DEF WorkInv
<1>13. TodoInv
  BY <1>8, <1>10 DEF TodoInv
<1>14. BackfillLeavesNone
  BY <1>8, <1>10 DEF BackfillLeavesNone
<1> QED
  BY <1>7, <1>9, <1>11, <1>12, <1>13, <1>14 DEF CanonInv

LEMMA CanonNext == CanonInv /\ [Next]_vars => CanonInv'
<1> SUFFICES ASSUME CanonInv, [Next]_vars PROVE CanonInv'
  OBVIOUS
<1>1. ASSUME NEW p \in Pages, BeginPage(p) PROVE CanonInv'
  BY <1>1, BeginPageStep
<1>2. ASSUME NEW p \in Pages, Take(p) PROVE CanonInv'
  BY <1>2, TakeStep
<1>3. ASSUME NEW b \in Backfills, BeginBackfill(b) PROVE CanonInv'
  BY <1>3, BeginBackfillStep
<1>4. ASSUME NEW b \in Backfills, Pick(b) PROVE CanonInv'
  BY <1>4, PickStep
<1>5. ASSUME NEW b \in Backfills, List(b) PROVE CanonInv'
  BY <1>5, ListStep
<1>6. ASSUME NEW a \in Actors, Acquire(a) PROVE CanonInv'
  BY <1>6, AcquireStep
<1>7. ASSUME NEW a \in Actors, Commit(a) PROVE CanonInv'
  BY <1>7, CommitStep
<1>8. ASSUME NEW a \in Actors, Abort(a) PROVE CanonInv'
  BY <1>8, AbortStep
<1>9. ASSUME NEW a \in Actors, NEW c \in Candidates, PersistResult(a, c) PROVE CanonInv'
  BY <1>9, PersistResultStep
<1>10. ASSUME NEW a \in Actors, NEW c \in Candidates, BackfillCandidate(a, c) PROVE CanonInv'
  BY <1>10, BackfillCandidateStep
<1>11. CASE UNCHANGED vars
  <2>1. db' = db /\ lock' = lock /\ tx' = tx
    BY <1>11 DEF vars
  <2>2. TxShape' /\ DbInv' /\ LockInv'
    BY <2>1 DEF CanonInv, TxShape, DbInv, LockInv
  <2>3. WorkInv' /\ TodoInv'
    BY <2>1 DEF CanonInv, WorkInv, TodoInv
  <2>4. BackfillLeavesNone'
    BY <2>1 DEF CanonInv, BackfillLeavesNone, Unmatched
  <2> QED
    BY <2>2, <2>3, <2>4 DEF CanonInv
<1> QED
  BY <1>1, <1>2, <1>3, <1>4, <1>5, <1>6, <1>7, <1>8, <1>9, <1>10, <1>11 DEF Next

\* The committed rows of a workspace are sound, who works there has its lock, and
\* what it sees is sound as well.
THEOREM CanonicalizerInvariant == Spec => []CanonInv
BY CanonInit, CanonNext, PTL DEF Spec

\* Every variable keeps its type.
THEOREM CanonicalizerTypes == Spec => []TypeOK
<1>1. CanonInv => TypeOK
  <2> SUFFICES ASSUME CanonInv PROVE TypeOK
    OBVIOUS
  <2>1. db \in Views /\ lock \in [Workspaces -> Actors \cup {Nobody}] /\ DOMAIN tx = Actors
    BY DEF CanonInv, DbInv, WellFormed, LockInv, TxShape
  <2>2. \A a \in Actors :
          /\ tx[a].pc \in Steps
          /\ tx[a].todo \subseteq Candidates
          /\ tx[a].workspace \in Workspaces \cup {0}
          /\ tx[a].pc = "work" /\ a \in Pages => tx[a].todo \subseteq DOMAIN tx[a].found
    BY DEF CanonInv, TxShape, IsTx, TodoInv
  <2> QED
    BY <2>1, <2>2 DEF TypeOK
<1> QED
  BY <1>1, CanonicalizerInvariant, PTL

\* Candidates of one listing, in one workspace, have one business, whichever
\* pages and backfills match them side by side.
THEOREM ListingsHaveOneBusiness == Spec => []SameListingSameBusiness
<1>1. CanonInv => SameListingSameBusiness
  BY DEF CanonInv, DbInv, SameListingSameBusiness, SoundIn, ListingsIn, In, Workspaces
<1> QED
  BY <1>1, CanonicalizerInvariant, PTL

\* Two businesses of one name and address that nothing tells apart exist only where
\* a phone or a domain tells two others of them apart: no transaction founds a
\* second one where the rule on name and address has a single match.
THEOREM TwinsStayAmbiguous == Spec => []TwinsAreAmbiguous
<1>1. CanonInv => TwinsAreAmbiguous
  <2> SUFFICES ASSUME CanonInv, NEW b \in Candidates, NEW d \in Candidates,
                      Twins(b, d), ~Irreconcilable(b, d)
               PROVE  \E e, f \in Candidates : /\ Twins(e, f) /\ Irreconcilable(e, f)
                                               /\ Twins(b, e) \/ b = e
    BY DEF TwinsAreAmbiguous
  <2> DEFINE w == WorkspaceOf[b]
  <2>1. \A x \in Candidates : db.business[x] # Nothing => db.business[x].workspace = WorkspaceOf[x]
    BY DEF CanonInv, DbInv, WellFormed
  <2>2. b \in In(w) /\ d \in In(w) /\ w \in Workspaces
    BY <2>1 DEF Twins, In, Workspaces
  <2>3. Alike(db, b, d) /\ ~Apart(db, b, d)
    BY DEF Twins, Irreconcilable, Alike, Apart
  <2>4. AmbiguousIn(db, w)
    BY <2>2 DEF CanonInv, DbInv, SoundIn
  <2>5. PICK e \in In(w), f \in In(w) :
          Alike(db, e, f) /\ Apart(db, e, f) /\ (Alike(db, b, e) \/ b = e)
    BY <2>2, <2>3, <2>4 DEF AmbiguousIn
  <2>6. \A x, y \in In(w) : x \in Candidates /\ (Alike(db, x, y) => Twins(x, y))
    BY <2>1 DEF Alike, Twins, In
  <2> QED
    BY <2>2, <2>5, <2>6 DEF Irreconcilable, Apart
<1> QED
  BY <1>1, CanonicalizerInvariant, PTL

\* A candidate that a weaker rule joined to a business says nothing else of phone
\* and domain than the business, whatever was filled in or replayed since.
THEOREM WeakLinksStayTrue == Spec => []WeakLinksAgree
<1>1. CanonInv => WeakLinksAgree
  <2> SUFFICES ASSUME CanonInv, NEW c \in Candidates, Matched(db, c),
                      db.row[c].reason \in WeakReasons
               PROVE  ~Conflict(NormalIdentity(db.row[c].identity),
                                db.business[db.row[c].business].normal)
    BY DEF WeakLinksAgree
  <2> DEFINE left == NormalIdentity(db.row[c].identity)
             right == db.business[db.row[c].business].normal
  <2>1. c \in In(WorkspaceOf[c]) /\ WorkspaceOf[c] \in Workspaces
    BY DEF In, Workspaces
  <2>2. Agreed(db, c, db.row[c].business)
    BY <2>1 DEF CanonInv, DbInv, SoundIn, WeakIn
  <2>3. \A f \in Strong : left[f] = Normal[db.row[c].identity[f]]
    BY NormalTypes DEF CanonInv, DbInv, WellFormed, Matched, Strong, Fields
  <2>4. \A f \in Strong : left[f] # None => right[f] = left[f] \/ right[f] = None
    BY <2>2, <2>3 DEF Agreed
  <2> HIDE DEF left, right
  <2>5. ~Conflict(left, right)
    BY <2>4 DEF Conflict, Strong
  <2> QED
    BY <2>5 DEF left, right
<1> QED
  BY <1>1, CanonicalizerInvariant, PTL

\* After a backfill that ended well no candidate is without a business.
THEOREM BackfillFinishes == Spec => []BackfillLeavesNone
BY CanonicalizerInvariant, PTL DEF CanonInv

\* A match, and what a business is known by, is never taken back or replaced.
THEOREM MatchesStand == Spec => MatchesAreFinal
<1> DEFINE Kept ==
      \A c \in Candidates :
        /\ Matched(db, c) => /\ db'.row[c].business = db.row[c].business
                             /\ db'.row[c].reason = db.row[c].reason
        /\ db.business[c] # Nothing =>
             \A f \in Fields : db.business[c].normal[f] # None =>
               db'.business[c].normal[f] = db.business[c].normal[f]
<1>1. CanonInv /\ [Next]_vars => [Kept]_vars
  <2> SUFFICES ASSUME CanonInv, Next PROVE Kept
    OBVIOUS
  <2>1. CASE db' = db
    BY <2>1
  <2>2. ASSUME NEW a \in Actors, Commit(a) PROVE Kept
    <3>1. /\ Outside(db, db', tx[a].workspace) /\ KeepsIn(db, db', tx[a].workspace)
      BY <2>2, CommitFacts
    <3> SUFFICES ASSUME NEW c \in Candidates
                 PROVE  /\ Matched(db, c) => /\ db'.row[c].business = db.row[c].business
                                             /\ db'.row[c].reason = db.row[c].reason
                        /\ db.business[c] # Nothing =>
                             \A f \in Fields : db.business[c].normal[f] # None =>
                               db'.business[c].normal[f] = db.business[c].normal[f]
      OBVIOUS
    <3>2. CASE c \in In(tx[a].workspace)
      BY <3>1, <3>2 DEF KeepsIn
    <3>3. CASE c \notin In(tx[a].workspace)
      BY <3>1, <3>3 DEF Outside
    <3> QED
      BY <3>2, <3>3
  <2>3. db' = db \/ \E a \in Actors : Commit(a)
    BY DEF Next, BeginPage, Take, BeginBackfill, Pick, List, Acquire, Abort, PersistResult,
       BackfillCandidate
  <2> HIDE DEF Kept
  <2> QED
    BY <2>1, <2>2, <2>3
<1>2. MatchesAreFinal <=> [][Kept]_vars
  BY DEF MatchesAreFinal
<1> HIDE DEF Kept
<1> QED
  BY <1>1, <1>2, CanonicalizerInvariant, PTL DEF Spec
=============================================================================
