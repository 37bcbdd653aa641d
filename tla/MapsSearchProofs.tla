---------------------------- MODULE MapsSearchProofs ----------------------------
(***************************************************************************)
(* Proofs about MapsSearch, for any lists the site may answer with, any    *)
(* rendering, any limits and any number of retries.                        *)
(*                                                                         *)
(* What a call may forget is bounded by what it has looked at: a listing   *)
(* is new if no place of it is in the memory of the call, it takes the     *)
(* first of these, and it knows when it has left some.                     *)
(***************************************************************************)
EXTENDS MapsSearch, FiniteSetTheorems, WellFoundedInduction, TLAPS

PageOK(p) ==
  /\ p = [feed |-> p.feed, shown |-> p.shown, marks |-> p.marks, scrolls |-> p.scrolls]
  /\ p.feed \in Feeds
  /\ p.shown \in Nat /\ p.shown <= Len(p.feed)
  /\ p.marks \in BOOLEAN /\ p.scrolls \in BOOLEAN

CallOK(c) ==
  /\ c = [pc |-> c.pc, seen |-> c.seen, results |-> c.results, rounds |-> c.rounds,
          empty |-> c.empty, scrolled |-> c.scrolled, asked |-> c.asked,
          shown |-> c.shown, fresh |-> c.fresh, left |-> c.left]
  /\ c.pc \in {"idle", "extract", "end", "turn"}
  /\ c.seen \subseteq Listings /\ IsFiniteSet(c.seen) /\ Cardinality(c.seen) <= MaxSeen
  /\ c.results \subseteq Listings /\ IsFiniteSet(c.results)
  /\ Cardinality(c.results) <= PageSize
  /\ c.rounds \in Nat /\ c.rounds <= MaxRounds
  /\ c.empty \in Nat /\ c.empty <= MaxEmpty
  /\ c.shown \in Nat
  /\ c.scrolled \in BOOLEAN /\ c.asked \in BOOLEAN /\ c.fresh \in BOOLEAN /\ c.left \in BOOLEAN

CursorOK(k) ==
  /\ k = [seen |-> k.seen, rounds |-> k.rounds]
  /\ k.seen \subseteq Listings /\ IsFiniteSet(k.seen) /\ Cardinality(k.seen) <= MaxSeen
  /\ k.rounds \in Nat /\ k.rounds <= MaxRounds

\* A call that has extracted, and left nothing over, has seen all that was rendered.
SeenIsShown ==
  call.pc = "end" /\ ~call.left =>
    \A i \in {i \in Nat : 1 <= i /\ i <= call.shown} : page.feed[i] \in call.seen

SearchInv ==
  /\ PageOK(page) /\ CallOK(call) /\ CursorOK(cursor)
  /\ call.shown <= page.shown
  /\ found \subseteq Listings
  /\ ended \in Endings \cup {"no"}
  /\ thrown \in Nat /\ thrown <= RetryLimit
  /\ call.pc # "idle" => ended = "no"
  /\ CursorIsWhatWasFound
  /\ SeenIsShown
  /\ EndIsComplete
-----------------------------------------------------------------------------
(***************************************************************************)
(* Places.                                                                 *)
(***************************************************************************)
LEMMA FeedFacts ==
  ASSUME NEW feed \in Feeds
  PROVE  /\ Len(feed) \in Nat
         /\ \A i \in Nat : 1 <= i /\ i <= Len(feed) => feed[i] \in Listings
         /\ \A x \in Range(feed) : \E i \in Nat : 1 <= i /\ i <= Len(feed) /\ x = feed[i]
<1>1. feed \in Seq(Range(feed))
  BY MapsSearchAssumption
<1>2. Len(feed) \in Nat /\ DOMAIN feed = 1 .. Len(feed)
  BY <1>1
<1>3. \A i \in Nat : 1 <= i /\ i <= Len(feed) => i \in DOMAIN feed
  BY <1>2
<1>4. \A i \in DOMAIN feed : i \in Nat /\ 1 <= i /\ i <= Len(feed)
  BY <1>2
<1>5. \A i \in DOMAIN feed : feed[i] \in Listings
  BY DEF Listings, Range
<1> QED
  BY <1>2, <1>3, <1>4, <1>5 DEF Range

\* A set of numbers has a least one.
LEMMA LeastOf == ASSUME NEW T \in SUBSET Nat, T # {} PROVE \E m \in T : \A n \in T : m <= n
<1> DEFINE R == {p \in Nat \X Nat : p[1] < p[2]}
<1>1. IsWellFoundedOn(R, Nat)
  <2>1. OpToRel(<, Nat) = R
    BY DEF OpToRel
  <2> QED
    BY <2>1, NatLessThanWellFounded
<1>2. \A n, m \in Nat : <<n, m>> \notin R => m <= n
  <2> TAKE n \in Nat, m \in Nat
  <2>1. <<n, m>> \in Nat \X Nat /\ <<n, m>>[1] = n /\ <<n, m>>[2] = m
    OBVIOUS
  <2> QED
    BY <2>1
<1> HIDE DEF R
<1>3. PICK m \in T : \A n \in T : <<n, m>> \notin R
  BY <1>1, WFMin
<1>4. ASSUME NEW n \in T PROVE m <= n
  <2>1. n \in Nat /\ m \in Nat /\ <<n, m>> \notin R
    BY <1>3
  <2> QED
    BY ONLY <2>1, <1>2
<1> QED
  BY <1>4

\* A bounded set of numbers has a greatest one.
LEMMA GreatestOf ==
  ASSUME NEW T \in SUBSET Nat, T # {}, NEW k \in Nat, \A x \in T : x <= k
  PROVE  \E m \in T : \A n \in T : n <= m
<1> DEFINE U == {m \in Nat : \A x \in T : x <= m}
<1>1. k \in U
  OBVIOUS
<1>2. U \in SUBSET Nat /\ U # {}
  BY <1>1
<1>3. PICK m \in U : \A n \in U : m <= n
  <2> HIDE DEF U
  <2> QED
    BY ONLY <1>2, LeastOf
<1>4. m \in Nat /\ \A x \in T : x <= m
  OBVIOUS
<1>5. m \in T
  <2> SUFFICES ASSUME m \notin T PROVE FALSE
    OBVIOUS
  <2>1. PICK x \in T : TRUE
    OBVIOUS
  <2>2. m - 1 \in Nat /\ \A y \in T : y <= m - 1
    BY <1>4, <2>1
  <2>3. m - 1 \in U
    BY <2>2
  <2> HIDE DEF U
  <2> QED
    BY <1>3, <1>4, <2>3
<1> QED
  BY <1>4, <1>5

\* The first n places: no more than n, and all if there are no more than n.
LEMMA FirstFacts ==
  ASSUME NEW places \in SUBSET Nat, NEW k \in Nat, \A i \in places : i <= k, NEW n \in Nat
  PROVE  /\ IsFiniteSet(places) /\ Cardinality(places) \in Nat
         /\ First(places, n) \subseteq places
         /\ IsFiniteSet(First(places, n)) /\ Cardinality(First(places, n)) \in Nat
         /\ Cardinality(First(places, n)) <= n
         /\ Cardinality(places) <= n => First(places, n) = places
<1> DEFINE T == First(places, n)
           before(i) == {j \in places : j < i}
<1>1. IsFiniteSet(places) /\ Cardinality(places) \in Nat
  BY FS_BoundedSetOfNaturals, FS_CardinalityType
<1>2. T \subseteq places /\ \A i \in places : i \in T <=> Cardinality(before(i)) < n
  BY DEF First
<1>3. \A i : before(i) \subseteq places
  OBVIOUS
<1>4. \A i \in places : i \notin before(i)
  OBVIOUS
<1>5. IsFiniteSet(T) /\ Cardinality(T) \in Nat
  BY <1>1, <1>2, FS_Subset, FS_CardinalityType
<1>6. \A i : IsFiniteSet(before(i)) /\ Cardinality(before(i)) \in Nat
  <2> TAKE i
  <2> DEFINE B == before(i)
  <2>1. B \in SUBSET places
    OBVIOUS
  <2> HIDE DEF B
  <2>2. IsFiniteSet(B)
    BY <1>1, <2>1, FS_Subset
  <2>3. IsFiniteSet(B) /\ Cardinality(B) \in Nat
    BY <2>2, FS_CardinalityType
  <2> QED
    BY <2>3 DEF B
<1>7. Cardinality(T) <= n
  <2> SUFFICES ASSUME Cardinality(T) > n PROVE FALSE
    BY <1>5
  <2>1. T # {}
    <3> HIDE DEF T
    <3> QED
      BY FS_EmptySet
  <2>2. T \in SUBSET Nat /\ \A x \in T : x <= k
    BY <1>2
  <2>3. PICK m \in T : \A x \in T : x <= m
    <3> HIDE DEF T
    <3> QED
      BY ONLY <2>1, <2>2, k \in Nat, GreatestOf
  <2> DEFINE S == T \ {m}
             B == before(m)
  <2>4. S \in SUBSET B
    BY <1>2, <2>2, <2>3
  <2>5. Cardinality(B) < n /\ IsFiniteSet(B) /\ Cardinality(B) \in Nat
    BY <1>2, <1>6, <2>3
  <2> HIDE DEF B
  <2>6. IsFiniteSet(S) /\ Cardinality(S) = Cardinality(T) - 1
    <3> HIDE DEF T
    <3> QED
      BY <1>5, <2>3, FS_RemoveElement
  <2> HIDE DEF S
  <2>7. Cardinality(S) <= Cardinality(B)
    BY <2>4, <2>5, FS_Subset
  <2> HIDE DEF T
  <2> QED
    BY <1>5, <2>5, <2>6, <2>7
<1>8. ASSUME Cardinality(places) <= n PROVE T = places
  <2> SUFFICES ASSUME NEW i \in places PROVE Cardinality(before(i)) < n
    BY <1>2
  <2> DEFINE B == before(i)
  <2>1. B \in SUBSET places /\ B # places
    BY <1>4
  <2>2. IsFiniteSet(B) /\ Cardinality(B) \in Nat
    BY <1>6
  <2> HIDE DEF B
  <2>3. Cardinality(B) <= Cardinality(places) /\ Cardinality(B) # Cardinality(places)
    BY <1>1, <2>1, FS_Subset
  <2> QED
    BY <1>1, <1>8, <2>2, <2>3 DEF B
<1> QED
  BY <1>1, <1>2, <1>5, <1>7, <1>8

\* There are no more listings than places.
LEMMA ListingsAt ==
  ASSUME NEW feed, NEW T, IsFiniteSet(T)
  PROVE  /\ IsFiniteSet({feed[i] : i \in T})
         /\ Cardinality({feed[i] : i \in T}) \in Nat
         /\ Cardinality({feed[i] : i \in T}) <= Cardinality(T)
<1> DEFINE S == {feed[i] : i \in T}
           f == [i \in T |-> feed[i]]
<1>1. f \in Surjection(T, S)
  BY DEF Surjection
<1> HIDE DEF f, S
<1>2. IsFiniteSet(S) /\ Cardinality(S) <= Cardinality(T)
  BY <1>1, FS_Surjection
<1>3. Cardinality(S) \in Nat
  BY <1>2, FS_CardinalityType
<1> QED
  BY <1>2, <1>3 DEF S

LEMMA RoomFacts ==
  ASSUME CallOK(call), NEW fresh, Cardinality(fresh) \in Nat
  PROVE  /\ Room(fresh) \in Nat
         /\ Room(fresh) <= PageSize - Cardinality(call.results)
         /\ Room(fresh) <= MaxSeen - Cardinality(call.seen)
         /\ Room(fresh) <= Cardinality(fresh)
<1> DEFINE a == PageSize - Cardinality(call.results)
           b == MaxSeen - Cardinality(call.seen)
           c == Cardinality(fresh)
<1>1. a \in Nat /\ b \in Nat /\ c \in Nat
  <2>1. /\ Cardinality(call.results) \in Nat /\ Cardinality(call.seen) \in Nat
    BY FS_CardinalityType DEF CallOK
  <2> QED
    BY <2>1, MapsSearchAssumption DEF CallOK
<1>2. Room(fresh) = Min({a, b, c})
  BY DEF Room
<1> HIDE DEF a, b, c
<1>3. \E x \in {a, b, c} : \A y \in {a, b, c} : x <= y
  BY <1>1
<1>4. Min({a, b, c}) \in {a, b, c} /\ \A y \in {a, b, c} : Min({a, b, c}) <= y
  BY <1>3 DEF Min
<1>5. Room(fresh) \in Nat /\ Room(fresh) <= a /\ Room(fresh) <= b /\ Room(fresh) <= c
  BY <1>1, <1>2, <1>4
<1> QED
  BY <1>5 DEF a, b, c
-----------------------------------------------------------------------------
(***************************************************************************)
(* The steps.                                                              *)
(***************************************************************************)
LEMMA ExtractStep == ASSUME SearchInv, Extract PROVE SearchInv'
<1> DEFINE fresh == {i \in Extracted : page.feed[i] \notin call.seen}
           T == First(fresh, Room(fresh))
           taken == {page.feed[i] : i \in T}
           c == [call EXCEPT !.pc = "end", !.shown = page.shown,
                             !.seen = @ \cup taken, !.results = @ \cup taken,
                             !.fresh = fresh # {}, !.left = Cardinality(fresh) > Room(fresh)]
           n == page.shown
           feed == page.feed
<1>1. /\ call.pc = "extract" /\ call' = c
      /\ UNCHANGED <<cursor, found, ended, page, thrown>>
  BY DEF Extract
<1>2. /\ PageOK(page) /\ CallOK(call) /\ CursorOK(cursor) /\ ended = "no" /\ found \subseteq Listings
      /\ thrown \in Nat /\ thrown <= RetryLimit
  BY <1>1 DEF SearchInv
<1>3. n \in Nat /\ feed \in Feeds /\ n <= Len(feed) /\ Len(feed) \in Nat
  BY <1>2, FeedFacts DEF PageOK
<1>4. \A i : i \in fresh <=> i \in Nat /\ 1 <= i /\ i <= n /\ feed[i] \notin call.seen
  <2>1. \A i : i \in Extracted <=> i \in Nat /\ 1 <= i /\ i <= n
    BY <1>3 DEF Extracted
  <2> QED
    BY <2>1
<1> HIDE DEF fresh
<1>5. fresh \in SUBSET Nat /\ \A i \in fresh : i <= n
  BY <1>4
<1>6. Cardinality(fresh) \in Nat
  BY <1>3, <1>5, FirstFacts, 0 \in Nat
<1>7. /\ Room(fresh) \in Nat
      /\ Room(fresh) <= PageSize - Cardinality(call.results)
      /\ Room(fresh) <= MaxSeen - Cardinality(call.seen)
  BY <1>2, <1>6, RoomFacts
<1>8. /\ T \subseteq fresh /\ IsFiniteSet(T) /\ Cardinality(T) \in Nat
      /\ Cardinality(T) <= Room(fresh)
      /\ Cardinality(fresh) <= Room(fresh) => T = fresh
  BY <1>3, <1>5, <1>7, FirstFacts
<1> HIDE DEF T
<1>9. IsFiniteSet(taken) /\ Cardinality(taken) \in Nat /\ Cardinality(taken) <= Room(fresh)
  <2> DEFINE S == taken
  <2>1. IsFiniteSet(S) /\ Cardinality(S) \in Nat /\ Cardinality(S) <= Cardinality(T)
    BY <1>8, ListingsAt
  <2> HIDE DEF S
  <2>2. IsFiniteSet(S) /\ Cardinality(S) \in Nat /\ Cardinality(S) <= Room(fresh)
    BY <1>7, <1>8, <2>1
  <2> QED
    BY <2>2 DEF S
<1>10. /\ taken \subseteq Listings /\ taken \cap call.seen = {}
       /\ \A i \in T : feed[i] \in taken
  <2>1. \A i \in T : feed[i] \in Listings /\ feed[i] \notin call.seen
    BY <1>3, <1>4, <1>8, FeedFacts
  <2> QED
    BY <2>1
<1> HIDE DEF taken
<1> DEFINE some == fresh # {}
           over == Cardinality(fresh) > Room(fresh)
<1>11. c = [pc |-> "end", seen |-> call.seen \cup taken, results |-> call.results \cup taken,
            rounds |-> call.rounds, empty |-> call.empty, scrolled |-> call.scrolled,
            asked |-> call.asked, shown |-> n, fresh |-> some, left |-> over]
  <2>1. c = [call EXCEPT !.pc = "end", !.shown = n, !.seen = @ \cup taken,
                         !.results = @ \cup taken, !.fresh = some, !.left = over]
    OBVIOUS
  <2> HIDE DEF c, some, over, n
  <2> QED
    BY <1>2, <2>1 DEF CallOK
<1>12. some \in BOOLEAN /\ over \in BOOLEAN
  OBVIOUS
<1>13. ~over => T = fresh
  BY <1>6, <1>7, <1>8
<1> HIDE DEF c, some, over, n, feed
<1>14. /\ c.pc = "end" /\ c.seen = call.seen \cup taken /\ c.results = call.results \cup taken
       /\ c.rounds = call.rounds /\ c.empty = call.empty /\ c.scrolled = call.scrolled
       /\ c.asked = call.asked /\ c.shown = n /\ c.fresh = some /\ c.left = over
       /\ c = [pc |-> c.pc, seen |-> c.seen, results |-> c.results, rounds |-> c.rounds,
               empty |-> c.empty, scrolled |-> c.scrolled, asked |-> c.asked,
               shown |-> c.shown, fresh |-> c.fresh, left |-> c.left]
  BY ONLY <1>11
<1>15. /\ IsFiniteSet(c.seen) /\ Cardinality(c.seen) <= MaxSeen
       /\ IsFiniteSet(c.results) /\ Cardinality(c.results) <= PageSize
  <2>1. /\ IsFiniteSet(call.seen) /\ IsFiniteSet(call.results)
        /\ Cardinality(call.seen) \in Nat /\ Cardinality(call.results) \in Nat
    BY <1>2, FS_CardinalityType DEF CallOK
  <2>2. /\ IsFiniteSet(call.seen \cup taken)
        /\ Cardinality(call.seen \cup taken)
             = Cardinality(call.seen) + Cardinality(taken) - Cardinality(call.seen \cap taken)
    BY <1>9, <2>1, FS_Union
  <2>3. /\ IsFiniteSet(call.results \cup taken)
        /\ Cardinality(call.results \cup taken)
             = Cardinality(call.results) + Cardinality(taken)
                 - Cardinality(call.results \cap taken)
    BY <1>9, <2>1, FS_Union
  <2>4. /\ Cardinality(call.seen \cap taken) \in Nat
        /\ Cardinality(call.results \cap taken) \in Nat
    <3>1. IsFiniteSet(call.seen \cap taken) /\ IsFiniteSet(call.results \cap taken)
      BY <2>1, FS_Intersection
    <3> QED
      BY <3>1, FS_CardinalityType
  <2>5. MaxSeen \in Nat /\ PageSize \in Nat
    BY MapsSearchAssumption
  <2>6. Cardinality(call.seen \cup taken) <= MaxSeen
    BY <1>7, <1>9, <2>1, <2>2, <2>4, <2>5
  <2>7. Cardinality(call.results \cup taken) <= PageSize
    BY <1>7, <1>9, <2>1, <2>3, <2>4, <2>5
  <2> QED
    BY <1>14, <2>2, <2>3, <2>6, <2>7
<1>16. CallOK(c)
  BY <1>2, <1>3, <1>10, <1>12, <1>14, <1>15 DEF CallOK
<1>17. c.shown <= page.shown
  BY <1>3, <1>14 DEF n
<1>18. cursor.seen = found /\ call.seen = found \cup call.results /\ found \cap call.results = {}
  BY <1>1, <1>2 DEF SearchInv, CursorIsWhatWasFound
<1>19. CursorIsWhatWasFound'
  BY <1>1, <1>2, <1>10, <1>14, <1>18 DEF CursorIsWhatWasFound
<1>20. SeenIsShown'
  <2> SUFFICES ASSUME ~over, NEW i \in Nat, 1 <= i, i <= n
               PROVE  feed[i] \in call.seen \cup taken
    BY <1>1, <1>14 DEF SeenIsShown, feed
  <2>1. CASE feed[i] \in call.seen
    BY <2>1
  <2>2. CASE feed[i] \notin call.seen
    BY <2>2, <1>4, <1>10, <1>13
  <2> QED
    BY <2>1, <2>2
<1>21. EndIsComplete'
  BY <1>1, <1>2 DEF EndIsComplete
<1>22. ended \in Endings \cup {"no"}
  BY <1>2
<1> QED
  BY <1>1, <1>2, <1>16, <1>17, <1>19, <1>20, <1>21, <1>22 DEF SearchInv

\* A call changes in other ways: what it has seen and extracted stays.
LEMMA CallMoves ==
  ASSUME SearchInv, NEW c, CallOK(c), call' = c, PageOK(page'), page'.feed = page.feed,
         page'.shown >= page.shown, UNCHANGED <<cursor, found, ended, thrown>>,
         c.seen = call.seen, c.results = call.results, c.shown = call.shown,
         call.pc # "idle", c.pc # "end" \/ (call.pc = "end" /\ c.left = call.left)
  PROVE  SearchInv'
<1>1. ended = "no"
  BY DEF SearchInv
<1>2. /\ page.shown \in Nat /\ page'.shown \in Nat /\ call.shown \in Nat
      /\ call.shown <= page.shown
  BY DEF SearchInv, PageOK, CallOK
<1>3. c.shown <= page'.shown
  BY <1>2
<1>4. CursorIsWhatWasFound'
  BY <1>1 DEF SearchInv, CursorIsWhatWasFound
<1>5. SeenIsShown'
  BY DEF SearchInv, SeenIsShown
<1>6. EndIsComplete'
  BY <1>1 DEF EndIsComplete
<1> QED
  BY <1>1, <1>3, <1>4, <1>5, <1>6 DEF SearchInv

\* A call is over.
LEMMA ClosedCall ==
  ASSUME NEW c, CallOK(c), NEW d, d = [c EXCEPT !.pc = "idle"]
  PROVE  /\ CallOK(d) /\ d.pc = "idle" /\ d.seen = c.seen /\ d.results = c.results
         /\ d.shown = c.shown
<1>1. d = [pc |-> "idle", seen |-> c.seen, results |-> c.results, rounds |-> c.rounds,
           empty |-> c.empty, scrolled |-> c.scrolled, asked |-> c.asked,
           shown |-> c.shown, fresh |-> c.fresh, left |-> c.left]
  BY DEF CallOK
<1>2. /\ d.pc = "idle" /\ d.seen = c.seen /\ d.results = c.results /\ d.rounds = c.rounds
      /\ d.empty = c.empty /\ d.scrolled = c.scrolled /\ d.asked = c.asked
      /\ d.shown = c.shown /\ d.fresh = c.fresh /\ d.left = c.left
      /\ d = [pc |-> d.pc, seen |-> d.seen, results |-> d.results, rounds |-> d.rounds,
              empty |-> d.empty, scrolled |-> d.scrolled, asked |-> d.asked,
              shown |-> d.shown, fresh |-> d.fresh, left |-> d.left]
  BY ONLY <1>1
<1> QED
  BY <1>2 DEF CallOK

LEMMA RenderedFacts ==
  ASSUME NEW feed \in Feeds, NEW n \in Nat, n <= Len(feed), NEW m \in Rendered(feed, n)
  PROVE  m \in Nat /\ n <= m /\ m <= Len(feed)
<1>1. Len(feed) \in Nat /\ Batch \in Nat \ {0}
  BY FeedFacts, MapsSearchAssumption
<1> QED
  BY <1>1 DEF Rendered

LEMMA OpenStep == ASSUME SearchInv, Open PROVE SearchInv'
<1>1. /\ call.pc = "idle" /\ ended = "no" /\ UNCHANGED <<cursor, found, ended, thrown>>
      /\ call' = [NoCall EXCEPT !.pc = "extract", !.seen = cursor.seen,
                                !.rounds = cursor.rounds]
  BY DEF Open
<1>2. PICK feed \in Feeds, marks \in BOOLEAN, scrolls \in BOOLEAN :
        \E n \in Rendered(feed, 0) :
          page' = [feed |-> feed, shown |-> n, marks |-> marks, scrolls |-> scrolls]
  BY DEF Open
<1>3. PICK n \in Rendered(feed, 0) :
        page' = [feed |-> feed, shown |-> n, marks |-> marks, scrolls |-> scrolls]
  BY <1>2
<1>4. n \in Nat /\ n <= Len(feed)
  BY FeedFacts, RenderedFacts, 0 \in Nat
<1>5. PageOK(page') /\ page'.shown = n
  BY <1>3, <1>4 DEF PageOK
<1> DEFINE c == [pc |-> "extract", seen |-> cursor.seen, results |-> {},
                 rounds |-> cursor.rounds, empty |-> 0, scrolled |-> FALSE,
                 asked |-> FALSE, shown |-> 0, fresh |-> FALSE, left |-> FALSE]
<1>6. call' = c
  BY <1>1 DEF NoCall
<1>7. /\ c.pc = "extract" /\ c.seen = cursor.seen /\ c.results = {} /\ c.rounds = cursor.rounds
      /\ c.empty = 0 /\ c.scrolled = FALSE /\ c.asked = FALSE /\ c.shown = 0
      /\ c.fresh = FALSE /\ c.left = FALSE
      /\ c = [pc |-> c.pc, seen |-> c.seen, results |-> c.results, rounds |-> c.rounds,
              empty |-> c.empty, scrolled |-> c.scrolled, asked |-> c.asked,
              shown |-> c.shown, fresh |-> c.fresh, left |-> c.left]
  OBVIOUS
<1> HIDE DEF c
<1>8. CallOK(c)
  <2>1. MaxEmpty \in Nat /\ PageSize \in Nat /\ IsFiniteSet({}) /\ Cardinality({}) = 0
    BY MapsSearchAssumption, FS_EmptySet
  <2>2. Cardinality(c.results) = 0 /\ IsFiniteSet(c.results)
    BY <1>7, <2>1
  <2> QED
    <3>1. /\ cursor.seen \subseteq Listings /\ IsFiniteSet(cursor.seen)
          /\ Cardinality(cursor.seen) <= MaxSeen
          /\ cursor.rounds \in Nat /\ cursor.rounds <= MaxRounds
      BY DEF SearchInv, CursorOK
    <3>2. /\ c.seen \subseteq Listings /\ IsFiniteSet(c.seen) /\ Cardinality(c.seen) <= MaxSeen
          /\ c.results \subseteq Listings /\ Cardinality(c.results) <= PageSize
          /\ c.rounds \in Nat /\ c.rounds <= MaxRounds
          /\ c.empty \in Nat /\ c.empty <= MaxEmpty /\ c.shown \in Nat
      BY <1>7, <2>1, <2>2, <3>1
    <3>3. /\ c.pc \in {"idle", "extract", "end", "turn"} /\ c.scrolled \in BOOLEAN
          /\ c.asked \in BOOLEAN /\ c.fresh \in BOOLEAN /\ c.left \in BOOLEAN
      BY <1>7
    <3> QED
      BY ONLY <1>7, <2>2, <3>2, <3>3 DEF CallOK
<1>9. CursorIsWhatWasFound'
  BY <1>1, <1>6, <1>7 DEF SearchInv, CursorIsWhatWasFound
<1>10. SeenIsShown' /\ EndIsComplete'
  BY <1>1, <1>6, <1>7 DEF SeenIsShown, EndIsComplete
<1>11. c.shown <= page'.shown
  BY <1>4, <1>5, <1>7
<1> QED
  BY <1>1, <1>5, <1>6, <1>8, <1>9, <1>10, <1>11 DEF SearchInv

LEMMA LoadStep == ASSUME SearchInv, Load PROVE SearchInv'
<1>1. /\ call.pc # "idle" /\ page.shown < Len(page.feed) /\ page' = [page EXCEPT !.shown = @ + 1]
      /\ UNCHANGED <<cursor, found, ended, call, thrown>>
  BY DEF Load
<1>2. PageOK(page) /\ CallOK(call) /\ Len(page.feed) \in Nat
  BY FeedFacts DEF SearchInv, PageOK
<1>3. page' = [feed |-> page.feed, shown |-> page.shown + 1, marks |-> page.marks,
               scrolls |-> page.scrolls]
  BY <1>1, <1>2 DEF PageOK
<1>4. PageOK(page') /\ page'.feed = page.feed /\ page'.shown >= page.shown
  BY <1>1, <1>2, <1>3 DEF PageOK
<1> DEFINE c == call
<1>5. /\ CallOK(c) /\ call' = c /\ c.seen = call.seen /\ c.results = call.results
      /\ c.shown = call.shown /\ (c.pc # "end" \/ (call.pc = "end" /\ c.left = call.left))
  BY <1>1, <1>2
<1> HIDE DEF c
<1> QED
  BY <1>1, <1>4, <1>5, CallMoves

\* The last page of a search is returned.
LEMMA ReturnLastStep ==
  ASSUME SearchInv, call.pc # "idle", NEW why \in Endings, ReturnLast(why),
         why = "end" => call.pc = "end" /\ AtEnd
  PROVE  SearchInv'
<1> DEFINE d == [call EXCEPT !.pc = "idle"]
<1>1. /\ found' = found \cup call.results /\ cursor' = [seen |-> {}, rounds |-> 0]
      /\ ended' = why /\ call' = d /\ page' = page /\ thrown' = thrown
  BY DEF ReturnLast
<1>2. CallOK(call) /\ PageOK(page) /\ ended = "no" /\ call.shown <= page.shown
  BY DEF SearchInv
<1>3. /\ CallOK(d) /\ d.pc = "idle" /\ d.seen = call.seen /\ d.results = call.results
      /\ d.shown = call.shown
  BY <1>2, ClosedCall
<1> HIDE DEF d
<1>4. why # "no"
  BY DEF Endings
<1>5. CursorOK(cursor')
  <2>1. MaxSeen \in Nat /\ MaxRounds \in Nat
    BY MapsSearchAssumption
  <2>2. cursor'.seen = {} /\ cursor'.rounds = 0
    BY <1>1
  <2>3. IsFiniteSet(cursor'.seen) /\ Cardinality(cursor'.seen) = 0
    BY <2>2, FS_EmptySet
  <2> QED
    BY <1>1, <2>1, <2>2, <2>3 DEF CursorOK
<1>6. CursorIsWhatWasFound'
  BY <1>1, <1>4 DEF CursorIsWhatWasFound
<1>7. SeenIsShown'
  BY <1>1, <1>3 DEF SeenIsShown
<1>8. EndIsComplete'
  <2> SUFFICES ASSUME why = "end", d.shown = page.shown PROVE Range(page.feed) \subseteq found'
    BY <1>1 DEF EndIsComplete
  <2>1. call.pc = "end" /\ page.shown = Len(page.feed) /\ ~call.left
    BY DEF AtEnd, ReachedEnd
  <2>2. call.shown = Len(page.feed)
    BY <1>3, <2>1
  <2>3. \A i \in Nat : 1 <= i /\ i <= Len(page.feed) => page.feed[i] \in call.seen
    BY <2>1, <2>2 DEF SearchInv, SeenIsShown
  <2>4. \A x \in Range(page.feed) :
          \E i \in Nat : 1 <= i /\ i <= Len(page.feed) /\ x = page.feed[i]
    BY <1>2, FeedFacts DEF PageOK
  <2>5. call.seen = found'
    BY <1>1, <1>2, <2>1 DEF SearchInv, CursorIsWhatWasFound
  <2> QED
    BY <2>3, <2>4, <2>5
<1>9. found' \subseteq Listings
  BY <1>1, <1>2 DEF SearchInv, CallOK
<1> QED
  BY <1>1, <1>2, <1>3, <1>5, <1>6, <1>7, <1>8, <1>9 DEF SearchInv

LEMMA ReturnFullStep == ASSUME SearchInv, ReturnFull PROVE SearchInv'
<1> DEFINE d == [call EXCEPT !.pc = "idle"]
<1>1. /\ call.pc = "end" /\ found' = found \cup call.results /\ cursor' = NextCursor
      /\ thrown' = 0 /\ call' = d /\ ended' = ended /\ page' = page
  BY DEF ReturnFull
<1>2. CallOK(call) /\ PageOK(page) /\ ended = "no" /\ call.shown <= page.shown
  BY <1>1 DEF SearchInv
<1>3. /\ CallOK(d) /\ d.pc = "idle" /\ d.seen = call.seen /\ d.results = call.results
      /\ d.shown = call.shown
  BY <1>2, ClosedCall
<1> HIDE DEF d
<1>4. CursorOK(cursor') /\ cursor'.seen = call.seen
  <2>1. cursor' = [seen |-> call.seen, rounds |-> call.rounds]
    BY <1>1 DEF NextCursor
  <2>2. cursor'.seen = call.seen /\ cursor'.rounds = call.rounds
    BY <2>1
  <2> QED
    BY <1>2, <2>1, <2>2 DEF CursorOK, CallOK
<1>5. call.seen = found'
  BY <1>1, <1>2 DEF SearchInv, CursorIsWhatWasFound
<1>6. CursorIsWhatWasFound'
  BY <1>1, <1>3, <1>4, <1>5 DEF CursorIsWhatWasFound
<1>7. SeenIsShown' /\ EndIsComplete'
  BY <1>1, <1>2, <1>3 DEF SeenIsShown, EndIsComplete
<1>8. found' \subseteq Listings /\ thrown' \in Nat /\ thrown' <= RetryLimit
  BY <1>1, <1>2, MapsSearchAssumption DEF SearchInv, CallOK
<1> QED
  BY <1>1, <1>2, <1>3, <1>4, <1>6, <1>7, <1>8 DEF SearchInv

LEMMA FailedStep == ASSUME SearchInv, call.pc # "idle", Failed PROVE SearchInv'
<1> DEFINE d == [call EXCEPT !.pc = "idle"]
<1>1. /\ call' = d /\ UNCHANGED <<cursor, found, page>>
      /\ thrown' = IF thrown < RetryLimit THEN thrown + 1 ELSE thrown
      /\ ended' = IF thrown < RetryLimit THEN "no" ELSE "failed"
  BY DEF Failed
<1>2. /\ CallOK(call) /\ ended = "no" /\ call.shown <= page.shown
      /\ thrown \in Nat /\ thrown <= RetryLimit /\ RetryLimit \in Nat
  BY MapsSearchAssumption DEF SearchInv
<1>3. /\ CallOK(d) /\ d.pc = "idle" /\ d.seen = call.seen /\ d.results = call.results
      /\ d.shown = call.shown
  BY <1>2, ClosedCall
<1> HIDE DEF d
<1>4. thrown' \in Nat /\ thrown' <= RetryLimit
  BY <1>1, <1>2
<1>5. ended' \in Endings \cup {"no"} /\ ended' # "end"
  BY <1>1 DEF Endings
<1>6. CursorIsWhatWasFound'
  BY <1>1, <1>2, <1>3 DEF SearchInv, CursorIsWhatWasFound
<1>7. SeenIsShown' /\ EndIsComplete'
  BY <1>1, <1>3, <1>5 DEF SeenIsShown, EndIsComplete
<1> QED
  BY <1>1, <1>2, <1>3, <1>4, <1>5, <1>6, <1>7 DEF SearchInv

\* A call with its position and what it counts changed.
LEMMA ChangedCall ==
  ASSUME NEW c, CallOK(c), NEW pc \in {"idle", "extract", "end", "turn"},
         NEW rounds \in Nat, rounds <= MaxRounds, NEW empty \in Nat, empty <= MaxEmpty,
         NEW scrolled \in BOOLEAN, NEW asked \in BOOLEAN, NEW d,
         d = [pc |-> pc, seen |-> c.seen, results |-> c.results, rounds |-> rounds,
              empty |-> empty, scrolled |-> scrolled, asked |-> asked,
              shown |-> c.shown, fresh |-> c.fresh, left |-> c.left]
  PROVE  /\ CallOK(d) /\ d.pc = pc /\ d.seen = c.seen /\ d.results = c.results
         /\ d.shown = c.shown
<1>1. /\ d.pc = pc /\ d.seen = c.seen /\ d.results = c.results /\ d.rounds = rounds
      /\ d.empty = empty /\ d.scrolled = scrolled /\ d.asked = asked
      /\ d.shown = c.shown /\ d.fresh = c.fresh /\ d.left = c.left
      /\ d = [pc |-> d.pc, seen |-> d.seen, results |-> d.results, rounds |-> d.rounds,
              empty |-> d.empty, scrolled |-> d.scrolled, asked |-> d.asked,
              shown |-> d.shown, fresh |-> d.fresh, left |-> d.left]
  OBVIOUS
<1>2. /\ c.seen \subseteq Listings /\ IsFiniteSet(c.seen) /\ Cardinality(c.seen) <= MaxSeen
      /\ c.results \subseteq Listings /\ IsFiniteSet(c.results)
      /\ Cardinality(c.results) <= PageSize /\ c.shown \in Nat
      /\ c.fresh \in BOOLEAN /\ c.left \in BOOLEAN
  BY DEF CallOK
<1> QED
  BY <1>1, <1>2 DEF CallOK

LEMMA GoOnStep == ASSUME SearchInv, GoOn PROVE SearchInv'
<1> DEFINE d == [call EXCEPT !.pc = "turn"]
<1>1. /\ call.pc = "end" /\ call' = d /\ UNCHANGED <<cursor, found, ended, page, thrown>>
  BY DEF GoOn
<1>2. CallOK(call) /\ PageOK(page)
  BY DEF SearchInv
<1>3. d = [pc |-> "turn", seen |-> call.seen, results |-> call.results, rounds |-> call.rounds,
           empty |-> call.empty, scrolled |-> call.scrolled, asked |-> call.asked,
           shown |-> call.shown, fresh |-> call.fresh, left |-> call.left]
  BY <1>2 DEF CallOK
<1> HIDE DEF d
<1>4. /\ CallOK(d) /\ d.pc = "turn" /\ d.seen = call.seen /\ d.results = call.results
      /\ d.shown = call.shown
  <2>1. /\ "turn" \in {"idle", "extract", "end", "turn"}
        /\ call.rounds \in Nat /\ call.rounds <= MaxRounds
        /\ call.empty \in Nat /\ call.empty <= MaxEmpty
        /\ call.scrolled \in BOOLEAN /\ call.asked \in BOOLEAN
    BY <1>2 DEF CallOK
  <2> QED
    BY ONLY <1>2, <1>3, <2>1, ChangedCall
<1>5. PageOK(page') /\ page'.feed = page.feed /\ page'.shown >= page.shown
  BY <1>1, <1>2 DEF PageOK
<1>6. /\ UNCHANGED <<cursor, found, ended, thrown>> /\ call.pc # "idle" /\ call' = d
      /\ d.pc # "end" \/ (call.pc = "end" /\ d.left = call.left)
  BY <1>1, <1>4
<1> QED
  BY ONLY SearchInv, <1>4, <1>5, <1>6, CallMoves

LEMMA InterpretStep == ASSUME SearchInv, Interpret PROVE SearchInv'
<1>1. call.pc = "turn"
  BY DEF Interpret
<1>2. CASE ReturnLast("no results")
  <2>1. "no results" \in Endings
    BY DEF Endings
  <2> QED
    BY <1>1, <1>2, <2>1, ReturnLastStep
<1>3. CASE /\ call' = [call EXCEPT !.asked = TRUE]
           /\ UNCHANGED <<cursor, found, ended, page, thrown>>
  <2> DEFINE d == [call EXCEPT !.asked = TRUE]
  <2>1. CallOK(call) /\ PageOK(page)
    BY DEF SearchInv
  <2>2. d = [pc |-> "turn", seen |-> call.seen, results |-> call.results,
             rounds |-> call.rounds, empty |-> call.empty, scrolled |-> call.scrolled,
             asked |-> TRUE, shown |-> call.shown, fresh |-> call.fresh, left |-> call.left]
    <3> DEFINE yes == TRUE
    <3>1. d = [call EXCEPT !.asked = yes]
      OBVIOUS
    <3> HIDE DEF d, yes
    <3>2. d = [pc |-> call.pc, seen |-> call.seen, results |-> call.results,
               rounds |-> call.rounds, empty |-> call.empty, scrolled |-> call.scrolled,
               asked |-> yes, shown |-> call.shown, fresh |-> call.fresh,
               left |-> call.left]
      BY <2>1, <3>1 DEF CallOK
    <3> QED
      BY <1>1, <3>2 DEF yes
  <2>3. call' = d
    BY <1>3
  <2> HIDE DEF d
  <2>4. /\ CallOK(d) /\ d.pc = "turn" /\ d.seen = call.seen /\ d.results = call.results
        /\ d.shown = call.shown
    <3>1. /\ "turn" \in {"idle", "extract", "end", "turn"}
          /\ call.rounds \in Nat /\ call.rounds <= MaxRounds
          /\ call.empty \in Nat /\ call.empty <= MaxEmpty
          /\ call.scrolled \in BOOLEAN /\ TRUE \in BOOLEAN
      BY <2>1 DEF CallOK
    <3> DEFINE asked == TRUE
    <3>2. asked \in BOOLEAN
      OBVIOUS
    <3>3. d = [pc |-> "turn", seen |-> call.seen, results |-> call.results,
               rounds |-> call.rounds, empty |-> call.empty, scrolled |-> call.scrolled,
               asked |-> asked, shown |-> call.shown, fresh |-> call.fresh,
               left |-> call.left]
      BY <2>2
    <3> HIDE DEF asked
    <3> QED
      BY ONLY <2>1, <3>1, <3>2, <3>3, ChangedCall
  <2>5. PageOK(page') /\ page'.feed = page.feed /\ page'.shown >= page.shown
    BY <1>3, <2>1 DEF PageOK
  <2>6. /\ UNCHANGED <<cursor, found, ended, thrown>> /\ call.pc # "idle" /\ call' = d
        /\ d.pc # "end" \/ (call.pc = "end" /\ d.left = call.left)
    BY <1>1, <1>3, <2>3, <2>4
  <2> QED
    BY ONLY SearchInv, <2>4, <2>5, <2>6, CallMoves
<1> QED
  BY <1>2, <1>3 DEF Interpret

LEMMA GiveUpStep == ASSUME SearchInv, GiveUp PROVE SearchInv'
<1>1. call.pc = "turn"
  BY DEF GiveUp
<1>2. "nothing new" \in Endings /\ "rounds" \in Endings
  BY DEF Endings
<1>3. CASE ReturnLast("nothing new")
  BY <1>1, <1>2, <1>3, ReturnLastStep
<1>4. CASE ReturnLast("rounds")
  BY <1>1, <1>2, <1>4, ReturnLastStep
<1> QED
  BY <1>3, <1>4 DEF GiveUp

LEMMA UnscrollableStep == ASSUME SearchInv, Unscrollable PROVE SearchInv'
<1>1. call.pc = "turn" /\ "unscrollable" \in Endings /\ ReturnLast("unscrollable")
  BY DEF Unscrollable, MayScroll, Endings
<1> QED
  BY <1>1, ReturnLastStep

LEMMA ScrollStep == ASSUME SearchInv, Scroll PROVE SearchInv'
<1> DEFINE d == Scrolled
           rounds == call.rounds + 1
           empty == EmptyRounds
<1>1. /\ call.pc = "turn" /\ empty < MaxEmpty /\ call.rounds < MaxRounds
      /\ call' = d /\ UNCHANGED <<cursor, found, ended, thrown>>
  BY DEF Scroll, MayScroll
<1>2. CallOK(call) /\ PageOK(page)
  BY DEF SearchInv
<1>3. MaxEmpty \in Nat /\ MaxRounds \in Nat
  BY MapsSearchAssumption
<1>4. empty \in Nat /\ empty <= MaxEmpty /\ rounds \in Nat /\ rounds <= MaxRounds
  <2>1. empty \in Nat
    BY <1>2 DEF CallOK, EmptyRounds
  <2> HIDE DEF empty
  <2> QED
    BY <1>1, <1>2, <1>3, <2>1 DEF CallOK
<1>5. d = [pc |-> "extract", seen |-> call.seen, results |-> call.results, rounds |-> rounds,
           empty |-> empty, scrolled |-> TRUE, asked |-> call.asked,
           shown |-> call.shown, fresh |-> call.fresh, left |-> call.left]
  <2>1. d = [call EXCEPT !.pc = "extract", !.empty = empty, !.rounds = @ + 1, !.scrolled = TRUE]
    BY DEF Scrolled
  <2> HIDE DEF d, empty
  <2> QED
    BY <1>2, <2>1 DEF CallOK
<1> HIDE DEF d, rounds, empty
<1>6. /\ CallOK(d) /\ d.pc = "extract" /\ d.seen = call.seen /\ d.results = call.results
      /\ d.shown = call.shown
  <2>1. /\ "extract" \in {"idle", "extract", "end", "turn"}
        /\ call.asked \in BOOLEAN /\ TRUE \in BOOLEAN
    BY <1>2 DEF CallOK
  <2> DEFINE scrolled == TRUE
  <2>2. scrolled \in BOOLEAN
    OBVIOUS
  <2>3. d = [pc |-> "extract", seen |-> call.seen, results |-> call.results,
             rounds |-> rounds, empty |-> empty, scrolled |-> scrolled,
             asked |-> call.asked, shown |-> call.shown, fresh |-> call.fresh,
             left |-> call.left]
    BY <1>5
  <2> HIDE DEF scrolled
  <2> QED
    BY ONLY <1>2, <1>4, <2>1, <2>2, <2>3, ChangedCall
<1>7. PageOK(page') /\ page'.feed = page.feed /\ page'.shown >= page.shown
  <2>1. PICK n \in Rendered(page.feed, page.shown) : page' = [page EXCEPT !.shown = n]
    BY DEF Scroll
  <2>2. n \in Nat /\ page.shown <= n /\ n <= Len(page.feed)
    BY <1>2, RenderedFacts DEF PageOK
  <2>3. page' = [feed |-> page.feed, shown |-> n, marks |-> page.marks,
                 scrolls |-> page.scrolls]
    BY <1>2, <2>1 DEF PageOK
  <2> QED
    BY <1>2, <2>2, <2>3 DEF PageOK
<1>8. /\ UNCHANGED <<cursor, found, ended, thrown>> /\ call.pc # "idle" /\ call' = d
      /\ d.pc # "end" \/ (call.pc = "end" /\ d.left = call.left)
  BY <1>1, <1>6
<1> QED
  BY ONLY SearchInv, <1>6, <1>7, <1>8, CallMoves
-----------------------------------------------------------------------------
(***************************************************************************)
(* The theorems.                                                           *)
(***************************************************************************)
LEMMA SearchInit == Init => SearchInv
<1> SUFFICES ASSUME Init PROVE SearchInv
  OBVIOUS
<1>1. /\ cursor = [seen |-> {}, rounds |-> 0] /\ found = {} /\ ended = "no" /\ thrown = 0
      /\ call = NoCall
  BY DEF Init
<1>2. PageOK(page) /\ page.shown = 0
  <2>1. PICK feed \in Feeds :
          page = [feed |-> feed, shown |-> 0, marks |-> FALSE, scrolls |-> FALSE]
    BY DEF Init
  <2>2. Len(feed) \in Nat
    BY FeedFacts
  <2> QED
    BY <2>1, <2>2 DEF PageOK
<1>3. /\ call.pc = "idle" /\ call.seen = {} /\ call.results = {} /\ call.rounds = 0
      /\ call.empty = 0 /\ call.scrolled = FALSE /\ call.asked = FALSE /\ call.shown = 0
      /\ call.fresh = FALSE /\ call.left = FALSE
      /\ call = [pc |-> call.pc, seen |-> call.seen, results |-> call.results,
                 rounds |-> call.rounds, empty |-> call.empty, scrolled |-> call.scrolled,
                 asked |-> call.asked, shown |-> call.shown, fresh |-> call.fresh,
                 left |-> call.left]
  BY <1>1 DEF NoCall
<1>4. /\ {MaxSeen, MaxRounds, MaxEmpty, PageSize} \subseteq Nat /\ RetryLimit \in Nat
      /\ IsFiniteSet({}) /\ Cardinality({}) = 0
  BY MapsSearchAssumption, FS_EmptySet
<1>5. CallOK(call)
  <2>1. /\ IsFiniteSet(call.seen) /\ Cardinality(call.seen) <= MaxSeen
        /\ IsFiniteSet(call.results) /\ Cardinality(call.results) <= PageSize
    BY <1>3, <1>4
  <2>2. /\ call.rounds \in Nat /\ call.rounds <= MaxRounds
        /\ call.empty \in Nat /\ call.empty <= MaxEmpty /\ call.shown \in Nat
        /\ call.seen \subseteq Listings /\ call.results \subseteq Listings
    BY <1>3, <1>4
  <2>3. /\ call.pc \in {"idle", "extract", "end", "turn"} /\ call.scrolled \in BOOLEAN
        /\ call.asked \in BOOLEAN /\ call.fresh \in BOOLEAN /\ call.left \in BOOLEAN
    BY <1>3
  <2> QED
    BY ONLY <1>3, <2>1, <2>2, <2>3 DEF CallOK
<1>6. CursorOK(cursor)
  <2>1. cursor.seen = {} /\ cursor.rounds = 0
    BY <1>1
  <2>2. IsFiniteSet(cursor.seen) /\ Cardinality(cursor.seen) <= MaxSeen
    BY <1>4, <2>1
  <2> QED
    BY <1>1, <1>4, <2>1, <2>2 DEF CursorOK
<1>7. CursorIsWhatWasFound /\ SeenIsShown /\ EndIsComplete
  BY <1>1, <1>3 DEF CursorIsWhatWasFound, SeenIsShown, EndIsComplete
<1> QED
  BY <1>1, <1>2, <1>3, <1>4, <1>5, <1>6, <1>7 DEF SearchInv

LEMMA SearchNext == SearchInv /\ [Next]_vars => SearchInv'
<1> SUFFICES ASSUME SearchInv, [Next]_vars PROVE SearchInv'
  OBVIOUS
<1>1. CASE Open
  BY <1>1, OpenStep
<1>2. CASE Load
  BY <1>2, LoadStep
<1>3. CASE Extract
  BY <1>3, ExtractStep
<1>4. CASE ReturnFull
  BY <1>4, ReturnFullStep
<1>5. CASE ReturnAtEnd
  <2>1. call.pc = "end" /\ AtEnd /\ ReturnLast("end") /\ "end" \in Endings
    BY <1>5 DEF ReturnAtEnd, Endings
  <2> QED
    BY <2>1, ReturnLastStep
<1>6. CASE GoOn
  BY <1>6, GoOnStep
<1>7. CASE Interpret
  BY <1>7, InterpretStep
<1>8. CASE GiveUp
  BY <1>8, GiveUpStep
<1>9. CASE Unscrollable
  BY <1>9, UnscrollableStep
<1>10. CASE Scroll
  BY <1>10, ScrollStep
<1>11. CASE Throw
  BY <1>11, FailedStep DEF Throw
<1>12. CASE NoFeed
  BY <1>12, FailedStep DEF NoFeed, MayScroll
<1>13. CASE UNCHANGED vars
  BY <1>13 DEF vars, SearchInv, CursorIsWhatWasFound, SeenIsShown, EndIsComplete
<1> QED
  BY <1>1, <1>2, <1>3, <1>4, <1>5, <1>6, <1>7, <1>8, <1>9, <1>10, <1>11, <1>12, <1>13 DEF Next

\* What a call remembers, what it has extracted and what was persisted fit together
\* in every state of a search.
THEOREM SearchInvariant == Spec => []SearchInv
BY SearchInit, SearchNext, PTL DEF Spec

\* Every variable keeps its type: pages and cursors stay within their limits,
\* however much a page renders.
THEOREM SearchTypes == Spec => []TypeOK
<1>1. SearchInv => TypeOK
  <2> SUFFICES ASSUME SearchInv PROVE TypeOK
    OBVIOUS
  <2>1. Len(page.feed) \in Nat
    BY FeedFacts DEF SearchInv, PageOK
  <2>2. /\ MaxRounds \in Nat /\ MaxEmpty \in Nat /\ RetryLimit \in Nat
    BY MapsSearchAssumption
  <2>3. cursor \in Cursors
    <3>1. cursor.rounds \in 0 .. MaxRounds
      BY <2>2 DEF SearchInv, CursorOK
    <3> QED
      BY <3>1 DEF SearchInv, CursorOK, Cursors
  <2>4. page.shown \in 0 .. Len(page.feed) /\ call.shown \in 0 .. Len(page.feed)
    BY <2>1 DEF SearchInv, PageOK, CallOK
  <2>5. call.rounds \in 0 .. MaxRounds /\ call.empty \in 0 .. MaxEmpty /\ thrown \in 0 .. RetryLimit
    BY <2>2 DEF SearchInv, CallOK
  <2>6. /\ found \subseteq Listings /\ ended \in Endings \cup {"no"} /\ page.feed \in Feeds
        /\ page.marks \in BOOLEAN /\ page.scrolls \in BOOLEAN
        /\ call.pc \in {"idle", "extract", "end", "turn"}
        /\ call.seen \subseteq Listings /\ Cardinality(call.seen) <= MaxSeen
        /\ call.results \subseteq Listings /\ Cardinality(call.results) <= PageSize
        /\ {call.scrolled, call.asked, call.fresh, call.left} \subseteq BOOLEAN
    BY DEF SearchInv, PageOK, CallOK
  <2> QED
    BY <2>3, <2>4, <2>5, <2>6 DEF TypeOK
<1> QED
  BY <1>1, SearchInvariant, PTL

\* The cursor remembers what was persisted, no more and no fewer.
THEOREM CursorsTell == Spec => []CursorIsWhatWasFound
BY SearchInvariant, PTL DEF SearchInv

\* A search that ends at the end of the list has found all of it, unless the page
\* rendered something between the extraction and the look for the end.
THEOREM EndsAreComplete == Spec => []EndIsComplete
BY SearchInvariant, PTL DEF SearchInv
=============================================================================
