------------------------ MODULE DiscoveryCountProofs ------------------------
(***************************************************************************)
(* Proofs about the counters of Discovery: the numbers on the task rows and*)
(* on the ProviderUsage row agree with the rows they count, for any numbers*)
(* of tasks, attempts, pages and ids and every choice of faults.           *)
(*                                                                         *)
(* CountersAgree is not inductive: that every persisted page was counted as*)
(* a request rests on the attempts that have counted theirs and may persist*)
(* it still, that every request was counted as an attempt on those that    *)
(* have claimed and not yet counted.  CountInv counts them in.             *)
(***************************************************************************)
EXTENDS DiscoveryProofs

\* The attempts at certain steps.
At(S) == {a \in Attempts : attempt[a].pc \in S}

\* Those whose request is counted and whose page may be persisted, ...
Asking == At({"call", "commit"})

\* ... and those that have claimed and not counted their request.
Claiming == At({"usage"})

ResultsOf == [t \in Tasks |-> task[t].results]
AttemptsOf == [t \in Tasks |-> task[t].attempts]
PagesOf == [t \in Tasks |-> Len(delivered[t])]

SourcesOf(t) == {s \in sources : s[1] = t}

CountInv ==
  /\ \A t \in Tasks : task[t].unique = Cardinality(SourcesOf(t))
  /\ usage.results = Total(ResultsOf)
  /\ Total(PagesOf) + Cardinality(Asking) <= usage.requests
  /\ usage.requests + Cardinality(Claiming) <= Total(AttemptsOf)
-----------------------------------------------------------------------------
(***************************************************************************)
(* Totals.                                                                 *)
(***************************************************************************)
\* A total is a number.
LEMMA TotalIsNat ==
  ASSUME NEW n \in [Tasks -> Nat]
  PROVE  IsFiniteSet(Counted(n)) /\ Total(n) \in Nat
<1> DEFINE part == [t \in Tasks |-> {t} \X (1 .. n[t])]
           parts == {{t} \X (1 .. n[t]) : t \in Tasks}
<1>1. \A t \in Tasks : IsFiniteSet({t} \X (1 .. n[t]))
  <2> SUFFICES ASSUME NEW t \in Tasks PROVE IsFiniteSet({t} \X (1 .. n[t]))
    OBVIOUS
  <2>1. n[t] \in Int /\ 1 \in Int
    OBVIOUS
  <2>2. IsFiniteSet({t}) /\ IsFiniteSet(1 .. n[t])
    BY ONLY <2>1, FS_Singleton, FS_Interval
  <2> QED
    BY ONLY <2>2, FS_Product
<1>2. part \in Surjection(Tasks, parts)
  BY DEF Surjection
<1>3. IsFiniteSet(parts)
  BY ONLY <1>2, DiscoveryAssumption, FS_Surjection DEF DiscoveryAssumption
<1>4. IsFiniteSet(UNION parts)
  BY <1>1, <1>3, FS_UNION
<1> QED
  BY <1>4, FS_CardinalityType DEF Counted, Total

\* What one task has more, the total has more.
LEMMA TotalGrows ==
  \A n \in [Tasks -> Nat], t \in Tasks, d \in Nat :
    Total([n EXCEPT ![t] = n[t] + d]) = Total(n) + d
<1> SUFFICES ASSUME NEW n \in [Tasks -> Nat], NEW t \in Tasks, NEW d \in Nat,
                    NEW m, m = [n EXCEPT ![t] = n[t] + d]
             PROVE  Total(m) = Total(n) + d
  OBVIOUS
<1> DEFINE new == {t} \X (n[t] + 1 .. n[t] + d)
<1>1. m \in [Tasks -> Nat] /\ m[t] = n[t] + d /\ \A u \in Tasks : u # t => m[u] = n[u]
  OBVIOUS
<1>2. IsFiniteSet(new) /\ Cardinality(new) = d
  <2>1. /\ IsFiniteSet(n[t] + 1 .. n[t] + d) /\ Cardinality(n[t] + 1 .. n[t] + d) = d
    <3> DEFINE i == n[t] + 1
               j == n[t] + d
    <3>1. i \in Int /\ j \in Int /\ (IF i > j THEN 0 ELSE j - i + 1) = d
      OBVIOUS
    <3> HIDE DEF i, j
    <3>2. IsFiniteSet(i .. j) /\ Cardinality(i .. j) = d
      BY ONLY <3>1, FS_Interval
    <3> QED
      BY <3>2 DEF i, j
  <2>2. IsFiniteSet({t}) /\ Cardinality({t}) = 1
    BY FS_Singleton
  <2> QED
    BY <2>1, <2>2, FS_Product
<1>3. \A x : x \in Counted(m) <=> x \in Counted(n) \/ x \in new
  <2> SUFFICES ASSUME NEW x PROVE x \in Counted(m) <=> x \in Counted(n) \/ x \in new
    OBVIOUS
  <2>1. x \in Counted(m) <=> \E u \in Tasks : x \in {u} \X (1 .. m[u])
    BY DEF Counted
  <2>2. x \in Counted(n) <=> \E u \in Tasks : x \in {u} \X (1 .. n[u])
    BY DEF Counted
  <2>3. x \in {t} \X (1 .. m[t]) <=> x \in {t} \X (1 .. n[t]) \/ x \in new
    BY <1>1
  <2> HIDE DEF new
  <2> QED
    BY <1>1, <2>1, <2>2, <2>3
<1>4. Counted(n) \cap new = {}
  <2>1. ASSUME NEW x \in Counted(n), x \in new PROVE FALSE
    <3>1. PICK u \in Tasks : x \in {u} \X (1 .. n[u])
      BY <2>1 DEF Counted
    <3> QED
      BY <2>1, <3>1
  <2> QED
    BY <2>1
<1>5. Counted(m) = Counted(n) \cup new
  BY <1>3
<1>6. IsFiniteSet(Counted(n)) /\ Total(n) \in Nat
  BY TotalIsNat
<1> HIDE DEF new
<1>7. Cardinality(Counted(m)) = Cardinality(Counted(n)) + Cardinality(new) - Cardinality({})
  BY ONLY <1>2, <1>4, <1>5, <1>6, FS_Union
<1>8. Total(m) = Total(n) + d - 0
  BY ONLY <1>2, <1>7, FS_EmptySet DEF Total
<1> QED
  BY <1>6, <1>8

LEMMA TotalZero == Total([t \in Tasks |-> 0]) = 0
<1>1. Counted([t \in Tasks |-> 0]) = {}
  BY DEF Counted
<1> QED
  BY <1>1, FS_EmptySet DEF Total

LEMMA TotalsAreNat ==
  ASSUME DiscoveryInv
  PROVE  /\ ResultsOf \in [Tasks -> Nat] /\ Total(ResultsOf) \in Nat
         /\ AttemptsOf \in [Tasks -> Nat] /\ Total(AttemptsOf) \in Nat
         /\ PagesOf \in [Tasks -> Nat] /\ Total(PagesOf) \in Nat
<1>1. ResultsOf \in [Tasks -> Nat] /\ AttemptsOf \in [Tasks -> Nat]
  BY DEF DiscoveryInv, TaskShape, TaskRows, ResultsOf, AttemptsOf
<1>2. PagesOf \in [Tasks -> Nat]
  BY DEF DiscoveryInv, CountShape, PagesOf
<1> QED
  BY <1>1, <1>2, TotalIsNat
-----------------------------------------------------------------------------
(***************************************************************************)
(* Attempts at a step.                                                     *)
(***************************************************************************)
LEMMA AtIsFinite ==
  ASSUME NEW S
  PROVE  /\ IsFiniteSet(At(S)) /\ Cardinality(At(S)) \in Nat
         /\ IsFiniteSet(At(S)') /\ Cardinality(At(S)') \in Nat
<1>1. At(S) \in SUBSET Attempts /\ At(S)' \in SUBSET Attempts
  BY DEF At
<1> QED
  BY <1>1, DiscoveryAssumption, FS_Subset, FS_CardinalityType DEF DiscoveryAssumption

\* Two sets that differ by one element at most.
LEMMA OneElement ==
  ASSUME NEW A, IsFiniteSet(A), NEW x, NEW B, B \ {x} = A \ {x}
  PROVE  /\ x \in B /\ x \notin A => Cardinality(B) = Cardinality(A) + 1
         /\ x \notin B /\ x \in A => Cardinality(B) = Cardinality(A) - 1
         /\ (x \in B <=> x \in A) => Cardinality(B) = Cardinality(A)
<1>1. x \in B /\ x \notin A => B = A \cup {x}
  OBVIOUS
<1>2. x \notin B /\ x \in A => B = A \ {x}
  OBVIOUS
<1>3. (x \in B <=> x \in A) => B = A
  OBVIOUS
<1>4. /\ Cardinality(A \cup {x}) = IF x \in A THEN Cardinality(A) ELSE Cardinality(A) + 1
      /\ Cardinality(A \ {x}) = IF x \in A THEN Cardinality(A) - 1 ELSE Cardinality(A)
  BY ONLY IsFiniteSet(A), FS_AddElement, FS_RemoveElement
<1> QED
  BY <1>1, <1>2, <1>3, <1>4

\* One attempt moves: it joins those at the steps, leaves them or neither.
LEMMA AtMoves ==
  ASSUME NEW a \in Attempts, \A b \in Attempts : b # a => attempt'[b] = attempt[b], NEW S
  PROVE  /\ attempt'[a].pc \in S /\ attempt[a].pc \notin S
              => Cardinality(At(S)') = Cardinality(At(S)) + 1
         /\ attempt'[a].pc \notin S /\ attempt[a].pc \in S
              => Cardinality(At(S)') = Cardinality(At(S)) - 1
         /\ (attempt'[a].pc \in S <=> attempt[a].pc \in S)
              => Cardinality(At(S)') = Cardinality(At(S))
<1>1. At(S)' \ {a} = At(S) \ {a}
  BY DEF At
<1>2. /\ a \in At(S) <=> attempt[a].pc \in S
      /\ a \in At(S)' <=> attempt'[a].pc \in S
  BY DEF At
<1>3. IsFiniteSet(At(S))
  BY AtIsFinite
<1> QED
  BY <1>1, <1>2, <1>3, OneElement
-----------------------------------------------------------------------------
(***************************************************************************)
(* The steps.                                                              *)
(***************************************************************************)
\* One attempt moves and has counted nothing, nor comes to a step at which it has
\* something to count.
LEMMA CountsStay ==
  ASSUME DiscoveryInv, CountInv, UNCHANGED <<sources, delivered>>,
         \A t \in Tasks : UNCHANGED <<task[t].unique, task[t].results, task[t].attempts>>,
         usage'.requests = usage.requests, usage'.results = usage.results,
         NEW a \in Attempts, \A b \in Attempts : b # a => attempt'[b] = attempt[b],
         attempt'[a].pc \in {"call", "commit"} => attempt[a].pc \in {"call", "commit"},
         attempt'[a].pc = "usage" => attempt[a].pc = "usage"
  PROVE  CountInv'
<1>1. Cardinality(Asking') <= Cardinality(Asking) /\ Cardinality(Claiming') <= Cardinality(Claiming)
      /\ Cardinality(Asking') \in Nat /\ Cardinality(Claiming') \in Nat
  <2>1. /\ Cardinality(At({"call", "commit"})) \in Nat /\ Cardinality(At({"usage"})) \in Nat
        /\ Cardinality(At({"call", "commit"})') \in Nat /\ Cardinality(At({"usage"})') \in Nat
    BY AtIsFinite
  <2> QED
    BY <2>1, AtMoves DEF Asking, Claiming
<1>2. ResultsOf' = ResultsOf /\ AttemptsOf' = AttemptsOf /\ PagesOf' = PagesOf
      /\ \A t \in Tasks : SourcesOf(t)' = SourcesOf(t) /\ task'[t].unique = task[t].unique
  BY DEF ResultsOf, AttemptsOf, PagesOf, SourcesOf
<1>3. /\ usage.requests \in Nat /\ Cardinality(Asking) \in Nat /\ Cardinality(Claiming) \in Nat
      /\ Total(PagesOf) \in Nat /\ Total(AttemptsOf) \in Nat
  BY TotalsAreNat, AtIsFinite DEF DiscoveryInv, CountShape, Asking, Claiming
<1>4. /\ usage'.results = Total(ResultsOf')
      /\ Total(PagesOf') + Cardinality(Asking') <= usage'.requests
      /\ usage'.requests + Cardinality(Claiming') <= Total(AttemptsOf')
  BY <1>1, <1>2, <1>3 DEF CountInv
<1>5. \A t \in Tasks : task'[t].unique = Cardinality(SourcesOf(t)')
  BY <1>2 DEF CountInv
<1> QED
  BY <1>4, <1>5 DEF CountInv, Total, Counted
\* A claim counts an attempt, and its request is still to be counted.
LEMMA ClaimCounts ==
  ASSUME DiscoveryInv, CountInv, NEW a \in Attempts, Claim(a)
  PROVE  CountInv'
<1> DEFINE k == attempt[a].key
           t == k.task
<1>1. CASE Returns(a) /\ UNCHANGED task
  <2>1. /\ attempt'[a].pc \notin {"call", "commit", "usage"}
        /\ \A b \in Attempts : b # a => attempt'[b] = attempt[b]
    BY <1>1 DEF Returns, DiscoveryInv, AttemptShape, IdleAttempt
  <2> QED
    BY <1>1, <2>1, CountsStay DEF Claim
<1>2. CASE /\ Goes(a, "usage")
           /\ task' = [task EXCEPT ![t].status = "RUNNING", ![t].attempts = @ + 1]
  <2>1. t \in Tasks /\ task[t] \in TaskRows
    BY DEF Claim, DiscoveryInv, AttemptInv, Remembers, Reached, Keys, TaskShape
  <2>2. \A u \in Tasks :
          /\ task'[u].unique = task[u].unique /\ task'[u].results = task[u].results
          /\ task'[u].attempts = IF u = t THEN task[t].attempts + 1 ELSE task[u].attempts
    BY <1>2, <2>1 DEF DiscoveryInv, TaskShape, TaskRows
  <2>3. /\ attempt'[a].pc = "usage" /\ attempt[a].pc = "claim"
        /\ \A b \in Attempts : b # a => attempt'[b] = attempt[b]
    BY <1>2, GoesKeepsKey DEF Claim
  <2>4. Cardinality(Asking') = Cardinality(Asking)
        /\ Cardinality(Claiming') = Cardinality(Claiming) + 1
    BY <2>3, AtMoves DEF Asking, Claiming
  <2>5. /\ UNCHANGED <<usage, sources, delivered>>
        /\ ResultsOf' = ResultsOf /\ PagesOf' = PagesOf
        /\ \A u \in Tasks : SourcesOf(u)' = SourcesOf(u)
    BY <2>2 DEF Claim, ResultsOf, PagesOf, SourcesOf
  <2>6. AttemptsOf' = [AttemptsOf EXCEPT ![t] = AttemptsOf[t] + 1]
    BY <2>1, <2>2 DEF AttemptsOf
  <2> HIDE DEF t
  <2>7. Total(AttemptsOf') = Total(AttemptsOf) + 1
    <3>1. AttemptsOf \in [Tasks -> Nat] /\ 1 \in Nat
      BY TotalsAreNat
    <3> QED
      BY ONLY <2>1, <2>6, <3>1, TotalGrows
  <2>8. /\ usage'.results = Total(ResultsOf')
        /\ Total(PagesOf') + Cardinality(Asking') <= usage'.requests
        /\ usage'.requests + Cardinality(Claiming') <= Total(AttemptsOf')
    <3>1. usage.requests \in Nat /\ Cardinality(Claiming) \in Nat /\ Total(AttemptsOf) \in Nat
      BY TotalsAreNat, AtIsFinite DEF DiscoveryInv, CountShape, Claiming
    <3> QED
      BY <2>4, <2>5, <2>7, <3>1 DEF CountInv
  <2>9. \A u \in Tasks : task'[u].unique = Cardinality(SourcesOf(u)')
    BY <2>2, <2>5 DEF CountInv
  <2> QED
    BY <2>8, <2>9 DEF CountInv, Total, Counted
<1> QED
  BY <1>1, <1>2 DEF Claim

\* A request is counted for a claim, before the provider is asked.
LEMMA RequestCounts ==
  ASSUME DiscoveryInv, CountInv, NEW a \in Attempts, CountRequest(a)
  PROVE  CountInv'
<1>1. /\ UNCHANGED <<task, sources, delivered>>
      /\ usage' = [usage EXCEPT !.requests = @ + 1]
      /\ usage \in [requests : Nat, results : Nat, errors : Nat]
  BY DEF CountRequest, DiscoveryInv, CountShape
<1>2. usage'.requests = usage.requests + 1 /\ usage'.results = usage.results
  BY <1>1
<1>3. /\ attempt'[a].pc = "call" /\ attempt[a].pc = "usage"
      /\ \A b \in Attempts : b # a => attempt'[b] = attempt[b]
  BY GoesKeepsKey DEF CountRequest
<1>4. /\ Cardinality(Asking') = Cardinality(Asking) + 1
      /\ Cardinality(Claiming') = Cardinality(Claiming) - 1
  BY <1>3, AtMoves DEF Asking, Claiming
<1>5. /\ ResultsOf' = ResultsOf /\ PagesOf' = PagesOf /\ AttemptsOf' = AttemptsOf
      /\ \A u \in Tasks : SourcesOf(u)' = SourcesOf(u)
  BY <1>1 DEF ResultsOf, PagesOf, AttemptsOf, SourcesOf
<1>6. /\ usage.requests \in Nat /\ Cardinality(Asking) \in Nat /\ Cardinality(Claiming) \in Nat
      /\ Total(PagesOf) \in Nat /\ Total(AttemptsOf) \in Nat
  BY TotalsAreNat, AtIsFinite DEF DiscoveryInv, CountShape, Asking, Claiming
<1>7. /\ usage'.results = Total(ResultsOf')
      /\ Total(PagesOf') + Cardinality(Asking') <= usage'.requests
      /\ usage'.requests + Cardinality(Claiming') <= Total(AttemptsOf')
  BY <1>2, <1>4, <1>5, <1>6 DEF CountInv
<1>8. \A u \in Tasks : task'[u].unique = Cardinality(SourcesOf(u)')
  BY <1>1, <1>5 DEF CountInv
<1> QED
  BY <1>7, <1>8 DEF CountInv, Total, Counted

\* A page that is persisted: results and sources grow by what is counted.
LEMMA PersistCounts ==
  ASSUME DiscoveryInv, CountInv, NEW a \in Attempts, attempt[a].pc = "commit",
         Persist(attempt[a].key, attempt[a].result),
         \A b \in Attempts : b # a => attempt'[b] = attempt[b],
         attempt'[a].pc \notin {"usage", "call", "commit"}
  PROVE  CountInv'
<1> DEFINE k == attempt[a].key
           t == k.task
           ids == attempt[a].result.ids
           found == NewSources(k, attempt[a].result)
           size == Cardinality(ids)
           fresh == Cardinality(found)
<1>1. t \in Tasks /\ task[t] \in TaskRows /\ ids \subseteq Ids
  BY DEF DiscoveryInv, AttemptInv, Remembers, Reached, Keys, TaskShape, Results
<1>2. /\ task' = [task EXCEPT ![t] = Advanced(k, attempt[a].result)]
      /\ sources' = sources \cup found
      /\ usage' = [usage EXCEPT !.results = @ + size]
      /\ delivered' = [delivered EXCEPT ![t] = Append(@, attempt[a].result.page)]
  BY DEF Persist
<1>3. IsFiniteSet(found) /\ size \in Nat /\ fresh \in Nat
  <2>1. IsFiniteSet(ids)
    BY <1>1, DiscoveryAssumption, FS_Subset DEF DiscoveryAssumption
  <2>2. IsFiniteSet({t} \X ids)
    BY <2>1, FS_Singleton, FS_Product
  <2>3. found \subseteq {t} \X ids
    BY DEF NewSources
  <2>4. IsFiniteSet(found)
    BY <2>2, <2>3, FS_Subset
  <2> QED
    BY <2>1, <2>4, FS_CardinalityType
<1>4. \A u \in Tasks :
        /\ task'[u].unique = IF u = t THEN task[t].unique + fresh ELSE task[u].unique
        /\ task'[u].results = IF u = t THEN task[t].results + size ELSE task[u].results
        /\ task'[u].attempts = task[u].attempts
  <2>1. \A u \in Tasks : task'[u] = IF u = t THEN Advanced(k, attempt[a].result) ELSE task[u]
    BY <1>2 DEF DiscoveryInv, TaskShape
  <2> HIDE DEF found, ids, fresh, size
  <2>2. LET new == Advanced(k, attempt[a].result)
        IN /\ new.unique = task[t].unique + fresh /\ new.results = task[t].results + size
           /\ new.attempts = task[t].attempts
    BY <1>1 DEF Advanced, TaskRows, found, ids, fresh, size
  <2> QED
    BY <2>1, <2>2
<1>5. \A u \in Tasks : SourcesOf(u)' = IF u = t THEN SourcesOf(t) \cup found ELSE SourcesOf(u)
  BY <1>2 DEF SourcesOf, NewSources
<1>6. SourcesOf(t) \cap found = {} /\ IsFiniteSet(SourcesOf(t))
  <2>1. SourcesOf(t) \subseteq Tasks \X Ids
    BY DEF SourcesOf, DiscoveryInv, CountShape
  <2>2. IsFiniteSet(Tasks \X Ids)
    BY DiscoveryAssumption, FS_Product DEF DiscoveryAssumption
  <2> QED
    BY <2>1, <2>2, FS_Subset DEF SourcesOf, NewSources
<1>7. /\ ResultsOf' = [ResultsOf EXCEPT ![t] = ResultsOf[t] + size] /\ AttemptsOf' = AttemptsOf
      /\ PagesOf' = [PagesOf EXCEPT ![t] = PagesOf[t] + 1]
  <2>1. \A u \in Tasks : Len(delivered'[u]) = IF u = t THEN Len(delivered[t]) + 1
                                              ELSE Len(delivered[u])
    <3>1. attempt[a].result.page \in Pages /\ delivered \in [Tasks -> Seq(Pages)]
      BY DEF DiscoveryInv, AttemptInv, Remembers, Results, CountShape
    <3> QED
      BY <1>1, <1>2, <3>1
  <2> HIDE DEF t, size
  <2> QED
    BY <1>1, <1>4, <2>1 DEF ResultsOf, AttemptsOf, PagesOf
<1>8. /\ usage'.requests = usage.requests /\ usage'.results = usage.results + size
      /\ usage.requests \in Nat
  <2> HIDE DEF size
  <2> QED
    BY <1>2 DEF DiscoveryInv, CountShape
<1>9. /\ Cardinality(Asking') = Cardinality(Asking) - 1
      /\ Cardinality(Claiming') = Cardinality(Claiming)
      /\ Cardinality(Asking) \in Nat
  BY AtMoves, AtIsFinite DEF Asking, Claiming
<1> HIDE DEF k, t, ids, size, fresh, found
<1>10. Total(ResultsOf') = Total(ResultsOf) + size /\ Total(PagesOf') = Total(PagesOf) + 1
  <2>1. ResultsOf \in [Tasks -> Nat] /\ PagesOf \in [Tasks -> Nat] /\ 1 \in Nat
    BY TotalsAreNat
  <2>2. Total(ResultsOf') = Total(ResultsOf) + size
    <3>1. t \in Tasks /\ size \in Nat
      BY <1>1, <1>3
    <3>2. Total([ResultsOf EXCEPT ![t] = ResultsOf[t] + size]) = Total(ResultsOf) + size
      BY ONLY <2>1, <3>1, TotalGrows
    <3> QED
      BY <1>7, <3>2
  <2>3. Total(PagesOf') = Total(PagesOf) + 1
    BY ONLY <1>1, <1>7, <2>1, TotalGrows
  <2> QED
    BY <2>2, <2>3
<1>11. /\ usage'.results = Total(ResultsOf')
       /\ Total(PagesOf') + Cardinality(Asking') <= usage'.requests
       /\ usage'.requests + Cardinality(Claiming') <= Total(AttemptsOf')
  BY <1>7, <1>8, <1>9, <1>10, TotalsAreNat DEF CountInv
<1>12. \A u \in Tasks : task'[u].unique = Cardinality(SourcesOf(u)')
  <2>1. Cardinality(SourcesOf(t) \cup found) = Cardinality(SourcesOf(t)) + fresh
    <3>1. Cardinality(SourcesOf(t) \cup found)
            = Cardinality(SourcesOf(t)) + Cardinality(found) - Cardinality({})
      BY ONLY <1>3, <1>6, FS_Union
    <3>2. Cardinality(SourcesOf(t)) \in Nat
      BY <1>6, FS_CardinalityType
    <3> QED
      BY <1>3, <3>1, <3>2, FS_EmptySet DEF fresh
  <2> QED
    BY <1>4, <1>5, <2>1 DEF CountInv
<1> QED
  BY <1>11, <1>12 DEF CountInv, Total, Counted

\* A transaction persists its page or nothing.
LEMMA CommitCounts ==
  ASSUME DiscoveryInv, CountInv, NEW a \in Attempts, Commit(a) \/ CommitThrows(a)
  PROVE  CountInv'
<1>1. attempt[a].pc = "commit" /\ attempt[a] \in AttemptRecords
  BY DEF Commit, CommitThrows, DiscoveryInv, AttemptShape
<1>2. /\ attempt'[a].pc \in {"finish", "reserve", "undo"}
      /\ \A b \in Attempts : b # a => attempt'[b] = attempt[b]
  BY <1>1 DEF Commit, CommitThrows, Goes, DiscoveryInv, AttemptShape, AttemptRecords
<1>3. \/ Persist(attempt[a].key, attempt[a].result)
      \/ UNCHANGED <<task, sources, usage, delivered>>
  BY DEF Commit, CommitThrows
<1> QED
  BY <1>1, <1>2, <1>3, PersistCounts, CountsStay

\* The other steps of an attempt have nothing to count.
LEMMA OthersCount ==
  ASSUME DiscoveryInv, CountInv, NEW a \in Attempts,
         \/ Fetch(a) \/ Read(a) \/ CountRequestFails(a) \/ CallProvider(a) \/ ProviderFails(a)
         \/ MarkFailed(a) \/ RecordError(a) \/ Undo(a)
         \/ ReserveNext(a) \/ SendNext(a) \/ SendNextFails(a) \/ Finish(a) \/ Dies(a) \/ Expire(a)
  PROVE  CountInv'
<1>1. attempt[a] \in AttemptRecords /\ attempt \in [Attempts -> AttemptRecords]
  BY DEF DiscoveryInv, AttemptShape
<1>2. /\ UNCHANGED <<sources, delivered>>
      /\ \A t \in Tasks : UNCHANGED <<task[t].unique, task[t].results, task[t].attempts>>
  <2>1. UNCHANGED <<sources, delivered>> /\ (task' = task \/ MarkFailed(a) \/ Undo(a))
    BY DEF Fetch, Read, CountRequestFails, CallProvider, ProviderFails, MarkFailed, RecordError,
           Undo, ReserveNext, SendNext, SendNextFails, Finish, Dies, Expire
  <2>2. CASE MarkFailed(a) \/ Undo(a)
    <3>1. FailTask(attempt[a].key.task)
      BY <2>2 DEF MarkFailed, Undo
    <3> QED
      BY <2>1, <3>1 DEF FailTask, DiscoveryInv, TaskShape, TaskRows
  <2> QED
    BY <2>1, <2>2
<1>3. usage'.requests = usage.requests /\ usage'.results = usage.results
  <2>1. usage' = usage \/ usage' = [usage EXCEPT !.errors = @ + 1]
    BY DEF Fetch, Read, CountRequestFails, CallProvider, ProviderFails, MarkFailed, RecordError,
           Undo, ReserveNext, SendNext, SendNextFails, Finish, Dies, Expire
  <2> QED
    BY <2>1 DEF DiscoveryInv, CountShape
<1>4. /\ \A b \in Attempts : b # a => attempt'[b] = attempt[b]
      /\ attempt'[a].pc \in {"call", "commit"} => attempt[a].pc \in {"call", "commit"}
      /\ attempt'[a].pc = "usage" => attempt[a].pc = "usage"
  <2>1. CASE attempt' = [attempt EXCEPT ![a] = IdleAttempt]
    BY <1>1, <2>1 DEF IdleAttempt
  <2>2. CASE \E step \in {"fail", "record", "send", "finish"} : Goes(a, step)
    BY <1>1, <2>2 DEF Goes, AttemptRecords
  <2>3. CASE Fetch(a) \/ CallProvider(a) \/ Expire(a) \/ Read(a)
    <3>1. CASE Fetch(a) \/ Expire(a)
      <4>1. CASE Fetch(a)
        <5>1. PICK k : attempt' = [attempt EXCEPT ![a].pc = "read", ![a].key = k, ![a].live = TRUE]
          BY <4>1 DEF Fetch
        <5>2. attempt'[a].pc = "read"
          BY <1>1, <5>1 DEF AttemptRecords
        <5> QED
          BY <1>1, <5>1, <5>2
      <4>2. CASE Expire(a)
        BY <1>1, <4>2 DEF Expire, AttemptRecords
      <4> QED
        BY <3>1, <4>1, <4>2
    <3>2. CASE CallProvider(a)
      <4>1. CASE Goes(a, "fail")
        BY <2>2, <4>1
      <4>2. CASE \E r : attempt' = [attempt EXCEPT ![a].pc = "commit", ![a].result = r]
        BY <1>1, <3>2, <4>2 DEF CallProvider, AttemptRecords
      <4> QED
        BY <3>2, <4>1, <4>2 DEF CallProvider
    <3>3. CASE Read(a)
      <4>1. \/ attempt' = [attempt EXCEPT ![a] = IdleAttempt]
            \/ \E k : attempt' = [attempt EXCEPT ![a].pc = "reserve", ![a].target = k]
            \/ \E c : attempt' = [attempt EXCEPT ![a].pc = "claim", ![a].cursor = c]
        BY <3>3 DEF Read, Returns, Throws, ThrowsOver
      <4> QED
        BY <1>1, <2>1, <4>1 DEF AttemptRecords
    <3> QED
      BY <2>3, <3>1, <3>2, <3>3
  <2>4. CASE \/ CountRequestFails(a) \/ RecordError(a) \/ Undo(a) \/ SendNextFails(a)
             \/ Finish(a) \/ Dies(a)
    BY <2>1, <2>4 DEF CountRequestFails, RecordError, Undo, SendNextFails, Finish, Dies, Returns,
                      Throws, ThrowsOver
  <2>5. CASE ProviderFails(a) \/ MarkFailed(a) \/ ReserveNext(a) \/ SendNext(a)
    BY <2>2, <2>5 DEF ProviderFails, MarkFailed, ReserveNext, SendNext
  <2> QED
    BY <2>3, <2>4, <2>5
<1> QED
  BY <1>2, <1>3, <1>4, CountsStay

LEMMA CountsSame == CountInv /\ UNCHANGED <<task, attempt, sources, usage, delivered>> => CountInv'
<1> SUFFICES ASSUME CountInv, UNCHANGED <<task, attempt, sources, usage, delivered>> PROVE CountInv'
  OBVIOUS
<1>1. /\ ResultsOf' = ResultsOf /\ PagesOf' = PagesOf /\ AttemptsOf' = AttemptsOf
      /\ Asking' = Asking /\ Claiming' = Claiming
      /\ \A u \in Tasks : SourcesOf(u)' = SourcesOf(u)
  BY DEF ResultsOf, PagesOf, AttemptsOf, SourcesOf, Asking, Claiming, At
<1>2. /\ usage'.results = Total(ResultsOf')
      /\ Total(PagesOf') + Cardinality(Asking') <= usage'.requests
      /\ usage'.requests + Cardinality(Claiming') <= Total(AttemptsOf')
      /\ \A u \in Tasks : task'[u].unique = Cardinality(SourcesOf(u)')
  BY <1>1 DEF CountInv
<1> QED
  BY <1>2 DEF CountInv, Total, Counted

LEMMA NextCounts == DiscoveryInv /\ CountInv /\ [Next]_vars => CountInv'
<1> SUFFICES ASSUME DiscoveryInv, CountInv, [Next]_vars PROVE CountInv'
  OBVIOUS
<1>1. CASE UNCHANGED <<task, attempt, sources, usage, delivered>>
  BY <1>1, CountsSame
<1>2. CASE CampaignStep \/ UNCHANGED vars
  BY <1>1, <1>2 DEF CampaignStep, vars, discoveryVars
<1>3. ASSUME NEW p \in Planners, ScheduleStep(p) PROVE CountInv'
  BY <1>1, <1>3 DEF ScheduleStep, ListTasks, ScheduleTask, SendTask, SendTaskFails,
                    FinishSchedule, PlannerDies, discoveryVars
<1>4. ASSUME NEW a \in Attempts, AttemptStep(a) PROVE CountInv'
  BY <1>4, ClaimCounts, RequestCounts, CommitCounts, OthersCount DEF AttemptStep
<1> QED
  BY <1>2, <1>3, <1>4 DEF Next

LEMMA InitCounts == Init => CountInv
<1> SUFFICES ASSUME Init PROVE CountInv
  OBVIOUS
<1>1. /\ ResultsOf = [t \in Tasks |-> 0] /\ PagesOf = [t \in Tasks |-> 0]
      /\ AttemptsOf = [t \in Tasks |-> 0]
  BY DEF Init, ResultsOf, PagesOf, AttemptsOf
<1>2. Asking = {} /\ Claiming = {} /\ \A t \in Tasks : SourcesOf(t) = {} /\ task[t].unique = 0
  BY DEF Init, Asking, Claiming, At, IdleAttempt, SourcesOf
<1>3. usage.requests = 0 /\ usage.results = 0
  BY DEF Init
<1> QED
  BY <1>1, <1>2, <1>3, TotalZero, FS_EmptySet DEF CountInv
-----------------------------------------------------------------------------
\* The counters of the tasks and of the usage row agree with the rows they count,
\* whatever fails, expires, is repeated or loses its answer.
THEOREM CountersStayTrue == Spec => []CountersAgree
<1>1. DiscoveryInv /\ CountInv => CountersAgree
  <2> SUFFICES ASSUME DiscoveryInv, CountInv PROVE CountersAgree
    OBVIOUS
  <2>1. /\ Total(PagesOf) \in Nat /\ Total(AttemptsOf) \in Nat /\ usage.requests \in Nat
        /\ Cardinality(Asking) \in Nat /\ Cardinality(Claiming) \in Nat
    BY TotalsAreNat, AtIsFinite DEF DiscoveryInv, CountShape, Asking, Claiming
  <2>2. Total(PagesOf) <= usage.requests /\ usage.requests <= Total(AttemptsOf)
    BY <2>1 DEF CountInv
  <2> QED
    BY <2>2 DEF CountersAgree, CountInv, SourcesOf, ResultsOf, PagesOf, AttemptsOf
<1> QED
  BY <1>1, InitCounts, NextCounts, DiscoveryInvariant, PTL DEF Spec
=============================================================================
