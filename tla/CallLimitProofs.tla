--------------------------- MODULE CallLimitProofs ---------------------------
(***************************************************************************)
(* The limit on provider calls, for any number of callers and any limit:   *)
(* the counter and the queue stay in step with the calls, a waiting call   *)
(* means that no slot is idle, and the limit is exceeded by overtakers     *)
(* only.                                                                   *)
(***************************************************************************)
EXTENDS CallLimit, FiniteSetTheorems, TLAPS

\* The callers that p, a value of at, has in a place.
At(p, place) == {d \in Callers : p[d] = place}

LEMMA AtIsFinite ==
  ASSUME NEW p, NEW place
  PROVE  IsFiniteSet(At(p, place))
<1>1. At(p, place) \subseteq Callers
  BY DEF At
<1> QED BY <1>1, FS_Subset, CallersAssumption

\* Between p and q caller c alone moves, from one place to another.
Moved(p, q, c, from, to) ==
  /\ c \in Callers /\ from # to
  /\ p[c] = from /\ q[c] = to
  /\ \A d \in Callers \ {c} : q[d] = p[d]

\* A caller that moves leaves one place and is counted at the other.
LEMMA Moves ==
  ASSUME NEW p, NEW q, NEW c, NEW from, NEW to, Moved(p, q, c, from, to)
  PROVE  /\ Cardinality(At(q, to)) = Cardinality(At(p, to)) + 1
         /\ Cardinality(At(q, from)) = Cardinality(At(p, from)) - 1
         /\ \A place : place \notin {from, to} => At(q, place) = At(p, place)
<1>1. At(q, to) = At(p, to) \cup {c} /\ c \notin At(p, to)
  BY DEF At, Moved
<1>2. At(q, from) = At(p, from) \ {c} /\ c \in At(p, from)
  BY DEF At, Moved
<1>3. \A place : place \notin {from, to} => At(q, place) = At(p, place)
  BY DEF At, Moved
<1>4. Cardinality(At(q, to)) = Cardinality(At(p, to)) + 1
  BY <1>1, AtIsFinite, FS_AddElement
<1>5. Cardinality(At(q, from)) = Cardinality(At(p, from)) - 1
  BY <1>2, AtIsFinite, FS_RemoveElement
<1> QED BY <1>3, <1>4, <1>5

-----------------------------------------------------------------------------
Typed ==
  /\ waiters \in Seq(Callers)
  /\ at \in [Callers -> Places]
  /\ overtakers \in 0 .. MaxOvertakers

\* The inductive invariant.  NoIdleSlot and ExcessIsOvertaking need that the
\* waiter woken by a release is one more resumed call, which CountersAgree says.
LimitInv == Typed /\ CountersAgree /\ NoIdleSlot /\ ExcessIsOvertaking

\* Where the callers are, in numbers.
LEMMA Numbers ==
  ASSUME Typed
  PROVE  \A place \in Places :
           /\ IsFiniteSet(In(place))
           /\ Cardinality(In(place)) \in 0 .. Cardinality(Callers)
<1>1. \A place \in Places : In(place) \subseteq Callers
  BY DEF In
<1>2. \A place \in Places : /\ IsFiniteSet(In(place))
                            /\ Cardinality(In(place)) <= Cardinality(Callers)
  BY <1>1, FS_Subset, CallersAssumption
<1>3. \A place \in Places : Cardinality(In(place)) \in Nat
  BY <1>2, FS_CardinalityType
<1>4. Cardinality(Callers) \in Nat
  BY CallersAssumption, FS_CardinalityType
<1> QED BY <1>2, <1>3, <1>4

LEMMA InIsAt == \A place : In(place) = At(at, place) /\ In(place)' = At(at', place)
BY DEF In, At

LEMMA LimitInvInit == Init => LimitInv
<1> SUFFICES ASSUME Init PROVE LimitInv
  OBVIOUS
<1>1. Typed
  BY CallersAssumption DEF Init, Typed, Places
<1>2. In("calling") = {} /\ In("resumed") = {}
  BY DEF Init, In
<1>3. CountersAgree
  BY <1>2, FS_EmptySet DEF Init, CountersAgree
<1>4. NoIdleSlot
  BY DEF Init, NoIdleSlot
<1>5. ExcessIsOvertaking
  BY <1>2, FS_EmptySet, LimitAssumption DEF Init, ExcessIsOvertaking
<1> QED BY <1>1, <1>3, <1>4, <1>5 DEF LimitInv

LEMMA AcquireKeeps ==
  ASSUME LimitInv, NEW c \in Callers, Acquire(c)
  PROVE  LimitInv'
<1> USE DEF LimitInv
<1>1. Typed'
  BY DEF Typed, Acquire, Places
<1>2. /\ Cardinality(In("calling")') = Cardinality(In("calling")) + 1
      /\ In("resumed")' = In("resumed")
  <2>1. Moved(at, at', c, "outside", "calling")
    BY DEF Typed, Acquire, Moved
  <2> QED BY <2>1, Moves, InIsAt
<1>3. /\ active \in Nat /\ Cardinality(In("resumed")) \in Nat
      /\ (In("resumed") = {} => Cardinality(In("resumed")) = 0)
  BY Numbers, FS_EmptySet DEF CountersAgree, Places
<1>4. CountersAgree'
  <2>1. \A d \in Callers : at'[d] = "waiting" <=> at[d] = "waiting"
    BY DEF Typed, Acquire
  <2> QED BY <1>2, <2>1 DEF CountersAgree, Acquire
<1>5. NoIdleSlot'
  BY <1>2, <1>3, LimitAssumption DEF NoIdleSlot, Acquire
<1>6. ExcessIsOvertaking'
  BY <1>2, <1>3, LimitAssumption DEF ExcessIsOvertaking, Acquire, Free, Typed
<1> QED BY <1>1, <1>4, <1>5, <1>6

LEMMA WaitKeeps ==
  ASSUME LimitInv, NEW c \in Callers, Wait(c)
  PROVE  LimitInv'
<1> USE DEF LimitInv
<1>1. Typed'
  BY DEF Typed, Wait, Queued, Places
<1>2. In("calling")' = In("calling") /\ In("resumed")' = In("resumed")
  BY DEF Typed, Wait, In
<1>3. active \in Nat /\ Cardinality(In("resumed")) \in Nat
  BY Numbers DEF CountersAgree, Places
<1>4. CountersAgree'
  <2>1. /\ waiters' = Append(waiters, c)
        /\ \A d \in Callers : at'[d] = "waiting" <=> at[d] = "waiting" \/ d = c
        /\ at[c] # "waiting"
    BY DEF Typed, Wait, Queued
  <2>2. /\ DOMAIN waiters' = 1 .. Len(waiters) + 1
        /\ \A i \in 1 .. Len(waiters) : waiters'[i] = waiters[i]
        /\ waiters'[Len(waiters) + 1] = c
        /\ DOMAIN waiters = 1 .. Len(waiters) /\ Len(waiters) \in Nat
    BY <2>1 DEF Typed
  <2>3. \A d \in Callers :
          at'[d] = "waiting" <=> \E i \in DOMAIN waiters' : waiters'[i] = d
    BY <2>1, <2>2 DEF CountersAgree
  <2>4. \A i, j \in DOMAIN waiters' : waiters'[i] = waiters'[j] => i = j
    <3>1. \A i \in DOMAIN waiters : waiters[i] # c
      BY <2>1 DEF CountersAgree
    <3> QED BY <2>2, <3>1 DEF CountersAgree
  <2> QED BY <1>2, <2>3, <2>4 DEF CountersAgree, Wait
<1>5. NoIdleSlot'
  BY <1>2, <1>3, LimitAssumption DEF NoIdleSlot, Wait, Free
<1>6. ExcessIsOvertaking'
  BY <1>2 DEF ExcessIsOvertaking, Wait
<1> QED BY <1>1, <1>4, <1>5, <1>6

LEMMA ResumeKeeps ==
  ASSUME LimitInv, NEW c \in Callers, Resume(c)
  PROVE  LimitInv'
<1> USE DEF LimitInv
<1>1. Typed'
  BY DEF Typed, Resume, Places
<1>2. /\ Cardinality(In("calling")') = Cardinality(In("calling")) + 1
      /\ Cardinality(In("resumed")') = Cardinality(In("resumed")) - 1
  <2>1. Moved(at, at', c, "resumed", "calling")
    BY DEF Typed, Resume, Moved
  <2> QED BY <2>1, Moves, InIsAt
<1>3. active \in Nat /\ Cardinality(In("resumed")) \in Nat
  BY Numbers DEF CountersAgree, Places
<1>4. CountersAgree'
  <2>1. \A d \in Callers : at'[d] = "waiting" <=> at[d] = "waiting"
    BY DEF Typed, Resume
  <2> QED BY <1>2, <2>1 DEF CountersAgree, Resume, CountedIn
<1>5. NoIdleSlot' /\ ExcessIsOvertaking'
  BY <1>2, <1>3, LimitAssumption
  DEF NoIdleSlot, ExcessIsOvertaking, Resume, CountedIn
<1> QED BY <1>1, <1>4, <1>5

LEMMA ReleaseKeeps ==
  ASSUME LimitInv, NEW c \in Callers, Release(c)
  PROVE  LimitInv'
<1> USE DEF LimitInv
<1> DEFINE left == [at EXCEPT ![c] = "outside"]
<1>1. at[c] = "calling" /\ left \in [Callers -> Places]
  BY DEF Typed, Release, Places
<1>2. active \in Nat /\ Cardinality(In("resumed")) \in Nat
  BY Numbers DEF CountersAgree, Places
<1>3. /\ Cardinality(At(left, "calling")) = Cardinality(In("calling")) - 1
      /\ At(left, "resumed") = In("resumed")
  <2>1. Moved(at, left, c, "calling", "outside")
    BY <1>1 DEF Typed, Moved
  <2> HIDE DEF left
  <2> QED BY <2>1, Moves, InIsAt
<1>4. CASE waiters = << >>
  <2>1. at' = left /\ waiters' = waiters /\ overtakers' = overtakers
    BY <1>4 DEF Release, Wakes
  <2>2. Cardinality(In("calling")') = Cardinality(In("calling")) - 1
        /\ In("resumed")' = In("resumed")
    BY <1>3, <2>1, InIsAt
  <2>3. CountersAgree'
    <3>1. \A d \in Callers : at'[d] = "waiting" <=> at[d] = "waiting"
      BY <1>1, <2>1 DEF Typed
    <3> QED BY <2>1, <2>2, <3>1 DEF CountersAgree, Release
  <2>4. NoIdleSlot'
    BY <1>4, <2>1 DEF NoIdleSlot
  <2>5. ExcessIsOvertaking'
    BY <1>2, <2>1, <2>2, LimitAssumption DEF ExcessIsOvertaking, Release, Typed
  <2>6. Typed'
    BY <1>1, <2>1 DEF Typed
  <2> QED BY <2>3, <2>4, <2>5, <2>6
<1>5. CASE waiters # << >>
  <2> DEFINE h == Head(waiters)
  <2>1. /\ h \in Callers /\ h = waiters[1] /\ 1 \in DOMAIN waiters
        /\ Len(waiters) \in Nat \ {0} /\ DOMAIN waiters = 1 .. Len(waiters)
    BY <1>5 DEF Typed
  <2>2. at[h] = "waiting" /\ h # c /\ left[h] = "waiting"
    BY <1>1, <2>1 DEF CountersAgree, Typed
  <2>3. /\ at' = [left EXCEPT ![h] = "resumed"]
        /\ waiters' = Tail(waiters) /\ overtakers' = overtakers
        /\ active' = active - 1
    BY <1>5 DEF Release, Wakes, Rest
  <2>4. at' \in [Callers -> Places]
    BY <1>1, <2>1, <2>3 DEF Places
  <2>5. /\ Cardinality(At(at', "resumed")) = Cardinality(At(left, "resumed")) + 1
        /\ At(at', "calling") = At(left, "calling")
    <3>1. Moved(left, at', h, "waiting", "resumed")
      BY <1>1, <2>1, <2>2, <2>3 DEF Moved
    <3> HIDE DEF left, h
    <3> QED BY <3>1, Moves
  <2>6. /\ Cardinality(In("calling")') = Cardinality(In("calling")) - 1
        /\ Cardinality(In("resumed")') = Cardinality(In("resumed")) + 1
    BY <1>3, <2>5, InIsAt
  <2>7. /\ DOMAIN waiters' = 1 .. Len(waiters) - 1
        /\ \A i \in DOMAIN waiters' : waiters'[i] = waiters[i + 1]
        /\ waiters' \in Seq(Callers)
    BY <1>5, <2>1, <2>3 DEF Typed
  <2>8. CountersAgree'
    <3>1. \A d \in Callers : at'[d] = "waiting" <=> at[d] = "waiting" /\ d # h
      BY <1>1, <2>1, <2>2, <2>3 DEF Typed
    <3>2. \A d \in Callers :
            (\E i \in DOMAIN waiters' : waiters'[i] = d)
              <=> (\E i \in DOMAIN waiters : waiters[i] = d) /\ d # h
      <4> TAKE d \in Callers
      <4>1. ASSUME NEW i \in DOMAIN waiters', waiters'[i] = d
            PROVE  (\E j \in DOMAIN waiters : waiters[j] = d) /\ d # h
        <5>1. i + 1 \in DOMAIN waiters /\ waiters[i + 1] = d /\ i + 1 # 1
          BY <2>1, <2>7, <4>1
        <5> QED BY <2>1, <5>1 DEF CountersAgree
      <4>2. ASSUME NEW j \in DOMAIN waiters, waiters[j] = d, d # h
            PROVE  \E i \in DOMAIN waiters' : waiters'[i] = d
        <5>1. j - 1 \in DOMAIN waiters' /\ (j - 1) + 1 = j
          BY <2>1, <2>7, <4>2
        <5> QED BY <2>7, <4>2, <5>1
      <4> QED BY <4>1, <4>2
    <3>3. \A i, j \in DOMAIN waiters' : waiters'[i] = waiters'[j] => i = j
      <4> TAKE i, j \in DOMAIN waiters'
      <4>1. /\ i + 1 \in DOMAIN waiters /\ j + 1 \in DOMAIN waiters
            /\ i \in Int /\ j \in Int
        BY <2>1, <2>7
      <4>2. waiters'[i] = waiters[i + 1] /\ waiters'[j] = waiters[j + 1]
        BY <2>7
      <4>3. waiters[i + 1] = waiters[j + 1] => i + 1 = j + 1
        BY <4>1 DEF CountersAgree
      <4> QED BY <4>1, <4>2, <4>3
    <3>4. active' = Cardinality(In("calling")')
      BY <2>3, <2>6 DEF CountersAgree
    <3>5. \A d \in Callers :
            at'[d] = "waiting" <=> \E i \in DOMAIN waiters' : waiters'[i] = d
      BY <3>1, <3>2 DEF CountersAgree
    <3> QED BY <3>3, <3>4, <3>5 DEF CountersAgree
  <2>9. NoIdleSlot' /\ ExcessIsOvertaking'
    BY <1>2, <1>5, <2>3, <2>6, LimitAssumption
    DEF NoIdleSlot, ExcessIsOvertaking, Typed
  <2>10. Typed'
    BY <2>3, <2>4, <2>7 DEF Typed
  <2> QED BY <2>8, <2>9, <2>10
<1> QED BY <1>4, <1>5

LEMMA LimitInvNext == LimitInv /\ [Next]_vars => LimitInv'
<1> SUFFICES ASSUME LimitInv, [Next]_vars PROVE LimitInv'
  OBVIOUS
<1>1. CASE UNCHANGED vars
  BY <1>1 DEF vars, LimitInv, Typed, CountersAgree, NoIdleSlot,
              ExcessIsOvertaking, In
<1>2. ASSUME NEW c \in Callers, Acquire(c) \/ Wait(c) \/ Resume(c) \/ Release(c)
      PROVE  LimitInv'
  BY <1>2, AcquireKeeps, WaitKeeps, ResumeKeeps, ReleaseKeeps
<1> QED BY <1>1, <1>2 DEF Next

\* The counter of the semaphore and its queue agree with the calls.
THEOREM LimitCountersAgree == Spec => []CountersAgree
<1>1. LimitInv => CountersAgree
  BY DEF LimitInv
<1> QED BY <1>1, LimitInvInit, LimitInvNext, PTL DEF Spec

\* The counter is never negative nor above the number of callers.
THEOREM LimitTypes == Spec => []TypeOK
<1>1. LimitInv => TypeOK
  BY Numbers DEF LimitInv, Typed, TypeOK, CountersAgree, Places
<1> QED BY <1>1, LimitInvInit, LimitInvNext, PTL DEF Spec

\* No release is wasted while a call waits.
THEOREM LimitIsUsed == Spec => []NoIdleSlot
<1>1. LimitInv => NoIdleSlot
  BY DEF LimitInv
<1> QED BY <1>1, LimitInvInit, LimitInvNext, PTL DEF Spec

\* The limit is exceeded by the calls that overtook a resumed waiter, no more.
THEOREM LimitIsKept == Spec => []ExcessIsOvertaking
<1>1. LimitInv => ExcessIsOvertaking
  BY DEF LimitInv
<1> QED BY <1>1, LimitInvInit, LimitInvNext, PTL DEF Spec
=============================================================================
