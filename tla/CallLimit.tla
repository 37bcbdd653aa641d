------------------------------ MODULE CallLimit ------------------------------
(***************************************************************************)
(* The limit on provider calls of one worker process (AsyncSemaphore in    *)
(* concurrency-limited-provider.ts).  The attempts at discovery jobs that  *)
(* the process runs at a time call the provider; a call that finds the     *)
(* limit reached waits its turn in a queue.                                *)
(*                                                                         *)
(* The process is single-threaded, but a release only resolves the promise *)
(* of the first waiter.  The waiter counts itself in when its microtask    *)
(* runs, and another call may acquire before that.                         *)
(***************************************************************************)
EXTENDS Integers, Sequences, FiniteSets

CONSTANTS
  Callers,       \* the attempts of the process that call the provider
  Limit,         \* DISCOVERY_BROWSER_CONCURRENCY
  MaxOvertakers  \* bound on the calls that acquire ahead of a resumed waiter

\* The constructor refuses any other limit.
ASSUME LimitAssumption == Limit \in Nat \ {0}

ASSUME CallersAssumption == IsFiniteSet(Callers) /\ MaxOvertakers \in Nat

VARIABLES
  active,     \* the counter of the semaphore
  waiters,    \* its queue of waiting calls
  at,         \* where each caller is
  overtakers  \* number of calls that acquired ahead of a resumed waiter

vars == <<active, waiters, at, overtakers>>

Places == {"outside", "waiting", "resumed", "calling"}

In(place) == {c \in Callers : at[c] = place}

TypeOK ==
  /\ active \in 0 .. Cardinality(Callers)
  /\ waiters \in Seq(Callers)
  /\ at \in [Callers -> Places]
  /\ overtakers \in 0 .. MaxOvertakers

Init ==
  /\ active = 0
  /\ waiters = << >>
  /\ at = [c \in Callers |-> "outside"]
  /\ overtakers = 0
-----------------------------------------------------------------------------
\* Mutant of Free: the limit may be exceeded by one.
FreeOneMore == active <= Limit

Free == active < Limit

\* acquire, with a slot free: searchBusinesses or continueSearch is called.
Acquire(c) ==
  /\ at[c] = "outside" /\ Free
  /\ active' = active + 1
  /\ at' = [at EXCEPT ![c] = "calling"]
  /\ overtakers' = IF In("resumed") = {} THEN overtakers ELSE overtakers + 1
  /\ overtakers' <= MaxOvertakers
  /\ UNCHANGED waiters

\* Mutant of Queued: the last to come is the first to be woken.
QueuedFirst(c) == <<c>> \o waiters

\* The queue of waiters with a new one.
Queued(c) == Append(waiters, c)

\* acquire, with no slot free.
Wait(c) ==
  /\ at[c] = "outside" /\ ~Free
  /\ waiters' = Queued(c)
  /\ at' = [at EXCEPT ![c] = "waiting"]
  /\ UNCHANGED <<active, overtakers>>

\* Mutant of CountedIn: the waiter takes over a slot that nobody counts.
NotCountedIn == active

\* The waiter counts itself in, whatever the limit says by now.
CountedIn == active + 1

\* The microtask of a waiter whose promise has been resolved.
Resume(c) ==
  /\ at[c] = "resumed"
  /\ active' = CountedIn
  /\ at' = [at EXCEPT ![c] = "calling"]
  /\ UNCHANGED <<waiters, overtakers>>

\* Mutant of Wakes: a waiter is woken only when no call is left.
WakesWhenIdle == waiters # << >> /\ active = 1

\* A released slot is passed on.
Wakes == waiters # << >>

\* Mutant of Rest: the waiter that is woken stays in the queue.
RestWithHead == waiters

\* The queue after its first waiter has been taken.
Rest == Tail(waiters)

\* release, in the finally block: the call has returned or thrown.
Release(c) ==
  /\ at[c] = "calling"
  /\ active' = active - 1
  /\ IF Wakes
     THEN /\ at' = [at EXCEPT ![c] = "outside", ![Head(waiters)] = "resumed"]
          /\ waiters' = Rest
     ELSE /\ at' = [at EXCEPT ![c] = "outside"]
          /\ UNCHANGED waiters
  /\ UNCHANGED overtakers

Next ==
  \E c \in Callers : Acquire(c) \/ Wait(c) \/ Resume(c) \/ Release(c)

Spec == Init /\ [][Next]_vars

\* A provider call ends (MapsSearch: CallsEnd) and a microtask runs.
FairSpec ==
  /\ Spec
  /\ \A c \in Callers : WF_vars(Resume(c)) /\ WF_vars(Release(c))
-----------------------------------------------------------------------------
(***************************************************************************)
(* Properties.                                                             *)
(***************************************************************************)
\* The counter counts the calls in progress, and the queue holds the calls that
\* wait, each once: no release is lost and no call is woken twice.
CountersAgree ==
  /\ active = Cardinality(In("calling"))
  /\ \A c \in Callers :
       at[c] = "waiting" <=> \E i \in DOMAIN waiters : waiters[i] = c
  /\ \A i, j \in DOMAIN waiters : waiters[i] = waiters[j] => i = j

\* While a call waits, every slot is in use or promised to a resumed waiter: no
\* wake-up is lost, and the limit is not undercut.
NoIdleSlot ==
  waiters # << >> => active + Cardinality(In("resumed")) >= Limit

\* "one active discovery call per worker process": the limit is exceeded by no
\* more than the calls that acquired between a release and the microtask of
\* the waiter it woke, and not at all if there were none.
ExcessIsOvertaking ==
  active + Cardinality(In("resumed")) <= Limit + overtakers

\* A call that waits gets its turn: no attempt starves behind the limit, however
\* many calls come after it.
EveryCallGetsItsTurn ==
  \A c \in Callers : at[c] = "waiting" ~> at[c] = "calling"
=============================================================================
