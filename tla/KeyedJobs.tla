------------------------------ MODULE KeyedJobs ------------------------------
(***************************************************************************)
(* What the queue service promises its publishers: a table of jobs by      *)
(* idempotency key in which an entry moves by the operations of JobTable   *)
(* only, which modules Campaign and Discovery apply to their tables.       *)
(*                                                                         *)
(* Two operations are of the queue alone: an operator may stop a job or    *)
(* try a dead one again.  A publisher that never learns that its job was   *)
(* accepted takes back the entry, whatever has become of the job.          *)
(***************************************************************************)
EXTENDS JobTable

CONSTANTS Keys, LostAnswers

VARIABLE table

\* An operator cancels the job: nobody will work on it.
Stopped(tbl, k) == [tbl EXCEPT ![k].state = "dead"]

\* An operator has a dead job tried once more.
Redriven(tbl, k) == [tbl EXCEPT ![k] = [state |-> "queued", tries |-> RetryLimit]]

\* Entry k of one table moves, which makes the other.
Moves(old, new, k) ==
  \/ Is(old, k, "none") /\ new = Reserve(old, k)
  \/ Is(old, k, "reserved") /\ new \in {Sent(old, k), Release(old, k)}
  \/ Is(old, k, "queued") /\ new \in {Begin(old, k), Stopped(old, k)}
  \/ Is(old, k, "active") /\ new \in {Complete(old, k), FailTry(old, k), Stopped(old, k)}
  \/ Is(old, k, "dead") /\ new = Redriven(old, k)
  \/ LostAnswers /\ new = [old EXCEPT ![k] = NoJob]

\* One entry moves, the others stay.
Step(old, new) == \E k \in Keys : old[k] # new[k] /\ Moves(old, new, k)

TableInit == table = [k \in Keys |-> NoJob]

TableSpec == TableInit /\ [][Step(table, table')]_table
=============================================================================
