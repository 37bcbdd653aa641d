------------------------------ MODULE JobTable ------------------------------
(***************************************************************************)
(* The durable job queue as the campaign and discovery code sees it: a     *)
(* table with one entry per idempotency key.                               *)
(*                                                                         *)
(* An entry joins the JobMetadata row that reserves the key (unique per    *)
(* queue and workspace) and the pg-boss job that was sent for it:          *)
(*                                                                         *)
(*   none      no metadata row, the key is free                            *)
(*   reserved  reserveMetadata created the row, boss.send has not returned *)
(*   queued    pg-boss holds the job, waiting or waiting to be retried     *)
(*   active    pg-boss gave the job to a worker                            *)
(*   done      the handler returned; the row keeps the key for ever        *)
(*   dead      every try failed, the job is in the dead-letter queue       *)
(*                                                                         *)
(* An operator takes a table and returns the table after the operation.    *)
(***************************************************************************)
EXTENDS Naturals

CONSTANT RetryLimit     \* retryLimit of the queue (3 in queues.ts)

ASSUME RetryLimitAssumption == RetryLimit \in Nat

JobStates == {"none", "reserved", "queued", "active", "done", "dead"}

Jobs == [state : JobStates, tries : 0 .. RetryLimit + 1]

NoJob == [state |-> "none", tries |-> 0]

Is(table, k, s) == table[k].state = s

\* reserveMetadata: the unique index accepts only a free key.
Reserve(table, k) == [table EXCEPT ![k].state = "reserved"]

\* boss.send accepted the job.
Sent(table, k) == [table EXCEPT ![k].state = "queued"]

\* boss.send threw and the catch block deleted the reservation.
Release(table, k) == [table EXCEPT ![k].state = "none"]

\* pg-boss hands the job to a worker.
Begin(table, k) ==
  [table EXCEPT ![k] = [state |-> "active", tries |-> table[k].tries + 1]]

\* The handler returned.
Complete(table, k) == [table EXCEPT ![k].state = "done"]

\* Mutant of FailTry: one retry more than the limit.
FailTryOnceMore(table, k) ==
  [table EXCEPT ![k].state =
     IF table[k].tries <= RetryLimit + 1 THEN "queued" ELSE "dead"]

\* The handler threw, the worker died, or the job expired: retry or dead-letter.
FailTry(table, k) ==
  [table EXCEPT ![k].state =
     IF table[k].tries <= RetryLimit THEN "queued" ELSE "dead"]
=============================================================================
