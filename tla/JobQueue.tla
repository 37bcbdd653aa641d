------------------------------ MODULE JobQueue ------------------------------
(***************************************************************************)
(* The job system (pg-boss-queue.service.ts and tracked-job.ts): a job is  *)
(* kept twice, by pg-boss, which decides what runs, and in a JobMetadata   *)
(* row, which holds its idempotency key and is what the API shows.  No     *)
(* transaction spans the two.  Publishers write the row first and send the *)
(* job second, workers write the row before and after the task and report  *)
(* to pg-boss last, and cancel and retry act on pg-boss first.             *)
(*                                                                         *)
(* This is one queue of one workspace.  The id of a job, a random UUID, is *)
(* the payload it was made for: the i-th payload of a call.                *)
(***************************************************************************)
EXTENDS JobTable, FiniteSets

CONSTANTS
  Callers,    \* calls of enqueue, schedule and enqueueBulk
  Items,      \* per call, the number of its payloads
  Bulk,       \* the calls of enqueueBulk
  BaseKey,    \* per call, the idempotency key it was given
  Controls,   \* calls of cancel and retry
  Subject,    \* per such call, the job it is for
  Capacity,   \* the jobs that the workers take at a time (concurrency in queues.ts)
  Faults,     \* the kinds of faults there may be
  MaxFaults   \* bound on the number of faults

FaultKinds == {"send", "answer", "delete", "caller", "database", "crash", "expire"}

Ids == UNION {{c} \X (1 .. Items[c]) : c \in Callers}

ASSUME JobQueueAssumption ==
  /\ Items \in [Callers -> Nat \ {0}]
  /\ Bulk \subseteq Callers /\ \A c \in Callers \ Bulk : Items[c] = 1
  /\ DOMAIN BaseKey = Callers
  /\ IsFiniteSet(Controls) /\ Subject \in [Controls -> Ids]
  /\ Capacity \in Nat \ {0}
  /\ Faults \subseteq FaultKinds /\ MaxFaults \in Nat

\* Mutant of KeyOf: the payloads of a bulk call share its key.
BaseKeyOf == [j \in Ids |-> <<BaseKey[j[1]]>>]

\* enqueueBulk makes a key of its own for every payload.
KeyOf ==
  [j \in Ids |-> IF j[1] \in Bulk THEN <<BaseKey[j[1]], j[2]>> ELSE <<BaseKey[j[1]]>>]

Keys == {KeyOf[j] : j \in Ids}

MaxTries == RetryLimit + 1 + Cardinality(Controls)

VARIABLES
  call,     \* the calls of publishers: the payload they are at, and where
  answer,   \* per payload, the job that the call was answered with
  row,      \* the JobMetadata rows
  job,      \* the jobs of pg-boss
  try,      \* per job and number of a try, where its handler is
  control,  \* the calls of cancel and retry, between pg-boss and the row
  marks,    \* history: what has happened to a job that its row may not tell
  faults    \* the number of faults so far

vars == <<call, answer, row, job, try, control, marks, faults>>

Statuses == {"QUEUED", "RUNNING", "COMPLETED", "FAILED", "CANCELLED"}
Terminal == {"completed", "failed", "cancelled"}
AtWork == {"picked", "running", "returned", "threw", "acks", "nacks"}
Marks == {"lost", "late", "cancel", "early", "retry"}

NoRow == [status |-> "NONE", attempts |-> 0]
Unsent == [state |-> "unsent", tries |-> 0, extra |-> 0]
NoAnswer == << >>

HasRow(j) == row[j].status # "NONE"

TypeOK ==
  /\ \A c \in Callers :
       /\ call[c].at \in 1 .. Items[c]
       /\ call[c].pc \in {"reserve", "find", "send", "withdraw",
                          "returned", "threw", "gone"}
  /\ answer \in [Ids -> Ids \cup {NoAnswer}]
  /\ row \in [Ids -> [status : Statuses \cup {"NONE"}, attempts : 0 .. MaxTries]]
  /\ job \in [Ids -> [state : {"unsent", "queued", "active"} \cup Terminal,
                      tries : 0 .. MaxTries, extra : 0 .. Cardinality(Controls)]]
  /\ try \in [Ids -> [1 .. MaxTries -> AtWork \cup {"none", "over"}]]
  /\ control \in [Controls -> {"idle", "cancel", "retry", "done"}]
  /\ marks \in [Ids -> SUBSET Marks]
  /\ faults \in 0 .. MaxFaults

Init ==
  /\ call = [c \in Callers |-> [at |-> 1, pc |-> "reserve"]]
  /\ answer = [j \in Ids |-> NoAnswer]
  /\ row = [j \in Ids |-> NoRow]
  /\ job = [j \in Ids |-> Unsent]
  /\ try = [j \in Ids |-> [t \in 1 .. MaxTries |-> "none"]]
  /\ control = [x \in Controls |-> "idle"]
  /\ marks = [j \in Ids |-> {}]
  /\ faults = 0

Fault(kind) == kind \in Faults /\ faults < MaxFaults /\ faults' = faults + 1

NoFault == UNCHANGED faults

Mark(j, m) == marks' = [marks EXCEPT ![j] = @ \cup {m}]
-----------------------------------------------------------------------------
(***************************************************************************)
(* Publishers: send, once for every payload.                               *)
(***************************************************************************)
queueSide == <<job, try, control, marks>>

\* The payload that a call is at, and the id it draws for it.
Current(c) == <<c, call[c].at>>

Goes(c, pc) == call' = [call EXCEPT ![c].pc = pc]

\* The row that holds a key: the index on queue, workspace and key is unique.
Holds(l, k) == HasRow(l) /\ KeyOf[l] = k

\* send returns the job l; enqueueBulk goes on to the next payload.
Answer(c, l) ==
  /\ answer' = [answer EXCEPT ![Current(c)] = l]
  /\ call' = [call EXCEPT ![c] =
                IF @.at < Items[c] THEN [at |-> @.at + 1, pc |-> "reserve"]
                                   ELSE [at |-> @.at, pc |-> "returned"]]

\* The call throws; the payloads that were left are not sent.
Throws(c) == Goes(c, "threw") /\ UNCHANGED answer

\* Mutant of KeyIsFree: no unique index.
KeyIsFreeAlways(k) == TRUE

KeyIsFree(k) == \A l \in Ids : ~Holds(l, k)

\* reserveMetadata creates the row.
Created(c) == row' = [row EXCEPT ![Current(c)] = [status |-> "QUEUED", attempts |-> 0]]

ReserveRow(c) ==
  /\ call[c].pc = "reserve" /\ KeyIsFree(KeyOf[Current(c)])
  /\ Created(c)
  /\ Goes(c, "send")
  /\ NoFault /\ UNCHANGED <<answer, queueSide>>

\* The create fails, on the unique index or for another reason, perhaps after
\* the row was written.
ReserveFails(c) ==
  /\ call[c].pc = "reserve"
  /\ \/ ~KeyIsFree(KeyOf[Current(c)]) /\ NoFault /\ UNCHANGED row
     \/ KeyIsFree(KeyOf[Current(c)]) /\ Fault("database") /\ (UNCHANGED row \/ Created(c))
  /\ Goes(c, "find")
  /\ UNCHANGED <<answer, queueSide>>

\* Then the row that holds the key is looked up, in a statement of its own.
Find(c) ==
  /\ call[c].pc = "find"
  /\ \E l \in Ids :
       /\ Holds(l, KeyOf[Current(c)])
       /\ IF l = Current(c) THEN Goes(c, "send") /\ UNCHANGED answer ELSE Answer(c, l)
  /\ NoFault /\ UNCHANGED <<row, queueSide>>

FindFails(c) ==
  /\ call[c].pc = "find"
  /\ \/ KeyIsFree(KeyOf[Current(c)]) /\ NoFault
     \/ Fault("database")
  /\ Throws(c)
  /\ UNCHANGED <<row, queueSide>>

Accepted(j) == job' = [job EXCEPT ![j].state = "queued"]

\* boss.send accepts the job.
Send(c) ==
  /\ call[c].pc = "send"
  /\ Accepted(Current(c))
  /\ Answer(c, Current(c))
  /\ NoFault /\ UNCHANGED <<row, try, control, marks>>

\* boss.send throws, or answers with no id or with another one; it may throw
\* although pg-boss has the job, when the answer is lost.
SendFails(c) ==
  /\ call[c].pc = "send"
  /\ \/ Fault("send") /\ UNCHANGED job
     \/ Fault("answer") /\ Accepted(Current(c))
  /\ Goes(c, "withdraw")
  /\ UNCHANGED <<answer, row, try, control, marks>>

\* The catch block deletes the row; an error of that is ignored.
Withdraw(c) ==
  /\ call[c].pc = "withdraw"
  /\ \/ row' = [row EXCEPT ![Current(c)] = NoRow] /\ NoFault
     \/ UNCHANGED row /\ Fault("delete")
  /\ Throws(c)
  /\ UNCHANGED queueSide

\* The process of the publisher dies.
CallerDies(c) ==
  /\ call[c].pc \in {"reserve", "find", "send", "withdraw"} /\ Fault("caller")
  /\ Goes(c, "gone")
  /\ UNCHANGED <<answer, row, queueSide>>

Publish(c) ==
  \/ ReserveRow(c) \/ ReserveFails(c) \/ Find(c) \/ FindFails(c)
  \/ Send(c) \/ SendFails(c) \/ Withdraw(c) \/ CallerDies(c)
-----------------------------------------------------------------------------
(***************************************************************************)
(* pg-boss and the workers: a try of a job is one run of processTrackedJob.*)
(***************************************************************************)
publishers == <<call, answer, control>>

\* The try that pg-boss waits for.
IsCurrent(j, t) == job[j].state = "active" /\ job[j].tries = t

TryGoes(j, t, pc) == try' = [try EXCEPT ![j][t] = pc]

\* Mutant of AfterFailure: the limit counts the tries, not the retries.
AfterFailureOnceMore(j) ==
  IF job[j].tries <= RetryLimit + 1 + job[j].extra THEN "queued" ELSE "failed"

\* Mutant of AfterFailure: the job is left as it is.
AfterFailureStuck(j) == "active"

\* What pg-boss does with a job whose try has failed.
AfterFailure(j) ==
  IF job[j].tries <= RetryLimit + job[j].extra THEN "queued" ELSE "failed"

TryFailed(j) == job' = [job EXCEPT ![j].state = AfterFailure(j)]

\* A worker that polls for a job has a handler to spare.
PickUp(j) ==
  /\ job[j].state = "queued"
  /\ Cardinality({l \in Ids : job[l].state = "active"}) < Capacity
  /\ job' = [job EXCEPT ![j] = [state |-> "active", tries |-> @.tries + 1, extra |-> @.extra]]
  /\ TryGoes(j, job[j].tries + 1, "picked")
  /\ NoFault /\ UNCHANGED <<publishers, row, marks>>

\* Mutant of Started: the number of attempts starts again.
StartedAfresh(j) == [status |-> "RUNNING", attempts |-> 1]

\* The row of a job that is being retried counts on.
Started(j) == [status |-> "RUNNING", attempts |-> row[j].attempts + 1]

\* The first update, and the task begins.
Start(j, t) ==
  /\ try[j][t] = "picked" /\ HasRow(j)
  /\ row' = [row EXCEPT ![j] = Started(j)]
  /\ TryGoes(j, t, "running")
  /\ NoFault /\ UNCHANGED <<publishers, job, marks>>

TaskEnds(j, t) ==
  /\ try[j][t] = "running"
  /\ \E end \in {"returned", "threw"} : TryGoes(j, t, end)
  /\ NoFault /\ UNCHANGED <<publishers, row, job, marks>>

\* Mutant of Ending: the catch block writes no status.
EndingOfReturns(j, t) ==
  IF try[j][t] = "returned" THEN "COMPLETED" ELSE row[j].status

\* What the last update writes.
Ending(j, t) == IF try[j][t] = "returned" THEN "COMPLETED" ELSE "FAILED"

\* The last update: COMPLETED after the task, FAILED in the catch block.
Finish(j, t) ==
  /\ try[j][t] \in {"returned", "threw"} /\ HasRow(j)
  /\ row' = [row EXCEPT ![j].status = Ending(j, t)]
  /\ TryGoes(j, t, IF try[j][t] = "returned" THEN "acks" ELSE "nacks")
  /\ NoFault /\ UNCHANGED <<publishers, job, marks>>

\* An update finds no row, or the database fails.  The update to COMPLETED is
\* in the try block: when it fails, the catch block still writes FAILED.
UpdateFails(j, t) ==
  /\ try[j][t] \in {"picked", "returned", "threw"}
  /\ \/ ~HasRow(j) /\ NoFault /\ UNCHANGED marks
     \/ HasRow(j) /\ Fault("database") /\ Mark(j, "lost")
  /\ TryGoes(j, t, IF try[j][t] = "returned" THEN "threw" ELSE "nacks")
  /\ UNCHANGED <<publishers, row, job>>

\* The handler has returned or thrown.  pg-boss heeds the try it waits for.
Report(j, t) ==
  /\ try[j][t] \in {"acks", "nacks"}
  /\ TryGoes(j, t, "over")
  /\ \/ ~IsCurrent(j, t) /\ UNCHANGED job
     \/ IsCurrent(j, t) /\ try[j][t] = "nacks" /\ TryFailed(j)
     \/ /\ IsCurrent(j, t) /\ try[j][t] = "acks"
        /\ job' = [job EXCEPT ![j].state = "completed"]
  /\ NoFault /\ UNCHANGED <<publishers, row, marks>>

\* The worker dies.
Crash(j, t) ==
  /\ try[j][t] \in AtWork /\ Fault("crash")
  /\ TryGoes(j, t, "over")
  /\ Mark(j, "lost")
  /\ UNCHANGED <<publishers, row, job>>

\* pg-boss misses the heartbeats of a worker that died.
Reap(j) ==
  /\ \E t \in 1 .. MaxTries : IsCurrent(j, t) /\ try[j][t] = "over"
  /\ TryFailed(j)
  /\ NoFault /\ UNCHANGED <<publishers, row, try, marks>>

\* The job expires: the try counts as failed, but its handler goes on.
Expire(j) ==
  /\ \E t \in 1 .. MaxTries : IsCurrent(j, t) /\ try[j][t] \in AtWork
  /\ Fault("expire")
  /\ TryFailed(j)
  /\ Mark(j, "late")
  /\ UNCHANGED <<publishers, row, try>>

Handle(j, t) ==
  Start(j, t) \/ TaskEnds(j, t) \/ Finish(j, t) \/ UpdateFails(j, t) \/ Report(j, t)

Work(j) ==
  \/ PickUp(j) \/ Reap(j) \/ Expire(j)
  \/ \E t \in 1 .. MaxTries : Handle(j, t) \/ Crash(j, t)
-----------------------------------------------------------------------------
(***************************************************************************)
(* Operators: cancel and retry.                                            *)
(***************************************************************************)
others == <<call, answer, try>>

\* getStatus, which asks for a row, and the call of pg-boss.
Asks(x, op) ==
  /\ control[x] = "idle" /\ HasRow(Subject[x])
  /\ control' = [control EXCEPT ![x] = op]
  /\ NoFault /\ UNCHANGED <<others, row>>

\* Mutant of Cancelled: a job that waits is not cancelled.
CancelledIfActive(state) == IF state = "active" THEN "cancelled" ELSE state

\* boss.cancel: no effect on a job that has ended, or is not there yet.
Cancelled(state) == IF state \in {"queued", "active"} THEN "cancelled" ELSE state

BossCancel(x) ==
  /\ Asks(x, "cancel")
  /\ job' = [job EXCEPT ![Subject[x]].state = Cancelled(@)]
  /\ Mark(Subject[x], IF job[Subject[x]].state = "unsent" THEN "early" ELSE "cancel")

\* boss.retry: a failed job is tried once more.
BossRetry(x) ==
  /\ Asks(x, "retry")
  /\ job' = IF job[Subject[x]].state = "failed"
            THEN [job EXCEPT ![Subject[x]] =
                    [state |-> "queued", tries |-> @.tries, extra |-> @.extra + 1]]
            ELSE job
  /\ Mark(Subject[x], "retry")

\* The update of the row (it throws when the row is gone).
ControlRow(x) ==
  /\ control[x] \in {"cancel", "retry"}
  /\ row' = IF HasRow(Subject[x])
            THEN [row EXCEPT ![Subject[x]].status =
                    IF control[x] = "cancel" THEN "CANCELLED" ELSE "QUEUED"]
            ELSE row
  /\ control' = [control EXCEPT ![x] = "done"]
  /\ NoFault /\ UNCHANGED <<others, job, marks>>

ControlDies(x) ==
  /\ control[x] \in {"cancel", "retry"} /\ Fault("caller")
  /\ control' = [control EXCEPT ![x] = "done"]
  /\ Mark(Subject[x], "lost")
  /\ UNCHANGED <<others, row, job>>

Operate(x) == BossCancel(x) \/ BossRetry(x) \/ ControlRow(x) \/ ControlDies(x)
-----------------------------------------------------------------------------
Next ==
  \/ \E c \in Callers : Publish(c)
  \/ \E j \in Ids : Work(j)
  \/ \E x \in Controls : Operate(x)

Spec == Init /\ [][Next]_vars

\* While there is something left to do for the workers, or for a cancel or retry
\* that has begun, some of it is done: workers poll, tasks end, and the death of a
\* worker is noticed.
Progress ==
  \/ \E j \in Ids : PickUp(j) \/ Reap(j) \/ \E t \in 1 .. MaxTries : Handle(j, t)
  \/ \E x \in Controls : ControlRow(x)

FairSpec == Spec /\ WF_vars(Progress)
-----------------------------------------------------------------------------
(***************************************************************************)
(* Properties.                                                             *)
(***************************************************************************)
\* A publisher has withdrawn the row of j, or will.
Withdrawn(j) ==
  /\ call[j[1]].at = j[2]
  /\ \/ call[j[1]].pc = "withdraw"
     \/ call[j[1]].pc \in {"threw", "gone"} /\ ~HasRow(j)

\* "Duplicate keyed sends return existing job metadata": what a publisher was
\* answered with is a job of its key that has a row, unless the call that made
\* the row withdraws it, and two such answers for one key name one job.
AnswersStand ==
  \A j \in Ids : LET l == answer[j] IN
    l # NoAnswer =>
      /\ KeyOf[l] = KeyOf[j] /\ (HasRow(l) \/ Withdrawn(l))
      /\ \A i \in Ids : answer[i] # NoAnswer /\ KeyOf[i] = KeyOf[j]
           => answer[i] = l \/ Withdrawn(l) \/ Withdrawn(answer[i])

\* Every payload of a bulk call has a job of its own.
BulkIsNotMerged ==
  \A j, l \in Ids : j[1] = l[1] /\ j # l /\ answer[j] # NoAnswer
                      => answer[j] # answer[l]

\* pg-boss has one job for a key, but for jobs whose publisher lost the answer.
OneJobPerKey ==
  \A j, l \in Ids :
    /\ KeyOf[j] = KeyOf[l] /\ j # l
    /\ job[j].state # "unsent" /\ job[l].state # "unsent"
    => answer[j] # j \/ answer[l] # l

\* The attempts that the row counts are the tries that pg-boss counts, but for
\* those whose first update has yet to come, or was lost: "records every attempt".
AttemptsAreTries ==
  \A j \in Ids : HasRow(j) =>
    LET waiting == Cardinality({t \in 1 .. MaxTries : try[j][t] = "picked"})
    IN /\ row[j].attempts + waiting <= job[j].tries
       /\ "lost" \notin marks[j] => row[j].attempts + waiting = job[j].tries

Executes(j) == \E t \in 1 .. MaxTries : try[j][t] \in {"running", "returned", "threw"}

\* When nothing came in between, the row tells what pg-boss knows: it shows
\* RUNNING while the task runs and COMPLETED or FAILED after it has ended so.
\* A lost update or a crash does not hide a completion.
StatusAgrees ==
  \A j \in Ids : HasRow(j) =>
    /\ marks[j] = {} =>
         /\ row[j].status = "RUNNING" <=> Executes(j)
         /\ job[j].state = "queued" =>
              row[j].status = IF job[j].tries = 0 THEN "QUEUED" ELSE "FAILED"
         /\ job[j].state = "failed" => row[j].status = "FAILED"
    /\ marks[j] \subseteq {"lost"} /\ job[j].state = "completed"
         => row[j].status = "COMPLETED"

\* A row that says CANCELLED is of a job that will not be tried again, unless it
\* was cancelled before it was sent or somebody asked for a retry.
CancelStands ==
  \A j \in Ids :
    row[j].status = "CANCELLED" /\ marks[j] \cap {"early", "retry"} = {}
      => job[j].state \in Terminal

\* The entry of a job in the table that Campaign and Discovery build on.
EntryOf(j) ==
  [state |-> CASE job[j].state = "unsent" -> "reserved"
               [] job[j].state = "completed" -> "done"
               [] job[j].state \in {"failed", "cancelled"} -> "dead"
               [] OTHER -> job[j].state,
   tries |-> job[j].tries - job[j].extra]

\* The table, by keys.
Entry(k) == IF KeyIsFree(k) THEN NoJob ELSE EntryOf(CHOOSE l \in Ids : Holds(l, k))

Table == INSTANCE KeyedJobs WITH
           table <- [k \in Keys |-> Entry(k)],
           LostAnswers <- "answer" \in Faults

\* Rows and jobs together behave like the table.
TableRefinement == Table!TableSpec

\* A job that pg-boss has accepted comes to an end, also when it is tried again,
\* and its row comes to say so, unless an update of it was lost, somebody reset
\* it, or the publisher withdrew it.
JobsEnd ==
  \A j \in Ids :
    job[j].state = "queued" ~>
      /\ job[j].state \in Terminal
      /\ \/ row[j].status \in {"COMPLETED", "FAILED", "CANCELLED"} \/ ~HasRow(j)
         \/ marks[j] \cap {"lost", "retry", "early"} # {}
=============================================================================
