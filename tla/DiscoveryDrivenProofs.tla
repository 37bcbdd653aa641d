------------------------- MODULE DiscoveryDrivenProofs -------------------------
(***************************************************************************)
(* That a waiting task has somebody to drive it, proved for any numbers of *)
(* tasks, attempts, planners, requests, pages, retries and generations.    *)
(*                                                                         *)
(* What drives a task changes with almost every step: a job becomes an     *)
(* attempt, an attempt a continuation or a retry, a plan job a planner and *)
(* then its list.  Held names the drivers precisely enough for each of     *)
(* them to be followed by another one; WatchInv says why a key that is     *)
(* already taken is in good hands.                                         *)
(***************************************************************************)
EXTENDS DiscoveryProofs

\* The steps at which a discovery handler has passed the check of the generation.
AtWorkSteps == {"claim"} \cup ClaimSteps

\* The failures that are left out: WaitingIsDriven fails with "orphan", with "expire" and a
\* provider that fails, and with "ack" and a crash.
QuietFaults == "orphan" \notin Faults /\ "expire" \notin Faults /\ "ack" \notin Faults

\* Discovery begins, or begins again, when no handler of an earlier generation is at
\* work.  A resume that meets one may lose the task.
CalmStart ==
  campaign.status # "DISCOVERING" /\ campaign'.status = "DISCOVERING"
    => \A a \in Attempts : attempt[a].pc \notin AtWorkSteps

\* The row has gone on to a later page, or is at its end.
Passed(k) == task[k.task].page > k.page \/ task[k.task].status = "COMPLETED"

\* Nothing is left to be done with this job in this generation.
Over(k) ==
  k.version = campaign.version =>
    task[k.task].page > k.page \/ task[k.task].status \notin Unfinished

\* A page that has been tried was tried by its job.
Begun(k) ==
  k.version = campaign.version /\ k.page = task[k.task].page /\ task[k.task].status # "PENDING"
    => jobs[k].state \in {"queued", "active", "done", "dead"}

WatchedAttempt(r) ==
  /\ r.pc # "idle" => r.live
  /\ r.pc \in AtWorkSteps /\ campaign.status = "DISCOVERING" => r.key.version = campaign.version
  /\ r.pc \in {"reserve", "send", "finish"} => Passed(r.key)
  /\ r.pc \in {"reserve", "send"} =>
       r.target.task = r.key.task /\ r.target.version = r.key.version /\ Begun(r.target)

ActiveHeld(k) == \E a \in Attempts : attempt[a].live /\ attempt[a].key = k

ReservedHeld(k) ==
  \/ \E a \in Attempts : attempt[a].pc = "send" /\ attempt[a].target = k
  \/ \E p \in Planners : planner[p].pc = "send" /\ fanout[p].key = k

WatchedJob(k) ==
  /\ jobs[k].state = "active" => ActiveHeld(k)
  /\ jobs[k].state = "reserved" => ReservedHeld(k)
  /\ jobs[k].state = "done" => Over(k)

WatchInv ==
  /\ \A a \in Attempts : WatchedAttempt(attempt[a])
  /\ \A k \in Keys : WatchedJob(k)
  /\ \A p \in Planners : planner[p].pc # "idle" => planner[p].live
-----------------------------------------------------------------------------
\* The drivers of a task: a job that waits, or that an operator sees, ...
JobCarries(k, t) ==
  /\ k.task = t /\ k.version = campaign.version
  /\ \/ jobs[k].state = "dead"
     \/ /\ jobs[k].state = "queued"
        /\ task[t].status = "FAILED" => k.page = task[t].page

\* ... an attempt that will claim the page, give its job back or schedule the page, ...
AttemptCarries(r, t) ==
  \/ /\ r.pc \in {"read", "claim", "record"}
     /\ r.key.task = t /\ r.key.version = campaign.version
     /\ r.pc = "claim" \/ task[t].status = "FAILED" => r.key.page = task[t].page
  \/ /\ r.pc \in {"reserve", "send"}
     /\ task[t].status # "FAILED"
     /\ r.target = [task |-> t, version |-> campaign.version, page |-> task[t].page]

\* ... a planner that will list the task or has it on its list.
PlannerCarries(r, todo, t) ==
  \/ r.pc \in {"load", "persist", "reload", "handoff", "confirm"}
  \/ r.pc = "tasks" /\ r.version = campaign.version
  \/ /\ r.pc \in {"schedule", "send"}
     /\ [task |-> t, version |-> campaign.version, page |-> task[t].page] \in todo

PlanWaits == \E v \in Versions : planJobs[v].state \in {"queued", "dead"}

Held(t) ==
  \/ \E k \in Keys : JobCarries(k, t)
  \/ \E a \in Attempts : AttemptCarries(attempt[a], t)
  \/ \E p \in Planners : PlannerCarries(planner[p], fanout[p].todo, t)
  \/ PlanWaits

HeldInv ==
  campaign.status = "DISCOVERING" =>
    \A t \in Tasks : task[t].status \in Unfinished => Held(t)

\* A task that is held is driven.
LEMMA HeldIsDriven == DiscoveryInv /\ WatchInv /\ HeldInv => WaitingIsDriven
<1> SUFFICES ASSUME DiscoveryInv, WatchInv, NEW t \in Tasks, Held(t)
             PROVE  Driven(t)
  BY DEF WaitingIsDriven, HeldInv
<1>1. CASE \E k \in Keys : JobCarries(k, t)
  BY <1>1 DEF JobCarries, Driven
<1>2. ASSUME NEW a \in Attempts, AttemptCarries(attempt[a], t) PROVE Driven(t)
  <2>1. WatchedAttempt(attempt[a])
    BY DEF WatchInv
  <2>2. attempt[a].key.task = t /\ attempt[a].key.version = campaign.version
    BY <1>2, <2>1 DEF AttemptCarries, WatchedAttempt
  <2> QED
    BY <2>2 DEF Driven
<1>3. CASE \E p \in Planners : PlannerCarries(planner[p], fanout[p].todo, t)
  <2>1. PICK p \in Planners : planner[p].pc \in {"load", "persist", "reload", "handoff",
                                                 "confirm", "tasks", "schedule", "send"}
    BY <1>3 DEF PlannerCarries
  <2> QED
    BY <2>1 DEF Driven
<1>4. CASE PlanWaits
  BY <1>4 DEF PlanWaits, Driven
<1> QED
  BY <1>1, <1>2, <1>3, <1>4 DEF Held

\* What a reached key is.
LEMMA ReachedKey ==
  ASSUME DiscoveryInv, NEW k \in Reached
  PROVE  /\ k \in Keys /\ k.task \in Tasks /\ k.page \in Nat \ {0} /\ k.version \in Nat
         /\ task[k.task] \in TaskRows /\ task[k.task].page \in Nat /\ k.page <= task[k.task].page
         /\ k.version <= campaign.version /\ campaign.version \in Nat
         /\ k.version = campaign.version => campaign.status = "DISCOVERING"
         /\ k = [task |-> k.task, version |-> k.version, page |-> k.page]
BY DEF DiscoveryInv, CampaignInv, CampaignTypeOK, TaskShape, TaskRows, Reached, Keys, Pages,
       PastVersions, Versions

\* The keys that the handlers and the queue know.
LEMMA KnownKeys ==
  ASSUME DiscoveryInv
  PROVE  /\ \A a \in Attempts : attempt[a].pc # "idle" => attempt[a].key \in Reached
         /\ \A a \in Attempts : attempt[a].pc \in {"reserve", "send"} => attempt[a].target \in Reached
         /\ \A k \in Keys : jobs[k].state # "none" => k \in Reached
BY DEF DiscoveryInv, AttemptInv, Remembers, JobsInv
-----------------------------------------------------------------------------
(***************************************************************************)
(* Steps of an attempt: what is watched.                                   *)
(***************************************************************************)
\* What a step may do to the rows and to the jobs that others look at.
RowsGoOn(a) ==
  /\ \A t \in Tasks : /\ task'[t].page >= task[t].page
                      /\ task[t].status = "COMPLETED" => task'[t].status = "COMPLETED"
  /\ \A k \in Keys : jobs[k].state = "done" /\ Over(k) => Over(k)'
  /\ \A b \in Attempts : b # a /\ attempt[b].pc \in {"reserve", "send"} /\ Begun(attempt[b].target)
                           => Begun(attempt[b].target)'

\* A step that leaves the rows alone.
LEMMA RowsStay ==
  ASSUME DiscoveryInv, NEW a \in Attempts, task' = task, campaign' = campaign,
         \A b \in Attempts : b # a => attempt'[b] = attempt[b],
         \A k \in Keys : jobs[k].state \in {"queued", "active", "done", "dead"}
                           => jobs'[k].state \in {"queued", "active", "done", "dead"}
  PROVE  RowsGoOn(a)
<1>1. \A t \in Tasks : task'[t].page >= task[t].page
  BY DEF DiscoveryInv, TaskShape, TaskRows, Pages
<1>2. \A k \in Keys : Over(k) => Over(k)'
  BY DEF Over
<1>3. \A b \in Attempts : b # a /\ attempt[b].pc \in {"reserve", "send"} =>
        attempt[b].target \in Keys /\ attempt'[b] = attempt[b]
  BY KnownKeys DEF Reached
<1>4. \A b \in Attempts : b # a /\ attempt[b].pc \in {"reserve", "send"} /\ Begun(attempt[b].target)
                            => Begun(attempt[b].target)'
  BY <1>3 DEF Begun
<1> QED
  BY <1>1, <1>2, <1>4 DEF RowsGoOn

\* The attempts: the one that moves, and the others.
LEMMA AttemptsWatched ==
  ASSUME DiscoveryInv, WatchInv, TaskShape', campaign' = campaign,
         NEW a \in Attempts, RowsGoOn(a),
         \A b \in Attempts : b # a => attempt'[b] = attempt[b],
         WatchedAttempt(attempt[a])'
  PROVE  \A b \in Attempts : WatchedAttempt(attempt[b])'
<1> SUFFICES ASSUME NEW b \in Attempts, b # a PROVE WatchedAttempt(attempt[b])'
  OBVIOUS
<1>1. attempt'[b] = attempt[b] /\ WatchedAttempt(attempt[b])
  BY DEF WatchInv
<1>2. attempt[b].pc \in {"reserve", "send", "finish"} => Passed(attempt[b].key)'
  <2> SUFFICES ASSUME attempt[b].pc \in {"reserve", "send", "finish"}
               PROVE  Passed(attempt[b].key)'
    OBVIOUS
  <2>1. attempt[b].key \in Reached
    BY KnownKeys
  <2> DEFINE k == attempt[b].key
  <2>2. k.task \in Tasks /\ k.page \in Nat /\ task[k.task].page \in Nat
    BY <2>1, ReachedKey
  <2>3. Passed(k) /\ attempt'[b].key = k
    BY <1>1 DEF WatchedAttempt
  <2>4. /\ task'[k.task].page >= task[k.task].page
        /\ task[k.task].status = "COMPLETED" => task'[k.task].status = "COMPLETED"
    BY <2>2 DEF RowsGoOn
  <2>5. task'[k.task].page \in Nat
    BY <2>2 DEF TaskShape, TaskRows, Pages
  <2> QED
    BY <2>2, <2>3, <2>4, <2>5 DEF Passed
<1>3. attempt[b].pc \in {"reserve", "send"} => Begun(attempt[b].target)'
  BY <1>1 DEF WatchedAttempt, RowsGoOn
<1> QED
  BY <1>1, <1>2, <1>3 DEF WatchedAttempt

\* A job stays in its state, and with the attempt that moves if that one held it.
Keeps(a, k) ==
  /\ jobs'[k].state = jobs[k].state
  /\ attempt[a].live /\ attempt[a].key = k /\ jobs[k].state = "active"
       => attempt'[a].live /\ attempt'[a].key = k
  /\ attempt[a].pc = "send" /\ attempt[a].target = k /\ jobs[k].state = "reserved"
       => attempt'[a].pc = "send" /\ attempt'[a].target = k

LEMMA JobsWatched ==
  ASSUME WatchInv, NEW a \in Attempts, RowsGoOn(a), UNCHANGED <<planner, fanout>>,
         \A b \in Attempts : b # a => attempt'[b] = attempt[b],
         NEW k \in Keys, Keeps(a, k)
  PROVE  WatchedJob(k)'
<1>1. WatchedJob(k) /\ jobs'[k].state = jobs[k].state
  BY DEF WatchInv, Keeps
<1>2. ASSUME jobs[k].state = "active" PROVE ActiveHeld(k)'
  <2>1. PICK b \in Attempts : attempt[b].live /\ attempt[b].key = k
    BY <1>1, <1>2 DEF WatchedJob, ActiveHeld
  <2>2. attempt'[b].live /\ attempt'[b].key = k
    BY <1>2, <2>1 DEF Keeps
  <2> QED
    BY <2>2 DEF ActiveHeld
<1>3. ASSUME jobs[k].state = "reserved" PROVE ReservedHeld(k)'
  <2>1. ASSUME NEW b \in Attempts, attempt[b].pc = "send", attempt[b].target = k
        PROVE  ReservedHeld(k)'
    <3>1. attempt'[b].pc = "send" /\ attempt'[b].target = k
      BY <1>3, <2>1 DEF Keeps
    <3> QED
      BY <3>1 DEF ReservedHeld
  <2>2. CASE \E p \in Planners : planner[p].pc = "send" /\ fanout[p].key = k
    BY <2>2 DEF ReservedHeld
  <2> QED
    BY <1>1, <1>3, <2>1, <2>2 DEF WatchedJob, ReservedHeld
<1>4. jobs[k].state = "done" => Over(k)'
  BY <1>1 DEF WatchedJob, RowsGoOn
<1> QED
  BY <1>1, <1>2, <1>3, <1>4 DEF WatchedJob

\* All of it, for a step of an attempt.
LEMMA StepWatched ==
  ASSUME DiscoveryInv, WatchInv, TaskShape', UNCHANGED <<campaignVars, fanout>>,
         NEW a \in Attempts, RowsGoOn(a),
         \A b \in Attempts : b # a => attempt'[b] = attempt[b],
         WatchedAttempt(attempt[a])',
         \A k \in Keys : Keeps(a, k) \/ WatchedJob(k)'
  PROVE  WatchInv'
<1>1. UNCHANGED <<campaign, planner>>
  BY DEF campaignVars
<1>2. \A b \in Attempts : WatchedAttempt(attempt[b])'
  BY <1>1, AttemptsWatched
<1>3. \A k \in Keys : WatchedJob(k)'
  BY <1>1, JobsWatched
<1>4. \A p \in Planners : planner'[p].pc # "idle" => planner'[p].live
  BY <1>1 DEF WatchInv
<1> QED
  BY <1>2, <1>3, <1>4 DEF WatchInv

\* Who drives a task that stays as it is, when one attempt moves.
LEMMA HeldStays ==
  ASSUME NEW a \in Attempts, NEW t \in Tasks, Held(t), UNCHANGED <<campaignVars, fanout>>,
         task'[t] = task[t], \A b \in Attempts : b # a => attempt'[b] = attempt[b],
         \A k \in Keys : JobCarries(k, t) => Held(t)',
         AttemptCarries(attempt[a], t) => Held(t)'
  PROVE  Held(t)'
<1>1. UNCHANGED <<campaign, planner, planJobs>>
  BY DEF campaignVars
<1>2. CASE \E k \in Keys : JobCarries(k, t)
  BY <1>2
<1>3. ASSUME NEW b \in Attempts, b # a, AttemptCarries(attempt[b], t) PROVE Held(t)'
  <2>1. attempt'[b] = attempt[b]
    BY <1>3
  <2>2. AttemptCarries(attempt[b], t)'
    BY <1>1, <1>3, <2>1 DEF AttemptCarries
  <2> QED
    BY <2>2 DEF Held
<1>4. ASSUME NEW p \in Planners, PlannerCarries(planner[p], fanout[p].todo, t) PROVE Held(t)'
  <2>1. PlannerCarries(planner[p], fanout[p].todo, t)'
    BY <1>1, <1>4 DEF PlannerCarries
  <2> QED
    BY <2>1 DEF Held
<1>5. CASE PlanWaits
  BY <1>1, <1>5 DEF PlanWaits, Held
<1> QED
  BY <1>2, <1>3, <1>4, <1>5 DEF Held

\* A handler is left.  What it carried is carried by its job, which waits for its next
\* try or is dead-lettered.
LEMMA LeavesDriven ==
  ASSUME DiscoveryInv, DiscoveryInv', WatchInv, HeldInv, UNCHANGED <<campaignVars, fanout>>,
         NEW a \in Attempts, attempt[a].pc \notin {"idle", "send"}, RowsGoOn(a),
         NEW h, h = attempt[a].key,
         attempt' = [attempt EXCEPT ![a] = IdleAttempt],
         NEW s \in {"done", "queued", "dead"},
         jobs' = IF attempt[a].live THEN [jobs EXCEPT ![h].state = s] ELSE jobs,
         s = "done" => Over(h)',
         \A t \in Tasks : s = "done" /\ task[t].status \in Unfinished
                            /\ campaign.status = "DISCOVERING" => ~AttemptCarries(attempt[a], t),
         \A t \in Tasks : task'[t] # task[t] =>
           /\ s # "done" /\ t = h.task /\ task'[t].page = h.page
           /\ campaign.status = "DISCOVERING" => h.version = campaign.version
  PROVE  WatchInv' /\ HeldInv'
<1>0. h \in Reached /\ h \in Keys
  BY KnownKeys DEF Reached
<1>1. /\ attempt[a].live /\ h \in Reached /\ h \in Keys /\ jobs[h].state = "active"
      /\ UNCHANGED campaign
  BY <1>0 DEF WatchInv, WatchedAttempt, DiscoveryInv, LiveInv, campaignVars
<1>2. \A k \in Keys : jobs'[k].state = IF k = h THEN s ELSE jobs[k].state
  BY <1>1 DEF DiscoveryInv, JobsShape, Jobs
<1>3. \A b \in Attempts : attempt'[b] = IF b = a THEN IdleAttempt ELSE attempt[b]
  BY DEF DiscoveryInv, AttemptShape
<1>4. WatchInv'
  <2>1. WatchedAttempt(attempt[a])'
    BY <1>3 DEF WatchedAttempt, IdleAttempt, AtWorkSteps, ClaimSteps
  <2>2. ASSUME NEW k \in Keys PROVE Keeps(a, k) \/ WatchedJob(k)'
    <3>1. CASE k = h
      BY <1>2, <3>1 DEF WatchedJob
    <3>2. CASE k # h
      BY <1>2, <3>2 DEF Keeps
    <3> QED
      BY <3>1, <3>2
  <2> QED
    BY <1>3, <2>1, <2>2, StepWatched DEF DiscoveryInv
<1>5. ASSUME NEW t \in Tasks, campaign'.status = "DISCOVERING", task'[t].status \in Unfinished
      PROVE  Held(t)'
  <2>1. CASE task'[t] # task[t]
    <3>1. JobCarries(h, t)'
      BY <1>1, <1>2, <1>5, <2>1 DEF JobCarries
    <3> QED
      BY <1>1, <3>1 DEF Held
  <2>2. CASE task'[t] = task[t]
    <3>1. Held(t)
      BY <1>1, <1>5, <2>2 DEF HeldInv
    <3>2. ASSUME NEW k \in Keys, JobCarries(k, t) PROVE Held(t)'
      <4>1. k # h
        BY <1>1, <3>2 DEF JobCarries
      <4>2. JobCarries(k, t)'
        BY <1>1, <1>2, <2>2, <3>2, <4>1 DEF JobCarries
      <4> QED
        BY <4>2 DEF Held
    <3>3. ASSUME AttemptCarries(attempt[a], t) PROVE Held(t)'
      <4>1. s \in {"queued", "dead"}
        BY <1>1, <1>5, <2>2, <3>3
      <4>2. WatchedAttempt(attempt[a])
        BY DEF WatchInv
      <4>3. /\ h.task = t /\ h.version = campaign.version
            /\ task[t].status = "FAILED" => h.page = task[t].page
        BY <3>3, <4>2 DEF AttemptCarries, WatchedAttempt
      <4>4. JobCarries(h, t)'
        BY <1>1, <1>2, <2>2, <4>1, <4>3 DEF JobCarries
      <4> QED
        BY <1>1, <4>4 DEF Held
    <3> QED
      BY <1>3, <2>2, <3>1, <3>2, <3>3, HeldStays
  <2> QED
    BY <2>1, <2>2
<1> QED
  BY <1>4, <1>5 DEF HeldInv

\* The handler returns: nothing is left to be done with its job.
LEMMA ReturnsDriven ==
  ASSUME DiscoveryInv, DiscoveryInv', WatchInv, HeldInv, UNCHANGED <<campaignVars, fanout, task>>,
         NEW a \in Attempts, attempt[a].pc \notin {"idle", "send"}, Returns(a),
         Over(attempt[a].key),
         \A t \in Tasks : task[t].status \in Unfinished /\ campaign.status = "DISCOVERING"
                            => ~AttemptCarries(attempt[a], t)
  PROVE  WatchInv' /\ HeldInv'
<1> PICK h : h = attempt[a].key
  OBVIOUS
<1>1. /\ attempt' = [attempt EXCEPT ![a] = IdleAttempt]
      /\ jobs' = IF attempt[a].live THEN [jobs EXCEPT ![h].state = "done"] ELSE jobs
      /\ UNCHANGED <<campaignVars, fanout>> /\ task' = task /\ campaign' = campaign
  BY DEF Returns, Complete, campaignVars
<1>2. \A b \in Attempts : b # a => attempt'[b] = attempt[b]
  BY <1>1 DEF DiscoveryInv, AttemptShape
<1>3. h \in Keys
  BY KnownKeys DEF Reached
<1>4. \A k \in Keys : jobs[k].state \in {"queued", "active", "done", "dead"}
                        => jobs'[k].state \in {"queued", "active", "done", "dead"}
  BY <1>1, <1>3 DEF DiscoveryInv, JobsShape, Jobs
<1>5. RowsGoOn(a)
  BY <1>1, <1>2, <1>4, RowsStay
<1>6. Over(h)'
  BY <1>1 DEF Over
<1> QED
  BY <1>1, <1>5, <1>6, LeavesDriven

\* It throws: its job is tried again, or dead-lettered.
LEMMA ThrowsDriven ==
  ASSUME DiscoveryInv, DiscoveryInv', WatchInv, HeldInv, UNCHANGED <<campaignVars, fanout>>,
         NEW a \in Attempts, attempt[a].pc \notin {"idle", "send"}, Throws(a), RowsGoOn(a),
         \A t \in Tasks : task'[t] # task[t] =>
           /\ t = attempt[a].key.task /\ task'[t].page = attempt[a].key.page
           /\ campaign.status = "DISCOVERING" => attempt[a].key.version = campaign.version
  PROVE  WatchInv' /\ HeldInv'
<1> PICK h : h = attempt[a].key
  OBVIOUS
<1> PICK s \in {"queued", "dead"} :
      s = IF jobs[h].tries <= RetryLimit THEN "queued" ELSE "dead"
  OBVIOUS
<1>1. /\ attempt' = [attempt EXCEPT ![a] = IdleAttempt]
      /\ jobs' = IF attempt[a].live THEN [jobs EXCEPT ![h].state = s] ELSE jobs
  BY DEF Throws, ThrowsOver, FailTry
<1>2. s \in {"done", "queued", "dead"} /\ s # "done"
  OBVIOUS
<1>3. \A t \in Tasks : task'[t] # task[t] =>
        /\ t = h.task /\ task'[t].page = h.page
        /\ campaign.status = "DISCOVERING" => h.version = campaign.version
  OBVIOUS
<1> QED
  BY <1>1, <1>2, <1>3, LeavesDriven

\* A handler that throws with the rows as they are.
LEMMA FailsDriven ==
  ASSUME DiscoveryInv, DiscoveryInv', WatchInv, HeldInv, UNCHANGED <<campaignVars, fanout, task>>,
         NEW a \in Attempts, attempt[a].pc \notin {"idle", "send"}, Throws(a)
  PROVE  WatchInv' /\ HeldInv'
<1> PICK h : h = attempt[a].key
  OBVIOUS
<1>1. /\ attempt' = [attempt EXCEPT ![a] = IdleAttempt]
      /\ jobs' = IF attempt[a].live
                 THEN [jobs EXCEPT ![h].state = IF jobs[h].tries <= RetryLimit
                                                THEN "queued" ELSE "dead"] ELSE jobs
      /\ task' = task /\ campaign' = campaign
  BY DEF Throws, ThrowsOver, FailTry, campaignVars
<1>2. \A b \in Attempts : b # a => attempt'[b] = attempt[b]
  BY <1>1 DEF DiscoveryInv, AttemptShape
<1>3. h \in Keys
  BY KnownKeys DEF Reached
<1>4. \A k \in Keys : jobs[k].state \in {"queued", "active", "done", "dead"}
                        => jobs'[k].state \in {"queued", "active", "done", "dead"}
  BY <1>1, <1>3 DEF DiscoveryInv, JobsShape, Jobs
<1>5. RowsGoOn(a)
  BY <1>1, <1>2, <1>4, RowsStay
<1> QED
  BY <1>1, <1>5, ThrowsDriven

\* A handler goes on with its job, and the rows stay as they are.
LEMMA GoesOnDriven ==
  ASSUME DiscoveryInv, DiscoveryInv', WatchInv, HeldInv,
         UNCHANGED <<campaignVars, fanout, task, jobs>>,
         NEW a \in Attempts, attempt[a].pc # "send",
         \A b \in Attempts : b # a => attempt'[b] = attempt[b],
         attempt'[a].key = attempt[a].key, attempt'[a].live = attempt[a].live,
         WatchedAttempt(attempt[a])',
         \A t \in Tasks : (campaign.status = "DISCOVERING" /\ task[t].status \in Unfinished
                            /\ AttemptCarries(attempt[a], t)) => Held(t)'
  PROVE  WatchInv' /\ HeldInv'
<1>1. task' = task /\ jobs' = jobs /\ campaign' = campaign /\ UNCHANGED <<campaignVars, fanout>>
  BY DEF campaignVars
<1>2. RowsGoOn(a)
  BY <1>1, RowsStay
<1>3. \A k \in Keys : Keeps(a, k)
  BY <1>1 DEF Keeps
<1>4. WatchInv'
  BY <1>1, <1>2, <1>3, StepWatched DEF DiscoveryInv
<1>5. ASSUME NEW t \in Tasks, campaign'.status = "DISCOVERING", task'[t].status \in Unfinished
      PROVE  Held(t)'
  <2>1. Held(t)
    BY <1>1, <1>5 DEF HeldInv
  <2>2. ASSUME NEW k \in Keys, JobCarries(k, t) PROVE Held(t)'
    <3>1. JobCarries(k, t)'
      BY <1>1, <2>2 DEF JobCarries
    <3> QED
      BY <3>1 DEF Held
  <2>3. AttemptCarries(attempt[a], t) => Held(t)'
    BY <1>1, <1>5
  <2> QED
    BY <1>1, <2>1, <2>2, <2>3, HeldStays
<1> QED
  BY <1>4, <1>5 DEF HeldInv

\* A handler that goes on keeps all but its step.
LEMMA GoesKeeps ==
  ASSUME DiscoveryInv, NEW a \in Attempts, NEW step, Goes(a, step)
  PROVE  /\ \A b \in Attempts : b # a => attempt'[b] = attempt[b]
         /\ attempt'[a].pc = step /\ attempt'[a].key = attempt[a].key
         /\ attempt'[a].live = attempt[a].live /\ attempt'[a].target = attempt[a].target
<1>1. attempt[a] \in AttemptRecords
  BY DEF DiscoveryInv, AttemptShape
<1> QED
  BY <1>1 DEF DiscoveryInv, AttemptShape, AttemptRecords, Goes

\* The steps of a claim, up to the result.
LEMMA ClaimGoesOn ==
  ASSUME DiscoveryInv, DiscoveryInv', WatchInv, HeldInv, NEW a \in Attempts,
         \/ CountRequest(a) \/ CallProvider(a) \/ ProviderFails(a)
         \/ CommitThrows(a) /\ "ack" \notin Faults
  PROVE  WatchInv' /\ HeldInv'
<1>1. UNCHANGED <<campaignVars, fanout, task, jobs>> /\ campaign' = campaign
  BY DEF CountRequest, CallProvider, ProviderFails, CommitThrows, campaignVars
<1>2. attempt[a].pc \in ClaimSteps /\ attempt[a] \in AttemptRecords
  BY DEF CountRequest, CallProvider, ProviderFails, CommitThrows, ClaimSteps, DiscoveryInv,
         AttemptShape
<1>3. /\ \A b \in Attempts : b # a => attempt'[b] = attempt[b]
      /\ attempt'[a].key = attempt[a].key /\ attempt'[a].live = attempt[a].live
      /\ attempt'[a].pc \in ClaimSteps
  <2>1. ASSUME NEW step \in ClaimSteps, Goes(a, step)
        PROVE  /\ \A b \in Attempts : b # a => attempt'[b] = attempt[b]
               /\ attempt'[a].key = attempt[a].key /\ attempt'[a].live = attempt[a].live
               /\ attempt'[a].pc \in ClaimSteps
    BY <2>1, GoesKeeps
  <2>2. CASE CallProvider(a) /\ ~Goes(a, "fail")
    <3>1. PICK r : attempt' = [attempt EXCEPT ![a].pc = "commit", ![a].result = r]
      BY <2>2 DEF CallProvider
    <3> QED
      BY <1>2, <3>1 DEF DiscoveryInv, AttemptShape, AttemptRecords, ClaimSteps
  <2>3. CallProvider(a) \/ Goes(a, "call") \/ Goes(a, "fail") \/ Goes(a, "undo")
    BY DEF CountRequest, ProviderFails, CommitThrows
  <2>4. "call" \in ClaimSteps /\ "fail" \in ClaimSteps /\ "undo" \in ClaimSteps
    BY DEF ClaimSteps
  <2>5. CASE Goes(a, "call")
    BY <2>1, <2>4, <2>5
  <2>6. CASE Goes(a, "fail")
    BY <2>1, <2>4, <2>6
  <2>7. CASE Goes(a, "undo")
    BY <2>1, <2>4, <2>7
  <2> QED
    BY <2>2, <2>3, <2>5, <2>6, <2>7
<1>4. WatchedAttempt(attempt[a])'
  <2>1. WatchedAttempt(attempt[a])
    BY DEF WatchInv
  <2> QED
    BY <1>1, <1>2, <1>3, <2>1 DEF WatchedAttempt, AtWorkSteps, ClaimSteps
<1>5. \A t \in Tasks : (campaign.status = "DISCOVERING" /\ task[t].status \in Unfinished
                         /\ AttemptCarries(attempt[a], t)) => Held(t)'
  BY <1>2 DEF AttemptCarries, ClaimSteps
<1>6. attempt[a].pc # "send"
  BY <1>2 DEF ClaimSteps
<1> QED
  BY <1>1, <1>3, <1>4, <1>5, <1>6, GoesOnDriven

\* The steps at which a handler is left with the rows as they are.
LEMMA LeftDriven ==
  ASSUME DiscoveryInv, DiscoveryInv', WatchInv, HeldInv, NEW a \in Attempts,
         \/ CountRequestFails(a) \/ RecordError(a) \/ Finish(a)
         \/ Dies(a) /\ "orphan" \notin Faults
  PROVE  WatchInv' /\ HeldInv'
<1>1. UNCHANGED <<campaignVars, fanout, task>> /\ attempt[a].pc \notin {"idle", "send"}
  BY DEF CountRequestFails, RecordError, Finish, Dies
<1>2. CASE Throws(a)
  BY <1>1, <1>2, FailsDriven
<1>3. CASE Finish(a)
  <2>1. Returns(a) /\ attempt[a].pc = "finish" /\ WatchedAttempt(attempt[a])
    BY <1>3 DEF Finish, WatchInv
  <2>2. Over(attempt[a].key)
    BY <2>1 DEF WatchedAttempt, Passed, Over, Unfinished
  <2>3. \A t \in Tasks : ~AttemptCarries(attempt[a], t)
    BY <2>1 DEF AttemptCarries
  <2> QED
    BY <1>1, <2>1, <2>2, <2>3, ReturnsDriven
<1> QED
  BY <1>2, <1>3 DEF CountRequestFails, RecordError, Dies

\* What a handler finds when it reads its task: its page to claim, a continuation to
\* repair, or nothing that its job has to do.
LEMMA ReadDriven ==
  ASSUME DiscoveryInv, DiscoveryInv', WatchInv, HeldInv, NEW a \in Attempts, Read(a)
  PROVE  WatchInv' /\ HeldInv'
<1> PICK k : k = attempt[a].key
  OBVIOUS
<1>1. /\ attempt[a].pc = "read" /\ attempt[a].pc \notin {"idle", "send"}
      /\ UNCHANGED <<campaignVars, task, fanout, sources, usage, delivered>>
      /\ UNCHANGED <<campaignVars, fanout, task>> /\ campaign' = campaign
  BY DEF Read, campaignVars
<1>2. /\ attempt[a] \in AttemptRecords /\ attempt[a].live /\ k \in Reached /\ k \in Keys
      /\ k.task \in Tasks /\ k.page \in Nat \ {0} /\ task[k.task].page \in Nat
      /\ k.page <= task[k.task].page /\ task[k.task] \in TaskRows
      /\ k.version = campaign.version => campaign.status = "DISCOVERING"
      /\ k = [task |-> k.task, version |-> k.version, page |-> k.page]
  BY <1>1, KnownKeys, ReachedKey DEF DiscoveryInv, AttemptShape, WatchInv, WatchedAttempt
<1>3. \/ /\ Returns(a)
         /\ \/ ~Current(k) \/ task[k.task].status = "COMPLETED"
            \/ k.page < task[k.task].page /\ ~NeedsRepair(task[k.task])
      \/ Throws(a)
      \/ /\ k.page < task[k.task].page /\ NeedsRepair(task[k.task]) /\ Current(k)
         /\ attempt' = [attempt EXCEPT ![a].pc = "reserve",
                          ![a].target = [k EXCEPT !.page = task[k.task].page]]
         /\ UNCHANGED jobs
      \/ /\ ~(k.page < task[k.task].page) /\ ~(k.page > task[k.task].page) /\ Current(k)
         /\ attempt' = [attempt EXCEPT ![a].pc = "claim", ![a].cursor = task[k.task].cursor]
         /\ UNCHANGED jobs
  BY Zenon DEF Read
<1>4. CASE /\ Returns(a)
           /\ \/ ~Current(k) \/ task[k.task].status = "COMPLETED"
              \/ k.page < task[k.task].page /\ ~NeedsRepair(task[k.task])
  <2>1. Over(k)
    BY <1>2, <1>4 DEF Over, Current, Unfinished
  <2>2. ASSUME NEW t \in Tasks, task[t].status \in Unfinished, campaign.status = "DISCOVERING",
               AttemptCarries(attempt[a], t)
        PROVE  FALSE
    <3>1. /\ k.task = t /\ k.version = campaign.version
          /\ task[t].status = "FAILED" => k.page = task[t].page
      BY <1>1, <2>2 DEF AttemptCarries
    <3>2. k.page < task[t].page /\ task[t].status = "PENDING"
      BY <1>2, <1>4, <2>2, <3>1 DEF Current, Unfinished
    <3>3. task[t].cursor = task[t].page /\ task[t].page # 0
      BY <1>2, <3>1, <3>2 DEF DiscoveryInv, TaskInv, CursorOf
    <3> QED
      BY <1>4, <2>2, <3>1, <3>2, <3>3 DEF Current, Unfinished, NeedsRepair, NoCursor
  <2> QED
    BY <1>1, <1>4, <2>1, <2>2, ReturnsDriven
<1>5. CASE Throws(a)
  BY <1>1, <1>5, FailsDriven
<1>6. CASE /\ k.page < task[k.task].page /\ NeedsRepair(task[k.task]) /\ Current(k)
           /\ attempt' = [attempt EXCEPT ![a].pc = "reserve",
                            ![a].target = [k EXCEPT !.page = task[k.task].page]]
           /\ UNCHANGED jobs
  <2> PICK target : target = [task |-> k.task, version |-> k.version, page |-> task[k.task].page]
    OBVIOUS
  <2>1. target = [k EXCEPT !.page = task[k.task].page]
    BY <1>2
  <2>2. /\ \A b \in Attempts : b # a => attempt'[b] = attempt[b]
        /\ attempt'[a].key = k /\ attempt'[a].live = attempt[a].live
        /\ attempt'[a].pc = "reserve" /\ attempt'[a].target = target
    BY <1>2, <1>6, <2>1 DEF DiscoveryInv, AttemptShape, AttemptRecords
  <2>3. task[k.task].status = "PENDING"
    BY <1>6 DEF NeedsRepair
  <2>4. WatchedAttempt(attempt[a])'
    <3>1. Passed(k)'
      BY <1>1, <1>6 DEF Passed
    <3>2. target.task = k.task /\ target.version = k.version /\ Begun(target)'
      BY <1>1, <2>3 DEF Begun
    <3>3. "reserve" \notin AtWorkSteps
      BY DEF AtWorkSteps, ClaimSteps
    <3> QED
      BY <1>2, <2>2, <3>1, <3>2, <3>3 DEF WatchedAttempt
  <2>5. ASSUME NEW t \in Tasks, AttemptCarries(attempt[a], t) PROVE Held(t)'
    <3>1. k.task = t /\ k.version = campaign.version
      BY <1>1, <2>5 DEF AttemptCarries
    <3>2. AttemptCarries(attempt[a], t)'
      BY <1>1, <2>2, <2>3, <3>1 DEF AttemptCarries
    <3> QED
      BY <3>2 DEF Held
  <2> QED
    BY <1>1, <1>6, <2>2, <2>4, <2>5, GoesOnDriven
<1>7. CASE /\ ~(k.page < task[k.task].page) /\ ~(k.page > task[k.task].page) /\ Current(k)
           /\ attempt' = [attempt EXCEPT ![a].pc = "claim", ![a].cursor = task[k.task].cursor]
           /\ UNCHANGED jobs
  <2>1. /\ \A b \in Attempts : b # a => attempt'[b] = attempt[b]
        /\ attempt'[a].key = k /\ attempt'[a].live = attempt[a].live
        /\ attempt'[a].pc = "claim"
    BY <1>2, <1>7 DEF DiscoveryInv, AttemptShape, AttemptRecords
  <2>2. k.page = task[k.task].page
    BY <1>2, <1>7
  <2>3. WatchedAttempt(attempt[a])'
    BY <1>1, <1>2, <1>7, <2>1 DEF WatchedAttempt, Current
  <2>4. ASSUME NEW t \in Tasks, AttemptCarries(attempt[a], t) PROVE Held(t)'
    <3>1. k.task = t /\ k.version = campaign.version
      BY <1>1, <2>4 DEF AttemptCarries
    <3>2. AttemptCarries(attempt[a], t)'
      BY <1>1, <2>1, <2>2, <3>1 DEF AttemptCarries
    <3> QED
      BY <3>2 DEF Held
  <2> QED
    BY <1>1, <1>7, <2>1, <2>3, <2>4, GoesOnDriven
<1> QED
  BY <1>3, <1>4, <1>5, <1>6, <1>7

\* A job is begun: the handler carries what the job carried.
LEMMA FetchDriven ==
  ASSUME DiscoveryInv, DiscoveryInv', WatchInv, HeldInv, NEW a \in Attempts, Fetch(a)
  PROVE  WatchInv' /\ HeldInv'
<1>1. /\ attempt[a].pc = "idle" /\ UNCHANGED <<campaignVars, fanout>>
      /\ task' = task /\ campaign' = campaign
  BY DEF Fetch, campaignVars
<1>2. PICK k \in Keys :
        /\ jobs[k].state = "queued"
        /\ jobs' = [jobs EXCEPT ![k] = [state |-> "active", tries |-> jobs[k].tries + 1]]
        /\ attempt' = [attempt EXCEPT ![a].pc = "read", ![a].key = k, ![a].live = TRUE]
  BY DEF Fetch, Is, Begin
<1>3. /\ \A b \in Attempts : b # a => attempt'[b] = attempt[b]
      /\ attempt'[a].key = k /\ attempt'[a].live /\ attempt'[a].pc = "read"
  BY <1>2 DEF DiscoveryInv, AttemptShape, AttemptRecords
<1>4. /\ jobs'[k].state = "active"
      /\ \A l \in Keys : l # k => jobs'[l] = jobs[l]
  BY <1>2 DEF DiscoveryInv, JobsShape
<1>5. RowsGoOn(a)
  <2>1. \A l \in Keys : jobs[l].state \in {"queued", "active", "done", "dead"}
                          => jobs'[l].state \in {"queued", "active", "done", "dead"}
    BY <1>4
  <2> QED
    BY <1>1, <1>3, <2>1, RowsStay
<1>6. WatchedAttempt(attempt[a])'
  BY <1>3 DEF WatchedAttempt, AtWorkSteps, ClaimSteps
<1>7. \A l \in Keys : Keeps(a, l) \/ WatchedJob(l)'
  <2>1. WatchedJob(k)'
    BY <1>3, <1>4 DEF WatchedJob, ActiveHeld
  <2>2. ~attempt[a].live
    BY <1>1 DEF DiscoveryInv, LiveInv
  <2>3. \A l \in Keys : l # k => Keeps(a, l)
    BY <1>1, <1>4, <2>2 DEF Keeps
  <2> QED
    BY <2>1, <2>3
<1>8. WatchInv'
  BY <1>1, <1>3, <1>5, <1>6, <1>7, StepWatched DEF DiscoveryInv
<1>9. ASSUME NEW t \in Tasks, campaign'.status = "DISCOVERING", task'[t].status \in Unfinished
      PROVE  Held(t)'
  <2>1. Held(t)
    BY <1>1, <1>9 DEF HeldInv
  <2>2. ASSUME NEW l \in Keys, JobCarries(l, t) PROVE Held(t)'
    <3>1. CASE l = k
      <4>1. AttemptCarries(attempt[a], t)'
        BY <1>1, <1>2, <1>3, <2>2, <3>1 DEF JobCarries, AttemptCarries
      <4> QED
        BY <4>1 DEF Held
    <3>2. CASE l # k
      <4>1. JobCarries(l, t)'
        BY <1>1, <1>4, <2>2, <3>2 DEF JobCarries
      <4> QED
        BY <4>1 DEF Held
    <3> QED
      BY <3>1, <3>2
  <2>3. ~AttemptCarries(attempt[a], t)
    BY <1>1 DEF AttemptCarries
  <2> QED
    BY <1>1, <1>3, <2>1, <2>2, <2>3, HeldStays
<1> QED
  BY <1>8, <1>9 DEF HeldInv

\* The claim: it succeeds for the page its job asks for, or somebody was faster.
LEMMA ClaimDriven ==
  ASSUME DiscoveryInv, DiscoveryInv', WatchInv, HeldInv, NEW a \in Attempts, Claim(a)
  PROVE  WatchInv' /\ HeldInv'
<1> PICK k : k = attempt[a].key
  OBVIOUS
<1>1. /\ attempt[a].pc = "claim" /\ attempt[a].pc \notin {"idle", "send"}
      /\ UNCHANGED <<campaignVars, fanout>> /\ campaign' = campaign
  BY DEF Claim, campaignVars
<1>2. /\ attempt[a].live /\ k \in Reached /\ k \in Keys /\ k.task \in Tasks
      /\ k.page \in Nat /\ task[k.task].page \in Nat /\ k.page <= task[k.task].page
      /\ task[k.task] \in TaskRows /\ jobs[k].state = "active"
      /\ campaign.status = "DISCOVERING" => k.version = campaign.version
  BY <1>1, KnownKeys, ReachedKey DEF DiscoveryInv, LiveInv, WatchInv, WatchedAttempt, AtWorkSteps
<1>3. CASE Returns(a) /\ ~Claimable(k) /\ UNCHANGED task
  <2>1. Over(k)
    BY <1>2, <1>3 DEF Over, Claimable
  <2>2. ASSUME NEW t \in Tasks, task[t].status \in Unfinished, AttemptCarries(attempt[a], t)
        PROVE  FALSE
    BY <1>1, <1>3, <2>2 DEF AttemptCarries, Claimable
  <2> QED
    BY <1>1, <1>3, <2>1, <2>2, ReturnsDriven
<1>4. CASE /\ Claimable(k) /\ Goes(a, "usage") /\ UNCHANGED jobs
           /\ task' = [task EXCEPT ![k.task].status = "RUNNING", ![k.task].attempts = @ + 1]
  <2>1. /\ \A t \in Tasks : task'[t].page = task[t].page
        /\ \A t \in Tasks : t # k.task => task'[t] = task[t]
        /\ task'[k.task].status = "RUNNING"
        /\ task[k.task].page = k.page /\ task[k.task].status \in Unfinished
    BY <1>2, <1>4 DEF Claimable, DiscoveryInv, TaskShape, TaskRows
  <2>2. /\ \A b \in Attempts : b # a => attempt'[b] = attempt[b]
        /\ attempt'[a].key = k /\ attempt'[a].live = attempt[a].live
        /\ attempt'[a].pc = "usage" /\ jobs' = jobs
    BY <1>4, GoesKeeps
  <2>3. RowsGoOn(a)
    <3>1. \A t \in Tasks : /\ task'[t].page >= task[t].page
                           /\ task[t].status = "COMPLETED" => task'[t].status = "COMPLETED"
      BY <2>1 DEF Unfinished, DiscoveryInv, TaskShape, TaskRows, Pages
    <3>2. \A l \in Keys : Over(l) => Over(l)'
      <4> SUFFICES ASSUME NEW l \in Keys, Over(l) PROVE Over(l)'
        OBVIOUS
      <4>1. l.task \in Tasks
        BY DEF Keys
      <4>2. task'[l.task].status \in Unfinished => task[l.task].status \in Unfinished
        BY <2>1, <4>1 DEF Unfinished
      <4> QED
        BY <1>1, <2>1, <4>1, <4>2 DEF Over
    <3>3. ASSUME NEW b \in Attempts, b # a, attempt[b].pc \in {"reserve", "send"},
                 Begun(attempt[b].target)
          PROVE  Begun(attempt[b].target)'
      <4> PICK l : l = attempt[b].target
        OBVIOUS
      <4>1. /\ l \in Reached /\ l.task \in Tasks /\ attempt'[b] = attempt[b]
            /\ l = [task |-> l.task, version |-> l.version, page |-> l.page]
            /\ l.version = campaign.version => campaign.status = "DISCOVERING"
        BY <2>2, <3>3, KnownKeys, ReachedKey
      <4>2. CASE l.task # k.task
        BY <1>1, <2>1, <2>2, <3>3, <4>1, <4>2 DEF Begun
      <4>3. ASSUME l.task = k.task, l.version = campaign.version, l.page = task[l.task].page
            PROVE  l = k
        <5>1. k = [task |-> k.task, version |-> k.version, page |-> k.page]
          BY <1>2, ReachedKey
        <5> QED
          BY <1>2, <2>1, <4>1, <4>3, <5>1
      <4>4. CASE l.task = k.task
        BY <1>1, <1>2, <2>1, <2>2, <4>1, <4>3, <4>4 DEF Begun
      <4> QED
        BY <4>2, <4>4
    <3> QED
      BY <3>1, <3>2, <3>3 DEF RowsGoOn
  <2>4. WatchedAttempt(attempt[a])'
    BY <1>1, <1>2, <2>2 DEF WatchedAttempt
  <2>5. WatchInv'
    <3>1. \A l \in Keys : Keeps(a, l)
      BY <1>1, <2>2 DEF Keeps
    <3> QED
      BY <1>1, <2>2, <2>3, <2>4, <3>1, StepWatched DEF DiscoveryInv
  <2>6. ASSUME NEW t \in Tasks, campaign'.status = "DISCOVERING", task'[t].status \in Unfinished
        PROVE  Held(t)'
    <3>1. t # k.task /\ task'[t] = task[t]
      BY <2>1, <2>6 DEF Unfinished
    <3>2. Held(t)
      BY <1>1, <2>6, <3>1 DEF HeldInv
    <3>3. ASSUME NEW l \in Keys, JobCarries(l, t) PROVE Held(t)'
      <4>1. JobCarries(l, t)'
        BY <1>1, <2>2, <3>1, <3>3 DEF JobCarries
      <4> QED
        BY <4>1 DEF Held
    <3>4. ~AttemptCarries(attempt[a], t)
      BY <1>1, <3>1 DEF AttemptCarries
    <3> QED
      BY <1>1, <2>2, <3>1, <3>2, <3>3, <3>4, HeldStays
  <2> QED
    BY <2>5, <2>6 DEF HeldInv
<1> QED
  BY <1>3, <1>4 DEF Claim

\* What the holder of a claim knows of its task and its job.
LEMMA HolderKnows ==
  ASSUME DiscoveryInv, SoleClaims, WatchInv, NEW a \in Attempts, attempt[a].pc \in ClaimSteps,
         NEW k, k = attempt[a].key
  PROVE  /\ k \in Reached /\ k \in Keys /\ k.task \in Tasks /\ k.page \in Nat
         /\ task[k.task].status = "RUNNING" /\ task[k.task].page = k.page
         /\ jobs[k].state = "active" /\ HoldsClaim(k)
         /\ campaign.status = "DISCOVERING" => k.version = campaign.version
         /\ k = [task |-> k.task, version |-> k.version, page |-> k.page]
<1>1. attempt[a].live /\ (campaign.status = "DISCOVERING" => k.version = campaign.version)
  BY DEF WatchInv, WatchedAttempt, AtWorkSteps, ClaimSteps
<1>2. k \in Reached
  BY KnownKeys DEF ClaimSteps
<1>3. task[k.task].status = "RUNNING" /\ task[k.task].page = k.page
  BY DEF SoleClaims
<1> QED
  BY <1>1, <1>2, <1>3, ReachedKey DEF DiscoveryInv, LiveInv, HoldsClaim

\* The page is persisted: the handler carries the next one.
LEMMA CommitDriven ==
  ASSUME DiscoveryInv, DiscoveryInv', SoleClaims, WatchInv, HeldInv, NEW a \in Attempts, Commit(a)
  PROVE  WatchInv' /\ HeldInv'
<1> PICK k : k = attempt[a].key
  OBVIOUS
<1> PICK result : result = attempt[a].result
  OBVIOUS
<1>1. /\ attempt[a].pc = "commit" /\ attempt[a].pc \in ClaimSteps
      /\ UNCHANGED <<campaignVars, fanout>> /\ campaign' = campaign /\ jobs' = jobs
  BY DEF Commit, ClaimSteps, campaignVars
<1>2. /\ k \in Reached /\ k \in Keys /\ k.task \in Tasks /\ k.page \in Nat
      /\ task[k.task].status = "RUNNING" /\ task[k.task].page = k.page
      /\ HoldsClaim(k) /\ task[k.task] \in TaskRows
      /\ campaign.status = "DISCOVERING" => k.version = campaign.version
      /\ k = [task |-> k.task, version |-> k.version, page |-> k.page]
  BY <1>1, HolderKnows, ReachedKey
<1>3. /\ Persist(k, result)
      /\ attempt' = [attempt EXCEPT
           ![a].pc = IF result.next = NoCursor THEN "finish" ELSE "reserve",
           ![a].target = IF result.next = NoCursor THEN NoKey
                         ELSE [k EXCEPT !.page = k.page + 1]]
  BY <1>2 DEF Commit
<1>4. /\ \A t \in Tasks : t # k.task => task'[t] = task[t]
      /\ task'[k.task].status = (IF result.next = NoCursor THEN "COMPLETED" ELSE "PENDING")
      /\ task'[k.task].page = (IF result.next = NoCursor THEN k.page ELSE k.page + 1)
  <2>1. /\ \A t \in Tasks : t # k.task => task'[t] = task[t]
        /\ task'[k.task] = Advanced(k, result)
    BY <1>2, <1>3 DEF Persist, DiscoveryInv, TaskShape
  <2>2. /\ Advanced(k, result).status = (IF result.next = NoCursor THEN "COMPLETED" ELSE "PENDING")
        /\ Advanced(k, result).page = (IF result.next = NoCursor THEN k.page ELSE k.page + 1)
    BY <1>2 DEF Advanced, TaskRows
  <2> QED
    BY <2>1, <2>2
<1>5. /\ \A b \in Attempts : b # a => attempt'[b] = attempt[b]
      /\ attempt'[a].key = k /\ attempt'[a].live = attempt[a].live
      /\ attempt'[a].pc = (IF result.next = NoCursor THEN "finish" ELSE "reserve")
      /\ result.next # NoCursor =>
           attempt'[a].target = [task |-> k.task, version |-> k.version, page |-> k.page + 1]
  <2>1. attempt[a] \in AttemptRecords
    BY DEF DiscoveryInv, AttemptShape
  <2>2. [k EXCEPT !.page = k.page + 1]
          = [task |-> k.task, version |-> k.version, page |-> k.page + 1]
    BY <1>2
  <2> QED
    BY <1>3, <2>1, <2>2 DEF DiscoveryInv, AttemptShape, AttemptRecords
<1>6. RowsGoOn(a)
  <2>1. ASSUME NEW t \in Tasks
        PROVE  /\ task'[t].page >= task[t].page
               /\ task[t].status = "COMPLETED" => task'[t].status = "COMPLETED"
    BY <1>2, <1>4 DEF DiscoveryInv, TaskShape, TaskRows, Pages
  <2>2. ASSUME NEW l \in Keys, jobs[l].state = "done", Over(l)
        PROVE  Over(l)'
    <3>1. l.task \in Tasks /\ l.page \in Nat /\ l.page <= task[l.task].page
      BY <2>2, KnownKeys, ReachedKey
    <3>2. CASE l.task = k.task
      BY <1>2, <1>4, <3>1, <3>2 DEF Over, Unfinished
    <3>3. CASE l.task # k.task
      BY <1>1, <1>4, <2>2, <3>1, <3>3 DEF Over
    <3> QED
      BY <3>2, <3>3
  <2>3. ASSUME NEW b \in Attempts, b # a, attempt[b].pc \in {"reserve", "send"},
               Begun(attempt[b].target)
        PROVE  Begun(attempt[b].target)'
    <3> PICK l : l = attempt[b].target
      OBVIOUS
    <3>1. l.task \in Tasks /\ attempt'[b] = attempt[b]
      BY <1>5, <2>3, KnownKeys, ReachedKey
    <3>2. CASE l.task = k.task
      BY <1>1, <1>2, <1>4, <2>3, <3>1, <3>2 DEF Begun
    <3>3. CASE l.task # k.task
      BY <1>1, <1>4, <2>3, <3>1, <3>3 DEF Begun
    <3> QED
      BY <3>2, <3>3
  <2> QED
    BY <2>1, <2>2, <2>3 DEF RowsGoOn
<1>7. WatchedAttempt(attempt[a])'
  <2>1. attempt[a].live
    BY <1>1 DEF WatchInv, WatchedAttempt
  <2>2. Passed(k)'
    BY <1>2, <1>4 DEF Passed
  <2>3. result.next # NoCursor => \A l : l.task = k.task => Begun(l)'
    BY <1>4 DEF Begun
  <2> QED
    BY <1>5, <2>1, <2>2, <2>3 DEF WatchedAttempt, AtWorkSteps, ClaimSteps
<1>8. WatchInv'
  <2>1. attempt[a].live => attempt'[a].live
    BY <1>5
  <2>2. \A l \in Keys : Keeps(a, l)
    BY <1>1, <1>5, <2>1 DEF Keeps
  <2> QED
    BY <1>1, <1>5, <1>6, <1>7, <2>2, StepWatched DEF DiscoveryInv
<1>9. ASSUME NEW t \in Tasks, campaign'.status = "DISCOVERING", task'[t].status \in Unfinished
      PROVE  Held(t)'
  <2>1. CASE t = k.task
    <3>1. AttemptCarries(attempt[a], t)'
      BY <1>1, <1>2, <1>4, <1>5, <1>9, <2>1 DEF AttemptCarries, Unfinished
    <3> QED
      BY <3>1 DEF Held
  <2>2. CASE t # k.task
    <3>1. task'[t] = task[t] /\ Held(t)
      BY <1>1, <1>4, <1>9, <2>2 DEF HeldInv
    <3>2. ASSUME NEW l \in Keys, JobCarries(l, t) PROVE Held(t)'
      <4>1. JobCarries(l, t)'
        BY <1>1, <3>1, <3>2 DEF JobCarries
      <4> QED
        BY <4>1 DEF Held
    <3>3. ~AttemptCarries(attempt[a], t)
      BY <1>1 DEF AttemptCarries
    <3> QED
      BY <1>1, <1>5, <3>1, <3>2, <3>3, HeldStays
  <2> QED
    BY <2>1, <2>2
<1> QED
  BY <1>8, <1>9 DEF HeldInv

\* failDiscoveryTask: the task waits again, for the handler that gave it up or its job.
LEMMA GiveUpDriven ==
  ASSUME DiscoveryInv, DiscoveryInv', SoleClaims, WatchInv, HeldInv, NEW a \in Attempts,
         MarkFailed(a) \/ Undo(a)
  PROVE  WatchInv' /\ HeldInv'
<1> PICK k : k = attempt[a].key
  OBVIOUS
<1>1. /\ attempt[a].pc \in ClaimSteps /\ attempt[a].pc \notin {"idle", "send"}
      /\ UNCHANGED <<campaignVars, fanout>> /\ campaign' = campaign /\ FailTask(k.task)
  BY DEF MarkFailed, Undo, ClaimSteps, campaignVars
<1>2. /\ k \in Reached /\ k \in Keys /\ k.task \in Tasks /\ k.page \in Nat
      /\ task[k.task].status = "RUNNING" /\ task[k.task].page = k.page
      /\ jobs[k].state = "active"
      /\ campaign.status = "DISCOVERING" => k.version = campaign.version
      /\ k = [task |-> k.task, version |-> k.version, page |-> k.page]
  BY <1>1, HolderKnows
<1>3. /\ \A t \in Tasks : t # k.task => task'[t] = task[t]
      /\ task'[k.task].status = "FAILED" /\ task'[k.task].page = k.page
  BY <1>1, <1>2 DEF FailTask, DiscoveryInv, TaskShape, TaskRows
<1>4. /\ \A b \in Attempts : b # a => attempt'[b] = attempt[b]
      /\ \A l \in Keys : jobs[l].state \in {"queued", "active", "done", "dead"}
                           => jobs'[l].state \in {"queued", "active", "done", "dead"}
  <2>1. CASE MarkFailed(a)
    <3>1. Goes(a, "record") /\ jobs' = jobs
      BY <2>1 DEF MarkFailed
    <3> QED
      BY <3>1, GoesKeeps
  <2>2. CASE Undo(a)
    <3>1. /\ attempt' = [attempt EXCEPT ![a] = IdleAttempt]
          /\ jobs' = IF attempt[a].live THEN [jobs EXCEPT ![k].state =
                       IF jobs[k].tries <= RetryLimit THEN "queued" ELSE "dead"] ELSE jobs
      BY <2>2 DEF Undo, Throws, ThrowsOver, FailTry
    <3> QED
      BY <1>2, <3>1 DEF DiscoveryInv, AttemptShape, JobsShape, Jobs
  <2> QED
    BY <2>1, <2>2
<1>5. RowsGoOn(a)
  <2>1. ASSUME NEW t \in Tasks
        PROVE  /\ task'[t].page >= task[t].page
               /\ task[t].status = "COMPLETED" => task'[t].status = "COMPLETED"
    BY <1>2, <1>3 DEF DiscoveryInv, TaskShape, TaskRows, Pages
  <2>2. ASSUME NEW l \in Keys, jobs[l].state = "done", Over(l)
        PROVE  Over(l)'
    <3>1. /\ l.task \in Tasks /\ l.page \in Nat /\ l.page <= task[l.task].page
          /\ l.version = campaign.version => campaign.status = "DISCOVERING"
          /\ l = [task |-> l.task, version |-> l.version, page |-> l.page]
      BY <2>2, KnownKeys, ReachedKey
    <3>2. ASSUME l.task = k.task, l.version = campaign.version PROVE l.page < k.page
      <4>1. l # k
        BY <1>2, <2>2
      <4>2. l.page # k.page
        BY <1>2, <3>1, <3>2, <4>1
      <4> QED
        BY <1>2, <3>1, <3>2, <4>2
    <3>3. CASE l.task = k.task
      BY <1>1, <1>2, <1>3, <3>1, <3>2, <3>3 DEF Over
    <3>4. CASE l.task # k.task
      BY <1>1, <1>3, <2>2, <3>1, <3>4 DEF Over
    <3> QED
      BY <3>3, <3>4
  <2>3. ASSUME NEW b \in Attempts, b # a, attempt[b].pc \in {"reserve", "send"},
               Begun(attempt[b].target)
        PROVE  Begun(attempt[b].target)'
    <3> PICK l : l = attempt[b].target
      OBVIOUS
    <3>1. l \in Keys /\ l.task \in Tasks /\ attempt'[b] = attempt[b]
      BY <1>4, <2>3, KnownKeys, ReachedKey
    <3>2. /\ task'[l.task].page = task[l.task].page
          /\ task[l.task].status = "PENDING" => task'[l.task].status = "PENDING"
      BY <1>2, <1>3, <3>1
    <3> QED
      BY <1>1, <1>4, <2>3, <3>1, <3>2 DEF Begun
  <2> QED
    BY <2>1, <2>2, <2>3 DEF RowsGoOn
<1>6. CASE Undo(a)
  <2>1. Throws(a)
    BY <1>6 DEF Undo
  <2>2. \A t \in Tasks : task'[t] # task[t] =>
          /\ t = attempt[a].key.task /\ task'[t].page = attempt[a].key.page
          /\ campaign.status = "DISCOVERING" => attempt[a].key.version = campaign.version
    BY <1>2, <1>3
  <2> QED
    BY <1>1, <1>5, <2>1, <2>2, ThrowsDriven
<1>7. CASE MarkFailed(a)
  <2>1. Goes(a, "record") /\ jobs' = jobs
    BY <1>7 DEF MarkFailed
  <2>2. /\ attempt'[a].pc = "record" /\ attempt'[a].key = k /\ attempt'[a].live = attempt[a].live
        /\ attempt[a].live
    BY <1>1, <2>1, GoesKeeps DEF WatchInv, WatchedAttempt
  <2>3. WatchInv'
    <3>1. WatchedAttempt(attempt[a])'
      BY <2>2 DEF WatchedAttempt, AtWorkSteps, ClaimSteps
    <3>2. \A l \in Keys : Keeps(a, l)
      BY <1>1, <2>1, <2>2 DEF Keeps
    <3> QED
      BY <1>1, <1>4, <1>5, <3>1, <3>2, StepWatched DEF DiscoveryInv
  <2>4. ASSUME NEW t \in Tasks, campaign'.status = "DISCOVERING", task'[t].status \in Unfinished
        PROVE  Held(t)'
    <3>1. CASE t = k.task
      <4>1. AttemptCarries(attempt[a], t)'
        BY <1>1, <1>2, <1>3, <2>2, <2>4, <3>1 DEF AttemptCarries
      <4> QED
        BY <4>1 DEF Held
    <3>2. CASE t # k.task
      <4>1. task'[t] = task[t] /\ Held(t)
        BY <1>1, <1>3, <2>4, <3>2 DEF HeldInv
      <4>2. ASSUME NEW l \in Keys, JobCarries(l, t) PROVE Held(t)'
        <5>1. JobCarries(l, t)'
          BY <1>1, <2>1, <4>1, <4>2 DEF JobCarries
        <5> QED
          BY <5>1 DEF Held
      <4>3. ~AttemptCarries(attempt[a], t)
        BY <1>1 DEF AttemptCarries, ClaimSteps
      <4> QED
        BY <1>1, <1>4, <4>1, <4>2, <4>3, HeldStays
    <3> QED
      BY <3>1, <3>2
  <2> QED
    BY <2>3, <2>4 DEF HeldInv
<1> QED
  BY <1>6, <1>7

\* The key of a waiting page is taken only by somebody who carries the page.
LEMMA TakenIsHeld ==
  ASSUME DiscoveryInv, SoleClaims, WatchInv, NEW k \in Keys, k.version = campaign.version,
         k.page = task[k.task].page, task[k.task].status \in Unfinished,
         jobs[k].state # "none"
  PROVE  \/ JobCarries(k, k.task)
         \/ \E b \in Attempts : /\ attempt[b].pc \in {"read", "claim", "record", "send"}
                                /\ AttemptCarries(attempt[b], k.task)
         \/ \E p \in Planners : /\ planner[p].pc = "send"
                                /\ PlannerCarries(planner[p], fanout[p].todo, k.task)
<1> DEFINE t == k.task
<1>1. /\ k \in Reached /\ t \in Tasks /\ k.page \in Nat /\ WatchedJob(k)
      /\ k = [task |-> t, version |-> campaign.version, page |-> task[t].page]
  BY KnownKeys, ReachedKey DEF WatchInv
<1>2. jobs[k].state \in {"reserved", "queued", "active", "done", "dead"}
  BY DEF DiscoveryInv, JobsShape, Jobs, JobStates
<1>3. CASE jobs[k].state \in {"queued", "dead"}
  BY <1>3 DEF JobCarries
<1>4. CASE jobs[k].state = "done"
  BY <1>1, <1>4 DEF WatchedJob, Over
<1>5. CASE jobs[k].state = "active"
  <2>1. PICK b \in Attempts : attempt[b].live /\ attempt[b].key = k
    BY <1>1, <1>5 DEF WatchedJob, ActiveHeld
  <2>2. attempt[b].pc \in AttemptSteps /\ attempt[b].pc # "idle" /\ WatchedAttempt(attempt[b])
    BY <2>1 DEF DiscoveryInv, AttemptShape, AttemptRecords, LiveInv, WatchInv
  <2>3. attempt[b].pc \notin ClaimSteps
    BY <2>1 DEF SoleClaims, Unfinished
  <2>4. attempt[b].pc \notin {"reserve", "send", "finish"}
    BY <1>1, <2>1, <2>2 DEF WatchedAttempt, Passed, Unfinished
  <2>5. attempt[b].pc \in {"read", "claim", "record"}
    BY <2>2, <2>3, <2>4 DEF AttemptSteps, ClaimSteps
  <2>6. AttemptCarries(attempt[b], t)
    BY <2>1, <2>5 DEF AttemptCarries
  <2> QED
    BY <2>5, <2>6
<1>6. CASE jobs[k].state = "reserved"
  <2>1. ASSUME NEW b \in Attempts, attempt[b].pc = "send", attempt[b].target = k
        PROVE  AttemptCarries(attempt[b], t)
    <3>1. Begun(k)
      BY <2>1 DEF WatchInv, WatchedAttempt
    <3>2. task[t].status = "PENDING"
      BY <1>6, <3>1 DEF Begun
    <3> QED
      BY <1>1, <2>1, <3>2 DEF AttemptCarries
  <2>2. ASSUME NEW p \in Planners, planner[p].pc = "send", fanout[p].key = k
        PROVE  PlannerCarries(planner[p], fanout[p].todo, t)
    <3>1. k \in fanout[p].todo
      BY <2>2 DEF DiscoveryInv, SendInv
    <3> QED
      BY <1>1, <2>2, <3>1 DEF PlannerCarries
  <2> QED
    BY <1>1, <1>6, <2>1, <2>2 DEF WatchedJob, ReservedHeld
<1> QED
  BY <1>2, <1>3, <1>4, <1>5, <1>6

\* The continuation: its key is reserved, or somebody has it.
LEMMA ReserveNextDriven ==
  ASSUME DiscoveryInv, DiscoveryInv', SoleClaims, WatchInv, HeldInv, NEW a \in Attempts,
         ReserveNext(a)
  PROVE  WatchInv' /\ HeldInv'
<1> PICK k : k = attempt[a].target
  OBVIOUS
<1>1. /\ attempt[a].pc = "reserve" /\ attempt[a].pc # "send" /\ task' = task
      /\ UNCHANGED <<campaignVars, fanout>> /\ UNCHANGED <<campaign, planner>>
  BY DEF ReserveNext, campaignVars
<1>2. k \in Reached /\ k \in Keys /\ k.task \in Tasks /\ WatchedAttempt(attempt[a])
  BY <1>1, KnownKeys, ReachedKey DEF WatchInv
<1>3. /\ attempt[a].live /\ Passed(attempt[a].key) /\ Begun(k)
      /\ k.task = attempt[a].key.task /\ k.version = attempt[a].key.version
  BY <1>1, <1>2 DEF WatchedAttempt
<1>4. CASE Goes(a, "finish") /\ UNCHANGED jobs /\ jobs[k].state # "none"
  <2>1. /\ \A b \in Attempts : b # a => attempt'[b] = attempt[b]
        /\ attempt'[a].pc = "finish" /\ attempt'[a].key = attempt[a].key
        /\ attempt'[a].live = attempt[a].live
    BY <1>4, GoesKeeps
  <2>2. WatchedAttempt(attempt[a])'
    <3>1. Passed(attempt[a].key)'
      BY <1>1, <1>3, <2>1 DEF Passed
    <3> QED
      BY <1>3, <2>1, <3>1 DEF WatchedAttempt, AtWorkSteps, ClaimSteps
  <2>3. ASSUME NEW t \in Tasks, task[t].status \in Unfinished, AttemptCarries(attempt[a], t)
        PROVE  Held(t)'
    <3>1. k.task = t /\ k.version = campaign.version /\ k.page = task[t].page
      BY <1>1, <2>3 DEF AttemptCarries
    <3>2. CASE JobCarries(k, t)
      <4>1. JobCarries(k, t)'
        BY <1>1, <1>4, <3>2 DEF JobCarries
      <4> QED
        BY <1>2, <4>1 DEF Held
    <3>3. ASSUME NEW b \in Attempts, attempt[b].pc \in {"read", "claim", "record", "send"},
                 AttemptCarries(attempt[b], t)
          PROVE  Held(t)'
      <4>1. attempt'[b] = attempt[b]
        BY <1>1, <2>1, <3>3
      <4>2. AttemptCarries(attempt[b], t)'
        BY <1>1, <3>3, <4>1 DEF AttemptCarries
      <4> QED
        BY <4>2 DEF Held
    <3>4. ASSUME NEW p \in Planners, PlannerCarries(planner[p], fanout[p].todo, t)
          PROVE  Held(t)'
      <4>1. PlannerCarries(planner[p], fanout[p].todo, t)'
        BY <1>1, <3>4 DEF PlannerCarries
      <4> QED
        BY <4>1 DEF Held
    <3> QED
      BY <1>2, <1>4, <2>3, <3>1, <3>2, <3>3, <3>4, TakenIsHeld
  <2> QED
    BY <1>1, <1>4, <2>1, <2>2, <2>3, GoesOnDriven
<1>5. CASE Goes(a, "send") /\ jobs' = Reserve(jobs, k) /\ jobs[k].state = "none"
  <2>1. /\ \A b \in Attempts : b # a => attempt'[b] = attempt[b]
        /\ attempt'[a].pc = "send" /\ attempt'[a].key = attempt[a].key
        /\ attempt'[a].live = attempt[a].live /\ attempt'[a].target = k
    BY <1>5, GoesKeeps
  <2>2. \A l \in Keys : jobs'[l].state = IF l = k THEN "reserved" ELSE jobs[l].state
    BY <1>2, <1>5 DEF Reserve, DiscoveryInv, JobsShape, Jobs
  <2>3. RowsGoOn(a)
    <3>1. \A l \in Keys : jobs[l].state \in {"queued", "active", "done", "dead"}
                            => jobs'[l].state \in {"queued", "active", "done", "dead"}
      BY <1>5, <2>2
    <3> QED
      BY <1>1, <2>1, <3>1, RowsStay
  <2>4. WatchedAttempt(attempt[a])'
    <3>1. Passed(attempt[a].key)'
      BY <1>1, <1>3, <2>1 DEF Passed
    <3>2. Begun(k)'
      BY <1>1, <1>3, <1>5 DEF Begun
    <3> QED
      BY <1>3, <2>1, <3>1, <3>2 DEF WatchedAttempt, AtWorkSteps, ClaimSteps
  <2>5. \A l \in Keys : Keeps(a, l) \/ WatchedJob(l)'
    <3>1. WatchedJob(k)'
      BY <1>2, <2>1, <2>2 DEF WatchedJob, ReservedHeld
    <3>2. \A l \in Keys : l # k => Keeps(a, l)
      BY <1>1, <2>1, <2>2 DEF Keeps
    <3> QED
      BY <3>1, <3>2
  <2>6. WatchInv'
    BY <1>1, <2>1, <2>3, <2>4, <2>5, StepWatched DEF DiscoveryInv
  <2>7. ASSUME NEW t \in Tasks, campaign'.status = "DISCOVERING", task'[t].status \in Unfinished
        PROVE  Held(t)'
    <3>1. Held(t)
      BY <1>1, <2>7 DEF HeldInv
    <3>2. ASSUME NEW l \in Keys, JobCarries(l, t) PROVE Held(t)'
      <4>1. JobCarries(l, t)'
        BY <1>1, <1>5, <2>2, <3>2 DEF JobCarries
      <4> QED
        BY <4>1 DEF Held
    <3>3. ASSUME AttemptCarries(attempt[a], t) PROVE Held(t)'
      <4>1. AttemptCarries(attempt[a], t)'
        BY <1>1, <2>1, <3>3 DEF AttemptCarries
      <4> QED
        BY <4>1 DEF Held
    <3> QED
      BY <1>1, <2>1, <3>1, <3>2, <3>3, HeldStays
  <2> QED
    BY <2>6, <2>7 DEF HeldInv
<1> QED
  BY <1>4, <1>5 DEF ReserveNext, Is

\* The next page's job is sent, and carries the page.
LEMMA SendNextDriven ==
  ASSUME DiscoveryInv, DiscoveryInv', WatchInv, HeldInv, NEW a \in Attempts, SendNext(a)
  PROVE  WatchInv' /\ HeldInv'
<1> PICK k : k = attempt[a].target
  OBVIOUS
<1>1. /\ attempt[a].pc = "send" /\ task' = task /\ Goes(a, "finish")
      /\ UNCHANGED <<campaignVars, fanout>> /\ campaign' = campaign
      /\ jobs' = [jobs EXCEPT ![k].state = "queued"]
  BY DEF SendNext, Sent, campaignVars
<1>2. k \in Keys /\ jobs[k].state = "reserved" /\ WatchedAttempt(attempt[a])
  BY <1>1, KnownKeys DEF Reached, DiscoveryInv, SendInv, WatchInv
<1>3. /\ \A b \in Attempts : b # a => attempt'[b] = attempt[b]
      /\ attempt'[a].pc = "finish" /\ attempt'[a].key = attempt[a].key
      /\ attempt'[a].live = attempt[a].live
  BY <1>1, GoesKeeps
<1>4. \A l \in Keys : jobs'[l].state = IF l = k THEN "queued" ELSE jobs[l].state
  BY <1>1, <1>2 DEF DiscoveryInv, JobsShape, Jobs
<1>5. RowsGoOn(a)
  <2>1. \A l \in Keys : jobs[l].state \in {"queued", "active", "done", "dead"}
                          => jobs'[l].state \in {"queued", "active", "done", "dead"}
    BY <1>2, <1>4
  <2> QED
    BY <1>1, <1>3, <2>1, RowsStay
<1>6. WatchInv'
  <2>1. WatchedAttempt(attempt[a])'
    <3>1. Passed(attempt[a].key)'
      BY <1>1, <1>2, <1>3 DEF Passed, WatchedAttempt
    <3>2. attempt[a].live
      BY <1>1, <1>2 DEF WatchedAttempt
    <3> QED
      BY <1>3, <3>1, <3>2 DEF WatchedAttempt, AtWorkSteps, ClaimSteps
  <2>2. \A l \in Keys : Keeps(a, l) \/ WatchedJob(l)'
    <3>1. WatchedJob(k)'
      BY <1>2, <1>4 DEF WatchedJob
    <3>2. \A l \in Keys : l # k => Keeps(a, l)
      BY <1>3, <1>4 DEF Keeps
    <3> QED
      BY <3>1, <3>2
  <2> QED
    BY <1>1, <1>3, <1>5, <2>1, <2>2, StepWatched DEF DiscoveryInv
<1>7. ASSUME NEW t \in Tasks, campaign'.status = "DISCOVERING", task'[t].status \in Unfinished
      PROVE  Held(t)'
  <2>1. Held(t)
    BY <1>1, <1>7 DEF HeldInv
  <2>2. ASSUME NEW l \in Keys, JobCarries(l, t) PROVE Held(t)'
    <3>1. JobCarries(l, t)'
      BY <1>1, <1>2, <1>4, <2>2 DEF JobCarries
    <3> QED
      BY <3>1 DEF Held
  <2>3. ASSUME AttemptCarries(attempt[a], t) PROVE Held(t)'
    <3>1. k = [task |-> t, version |-> campaign.version, page |-> task[t].page]
      BY <1>1, <2>3 DEF AttemptCarries
    <3>2. JobCarries(k, t)'
      BY <1>1, <1>2, <1>4, <3>1 DEF JobCarries
    <3> QED
      BY <1>2, <3>2 DEF Held
  <2> QED
    BY <1>1, <1>3, <2>1, <2>2, <2>3, HeldStays
<1> QED
  BY <1>6, <1>7 DEF HeldInv

\* The send fails and the key is free again: the job of this page will find the task
\* ahead of it, and repair.
LEMMA SendNextFailsDriven ==
  ASSUME DiscoveryInv, DiscoveryInv', WatchInv, HeldInv, NEW a \in Attempts,
         SendNextFails(a), "orphan" \notin Faults
  PROVE  WatchInv' /\ HeldInv'
<1> PICK k : k = attempt[a].target
  OBVIOUS
<1> PICK h : h = attempt[a].key
  OBVIOUS
<1> PICK free : free = Release(jobs, k)
  OBVIOUS
<1>1. /\ attempt[a].pc = "send" /\ task' = task
      /\ UNCHANGED <<campaignVars, fanout>> /\ campaign' = campaign
      /\ attempt' = [attempt EXCEPT ![a] = IdleAttempt]
      /\ jobs' = IF attempt[a].live THEN FailTry(free, h) ELSE free
  BY DEF SendNextFails, ThrowsOver, campaignVars
<1>2. /\ k \in Keys /\ jobs[k].state = "reserved" /\ h \in Keys
      /\ attempt[a].live /\ jobs[h].state = "active" /\ h # k
      /\ k.task = h.task /\ k.version = h.version
  BY <1>1, KnownKeys DEF Reached, DiscoveryInv, SendInv, LiveInv, WatchInv, WatchedAttempt
<1>3. \A b \in Attempts : attempt'[b] = IF b = a THEN IdleAttempt ELSE attempt[b]
  BY <1>1 DEF DiscoveryInv, AttemptShape
<1>4. /\ jobs'[k].state = "none" /\ jobs'[h].state \in {"queued", "dead"}
      /\ \A l \in Keys : l # k /\ l # h => jobs'[l].state = jobs[l].state
  <2>1. /\ free \in [Keys -> Jobs] /\ free[k].state = "none"
        /\ \A l \in Keys : l # k => free[l] = jobs[l]
    BY <1>2 DEF Release, DiscoveryInv, JobsShape, Jobs, JobStates
  <2>2. jobs' = [free EXCEPT ![h].state =
                   IF free[h].tries <= RetryLimit THEN "queued" ELSE "dead"]
    BY <1>1, <1>2 DEF FailTry
  <2> QED
    BY <1>2, <2>1, <2>2 DEF Jobs
<1>5. RowsGoOn(a)
  <2>1. \A l \in Keys : jobs[l].state \in {"queued", "active", "done", "dead"}
                          => jobs'[l].state \in {"queued", "active", "done", "dead"}
    BY <1>2, <1>4
  <2> QED
    BY <1>1, <1>3, <2>1, RowsStay
<1>6. WatchInv'
  <2>1. WatchedAttempt(attempt[a])'
    BY <1>3 DEF WatchedAttempt, IdleAttempt, AtWorkSteps, ClaimSteps
  <2>2. \A l \in Keys : Keeps(a, l) \/ WatchedJob(l)'
    <3>1. WatchedJob(k)' /\ WatchedJob(h)'
      BY <1>2, <1>4 DEF WatchedJob
    <3>2. \A l \in Keys : l # k /\ l # h => Keeps(a, l)
      BY <1>4 DEF Keeps
    <3> QED
      BY <3>1, <3>2
  <2> QED
    BY <1>1, <1>3, <1>5, <2>1, <2>2, StepWatched DEF DiscoveryInv
<1>7. ASSUME NEW t \in Tasks, campaign'.status = "DISCOVERING", task'[t].status \in Unfinished
      PROVE  Held(t)'
  <2>1. Held(t)
    BY <1>1, <1>7 DEF HeldInv
  <2>2. ASSUME NEW l \in Keys, JobCarries(l, t) PROVE Held(t)'
    <3>1. l # k /\ l # h
      BY <1>2, <2>2 DEF JobCarries
    <3>2. JobCarries(l, t)'
      BY <1>1, <1>4, <2>2, <3>1 DEF JobCarries
    <3> QED
      BY <3>2 DEF Held
  <2>3. ASSUME AttemptCarries(attempt[a], t) PROVE Held(t)'
    <3>1. k.task = t /\ k.version = campaign.version /\ task[t].status # "FAILED"
      BY <1>1, <2>3 DEF AttemptCarries
    <3>2. JobCarries(h, t)'
      BY <1>1, <1>2, <1>4, <3>1 DEF JobCarries
    <3> QED
      BY <1>2, <3>2 DEF Held
  <2> QED
    BY <1>1, <1>3, <2>1, <2>2, <2>3, HeldStays
<1> QED
  BY <1>6, <1>7 DEF HeldInv

LEMMA AttemptStepDriven ==
  ASSUME QuietFaults, DiscoveryInv, DiscoveryInv', SoleClaims, WatchInv, HeldInv,
         NEW a \in Attempts, AttemptStep(a)
  PROVE  WatchInv' /\ HeldInv'
<1>1. "orphan" \notin Faults /\ "ack" \notin Faults /\ ~Expire(a)
  BY DEF QuietFaults, Expire
<1> QED
  BY <1>1, FetchDriven, ReadDriven, ClaimDriven, ClaimGoesOn, LeftDriven, CommitDriven,
     GiveUpDriven, ReserveNextDriven, SendNextDriven, SendNextFailsDriven
     DEF AttemptStep
-----------------------------------------------------------------------------
(***************************************************************************)
(* Steps of the campaign.                                                  *)
(***************************************************************************)
\* The row moves to a new generation or not at all, and to DISCOVERING by a handoff.
LEMMA CampaignMoves ==
  ASSUME CampaignInv, CampaignPart
  PROVE  \/ campaign' = campaign
         \/ /\ campaign'.version = campaign.version + 1
            /\ campaign'.status = "DISCOVERING" =>
                 /\ campaign.status = "PLANNING"
                 /\ \E p \in Planners : planner'[p].pc = "confirm"
<1> USE DEF CampaignInv, CampaignTypeOK
<1>1. CASE UserNext
  BY <1>1 DEF UserNext, Start, Resume, Publish, Pause, Cancel, Transition, Moved
<1>2. CASE RequestNext
  BY <1>2 DEF RequestNext, ReservePlan, SendPlan, PublishFails, Rollback, ApiCrash, Moved
<1>3. CASE PlannerNext
  <2> PICK q \in Planners :
        \/ FetchPlan(q) \/ LoadForPlan(q) \/ PersistPlan(q) \/ Reload(q)
        \/ Handoff(q) \/ Confirm(q) \/ PlannerExpire(q)
    BY <1>3 DEF PlannerNext
  <2>1. CASE Handoff(q)
    <3>1. planner'[q].pc = "confirm"
      BY <2>1 DEF Handoff, PlannerGoes
    <3> QED
      BY <2>1, <3>1 DEF Handoff, Moved
  <2>2. CASE ~Handoff(q)
    BY <2>2 DEF FetchPlan, LoadForPlan, PersistPlan, Reload, Confirm, PlannerExpire
  <2> QED
    BY <2>1, <2>2
<1> QED
  BY <1>1, <1>2, <1>3 DEF CampaignPart

\* Planners keep their jobs, and a planner that sends goes on sending.
LEMMA PlannersStay ==
  ASSUME QuietFaults, CampaignInv, CampaignPart,
         \A p \in Planners : planner[p].pc # "idle" => planner[p].live,
         NEW p \in Planners
  PROVE  /\ planner'[p].pc # "idle" => planner'[p].live
         /\ planner[p].pc = "send" => planner'[p].pc = "send"
<1> USE DEF CampaignInv, CampaignTypeOK
<1>1. CASE UserNext
  BY <1>1 DEF UserNext, Start, Resume, Publish, Pause, Cancel
<1>2. CASE RequestNext
  BY <1>2 DEF RequestNext, ReservePlan, SendPlan, PublishFails, Rollback, ApiCrash
<1>3. CASE PlannerNext
  <2> PICK q \in Planners :
        \/ FetchPlan(q) \/ LoadForPlan(q) \/ PersistPlan(q) \/ Reload(q)
        \/ Handoff(q) \/ Confirm(q) \/ PlannerExpire(q)
    BY <1>3 DEF PlannerNext
  <2>1. CASE FetchPlan(q)
    BY <2>1 DEF FetchPlan
  <2>2. CASE LoadForPlan(q)
    BY <2>2 DEF LoadForPlan, PlannerReturns, PlannerThrows, PlannerGoes, IdlePlanner
  <2>3. CASE PersistPlan(q)
    BY <2>3 DEF PersistPlan, PlannerGoes
  <2>4. CASE Reload(q)
    BY <2>4 DEF Reload, EnterTasks, PlannerReturns, PlannerThrows, PlannerGoes, IdlePlanner
  <2>5. CASE Handoff(q)
    BY <2>5 DEF Handoff, PlannerGoes
  <2>6. CASE Confirm(q)
    BY <2>6 DEF Confirm, EnterTasks, PlannerReturns, PlannerThrows, PlannerGoes, IdlePlanner
  <2> QED
    BY <2>1, <2>2, <2>3, <2>4, <2>5, <2>6 DEF PlannerExpire, QuietFaults
<1> QED
  BY <1>1, <1>2, <1>3 DEF CampaignPart

\* While the campaign stays DISCOVERING, no planner leaves before its list, and a plan
\* job that waits is given to a planner or goes on waiting.
LEMMA PlannersHold ==
  ASSUME QuietFaults, CampaignInv, CampaignPart, UNCHANGED <<task, fanout>>,
         campaign' = campaign, campaign.status = "DISCOVERING", NEW t \in Tasks
  PROVE  /\ \A p \in Planners : PlannerCarries(planner[p], fanout[p].todo, t)
                                  => PlannerCarries(planner[p], fanout[p].todo, t)'
         /\ PlanWaits => PlanWaits' \/ \E p \in Planners : planner'[p].pc = "load"
<1> USE DEF CampaignInv, CampaignTypeOK
<1>1. CASE UserNext
  BY <1>1 DEF UserNext, Start, Resume, Publish, Pause, Cancel, Transition, Moved
<1>2. CASE RequestNext
  <2> PICK r \in Requests :
        ReservePlan(r) \/ SendPlan(r) \/ PublishFails(r) \/ Rollback(r) \/ ApiCrash(r)
    BY <1>2 DEF RequestNext
  <2>1. planner' = planner
    BY DEF ReservePlan, SendPlan, PublishFails, Rollback, ApiCrash
  <2>2. ASSUME NEW v \in Versions, planJobs[v].state \in {"queued", "dead"}
        PROVE  planJobs'[v].state \in {"queued", "dead"}
    BY <2>2 DEF ReservePlan, SendPlan, PublishFails, Rollback, ApiCrash, Reserve, Sent,
                Release, Is, RequestKeys
  <2> QED
    BY <2>1, <2>2 DEF PlannerCarries, PlanWaits
<1>3. CASE PlannerNext
  <2> PICK q \in Planners :
        \/ FetchPlan(q) \/ LoadForPlan(q) \/ PersistPlan(q) \/ Reload(q)
        \/ Handoff(q) \/ Confirm(q) \/ PlannerExpire(q)
    BY <1>3 DEF PlannerNext
  <2>1. CASE FetchPlan(q)
    <3>1. planner[q].pc = "idle" /\ planner'[q].pc = "load"
          /\ \A p \in Planners : p # q => planner'[p] = planner[p]
      BY <2>1 DEF FetchPlan
    <3> QED
      BY <3>1 DEF PlannerCarries
  <2>2. CASE ~FetchPlan(q)
    <3>1. planJobs' = planJobs /\ \A p \in Planners : p # q => planner'[p] = planner[p]
      BY <2>2 DEF LoadForPlan, PersistPlan, Reload, Handoff, Confirm, PlannerExpire, QuietFaults,
                  PlannerGoes, EnterTasks
    <3>2. /\ planner[q].pc \notin {"schedule", "send"}
          /\ \/ planner'[q].pc \in {"load", "persist", "reload", "handoff", "confirm"}
             \/ planner'[q].pc = "tasks" /\ planner'[q].version = campaign.version
      BY <2>2 DEF LoadForPlan, PersistPlan, Reload, Handoff, Confirm, PlannerExpire, QuietFaults,
                  PlannerGoes, EnterTasks
    <3> QED
      BY <3>1, <3>2 DEF PlannerCarries, PlanWaits
  <2> QED
    BY <2>1, <2>2
<1> QED
  BY <1>1, <1>2, <1>3 DEF CampaignPart

LEMMA CampaignStepDriven ==
  ASSUME QuietFaults, CalmStart, DiscoveryInv, DiscoveryInv', WatchInv, HeldInv, CampaignStep
  PROVE  WatchInv' /\ HeldInv'
<1>1. /\ CampaignPart /\ CampaignInv
      /\ UNCHANGED <<task, jobs, attempt, fanout>>
  BY DEF CampaignStep, CampaignPart, DiscoveryInv, discoveryVars
<1>2. /\ campaign' = campaign \/ campaign'.version = campaign.version + 1
      /\ campaign' = campaign \/ \A k \in Reached : k.version # campaign'.version
  BY <1>1, CampaignMoves, ReachedKey
<1>3. \A k \in Reached : (Over(k) => Over(k)') /\ (Begun(k) => Begun(k)')
  BY <1>1, <1>2 DEF Over, Begun
<1>4. ASSUME NEW a \in Attempts PROVE WatchedAttempt(attempt[a])'
  <2>1. attempt'[a] = attempt[a] /\ WatchedAttempt(attempt[a])
    BY <1>1 DEF WatchInv
  <2>2. attempt[a].pc \in AtWorkSteps /\ campaign'.status = "DISCOVERING"
          => attempt[a].key.version = campaign'.version
    <3>1. campaign' = campaign \/ campaign'.status # "DISCOVERING"
            \/ campaign.status # "DISCOVERING"
      BY <1>1, CampaignMoves
    <3> QED
      BY <2>1, <3>1 DEF CalmStart, WatchedAttempt
  <2>3. attempt[a].pc \in {"reserve", "send"} => Begun(attempt[a].target)'
    BY <1>3, <2>1, KnownKeys DEF WatchedAttempt
  <2>4. attempt[a].pc \in {"reserve", "send", "finish"} => Passed(attempt[a].key)'
    BY <1>1, <2>1 DEF WatchedAttempt, Passed
  <2> QED
    BY <2>1, <2>2, <2>3, <2>4 DEF WatchedAttempt
<1>5. \A p \in Planners : /\ planner'[p].pc # "idle" => planner'[p].live
                          /\ planner[p].pc = "send" => planner'[p].pc = "send"
  BY <1>1, PlannersStay DEF WatchInv
<1>6. ASSUME NEW k \in Keys PROVE WatchedJob(k)'
  <2>1. jobs'[k] = jobs[k] /\ WatchedJob(k)
    BY <1>1 DEF WatchInv
  <2>2. jobs[k].state = "done" => Over(k)'
    BY <1>3, <2>1, KnownKeys DEF WatchedJob
  <2>3. ReservedHeld(k) => ReservedHeld(k)'
    BY <1>1, <1>5 DEF ReservedHeld
  <2>4. ActiveHeld(k) => ActiveHeld(k)'
    BY <1>1 DEF ActiveHeld
  <2> QED
    BY <2>1, <2>2, <2>3, <2>4 DEF WatchedJob
<1>7. WatchInv'
  BY <1>4, <1>5, <1>6 DEF WatchInv
<1>8. ASSUME NEW t \in Tasks, campaign'.status = "DISCOVERING", task'[t].status \in Unfinished
      PROVE  Held(t)'
  <2>1. CASE campaign' = campaign
    <3>1. Held(t) /\ campaign.status = "DISCOVERING"
      BY <1>1, <1>8, <2>1 DEF HeldInv
    <3>2. \A k \in Keys : JobCarries(k, t) => JobCarries(k, t)'
      BY <1>1, <2>1 DEF JobCarries
    <3>3. \A a \in Attempts : AttemptCarries(attempt[a], t) => AttemptCarries(attempt[a], t)'
      BY <1>1, <2>1 DEF AttemptCarries
    <3>4. /\ \A p \in Planners : PlannerCarries(planner[p], fanout[p].todo, t)
                                   => PlannerCarries(planner[p], fanout[p].todo, t)'
          /\ PlanWaits => PlanWaits' \/ \E p \in Planners : planner'[p].pc = "load"
      BY <1>1, <2>1, <3>1, PlannersHold
    <3>5. (\E p \in Planners : planner'[p].pc = "load") => Held(t)'
      BY DEF Held, PlannerCarries
    <3> QED
      BY <3>1, <3>2, <3>3, <3>4, <3>5 DEF Held
  <2>2. CASE campaign' # campaign
    <3>1. PICK p \in Planners : planner'[p].pc = "confirm"
      BY <1>1, <1>8, <2>2, CampaignMoves
    <3> QED
      BY <3>1 DEF Held, PlannerCarries
  <2> QED
    BY <2>1, <2>2
<1> QED
  BY <1>7, <1>8 DEF HeldInv
-----------------------------------------------------------------------------
(***************************************************************************)
(* Steps of a planner that schedules.                                      *)
(***************************************************************************)
\* One planner moves.  Jobs that were begun or wait stay so, what is reserved has its
\* sender, and what the planner carried is carried on.
LEMMA ScheduleDriven ==
  ASSUME DiscoveryInv, WatchInv, HeldInv, UNCHANGED <<campaign, task, attempt>>,
         NEW p \in Planners,
         \A q \in Planners : q # p => planner'[q] = planner[q] /\ fanout'[q] = fanout[q],
         planner'[p].pc # "idle" => planner'[p].live,
         \A k \in Keys : /\ jobs[k].state \in {"queued", "active", "done", "dead"}
                              => jobs'[k].state = jobs[k].state
                         /\ jobs'[k].state \in {"active", "done"} => jobs'[k].state = jobs[k].state
                         /\ jobs'[k].state = "reserved" =>
                              \/ planner'[p].pc = "send" /\ fanout'[p].key = k
                              \/ /\ jobs[k].state = "reserved"
                                 /\ ~(planner[p].pc = "send" /\ fanout[p].key = k),
         \A v \in Versions : planJobs[v].state \in {"queued", "dead"}
                               => planJobs'[v].state = planJobs[v].state,
         \A t \in Tasks : task[t].status \in Unfinished
                          /\ PlannerCarries(planner[p], fanout[p].todo, t) => Held(t)'
  PROVE  WatchInv' /\ HeldInv'
<1>1. ASSUME NEW a \in Attempts PROVE WatchedAttempt(attempt[a])'
  <2>1. attempt'[a] = attempt[a] /\ WatchedAttempt(attempt[a])
    BY DEF WatchInv
  <2>2. attempt[a].pc \in {"reserve", "send"} => Begun(attempt[a].target)'
    <3> SUFFICES ASSUME attempt[a].pc \in {"reserve", "send"} PROVE Begun(attempt[a].target)'
      OBVIOUS
    <3>1. attempt[a].target \in Keys
      BY KnownKeys DEF Reached
    <3>2. Begun(attempt[a].target)
      BY <2>1 DEF WatchedAttempt
    <3> QED
      BY <3>1, <3>2, <2>1 DEF Begun
  <2>3. Passed(attempt[a].key) => Passed(attempt[a].key)'
    BY <2>1 DEF Passed
  <2> QED
    BY <2>1, <2>2, <2>3 DEF WatchedAttempt
<1>2. ASSUME NEW k \in Keys PROVE WatchedJob(k)'
  <2>1. WatchedJob(k)
    BY DEF WatchInv
  <2>2. jobs'[k].state = "active" => ActiveHeld(k)'
    BY <2>1 DEF WatchedJob, ActiveHeld
  <2>3. jobs'[k].state = "done" => Over(k)'
    BY <2>1 DEF WatchedJob, Over
  <2>4. ASSUME jobs'[k].state = "reserved" PROVE ReservedHeld(k)'
    <3>1. CASE planner'[p].pc = "send" /\ fanout'[p].key = k
      BY <3>1 DEF ReservedHeld
    <3>2. CASE jobs[k].state = "reserved" /\ ~(planner[p].pc = "send" /\ fanout[p].key = k)
      BY <2>1, <3>2 DEF WatchedJob, ReservedHeld
    <3> QED
      BY <2>4, <3>1, <3>2
  <2> QED
    BY <2>2, <2>3, <2>4 DEF WatchedJob
<1>3. WatchInv'
  BY <1>1, <1>2 DEF WatchInv
<1>4. ASSUME NEW t \in Tasks, campaign'.status = "DISCOVERING", task'[t].status \in Unfinished
      PROVE  Held(t)'
  <2>1. Held(t)
    BY <1>4 DEF HeldInv
  <2>2. \A k \in Keys : JobCarries(k, t) => JobCarries(k, t)'
    BY DEF JobCarries
  <2>3. \A a \in Attempts : AttemptCarries(attempt[a], t) => AttemptCarries(attempt[a], t)'
    BY DEF AttemptCarries
  <2>4. \A q \in Planners : q # p /\ PlannerCarries(planner[q], fanout[q].todo, t)
                              => PlannerCarries(planner[q], fanout[q].todo, t)'
    BY DEF PlannerCarries
  <2>5. PlannerCarries(planner[p], fanout[p].todo, t) => Held(t)'
    BY <1>4
  <2>6. PlanWaits => PlanWaits'
    BY DEF PlanWaits
  <2> QED
    BY <2>1, <2>2, <2>3, <2>4, <2>5, <2>6 DEF Held
<1> QED
  BY <1>3, <1>4 DEF HeldInv

\* A planner that is left has its job done, or waiting for another planner.
LEMMA PlanJobLeft ==
  ASSUME CampaignInv, NEW p \in Planners, planner[p].live,
         PlannerReturns(p) \/ PlannerThrows(p)
  PROVE  /\ \A v \in Versions : planJobs[v].state \in {"queued", "dead"}
                                  => planJobs'[v].state = planJobs[v].state
         /\ PlannerThrows(p) => PlanWaits'
<1> PICK j : j = planner[p].job
  OBVIOUS
<1>1. j \in Versions /\ planJobs[j].state = "active" /\ planJobs \in [Versions -> Jobs]
  BY DEF CampaignInv, CampaignTypeOK, PlannerJobs
<1>2. \A v \in Versions : v # j => planJobs'[v] = planJobs[v]
  BY <1>1 DEF PlannerReturns, PlannerThrows, Complete, FailTry
<1>3. PlannerThrows(p) => planJobs'[j].state \in {"queued", "dead"}
  BY <1>1 DEF PlannerThrows, FailTry, Jobs
<1> QED
  BY <1>1, <1>2, <1>3 DEF PlanWaits

\* The list has every task that waits.
LEMMA ListTasksDriven ==
  ASSUME DiscoveryInv, WatchInv, HeldInv, NEW p \in Planners, ListTasks(p)
  PROVE  WatchInv' /\ HeldInv'
<1>1. /\ planner[p].pc = "tasks" /\ planner[p].live
      /\ UNCHANGED <<campaign, task, attempt, jobs, planJobs>>
  BY DEF ListTasks, PlannerGoes, WatchInv
<1>2. /\ planner'[p].pc = "schedule" /\ planner'[p].live
      /\ fanout'[p].todo = {[task |-> t, version |-> planner[p].version,
                             page |-> task[t].page] : t \in Schedulable}
      /\ \A q \in Planners : q # p => planner'[q] = planner[q] /\ fanout'[q] = fanout[q]
  BY <1>1 DEF ListTasks, PlannerGoes, DiscoveryInv, FanoutShape, CampaignInv, CampaignTypeOK
<1>3. ASSUME NEW t \in Tasks, task[t].status \in Unfinished,
             PlannerCarries(planner[p], fanout[p].todo, t)
      PROVE  Held(t)'
  <2>1. planner[p].version = campaign.version /\ t \in Schedulable
    BY <1>1, <1>3 DEF PlannerCarries, Schedulable
  <2>2. PlannerCarries(planner[p], fanout[p].todo, t)'
    BY <1>1, <1>2, <2>1 DEF PlannerCarries
  <2> QED
    BY <2>2 DEF Held
<1> QED
  BY <1>1, <1>2, <1>3, ScheduleDriven

\* The key is reserved, or taken: then somebody else has the page.
LEMMA ScheduleTaskDriven ==
  ASSUME DiscoveryInv, SoleClaims, WatchInv, HeldInv, NEW p \in Planners, ScheduleTask(p)
  PROVE  WatchInv' /\ HeldInv'
<1>1. /\ planner[p].pc = "schedule" /\ planner[p].live
      /\ UNCHANGED <<campaign, task, attempt, planJobs>>
  BY DEF ScheduleTask, PlannerGoes, WatchInv
<1> PICK k \in fanout[p].todo :
      IF Is(jobs, k, "none")
      THEN /\ jobs' = Reserve(jobs, k)
           /\ fanout' = [fanout EXCEPT ![p].key = k]
           /\ PlannerGoes(p, "send")
      ELSE /\ fanout' = [fanout EXCEPT ![p].todo = @ \ {k}]
           /\ UNCHANGED <<jobs, planner, planJobs>>
  BY DEF ScheduleTask
<1>2. k \in Keys
  BY DEF DiscoveryInv, FanoutShape
<1>3. CASE jobs[k].state = "none"
  <2>1. /\ planner'[p].pc = "send" /\ planner'[p].live
        /\ fanout'[p].key = k /\ fanout'[p].todo = fanout[p].todo
        /\ \A q \in Planners : q # p => planner'[q] = planner[q] /\ fanout'[q] = fanout[q]
    BY <1>1, <1>3 DEF Is, PlannerGoes, DiscoveryInv, FanoutShape, CampaignInv, CampaignTypeOK
  <2>2. \A l \in Keys : jobs'[l].state = IF l = k THEN "reserved" ELSE jobs[l].state
    BY <1>2, <1>3 DEF Is, Reserve, DiscoveryInv, JobsShape, Jobs
  <2>3. ASSUME NEW t \in Tasks, PlannerCarries(planner[p], fanout[p].todo, t) PROVE Held(t)'
    <3>1. PlannerCarries(planner[p], fanout[p].todo, t)'
      BY <1>1, <2>1, <2>3 DEF PlannerCarries
    <3> QED
      BY <3>1 DEF Held
  <2> QED
    BY <1>1, <1>3, <2>1, <2>2, <2>3, ScheduleDriven
<1>4. CASE jobs[k].state # "none"
  <2>1. /\ UNCHANGED <<jobs, planner, planJobs>>
        /\ fanout'[p].todo = fanout[p].todo \ {k}
        /\ \A q \in Planners : q # p => fanout'[q] = fanout[q]
    BY <1>4 DEF Is, DiscoveryInv, FanoutShape
  <2>2. ASSUME NEW t \in Tasks, task[t].status \in Unfinished,
               PlannerCarries(planner[p], fanout[p].todo, t)
        PROVE  Held(t)'
    <3> PICK l : l = [task |-> t, version |-> campaign.version, page |-> task[t].page]
      OBVIOUS
    <3>1. l \in fanout[p].todo
      BY <1>1, <2>2 DEF PlannerCarries
    <3>2. CASE l # k
      <4>1. PlannerCarries(planner[p], fanout[p].todo, t)'
        BY <1>1, <2>1, <3>1, <3>2 DEF PlannerCarries
      <4> QED
        BY <4>1 DEF Held
    <3>3. CASE l = k
      <4>1. k.task = t /\ k.version = campaign.version /\ k.page = task[t].page
        BY <3>3
      <4>2. CASE JobCarries(k, t)
        <5>1. JobCarries(k, t)'
          BY <1>1, <2>1, <4>2 DEF JobCarries
        <5> QED
          BY <1>2, <5>1 DEF Held
      <4>3. ASSUME NEW b \in Attempts, AttemptCarries(attempt[b], t) PROVE Held(t)'
        <5>1. AttemptCarries(attempt[b], t)'
          BY <1>1, <4>3 DEF AttemptCarries
        <5> QED
          BY <5>1 DEF Held
      <4>4. ASSUME NEW q \in Planners, planner[q].pc = "send",
                   PlannerCarries(planner[q], fanout[q].todo, t)
            PROVE  Held(t)'
        <5>1. PlannerCarries(planner[q], fanout[q].todo, t)'
          BY <1>1, <2>1, <4>4 DEF PlannerCarries
        <5> QED
          BY <5>1 DEF Held
      <4> QED
        BY <1>2, <1>4, <2>2, <4>1, <4>2, <4>3, <4>4, TakenIsHeld
    <3> QED
      BY <3>2, <3>3
  <2> QED
    BY <1>1, <2>1, <2>2, ScheduleDriven
<1> QED
  BY <1>3, <1>4

\* The job waits in the queue, and the task is off the list.
LEMMA SendTaskDriven ==
  ASSUME DiscoveryInv, WatchInv, HeldInv, NEW p \in Planners, SendTask(p)
  PROVE  WatchInv' /\ HeldInv'
<1> PICK k : k = fanout[p].key
  OBVIOUS
<1>1. /\ planner[p].pc = "send" /\ planner[p].live
      /\ UNCHANGED <<campaign, task, attempt, planJobs>>
      /\ k \in Keys /\ jobs[k].state = "reserved"
  BY DEF SendTask, PlannerGoes, WatchInv, DiscoveryInv, SendInv, FanoutShape
<1>2. /\ planner'[p].pc = "schedule" /\ planner'[p].live
      /\ fanout'[p].todo = fanout[p].todo \ {k}
      /\ \A q \in Planners : q # p => planner'[q] = planner[q] /\ fanout'[q] = fanout[q]
  BY <1>1 DEF SendTask, PlannerGoes, DiscoveryInv, FanoutShape, CampaignInv, CampaignTypeOK
<1>3. \A l \in Keys : jobs'[l].state = IF l = k THEN "queued" ELSE jobs[l].state
  BY <1>1 DEF SendTask, Sent, DiscoveryInv, JobsShape, Jobs
<1>4. ASSUME NEW t \in Tasks, PlannerCarries(planner[p], fanout[p].todo, t) PROVE Held(t)'
  <2> PICK l : l = [task |-> t, version |-> campaign.version, page |-> task[t].page]
    OBVIOUS
  <2>1. l \in fanout[p].todo
    BY <1>1, <1>4 DEF PlannerCarries
  <2>2. CASE l # k
    <3>1. PlannerCarries(planner[p], fanout[p].todo, t)'
      BY <1>1, <1>2, <2>1, <2>2 DEF PlannerCarries
    <3> QED
      BY <3>1 DEF Held
  <2>3. CASE l = k
    <3>1. JobCarries(k, t)'
      BY <1>1, <1>3, <2>3 DEF JobCarries
    <3> QED
      BY <1>1, <3>1 DEF Held
  <2> QED
    BY <2>2, <2>3
<1> QED
  BY <1>1, <1>2, <1>3, <1>4, ScheduleDriven

\* The planner is done, or its job waits for another one.
LEMMA PlannerEndsDriven ==
  ASSUME "orphan" \notin Faults, DiscoveryInv, WatchInv, HeldInv, NEW p \in Planners,
         SendTaskFails(p) \/ FinishSchedule(p) \/ PlannerDies(p)
  PROVE  WatchInv' /\ HeldInv'
<1>1. /\ planner[p].pc # "idle" /\ planner[p].live /\ CampaignInv
      /\ UNCHANGED <<campaign, task, attempt>>
      /\ PlannerReturns(p) \/ PlannerThrows(p)
  BY DEF SendTaskFails, FinishSchedule, PlannerDies, PlannerCrash, WatchInv, discoveryVars,
         DiscoveryInv
<1>2. /\ planner'[p].pc = "idle"
      /\ \A q \in Planners : q # p => planner'[q] = planner[q] /\ fanout'[q] = fanout[q]
  <2>1. fanout' = [fanout EXCEPT ![p] = NoFanout] \/ fanout' = fanout
    BY DEF SendTaskFails, FinishSchedule, PlannerDies, discoveryVars
  <2>2. planner' = [planner EXCEPT ![p] = IdlePlanner]
    BY <1>1 DEF PlannerReturns, PlannerThrows
  <2> QED
    BY <2>1, <2>2 DEF IdlePlanner, DiscoveryInv, FanoutShape, CampaignInv, CampaignTypeOK
<1>3. /\ \A v \in Versions : planJobs[v].state \in {"queued", "dead"}
                               => planJobs'[v].state = planJobs[v].state
      /\ PlannerThrows(p) => PlanWaits'
  BY <1>1, PlanJobLeft
<1>4. \A k \in Keys : \/ jobs'[k].state = jobs[k].state
                         /\ ~(planner[p].pc = "send" /\ fanout[p].key = k)
                      \/ jobs[k].state = "reserved" /\ jobs'[k].state = "none"
  <2>1. CASE SendTaskFails(p)
    <3>1. /\ jobs' = [jobs EXCEPT ![fanout[p].key].state = "none"]
          /\ jobs[fanout[p].key].state = "reserved"
      BY <2>1 DEF SendTaskFails, Release, DiscoveryInv, SendInv
    <3> QED
      BY <3>1 DEF DiscoveryInv, JobsShape, Jobs
  <2>2. CASE FinishSchedule(p) \/ PlannerDies(p)
    BY <2>2 DEF FinishSchedule, PlannerDies, discoveryVars
  <2> QED
    BY <2>1, <2>2
<1>5. ASSUME NEW t \in Tasks, PlannerCarries(planner[p], fanout[p].todo, t) PROVE Held(t)'
  <2>1. ~FinishSchedule(p)
    BY <1>5 DEF FinishSchedule, PlannerCarries
  <2>2. PlannerThrows(p)
    BY <2>1 DEF SendTaskFails, PlannerDies, PlannerCrash
  <2> QED
    BY <1>3, <2>2 DEF Held
<1> QED
  BY <1>1, <1>2, <1>3, <1>4, <1>5, ScheduleDriven

LEMMA ScheduleStepDriven ==
  ASSUME QuietFaults, DiscoveryInv, SoleClaims, WatchInv, HeldInv,
         NEW p \in Planners, ScheduleStep(p)
  PROVE  WatchInv' /\ HeldInv'
BY ListTasksDriven, ScheduleTaskDriven, SendTaskDriven, PlannerEndsDriven
   DEF ScheduleStep, QuietFaults
-----------------------------------------------------------------------------
LEMMA InitDriven == Init => WatchInv /\ HeldInv
<1> SUFFICES ASSUME Init PROVE WatchInv /\ HeldInv
  OBVIOUS
<1>1. \A a \in Attempts : WatchedAttempt(attempt[a])
  BY DEF Init, WatchedAttempt, IdleAttempt, AtWorkSteps, ClaimSteps
<1>2. \A k \in Keys : WatchedJob(k)
  BY DEF Init, WatchedJob, NoJob
<1>3. \A p \in Planners : planner[p].pc = "idle"
  BY DEF Init, CampaignInit, IdlePlanner
<1>4. HeldInv
  BY DEF Init, CampaignInit, HeldInv
<1> QED
  BY <1>1, <1>2, <1>3, <1>4 DEF WatchInv

\* A step that changes nothing.
LEMMA StutterDriven ==
  ASSUME WatchInv, HeldInv, UNCHANGED vars
  PROVE  WatchInv' /\ HeldInv'
<1>1. UNCHANGED <<campaign, planJobs, planner, task, jobs, attempt, fanout>>
  BY DEF vars, campaignVars, discoveryVars
<1>2. WatchInv'
  BY <1>1 DEF WatchInv, WatchedAttempt, WatchedJob, Passed, Over, Begun, ActiveHeld, ReservedHeld
<1>3. HeldInv'
  BY <1>1 DEF HeldInv, Held, JobCarries, AttemptCarries, PlannerCarries, PlanWaits
<1> QED
  BY <1>2, <1>3

LEMMA NextDriven ==
  ASSUME QuietFaults, [CalmStart]_vars, DiscoveryInv, DiscoveryInv', SoleClaims, WatchInv,
         HeldInv, [Next]_vars
  PROVE  WatchInv' /\ HeldInv'
<1>1. CASE UNCHANGED vars
  BY <1>1, StutterDriven
<1>2. CASE CampaignStep /\ CalmStart
  BY <1>2, CampaignStepDriven
<1>3. ASSUME NEW p \in Planners, ScheduleStep(p) PROVE WatchInv' /\ HeldInv'
  BY <1>3, ScheduleStepDriven
<1>4. ASSUME NEW a \in Attempts, AttemptStep(a) PROVE WatchInv' /\ HeldInv'
  BY <1>4, AttemptStepDriven
<1> QED
  BY <1>1, <1>2, <1>3, <1>4 DEF Next

\* While the campaign is DISCOVERING, a task that waits has somebody to drive it:
\* through lost publications, crashes, retries, repairs, failed pages, pauses and
\* resumes.  Left out are the failures that leave a key behind ("orphan"), take a job
\* from a handler that goes on ("expire") or lose the answer of a commit ("ack"), and a
\* resume that overtakes a handler of the generation before.
THEOREM WaitingStaysDriven ==
  QuietFaults => (Spec /\ [][CalmStart]_vars => []WaitingIsDriven)
<1> SUFFICES ASSUME QuietFaults PROVE Spec /\ [][CalmStart]_vars => []WaitingIsDriven
  OBVIOUS
<1>1. Init => SoleClaims /\ WatchInv /\ HeldInv
  BY InitDriven DEF Init, SoleClaims, IdleAttempt, ClaimSteps
<1>2. DiscoveryInv /\ SoleClaims /\ [Next]_vars => SoleClaims'
  BY NextIsSole DEF QuietFaults
<1>3. DiscoveryInv /\ DiscoveryInv' /\ SoleClaims /\ WatchInv /\ HeldInv
        /\ [Next]_vars /\ [CalmStart]_vars => WatchInv' /\ HeldInv'
  BY NextDriven
<1>4. DiscoveryInv /\ WatchInv /\ HeldInv => WaitingIsDriven
  BY HeldIsDriven
<1> QED
  BY <1>1, <1>2, <1>3, <1>4, DiscoveryInvariant, PTL DEF Spec
=============================================================================
