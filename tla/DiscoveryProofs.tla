--------------------------- MODULE DiscoveryProofs ---------------------------
(***************************************************************************)
(* Proofs about Discovery, for any numbers of tasks, attempts, planners,   *)
(* requests, pages and retries and every choice of faults.                 *)
(*                                                                         *)
(* That a key may be reserved, sent, begun and given back rests on who     *)
(* holds it: a live attempt holds an active job, a sender a reservation.   *)
(* That a page is persisted in its turn rests on the cursor being that of  *)
(* the page, which everybody who has read the row remembers.  DiscoveryInv *)
(* collects what is needed; CampaignInv is part of it, and its lemmas are  *)
(* used again here.                                                        *)
(***************************************************************************)
EXTENDS Discovery, CampaignProofs, FiniteSetTheorems

\* The types of the discovery variables, one by one.
TaskRows == [status : TaskStatuses, page : Pages, cursor : Cursors,
             attempts : Nat, results : Nat, unique : Nat]

AttemptRecords == [pc : AttemptSteps, key : Keys \cup {NoKey}, live : BOOLEAN,
                   cursor : Cursors, target : Keys \cup {NoKey},
                   result : Results \cup {NoResult}]

TaskShape == task \in [Tasks -> TaskRows]
JobsShape == jobs \in [Keys -> Jobs]
AttemptShape == attempt \in [Attempts -> AttemptRecords]
FanoutShape == fanout \in [Planners -> [todo : SUBSET Keys, key : Keys \cup {NoKey}]]
CountShape ==
  /\ sources \subseteq Tasks \X Ids
  /\ usage \in [requests : Nat, results : Nat, errors : Nat]
  /\ delivered \in [Tasks -> Seq(Pages)]

\* The generations in which the campaign was DISCOVERING, or may have been.
PastVersions ==
  {v \in Versions : /\ v <= campaign.version
                    /\ v = campaign.version => campaign.status = "DISCOVERING"}

\* The keys that a job may be published for.
Reached == {k \in Keys : k.page <= task[k.task].page /\ k.version \in PastVersions}

\* The cursor that a task has at a page.
CursorOf(page) == IF page = 1 THEN NoCursor ELSE page

\* The row of a task that goes on has the cursor of its page, and the pages before
\* it are those that were persisted.
TaskInv ==
  \A t \in Tasks :
    /\ task[t].status # "COMPLETED" => task[t].cursor = CursorOf(task[t].page)
    /\ Len(delivered[t]) = IF task[t].status = "COMPLETED"
                           THEN task[t].page ELSE task[t].page - 1

\* Jobs are published for reached keys, and have tries left until they are begun.
JobsInv ==
  \A k \in Keys :
    /\ jobs[k].state # "none" => k \in Reached
    /\ jobs[k].state \in {"none", "reserved", "queued"} => jobs[k].tries <= RetryLimit

\* What an attempt remembers of the row it read, and of the result.
Remembers(r, keys) ==
  /\ r.pc # "idle" => r.key \in keys
  /\ r.pc \in {"claim", "usage", "call", "commit", "fail", "undo"}
       => r.cursor = CursorOf(r.key.page)
  /\ r.pc = "commit" => /\ r.result \in Results /\ r.result.page = r.key.page
                        /\ r.result.next \in NextCursors(r.key.page)
  /\ r.pc \in {"reserve", "send"} => r.target \in keys

AttemptInv == \A a \in Attempts : Remembers(attempt[a], Reached)

\* A live attempt holds its job, alone.
LiveInv ==
  \A a \in Attempts :
    attempt[a].live =>
      /\ attempt[a].pc # "idle"
      /\ jobs[attempt[a].key].state = "active"
      /\ \A b \in Attempts :
           attempt[b].live /\ attempt[b].key = attempt[a].key => b = a

\* A sender, attempt or planner, holds its reservation, alone.
SendInv ==
  /\ \A a \in Attempts :
       attempt[a].pc = "send" =>
         /\ jobs[attempt[a].target].state = "reserved"
         /\ \A b \in Attempts :
              attempt[b].pc = "send" /\ attempt[b].target = attempt[a].target => b = a
  /\ \A p \in Planners :
       planner[p].pc = "send" =>
         /\ fanout[p].key \in fanout[p].todo
         /\ jobs[fanout[p].key].state = "reserved"
         /\ \A q \in Planners :
              planner[q].pc = "send" /\ fanout[q].key = fanout[p].key => q = p
  /\ \A a \in Attempts, p \in Planners :
       attempt[a].pc = "send" /\ planner[p].pc = "send"
         => fanout[p].key # attempt[a].target

\* Planners schedule tasks of a generation that was DISCOVERING, at pages reached.
FanoutInv ==
  \A p \in Planners :
    /\ planner[p].pc \in {"tasks", "schedule", "send"} => planner[p].version \in PastVersions
    /\ fanout[p].todo \subseteq Reached

DiscoveryInv ==
  /\ CampaignInv
  /\ TaskShape /\ JobsShape /\ AttemptShape /\ FanoutShape /\ CountShape
  /\ TaskInv /\ JobsInv /\ AttemptInv /\ LiveInv /\ SendInv /\ FanoutInv
-----------------------------------------------------------------------------
LEMMA TypesOfInv == DiscoveryInv => TypeOK
BY DEF DiscoveryInv, CampaignInv, TypeOK, TaskShape, JobsShape, AttemptShape, FanoutShape,
       CountShape, TaskRows, AttemptRecords

\* What was a generation of discovery stays one.
LEMMA PastGrows ==
  ASSUME CampaignTypeOK, CampaignTypeOK',
         campaign' = campaign \/ campaign'.version = campaign.version + 1
  PROVE  PastVersions \subseteq PastVersions'
BY DEF PastVersions, CampaignTypeOK, Versions

\* A key that is reached stays so, when no task goes back.
LEMMA ReachedGrows ==
  ASSUME TaskShape, TaskShape', PastVersions \subseteq PastVersions',
         \A t \in Tasks : task'[t].page >= task[t].page
  PROVE  Reached \subseteq Reached'
<1> SUFFICES ASSUME NEW k \in Reached PROVE k \in Reached'
  OBVIOUS
<1>1. k \in Keys /\ k.task \in Tasks /\ k.page \in Nat
  BY DEF Reached, Keys, Pages
<1>2. task[k.task].page \in Nat /\ task'[k.task].page \in Nat
  BY <1>1 DEF TaskShape, TaskRows, Pages
<1>3. k.page <= task'[k.task].page /\ k.version \in PastVersions'
  BY <1>1, <1>2 DEF Reached
<1> QED
  BY <1>1, <1>3 DEF Reached

\* Remembering is not disturbed by more keys.
LEMMA RemembersMore ==
  ASSUME NEW r, NEW S, NEW T, S \subseteq T, Remembers(r, S)
  PROVE  Remembers(r, T)
BY DEF Remembers

\* The attempts, when one of them moves.
LEMMA AttemptMoves ==
  ASSUME AttemptShape, AttemptInv, Reached \subseteq Reached',
         NEW a \in Attempts, NEW r \in AttemptRecords, Remembers(r, Reached'),
         attempt' = [attempt EXCEPT ![a] = r]
  PROVE  AttemptShape' /\ AttemptInv'
<1>1. AttemptShape'
  BY DEF AttemptShape
<1>2. \A b \in Attempts : attempt'[b] = IF b = a THEN r ELSE attempt[b]
  BY DEF AttemptShape
<1>3. \A b \in Attempts : Remembers(attempt[b], Reached')
  BY RemembersMore DEF AttemptInv
<1>4. ASSUME NEW b \in Attempts PROVE Remembers(attempt'[b], Reached')
  <2>1. CASE b = a
    BY <2>1, <1>2
  <2>2. CASE b # a
    <3>1. attempt'[b] = attempt[b]
      BY <2>2, <1>2
    <3> QED
      BY <3>1, <1>3
  <2> QED
    BY <2>1, <2>2
<1> QED
  BY <1>1, <1>4 DEF AttemptInv
-----------------------------------------------------------------------------
\* The initial state.
LEMMA DiscoveryInit == Init => DiscoveryInv
<1> SUFFICES ASSUME Init PROVE DiscoveryInv
  OBVIOUS
<1> USE DiscoveryAssumption, RetryLimitAssumption, CampaignAssumption DEF Init
<1>1. CampaignInv
  BY InitInv
<1>2. TaskShape /\ JobsShape
  <2>1. 1 \in Pages /\ 0 \in Cursors
    BY DEF Pages, Cursors, NoCursor
  <2>2. NoJob \in Jobs
    BY DEF Jobs, JobStates, NoJob
  <2> QED
    BY <2>1, <2>2 DEF TaskShape, JobsShape, TaskRows, TaskStatuses, NoCursor
<1>3. AttemptShape /\ FanoutShape
  <2>1. IdleAttempt \in AttemptRecords
    BY DEF IdleAttempt, AttemptRecords, AttemptSteps, Cursors
  <2>2. NoFanout \in [todo : SUBSET Keys, key : Keys \cup {NoKey}]
    BY DEF NoFanout
  <2> QED
    BY <2>1, <2>2 DEF AttemptShape, FanoutShape
<1>4. CountShape
  BY DEF CountShape
<1>5. TaskInv
  BY DEF TaskInv, CursorOf
<1>6. JobsInv
  BY DEF JobsInv, NoJob
<1>7. AttemptInv /\ LiveInv
  BY DEF AttemptInv, LiveInv, Remembers, IdleAttempt
<1>8. SendInv /\ FanoutInv
  BY DEF SendInv, FanoutInv, IdleAttempt, NoFanout, CampaignInit, IdlePlanner
<1> QED
  BY <1>1, <1>2, <1>3, <1>4, <1>5, <1>6, <1>7, <1>8 DEF DiscoveryInv
-----------------------------------------------------------------------------
(***************************************************************************)
(* Steps of Campaign alone.                                                *)
(***************************************************************************)
CampaignPart == UserNext \/ RequestNext \/ PlannerNext

LEMMA CampaignPartInv ==
  ASSUME CampaignInv, CampaignPart
  PROVE  CampaignInv'
BY RequestStepInv, PlannerStepInv DEF CampaignPart, PlannerNext

\* The row moves to a new generation or not at all.
LEMMA CampaignPartMoves ==
  ASSUME CampaignPart
  PROVE  campaign' = campaign \/ campaign'.version = campaign.version + 1
<1>1. CASE UserNext
  BY <1>1 DEF UserNext, Start, Resume, Publish, Pause, Cancel, Transition, Moved
<1>2. CASE RequestNext
  BY <1>2 DEF RequestNext, ReservePlan, SendPlan, PublishFails, Rollback, ApiCrash, Moved
<1>3. CASE PlannerNext
  BY <1>3 DEF PlannerNext, FetchPlan, LoadForPlan, PersistPlan, Reload, Handoff, Confirm,
              PlannerExpire, Moved
<1> QED
  BY <1>1, <1>2, <1>3 DEF CampaignPart

\* A planner keeps its version from "tasks" on, and takes that of a campaign that is
\* DISCOVERING when it gets there.
LEMMA PlannersKeepVersion ==
  ASSUME CampaignInv, CampaignPart, NEW p \in Planners,
         planner'[p].pc \in {"tasks", "schedule", "send"}
  PROVE  \/ planner'[p].pc = planner[p].pc /\ planner'[p].version = planner[p].version
         \/ /\ campaign' = campaign /\ campaign.status = "DISCOVERING"
            /\ planner'[p].pc = "tasks" /\ planner'[p].version = campaign.version
<1> USE DEF CampaignInv, CampaignTypeOK
<1>1. CASE UserNext
  BY <1>1 DEF UserNext, Start, Resume, Publish, Pause, Cancel
<1>2. CASE RequestNext
  BY <1>2 DEF RequestNext, ReservePlan, SendPlan, PublishFails, Rollback, ApiCrash
<1>3. CASE PlannerNext
  <2> PICK q \in Planners :
        \/ FetchPlan(q) \/ LoadForPlan(q) \/ PersistPlan(q) \/ Reload(q)
        \/ Handoff(q) \/ Confirm(q) \/ PlannerExpire(q)
    BY <1>3 DEF PlannerNext
  <2>1. CASE FetchPlan(q)
    BY <2>1 DEF FetchPlan
  <2>2. CASE LoadForPlan(q)
    BY <2>2 DEF LoadForPlan, PlannerReturns, PlannerThrows, PlannerGoes, IdlePlanner
  <2>3. CASE PersistPlan(q)
    BY <2>3 DEF PersistPlan, PlannerGoes
  <2>4. CASE Reload(q)
    BY <2>4 DEF Reload, EnterTasks, PlannerReturns, PlannerThrows, PlannerGoes, IdlePlanner
  <2>5. CASE Handoff(q)
    BY <2>5 DEF Handoff, PlannerGoes
  <2>6. CASE Confirm(q)
    BY <2>6 DEF Confirm, EnterTasks, PlannerReturns, PlannerThrows, PlannerGoes, IdlePlanner
  <2>7. CASE PlannerExpire(q)
    BY <2>7 DEF PlannerExpire
  <2> QED
    BY <2>1, <2>2, <2>3, <2>4, <2>5, <2>6, <2>7
<1> QED
  BY <1>1, <1>2, <1>3 DEF CampaignPart

LEMMA CampaignStepDiscovery ==
  ASSUME DiscoveryInv, CampaignStep
  PROVE  DiscoveryInv'
<1>1. CampaignPart /\ UNCHANGED discoveryVars
  BY DEF CampaignStep, CampaignPart
<1>2. CampaignInv /\ CampaignInv' /\ CampaignTypeOK /\ CampaignTypeOK'
  BY <1>1, CampaignPartInv DEF DiscoveryInv, CampaignInv
<1>3. PastVersions \subseteq PastVersions'
  BY <1>1, <1>2, PastGrows, CampaignPartMoves
<1>4. TaskShape' /\ JobsShape' /\ AttemptShape' /\ FanoutShape' /\ CountShape'
  BY <1>1 DEF DiscoveryInv, discoveryVars, TaskShape, JobsShape, AttemptShape, FanoutShape,
              CountShape
<1>5. Reached \subseteq Reached'
  <2>1. \A t \in Tasks : task'[t].page >= task[t].page
    BY <1>1 DEF DiscoveryInv, discoveryVars, TaskShape, TaskRows, Pages
  <2> QED
    BY <2>1, <1>3, <1>4, ReachedGrows DEF DiscoveryInv
<1>6. TaskInv'
  BY <1>1 DEF DiscoveryInv, discoveryVars, TaskInv
<1>7. JobsInv'
  BY <1>1, <1>5 DEF DiscoveryInv, discoveryVars, JobsInv
<1>8. AttemptInv'
  BY <1>1, <1>5, RemembersMore DEF DiscoveryInv, discoveryVars, AttemptInv
<1>9. LiveInv'
  BY <1>1 DEF DiscoveryInv, discoveryVars, LiveInv
<1>10. SendInv'
  <2>1. \A p \in Planners : planner'[p].pc = "send" => planner[p].pc = "send"
    BY <1>1, <1>2, PlannersKeepVersion
  <2> QED
    BY <1>1, <2>1 DEF DiscoveryInv, discoveryVars, SendInv
<1>11. FanoutInv'
  <2>1. ASSUME NEW p \in Planners, planner'[p].pc \in {"tasks", "schedule", "send"}
        PROVE  planner'[p].version \in PastVersions'
    <3>1. CASE planner'[p].pc = planner[p].pc /\ planner'[p].version = planner[p].version
      BY <2>1, <3>1, <1>3 DEF DiscoveryInv, FanoutInv
    <3>2. CASE /\ campaign' = campaign /\ campaign.status = "DISCOVERING"
               /\ planner'[p].version = campaign.version
      BY <3>2, <1>2 DEF PastVersions, CampaignTypeOK, Versions
    <3> QED
      BY <2>1, <3>1, <3>2, <1>1, <1>2, PlannersKeepVersion
  <2>2. \A p \in Planners : fanout'[p].todo \subseteq Reached'
    BY <1>1, <1>5 DEF DiscoveryInv, discoveryVars, FanoutInv
  <2> QED
    BY <2>1, <2>2 DEF FanoutInv
<1> QED
  BY <1>2, <1>4, <1>6, <1>7, <1>8, <1>9, <1>10, <1>11 DEF DiscoveryInv
-----------------------------------------------------------------------------
(***************************************************************************)
(* Steps of the jobs.                                                      *)
(***************************************************************************)
\* One job goes to another state.
LEMMA JobMoves ==
  ASSUME JobsShape, JobsInv, Reached \subseteq Reached',
         NEW k \in Keys, NEW s \in JobStates, jobs' = [jobs EXCEPT ![k].state = s],
         s # "none" => k \in Reached',
         s \in {"none", "reserved", "queued"} => jobs[k].tries <= RetryLimit
  PROVE  /\ JobsShape' /\ JobsInv'
         /\ \A l \in Keys : jobs'[l].state = IF l = k THEN s ELSE jobs[l].state
<1>1. /\ jobs' \in [Keys -> Jobs] /\ jobs'[k].state = s
      /\ \A l \in Keys : jobs'[l].tries = jobs[l].tries
      /\ \A l \in Keys : l # k => jobs'[l] = jobs[l]
  BY StateUpdate DEF JobsShape
<1>2. JobsInv'
  BY <1>1 DEF JobsInv
<1> QED
  BY <1>1, <1>2 DEF JobsShape

\* Nobody's live job is at a key that is not active, nobody's reservation at one
\* that is not reserved.
LEMMA HeldKeys ==
  ASSUME LiveInv, SendInv, NEW k
  PROVE  /\ jobs[k].state # "active" =>
              \A a \in Attempts : attempt[a].live => attempt[a].key # k
         /\ jobs[k].state # "reserved" =>
              /\ \A a \in Attempts : attempt[a].pc = "send" => attempt[a].target # k
              /\ \A p \in Planners : planner[p].pc = "send" => fanout[p].key # k
BY DEF LiveInv, SendInv

\* When nobody becomes a sender, the senders that stay hold what they held.
LEMMA SendersStay ==
  ASSUME SendInv,
         \A a \in Attempts :
           attempt'[a].pc = "send" =>
             /\ attempt[a].pc = "send" /\ attempt'[a].target = attempt[a].target
             /\ jobs'[attempt[a].target].state = jobs[attempt[a].target].state,
         \A p \in Planners :
           planner'[p].pc = "send" =>
             /\ planner[p].pc = "send" /\ fanout'[p] = fanout[p]
             /\ jobs'[fanout[p].key].state = jobs[fanout[p].key].state
  PROVE  SendInv'
<1>1. \A a \in Attempts :
        attempt'[a].pc = "send" =>
          /\ jobs'[attempt'[a].target].state = "reserved"
          /\ \A b \in Attempts :
               attempt'[b].pc = "send" /\ attempt'[b].target = attempt'[a].target => b = a
  BY DEF SendInv
<1>2. \A p \in Planners :
        planner'[p].pc = "send" =>
          /\ fanout'[p].key \in fanout'[p].todo
          /\ jobs'[fanout'[p].key].state = "reserved"
          /\ \A q \in Planners :
               planner'[q].pc = "send" /\ fanout'[q].key = fanout'[p].key => q = p
  BY DEF SendInv
<1>3. \A a \in Attempts, p \in Planners :
        attempt'[a].pc = "send" /\ planner'[p].pc = "send"
          => fanout'[p].key # attempt'[a].target
  BY DEF SendInv
<1> QED
  BY <1>1, <1>2, <1>3 DEF SendInv

\* When nobody begins a job, the attempts that stay live hold what they held.
LEMMA LiveStay ==
  ASSUME LiveInv,
         \A a \in Attempts :
           attempt'[a].live =>
             /\ attempt[a].live /\ attempt'[a].key = attempt[a].key
             /\ attempt'[a].pc # "idle"
             /\ jobs'[attempt[a].key].state = jobs[attempt[a].key].state
  PROVE  LiveInv'
BY DEF LiveInv

\* What the planner's steps leave alone.
LEMMA ScheduleFrame ==
  ASSUME DiscoveryInv, CampaignInv',
         UNCHANGED <<campaign, task, attempt, sources, usage, delivered>>
  PROVE  /\ Reached' = Reached /\ PastVersions' = PastVersions
         /\ TaskShape' /\ AttemptShape' /\ CountShape' /\ TaskInv' /\ AttemptInv'
<1>1. PastVersions' = PastVersions
  BY DEF PastVersions
<1>2. Reached' = Reached
  BY <1>1 DEF Reached
<1>3. TaskShape' /\ AttemptShape' /\ CountShape' /\ TaskInv'
  BY DEF DiscoveryInv, TaskShape, AttemptShape, CountShape, TaskInv
<1>4. AttemptInv'
  BY <1>2 DEF DiscoveryInv, AttemptInv
<1> QED
  BY <1>1, <1>2, <1>3, <1>4

\* The list of tasks: their keys are reached.
LEMMA ListTasksInv ==
  ASSUME DiscoveryInv, NEW p \in Planners, ListTasks(p)
  PROVE  DiscoveryInv'
<1> DEFINE todo == {[task |-> t, version |-> planner[p].version,
                     page |-> task[t].page] : t \in Schedulable}
<1>1. /\ planner[p].pc = "tasks" /\ PlannerGoes(p, "schedule")
      /\ fanout' = [fanout EXCEPT ![p].todo = todo]
      /\ UNCHANGED <<campaign, planned, request, task, jobs, attempt, sources, usage, delivered>>
  BY DEF ListTasks
<1>2. CampaignInv'
  <2>1. planned \in BOOLEAN /\ planned /\ "schedule" \in PlannerSteps
    BY <1>1 DEF DiscoveryInv, CampaignInv, CampaignTypeOK, PlannerHasPlanned, PlannerSteps
  <2>2. ~(campaign.status = "PLANNING" /\ campaign.version = planner[p].job)
    BY <1>1 DEF DiscoveryInv, CampaignInv, PlannerHandedOff
  <2> QED
    BY <1>1, <2>1, <2>2, PlannerGoesInv DEF DiscoveryInv
<1>3. /\ Reached' = Reached /\ PastVersions' = PastVersions
      /\ TaskShape' /\ AttemptShape' /\ CountShape' /\ TaskInv' /\ AttemptInv'
  BY <1>1, <1>2, ScheduleFrame
<1>4. planner[p].version \in PastVersions
  BY <1>1 DEF DiscoveryInv, FanoutInv
<1>5. todo \subseteq Reached
  <2> SUFFICES ASSUME NEW t \in Tasks
               PROVE  [task |-> t, version |-> planner[p].version, page |-> task[t].page]
                        \in Reached
    BY DEF Schedulable
  <2>1. task[t].page \in Pages /\ task[t].page \in Nat
    BY DEF DiscoveryInv, TaskShape, TaskRows, Pages
  <2> QED
    BY <2>1, <1>4 DEF Reached, Keys, PastVersions
<1>6. \A q \in Planners : /\ q # p => planner'[q] = planner[q] /\ fanout'[q] = fanout[q]
                          /\ fanout'[p].todo = todo /\ planner'[p].pc = "schedule"
                          /\ planner'[p].version = planner[p].version
  BY <1>1 DEF PlannerGoes, DiscoveryInv, FanoutShape, CampaignInv, CampaignTypeOK
<1>7. FanoutShape'
  <2>1. todo \in SUBSET Keys
    BY <1>5 DEF Reached
  <2> HIDE DEF todo
  <2> QED
    BY <1>1, <2>1 DEF DiscoveryInv, FanoutShape
<1>8. FanoutInv'
  BY <1>3, <1>4, <1>5, <1>6 DEF DiscoveryInv, FanoutInv
<1>9. JobsShape' /\ JobsInv' /\ LiveInv'
  BY <1>1, <1>3 DEF DiscoveryInv, JobsShape, JobsInv, LiveInv
<1>10. SendInv'
  <2>1. \A q \in Planners : planner'[q].pc = "send" => planner[q].pc = "send" /\ q # p
    BY <1>6
  <2> QED
    BY <1>1, <1>6, <2>1, SendersStay DEF DiscoveryInv
<1> QED
  BY <1>2, <1>3, <1>7, <1>8, <1>9, <1>10 DEF DiscoveryInv

\* One task of the loop: its key is reserved, or taken.
LEMMA ScheduleTaskInv ==
  ASSUME DiscoveryInv, NEW p \in Planners, ScheduleTask(p)
  PROVE  DiscoveryInv'
<1>1. /\ planner[p].pc = "schedule"
      /\ UNCHANGED <<campaign, planned, request, task, attempt, sources, usage, delivered>>
  BY DEF ScheduleTask
<1>2. PICK k \in fanout[p].todo :
        \/ /\ Is(jobs, k, "none") /\ jobs' = Reserve(jobs, k)
           /\ fanout' = [fanout EXCEPT ![p].key = k] /\ PlannerGoes(p, "send")
        \/ /\ fanout' = [fanout EXCEPT ![p].todo = @ \ {k}]
           /\ UNCHANGED <<jobs, planner, planJobs>>
  BY DEF ScheduleTask
<1>k. k \in Keys /\ k \in Reached
  BY DEF DiscoveryInv, FanoutInv, Reached
<1>3. CampaignInv'
  <2>1. planned \in BOOLEAN /\ planned /\ "send" \in PlannerSteps
    BY <1>1 DEF DiscoveryInv, CampaignInv, CampaignTypeOK, PlannerHasPlanned, PlannerSteps
  <2>2. ~(campaign.status = "PLANNING" /\ campaign.version = planner[p].job)
    BY <1>1 DEF DiscoveryInv, CampaignInv, PlannerHandedOff
  <2>3. CASE PlannerGoes(p, "send")
    BY <1>1, <2>1, <2>2, <2>3, PlannerGoesInv DEF DiscoveryInv
  <2>4. CASE UNCHANGED <<planner, planJobs>>
    BY <1>1, <2>4, StutterInv DEF DiscoveryInv, campaignVars
  <2> QED
    BY <1>2, <2>3, <2>4
<1>4. /\ Reached' = Reached /\ PastVersions' = PastVersions
      /\ TaskShape' /\ AttemptShape' /\ CountShape' /\ TaskInv' /\ AttemptInv'
  BY <1>1, <1>3, ScheduleFrame
<1>5. CASE /\ Is(jobs, k, "none") /\ jobs' = Reserve(jobs, k)
           /\ fanout' = [fanout EXCEPT ![p].key = k] /\ PlannerGoes(p, "send")
  <2>1. /\ JobsShape' /\ JobsInv'
        /\ \A l \in Keys : jobs'[l].state = IF l = k THEN "reserved" ELSE jobs[l].state
    <3>1. jobs' = [jobs EXCEPT ![k].state = "reserved"] /\ jobs[k].state = "none"
      BY <1>5 DEF Reserve, Is
    <3>2. jobs[k].tries <= RetryLimit /\ "reserved" \in JobStates
      BY <3>1, <1>k DEF DiscoveryInv, JobsInv, JobStates
    <3> QED
      BY <3>1, <3>2, <1>k, <1>4, JobMoves DEF DiscoveryInv
  <2>2. \A q \in Planners : /\ q # p => planner'[q] = planner[q] /\ fanout'[q] = fanout[q]
                            /\ fanout'[p].todo = fanout[p].todo /\ fanout'[p].key = k
                            /\ planner'[p].pc = "send"
                            /\ planner'[p].version = planner[p].version
    BY <1>5 DEF PlannerGoes, DiscoveryInv, FanoutShape, CampaignInv, CampaignTypeOK
  <2>3. FanoutShape'
    BY <1>5, <1>k DEF DiscoveryInv, FanoutShape
  <2>4. FanoutInv'
    BY <1>1, <1>4, <2>2 DEF DiscoveryInv, FanoutInv
  <2>5. /\ \A a \in Attempts : attempt[a].live => attempt[a].key # k
        /\ \A a \in Attempts : attempt[a].pc = "send" => attempt[a].target # k
        /\ \A q \in Planners : planner[q].pc = "send" => fanout[q].key # k
    BY <1>5, HeldKeys DEF DiscoveryInv, Is
  <2>6. LiveInv'
    <3>1. \A a \in Attempts : attempt[a].live => attempt[a].key \in Keys
      BY DEF DiscoveryInv, LiveInv, AttemptInv, Remembers, Reached
    <3> QED
      BY <1>1, <2>1, <2>5, <3>1 DEF DiscoveryInv, LiveInv
  <2>7. SendInv'
    <3>1. \A a \in Attempts : attempt[a].pc = "send" => attempt[a].target \in Keys
      BY DEF DiscoveryInv, AttemptInv, Remembers, Reached
    <3>2. \A q \in Planners : planner[q].pc = "send" => fanout[q].key \in Keys
      BY DEF DiscoveryInv, FanoutShape, SendInv
    <3> QED
      BY <1>1, <1>k, <2>1, <2>2, <2>5, <3>1, <3>2 DEF DiscoveryInv, SendInv
  <2> QED
    BY <1>3, <1>4, <2>1, <2>3, <2>4, <2>6, <2>7 DEF DiscoveryInv
<1>6. CASE /\ fanout' = [fanout EXCEPT ![p].todo = @ \ {k}]
           /\ UNCHANGED <<jobs, planner, planJobs>>
  <2>1. \A q \in Planners : /\ q # p => fanout'[q] = fanout[q]
                            /\ fanout'[p].todo \subseteq fanout[p].todo
    BY <1>6 DEF DiscoveryInv, FanoutShape
  <2>2. FanoutShape'
    BY <1>6 DEF DiscoveryInv, FanoutShape
  <2>3. FanoutInv'
    BY <1>4, <1>6, <2>1 DEF DiscoveryInv, FanoutInv
  <2>4. JobsShape' /\ JobsInv' /\ LiveInv'
    BY <1>1, <1>4, <1>6 DEF DiscoveryInv, JobsShape, JobsInv, LiveInv
  <2>5. SendInv'
    BY <1>1, <1>6, <2>1 DEF DiscoveryInv, SendInv
  <2> QED
    BY <1>3, <1>4, <2>2, <2>3, <2>4, <2>5 DEF DiscoveryInv
<1> QED
  BY <1>2, <1>5, <1>6

\* The key is sent.
LEMMA SendTaskInv ==
  ASSUME DiscoveryInv, NEW p \in Planners, SendTask(p)
  PROVE  DiscoveryInv'
<1> DEFINE k == fanout[p].key
<1>1. /\ planner[p].pc = "send" /\ jobs' = Sent(jobs, k) /\ PlannerGoes(p, "schedule")
      /\ fanout' = [fanout EXCEPT ![p] = [todo |-> @.todo \ {@.key}, key |-> NoKey]]
      /\ UNCHANGED <<campaign, planned, request, task, attempt, sources, usage, delivered>>
  BY DEF SendTask
<1>k. k \in Keys /\ k \in Reached /\ jobs[k].state = "reserved"
  BY <1>1 DEF DiscoveryInv, FanoutInv, SendInv, Reached
<1>2. CampaignInv'
  <2>1. planned \in BOOLEAN /\ planned /\ "schedule" \in PlannerSteps
    BY <1>1 DEF DiscoveryInv, CampaignInv, CampaignTypeOK, PlannerHasPlanned, PlannerSteps
  <2>2. ~(campaign.status = "PLANNING" /\ campaign.version = planner[p].job)
    BY <1>1 DEF DiscoveryInv, CampaignInv, PlannerHandedOff
  <2> QED
    BY <1>1, <2>1, <2>2, PlannerGoesInv DEF DiscoveryInv
<1>3. /\ Reached' = Reached /\ PastVersions' = PastVersions
      /\ TaskShape' /\ AttemptShape' /\ CountShape' /\ TaskInv' /\ AttemptInv'
  BY <1>1, <1>2, ScheduleFrame
<1>4. /\ JobsShape' /\ JobsInv'
      /\ \A l \in Keys : jobs'[l].state = IF l = k THEN "queued" ELSE jobs[l].state
  <2>1. jobs' = [jobs EXCEPT ![k].state = "queued"]
    BY <1>1 DEF Sent
  <2>2. jobs[k].tries <= RetryLimit /\ "queued" \in JobStates
    BY <1>k DEF DiscoveryInv, JobsInv, JobStates
  <2> HIDE DEF k
  <2> QED
    BY <2>1, <2>2, <1>k, <1>3, JobMoves DEF DiscoveryInv
<1>5. \A q \in Planners : /\ q # p => planner'[q] = planner[q] /\ fanout'[q] = fanout[q]
                          /\ fanout'[p].todo \subseteq fanout[p].todo
                          /\ planner'[p].pc = "schedule"
                          /\ planner'[p].version = planner[p].version
  BY <1>1 DEF PlannerGoes, DiscoveryInv, FanoutShape, CampaignInv, CampaignTypeOK
<1>6. FanoutShape'
  BY <1>1 DEF DiscoveryInv, FanoutShape
<1>7. FanoutInv'
  BY <1>1, <1>3, <1>5 DEF DiscoveryInv, FanoutInv
<1>8. LiveInv'
  <2>1. \A a \in Attempts : attempt[a].live =>
          attempt[a].pc # "idle" /\ attempt[a].key \in Keys /\ attempt[a].key # k
    BY <1>k DEF DiscoveryInv, LiveInv, AttemptInv, Remembers, Reached
  <2> HIDE DEF k
  <2> QED
    BY <1>1, <1>4, <2>1, LiveStay DEF DiscoveryInv
<1>9. SendInv'
  <2>1. \A a \in Attempts : attempt[a].pc = "send" =>
          attempt[a].target \in Keys /\ attempt[a].target # k
    BY <1>1 DEF DiscoveryInv, SendInv, AttemptInv, Remembers, Reached
  <2>2. \A q \in Planners : planner'[q].pc = "send" =>
          /\ planner[q].pc = "send" /\ fanout'[q] = fanout[q]
          /\ fanout[q].key \in Keys /\ fanout[q].key # k
    BY <1>1, <1>5 DEF DiscoveryInv, FanoutShape, SendInv
  <2> HIDE DEF k
  <2> QED
    BY <1>1, <1>4, <2>1, <2>2, SendersStay DEF DiscoveryInv
<1> QED
  BY <1>2, <1>3, <1>4, <1>6, <1>7, <1>8, <1>9 DEF DiscoveryInv

\* A planner that is left gives its list up.
LEMMA PlannerLeaves ==
  ASSUME DiscoveryInv, CampaignInv', NEW p \in Planners,
         planner' = [planner EXCEPT ![p] = IdlePlanner],
         fanout' = [fanout EXCEPT ![p] = NoFanout] \/ fanout' = fanout,
         PastVersions' = PastVersions, Reached' = Reached
  PROVE  /\ FanoutShape' /\ FanoutInv'
         /\ \A q \in Planners : planner'[q].pc = "send" =>
              planner[q].pc = "send" /\ q # p /\ fanout'[q] = fanout[q]
<1>1. \A q \in Planners : /\ q # p => planner'[q] = planner[q] /\ fanout'[q] = fanout[q]
                          /\ fanout'[p].todo \subseteq fanout[p].todo
                          /\ planner'[p].pc = "idle"
  BY DEF DiscoveryInv, FanoutShape, CampaignInv, CampaignTypeOK, IdlePlanner, NoFanout
<1>2. FanoutShape'
  BY DEF DiscoveryInv, FanoutShape, NoFanout
<1>3. FanoutInv'
  BY <1>1 DEF DiscoveryInv, FanoutInv
<1> QED
  BY <1>1, <1>2, <1>3

\* The send fails: the key is free again, or stays reserved.
LEMMA SendTaskFailsInv ==
  ASSUME DiscoveryInv, NEW p \in Planners, SendTaskFails(p)
  PROVE  DiscoveryInv'
<1> DEFINE k == fanout[p].key
<1>1. /\ planner[p].pc = "send" /\ PlannerThrows(p)
      /\ jobs' = Release(jobs, k) \/ jobs' = jobs
      /\ fanout' = [fanout EXCEPT ![p] = NoFanout]
      /\ UNCHANGED <<campaign, planned, request, task, attempt, sources, usage, delivered>>
  BY DEF SendTaskFails
<1>k. k \in Keys /\ k \in Reached /\ jobs[k].state = "reserved"
  BY <1>1 DEF DiscoveryInv, FanoutInv, SendInv, Reached
<1>2. CampaignInv'
  BY <1>1, PlannerThrowsInv DEF DiscoveryInv
<1>3. /\ Reached' = Reached /\ PastVersions' = PastVersions
      /\ TaskShape' /\ AttemptShape' /\ CountShape' /\ TaskInv' /\ AttemptInv'
  BY <1>1, <1>2, ScheduleFrame
<1>4. /\ JobsShape' /\ JobsInv'
      /\ \A l \in Keys : l # k => jobs'[l].state = jobs[l].state
  <2>1. CASE jobs' = Release(jobs, k)
    <3>1. jobs' = [jobs EXCEPT ![k].state = "none"]
      BY <2>1 DEF Release
    <3>2. jobs[k].tries <= RetryLimit /\ "none" \in JobStates
      BY <1>k DEF DiscoveryInv, JobsInv, JobStates
    <3>3. JobsShape /\ JobsInv /\ Reached \subseteq Reached'
      BY <1>3 DEF DiscoveryInv
    <3> HIDE DEF k
    <3>4. /\ JobsShape' /\ JobsInv'
          /\ \A l \in Keys : jobs'[l].state = IF l = k THEN "none" ELSE jobs[l].state
      BY ONLY <3>1, <3>2, <3>3, <1>k, JobMoves
    <3> QED
      BY <3>4
  <2>2. CASE jobs' = jobs
    BY <2>2, <1>3 DEF DiscoveryInv, JobsShape, JobsInv
  <2> QED
    BY <1>1, <2>1, <2>2
<1>5. /\ FanoutShape' /\ FanoutInv'
      /\ \A q \in Planners : planner'[q].pc = "send" =>
           planner[q].pc = "send" /\ q # p /\ fanout'[q] = fanout[q]
  BY <1>1, <1>2, <1>3, PlannerLeaves DEF PlannerThrows
<1>6. LiveInv'
  <2>1. \A a \in Attempts : attempt[a].live =>
          attempt[a].pc # "idle" /\ attempt[a].key \in Keys /\ attempt[a].key # k
    BY <1>k DEF DiscoveryInv, LiveInv, AttemptInv, Remembers, Reached
  <2> HIDE DEF k
  <2> QED
    BY <1>1, <1>4, <2>1, LiveStay DEF DiscoveryInv
<1>7. SendInv'
  <2>1. \A a \in Attempts : attempt[a].pc = "send" =>
          attempt[a].target \in Keys /\ attempt[a].target # k
    BY <1>1 DEF DiscoveryInv, SendInv, AttemptInv, Remembers, Reached
  <2>2. \A q \in Planners : planner'[q].pc = "send" =>
          /\ planner[q].pc = "send" /\ fanout'[q] = fanout[q]
          /\ fanout[q].key \in Keys /\ fanout[q].key # k
    BY <1>1, <1>5 DEF DiscoveryInv, FanoutShape, SendInv
  <2> HIDE DEF k
  <2> QED
    BY <1>1, <1>4, <2>1, <2>2, SendersStay DEF DiscoveryInv
<1> QED
  BY <1>2, <1>3, <1>4, <1>5, <1>6, <1>7 DEF DiscoveryInv

\* The planner has scheduled everything, or dies.
LEMMA PlannerEndsInv ==
  ASSUME DiscoveryInv, NEW p \in Planners, FinishSchedule(p) \/ PlannerDies(p)
  PROVE  DiscoveryInv'
<1>1. /\ planner[p].pc # "idle"
      /\ planner' = [planner EXCEPT ![p] = IdlePlanner]
      /\ fanout' = [fanout EXCEPT ![p] = NoFanout] \/ fanout' = fanout
      /\ UNCHANGED <<campaign, planned, request, task, jobs, attempt, sources, usage, delivered>>
  BY DEF FinishSchedule, PlannerDies, PlannerCrash, PlannerReturns, PlannerThrows, discoveryVars
<1>2. CampaignInv'
  <2>1. CASE FinishSchedule(p)
    <3>1. ~(campaign.status = "PLANNING" /\ campaign.version = planner[p].job)
      BY <2>1 DEF FinishSchedule, DiscoveryInv, CampaignInv, PlannerHandedOff
    <3>2. PlannerReturns(p) /\ UNCHANGED <<campaign, planned, request>> /\ CampaignInv
      BY <2>1 DEF FinishSchedule, DiscoveryInv
    <3> QED
      BY <1>1, <3>1, <3>2, PlannerReturnsInv
  <2>2. CASE PlannerDies(p)
    BY <2>2, PlannerStepInv DEF PlannerDies, DiscoveryInv
  <2> QED
    BY <2>1, <2>2
<1>3. /\ Reached' = Reached /\ PastVersions' = PastVersions
      /\ TaskShape' /\ AttemptShape' /\ CountShape' /\ TaskInv' /\ AttemptInv'
  BY <1>1, <1>2, ScheduleFrame
<1>4. /\ FanoutShape' /\ FanoutInv'
      /\ \A q \in Planners : planner'[q].pc = "send" =>
           planner[q].pc = "send" /\ q # p /\ fanout'[q] = fanout[q]
  BY <1>1, <1>2, <1>3, PlannerLeaves
<1>5. JobsShape' /\ JobsInv' /\ LiveInv'
  BY <1>1, <1>3 DEF DiscoveryInv, JobsShape, JobsInv, LiveInv
<1>6. SendInv'
  BY <1>1, <1>4, SendersStay DEF DiscoveryInv
<1> QED
  BY <1>2, <1>3, <1>4, <1>5, <1>6 DEF DiscoveryInv

LEMMA ScheduleStepDiscovery ==
  ASSUME DiscoveryInv, NEW p \in Planners, ScheduleStep(p)
  PROVE  DiscoveryInv'
BY ListTasksInv, ScheduleTaskInv, SendTaskInv, SendTaskFailsInv, PlannerEndsInv DEF ScheduleStep
-----------------------------------------------------------------------------
(***************************************************************************)
(* Steps of the task rows and what is counted with them.                   *)
(***************************************************************************)
TasksGoOn ==
  /\ TaskShape' /\ CountShape' /\ TaskInv'
  /\ \A t \in Tasks : task'[t].page >= task[t].page

LEMMA TasksKept ==
  ASSUME DiscoveryInv, UNCHANGED <<task, sources, delivered>>,
         usage' \in [requests : Nat, results : Nat, errors : Nat]
  PROVE  TasksGoOn
<1>1. TaskShape' /\ TaskInv'
  BY DEF DiscoveryInv, TaskShape, TaskInv
<1>2. CountShape'
  BY DEF DiscoveryInv, CountShape
<1>3. \A t \in Tasks : task'[t].page >= task[t].page
  BY DEF DiscoveryInv, TaskShape, TaskRows, Pages
<1> QED
  BY <1>1, <1>2, <1>3 DEF TasksGoOn

\* Only the status of a task, from one that is not final, and its attempts change.
LEMMA TaskStatusMoves ==
  ASSUME DiscoveryInv, NEW t \in Tasks, task[t].status # "COMPLETED",
         NEW s \in TaskStatuses \ {"COMPLETED"}, NEW n \in Nat,
         task' = [task EXCEPT ![t].status = s, ![t].attempts = n],
         UNCHANGED <<sources, usage, delivered>>
  PROVE  TasksGoOn
<1>1. TaskShape'
  BY DEF DiscoveryInv, TaskShape, TaskRows
<1>2. \A u \in Tasks : /\ task'[u].page = task[u].page /\ task'[u].cursor = task[u].cursor
                       /\ task'[u].status = IF u = t THEN s ELSE task[u].status
  BY DEF DiscoveryInv, TaskShape, TaskRows
<1>3. TaskInv'
  <2> SUFFICES ASSUME NEW u \in Tasks
               PROVE  /\ task'[u].status # "COMPLETED" => task'[u].cursor = CursorOf(task'[u].page)
                      /\ Len(delivered'[u]) = IF task'[u].status = "COMPLETED"
                                              THEN task'[u].page ELSE task'[u].page - 1
    BY DEF TaskInv
  <2>1. /\ task[u].status # "COMPLETED" => task[u].cursor = CursorOf(task[u].page)
        /\ Len(delivered[u]) = IF task[u].status = "COMPLETED"
                               THEN task[u].page ELSE task[u].page - 1
    BY DEF DiscoveryInv, TaskInv
  <2>2. task'[u].status = "COMPLETED" <=> task[u].status = "COMPLETED"
    BY <1>2
  <2> QED
    BY <1>2, <2>1, <2>2
<1>4. CountShape'
  BY DEF DiscoveryInv, CountShape
<1>5. \A u \in Tasks : task'[u].page >= task[u].page
  BY <1>2 DEF DiscoveryInv, TaskShape, TaskRows, Pages
<1> QED
  BY <1>1, <1>3, <1>4, <1>5 DEF TasksGoOn

LEMMA FailTaskMoves ==
  ASSUME DiscoveryInv, NEW t \in Tasks, FailTask(t), UNCHANGED <<sources, usage, delivered>>
  PROVE  TasksGoOn
<1>1. CASE task' = task
  <2>1. usage' \in [requests : Nat, results : Nat, errors : Nat]
    BY DEF DiscoveryInv, CountShape
  <2> QED
    BY <1>1, <2>1, TasksKept
<1>2. CASE task[t].status = "RUNNING" /\ task' = [task EXCEPT ![t].status = "FAILED"]
  <2>1. /\ task' = [task EXCEPT ![t].status = "FAILED", ![t].attempts = task[t].attempts]
        /\ task[t].attempts \in Nat
    BY <1>2 DEF DiscoveryInv, TaskShape, TaskRows
  <2>2. "FAILED" \in TaskStatuses \ {"COMPLETED"}
    BY DEF TaskStatuses
  <2> QED
    BY <1>2, <2>1, <2>2, TaskStatusMoves
<1> QED
  BY <1>1, <1>2 DEF FailTask

\* The row of a task with the fields that a page changes.
RowAfter(row, st, pg, cu, n, m) ==
  [status |-> st, page |-> pg, cursor |-> cu, attempts |-> row.attempts,
   results |-> row.results + n, unique |-> row.unique + m]

LEMMA RowMoves ==
  ASSUME NEW row \in TaskRows, NEW st \in TaskStatuses, NEW pg \in Pages, NEW cu \in Cursors,
         NEW n \in Nat, NEW m \in Nat
  PROVE  RowAfter(row, st, pg, cu, n, m) \in TaskRows
BY DEF RowAfter, TaskRows

\* A page is persisted in its turn.
LEMMA PersistMoves ==
  ASSUME DiscoveryInv, NEW k \in Keys, NEW result \in Results, result.page = k.page,
         result.next \in NextCursors(k.page), Persist(k, result)
  PROVE  /\ TasksGoOn
         /\ task'[k.task].page = IF result.next = NoCursor THEN k.page ELSE k.page + 1
         /\ result.next # NoCursor => k.page + 1 \in Pages
<1> DEFINE t == k.task
           new == Advanced(k, result)
<1>0. /\ t \in Tasks /\ k.page \in Pages /\ k.page \in Nat \ {0} /\ k.version \in Versions
      /\ result.ids \subseteq Ids /\ result.page \in Pages /\ MaxPage \in Nat
  BY DiscoveryAssumption DEF Keys, Results, Pages
<1>1. /\ task[t].status = "RUNNING" /\ task[t].page = k.page
      /\ task' = [task EXCEPT ![t] = new]
      /\ sources' = sources \cup NewSources(k, result)
      /\ usage' = [usage EXCEPT !.results = @ + Cardinality(result.ids)]
      /\ delivered' = [delivered EXCEPT ![t] = Append(@, result.page)]
  BY DEF Persist, HoldsClaim
<1>2. result.next # NoCursor => result.next = k.page + 1 /\ k.page + 1 \in Pages
  BY <1>0 DEF NextCursors, Pages
<1>3. Cardinality(result.ids) \in Nat /\ Cardinality(NewSources(k, result)) \in Nat
  <2>1. IsFiniteSet(result.ids)
    BY <1>0, DiscoveryAssumption, FS_Subset
  <2>2. IsFiniteSet({t} \X result.ids)
    BY <2>1, FS_Singleton, FS_Product
  <2>3. NewSources(k, result) \subseteq {t} \X result.ids
    BY DEF NewSources
  <2>4. IsFiniteSet(NewSources(k, result))
    BY <2>2, <2>3, FS_Subset
  <2> QED
    BY <2>1, <2>4, FS_CardinalityType
<1>4. /\ new \in TaskRows
      /\ new.status = (IF result.next = NoCursor THEN "COMPLETED" ELSE "PENDING")
      /\ new.page = (IF result.next = NoCursor THEN k.page ELSE k.page + 1)
      /\ new.cursor = result.next
  <2>1. task[t] \in TaskRows
    BY <1>0 DEF DiscoveryInv, TaskShape
  <2>2. result.next \in Cursors
    BY DEF Results
  <2> DEFINE st == IF result.next = NoCursor THEN "COMPLETED" ELSE "PENDING"
             pg == IF result.next = NoCursor THEN k.page ELSE k.page + 1
             n == Cardinality(result.ids)
             m == Cardinality(NewSources(k, result))
  <2>3. new = [task[t] EXCEPT !.status = st, !.page = pg, !.cursor = result.next,
                              !.results = @ + n, !.unique = @ + m]
    BY DEF Advanced
  <2>4. n \in Nat /\ m \in Nat /\ st \in TaskStatuses /\ pg \in Pages
    BY <1>0, <1>2, <1>3 DEF TaskStatuses
  <2> HIDE DEF n, m, st, pg, new
  <2>5. new = RowAfter(task[t], st, pg, result.next, n, m)
    <3>1. task[t] = [status |-> task[t].status, page |-> task[t].page,
                     cursor |-> task[t].cursor, attempts |-> task[t].attempts,
                     results |-> task[t].results, unique |-> task[t].unique]
      BY <2>1 DEF TaskRows
    <3> QED
      BY <2>3, <3>1 DEF RowAfter
  <2>6. new \in TaskRows
    BY <2>1, <2>2, <2>4, <2>5, RowMoves
  <2>7. new.status = st /\ new.page = pg /\ new.cursor = result.next
    BY <2>5 DEF RowAfter
  <2> QED
    BY <2>6, <2>7 DEF st, pg
<1> HIDE DEF new
<1>5. \A u \in Tasks : task'[u] = IF u = t THEN new ELSE task[u]
  BY <1>1 DEF DiscoveryInv, TaskShape
<1>6. TaskShape'
  BY <1>1, <1>4 DEF DiscoveryInv, TaskShape
<1>7. CountShape'
  <2>1. NewSources(k, result) \subseteq Tasks \X Ids
    BY <1>0 DEF NewSources
  <2>2. delivered' \in [Tasks -> Seq(Pages)]
    BY <1>0, <1>1 DEF DiscoveryInv, CountShape
  <2>3. usage' \in [requests : Nat, results : Nat, errors : Nat]
    <3> DEFINE n == Cardinality(result.ids)
    <3>1. usage' = [usage EXCEPT !.results = @ + n] /\ n \in Nat
      BY <1>1, <1>3
    <3>2. usage \in [requests : Nat, results : Nat, errors : Nat]
      BY DEF DiscoveryInv, CountShape
    <3> HIDE DEF n
    <3> QED
      BY <3>1, <3>2
  <2> QED
    BY <1>1, <2>1, <2>2, <2>3 DEF DiscoveryInv, CountShape
<1>8. TaskInv'
  <2>1. \A u \in Tasks : Len(delivered'[u]) = IF u = t THEN Len(delivered[t]) + 1
                                              ELSE Len(delivered[u])
    BY <1>0, <1>1 DEF DiscoveryInv, CountShape
  <2>2. Len(delivered[t]) = k.page - 1
    BY <1>0, <1>1 DEF DiscoveryInv, TaskInv
  <2>3. new.status # "COMPLETED" => new.cursor = CursorOf(new.page)
    BY <1>0, <1>2, <1>4 DEF CursorOf
  <2>4. ASSUME NEW u \in Tasks, u = t
        PROVE  /\ task'[u].status # "COMPLETED" => task'[u].cursor = CursorOf(task'[u].page)
               /\ Len(delivered'[u]) = IF task'[u].status = "COMPLETED"
                                       THEN task'[u].page ELSE task'[u].page - 1
    BY <1>0, <1>4, <1>5, <2>1, <2>2, <2>3, <2>4
  <2>5. ASSUME NEW u \in Tasks, u # t
        PROVE  task'[u] = task[u] /\ Len(delivered'[u]) = Len(delivered[u])
    BY <1>5, <2>1, <2>5
  <2> QED
    BY <2>4, <2>5 DEF DiscoveryInv, TaskInv
<1>9. \A u \in Tasks : task'[u].page >= task[u].page
  BY <1>0, <1>1, <1>4, <1>5 DEF DiscoveryInv, TaskShape, TaskRows, Pages
<1> QED
  BY <1>0, <1>2, <1>4, <1>5, <1>6, <1>7, <1>8, <1>9 DEF TasksGoOn
-----------------------------------------------------------------------------
(***************************************************************************)
(* Steps of the attempts.                                                  *)
(***************************************************************************)
\* What they leave alone.
LEMMA AttemptFrame ==
  ASSUME DiscoveryInv, UNCHANGED <<campaignVars, fanout>>, TasksGoOn
  PROVE  /\ CampaignInv' /\ FanoutShape' /\ FanoutInv'
         /\ Reached \subseteq Reached' /\ planner' = planner
         /\ TaskShape' /\ CountShape' /\ TaskInv'
<1>1. CampaignInv' /\ UNCHANGED <<campaign, planner>>
  BY StutterInv DEF DiscoveryInv, campaignVars
<1>2. PastVersions' = PastVersions
  BY <1>1 DEF PastVersions
<1>3. Reached \subseteq Reached'
  BY <1>2, ReachedGrows DEF DiscoveryInv, TasksGoOn
<1>4. FanoutShape' /\ FanoutInv'
  BY <1>1, <1>2, <1>3 DEF DiscoveryInv, FanoutShape, FanoutInv
<1> QED
  BY <1>1, <1>3, <1>4 DEF TasksGoOn

\* An attempt goes on with its job, to a step that is not a sender's.
LEMMA GoesOnInv ==
  ASSUME DiscoveryInv, UNCHANGED <<campaignVars, fanout, jobs>>, TasksGoOn,
         NEW a \in Attempts, NEW r \in AttemptRecords, attempt' = [attempt EXCEPT ![a] = r],
         attempt[a].pc # "idle", r.key = attempt[a].key, r.live = attempt[a].live,
         r.pc \notin {"idle", "send"},
         Reached \subseteq Reached' => Remembers(r, Reached')
  PROVE  DiscoveryInv'
<1>1. /\ CampaignInv' /\ FanoutShape' /\ FanoutInv'
      /\ Reached \subseteq Reached' /\ planner' = planner
      /\ TaskShape' /\ CountShape' /\ TaskInv'
  BY AttemptFrame
<1>2. AttemptShape' /\ AttemptInv'
  BY <1>1, AttemptMoves DEF DiscoveryInv
<1>3. \A b \in Attempts : attempt'[b] = IF b = a THEN r ELSE attempt[b]
  BY DEF DiscoveryInv, AttemptShape
<1>4. JobsShape' /\ JobsInv'
  BY <1>1 DEF DiscoveryInv, JobsShape, JobsInv
<1>5. LiveInv'
  BY <1>3, LiveStay DEF DiscoveryInv, LiveInv
<1>6. SendInv'
  BY <1>1, <1>3, SendersStay DEF DiscoveryInv
<1> QED
  BY <1>1, <1>2, <1>4, <1>5, <1>6 DEF DiscoveryInv

\* An attempt is left; if it is live, its job goes to a state that is not held.
LEMMA LeavesInv ==
  ASSUME DiscoveryInv, UNCHANGED <<campaignVars, fanout>>, TasksGoOn,
         NEW a \in Attempts, attempt[a].pc # "idle",
         attempt' = [attempt EXCEPT ![a] = IdleAttempt],
         NEW s \in {"done", "queued", "dead"},
         s = "queued" => jobs[attempt[a].key].tries <= RetryLimit,
         jobs' = IF attempt[a].live THEN [jobs EXCEPT ![attempt[a].key].state = s] ELSE jobs
  PROVE  DiscoveryInv'
<1> DEFINE k == attempt[a].key
<1>1. /\ CampaignInv' /\ FanoutShape' /\ FanoutInv'
      /\ Reached \subseteq Reached' /\ planner' = planner
      /\ TaskShape' /\ CountShape' /\ TaskInv'
  BY AttemptFrame
<1>k. k \in Reached /\ k \in Keys
  BY DEF DiscoveryInv, AttemptInv, Remembers, Reached
<1>2. AttemptShape' /\ AttemptInv'
  <2>1. IdleAttempt \in AttemptRecords
    BY DEF IdleAttempt, AttemptRecords, AttemptSteps, Cursors
  <2>2. Remembers(IdleAttempt, Reached')
    BY DEF Remembers, IdleAttempt
  <2> QED
    BY <1>1, <2>1, <2>2, AttemptMoves DEF DiscoveryInv
<1>3. \A b \in Attempts : attempt'[b] = IF b = a THEN IdleAttempt ELSE attempt[b]
  BY DEF DiscoveryInv, AttemptShape
<1>4. /\ JobsShape' /\ JobsInv'
      /\ \A l \in Keys : l # k \/ ~attempt[a].live => jobs'[l].state = jobs[l].state
  <2>1. CASE ~attempt[a].live
    BY <1>1, <2>1 DEF DiscoveryInv, JobsShape, JobsInv
  <2>2. CASE attempt[a].live
    <3>1. jobs' = [jobs EXCEPT ![k].state = s] /\ s \in JobStates /\ k \in Reached'
      BY <1>1, <1>k, <2>2 DEF JobStates
    <3>2. JobsShape /\ JobsInv /\ (s \in {"none", "reserved", "queued"} => jobs[k].tries <= RetryLimit)
      BY DEF DiscoveryInv
    <3> HIDE DEF k
    <3>3. /\ JobsShape' /\ JobsInv'
          /\ \A l \in Keys : jobs'[l].state = IF l = k THEN s ELSE jobs[l].state
      BY ONLY <1>1, <1>k, <3>1, <3>2, JobMoves
    <3> QED
      BY <2>2, <3>3
  <2> QED
    BY <2>1, <2>2
<1>5. \A b \in Attempts : attempt[b].live =>
        attempt[b].key \in Keys /\ attempt[b].pc # "idle" /\
        (attempt[a].live /\ b # a => attempt[b].key # k)
  BY DEF DiscoveryInv, LiveInv, AttemptInv, Remembers, Reached
<1>6. attempt[a].live => jobs[k].state = "active"
  BY DEF DiscoveryInv, LiveInv
<1>7. /\ \A b \in Attempts : attempt[b].pc = "send" =>
           attempt[b].target \in Keys /\ (attempt[a].live => attempt[b].target # k)
      /\ \A p \in Planners : planner[p].pc = "send" =>
           fanout[p].key \in Keys /\ (attempt[a].live => fanout[p].key # k)
  <2>1. \A b \in Attempts : attempt[b].pc = "send" => attempt[b].target \in Keys
    BY DEF DiscoveryInv, AttemptInv, Remembers, Reached
  <2>2. \A p \in Planners : planner[p].pc = "send" => fanout[p].key \in Keys
    BY DEF DiscoveryInv, FanoutShape, SendInv
  <2> QED
    BY <1>6, <2>1, <2>2, HeldKeys DEF DiscoveryInv
<1> HIDE DEF k
<1>8. LiveInv'
  BY <1>3, <1>4, <1>5, LiveStay DEF DiscoveryInv, IdleAttempt
<1>9. SendInv'
  <2>1. \A b \in Attempts : attempt'[b].pc = "send" => b # a /\ attempt'[b] = attempt[b]
    BY <1>3 DEF IdleAttempt
  <2> QED
    BY <1>1, <1>4, <1>7, <2>1, SendersStay DEF DiscoveryInv
<1> QED
  BY <1>1, <1>2, <1>4, <1>8, <1>9 DEF DiscoveryInv

LEMMA ReturnsInv ==
  ASSUME DiscoveryInv, UNCHANGED <<campaignVars, fanout>>, TasksGoOn,
         NEW a \in Attempts, attempt[a].pc # "idle", Returns(a)
  PROVE  DiscoveryInv'
<1>1. /\ attempt' = [attempt EXCEPT ![a] = IdleAttempt]
      /\ jobs' = IF attempt[a].live THEN [jobs EXCEPT ![attempt[a].key].state = "done"] ELSE jobs
  BY DEF Returns, Complete
<1> QED
  BY <1>1, LeavesInv

LEMMA ThrowsInv ==
  ASSUME DiscoveryInv, UNCHANGED <<campaignVars, fanout>>, TasksGoOn,
         NEW a \in Attempts, attempt[a].pc # "idle", Throws(a)
  PROVE  DiscoveryInv'
<1> DEFINE s == IF jobs[attempt[a].key].tries <= RetryLimit THEN "queued" ELSE "dead"
<1>1. /\ attempt' = [attempt EXCEPT ![a] = IdleAttempt]
      /\ jobs' = IF attempt[a].live THEN [jobs EXCEPT ![attempt[a].key].state = s] ELSE jobs
  BY DEF Throws, ThrowsOver, FailTry
<1>2. s \in {"done", "queued", "dead"} /\ (s = "queued" => jobs[attempt[a].key].tries <= RetryLimit)
  OBVIOUS
<1> HIDE DEF s
<1> QED
  BY <1>1, <1>2, LeavesInv

\* An attempt goes from one step to another.
LEMMA GoesInv ==
  ASSUME DiscoveryInv, UNCHANGED <<campaignVars, fanout, jobs>>, TasksGoOn,
         NEW a \in Attempts, NEW step \in {"usage", "call", "fail", "undo", "record", "finish"},
         attempt[a].pc # "idle", Goes(a, step),
         step \in {"usage", "call", "fail", "undo"} =>
           attempt[a].pc \in {"claim", "usage", "call", "commit", "fail", "undo"}
  PROVE  DiscoveryInv'
<1> DEFINE r == [attempt[a] EXCEPT !.pc = step]
<1>1. attempt[a] \in AttemptRecords
  BY DEF DiscoveryInv, AttemptShape
<1>2. /\ r \in AttemptRecords /\ r.pc = step /\ r.key = attempt[a].key
      /\ r.live = attempt[a].live /\ r.cursor = attempt[a].cursor
  BY <1>1 DEF AttemptRecords, AttemptSteps
<1>3. attempt' = [attempt EXCEPT ![a] = r]
  BY DEF Goes
<1>4. Remembers(attempt[a], Reached)
  BY DEF DiscoveryInv, AttemptInv
<1> HIDE DEF r
<1>5. Reached \subseteq Reached' => Remembers(r, Reached')
  BY <1>2, <1>4 DEF Remembers
<1> QED
  BY <1>2, <1>3, <1>5, GoesOnInv

\* Nothing happens to the tasks, or a number of the usage row grows.
LEMMA NoTaskMoves ==
  ASSUME DiscoveryInv, UNCHANGED <<task, sources, delivered>>,
         \/ usage' = usage
         \/ usage' = [usage EXCEPT !.requests = @ + 1]
         \/ usage' = [usage EXCEPT !.errors = @ + 1]
  PROVE  TasksGoOn
<1>1. usage \in [requests : Nat, results : Nat, errors : Nat]
  BY DEF DiscoveryInv, CountShape
<1>2. usage' \in [requests : Nat, results : Nat, errors : Nat]
  BY <1>1
<1> QED
  BY <1>2, TasksKept

\* A job begins.
LEMMA FetchInv ==
  ASSUME DiscoveryInv, NEW a \in Attempts, Fetch(a)
  PROVE  DiscoveryInv'
<1>1. attempt[a].pc = "idle" /\ UNCHANGED <<campaignVars, task, fanout, sources, usage, delivered>>
  BY DEF Fetch
<1>2. PICK k \in Keys :
        /\ jobs[k].state = "queued" /\ jobs' = Begin(jobs, k)
        /\ attempt' = [attempt EXCEPT ![a].pc = "read", ![a].key = k, ![a].live = TRUE]
  BY DEF Fetch, Is
<1>3. TasksGoOn
  BY <1>1, NoTaskMoves
<1>4. /\ CampaignInv' /\ FanoutShape' /\ FanoutInv'
      /\ Reached \subseteq Reached' /\ planner' = planner
      /\ TaskShape' /\ CountShape' /\ TaskInv'
  BY <1>1, <1>3, AttemptFrame
<1> DEFINE r == [attempt[a] EXCEPT !.pc = "read", !.key = k, !.live = TRUE]
<1>5. r \in AttemptRecords /\ r.pc = "read" /\ r.key = k /\ r.live = TRUE
  <2>1. attempt[a] \in AttemptRecords
    BY DEF DiscoveryInv, AttemptShape
  <2> QED
    BY <2>1 DEF AttemptRecords, AttemptSteps
<1>6. attempt' = [attempt EXCEPT ![a] = r]
  BY <1>2
<1> HIDE DEF r
<1>7. k \in Reached /\ jobs[k].tries <= RetryLimit
  BY <1>2 DEF DiscoveryInv, JobsInv
<1>8. AttemptShape' /\ AttemptInv'
  <2>1. Remembers(r, Reached')
    BY <1>4, <1>5, <1>7 DEF Remembers
  <2> QED
    BY <1>4, <1>5, <1>6, <2>1, AttemptMoves DEF DiscoveryInv
<1>9. /\ JobsShape' /\ JobsInv' /\ jobs'[k].state = "active"
      /\ \A l \in Keys : l # k => jobs'[l] = jobs[l]
  <2>1. /\ jobs' \in [Keys -> Jobs] /\ jobs'[k].state = "active"
        /\ \A l \in Keys : l # k => jobs'[l] = jobs[l]
    BY <1>2, <1>7, BeginUpdate DEF DiscoveryInv, JobsShape
  <2>2. JobsInv'
    BY <1>4, <1>7, <2>1 DEF DiscoveryInv, JobsInv
  <2> QED
    BY <2>1, <2>2 DEF JobsShape
<1>10. \A b \in Attempts : attempt'[b] = IF b = a THEN r ELSE attempt[b]
  BY <1>6 DEF DiscoveryInv, AttemptShape
<1>11. /\ \A b \in Attempts : attempt[b].live => attempt[b].key # k /\ attempt[b].key \in Keys
       /\ \A b \in Attempts : attempt[b].pc = "send" =>
            attempt[b].target # k /\ attempt[b].target \in Keys
       /\ \A p \in Planners : planner[p].pc = "send" =>
            fanout[p].key # k /\ fanout[p].key \in Keys
  <2>1. \A b \in Attempts : attempt[b].live => attempt[b].key \in Keys
    BY DEF DiscoveryInv, LiveInv, AttemptInv, Remembers, Reached
  <2>2. \A b \in Attempts : attempt[b].pc = "send" => attempt[b].target \in Keys
    BY DEF DiscoveryInv, AttemptInv, Remembers, Reached
  <2>3. \A p \in Planners : planner[p].pc = "send" => fanout[p].key \in Keys
    BY DEF DiscoveryInv, FanoutShape, SendInv
  <2> QED
    BY <1>2, <2>1, <2>2, <2>3, HeldKeys DEF DiscoveryInv
<1>12. LiveInv'
  <2>1. ASSUME NEW b \in Attempts, b # a, attempt'[b].live
        PROVE  /\ attempt[b].live /\ attempt'[b] = attempt[b]
               /\ jobs'[attempt[b].key] = jobs[attempt[b].key]
    BY <1>9, <1>10, <1>11, <2>1
  <2> QED
    BY <1>5, <1>9, <1>10, <1>11, <2>1 DEF DiscoveryInv, LiveInv
<1>13. SendInv'
  <2>1. \A b \in Attempts : attempt'[b].pc = "send" => b # a /\ attempt'[b] = attempt[b]
    BY <1>5, <1>10
  <2> QED
    BY <1>1, <1>4, <1>9, <1>11, <2>1, SendersStay DEF DiscoveryInv
<1> QED
  BY <1>4, <1>8, <1>9, <1>12, <1>13 DEF DiscoveryInv

\* What it reads: the cursor is that of its page, or the task is ahead of its job.
LEMMA ReadInv ==
  ASSUME DiscoveryInv, NEW a \in Attempts, Read(a)
  PROVE  DiscoveryInv'
<1> DEFINE k == attempt[a].key
<1>1. /\ attempt[a].pc = "read" /\ attempt[a].pc # "idle"
      /\ UNCHANGED <<campaignVars, task, fanout, sources, usage, delivered>>
      /\ UNCHANGED <<campaignVars, fanout>>
  BY DEF Read
<1>2. TasksGoOn
  BY <1>1, NoTaskMoves
<1>3. /\ attempt[a] \in AttemptRecords /\ k \in Reached /\ k \in Keys
      /\ k.task \in Tasks /\ task[k.task] \in TaskRows
      /\ k.page \in Nat /\ task[k.task].page \in Nat /\ k.page <= task[k.task].page
  BY <1>1 DEF DiscoveryInv, AttemptShape, AttemptInv, Remembers, Reached, Keys, TaskShape,
              TaskRows, Pages
<1>4. CASE Returns(a)
  BY <1>1, <1>2, <1>4, ReturnsInv
<1>5. CASE Throws(a)
  BY <1>1, <1>2, <1>5, ThrowsInv
<1>6. CASE /\ k.page < task[k.task].page
           /\ attempt' = [attempt EXCEPT ![a].pc = "reserve",
                            ![a].target = [k EXCEPT !.page = task[k.task].page]]
           /\ UNCHANGED jobs
  <2> DEFINE target == [k EXCEPT !.page = task[k.task].page]
             r == [attempt[a] EXCEPT !.pc = "reserve", !.target = target]
  <2>1. target \in Reached
    <3>1. target \in Keys /\ target.task = k.task /\ target.page = task[k.task].page
          /\ target.version = k.version
      BY <1>3 DEF Keys, TaskRows
    <3> HIDE DEF target
    <3> QED
      BY <1>3, <3>1 DEF Reached
  <2>2. target \in Keys
    BY <2>1 DEF Reached
  <2>3. attempt' = [attempt EXCEPT ![a] = r]
    BY <1>6
  <2> HIDE DEF target
  <2>4. /\ r \in AttemptRecords /\ r.pc = "reserve" /\ r.key = attempt[a].key
        /\ r.live = attempt[a].live /\ r.target = target
    BY <1>3, <2>2 DEF AttemptRecords, AttemptSteps
  <2> HIDE DEF r, k
  <2>5. Reached \subseteq Reached' => Remembers(r, Reached')
    BY <1>3, <2>1, <2>4 DEF Remembers, k
  <2> QED
    BY <1>1, <1>2, <1>6, <2>3, <2>4, <2>5, GoesOnInv
<1>7. CASE /\ k.page = task[k.task].page /\ task[k.task].status # "COMPLETED"
           /\ attempt' = [attempt EXCEPT ![a].pc = "claim", ![a].cursor = task[k.task].cursor]
           /\ UNCHANGED jobs
  <2> DEFINE r == [attempt[a] EXCEPT !.pc = "claim", !.cursor = task[k.task].cursor]
  <2>1. attempt' = [attempt EXCEPT ![a] = r]
    BY <1>7
  <2>2. task[k.task].cursor \in Cursors /\ task[k.task].cursor = CursorOf(k.page)
    BY <1>3, <1>7 DEF TaskRows, DiscoveryInv, TaskInv
  <2>3. /\ r \in AttemptRecords /\ r.pc = "claim" /\ r.key = attempt[a].key
        /\ r.live = attempt[a].live /\ r.cursor = task[k.task].cursor
    BY <1>3, <2>2 DEF AttemptRecords, AttemptSteps
  <2> HIDE DEF r
  <2>4. Reached \subseteq Reached' => Remembers(r, Reached')
    BY <1>3, <2>2, <2>3 DEF Remembers
  <2> QED
    BY <1>1, <1>2, <1>7, <2>1, <2>3, <2>4, GoesOnInv
<1>8. \/ Returns(a) \/ Throws(a)
      \/ /\ k.page < task[k.task].page
         /\ attempt' = [attempt EXCEPT ![a].pc = "reserve",
                          ![a].target = [k EXCEPT !.page = task[k.task].page]]
         /\ UNCHANGED jobs
      \/ /\ ~(k.page < task[k.task].page) /\ ~(k.page > task[k.task].page)
         /\ task[k.task].status # "COMPLETED"
         /\ attempt' = [attempt EXCEPT ![a].pc = "claim", ![a].cursor = task[k.task].cursor]
         /\ UNCHANGED jobs
  BY Zenon DEF Read
<1> QED
  BY <1>3, <1>4, <1>5, <1>6, <1>7, <1>8

LEMMA ClaimInv ==
  ASSUME DiscoveryInv, NEW a \in Attempts, Claim(a)
  PROVE  DiscoveryInv'
<1> DEFINE k == attempt[a].key
<1>1. /\ attempt[a].pc = "claim" /\ attempt[a].pc # "idle"
      /\ UNCHANGED <<campaignVars, fanout, sources, usage, delivered>>
      /\ UNCHANGED <<campaignVars, fanout>>
  BY DEF Claim
<1>2. CASE Returns(a) /\ UNCHANGED task
  <2>1. TasksGoOn
    BY <1>1, <1>2, NoTaskMoves
  <2> QED
    BY <1>1, <1>2, <2>1, ReturnsInv
<1>3. CASE /\ Claimable(k) /\ Goes(a, "usage") /\ UNCHANGED jobs
           /\ task' = [task EXCEPT ![k.task].status = "RUNNING", ![k.task].attempts = @ + 1]
  <2>1. k.task \in Tasks
    BY <1>1 DEF DiscoveryInv, AttemptInv, Remembers, Reached, Keys
  <2>2. task[k.task].attempts + 1 \in Nat
    BY <2>1 DEF DiscoveryInv, TaskShape, TaskRows
  <2>3. task[k.task].status # "COMPLETED" /\ "RUNNING" \in TaskStatuses \ {"COMPLETED"}
    BY <1>3 DEF Claimable, Unfinished, TaskStatuses
  <2>4. task' = [task EXCEPT ![k.task].status = "RUNNING",
                             ![k.task].attempts = task[k.task].attempts + 1]
    BY <1>3, <2>1 DEF DiscoveryInv, TaskShape, TaskRows
  <2>5. TasksGoOn
    BY <1>1, <2>1, <2>2, <2>3, <2>4, TaskStatusMoves
  <2> QED
    BY <1>1, <1>3, <2>5, GoesInv
<1> QED
  BY <1>2, <1>3 DEF Claim

\* Steps around the call of the provider.
LEMMA CountRequestInv ==
  ASSUME DiscoveryInv, NEW a \in Attempts, CountRequest(a) \/ CountRequestFails(a)
  PROVE  DiscoveryInv'
<1>1. /\ attempt[a].pc = "usage" /\ attempt[a].pc # "idle"
      /\ UNCHANGED <<campaignVars, task, fanout, sources, delivered>>
      /\ usage' = usage \/ usage' = [usage EXCEPT !.requests = @ + 1]
      /\ UNCHANGED <<campaignVars, fanout>>
  BY DEF CountRequest, CountRequestFails
<1>2. TasksGoOn
  BY <1>1, NoTaskMoves
<1>3. CASE CountRequest(a)
  <2>1. Goes(a, "call") /\ UNCHANGED jobs
    BY <1>3 DEF CountRequest
  <2> QED
    BY <1>1, <1>2, <2>1, GoesInv
<1>4. CASE CountRequestFails(a)
  <2>1. Throws(a)
    BY <1>4 DEF CountRequestFails
  <2> QED
    BY <1>1, <1>2, <2>1, ThrowsInv
<1> QED
  BY <1>3, <1>4

LEMMA CallProviderInv ==
  ASSUME DiscoveryInv, NEW a \in Attempts, CallProvider(a)
  PROVE  DiscoveryInv'
<1> DEFINE k == attempt[a].key
           page == PageAt(attempt[a].cursor)
<1>1. /\ attempt[a].pc = "call" /\ attempt[a].pc # "idle"
      /\ UNCHANGED <<campaignVars, task, jobs, fanout, sources, usage, delivered>>
      /\ UNCHANGED <<campaignVars, fanout, jobs>>
  BY DEF CallProvider
<1>2. TasksGoOn
  BY <1>1, NoTaskMoves
<1>3. /\ attempt[a] \in AttemptRecords /\ Remembers(attempt[a], Reached)
      /\ k \in Reached /\ k.page \in Pages /\ k.page \in Nat \ {0}
      /\ attempt[a].cursor = CursorOf(k.page)
  BY <1>1 DEF DiscoveryInv, AttemptShape, AttemptInv, Remembers, Reached, Keys, Pages
<1>4. page = k.page
  BY <1>3 DEF PageAt, CursorOf, NoCursor
<1>5. CASE Goes(a, "fail")
  BY <1>1, <1>2, <1>5, GoesInv
<1>6. ASSUME NEW ids \in SUBSET Ids, NEW next \in NextCursors(page),
             attempt' = [attempt EXCEPT ![a].pc = "commit",
                           ![a].result = [page |-> page, ids |-> ids, next |-> next]]
      PROVE  DiscoveryInv'
  <2> DEFINE result == [page |-> page, ids |-> ids, next |-> next]
             r == [attempt[a] EXCEPT !.pc = "commit", !.result = result]
  <2>1. attempt' = [attempt EXCEPT ![a] = r]
    BY <1>6
  <2>2. next \in Cursors
    BY <1>3, <1>4, DiscoveryAssumption DEF NextCursors, Cursors, Pages
  <2>3. result \in Results /\ result.page = k.page /\ result.next \in NextCursors(k.page)
    BY <1>3, <1>4, <2>2 DEF Results
  <2> HIDE DEF result, k
  <2>4. /\ r \in AttemptRecords /\ r.pc = "commit" /\ r.key = attempt[a].key
        /\ r.live = attempt[a].live /\ r.cursor = attempt[a].cursor /\ r.result = result
    BY <1>3, <2>3 DEF AttemptRecords, AttemptSteps
  <2> HIDE DEF r
  <2>5. Reached \subseteq Reached' => Remembers(r, Reached')
    BY <1>3, <2>3, <2>4 DEF Remembers, k
  <2> QED
    BY <1>1, <1>2, <2>1, <2>4, <2>5, GoesOnInv
<1> QED
  BY <1>5, <1>6 DEF CallProvider

LEMMA ProviderFailsInv ==
  ASSUME DiscoveryInv, NEW a \in Attempts, ProviderFails(a)
  PROVE  DiscoveryInv'
<1>1. /\ attempt[a].pc \in {"usage", "call"} /\ attempt[a].pc # "idle" /\ Goes(a, "fail")
      /\ UNCHANGED <<campaignVars, task, jobs, fanout, sources, usage, delivered>>
      /\ UNCHANGED <<campaignVars, fanout, jobs>>
  BY DEF ProviderFails
<1>2. TasksGoOn
  BY <1>1, NoTaskMoves
<1> QED
  BY <1>1, <1>2, GoesInv

\* The transaction: the page is persisted, or the claim is gone.
LEMMA CommitInv ==
  ASSUME DiscoveryInv, NEW a \in Attempts, Commit(a)
  PROVE  DiscoveryInv'
<1> DEFINE k == attempt[a].key
           result == attempt[a].result
<1>1. /\ attempt[a].pc = "commit" /\ attempt[a].pc # "idle"
      /\ UNCHANGED <<campaignVars, jobs, fanout>>
      /\ UNCHANGED <<campaignVars, fanout>>
  BY DEF Commit
<1>2. /\ attempt[a] \in AttemptRecords /\ k \in Reached /\ k \in Keys
      /\ result \in Results /\ result.page = k.page /\ result.next \in NextCursors(k.page)
  BY <1>1 DEF DiscoveryInv, AttemptShape, AttemptInv, Remembers, Reached
<1>3. CASE Goes(a, "undo") /\ UNCHANGED <<task, sources, usage, delivered>>
  <2>1. TasksGoOn
    BY <1>3, NoTaskMoves
  <2> QED
    BY <1>1, <1>3, <2>1, GoesInv
<1>4. CASE /\ Persist(k, result)
           /\ attempt' = [attempt EXCEPT
                ![a].pc = IF result.next = NoCursor THEN "finish" ELSE "reserve",
                ![a].target = IF result.next = NoCursor THEN NoKey
                              ELSE [k EXCEPT !.page = k.page + 1]]
  <2> DEFINE target == IF result.next = NoCursor THEN NoKey ELSE [k EXCEPT !.page = k.page + 1]
             pc == IF result.next = NoCursor THEN "finish" ELSE "reserve"
             r == [attempt[a] EXCEPT !.pc = pc, !.target = target]
  <2>1. /\ TasksGoOn
        /\ task'[k.task].page = IF result.next = NoCursor THEN k.page ELSE k.page + 1
        /\ result.next # NoCursor => k.page + 1 \in Pages
    BY <1>2, <1>4, PersistMoves
  <2>2. attempt' = [attempt EXCEPT ![a] = r]
    BY <1>4
  <2>3. target \in Keys \cup {NoKey} /\ (pc = "reserve" => target \in Keys)
    BY <1>2, <2>1 DEF Keys
  <2>4. pc = "reserve" /\ Reached \subseteq Reached' => target \in Reached'
    <3> SUFFICES ASSUME pc = "reserve", Reached \subseteq Reached' PROVE target \in Reached'
      OBVIOUS
    <3>1. /\ target = [k EXCEPT !.page = k.page + 1] /\ target.task = k.task
          /\ target.version = k.version /\ target.page = k.page + 1
          /\ task'[k.task].page = k.page + 1
      BY <1>2, <2>1 DEF Keys
    <3>2. k.version \in PastVersions' /\ k.page \in Nat
      BY <1>2 DEF Reached, Keys, Pages
    <3>3. target \in Keys
      BY <2>3
    <3>4. target.page <= task'[target.task].page /\ target.version \in PastVersions'
      BY <3>1, <3>2
    <3> HIDE DEF target
    <3> QED
      BY <3>3, <3>4 DEF Reached
  <2>5. pc \in {"finish", "reserve"}
    OBVIOUS
  <2> HIDE DEF target, pc
  <2>6. /\ r \in AttemptRecords /\ r.pc = pc /\ r.key = attempt[a].key
        /\ r.live = attempt[a].live /\ r.target = target
    BY <1>2, <2>3, <2>5 DEF AttemptRecords, AttemptSteps
  <2> HIDE DEF r
  <2>7. Reached \subseteq Reached' => Remembers(r, Reached')
    BY <1>2, <2>4, <2>5, <2>6 DEF Remembers
  <2> QED
    BY <1>1, <2>1, <2>2, <2>5, <2>6, <2>7, GoesOnInv
<1> QED
  BY <1>3, <1>4 DEF Commit

LEMMA CommitThrowsInv ==
  ASSUME DiscoveryInv, NEW a \in Attempts, CommitThrows(a)
  PROVE  DiscoveryInv'
<1>1. /\ attempt[a].pc = "commit" /\ attempt[a].pc # "idle" /\ Goes(a, "undo")
      /\ UNCHANGED <<campaignVars, jobs, fanout>>
      /\ UNCHANGED <<campaignVars, fanout>>
  BY DEF CommitThrows
<1>2. /\ attempt[a].key \in Keys /\ attempt[a].result \in Results
      /\ attempt[a].result.page = attempt[a].key.page
      /\ attempt[a].result.next \in NextCursors(attempt[a].key.page)
  BY <1>1 DEF DiscoveryInv, AttemptInv, Remembers, Reached
<1>3. TasksGoOn
  <2>1. CASE UNCHANGED <<task, sources, usage, delivered>>
    BY <2>1, NoTaskMoves
  <2>2. CASE Persist(attempt[a].key, attempt[a].result)
    BY <1>2, <2>2, PersistMoves
  <2> QED
    BY <2>1, <2>2 DEF CommitThrows
<1> QED
  BY <1>1, <1>3, GoesInv

\* failDiscoveryTask, and what follows.
LEMMA FailsInv ==
  ASSUME DiscoveryInv, NEW a \in Attempts, MarkFailed(a) \/ RecordError(a) \/ Undo(a)
  PROVE  DiscoveryInv'
<1>1. attempt[a].pc # "idle" /\ UNCHANGED <<campaignVars, fanout>>
  BY DEF MarkFailed, RecordError, Undo
<1>2. attempt[a].key.task \in Tasks
  BY <1>1 DEF DiscoveryInv, AttemptInv, Remembers, Reached, Keys
<1>3. CASE MarkFailed(a)
  <2>1. FailTask(attempt[a].key.task) /\ Goes(a, "record") /\ UNCHANGED <<sources, usage, delivered>>
        /\ UNCHANGED jobs
    BY <1>3 DEF MarkFailed
  <2>2. TasksGoOn
    BY <1>2, <2>1, FailTaskMoves
  <2> QED
    BY <1>1, <2>1, <2>2, GoesInv
<1>4. CASE RecordError(a)
  <2>1. /\ usage' = [usage EXCEPT !.errors = @ + 1] /\ Throws(a)
        /\ UNCHANGED <<task, sources, delivered>>
    BY <1>4 DEF RecordError
  <2>2. TasksGoOn
    BY <2>1, NoTaskMoves
  <2> QED
    BY <1>1, <2>1, <2>2, ThrowsInv
<1>5. CASE Undo(a)
  <2>1. FailTask(attempt[a].key.task) /\ Throws(a) /\ UNCHANGED <<sources, usage, delivered>>
    BY <1>5 DEF Undo
  <2>2. TasksGoOn
    BY <1>2, <2>1, FailTaskMoves
  <2> QED
    BY <1>1, <2>1, <2>2, ThrowsInv
<1> QED
  BY <1>3, <1>4, <1>5

\* The end of an attempt, or of its worker.
LEMMA EndsInv ==
  ASSUME DiscoveryInv, NEW a \in Attempts, Finish(a) \/ Dies(a)
  PROVE  DiscoveryInv'
<1>1. /\ attempt[a].pc # "idle" /\ UNCHANGED <<campaignVars, fanout>>
      /\ UNCHANGED <<task, sources, usage, delivered>> /\ (Returns(a) \/ Throws(a))
  BY DEF Finish, Dies
<1>2. TasksGoOn
  BY <1>1, NoTaskMoves
<1> QED
  BY <1>1, <1>2, ReturnsInv, ThrowsInv

\* What an attempt and the other holders have to do with a key.
LEMMA OtherKeys ==
  ASSUME DiscoveryInv, NEW k
  PROVE  /\ \A b \in Attempts : attempt[b].live =>
              /\ attempt[b].key \in Keys /\ attempt[b].pc # "idle"
              /\ jobs[k].state # "active" => attempt[b].key # k
         /\ \A b \in Attempts : attempt[b].pc = "send" =>
              /\ attempt[b].target \in Keys
              /\ jobs[k].state # "reserved" => attempt[b].target # k
         /\ \A p \in Planners : planner[p].pc = "send" =>
              /\ fanout[p].key \in Keys
              /\ jobs[k].state # "reserved" => fanout[p].key # k
<1>1. \A b \in Attempts : attempt[b].live => attempt[b].key \in Keys /\ attempt[b].pc # "idle"
  BY DEF DiscoveryInv, LiveInv, AttemptInv, Remembers, Reached
<1>2. \A b \in Attempts : attempt[b].pc = "send" => attempt[b].target \in Keys
  BY DEF DiscoveryInv, AttemptInv, Remembers, Reached
<1>3. \A p \in Planners : planner[p].pc = "send" => fanout[p].key \in Keys
  BY DEF DiscoveryInv, FanoutShape, SendInv
<1> QED
  BY <1>1, <1>2, <1>3, HeldKeys DEF DiscoveryInv

\* The key of the next page is reserved, or taken.
LEMMA ReserveNextInv ==
  ASSUME DiscoveryInv, NEW a \in Attempts, ReserveNext(a)
  PROVE  DiscoveryInv'
<1> DEFINE k == attempt[a].target
<1>1. /\ attempt[a].pc = "reserve" /\ attempt[a].pc # "idle"
      /\ UNCHANGED <<campaignVars, task, fanout, sources, usage, delivered>>
      /\ UNCHANGED <<campaignVars, fanout>>
  BY DEF ReserveNext
<1>2. TasksGoOn
  BY <1>1, NoTaskMoves
<1>3. CASE Goes(a, "finish") /\ UNCHANGED jobs
  BY <1>1, <1>2, <1>3, GoesInv
<1>4. CASE jobs[k].state = "none" /\ jobs' = Reserve(jobs, k) /\ Goes(a, "send")
  <2> DEFINE r == [attempt[a] EXCEPT !.pc = "send"]
  <2>1. /\ CampaignInv' /\ FanoutShape' /\ FanoutInv'
        /\ Reached \subseteq Reached' /\ planner' = planner
        /\ TaskShape' /\ CountShape' /\ TaskInv'
    BY <1>1, <1>2, AttemptFrame
  <2>2. /\ attempt[a] \in AttemptRecords /\ Remembers(attempt[a], Reached)
        /\ k \in Reached /\ k \in Keys
    BY <1>1 DEF DiscoveryInv, AttemptShape, AttemptInv, Remembers, Reached
  <2>3. attempt' = [attempt EXCEPT ![a] = r]
    BY <1>4 DEF Goes
  <2>4. /\ r \in AttemptRecords /\ r.pc = "send" /\ r.key = attempt[a].key
        /\ r.live = attempt[a].live /\ r.target = k
    BY <2>2 DEF AttemptRecords, AttemptSteps
  <2> HIDE DEF r
  <2>5. AttemptShape' /\ AttemptInv'
    <3>1. Remembers(r, Reached')
      BY <1>1, <2>1, <2>2, <2>4 DEF Remembers
    <3> QED
      BY <2>1, <2>3, <2>4, <3>1, AttemptMoves DEF DiscoveryInv
  <2>6. \A b \in Attempts : attempt'[b] = IF b = a THEN r ELSE attempt[b]
    BY <2>3 DEF DiscoveryInv, AttemptShape
  <2>7. /\ JobsShape' /\ JobsInv'
        /\ \A l \in Keys : jobs'[l].state = IF l = k THEN "reserved" ELSE jobs[l].state
    <3>1. jobs' = [jobs EXCEPT ![k].state = "reserved"]
      BY <1>4 DEF Reserve
    <3>2. jobs[k].tries <= RetryLimit /\ "reserved" \in JobStates /\ k \in Reached'
      BY <1>4, <2>1, <2>2 DEF DiscoveryInv, JobsInv, JobStates
    <3>3. JobsShape /\ JobsInv
      BY DEF DiscoveryInv
    <3> HIDE DEF k
    <3> QED
      BY ONLY <2>1, <2>2, <3>1, <3>2, <3>3, JobMoves
  <2>8. /\ \A b \in Attempts : attempt[b].live =>
             attempt[b].key \in Keys /\ attempt[b].pc # "idle" /\ attempt[b].key # k
        /\ \A b \in Attempts : attempt[b].pc = "send" =>
             attempt[b].target \in Keys /\ attempt[b].target # k
        /\ \A p \in Planners : planner[p].pc = "send" =>
             fanout[p].key \in Keys /\ fanout[p].key # k
    BY <1>4, OtherKeys
  <2> HIDE DEF k
  <2>9. LiveInv'
    BY <2>4, <2>6, <2>7, <2>8, LiveStay DEF DiscoveryInv
  <2>10. SendInv'
    <3>1. /\ attempt'[a].pc = "send" /\ attempt'[a].target = k /\ jobs'[k].state = "reserved"
          /\ \A b \in Attempts : b # a => attempt'[b] = attempt[b]
          /\ UNCHANGED <<planner, fanout>>
      BY <1>1, <2>1, <2>2, <2>4, <2>6, <2>7
    <3>2. /\ \A b \in Attempts : b # a /\ attempt[b].pc = "send" =>
               jobs'[attempt[b].target].state = jobs[attempt[b].target].state
          /\ \A p \in Planners : planner[p].pc = "send" =>
               jobs'[fanout[p].key].state = jobs[fanout[p].key].state
      BY <2>7, <2>8
    <3>3. \A b \in Attempts :
            attempt'[b].pc = "send" =>
              /\ jobs'[attempt'[b].target].state = "reserved"
              /\ \A c \in Attempts :
                   attempt'[c].pc = "send" /\ attempt'[c].target = attempt'[b].target => c = b
      BY <2>8, <3>1, <3>2 DEF DiscoveryInv, SendInv
    <3>4. \A p \in Planners :
            planner[p].pc = "send" =>
              /\ fanout[p].key \in fanout[p].todo
              /\ jobs'[fanout[p].key].state = "reserved"
              /\ \A q \in Planners :
                   planner[q].pc = "send" /\ fanout[q].key = fanout[p].key => q = p
      BY <3>2 DEF DiscoveryInv, SendInv
    <3>5. \A b \in Attempts, p \in Planners :
            attempt'[b].pc = "send" /\ planner[p].pc = "send"
              => fanout[p].key # attempt'[b].target
      BY <2>8, <3>1 DEF DiscoveryInv, SendInv
    <3> QED
      BY <3>1, <3>3, <3>4, <3>5 DEF SendInv
  <2> QED
    BY <2>1, <2>5, <2>7, <2>9, <2>10 DEF DiscoveryInv
<1> QED
  BY <1>3, <1>4 DEF ReserveNext, Is

\* The job of the next page is sent.
LEMMA SendNextInv ==
  ASSUME DiscoveryInv, NEW a \in Attempts, SendNext(a)
  PROVE  DiscoveryInv'
<1> DEFINE k == attempt[a].target
           r == [attempt[a] EXCEPT !.pc = "finish"]
<1>1. /\ attempt[a].pc = "send" /\ jobs' = Sent(jobs, k) /\ Goes(a, "finish")
      /\ UNCHANGED <<campaignVars, task, fanout, sources, usage, delivered>>
      /\ UNCHANGED <<campaignVars, fanout>>
  BY DEF SendNext
<1>2. TasksGoOn
  BY <1>1, NoTaskMoves
<1>3. /\ CampaignInv' /\ FanoutShape' /\ FanoutInv'
      /\ Reached \subseteq Reached' /\ planner' = planner
      /\ TaskShape' /\ CountShape' /\ TaskInv'
  BY <1>1, <1>2, AttemptFrame
<1>4. /\ attempt[a] \in AttemptRecords /\ Remembers(attempt[a], Reached)
      /\ k \in Reached /\ k \in Keys /\ jobs[k].state = "reserved"
  BY <1>1 DEF DiscoveryInv, AttemptShape, AttemptInv, Remembers, Reached, SendInv
<1>5. attempt' = [attempt EXCEPT ![a] = r]
  BY <1>1 DEF Goes
<1>6. /\ r \in AttemptRecords /\ r.pc = "finish" /\ r.key = attempt[a].key
      /\ r.live = attempt[a].live
  BY <1>4 DEF AttemptRecords, AttemptSteps
<1> HIDE DEF r
<1>7. AttemptShape' /\ AttemptInv'
  <2>1. Remembers(r, Reached')
    BY <1>1, <1>3, <1>4, <1>6 DEF Remembers
  <2> QED
    BY <1>3, <1>5, <1>6, <2>1, AttemptMoves DEF DiscoveryInv
<1>8. \A b \in Attempts : attempt'[b] = IF b = a THEN r ELSE attempt[b]
  BY <1>5 DEF DiscoveryInv, AttemptShape
<1>9. /\ JobsShape' /\ JobsInv'
      /\ \A l \in Keys : jobs'[l].state = IF l = k THEN "queued" ELSE jobs[l].state
  <2>1. jobs' = [jobs EXCEPT ![k].state = "queued"]
    BY <1>1 DEF Sent
  <2>2. jobs[k].tries <= RetryLimit /\ "queued" \in JobStates /\ k \in Reached'
    BY <1>3, <1>4 DEF DiscoveryInv, JobsInv, JobStates
  <2>3. JobsShape /\ JobsInv
    BY DEF DiscoveryInv
  <2> HIDE DEF k
  <2> QED
    BY ONLY <1>3, <1>4, <2>1, <2>2, <2>3, JobMoves
<1>10. /\ \A b \in Attempts : attempt[b].live =>
            attempt[b].key \in Keys /\ attempt[b].pc # "idle" /\ attempt[b].key # k
       /\ \A b \in Attempts : attempt[b].pc = "send" /\ b # a =>
            attempt[b].target \in Keys /\ attempt[b].target # k
       /\ \A p \in Planners : planner[p].pc = "send" =>
            fanout[p].key \in Keys /\ fanout[p].key # k
  BY <1>1, <1>4, OtherKeys DEF DiscoveryInv, SendInv
<1> HIDE DEF k
<1>11. LiveInv'
  BY <1>6, <1>8, <1>9, <1>10, LiveStay DEF DiscoveryInv
<1>12. SendInv'
  <2>1. \A b \in Attempts : attempt'[b].pc = "send" => b # a /\ attempt'[b] = attempt[b]
    BY <1>6, <1>8
  <2> QED
    BY <1>1, <1>3, <1>9, <1>10, <2>1, SendersStay DEF DiscoveryInv
<1> QED
  BY <1>3, <1>7, <1>9, <1>11, <1>12 DEF DiscoveryInv

\* The send fails: the handler throws, and the key is free again or stays reserved.
LEMMA SendNextFailsInv ==
  ASSUME DiscoveryInv, NEW a \in Attempts, SendNextFails(a)
  PROVE  DiscoveryInv'
<1> DEFINE k == attempt[a].target
           h == attempt[a].key
           free == Release(jobs, k)
<1>1. /\ attempt[a].pc = "send" /\ attempt[a].pc # "idle"
      /\ UNCHANGED <<campaignVars, task, fanout, sources, usage, delivered>>
      /\ UNCHANGED <<campaignVars, fanout>>
  BY DEF SendNextFails
<1>2. TasksGoOn
  BY <1>1, NoTaskMoves
<1>3. CASE Throws(a)
  BY <1>1, <1>2, <1>3, ThrowsInv
<1>4. CASE ThrowsOver(a, free)
  <2>1. /\ CampaignInv' /\ FanoutShape' /\ FanoutInv'
        /\ Reached \subseteq Reached' /\ planner' = planner
        /\ TaskShape' /\ CountShape' /\ TaskInv'
    BY <1>1, <1>2, AttemptFrame
  <2>2. /\ k \in Reached /\ k \in Keys /\ jobs[k].state = "reserved"
        /\ h \in Reached /\ h \in Keys
    BY <1>1 DEF DiscoveryInv, AttemptInv, Remembers, Reached, SendInv
  <2>3. /\ attempt' = [attempt EXCEPT ![a] = IdleAttempt]
        /\ jobs' = IF attempt[a].live THEN FailTry(free, h) ELSE free
    BY <1>4 DEF ThrowsOver
  <2>4. attempt[a].live => h # k
    BY <2>2 DEF DiscoveryInv, LiveInv
  <2>5. AttemptShape' /\ AttemptInv'
    <3>1. IdleAttempt \in AttemptRecords
      BY DEF IdleAttempt, AttemptRecords, AttemptSteps, Cursors
    <3>2. Remembers(IdleAttempt, Reached')
      BY DEF Remembers, IdleAttempt
    <3> QED
      BY <2>1, <2>3, <3>1, <3>2, AttemptMoves DEF DiscoveryInv
  <2>6. \A b \in Attempts : attempt'[b] = IF b = a THEN IdleAttempt ELSE attempt[b]
    BY <2>3 DEF DiscoveryInv, AttemptShape
  <2>7. /\ free \in [Keys -> Jobs] /\ free[k].state = "none"
        /\ \A l \in Keys : free[l].tries = jobs[l].tries
        /\ \A l \in Keys : l # k => free[l] = jobs[l]
    <3>1. free = [jobs EXCEPT ![k].state = "none"]
      BY DEF Release
    <3>2. jobs \in [Keys -> Jobs] /\ "none" \in JobStates
      BY DEF DiscoveryInv, JobsShape, JobStates
    <3>3. k \in Keys
      BY <2>2
    <3> HIDE DEF free, k
    <3> QED
      BY <3>1, <3>2, <3>3, RetryLimitAssumption DEF Jobs, JobStates
  <2> DEFINE s == IF free[h].tries <= RetryLimit THEN "queued" ELSE "dead"
  <2>8. attempt[a].live =>
          /\ jobs' \in [Keys -> Jobs] /\ jobs'[h].state = s
          /\ \A l \in Keys : jobs'[l].tries = free[l].tries
          /\ \A l \in Keys : l # h => jobs'[l] = free[l]
    <3>1. attempt[a].live => jobs' = [free EXCEPT ![h].state = s]
      BY <2>3 DEF FailTry
    <3>2. s \in JobStates
      BY DEF JobStates
    <3> HIDE DEF free, h, s
    <3> QED
      BY ONLY <2>2, <2>7, <3>1, <3>2, StateUpdate
  <2>9. /\ jobs' \in [Keys -> Jobs] /\ jobs'[k].state = "none"
        /\ \A l \in Keys : jobs'[l].tries = jobs[l].tries
        /\ \A l \in Keys : l # k /\ (~attempt[a].live \/ l # h) => jobs'[l].state = jobs[l].state
        /\ attempt[a].live => jobs'[h].state = s
    <3>1. ~attempt[a].live => jobs' = free
      BY <2>3
    <3> HIDE DEF free, h, k, s
    <3> QED
      BY <2>2, <2>4, <2>7, <2>8, <3>1
  <2>10. JobsShape' /\ JobsInv'
    <3>1. jobs[k].tries <= RetryLimit
      BY <2>2 DEF DiscoveryInv, JobsInv
    <3>2. attempt[a].live /\ s = "queued" => jobs[h].tries <= RetryLimit
      BY <2>2, <2>7
    <3>3. ASSUME NEW l \in Keys
          PROVE  /\ jobs'[l].state # "none" => l \in Reached'
                 /\ jobs'[l].state \in {"none", "reserved", "queued"}
                      => jobs'[l].tries <= RetryLimit
      <4>1. CASE l = k
        BY <2>9, <3>1, <4>1
      <4>2. CASE l # k /\ attempt[a].live /\ l = h
        BY <2>1, <2>2, <2>9, <3>2, <4>2
      <4>3. CASE l # k /\ (~attempt[a].live \/ l # h)
        BY <2>1, <2>9, <4>3 DEF DiscoveryInv, JobsInv
      <4> QED
        BY <4>1, <4>2, <4>3
    <3> QED
      BY <2>9, <3>3 DEF JobsShape, JobsInv
  <2>11. /\ \A b \in Attempts : attempt[b].live /\ b # a =>
             /\ attempt[b].key \in Keys /\ attempt[b].pc # "idle" /\ attempt[b].key # k
             /\ attempt[a].live => attempt[b].key # h
         /\ \A b \in Attempts : attempt[b].pc = "send" /\ b # a =>
             /\ attempt[b].target \in Keys /\ attempt[b].target # k
             /\ attempt[a].live => attempt[b].target # h
         /\ \A p \in Planners : planner[p].pc = "send" =>
             /\ fanout[p].key \in Keys /\ fanout[p].key # k
             /\ attempt[a].live => fanout[p].key # h
    <3>1. attempt[a].live => jobs[h].state = "active"
      BY DEF DiscoveryInv, LiveInv
    <3>2. \A b \in Attempts : attempt[a].live /\ attempt[b].live /\ b # a => attempt[b].key # h
      BY DEF DiscoveryInv, LiveInv
    <3>3. /\ \A b \in Attempts : attempt[b].pc = "send" /\ b # a => attempt[b].target # k
          /\ \A p \in Planners : planner[p].pc = "send" => fanout[p].key # k
      BY <1>1 DEF DiscoveryInv, SendInv
    <3> HIDE DEF k, h
    <3>4. /\ \A b \in Attempts : attempt[b].live =>
               attempt[b].key \in Keys /\ attempt[b].pc # "idle" /\ attempt[b].key # k
          /\ \A b \in Attempts : attempt[b].pc = "send" => attempt[b].target \in Keys
          /\ \A p \in Planners : planner[p].pc = "send" => fanout[p].key \in Keys
      BY <2>2, OtherKeys
    <3>5. attempt[a].live =>
            /\ \A b \in Attempts : attempt[b].pc = "send" => attempt[b].target # h
            /\ \A p \in Planners : planner[p].pc = "send" => fanout[p].key # h
      BY <3>1, OtherKeys
    <3> QED
      BY <3>2, <3>3, <3>4, <3>5
  <2> HIDE DEF k, h, s
  <2>12. LiveInv'
    <3>1. \A b \in Attempts : attempt'[b].live => b # a /\ attempt'[b] = attempt[b]
      BY <2>6 DEF IdleAttempt
    <3> QED
      BY <2>9, <2>11, <3>1, LiveStay DEF DiscoveryInv
  <2>13. SendInv'
    <3>1. \A b \in Attempts : attempt'[b].pc = "send" => b # a /\ attempt'[b] = attempt[b]
      BY <2>6 DEF IdleAttempt
    <3> QED
      BY <1>1, <2>1, <2>9, <2>11, <3>1, SendersStay DEF DiscoveryInv
  <2> QED
    BY <2>1, <2>5, <2>10, <2>12, <2>13 DEF DiscoveryInv
<1> QED
  BY <1>3, <1>4 DEF SendNextFails

\* A job expires while its attempt goes on.
LEMMA ExpireInv ==
  ASSUME DiscoveryInv, NEW a \in Attempts, Expire(a)
  PROVE  DiscoveryInv'
<1> DEFINE k == attempt[a].key
           s == IF jobs[k].tries <= RetryLimit THEN "queued" ELSE "dead"
           r == [attempt[a] EXCEPT !.live = FALSE]
<1>1. /\ attempt[a].live /\ jobs' = FailTry(jobs, k)
      /\ attempt' = [attempt EXCEPT ![a].live = FALSE]
      /\ UNCHANGED <<campaignVars, task, fanout, sources, usage, delivered>>
      /\ UNCHANGED <<campaignVars, fanout>>
  BY DEF Expire
<1>2. TasksGoOn
  BY <1>1, NoTaskMoves
<1>3. /\ CampaignInv' /\ FanoutShape' /\ FanoutInv'
      /\ Reached \subseteq Reached' /\ planner' = planner
      /\ TaskShape' /\ CountShape' /\ TaskInv'
  BY <1>1, <1>2, AttemptFrame
<1>4. /\ attempt[a] \in AttemptRecords /\ Remembers(attempt[a], Reached)
      /\ k \in Reached /\ k \in Keys /\ jobs[k].state = "active"
  BY <1>1 DEF DiscoveryInv, AttemptShape, LiveInv, AttemptInv, Remembers, Reached
<1>5. attempt' = [attempt EXCEPT ![a] = r]
  BY <1>1
<1>6. /\ r \in AttemptRecords /\ r.pc = attempt[a].pc /\ r.key = attempt[a].key
      /\ ~r.live /\ r.cursor = attempt[a].cursor /\ r.target = attempt[a].target
      /\ r.result = attempt[a].result
  BY <1>4 DEF AttemptRecords
<1> HIDE DEF r
<1>7. AttemptShape' /\ AttemptInv'
  <2>1. Remembers(r, Reached')
    BY <1>3, <1>4, <1>6 DEF Remembers
  <2> QED
    BY <1>3, <1>5, <1>6, <2>1, AttemptMoves DEF DiscoveryInv
<1>8. \A b \in Attempts : attempt'[b] = IF b = a THEN r ELSE attempt[b]
  BY <1>5 DEF DiscoveryInv, AttemptShape
<1>9. /\ JobsShape' /\ JobsInv'
      /\ \A l \in Keys : jobs'[l].state = IF l = k THEN s ELSE jobs[l].state
  <2>1. jobs' = [jobs EXCEPT ![k].state = s]
    BY <1>1 DEF FailTry
  <2>2. /\ s \in JobStates /\ k \in Reached'
        /\ s \in {"none", "reserved", "queued"} => jobs[k].tries <= RetryLimit
    BY <1>3, <1>4 DEF JobStates
  <2>3. JobsShape /\ JobsInv
    BY DEF DiscoveryInv
  <2> HIDE DEF k, s
  <2> QED
    BY ONLY <1>3, <1>4, <2>1, <2>2, <2>3, JobMoves
<1>10. /\ \A b \in Attempts : attempt[b].live /\ b # a =>
            attempt[b].key \in Keys /\ attempt[b].pc # "idle" /\ attempt[b].key # k
       /\ \A b \in Attempts : attempt[b].pc = "send" =>
            attempt[b].target \in Keys /\ attempt[b].target # k
       /\ \A p \in Planners : planner[p].pc = "send" =>
            fanout[p].key \in Keys /\ fanout[p].key # k
  <2>1. \A b \in Attempts : attempt[b].live /\ b # a => attempt[b].key # k
    BY <1>1 DEF DiscoveryInv, LiveInv
  <2> QED
    BY <1>4, <2>1, OtherKeys
<1> HIDE DEF k, s
<1>11. LiveInv'
  BY <1>6, <1>8, <1>9, <1>10, LiveStay DEF DiscoveryInv
<1>12. SendInv'
  <2>1. \A b \in Attempts : attempt'[b].pc = "send" =>
          attempt[b].pc = "send" /\ attempt'[b].target = attempt[b].target
    BY <1>6, <1>8
  <2> QED
    BY <1>1, <1>3, <1>9, <1>10, <2>1, SendersStay DEF DiscoveryInv
<1> QED
  BY <1>3, <1>7, <1>9, <1>11, <1>12 DEF DiscoveryInv

LEMMA AttemptStepDiscovery ==
  ASSUME DiscoveryInv, NEW a \in Attempts, AttemptStep(a)
  PROVE  DiscoveryInv'
BY FetchInv, ReadInv, ClaimInv, CountRequestInv, CallProviderInv, ProviderFailsInv, CommitInv,
   CommitThrowsInv, FailsInv, EndsInv, ReserveNextInv, SendNextInv, SendNextFailsInv, ExpireInv
   DEF AttemptStep
LEMMA DiscoveryNextInv == DiscoveryInv /\ [Next]_vars => DiscoveryInv'
<1>1. ASSUME DiscoveryInv, UNCHANGED vars PROVE DiscoveryInv'
  <2>1. CampaignInv'
    BY <1>1, StutterInv DEF DiscoveryInv, vars
  <2>2. PastVersions' = PastVersions
    BY <1>1 DEF vars, campaignVars, PastVersions
  <2>3. Reached' = Reached
    BY <1>1, <2>2 DEF vars, discoveryVars, Reached
  <2>4. TaskShape' /\ JobsShape' /\ AttemptShape' /\ FanoutShape' /\ CountShape'
    BY <1>1 DEF DiscoveryInv, vars, discoveryVars, TaskShape, JobsShape, AttemptShape,
                FanoutShape, CountShape
  <2>5. TaskInv' /\ JobsInv' /\ AttemptInv' /\ LiveInv'
    BY <1>1, <2>3 DEF DiscoveryInv, vars, discoveryVars, TaskInv, JobsInv, AttemptInv, LiveInv
  <2>6. SendInv' /\ FanoutInv'
    BY <1>1, <2>2, <2>3 DEF DiscoveryInv, vars, discoveryVars, campaignVars, SendInv, FanoutInv
  <2> QED
    BY <2>1, <2>4, <2>5, <2>6 DEF DiscoveryInv
<1> QED
  BY <1>1, CampaignStepDiscovery, ScheduleStepDiscovery, AttemptStepDiscovery DEF Next
-----------------------------------------------------------------------------
(***************************************************************************)
(* The claim.                                                              *)
(***************************************************************************)
\* An attempt in a claim step is alone with its task, and holds its row.
SoleClaims ==
  \A a \in Attempts :
    attempt[a].pc \in ClaimSteps =>
      /\ task[attempt[a].key.task].status = "RUNNING"
      /\ task[attempt[a].key.task].page = attempt[a].key.page
      /\ \A b \in Attempts :
           attempt[b].pc \in ClaimSteps /\ attempt[b].key.task = attempt[a].key.task => b = a

\* The cursor follows: who claims remembers that of the page.
LEMMA ClaimsAreSole == DiscoveryInv /\ SoleClaims => ClaimExclusive
<1> SUFFICES ASSUME DiscoveryInv, SoleClaims, NEW a \in Attempts, NEW t \in Tasks,
                    attempt[a].pc \in ClaimSteps, attempt[a].key.task = t
             PROVE  /\ \A b \in Attempts : Claims(b, t) => b = a
                    /\ HoldsClaim(attempt[a].key)
                    /\ attempt[a].cursor = task[t].cursor
  BY DEF ClaimExclusive, Claims
<1>1. /\ task[t].status = "RUNNING" /\ task[t].page = attempt[a].key.page
      /\ \A b \in Attempts : attempt[b].pc \in ClaimSteps /\ attempt[b].key.task = t => b = a
  BY DEF SoleClaims
<1>2. task[t].cursor = CursorOf(task[t].page)
  BY <1>1 DEF DiscoveryInv, TaskInv
<1>3. attempt[a].cursor = CursorOf(attempt[a].key.page)
  BY DEF DiscoveryInv, AttemptInv, Remembers, ClaimSteps
<1> QED
  BY <1>1, <1>2, <1>3 DEF Claims, HoldsClaim

\* One attempt moves and the tasks stay, or it gives up its claim and its task.
LEMMA ClaimsMove ==
  ASSUME DiscoveryInv, SoleClaims, NEW a \in Attempts,
         \A b \in Attempts : b # a => attempt'[b] = attempt[b],
         \/ /\ attempt'[a].pc \in ClaimSteps
                 => attempt[a].pc \in ClaimSteps /\ attempt'[a].key = attempt[a].key
            /\ task' = task
         \/ /\ attempt[a].pc \in ClaimSteps /\ attempt'[a].pc \notin ClaimSteps
            /\ \A t \in Tasks : t # attempt[a].key.task => task'[t] = task[t]
  PROVE  SoleClaims'
<1>1. \A b \in Attempts : attempt'[b].pc \in ClaimSteps =>
        attempt[b].pc \in ClaimSteps /\ attempt'[b].key = attempt[b].key
  OBVIOUS
<1>2. \A b \in Attempts : attempt'[b].pc \in ClaimSteps =>
        task'[attempt[b].key.task] = task[attempt[b].key.task]
  <2>1. \A b \in Attempts : attempt[b].pc \in ClaimSteps => attempt[b].key.task \in Tasks
    BY DEF DiscoveryInv, AttemptInv, Remembers, Reached, Keys, ClaimSteps
  <2>2. attempt[a].pc \in ClaimSteps =>
          \A b \in Attempts : b # a /\ attempt[b].pc \in ClaimSteps
                                => attempt[b].key.task # attempt[a].key.task
    BY DEF SoleClaims
  <2> QED
    BY <1>1, <2>1, <2>2
<1> QED
  BY <1>1, <1>2 DEF SoleClaims

\* A handler that is left claims nothing.
LEMMA LeftUnclaimed ==
  ASSUME DiscoveryInv, NEW a \in Attempts, attempt' = [attempt EXCEPT ![a] = IdleAttempt]
  PROVE  /\ attempt'[a].pc \notin ClaimSteps
         /\ \A b \in Attempts : b # a => attempt'[b] = attempt[b]
BY DEF DiscoveryInv, AttemptShape, IdleAttempt, ClaimSteps

\* A handler that goes on keeps its key.
LEMMA GoesKeepsKey ==
  ASSUME DiscoveryInv, NEW a \in Attempts, NEW step, Goes(a, step)
  PROVE  /\ attempt'[a].pc = step /\ attempt'[a].key = attempt[a].key
         /\ \A b \in Attempts : b # a => attempt'[b] = attempt[b]
<1>1. attempt[a] \in AttemptRecords
  BY DEF DiscoveryInv, AttemptShape
<1> QED
  BY <1>1 DEF DiscoveryInv, AttemptShape, AttemptRecords, Goes

\* The claim succeeds only for a task that nobody claims.
LEMMA ClaimIsSole ==
  ASSUME DiscoveryInv, SoleClaims, NEW a \in Attempts, Claim(a)
  PROVE  SoleClaims'
<1> DEFINE k == attempt[a].key
<1>1. k.task \in Tasks
  BY DEF Claim, DiscoveryInv, AttemptInv, Remembers, Reached, Keys
<1>2. CASE Returns(a) /\ UNCHANGED task
  BY <1>2, LeftUnclaimed, ClaimsMove DEF Returns
<1>3. CASE /\ Claimable(k) /\ Goes(a, "usage")
           /\ task' = [task EXCEPT ![k.task].status = "RUNNING", ![k.task].attempts = @ + 1]
  <2>1. /\ task'[k.task].status = "RUNNING" /\ task'[k.task].page = k.page
        /\ \A t \in Tasks : t # k.task => task'[t] = task[t]
        /\ task[k.task].status # "RUNNING"
    BY <1>1, <1>3 DEF DiscoveryInv, TaskShape, TaskRows, Claimable, Unfinished
  <2>2. /\ attempt'[a].key = k
        /\ \A b \in Attempts : b # a => attempt'[b] = attempt[b]
    BY <1>3, GoesKeepsKey
  <2>3. \A b \in Attempts : attempt[b].pc \in ClaimSteps =>
          attempt[b].key.task \in Tasks /\ attempt[b].key.task # k.task
    <3>1. \A b \in Attempts : attempt[b].pc \in ClaimSteps => attempt[b].key.task \in Tasks
      BY DEF DiscoveryInv, AttemptInv, Remembers, Reached, Keys, ClaimSteps
    <3> QED
      BY <2>1, <3>1 DEF SoleClaims
  <2> HIDE DEF k
  <2> QED
    BY <2>1, <2>2, <2>3 DEF SoleClaims
<1> QED
  BY <1>2, <1>3 DEF Claim

\* The transaction: without a lost answer, the claim is given up exactly when the
\* page is persisted.
LEMMA CommitIsSole ==
  ASSUME DiscoveryInv, SoleClaims, NEW a \in Attempts,
         Commit(a) \/ (CommitThrows(a) /\ "ack" \notin Faults)
  PROVE  SoleClaims'
<1> DEFINE k == attempt[a].key
           result == attempt[a].result
<1>1. attempt[a].pc = "commit" /\ attempt[a].pc \in ClaimSteps /\ k.task \in Tasks
  BY DEF Commit, CommitThrows, ClaimSteps, DiscoveryInv, AttemptInv, Remembers, Reached, Keys
<1>2. HoldsClaim(k)
  BY <1>1 DEF SoleClaims, HoldsClaim
<1>3. CASE CommitThrows(a) /\ "ack" \notin Faults
  <2>1. Goes(a, "undo") /\ task' = task
    BY <1>3 DEF CommitThrows
  <2> QED
    BY <1>1, <2>1, GoesKeepsKey, ClaimsMove
<1>4. CASE Commit(a)
  <2>1. /\ Persist(k, result)
        /\ attempt' = [attempt EXCEPT
             ![a].pc = IF result.next = NoCursor THEN "finish" ELSE "reserve",
             ![a].target = IF result.next = NoCursor THEN NoKey
                           ELSE [k EXCEPT !.page = k.page + 1]]
    BY <1>2, <1>4 DEF Commit
  <2>2. \A t \in Tasks : t # k.task => task'[t] = task[t]
    BY <1>1, <2>1 DEF Persist, DiscoveryInv, TaskShape
  <2>3. attempt[a] \in AttemptRecords
    BY DEF DiscoveryInv, AttemptShape
  <2>4. /\ attempt'[a].pc \in {"finish", "reserve"}
        /\ \A b \in Attempts : b # a => attempt'[b] = attempt[b]
    BY <2>1, <2>3 DEF AttemptRecords, DiscoveryInv, AttemptShape
  <2>5. attempt'[a].pc \notin ClaimSteps
    BY <2>4 DEF ClaimSteps
  <2> QED
    BY <1>1, <2>2, <2>4, <2>5, ClaimsMove
<1> QED
  BY <1>3, <1>4

\* failDiscoveryTask, and the handler throws or records the error.
LEMMA FailIsSole ==
  ASSUME DiscoveryInv, SoleClaims, NEW a \in Attempts, MarkFailed(a) \/ Undo(a)
  PROVE  SoleClaims'
<1> DEFINE t == attempt[a].key.task
<1>1. attempt[a].pc \in ClaimSteps
  BY DEF MarkFailed, Undo, ClaimSteps
<1>2. \A u \in Tasks : u # t => task'[u] = task[u]
  BY DEF MarkFailed, Undo, FailTask, DiscoveryInv, TaskShape
<1>3. CASE MarkFailed(a)
  <2>1. Goes(a, "record") /\ "record" \notin ClaimSteps
    BY <1>3 DEF MarkFailed, ClaimSteps
  <2> QED
    BY <1>1, <1>2, <2>1, GoesKeepsKey, ClaimsMove
<1>4. CASE Undo(a)
  <2>1. attempt' = [attempt EXCEPT ![a] = IdleAttempt]
    BY <1>4 DEF Undo, Throws, ThrowsOver
  <2> QED
    BY <1>1, <1>2, <2>1, LeftUnclaimed, ClaimsMove
<1> QED
  BY <1>3, <1>4

\* The other steps of an attempt, that leave the tasks alone.
LEMMA OthersAreSole ==
  ASSUME DiscoveryInv, SoleClaims, NEW a \in Attempts,
         \/ Fetch(a) \/ Read(a) \/ CountRequest(a) \/ CountRequestFails(a)
         \/ CallProvider(a) \/ ProviderFails(a) \/ RecordError(a)
         \/ ReserveNext(a) \/ SendNext(a) \/ SendNextFails(a) \/ Finish(a)
         \/ Dies(a) \/ Expire(a)
  PROVE  SoleClaims'
<1>1. attempt[a] \in AttemptRecords /\ attempt \in [Attempts -> AttemptRecords]
  BY DEF DiscoveryInv, AttemptShape
<1>2. CASE attempt' = [attempt EXCEPT ![a] = IdleAttempt] /\ task' = task
  BY <1>2, LeftUnclaimed, ClaimsMove
<1>3. CASE /\ \E step : Goes(a, step) /\ (step \in ClaimSteps => attempt[a].pc \in ClaimSteps)
           /\ task' = task
  BY <1>3, GoesKeepsKey, ClaimsMove
<1>4. CASE Fetch(a)
  <2>1. PICK k \in Keys : attempt' = [attempt EXCEPT ![a].pc = "read", ![a].key = k,
                                                    ![a].live = TRUE]
    BY <1>4 DEF Fetch
  <2>2. /\ attempt'[a].pc = "read"
        /\ \A b \in Attempts : b # a => attempt'[b] = attempt[b]
    BY <1>1, <2>1 DEF AttemptRecords
  <2>3. task' = task /\ "read" \notin ClaimSteps
    BY <1>4 DEF Fetch, ClaimSteps
  <2> QED
    BY <2>2, <2>3, ClaimsMove
<1>5. CASE Read(a)
  <2>1. task' = task
    BY <1>5 DEF Read
  <2>2. \/ attempt' = [attempt EXCEPT ![a] = IdleAttempt]
        \/ /\ attempt'[a].pc \in {"reserve", "claim"}
           /\ \A b \in Attempts : b # a => attempt'[b] = attempt[b]
    BY <1>1, <1>5 DEF Read, Returns, Throws, ThrowsOver, AttemptRecords
  <2>3. "reserve" \notin ClaimSteps /\ "claim" \notin ClaimSteps
    BY DEF ClaimSteps
  <2> QED
    BY <1>2, <2>1, <2>2, <2>3, ClaimsMove
<1>6. CASE CallProvider(a)
  <2>1. task' = task /\ attempt[a].pc \in ClaimSteps
    BY <1>6 DEF CallProvider, ClaimSteps
  <2>2. /\ attempt'[a].key = attempt[a].key
        /\ \A b \in Attempts : b # a => attempt'[b] = attempt[b]
    BY <1>1, <1>6 DEF CallProvider, Goes, AttemptRecords
  <2> QED
    BY <2>1, <2>2, ClaimsMove
<1>7. CASE Expire(a)
  <2>1. /\ task' = task /\ attempt'[a].pc = attempt[a].pc /\ attempt'[a].key = attempt[a].key
        /\ \A b \in Attempts : b # a => attempt'[b] = attempt[b]
    BY <1>1, <1>7 DEF Expire, AttemptRecords
  <2> QED
    BY <2>1, ClaimsMove
<1>8. CASE CountRequest(a) \/ ProviderFails(a)
  <2>1. task' = task /\ attempt[a].pc \in ClaimSteps /\ (Goes(a, "call") \/ Goes(a, "fail"))
    BY <1>8 DEF CountRequest, ProviderFails, ClaimSteps
  <2> QED
    BY <1>3, <2>1
<1>9. CASE ReserveNext(a) \/ SendNext(a)
  <2>1. task' = task /\ (Goes(a, "send") \/ Goes(a, "finish"))
        /\ "send" \notin ClaimSteps /\ "finish" \notin ClaimSteps
    BY <1>9 DEF ReserveNext, SendNext, ClaimSteps
  <2> QED
    BY <1>3, <2>1
<1>10. CASE CountRequestFails(a) \/ RecordError(a) \/ SendNextFails(a) \/ Finish(a) \/ Dies(a)
  <2>1. task' = task /\ attempt' = [attempt EXCEPT ![a] = IdleAttempt]
    BY <1>10 DEF CountRequestFails, RecordError, SendNextFails, Finish, Dies, Returns, Throws,
                 ThrowsOver
  <2> QED
    BY <1>2, <2>1
<1> QED
  BY <1>4, <1>5, <1>6, <1>7, <1>8, <1>9, <1>10

LEMMA NextIsSole ==
  "ack" \notin Faults /\ DiscoveryInv /\ SoleClaims /\ [Next]_vars => SoleClaims'
<1> SUFFICES ASSUME "ack" \notin Faults, DiscoveryInv, SoleClaims, [Next]_vars
             PROVE  SoleClaims'
  OBVIOUS
<1>1. CASE UNCHANGED <<task, attempt>>
  BY <1>1 DEF SoleClaims
<1>2. CASE CampaignStep \/ UNCHANGED vars
  BY <1>1, <1>2 DEF CampaignStep, vars, discoveryVars
<1>3. ASSUME NEW p \in Planners, ScheduleStep(p) PROVE SoleClaims'
  BY <1>1, <1>3 DEF ScheduleStep, ListTasks, ScheduleTask, SendTask, SendTaskFails,
                    FinishSchedule, PlannerDies, discoveryVars
<1>4. ASSUME NEW a \in Attempts, AttemptStep(a) PROVE SoleClaims'
  BY <1>4, ClaimIsSole, CommitIsSole, FailIsSole, OthersAreSole DEF AttemptStep
<1> QED
  BY <1>2, <1>3, <1>4 DEF Next
-----------------------------------------------------------------------------
(***************************************************************************)
(* The abstract search.                                                    *)
(***************************************************************************)
Finished == {t \in Tasks : task[t].status = "COMPLETED"}

LEMMA InitSearches == Init => Search!SearchInit
BY DEF Init, Search!SearchInit

\* A page that is persisted is the next page of its search.
LEMMA PersistSearches ==
  ASSUME DiscoveryInv, NEW k \in Keys, NEW result \in Results, result.page = k.page,
         Persist(k, result)
  PROVE  Search!SearchNext
<1> DEFINE t == k.task
           new == Advanced(k, result)
<1>1. /\ t \in Tasks /\ task[t].status = "RUNNING" /\ task[t].page = k.page
      /\ k.page \in Nat /\ result.ids \in SUBSET Ids
  BY DEF Persist, HoldsClaim, Keys, Results, Pages
<1>2. /\ task' = [task EXCEPT ![t] = new]
      /\ sources' = sources \cup NewSources(k, result)
      /\ delivered' = [delivered EXCEPT ![t] = Append(@, result.page)]
  BY DEF Persist
<1>3. t \notin Finished
  BY <1>1 DEF Finished
<1>4. Len(delivered[t]) + 1 = result.page
  BY <1>1 DEF DiscoveryInv, TaskInv
<1>5. delivered' = [delivered EXCEPT ![t] = Append(@, Len(@) + 1)]
  BY <1>1, <1>2, <1>4 DEF DiscoveryInv, CountShape
<1>6. sources' = sources \cup ({t} \X result.ids)
  BY <1>2 DEF NewSources
<1>7. Finished' \in {Finished, Finished \cup {t}}
  <2>1. \A u \in Tasks : u # t => task'[u] = task[u]
    BY <1>2 DEF DiscoveryInv, TaskShape
  <2>2. \A u \in Tasks : u # t => (u \in Finished' <=> u \in Finished)
    BY <2>1 DEF Finished
  <2>3. Finished \subseteq Tasks /\ Finished' \subseteq Tasks
    BY DEF Finished
  <2> QED
    BY <1>1, <1>3, <2>2, <2>3
<1> QED
  BY <1>1, <1>3, <1>5, <1>6, <1>7 DEF Search!SearchNext, Search!PersistPage, Finished

\* A step that persists nothing is not seen.
LEMMA QuietSteps ==
  ASSUME DiscoveryInv, UNCHANGED <<sources, delivered>>,
         \/ task' = task
         \/ \E t \in Tasks : task[t].status # "COMPLETED" /\
              \/ \E n : task' = [task EXCEPT ![t].status = "RUNNING", ![t].attempts = n]
              \/ task' = [task EXCEPT ![t].status = "FAILED"]
  PROVE  UNCHANGED Search!searchVars
<1>1. Finished' = Finished
  <2>1. CASE task' = task
    BY <2>1 DEF Finished
  <2>2. CASE \E t \in Tasks : task[t].status # "COMPLETED" /\
               \/ \E n : task' = [task EXCEPT ![t].status = "RUNNING", ![t].attempts = n]
               \/ task' = [task EXCEPT ![t].status = "FAILED"]
    <3>1. \A u \in Tasks : task'[u].status = "COMPLETED" <=> task[u].status = "COMPLETED"
      BY <2>2 DEF DiscoveryInv, TaskShape, TaskRows
    <3> QED
      BY <3>1 DEF Finished
  <2> QED
    BY <2>1, <2>2
<1> QED
  BY <1>1 DEF Search!searchVars, Finished

LEMMA AttemptSearches ==
  ASSUME DiscoveryInv, NEW a \in Attempts, AttemptStep(a)
  PROVE  [Search!SearchNext]_(Search!searchVars)
<1> DEFINE k == attempt[a].key
           result == attempt[a].result
<1>1. CASE UNCHANGED <<task, sources, delivered>>
  BY <1>1, QuietSteps
<1>2. CASE attempt[a].pc = "commit" /\ Persist(k, result)
  <2>1. k \in Keys /\ result \in Results /\ result.page = k.page /\ k.task \in Tasks
    BY <1>2 DEF DiscoveryInv, AttemptInv, Remembers, Reached, Keys
  <2> QED
    BY <1>2, <2>1, PersistSearches
<1>3. CASE Commit(a) \/ CommitThrows(a)
  <2>1. \/ attempt[a].pc = "commit" /\ Persist(k, result)
        \/ UNCHANGED <<task, sources, delivered>>
    BY <1>3 DEF Commit, CommitThrows
  <2> QED
    BY <1>1, <1>2, <2>1
<1>4. CASE Claim(a)
  <2>1. k.task \in Tasks
    BY <1>4 DEF Claim, DiscoveryInv, AttemptInv, Remembers, Reached, Keys
  <2>2. UNCHANGED <<sources, delivered>>
    BY <1>4 DEF Claim
  <2>3. \/ task' = task
        \/ /\ task[k.task].status # "COMPLETED"
           /\ task' = [task EXCEPT ![k.task].status = "RUNNING",
                                   ![k.task].attempts = task[k.task].attempts + 1]
    BY <1>4, <2>1 DEF Claim, Claimable, Unfinished, DiscoveryInv, TaskShape, TaskRows
  <2> QED
    BY <2>1, <2>2, <2>3, QuietSteps
<1>5. CASE MarkFailed(a) \/ Undo(a)
  <2>1. k.task \in Tasks
    BY <1>5 DEF MarkFailed, Undo, DiscoveryInv, AttemptInv, Remembers, Reached, Keys
  <2>2. UNCHANGED <<sources, delivered>>
    BY <1>5 DEF MarkFailed, Undo
  <2>3. \/ task' = task
        \/ task[k.task].status # "COMPLETED" /\ task' = [task EXCEPT ![k.task].status = "FAILED"]
    BY <1>5 DEF MarkFailed, Undo, FailTask
  <2> QED
    BY <2>1, <2>2, <2>3, QuietSteps
<1>6. CASE \/ Fetch(a) \/ Read(a) \/ CountRequest(a) \/ CountRequestFails(a)
           \/ CallProvider(a) \/ ProviderFails(a) \/ RecordError(a)
           \/ ReserveNext(a) \/ SendNext(a) \/ SendNextFails(a) \/ Finish(a)
           \/ Dies(a) \/ Expire(a)
  BY <1>1, <1>6 DEF Fetch, Read, CountRequest, CountRequestFails, CallProvider, ProviderFails,
     RecordError, ReserveNext, SendNext, SendNextFails, Finish, Dies, Expire
<1> QED
  BY <1>3, <1>4, <1>5, <1>6 DEF AttemptStep

LEMMA NextSearches ==
  DiscoveryInv /\ [Next]_vars => [Search!SearchNext]_(Search!searchVars)
<1> SUFFICES ASSUME DiscoveryInv, [Next]_vars
             PROVE  [Search!SearchNext]_(Search!searchVars)
  OBVIOUS
<1>1. CASE UNCHANGED <<task, sources, delivered>>
  BY <1>1, QuietSteps
<1>2. CASE CampaignStep \/ UNCHANGED vars
  BY <1>1, <1>2 DEF CampaignStep, vars, discoveryVars
<1>3. ASSUME NEW p \in Planners, ScheduleStep(p)
      PROVE  [Search!SearchNext]_(Search!searchVars)
  BY <1>1, <1>3 DEF ScheduleStep, ListTasks, ScheduleTask, SendTask, SendTaskFails,
                    FinishSchedule, PlannerDies, discoveryVars
<1> QED
  BY <1>2, <1>3, AttemptSearches DEF Next
-----------------------------------------------------------------------------
(***************************************************************************)
(* The use of the queue.                                                   *)
(***************************************************************************)
\* How one entry may move.
EntryMoves(old, new) ==
  \/ /\ old.state = "none" /\ new = [old EXCEPT !.state = "reserved"]
  \/ /\ old.state = "reserved" /\ new \in {[old EXCEPT !.state = "queued"], [old EXCEPT !.state = "none"]}
  \/ /\ old.state = "queued" /\ new = [state |-> "active", tries |-> old.tries + 1]
  \/ /\ old.state = "active"
     /\ new \in {[old EXCEPT !.state = "done"],
                 [old EXCEPT !.state = IF old.tries <= RetryLimit THEN "queued" ELSE "dead"]}

\* Entries that move so are moved as the queue moves them.
LEMMA EntriesMove ==
  ASSUME NEW K, NEW old \in [K -> Jobs], NEW new,
         \A k \in K : new[k] # old[k] => EntryMoves(old[k], new[k])
  PROVE  UsedAsPromised(old, new)
<1> SUFFICES ASSUME NEW k \in K, new[k] # old[k]
             PROVE  Queue!Moves(old, [old EXCEPT ![k] = new[k]], k)
  BY DEF UsedAsPromised
<1> USE DEF Queue!Moves, Queue!Is
<1>0. EntryMoves(old[k], new[k]) /\ old[k] \in Jobs
  OBVIOUS
<1>1. CASE old[k].state = "none"
  BY <1>0, <1>1 DEF EntryMoves, Queue!Reserve
<1>2. CASE old[k].state = "reserved"
  BY <1>0, <1>2 DEF EntryMoves, Queue!Sent, Queue!Release
<1>3. CASE old[k].state = "queued"
  BY <1>0, <1>3 DEF EntryMoves, Queue!Begin
<1>4. CASE old[k].state = "active"
  BY <1>0, <1>4 DEF EntryMoves, Queue!Complete, Queue!FailTry
<1> QED
  BY <1>0, <1>1, <1>2, <1>3, <1>4 DEF EntryMoves

\* One entry moves by an operation of the table.
LEMMA OperationsMove ==
  ASSUME NEW K, NEW old \in [K -> Jobs], NEW k \in K, NEW new,
         \/ old[k].state = "none" /\ new = Reserve(old, k)
         \/ old[k].state = "reserved" /\ (new = Sent(old, k) \/ new = Release(old, k))
         \/ old[k].state = "queued" /\ new = Begin(old, k)
         \/ old[k].state = "active" /\ (new = Complete(old, k) \/ new = FailTry(old, k))
         \/ new = old
  PROVE  /\ \A l \in K : new[l] # old[l] => EntryMoves(old[l], new[l])
         /\ UsedAsPromised(old, new)
<1>1. \A l \in K : new[l] # old[l] => l = k
  BY DEF Reserve, Sent, Release, Begin, Complete, FailTry
<1>2. new[k] # old[k] => EntryMoves(old[k], new[k])
  BY DEF Reserve, Sent, Release, Begin, Complete, FailTry, EntryMoves
<1>3. \A l \in K : new[l] # old[l] => EntryMoves(old[l], new[l])
  BY <1>1, <1>2
<1> QED
  BY <1>3, EntriesMove

\* What stays is used as promised.
LEMMA NothingMoves ==
  ASSUME NEW K, NEW old \in [K -> Jobs]
  PROVE  UsedAsPromised(old, old)
BY DEF UsedAsPromised

\* Planners end jobs that are active.
LEMMA PlannerLeavesUses ==
  ASSUME CampaignInv, NEW p \in Planners, PlannerReturns(p) \/ PlannerThrows(p)
  PROVE  UsedAsPromised(planJobs, planJobs')
<1>1. planJobs \in [Versions -> Jobs] /\ planner[p].job \in Versions
  BY DEF CampaignInv, CampaignTypeOK
<1>2. planner[p].live => planJobs[planner[p].job].state = "active"
  BY DEF CampaignInv, PlannerJobs
<1>3. \/ planJobs' = planJobs
      \/ /\ planner[p].live
         /\ \/ planJobs' = Complete(planJobs, planner[p].job)
            \/ planJobs' = FailTry(planJobs, planner[p].job)
  BY DEF PlannerReturns, PlannerThrows
<1> QED
  BY <1>1, <1>2, <1>3, OperationsMove

\* Steps of the campaign, of the planner's schedule, of an attempt.
LEMMA CampaignPartUses ==
  ASSUME CampaignInv, CampaignPart
  PROVE  UsedAsPromised(planJobs, planJobs')
<1>0. planJobs \in [Versions -> Jobs]
  BY DEF CampaignInv, CampaignTypeOK
<1>1. CASE planJobs' = planJobs
  BY <1>0, <1>1, NothingMoves
<1>2. CASE UserNext
  BY <1>1, <1>2 DEF UserNext, Start, Resume, Publish, Pause, Cancel
<1>3. CASE RequestNext
  <2> PICK r \in Requests :
        ReservePlan(r) \/ SendPlan(r) \/ PublishFails(r) \/ Rollback(r) \/ ApiCrash(r)
    BY <1>3 DEF RequestNext
  <2> PICK v : v = request[r].version
    OBVIOUS
  <2>1. /\ v \in Versions
        /\ request[r].pc = "send" => planJobs[v].state = "reserved"
    BY DEF CampaignInv, CampaignTypeOK, RequestKeys
  <2>2. \/ planJobs[v].state = "none" /\ planJobs' = Reserve(planJobs, v)
        \/ request[r].pc = "send" /\ planJobs' = Sent(planJobs, v)
        \/ request[r].pc = "send" /\ planJobs' = Release(planJobs, v)
        \/ planJobs' = planJobs
    BY DEF ReservePlan, SendPlan, PublishFails, Rollback, ApiCrash, Is
  <2> QED
    BY <1>0, <2>1, <2>2, OperationsMove
<1>4. CASE PlannerNext
  <2> PICK p \in Planners :
        \/ FetchPlan(p) \/ LoadForPlan(p) \/ PersistPlan(p) \/ Reload(p)
        \/ Handoff(p) \/ Confirm(p) \/ PlannerExpire(p)
    BY <1>4 DEF PlannerNext
  <2>1. CASE FetchPlan(p)
    <3> PICK v \in Versions : planJobs[v].state = "queued" /\ planJobs' = Begin(planJobs, v)
      BY <2>1 DEF FetchPlan, Is
    <3> QED
      BY <1>0, OperationsMove
  <2>2. CASE PlannerExpire(p)
    <3>1. /\ planJobs' = FailTry(planJobs, planner[p].job) /\ planner[p].job \in Versions
          /\ planJobs[planner[p].job].state = "active"
      BY <2>2 DEF PlannerExpire, CampaignInv, CampaignTypeOK, PlannerJobs
    <3> QED
      BY <1>0, <3>1, OperationsMove
  <2>3. CASE LoadForPlan(p) \/ PersistPlan(p) \/ Reload(p) \/ Handoff(p) \/ Confirm(p)
    <3>1. PlannerReturns(p) \/ PlannerThrows(p) \/ planJobs' = planJobs
      BY <2>3 DEF LoadForPlan, PersistPlan, Reload, Handoff, Confirm, PlannerGoes, EnterTasks
    <3> QED
      BY <1>1, <3>1, PlannerLeavesUses
  <2> QED
    BY <2>1, <2>2, <2>3
<1> QED
  BY <1>2, <1>3, <1>4 DEF CampaignPart

LEMMA ScheduleUses ==
  ASSUME DiscoveryInv, NEW p \in Planners, ScheduleStep(p)
  PROVE  UsedAsPromised(jobs, jobs') /\ UsedAsPromised(planJobs, planJobs')
<1>0. jobs \in [Keys -> Jobs] /\ planJobs \in [Versions -> Jobs] /\ CampaignInv
  BY DEF DiscoveryInv, JobsShape, CampaignInv, CampaignTypeOK
<1>1. UsedAsPromised(planJobs, planJobs')
  <2>1. CASE ListTasks(p) \/ ScheduleTask(p) \/ SendTask(p)
    <3>1. planJobs' = planJobs
      BY <2>1 DEF ListTasks, ScheduleTask, SendTask, PlannerGoes
    <3> QED
      BY <1>0, <3>1, NothingMoves
  <2>2. CASE SendTaskFails(p) \/ FinishSchedule(p) \/ PlannerDies(p)
    <3>1. PlannerReturns(p) \/ PlannerThrows(p)
      BY <2>2 DEF SendTaskFails, FinishSchedule, PlannerDies, PlannerCrash
    <3> QED
      BY <1>0, <3>1, PlannerLeavesUses
  <2> QED
    BY <2>1, <2>2 DEF ScheduleStep
<1>2. CASE jobs' = jobs
  BY <1>0, <1>1, <1>2, NothingMoves
<1>3. CASE ScheduleTask(p)
  <2> PICK k \in fanout[p].todo :
        IF Is(jobs, k, "none")
        THEN /\ jobs' = Reserve(jobs, k)
             /\ fanout' = [fanout EXCEPT ![p].key = k]
             /\ PlannerGoes(p, "send")
        ELSE /\ fanout' = [fanout EXCEPT ![p].todo = @ \ {k}]
             /\ UNCHANGED <<jobs, planner, planJobs>>
    BY <1>3 DEF ScheduleTask
  <2>1. k \in Keys
    BY DEF DiscoveryInv, FanoutShape
  <2>2. \/ jobs[k].state = "none" /\ jobs' = Reserve(jobs, k)
        \/ jobs' = jobs
    BY DEF Is
  <2> QED
    BY <1>0, <1>1, <2>1, <2>2, OperationsMove
<1>4. CASE SendTask(p) \/ SendTaskFails(p)
  <2> PICK k : k = fanout[p].key
    OBVIOUS
  <2>1. k \in Keys /\ jobs[k].state = "reserved"
    BY <1>4 DEF SendTask, SendTaskFails, DiscoveryInv, FanoutShape, SendInv
  <2>2. jobs' = Sent(jobs, k) \/ jobs' = Release(jobs, k) \/ jobs' = jobs
    BY <1>4 DEF SendTask, SendTaskFails
  <2> QED
    BY <1>0, <1>1, <2>1, <2>2, OperationsMove
<1> QED
  BY <1>1, <1>2, <1>3, <1>4
     DEF ScheduleStep, ListTasks, FinishSchedule, PlannerDies, discoveryVars

LEMMA AttemptUses ==
  ASSUME DiscoveryInv, NEW a \in Attempts, AttemptStep(a)
  PROVE  UsedAsPromised(jobs, jobs')
<1> PICK h : h = attempt[a].key
  OBVIOUS
<1> PICK k : k = attempt[a].target
  OBVIOUS
<1>0. /\ jobs \in [Keys -> Jobs]
      /\ attempt[a].live => jobs[h].state = "active" /\ h \in Keys
      /\ attempt[a].pc = "send" => jobs[k].state = "reserved"
      /\ attempt[a].pc \in {"reserve", "send"} => k \in Keys
  BY DEF DiscoveryInv, JobsShape, LiveInv, SendInv, AttemptInv, Remembers, Reached
<1>1. CASE jobs' = jobs
  BY <1>0, <1>1, NothingMoves
<1>2. CASE Returns(a) \/ Throws(a) \/ Expire(a)
  <2>1. \/ jobs' = jobs
        \/ attempt[a].live /\ (jobs' = Complete(jobs, h) \/ jobs' = FailTry(jobs, h))
    BY <1>2 DEF Returns, Throws, ThrowsOver, Expire
  <2> QED
    BY <1>0, <1>1, <2>1, OperationsMove
<1>3. CASE Fetch(a)
  <2> PICK l \in Keys : jobs[l].state = "queued" /\ jobs' = Begin(jobs, l)
    BY <1>3 DEF Fetch, Is
  <2> QED
    BY <1>0, OperationsMove
<1>4. CASE ReserveNext(a) \/ SendNext(a)
  <2>1. \/ jobs' = jobs
        \/ jobs[k].state = "none" /\ jobs' = Reserve(jobs, k)
        \/ attempt[a].pc = "send" /\ jobs' = Sent(jobs, k)
    BY <1>4 DEF ReserveNext, SendNext, Is
  <2>2. k \in Keys
    BY <1>0, <1>4 DEF ReserveNext, SendNext
  <2> QED
    BY <1>0, <2>1, <2>2, OperationsMove
<1>5. ASSUME attempt[a].pc = "send", ThrowsOver(a, Release(jobs, k))
      PROVE  UsedAsPromised(jobs, jobs')
  <2> PICK free : free = Release(jobs, k)
    OBVIOUS
  <2>1. /\ free \in [Keys -> Jobs] /\ k \in Keys
        /\ \A l \in Keys : free[l] # jobs[l] => l = k
        /\ \A l \in Keys : free[l] # jobs[l] => EntryMoves(jobs[l], free[l])
    BY <1>0, <1>5, OperationsMove DEF Release, Jobs, JobStates
  <2>2. CASE ~attempt[a].live
    BY <1>0, <1>5, <2>1, <2>2, EntriesMove DEF ThrowsOver
  <2>3. CASE attempt[a].live
    <3>1. h \in Keys /\ free[h] = jobs[h] /\ free[h].state = "active"
      BY <1>0, <1>5, <2>1, <2>3
    <3>2. jobs' = FailTry(free, h)
      BY <1>5, <2>3 DEF ThrowsOver
    <3>3. \A l \in Keys : jobs'[l] # free[l] => l = h /\ EntryMoves(free[l], jobs'[l])
      BY <2>1, <3>1, <3>2, OperationsMove DEF FailTry
    <3>4. \A l \in Keys : jobs'[l] # jobs[l] => EntryMoves(jobs[l], jobs'[l])
      BY <2>1, <3>1, <3>3
    <3> QED
      BY <1>0, <3>4, EntriesMove
  <2> QED
    BY <2>2, <2>3
<1> QED
  BY <1>1, <1>2, <1>3, <1>4, <1>5
     DEF AttemptStep, Read, Claim, CountRequest, CountRequestFails, CallProvider,
         ProviderFails, Commit, CommitThrows, MarkFailed, RecordError, Undo, SendNextFails, Finish,
         Dies, Goes

LEMMA StepsUse ==
  DiscoveryInv /\ [Next]_vars
    => [UsedAsPromised(jobs, jobs') /\ UsedAsPromised(planJobs, planJobs')]_vars
<1> SUFFICES ASSUME DiscoveryInv, Next
             PROVE  UsedAsPromised(jobs, jobs') /\ UsedAsPromised(planJobs, planJobs')
  OBVIOUS
<1>0. jobs \in [Keys -> Jobs] /\ planJobs \in [Versions -> Jobs] /\ CampaignInv
  BY DEF DiscoveryInv, JobsShape, CampaignInv, CampaignTypeOK
<1>1. CASE CampaignStep
  <2>1. jobs' = jobs /\ CampaignPart
    BY <1>1 DEF CampaignStep, CampaignPart, discoveryVars
  <2> QED
    BY <1>0, <2>1, NothingMoves, CampaignPartUses
<1>2. ASSUME NEW a \in Attempts, AttemptStep(a) PROVE planJobs' = planJobs
  BY <1>2 DEF AttemptStep, Fetch, Read, Claim, CountRequest, CountRequestFails, CallProvider,
         ProviderFails, Commit, CommitThrows, MarkFailed, RecordError, Undo, ReserveNext,
         SendNext, SendNextFails, Finish, Dies, Expire, campaignVars
<1>3. CASE \E a \in Attempts : AttemptStep(a)
  BY <1>0, <1>2, <1>3, NothingMoves, AttemptUses
<1>4. CASE \E p \in Planners : ScheduleStep(p)
  BY <1>4, ScheduleUses
<1> QED
  BY <1>1, <1>3, <1>4 DEF Next
-----------------------------------------------------------------------------
\* DiscoveryInv is an invariant: lifecycle requests, planners, attempts, expiries,
\* crashes, lost sends and lost answers, in any order.
THEOREM DiscoveryInvariant == Spec => []DiscoveryInv
BY DiscoveryInit, DiscoveryNextInv, PTL DEF Spec

\* Every variable keeps its type; pages stay in range, and no discovery job is begun
\* more often than its retry limit allows, whoever expires it or dies.
THEOREM DiscoveryTypes == Spec => []TypeOK
BY DiscoveryInvariant, TypesOfInv, PTL

\* The campaign's own guarantees survive the composition with discovery, whose planner
\* runs go on after the hand-off and fail at more places.
THEOREM CampaignStillHolds == Spec => [](DiscoveringIsPlanned /\ PlanningIsDriven)
<1>1. DiscoveryInv => DiscoveringIsPlanned /\ PlanningIsDriven
  BY DEF DiscoveryInv, CampaignInv
<1> QED
  BY <1>1, DiscoveryInvariant, PTL

\* No job is published for a page its task has not reached, by the planner, a
\* continuation or a repair.
THEOREM JobsNeverAhead == Spec => []NoJobAhead
<1>1. DiscoveryInv => NoJobAhead
  BY DEF DiscoveryInv, JobsInv, Reached, NoJobAhead, Is
<1> QED
  BY <1>1, DiscoveryInvariant, PTL

\* A generation that discovery jobs were published for is one in which the campaign
\* is DISCOVERING: a stopped or resumed campaign has left it behind.
THEOREM GenerationsTell == Spec => []GenerationMeansDiscovering
<1>1. DiscoveryInv => GenerationMeansDiscovering
  BY DEF DiscoveryInv, JobsInv, Reached, PastVersions, GenerationMeansDiscovering, Is
<1> QED
  BY <1>1, DiscoveryInvariant, PTL

\* While no answer of a commit is lost, the claim of a page is exclusive, and what
\* its holder read is what the row still says.
THEOREM ClaimsAreExclusive == "ack" \notin Faults => (Spec => []ClaimExclusive)
<1>1. Init => SoleClaims
  BY DEF Init, SoleClaims, IdleAttempt, ClaimSteps
<1>2. DiscoveryInv /\ SoleClaims => ClaimExclusive
  BY ClaimsAreSole
<1> SUFFICES ASSUME "ack" \notin Faults PROVE Spec => []ClaimExclusive
  OBVIOUS
<1>3. DiscoveryInv /\ SoleClaims /\ [Next]_vars => SoleClaims'
  BY NextIsSole
<1> QED
  BY <1>1, <1>2, <1>3, DiscoveryInvariant, PTL DEF Spec

\* The pipeline implements the abstract paged search: whatever fails, expires or is
\* repeated, the pages of a search are persisted once each, in order, up to the last.
THEOREM DiscoveryImplementsSearch == Spec => SearchRefinement
BY InitSearches, NextSearches, DiscoveryInvariant, PTL
   DEF Spec, SearchRefinement, Search!SearchSpec

\* Campaign and discovery move the entries of the queue only as KeyedJobs, which the
\* queue service implements, lets them: no job is ended that is not active, no key
\* sent or released that is not reserved, whoever expires, dies or fails.
THEOREM QueueIsUsedAsPromised == Spec => QueueUsedAsPromised
BY StepsUse, DiscoveryInvariant, PTL DEF Spec, QueueUsedAsPromised
=============================================================================
