------------------------------ MODULE Campaign ------------------------------
(***************************************************************************)
(* One campaign: the lifecycle requests of the API (campaigns.service.ts), *)
(* the campaign-plan jobs they publish, and the planner that turns         *)
(* PLANNING into DISCOVERING (campaign-plan.processor.ts).                 *)
(*                                                                         *)
(* campaign.version stands for Campaign.updatedAt: every successful update *)
(* of the row changes it, and it names the generation a discovery job      *)
(* belongs to.  The planner stops here at "tasks", where it has the right  *)
(* to schedule search tasks; module Discovery carries on from there.       *)
(***************************************************************************)
EXTENDS JobTable, FiniteSets

CONSTANTS
  Requests,     \* start/resume requests the API handles at the same time
  Planners,     \* campaign-plan handler executions at the same time
  MaxVersion,   \* bound: no user request is made at this generation
  Faults        \* which failures may happen, a subset of FaultKinds

(***************************************************************************)
(* send      publication of a job fails and its reservation is removed     *)
(* orphan    the publisher dies, or cannot undo, between reservation and   *)
(*           boss.send                                                     *)
(* api       the API process dies while it handles a request               *)
(* crash     a worker process dies while it runs a handler                 *)
(* expire    pg-boss gives a job up while its handler still runs           *)
(* provider  the discovery provider fails                                  *)
(* usage     the ProviderUsage write before the provider call fails        *)
(* rollback  the result transaction fails and is rolled back               *)
(* ack       the result transaction commits, the worker sees an error      *)
(***************************************************************************)
FaultKinds == {"send", "orphan", "api", "crash", "expire", "provider",
               "usage", "rollback", "ack"}

ASSUME CampaignAssumption ==
  /\ MaxVersion \in Nat
  /\ Faults \subseteq FaultKinds

Statuses == {"DRAFT", "PLANNING", "DISCOVERING", "PAUSED", "CANCELLED"}

\* PLANNING can be left once more (handoff or rollback) after the last request.
Versions == 0 .. MaxVersion + 1

VARIABLES
  campaign,   \* the Campaign row: status and version
  planned,    \* the SearchPlan and its SearchTasks have been persisted
  planJobs,   \* campaign-plan jobs; the key is the version that published it
  request,    \* start/resume requests between their transition and their answer
  planner     \* executions of processCampaignPlanJob

campaignVars == <<campaign, planned, planJobs, request, planner>>

\* A request is lost when the API process dies while it handles it.
RequestSteps == {"idle", "reserve", "send", "rollback", "lost"}

PlannerSteps == {"idle", "load", "persist", "reload", "handoff", "confirm",
                 "tasks", "schedule", "send"}

IdleRequest == [pc |-> "idle", from |-> "DRAFT", version |-> 0]

IdlePlanner == [pc |-> "idle", job |-> 0, live |-> FALSE, version |-> 0]

CampaignTypeOK ==
  /\ campaign \in [status : Statuses, version : Versions]
  /\ planned \in BOOLEAN
  /\ planJobs \in [Versions -> Jobs]
  /\ request \in [Requests -> [pc : RequestSteps, from : {"DRAFT", "PAUSED"},
                               version : Versions]]
  /\ planner \in [Planners -> [pc : PlannerSteps, job : Versions,
                               live : BOOLEAN, version : Versions]]

\* CampaignsService.create: a new row is a DRAFT nobody has worked on.
CampaignInit ==
  /\ campaign = [status |-> "DRAFT", version |-> 0]
  /\ planned = FALSE
  /\ planJobs = [v \in Versions |-> NoJob]
  /\ request = [r \in Requests |-> IdleRequest]
  /\ planner = [p \in Planners |-> IdlePlanner]
-----------------------------------------------------------------------------
\* Mutant of Moved: the update does not touch updatedAt.
MovedUntouched(status) == [status |-> status, version |-> campaign.version]

\* The row after an update that sets its status; @updatedAt moves with it.
Moved(status) == [status |-> status, version |-> campaign.version + 1]

\* transition: the conditional update matches one row, else 409 and no change.
Transition(expected, next) ==
  /\ campaign.status \in expected
  /\ campaign.version < MaxVersion
  /\ campaign' = Moved(next)

\* start and resume: take the row to PLANNING, then publish the plan job.
Publish(r, from) ==
  /\ request[r].pc \in {"idle", "lost"}
  /\ Transition({from}, "PLANNING")
  /\ request' = [request EXCEPT ![r] = [pc |-> "reserve", from |-> from,
                                        version |-> campaign'.version]]
  /\ UNCHANGED <<planned, planJobs, planner>>

Start(r) == Publish(r, "DRAFT")

Resume(r) == Publish(r, "PAUSED")

Pause ==
  /\ Transition({"PLANNING", "DISCOVERING"}, "PAUSED")
  /\ UNCHANGED <<planned, planJobs, request, planner>>

Cancel ==
  /\ Transition({"DRAFT", "PLANNING", "DISCOVERING", "PAUSED"}, "CANCELLED")
  /\ UNCHANGED <<planned, planJobs, request, planner>>

\* enqueueCampaignPlan, first half: reserve the key of this generation, or
\* find it taken and answer with the job that holds it.
ReservePlan(r) ==
  /\ request[r].pc = "reserve"
  /\ IF Is(planJobs, request[r].version, "none")
     THEN /\ planJobs' = Reserve(planJobs, request[r].version)
          /\ request' = [request EXCEPT ![r].pc = "send"]
     ELSE /\ request' = [request EXCEPT ![r] = IdleRequest]
          /\ UNCHANGED planJobs
  /\ UNCHANGED <<campaign, planned, planner>>

\* enqueueCampaignPlan, second half: pg-boss accepts the job.
SendPlan(r) ==
  /\ request[r].pc = "send"
  /\ planJobs' = Sent(planJobs, request[r].version)
  /\ request' = [request EXCEPT ![r] = IdleRequest]
  /\ UNCHANGED <<campaign, planned, planner>>

\* The publication fails; deleting the reservation may fail too (ignored).
PublishFails(r) ==
  /\ request[r].pc \in {"reserve", "send"}
  /\ \/ /\ "send" \in Faults
        /\ planJobs' = IF request[r].pc = "send"
                       THEN Release(planJobs, request[r].version)
                       ELSE planJobs
     \/ /\ "orphan" \in Faults
        /\ UNCHANGED planJobs
  /\ request' = [request EXCEPT ![r].pc = "rollback"]
  /\ UNCHANGED <<campaign, planned, planner>>

\* Mutant of Rollback: the failed request leaves the campaign in PLANNING.
RollbackForgotten(r) ==
  /\ request[r].pc = "rollback"
  /\ request' = [request EXCEPT ![r] = IdleRequest]
  /\ UNCHANGED <<campaign, planned, planJobs, planner>>

\* Mutant of Rollback: the update does not ask for PLANNING.
RollbackAlways(r) ==
  /\ request[r].pc = "rollback"
  /\ campaign' = Moved(request[r].from)
  /\ request' = [request EXCEPT ![r] = IdleRequest]
  /\ UNCHANGED <<planned, planJobs, planner>>

\* rollbackPlanningTransition: its update asks for PLANNING, of any generation.
Rollback(r) ==
  /\ request[r].pc = "rollback"
  /\ campaign' = IF campaign.status = "PLANNING"
                 THEN Moved(request[r].from) ELSE campaign
  /\ request' = [request EXCEPT ![r] = IdleRequest]
  /\ UNCHANGED <<planned, planJobs, planner>>

\* The API process dies with the request half done; nobody goes on with it.
ApiCrash(r) ==
  /\ "api" \in Faults
  /\ request[r].pc \notin {"idle", "lost"}
  /\ request' = [request EXCEPT ![r].pc = "lost"]
  /\ UNCHANGED <<campaign, planned, planJobs, planner>>
-----------------------------------------------------------------------------
\* pg-boss gives a queued plan job to an idle handler.
FetchPlan(p) ==
  /\ planner[p].pc = "idle"
  /\ \E v \in Versions :
       /\ Is(planJobs, v, "queued")
       /\ planJobs' = Begin(planJobs, v)
       /\ planner' = [planner EXCEPT ![p] = [pc |-> "load", job |-> v,
                                             live |-> TRUE, version |-> 0]]
  /\ UNCHANGED <<campaign, planned, request>>

PlannerGoes(p, step) ==
  /\ planner' = [planner EXCEPT ![p].pc = step]
  /\ UNCHANGED planJobs

\* The handler is left; what it answers counts only while the job is its own.
PlannerReturns(p) ==
  /\ planJobs' = IF planner[p].live
                 THEN Complete(planJobs, planner[p].job) ELSE planJobs
  /\ planner' = [planner EXCEPT ![p] = IdlePlanner]

PlannerThrows(p) ==
  /\ planJobs' = IF planner[p].live
                 THEN FailTry(planJobs, planner[p].job) ELSE planJobs
  /\ planner' = [planner EXCEPT ![p] = IdlePlanner]

\* Mutant of LoadForPlan: hands the campaign off before it is planned.
LoadSkipsPlan(p) ==
  /\ planner[p].pc = "load"
  /\ CASE campaign.status = "CANCELLED" -> PlannerReturns(p)
       [] campaign.status = "DRAFT"     -> PlannerThrows(p)
       [] OTHER                         -> PlannerGoes(p, "reload")
  /\ UNCHANGED <<campaign, planned, request>>

\* planCampaignSearch: CANCELLED is skipped, DRAFT is an error.
LoadForPlan(p) ==
  /\ planner[p].pc = "load"
  /\ CASE campaign.status = "CANCELLED" -> PlannerReturns(p)
       [] campaign.status = "DRAFT"     -> PlannerThrows(p)
       [] OTHER                         -> PlannerGoes(p, "persist")
  /\ UNCHANGED <<campaign, planned, request>>

\* planCampaignSearch: upsert the plan, create the tasks it does not have yet.
PersistPlan(p) ==
  /\ planner[p].pc = "persist"
  /\ planned' = TRUE
  /\ PlannerGoes(p, "reload")
  /\ UNCHANGED <<campaign, request>>

\* DISCOVERING: remember the generation and go on to the tasks.
EnterTasks(p) ==
  /\ planner' = [planner EXCEPT ![p].pc = "tasks",
                                ![p].version = campaign.version]
  /\ UNCHANGED planJobs

\* The campaign is read again after planning.
Reload(p) ==
  /\ planner[p].pc = "reload"
  /\ CASE campaign.status \in {"PAUSED", "CANCELLED"} -> PlannerReturns(p)
       [] campaign.status = "PLANNING"    -> PlannerGoes(p, "handoff")
       [] campaign.status = "DISCOVERING" -> EnterTasks(p)
       [] OTHER                           -> PlannerThrows(p)
  /\ UNCHANGED <<campaign, planned, request>>

\* updateMany PLANNING -> DISCOVERING; a lost race changes nothing.
Handoff(p) ==
  /\ planner[p].pc = "handoff"
  /\ campaign' = IF campaign.status = "PLANNING"
                 THEN Moved("DISCOVERING") ELSE campaign
  /\ PlannerGoes(p, "confirm")
  /\ UNCHANGED <<planned, request>>

\* The campaign is read once more after the handoff.
Confirm(p) ==
  /\ planner[p].pc = "confirm"
  /\ CASE campaign.status \in {"PAUSED", "CANCELLED"} -> PlannerReturns(p)
       [] campaign.status = "DISCOVERING" -> EnterTasks(p)
       [] OTHER                           -> PlannerThrows(p)
  /\ UNCHANGED <<campaign, planned, request>>

\* The handler returns after the hand-off of the tasks.
FinishPlan(p) ==
  /\ planner[p].pc = "tasks"
  /\ PlannerReturns(p)
  /\ UNCHANGED <<campaign, planned, request>>

\* The worker dies; pg-boss notices and retries or dead-letters the job.
PlannerCrash(p) ==
  /\ "crash" \in Faults
  /\ planner[p].pc # "idle"
  /\ PlannerThrows(p)
  /\ UNCHANGED <<campaign, planned, request>>

\* The job expires while its handler goes on.
PlannerExpire(p) ==
  /\ "expire" \in Faults
  /\ planner[p].live
  /\ planJobs' = FailTry(planJobs, planner[p].job)
  /\ planner' = [planner EXCEPT ![p].live = FALSE]
  /\ UNCHANGED <<campaign, planned, request>>
-----------------------------------------------------------------------------
UserNext ==
  \/ \E r \in Requests : Start(r) \/ Resume(r)
  \/ Pause
  \/ Cancel

RequestNext ==
  \E r \in Requests :
    \/ ReservePlan(r) \/ SendPlan(r) \/ PublishFails(r) \/ Rollback(r)
    \/ ApiCrash(r)

PlannerNext ==
  \E p \in Planners :
    \/ FetchPlan(p) \/ LoadForPlan(p) \/ PersistPlan(p) \/ Reload(p)
    \/ Handoff(p) \/ Confirm(p) \/ PlannerExpire(p)

CampaignNext ==
  \/ UserNext
  \/ RequestNext
  \/ PlannerNext
  \/ \E p \in Planners : FinishPlan(p) \/ PlannerCrash(p)

CampaignSpec == CampaignInit /\ [][CampaignNext]_campaignVars

\* The API finishes the requests it began and the worker runs its handlers;
\* no user has to do anything and no fault has to happen.
RequestFairness ==
  \A r \in Requests :
    WF_campaignVars(ReservePlan(r) \/ SendPlan(r) \/ Rollback(r))

PlannerFairness ==
  \A p \in Planners :
    WF_campaignVars(FetchPlan(p) \/ LoadForPlan(p) \/ PersistPlan(p)
                    \/ Reload(p) \/ Handoff(p) \/ Confirm(p) \/ FinishPlan(p))

CampaignFairSpec == CampaignSpec /\ RequestFairness /\ PlannerFairness
-----------------------------------------------------------------------------
(***************************************************************************)
(* Properties.                                                             *)
(***************************************************************************)
\* A campaign is DISCOVERING only when its search plan and tasks are in the
\* database, whoever paused, cancelled, resumed or rolled back meanwhile:
\* the handoff of one planner never runs ahead of planCampaignSearch.
DiscoveringIsPlanned == campaign.status = "DISCOVERING" => planned

\* The campaign still has the generation that the request created.
RequestOwnsVersion(r) ==
  request[r].pc # "idle" /\ request[r].version = campaign.version

\* PLANNING never waits for nothing: the request that made this generation is
\* still busy, or was lost with the API process; or its plan job is waiting,
\* running or dead-lettered (where an operator sees it).  No plan job ends
\* while its campaign is in PLANNING.
PlanningIsDriven ==
  campaign.status = "PLANNING" =>
    \/ \E r \in Requests : RequestOwnsVersion(r)
    \/ planJobs[campaign.version].state \in {"queued", "active", "dead"}

\* CANCELLED is final: no handoff under way and no rollback of a publication
\* that failed late revives a campaign the user has cancelled meanwhile.
CancelledIsFinal ==
  [][campaign.status = "CANCELLED" => campaign' = campaign]_campaignVars

\* A start or resume never meets a plan job of its own generation: generations
\* are not reused, so each one gets one plan job, its own.
PlanKeyIsFresh ==
  \A r \in Requests :
    request[r].pc = "reserve" => Is(planJobs, request[r].version, "none")

\* "restore PLANNING -> DRAFT" is for a publication that failed "before a job
\* is accepted": a DRAFT campaign has no plan job in the queue.
DraftHasNoPlanJob ==
  campaign.status = "DRAFT" =>
    \A v \in Versions : planJobs[v].state \in {"none", "reserved"}

\* Every PLANNING ends: by the handoff, by a rollback or by a user, unless the
\* plan job has used up its retries or the request was lost before it published.
PlanningEnds ==
  campaign.status = "PLANNING" ~>
    \/ campaign.status # "PLANNING"
    \/ \E r \in Requests : RequestOwnsVersion(r) /\ request[r].pc = "lost"
    \/ Is(planJobs, campaign.version, "dead")
=============================================================================
