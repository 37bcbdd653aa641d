--------------------------- MODULE CampaignProofs ---------------------------
(***************************************************************************)
(* Proofs about Campaign, for every number of requests and planners, every *)
(* bound on generations and every choice of faults.                        *)
(*                                                                         *)
(* The type invariant is not inductive by itself: that no job is started   *)
(* more often than the limit allows rests on the reservations belonging to *)
(* the requests that made them, and that generations stay within Versions  *)
(* on PLANNING being left only once.  CampaignInv collects what is needed; *)
(* every action preserves it (the lemmas below, which DiscoveryProofs uses *)
(* again for the composition).                                             *)
(***************************************************************************)
EXTENDS Campaign, TLAPS

\* User requests stop at MaxVersion; only the end of PLANNING comes after.
VersionBound ==
  campaign.status = "PLANNING" => campaign.version <= MaxVersion

\* A job that may still be started has tries left.
TriesLeft ==
  \A v \in Versions :
    planJobs[v].state \in {"none", "reserved", "queued"}
      => planJobs[v].tries <= RetryLimit

\* Requests own different generations, all of them in the past.
RequestVersions ==
  \A r \in Requests :
    request[r].pc # "idle" =>
      /\ request[r].version <= campaign.version
      /\ \A s \in Requests :
           request[s].pc # "idle" /\ request[s].version = request[r].version
             => s = r

\* The key of a request's generation is in the state its step says.
RequestKeys ==
  \A r \in Requests :
    /\ request[r].pc = "reserve" => planJobs[request[r].version].state = "none"
    /\ request[r].pc = "send" => planJobs[request[r].version].state = "reserved"

\* Nothing has been published for a generation to come.
NoFutureJobs ==
  \A v \in Versions : planJobs[v].state # "none" => v <= campaign.version

\* A live planner runs an active job, its own, of a generation in the past.
PlannerJobs ==
  \A p \in Planners :
    /\ planner[p].live =>
         /\ planner[p].pc # "idle"
         /\ planJobs[planner[p].job].state = "active"
         /\ \A q \in Planners :
              planner[q].live /\ planner[q].job = planner[p].job => q = p
    /\ planner[p].pc # "idle" => planner[p].job <= campaign.version

\* From "reload" on the plan is in the database.
PlannerHasPlanned ==
  \A p \in Planners : planner[p].pc \notin {"idle", "load", "persist"} => planned

\* Past the handoff a planner's own generation is no longer in PLANNING.
PlannerHandedOff ==
  \A p \in Planners :
    planner[p].pc \in {"confirm", "tasks", "schedule", "send"} =>
      ~(campaign.status = "PLANNING" /\ campaign.version = planner[p].job)

CampaignInv ==
  /\ CampaignTypeOK
  /\ VersionBound
  /\ TriesLeft
  /\ RequestVersions
  /\ RequestKeys
  /\ NoFutureJobs
  /\ PlannerJobs
  /\ PlannerHasPlanned
  /\ PlannerHandedOff
  /\ DiscoveringIsPlanned
  /\ PlanningIsDriven
-----------------------------------------------------------------------------
\* What an update of one state, and the start of a job, do to a table.
LEMMA StateUpdate ==
  ASSUME NEW K, NEW table \in [K -> Jobs], NEW k \in K, NEW s \in JobStates,
         NEW next, next = [table EXCEPT ![k].state = s]
  PROVE  /\ next \in [K -> Jobs]
         /\ next[k].state = s
         /\ \A j \in K : next[j].tries = table[j].tries
         /\ \A j \in K : j # k => next[j] = table[j]
BY RetryLimitAssumption DEF Jobs, JobStates

LEMMA BeginUpdate ==
  ASSUME NEW K, NEW table \in [K -> Jobs], NEW k \in K,
         table[k].tries <= RetryLimit, NEW next, next = Begin(table, k)
  PROVE  /\ next \in [K -> Jobs]
         /\ next[k].state = "active"
         /\ \A j \in K : j # k => next[j] = table[j]
BY RetryLimitAssumption DEF Jobs, JobStates, Begin

\* The initial state.
LEMMA InitInv == CampaignInit => CampaignInv
<1> SUFFICES ASSUME CampaignInit PROVE CampaignInv
  OBVIOUS
<1> USE RetryLimitAssumption, CampaignAssumption DEF CampaignInit
<1>1. CampaignTypeOK
  <2>1. NoJob \in Jobs
    BY DEF Jobs, JobStates, NoJob
  <2>2. 0 \in Versions
    BY DEF Versions
  <2>3. IdleRequest \in [pc : RequestSteps, from : {"DRAFT", "PAUSED"},
                          version : Versions]
    BY <2>2 DEF IdleRequest, RequestSteps
  <2>4. IdlePlanner \in [pc : PlannerSteps, job : Versions, live : BOOLEAN,
                          version : Versions]
    BY <2>2 DEF IdlePlanner, PlannerSteps
  <2> QED
    BY <2>1, <2>2, <2>3, <2>4 DEF CampaignTypeOK, Statuses
<1>2. VersionBound /\ TriesLeft /\ RequestVersions /\ RequestKeys
  BY DEF VersionBound, TriesLeft, RequestVersions, RequestKeys, NoJob, IdleRequest
<1>3. NoFutureJobs /\ PlannerJobs /\ PlannerHasPlanned /\ PlannerHandedOff
  BY DEF NoFutureJobs, PlannerJobs, PlannerHasPlanned, PlannerHandedOff,
         NoJob, IdlePlanner
<1>4. DiscoveringIsPlanned /\ PlanningIsDriven
  BY DEF DiscoveringIsPlanned, PlanningIsDriven
<1> QED
  BY <1>1, <1>2, <1>3, <1>4 DEF CampaignInv

\* start, resume: a new generation, owned by the request.
LEMMA PublishInv ==
  ASSUME NEW r \in Requests, NEW from \in {"DRAFT", "PAUSED"},
         CampaignInv, Publish(r, from)
  PROVE  CampaignInv'
<1> USE RetryLimitAssumption, CampaignAssumption DEF CampaignInv, Publish, Transition, Moved
<1>1. CampaignTypeOK'
  BY DEF CampaignTypeOK, Statuses, Versions, RequestSteps
<1>2. VersionBound' /\ TriesLeft'
  BY DEF VersionBound, TriesLeft, CampaignTypeOK, Versions
<1>3. RequestVersions'
  BY DEF RequestVersions, CampaignTypeOK, Versions
<1>4. RequestKeys' /\ NoFutureJobs'
  BY DEF RequestKeys, NoFutureJobs, CampaignTypeOK, Versions
<1>5. PlannerJobs'
  BY DEF PlannerJobs, CampaignTypeOK, Versions
<1>6. PlannerHasPlanned' /\ PlannerHandedOff' /\ DiscoveringIsPlanned'
  <2>1. campaign'.version = campaign.version + 1 /\ campaign'.status = "PLANNING"
    OBVIOUS
  <2>2. \A p \in Planners :
          planner[p].pc # "idle" =>
            planner[p].job \in Nat /\ planner[p].job <= campaign.version
    BY DEF PlannerJobs, CampaignTypeOK, Versions
  <2>3. campaign.version \in Nat /\ UNCHANGED <<planner, planned>>
    BY DEF CampaignTypeOK, Versions
  <2>4. PlannerHandedOff'
    BY <2>1, <2>2, <2>3 DEF PlannerHandedOff
  <2> QED
    BY <2>1, <2>3, <2>4 DEF PlannerHasPlanned, DiscoveringIsPlanned
<1>7. PlanningIsDriven'
  BY DEF PlanningIsDriven, RequestOwnsVersion, CampaignTypeOK, RequestSteps
<1> QED
  BY <1>1, <1>2, <1>3, <1>4, <1>5, <1>6, <1>7

\* pause, cancel.
LEMMA StopInv ==
  ASSUME CampaignInv, Pause \/ Cancel
  PROVE  CampaignInv'
<1> USE RetryLimitAssumption, CampaignAssumption DEF CampaignInv, Pause, Cancel, Transition, Moved
<1>1. CampaignTypeOK'
  BY DEF CampaignTypeOK, Statuses, Versions, RequestSteps
<1>2. VersionBound' /\ TriesLeft'
  BY DEF VersionBound, TriesLeft, CampaignTypeOK, Versions
<1>3. RequestVersions'
  BY DEF RequestVersions, CampaignTypeOK, Versions
<1>4. RequestKeys' /\ NoFutureJobs'
  BY DEF RequestKeys, NoFutureJobs, CampaignTypeOK, Versions
<1>5. PlannerJobs'
  BY DEF PlannerJobs, CampaignTypeOK, Versions
<1>6. PlannerHasPlanned' /\ PlannerHandedOff' /\ DiscoveringIsPlanned'
  BY DEF PlannerHasPlanned, PlannerHandedOff, PlannerJobs, DiscoveringIsPlanned,
         CampaignTypeOK, Versions
<1>7. PlanningIsDriven'
  BY DEF PlanningIsDriven, RequestOwnsVersion, CampaignTypeOK, RequestSteps
<1> QED
  BY <1>1, <1>2, <1>3, <1>4, <1>5, <1>6, <1>7

\* The reservation of a plan job; its key is free.
LEMMA ReservePlanInv ==
  ASSUME NEW r \in Requests, CampaignInv, ReservePlan(r)
  PROVE  CampaignInv'
<1> USE RetryLimitAssumption, CampaignAssumption DEF CampaignInv, ReservePlan, Is
<1>v. request[r].version \in Versions
  BY DEF CampaignTypeOK
<1>k. planJobs[request[r].version].state = "none"
  BY DEF RequestKeys
<1>j. planJobs' = [planJobs EXCEPT ![request[r].version].state = "reserved"]
  BY <1>k DEF Reserve
<1>q. request' = [request EXCEPT ![r].pc = "send"]
  BY <1>k
<1>t. /\ planJobs' \in [Versions -> Jobs]
      /\ planJobs'[request[r].version].state = "reserved"
      /\ \A j \in Versions : planJobs'[j].tries = planJobs[j].tries
      /\ \A j \in Versions : j # request[r].version => planJobs'[j] = planJobs[j]
  <2>1. planJobs \in [Versions -> Jobs] /\ "reserved" \in JobStates
    BY DEF CampaignTypeOK, JobStates
  <2> QED
    BY <2>1, <1>v, <1>j, StateUpdate
<1> HIDE DEF ReservePlan
<1>u. UNCHANGED <<campaign, planned, planner>> /\ request[r].pc = "reserve"
  BY DEF ReservePlan
<1>1. CampaignTypeOK'
  BY <1>v, <1>k, <1>q, <1>t, <1>u DEF CampaignTypeOK, Statuses, Versions, RequestSteps
<1>2. VersionBound' /\ TriesLeft'
  BY <1>v, <1>k, <1>q, <1>t, <1>u DEF VersionBound, TriesLeft, CampaignTypeOK, Versions
<1>3. RequestVersions'
  BY <1>v, <1>k, <1>q, <1>t, <1>u DEF RequestVersions, CampaignTypeOK, Versions
<1>4. RequestKeys' /\ NoFutureJobs'
  <2>1. \A s \in Requests : request[s].version \in Versions
    BY DEF CampaignTypeOK
  <2>2. \A s \in Requests :
          s # r /\ request[s].pc # "idle" => request[s].version # request[r].version
    BY <1>u DEF RequestVersions
  <2>3. request[r].version <= campaign.version
    BY <1>u DEF RequestVersions
  <2>4. ASSUME NEW s \in Requests, s # r
        PROVE  request'[s] = request[s]
    BY <2>4, <1>q DEF CampaignTypeOK
  <2>5. request'[r].pc = "send" /\ request'[r].version = request[r].version
    BY <1>q DEF CampaignTypeOK
  <2>6. RequestKeys'
    BY <2>1, <2>2, <2>4, <2>5, <1>v, <1>k, <1>q, <1>t, <1>u DEF RequestKeys
  <2> QED
    BY <2>3, <2>6, <1>t, <1>u DEF NoFutureJobs
<1>5. PlannerJobs'
  <2>1. \A p \in Planners : planner[p].job \in Versions
    BY DEF CampaignTypeOK
  <2>2. \A p \in Planners :
           planner[p].live => planJobs'[planner[p].job] = planJobs[planner[p].job]
    BY <2>1, <1>k, <1>t, <1>u DEF PlannerJobs
  <2> QED
    BY <2>1, <2>2, <1>u DEF PlannerJobs
<1>6. PlannerHasPlanned' /\ PlannerHandedOff' /\ DiscoveringIsPlanned'
  BY <1>v, <1>k, <1>q, <1>t, <1>u DEF PlannerHasPlanned, PlannerHandedOff, PlannerJobs, DiscoveringIsPlanned,
         CampaignTypeOK, Versions
<1>7. PlanningIsDriven'
  BY <1>v, <1>k, <1>q, <1>t, <1>u DEF PlanningIsDriven, RequestOwnsVersion, CampaignTypeOK, RequestSteps
<1> QED
  BY <1>1, <1>2, <1>3, <1>4, <1>5, <1>6, <1>7

\* The plan job is accepted.
LEMMA SendPlanInv ==
  ASSUME NEW r \in Requests, CampaignInv, SendPlan(r)
  PROVE  CampaignInv'
<1> USE RetryLimitAssumption, CampaignAssumption DEF CampaignInv, IdleRequest
<1>v. request[r].version \in Versions
  BY DEF CampaignTypeOK
<1>k. planJobs[request[r].version].state = "reserved"
  BY DEF RequestKeys, SendPlan
<1>t. /\ planJobs' \in [Versions -> Jobs]
      /\ planJobs'[request[r].version].state = "queued"
      /\ \A j \in Versions : planJobs'[j].tries = planJobs[j].tries
      /\ \A j \in Versions : j # request[r].version => planJobs'[j] = planJobs[j]
  <2>1. planJobs \in [Versions -> Jobs] /\ "queued" \in JobStates
    BY DEF CampaignTypeOK, JobStates
  <2>2. planJobs' = [planJobs EXCEPT ![request[r].version].state = "queued"]
    BY DEF SendPlan, Sent
  <2> QED
    BY <2>1, <2>2, <1>v, StateUpdate
<1>u. /\ UNCHANGED <<campaign, planned, planner>> /\ request[r].pc = "send"
      /\ request' = [request EXCEPT ![r] = IdleRequest]
  BY DEF SendPlan
<1>1. CampaignTypeOK'
  BY <1>v, <1>k, <1>t, <1>u DEF CampaignTypeOK, Statuses, Versions, RequestSteps
<1>2. VersionBound' /\ TriesLeft'
  BY <1>v, <1>k, <1>t, <1>u DEF VersionBound, TriesLeft, CampaignTypeOK, Versions
<1>3. RequestVersions'
  BY <1>v, <1>k, <1>t, <1>u DEF RequestVersions, CampaignTypeOK, Versions
<1>4. RequestKeys' /\ NoFutureJobs'
  BY <1>v, <1>k, <1>t, <1>u DEF RequestKeys, RequestVersions, NoFutureJobs,
     CampaignTypeOK, Versions
<1>5. PlannerJobs'
  <2>1. \A p \in Planners : planner[p].job \in Versions
    BY DEF CampaignTypeOK
  <2>2. \A p \in Planners :
           planner[p].live => planJobs'[planner[p].job] = planJobs[planner[p].job]
    BY <2>1, <1>k, <1>t, <1>u DEF PlannerJobs
  <2> QED
    BY <2>1, <2>2, <1>u DEF PlannerJobs
<1>6. PlannerHasPlanned' /\ PlannerHandedOff' /\ DiscoveringIsPlanned'
  BY <1>v, <1>k, <1>t, <1>u DEF PlannerHasPlanned, PlannerHandedOff, PlannerJobs, DiscoveringIsPlanned,
         CampaignTypeOK, Versions
<1>7. PlanningIsDriven'
  BY <1>v, <1>k, <1>t, <1>u DEF PlanningIsDriven, RequestOwnsVersion, CampaignTypeOK, RequestSteps
<1> QED
  BY <1>1, <1>2, <1>3, <1>4, <1>5, <1>6, <1>7

\* The publication fails.
LEMMA PublishFailsInv ==
  ASSUME NEW r \in Requests, CampaignInv, PublishFails(r)
  PROVE  CampaignInv'
<1> USE RetryLimitAssumption, CampaignAssumption DEF CampaignInv, RequestSteps
<1>v. request[r].version \in Versions
  BY DEF CampaignTypeOK
<1>k. /\ request[r].pc = "reserve" => planJobs[request[r].version].state = "none"
      /\ request[r].pc = "send" => planJobs[request[r].version].state = "reserved"
  BY DEF RequestKeys
<1>t. /\ planJobs' \in [Versions -> Jobs]
      /\ planJobs'[request[r].version].state \in {"none", "reserved"}
      /\ \A j \in Versions : planJobs'[j].tries = planJobs[j].tries
      /\ \A j \in Versions : j # request[r].version => planJobs'[j] = planJobs[j]
  <2>1. planJobs \in [Versions -> Jobs] /\ "none" \in JobStates
    BY DEF CampaignTypeOK, JobStates
  <2>2. CASE planJobs' = planJobs
    BY <2>1, <2>2, <1>k DEF PublishFails
  <2>3. CASE planJobs' = [planJobs EXCEPT ![request[r].version].state = "none"]
    BY <2>1, <2>3, <1>v, StateUpdate
  <2> QED
    BY <2>2, <2>3 DEF PublishFails, Release
<1>u. /\ UNCHANGED <<campaign, planned, planner>> /\ request[r].pc \in {"reserve", "send"}
      /\ request' = [request EXCEPT ![r].pc = "rollback"]
  BY DEF PublishFails
<1>1. CampaignTypeOK'
  BY <1>v, <1>k, <1>t, <1>u DEF CampaignTypeOK, Statuses, Versions, RequestSteps
<1>2. VersionBound' /\ TriesLeft'
  BY <1>v, <1>k, <1>t, <1>u DEF VersionBound, TriesLeft, CampaignTypeOK, Versions
<1>3. RequestVersions'
  BY <1>v, <1>k, <1>t, <1>u DEF RequestVersions, CampaignTypeOK, Versions
<1>4. RequestKeys' /\ NoFutureJobs'
  <2>1. \A s \in Requests : request[s].version \in Versions
    BY DEF CampaignTypeOK
  <2>2. \A s \in Requests :
          s # r /\ request[s].pc # "idle" => request[s].version # request[r].version
    BY <1>u DEF RequestVersions
  <2>3. request[r].version <= campaign.version
    BY <1>u DEF RequestVersions
  <2>4. ASSUME NEW s \in Requests, s # r
        PROVE  request'[s] = request[s]
    BY <2>4, <1>u DEF CampaignTypeOK
  <2>5. request'[r].pc = "rollback" /\ request'[r].version = request[r].version
    BY <1>u DEF CampaignTypeOK
  <2>6. RequestKeys'
    BY <2>1, <2>2, <2>4, <2>5, <1>v, <1>k, <1>t, <1>u DEF RequestKeys
  <2> QED
    BY <2>3, <2>6, <1>t, <1>u DEF NoFutureJobs
<1>5. PlannerJobs'
  <2>1. \A p \in Planners : planner[p].job \in Versions
    BY DEF CampaignTypeOK
  <2>2. \A p \in Planners :
           planner[p].live => planJobs'[planner[p].job] = planJobs[planner[p].job]
    BY <2>1, <1>k, <1>t, <1>u DEF PlannerJobs
  <2> QED
    BY <2>1, <2>2, <1>u DEF PlannerJobs
<1>6. PlannerHasPlanned' /\ PlannerHandedOff' /\ DiscoveringIsPlanned'
  BY <1>v, <1>k, <1>t, <1>u DEF PlannerHasPlanned, PlannerHandedOff, PlannerJobs, DiscoveringIsPlanned,
         CampaignTypeOK, Versions
<1>7. PlanningIsDriven'
  BY <1>v, <1>k, <1>t, <1>u DEF PlanningIsDriven, RequestOwnsVersion, CampaignTypeOK, RequestSteps
<1> QED
  BY <1>1, <1>2, <1>3, <1>4, <1>5, <1>6, <1>7

\* The rollback of a failed publication.
LEMMA RollbackInv ==
  ASSUME NEW r \in Requests, CampaignInv, Rollback(r)
  PROVE  CampaignInv'
<1> USE RetryLimitAssumption, CampaignAssumption DEF CampaignInv, Rollback, Moved, IdleRequest
<1>1. CampaignTypeOK'
  BY DEF CampaignTypeOK, Statuses, Versions, RequestSteps, VersionBound
<1>2. VersionBound' /\ TriesLeft'
  BY DEF VersionBound, TriesLeft, CampaignTypeOK, Versions
<1>3. RequestVersions'
  BY DEF RequestVersions, CampaignTypeOK, Versions
<1>4. RequestKeys' /\ NoFutureJobs'
  BY DEF RequestKeys, NoFutureJobs, CampaignTypeOK, Versions
<1>5. PlannerJobs'
  BY DEF PlannerJobs, CampaignTypeOK, Versions
<1>6. PlannerHasPlanned' /\ PlannerHandedOff' /\ DiscoveringIsPlanned'
  BY DEF PlannerHasPlanned, PlannerHandedOff, PlannerJobs, DiscoveringIsPlanned,
         CampaignTypeOK, Versions
<1>7. PlanningIsDriven'
  BY DEF PlanningIsDriven, RequestOwnsVersion, CampaignTypeOK, RequestSteps, RequestVersions
<1> QED
  BY <1>1, <1>2, <1>3, <1>4, <1>5, <1>6, <1>7

\* The API process dies.
LEMMA ApiCrashInv ==
  ASSUME NEW r \in Requests, CampaignInv, ApiCrash(r)
  PROVE  CampaignInv'
<1> USE RetryLimitAssumption, CampaignAssumption DEF CampaignInv, ApiCrash
<1>1. CampaignTypeOK'
  BY DEF CampaignTypeOK, Statuses, Versions, RequestSteps
<1>2. VersionBound' /\ TriesLeft'
  BY DEF VersionBound, TriesLeft, CampaignTypeOK, Versions
<1>3. RequestVersions'
  BY DEF RequestVersions, CampaignTypeOK, Versions
<1>4. RequestKeys' /\ NoFutureJobs'
  BY DEF RequestKeys, NoFutureJobs, CampaignTypeOK, Versions
<1>5. PlannerJobs'
  BY DEF PlannerJobs, CampaignTypeOK, Versions
<1>6. PlannerHasPlanned' /\ PlannerHandedOff' /\ DiscoveringIsPlanned'
  BY DEF PlannerHasPlanned, PlannerHandedOff, PlannerJobs, DiscoveringIsPlanned,
         CampaignTypeOK, Versions
<1>7. PlanningIsDriven'
  BY DEF PlanningIsDriven, RequestOwnsVersion, CampaignTypeOK, RequestSteps
<1> QED
  BY <1>1, <1>2, <1>3, <1>4, <1>5, <1>6, <1>7

\* A planner starts.
LEMMA FetchPlanInv ==
  ASSUME NEW p \in Planners, CampaignInv, FetchPlan(p)
  PROVE  CampaignInv'
<1> USE RetryLimitAssumption, CampaignAssumption DEF CampaignInv
<1>v. PICK v \in Versions :
        /\ planJobs[v].state = "queued"
        /\ planJobs' = Begin(planJobs, v)
        /\ planner' = [planner EXCEPT ![p] = [pc |-> "load", job |-> v,
                                              live |-> TRUE, version |-> 0]]
  BY DEF FetchPlan, Is
<1>u. UNCHANGED <<campaign, planned, request>>
  BY DEF FetchPlan
<1>t. /\ planJobs' \in [Versions -> Jobs]
      /\ planJobs'[v].state = "active"
      /\ \A j \in Versions : j # v => planJobs'[j] = planJobs[j]
  <2>1. planJobs \in [Versions -> Jobs]
    BY DEF CampaignTypeOK
  <2>2. planJobs[v].tries <= RetryLimit
    BY <1>v DEF TriesLeft
  <2> QED
    BY <2>1, <2>2, <1>v, BeginUpdate
<1>1. CampaignTypeOK'
  <2>1. [pc |-> "load", job |-> v, live |-> TRUE, version |-> 0]
          \in [pc : PlannerSteps, job : Versions, live : BOOLEAN, version : Versions]
    BY DEF PlannerSteps, Versions
  <2> QED
    BY <2>1, <1>v, <1>t, <1>u DEF CampaignTypeOK
<1>2. VersionBound' /\ TriesLeft'
  BY <1>v, <1>t, <1>u DEF VersionBound, TriesLeft, CampaignTypeOK, Versions
<1>3. RequestVersions'
  BY <1>v, <1>t, <1>u DEF RequestVersions, CampaignTypeOK, Versions
<1>4. RequestKeys' /\ NoFutureJobs'
  BY <1>v, <1>t, <1>u DEF RequestKeys, NoFutureJobs, CampaignTypeOK, Versions
<1>5. PlannerJobs'
  <2>1. v \in Nat /\ v <= campaign.version
    BY <1>v DEF NoFutureJobs, Versions
  <2>2. \A q \in Planners : planner[q].live =>
          planner[q].job # v /\ planJobs'[planner[q].job] = planJobs[planner[q].job]
    BY <1>v, <1>t DEF PlannerJobs, CampaignTypeOK
  <2>3. /\ \A q \in Planners : q # p => planner'[q] = planner[q]
        /\ planner'[p].pc = "load" /\ planner'[p].job = v /\ planner'[p].live
    BY <1>v DEF CampaignTypeOK
  <2> QED
    BY <2>1, <2>2, <2>3, <1>t, <1>u DEF PlannerJobs
<1>6. PlannerHasPlanned' /\ PlannerHandedOff' /\ DiscoveringIsPlanned'
  BY <1>v, <1>t, <1>u DEF PlannerHasPlanned, PlannerHandedOff, PlannerJobs, DiscoveringIsPlanned,
         CampaignTypeOK, Versions
<1>7. PlanningIsDriven'
  BY <1>v, <1>t, <1>u DEF PlanningIsDriven, RequestOwnsVersion, CampaignTypeOK, RequestSteps
<1> QED
  BY <1>1, <1>2, <1>3, <1>4, <1>5, <1>6, <1>7

\* A planner goes to a step it is allowed to be at.
LEMMA PlannerGoesInv ==
  ASSUME NEW p \in Planners, NEW step \in PlannerSteps \ {"idle"}, CampaignInv,
         planner[p].pc # "idle", PlannerGoes(p, step),
         UNCHANGED <<campaign, request>>,
         planned' \in BOOLEAN, planned => planned',
         step \notin {"load", "persist"} => planned',
         step \in {"confirm", "tasks", "schedule", "send"} =>
           ~(campaign.status = "PLANNING" /\ campaign.version = planner[p].job)
  PROVE  CampaignInv'
<1> USE RetryLimitAssumption, CampaignAssumption DEF CampaignInv, PlannerGoes
<1>1. CampaignTypeOK'
  BY DEF CampaignTypeOK, Statuses, Versions, RequestSteps
<1>2. VersionBound' /\ TriesLeft'
  BY DEF VersionBound, TriesLeft, CampaignTypeOK, Versions
<1>3. RequestVersions'
  BY DEF RequestVersions, CampaignTypeOK, Versions
<1>4. RequestKeys' /\ NoFutureJobs'
  BY DEF RequestKeys, NoFutureJobs, CampaignTypeOK, Versions
<1>5. PlannerJobs'
  BY DEF PlannerJobs, CampaignTypeOK, Versions
<1>6. PlannerHasPlanned' /\ PlannerHandedOff' /\ DiscoveringIsPlanned'
  BY DEF PlannerHasPlanned, PlannerHandedOff, PlannerJobs, DiscoveringIsPlanned,
         CampaignTypeOK, Versions
<1>7. PlanningIsDriven'
  BY DEF PlanningIsDriven, RequestOwnsVersion, CampaignTypeOK, RequestSteps
<1> QED
  BY <1>1, <1>2, <1>3, <1>4, <1>5, <1>6, <1>7

\* A planner that has found the campaign DISCOVERING.
LEMMA EnterTasksInv ==
  ASSUME NEW p \in Planners, CampaignInv, EnterTasks(p),
         planner[p].pc \in {"reload", "confirm"},
         campaign.status = "DISCOVERING",
         UNCHANGED <<campaign, planned, request>>
  PROVE  CampaignInv'
<1> USE RetryLimitAssumption, CampaignAssumption DEF CampaignInv, EnterTasks
<1>1. CampaignTypeOK'
  <2>1. campaign.version \in Versions /\ "tasks" \in PlannerSteps
    BY DEF CampaignTypeOK, PlannerSteps
  <2>2. planner' \in [Planners -> [pc : PlannerSteps, job : Versions,
                                   live : BOOLEAN, version : Versions]]
    BY <2>1 DEF CampaignTypeOK
  <2> QED
    BY <2>2 DEF CampaignTypeOK
<1>2. VersionBound' /\ TriesLeft'
  BY DEF VersionBound, TriesLeft, CampaignTypeOK, Versions
<1>3. RequestVersions'
  BY DEF RequestVersions, CampaignTypeOK, Versions
<1>4. RequestKeys' /\ NoFutureJobs'
  BY DEF RequestKeys, NoFutureJobs, CampaignTypeOK, Versions
<1>5. PlannerJobs'
  BY DEF PlannerJobs, CampaignTypeOK, Versions
<1>6. PlannerHasPlanned' /\ PlannerHandedOff' /\ DiscoveringIsPlanned'
  BY DEF PlannerHasPlanned, PlannerHandedOff, PlannerJobs, DiscoveringIsPlanned,
         CampaignTypeOK, Versions
<1>7. PlanningIsDriven'
  BY DEF PlanningIsDriven, RequestOwnsVersion, CampaignTypeOK, RequestSteps
<1> QED
  BY <1>1, <1>2, <1>3, <1>4, <1>5, <1>6, <1>7

\* A planner returns; its generation is not in PLANNING then.
LEMMA PlannerReturnsInv ==
  ASSUME NEW p \in Planners, CampaignInv, PlannerReturns(p), planner[p].pc # "idle",
         ~(campaign.status = "PLANNING" /\ campaign.version = planner[p].job),
         UNCHANGED <<campaign, planned, request>>
  PROVE  CampaignInv'
<1> USE RetryLimitAssumption, CampaignAssumption DEF CampaignInv, PlannerReturns, Complete, IdlePlanner, Jobs, JobStates
<1>1. CampaignTypeOK'
  <2>1. planner' \in [Planners -> [pc : PlannerSteps, job : Versions,
                                   live : BOOLEAN, version : Versions]]
    BY DEF CampaignTypeOK, PlannerSteps, Versions
  <2>2. planJobs' \in [Versions -> Jobs]
    BY DEF CampaignTypeOK
  <2> QED
    BY <2>1, <2>2 DEF CampaignTypeOK
<1>2. VersionBound' /\ TriesLeft'
  BY DEF VersionBound, TriesLeft, CampaignTypeOK, Versions
<1>3. RequestVersions'
  BY DEF RequestVersions, CampaignTypeOK, Versions
<1>4. RequestKeys' /\ NoFutureJobs'
  BY DEF RequestKeys, NoFutureJobs, CampaignTypeOK, Versions, PlannerJobs
<1>5. PlannerJobs'
  BY DEF PlannerJobs, CampaignTypeOK, Versions
<1>6. PlannerHasPlanned' /\ PlannerHandedOff' /\ DiscoveringIsPlanned'
  BY DEF PlannerHasPlanned, PlannerHandedOff, PlannerJobs, DiscoveringIsPlanned,
         CampaignTypeOK, Versions
<1>7. PlanningIsDriven'
  BY DEF PlanningIsDriven, RequestOwnsVersion, CampaignTypeOK, RequestSteps, PlannerJobs
<1> QED
  BY <1>1, <1>2, <1>3, <1>4, <1>5, <1>6, <1>7

\* A planner throws or dies.
LEMMA PlannerThrowsInv ==
  ASSUME NEW p \in Planners, CampaignInv, PlannerThrows(p), planner[p].pc # "idle",
         UNCHANGED <<campaign, planned, request>>
  PROVE  CampaignInv'
<1> USE RetryLimitAssumption, CampaignAssumption DEF CampaignInv, PlannerThrows, FailTry, IdlePlanner, Jobs, JobStates
<1>1. CampaignTypeOK'
  <2>1. planner' \in [Planners -> [pc : PlannerSteps, job : Versions,
                                   live : BOOLEAN, version : Versions]]
    BY DEF CampaignTypeOK, PlannerSteps, Versions
  <2>2. planJobs' \in [Versions -> Jobs]
    BY DEF CampaignTypeOK
  <2> QED
    BY <2>1, <2>2 DEF CampaignTypeOK
<1>2. VersionBound' /\ TriesLeft'
  BY DEF VersionBound, TriesLeft, CampaignTypeOK, Versions
<1>3. RequestVersions'
  BY DEF RequestVersions, CampaignTypeOK, Versions
<1>4. RequestKeys' /\ NoFutureJobs'
  BY DEF RequestKeys, NoFutureJobs, CampaignTypeOK, Versions, PlannerJobs
<1>5. PlannerJobs'
  BY DEF PlannerJobs, CampaignTypeOK, Versions
<1>6. PlannerHasPlanned' /\ PlannerHandedOff' /\ DiscoveringIsPlanned'
  BY DEF PlannerHasPlanned, PlannerHandedOff, PlannerJobs, DiscoveringIsPlanned,
         CampaignTypeOK, Versions
<1>7. PlanningIsDriven'
  BY DEF PlanningIsDriven, RequestOwnsVersion, CampaignTypeOK, RequestSteps
<1> QED
  BY <1>1, <1>2, <1>3, <1>4, <1>5, <1>6, <1>7

\* A plan job expires while its planner goes on.
LEMMA PlannerExpireInv ==
  ASSUME NEW p \in Planners, CampaignInv, PlannerExpire(p)
  PROVE  CampaignInv'
<1> USE RetryLimitAssumption, CampaignAssumption DEF CampaignInv, PlannerExpire, FailTry, Jobs, JobStates
<1>1. CampaignTypeOK'
  <2>1. planner' \in [Planners -> [pc : PlannerSteps, job : Versions,
                                   live : BOOLEAN, version : Versions]]
    BY DEF CampaignTypeOK
  <2>2. planJobs' \in [Versions -> Jobs]
    BY DEF CampaignTypeOK
  <2> QED
    BY <2>1, <2>2 DEF CampaignTypeOK
<1>2. VersionBound' /\ TriesLeft'
  BY DEF VersionBound, TriesLeft, CampaignTypeOK, Versions
<1>3. RequestVersions'
  BY DEF RequestVersions, CampaignTypeOK, Versions
<1>4. RequestKeys' /\ NoFutureJobs'
  BY DEF RequestKeys, NoFutureJobs, CampaignTypeOK, Versions, PlannerJobs
<1>5. PlannerJobs'
  BY DEF PlannerJobs, CampaignTypeOK, Versions
<1>6. PlannerHasPlanned' /\ PlannerHandedOff' /\ DiscoveringIsPlanned'
  BY DEF PlannerHasPlanned, PlannerHandedOff, PlannerJobs, DiscoveringIsPlanned,
         CampaignTypeOK, Versions
<1>7. PlanningIsDriven'
  BY DEF PlanningIsDriven, RequestOwnsVersion, CampaignTypeOK, RequestSteps
<1> QED
  BY <1>1, <1>2, <1>3, <1>4, <1>5, <1>6, <1>7

\* The handoff: a new generation, discovering.
LEMMA HandoffInv ==
  ASSUME NEW p \in Planners, CampaignInv, Handoff(p)
  PROVE  CampaignInv'
<1> USE RetryLimitAssumption, CampaignAssumption DEF CampaignInv, Handoff, PlannerGoes, Moved
<1>1. CampaignTypeOK'
  <2>1. planner' \in [Planners -> [pc : PlannerSteps, job : Versions,
                                   live : BOOLEAN, version : Versions]]
    BY DEF CampaignTypeOK, PlannerSteps
  <2>2. campaign' \in [status : Statuses, version : Versions]
    BY DEF CampaignTypeOK, VersionBound, Versions, Statuses
  <2> QED
    BY <2>1, <2>2 DEF CampaignTypeOK
<1>2. VersionBound' /\ TriesLeft'
  BY DEF VersionBound, TriesLeft, CampaignTypeOK, Versions
<1>3. RequestVersions'
  BY DEF RequestVersions, CampaignTypeOK, Versions
<1>4. RequestKeys' /\ NoFutureJobs'
  BY DEF RequestKeys, NoFutureJobs, CampaignTypeOK, Versions
<1>5. PlannerJobs'
  BY DEF PlannerJobs, CampaignTypeOK, Versions
<1>6. PlannerHasPlanned' /\ PlannerHandedOff' /\ DiscoveringIsPlanned'
  BY DEF PlannerHasPlanned, PlannerHandedOff, PlannerJobs, DiscoveringIsPlanned,
         CampaignTypeOK, Versions
<1>7. PlanningIsDriven'
  BY DEF PlanningIsDriven, RequestOwnsVersion, CampaignTypeOK, RequestSteps
<1> QED
  BY <1>1, <1>2, <1>3, <1>4, <1>5, <1>6, <1>7

\* The planner's steps, one by one.
LEMMA PlannerStepInv ==
  ASSUME NEW p \in Planners, CampaignInv,
         \/ FetchPlan(p) \/ LoadForPlan(p) \/ PersistPlan(p) \/ Reload(p)
         \/ Handoff(p) \/ Confirm(p) \/ PlannerExpire(p)
         \/ FinishPlan(p) \/ PlannerCrash(p)
  PROVE  CampaignInv'
<1>s. /\ {"persist", "reload", "handoff", "confirm", "tasks"} \subseteq PlannerSteps
      /\ planned \in BOOLEAN
  BY DEF PlannerSteps, CampaignInv, CampaignTypeOK
<1>h. planner[p].pc \notin {"idle", "load", "persist"} => planned
  BY DEF CampaignInv, PlannerHasPlanned
<1>o. planner[p].pc \in {"confirm", "tasks", "schedule", "send"} =>
        ~(campaign.status = "PLANNING" /\ campaign.version = planner[p].job)
  BY DEF CampaignInv, PlannerHandedOff
<1>1. CASE FetchPlan(p)
  BY <1>1, FetchPlanInv
<1>2. CASE LoadForPlan(p)
  <2> UNCHANGED <<campaign, planned, request>> /\ planner[p].pc # "idle"
    BY <1>2 DEF LoadForPlan
  <2>1. CASE campaign.status = "CANCELLED" /\ PlannerReturns(p)
    BY <2>1, PlannerReturnsInv
  <2>2. CASE PlannerThrows(p)
    BY <2>2, PlannerThrowsInv
  <2>3. CASE PlannerGoes(p, "persist")
    BY <2>3, <1>s, PlannerGoesInv
  <2> QED
    BY <1>2, <2>1, <2>2, <2>3 DEF LoadForPlan
<1>3. CASE PersistPlan(p)
  <2>1. /\ UNCHANGED <<campaign, request>> /\ planner[p].pc # "idle"
        /\ planned' = TRUE /\ PlannerGoes(p, "reload")
    BY <1>3 DEF PersistPlan
  <2> QED
    BY <2>1, <1>s, PlannerGoesInv
<1>4. CASE Reload(p)
  <2> /\ UNCHANGED <<campaign, planned, request>>
      /\ planner[p].pc = "reload" /\ planned
    BY <1>4, <1>h DEF Reload
  <2>1. CASE campaign.status \in {"PAUSED", "CANCELLED"} /\ PlannerReturns(p)
    BY <2>1, PlannerReturnsInv
  <2>2. CASE PlannerGoes(p, "handoff")
    BY <2>2, <1>s, PlannerGoesInv
  <2>3. CASE campaign.status = "DISCOVERING" /\ EnterTasks(p)
    BY <2>3, EnterTasksInv
  <2>4. CASE PlannerThrows(p)
    BY <2>4, PlannerThrowsInv
  <2> QED
    BY <1>4, <2>1, <2>2, <2>3, <2>4 DEF Reload
<1>5. CASE Handoff(p)
  BY <1>5, HandoffInv
<1>6. CASE Confirm(p)
  <2> /\ UNCHANGED <<campaign, planned, request>>
      /\ planner[p].pc = "confirm" /\ planned
    BY <1>6, <1>h DEF Confirm
  <2>1. CASE campaign.status \in {"PAUSED", "CANCELLED"} /\ PlannerReturns(p)
    BY <2>1, PlannerReturnsInv
  <2>2. CASE campaign.status = "DISCOVERING" /\ EnterTasks(p)
    BY <2>2, EnterTasksInv
  <2>3. CASE PlannerThrows(p)
    BY <2>3, PlannerThrowsInv
  <2> QED
    BY <1>6, <2>1, <2>2, <2>3 DEF Confirm
<1>7. CASE PlannerExpire(p)
  BY <1>7, PlannerExpireInv
<1>8. CASE FinishPlan(p)
  <2>1. /\ UNCHANGED <<campaign, planned, request>>
        /\ planner[p].pc = "tasks" /\ PlannerReturns(p)
    BY <1>8 DEF FinishPlan
  <2> QED
    BY <2>1, <1>o, PlannerReturnsInv
<1>9. CASE PlannerCrash(p)
  <2>1. /\ UNCHANGED <<campaign, planned, request>>
        /\ planner[p].pc # "idle" /\ PlannerThrows(p)
    BY <1>9 DEF PlannerCrash
  <2> QED
    BY <2>1, PlannerThrowsInv
<1> QED
  BY <1>1, <1>2, <1>3, <1>4, <1>5, <1>6, <1>7, <1>8, <1>9

LEMMA RequestStepInv ==
  ASSUME CampaignInv, UserNext \/ RequestNext
  PROVE  CampaignInv'
<1>1. CASE UserNext
  BY <1>1, PublishInv, StopInv DEF UserNext, Start, Resume
<1>2. CASE RequestNext
  BY <1>2, ReservePlanInv, SendPlanInv, PublishFailsInv, RollbackInv, ApiCrashInv
     DEF RequestNext
<1> QED
  BY <1>1, <1>2

LEMMA StutterInv == CampaignInv /\ UNCHANGED campaignVars => CampaignInv'
<1> SUFFICES ASSUME CampaignInv, UNCHANGED campaignVars PROVE CampaignInv'
  OBVIOUS
<1> USE DEF CampaignInv, campaignVars
<1>1. CampaignTypeOK' /\ VersionBound' /\ TriesLeft' /\ DiscoveringIsPlanned'
  BY DEF CampaignTypeOK, VersionBound, TriesLeft, DiscoveringIsPlanned
<1>2. RequestVersions' /\ RequestKeys' /\ NoFutureJobs'
  BY DEF RequestVersions, RequestKeys, NoFutureJobs
<1>3. PlannerJobs' /\ PlannerHasPlanned' /\ PlannerHandedOff'
  BY DEF PlannerJobs, PlannerHasPlanned, PlannerHandedOff
<1>4. PlanningIsDriven'
  BY DEF PlanningIsDriven, RequestOwnsVersion
<1> QED
  BY <1>1, <1>2, <1>3, <1>4

LEMMA NextInv == CampaignInv /\ [CampaignNext]_campaignVars => CampaignInv'
BY RequestStepInv, PlannerStepInv, StutterInv DEF CampaignNext, PlannerNext
-----------------------------------------------------------------------------
\* CampaignInv is an invariant: lifecycle requests, publications, planners,
\* crashes and expiries, in any order.
THEOREM CampaignInvariant == CampaignSpec => []CampaignInv
<1>1. CampaignInit => CampaignInv
  BY InitInv
<1>2. CampaignInv /\ [CampaignNext]_campaignVars => CampaignInv'
  BY NextInv
<1> QED
  BY <1>1, <1>2, PTL DEF CampaignSpec

\* Every variable keeps its type; in particular no plan job is started more
\* often than its retry limit allows (FailTry), whoever expires it or dies.
THEOREM CampaignTypes == CampaignSpec => []CampaignTypeOK
<1>1. CampaignInv => CampaignTypeOK
  BY DEF CampaignInv
<1> QED
  BY <1>1, CampaignInvariant, PTL

\* A campaign is DISCOVERING only with its plan in the database.
THEOREM DiscoveringPlanned == CampaignSpec => []DiscoveringIsPlanned
<1>1. CampaignInv => DiscoveringIsPlanned
  BY DEF CampaignInv
<1> QED
  BY <1>1, CampaignInvariant, PTL

\* A campaign in PLANNING has a request, a lost request, a job or a dead letter
\* behind it: none of its plan jobs completes before PLANNING has been left.
THEOREM PlanningDriven == CampaignSpec => []PlanningIsDriven
<1>1. CampaignInv => PlanningIsDriven
  BY DEF CampaignInv
<1> QED
  BY <1>1, CampaignInvariant, PTL

\* No generation is published twice: a request finds its own key free.
THEOREM PlanKeysFresh == CampaignSpec => []PlanKeyIsFresh
<1>1. CampaignInv => PlanKeyIsFresh
  BY DEF CampaignInv, RequestKeys, PlanKeyIsFresh, Is
<1> QED
  BY <1>1, CampaignInvariant, PTL

\* Nothing changes the row of a cancelled campaign.
THEOREM CancelledFinal == CampaignSpec => CancelledIsFinal
<1>1. [CampaignNext]_campaignVars =>
        [campaign.status = "CANCELLED" => campaign' = campaign]_campaignVars
  <2> SUFFICES ASSUME CampaignNext, campaign.status = "CANCELLED"
               PROVE  campaign' = campaign
    BY DEF campaignVars
  <2>1. ~UserNext
    BY DEF UserNext, Start, Resume, Publish, Pause, Cancel, Transition
  <2>2. RequestNext => campaign' = campaign
    BY DEF RequestNext, ReservePlan, SendPlan, PublishFails, Rollback, ApiCrash
  <2>3. PlannerNext => campaign' = campaign
    BY DEF PlannerNext, FetchPlan, LoadForPlan, PersistPlan, Reload, Handoff,
           Confirm, PlannerExpire
  <2> QED
    BY <2>1, <2>2, <2>3 DEF CampaignNext, FinishPlan, PlannerCrash
<1> QED
  BY <1>1, PTL DEF CampaignSpec, CancelledIsFinal
=============================================================================
