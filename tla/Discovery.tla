------------------------------ MODULE Discovery ------------------------------
(***************************************************************************)
(* The search tasks of one campaign: the planner's scheduling of them and  *)
(* the campaign-discovery handler (business-discovery.processor.ts), which *)
(* claims one page of one task, asks the provider for it, persists it in   *)
(* one transaction and schedules the next page.                            *)
(*                                                                         *)
(* Composes with Campaign, which owns the lifecycle and the generation.    *)
(* An attempt is one execution of the handler.  The worker never stops an  *)
(* attempt whose job expired, so several attempts of one job may be alive; *)
(* only the live one decides what becomes of the job.                      *)
(*                                                                         *)
(* A cursor is the page it continues at, NoCursor being null: what else a  *)
(* provider encodes in it does not matter to the handler.                  *)
(***************************************************************************)
EXTENDS Campaign, Sequences

CONSTANTS
  Tasks,      \* the SearchTasks of the plan
  Attempts,   \* campaign-discovery handler executions at the same time
  MaxPage,    \* bound: the provider ends a search here at the latest
  Ids         \* providerExternalIds the provider may return

ASSUME DiscoveryAssumption ==
  /\ MaxPage \in Nat \ {0}
  /\ IsFiniteSet(Ids) /\ IsFiniteSet(Tasks) /\ IsFiniteSet(Attempts)

Pages == 1 .. MaxPage

NoCursor == 0

Cursors == {NoCursor} \cup Pages

\* The parts of the idempotency key campaign-discovery:<task>:<version>:page:<n>
Keys == [task : Tasks, version : Versions, page : Pages]

NoKey == [task |-> "none", version |-> 0, page |-> 0]

VARIABLES
  task,        \* the SearchTask rows
  jobs,        \* campaign-discovery jobs, by idempotency key
  attempt,     \* executions of processBusinessDiscoveryJob
  fanout,      \* per planner: keys it has yet to schedule, key being sent
  sources,     \* BusinessSource rows: which task found which external id
  usage,       \* the ProviderUsage row of the campaign
  delivered    \* history: per task, the provider pages persisted, in order

discoveryVars == <<task, jobs, attempt, fanout, sources, usage, delivered>>

vars == <<campaignVars, discoveryVars>>

\* CANCELLED is a value of the enum that no code assigns to a task.
TaskStatuses == {"PENDING", "RUNNING", "COMPLETED", "FAILED"}

Unfinished == {"PENDING", "FAILED"}

AttemptSteps == {"idle", "read", "claim", "usage", "call", "commit",
                 "fail", "record", "undo", "reserve", "send", "finish"}

Results == [page : Pages, ids : SUBSET Ids, next : Cursors]

NoResult == [page |-> 0, ids |-> {}, next |-> NoCursor]

IdleAttempt == [pc |-> "idle", key |-> NoKey, live |-> FALSE,
                cursor |-> NoCursor, target |-> NoKey, result |-> NoResult]

NoFanout == [todo |-> {}, key |-> NoKey]

TypeOK ==
  /\ CampaignTypeOK
  /\ task \in [Tasks -> [status : TaskStatuses, page : Pages, cursor : Cursors,
                         attempts : Nat, results : Nat, unique : Nat]]
  /\ jobs \in [Keys -> Jobs]
  /\ attempt \in [Attempts -> [pc : AttemptSteps, key : Keys \cup {NoKey},
                               live : BOOLEAN, cursor : Cursors,
                               target : Keys \cup {NoKey},
                               result : Results \cup {NoResult}]]
  /\ fanout \in [Planners -> [todo : SUBSET Keys, key : Keys \cup {NoKey}]]
  /\ sources \subseteq Tasks \X Ids
  /\ usage \in [requests : Nat, results : Nat, errors : Nat]
  /\ delivered \in [Tasks -> Seq(Pages)]

Init ==
  /\ CampaignInit
  /\ task = [t \in Tasks |-> [status |-> "PENDING", page |-> 1,
                              cursor |-> NoCursor, attempts |-> 0,
                              results |-> 0, unique |-> 0]]
  /\ jobs = [k \in Keys |-> NoJob]
  /\ attempt = [a \in Attempts |-> IdleAttempt]
  /\ fanout = [p \in Planners |-> NoFanout]
  /\ sources = {}
  /\ usage = [requests |-> 0, results |-> 0, errors |-> 0]
  /\ delivered = [t \in Tasks |-> << >>]
-----------------------------------------------------------------------------
(***************************************************************************)
(* The planner schedules the tasks (campaign-plan.processor.ts:87-105).    *)
(***************************************************************************)
\* findMany: the unfinished tasks that nobody is running, at their page.
Schedulable == {t \in Tasks : task[t].status \in Unfinished}

ListTasks(p) ==
  /\ planner[p].pc = "tasks"
  /\ fanout' = [fanout EXCEPT ![p].todo =
                  {[task |-> t, version |-> planner[p].version,
                    page |-> task[t].page] : t \in Schedulable}]
  /\ PlannerGoes(p, "schedule")
  /\ UNCHANGED <<campaign, planned, request>>
  /\ UNCHANGED <<task, jobs, attempt, sources, usage, delivered>>

\* One task of the loop: reserve its key, or skip it if the key is taken.
\* Tasks are taken in the order of their random ids, that is in any order.
ScheduleTask(p) ==
  /\ planner[p].pc = "schedule"
  /\ \E k \in fanout[p].todo :
       IF Is(jobs, k, "none")
       THEN /\ jobs' = Reserve(jobs, k)
            /\ fanout' = [fanout EXCEPT ![p].key = k]
            /\ PlannerGoes(p, "send")
       ELSE /\ fanout' = [fanout EXCEPT ![p].todo = @ \ {k}]
            /\ UNCHANGED <<jobs, planner, planJobs>>
  /\ UNCHANGED <<campaign, planned, request>>
  /\ UNCHANGED <<task, attempt, sources, usage, delivered>>

SendTask(p) ==
  /\ planner[p].pc = "send"
  /\ jobs' = Sent(jobs, fanout[p].key)
  /\ fanout' = [fanout EXCEPT ![p] = [todo |-> @.todo \ {@.key}, key |-> NoKey]]
  /\ PlannerGoes(p, "schedule")
  /\ UNCHANGED <<campaign, planned, request>>
  /\ UNCHANGED <<task, attempt, sources, usage, delivered>>

\* The send fails; the handler throws and its job is retried from the start.
SendTaskFails(p) ==
  /\ planner[p].pc = "send"
  /\ \/ "send" \in Faults /\ jobs' = Release(jobs, fanout[p].key)
     \/ "orphan" \in Faults /\ UNCHANGED jobs
  /\ fanout' = [fanout EXCEPT ![p] = NoFanout]
  /\ PlannerThrows(p)
  /\ UNCHANGED <<campaign, planned, request>>
  /\ UNCHANGED <<task, attempt, sources, usage, delivered>>

FinishSchedule(p) ==
  /\ planner[p].pc = "schedule"
  /\ fanout[p].todo = {}
  /\ PlannerReturns(p)
  /\ UNCHANGED <<campaign, planned, request, discoveryVars>>

\* A planner that dies between reservation and send leaves the key reserved:
\* that needs "orphan" besides "crash".
PlannerDies(p) ==
  /\ PlannerCrash(p)
  /\ planner[p].pc = "send" => "orphan" \in Faults
  /\ fanout' = [fanout EXCEPT ![p] = NoFanout]
  /\ UNCHANGED <<task, jobs, attempt, sources, usage, delivered>>
-----------------------------------------------------------------------------
(***************************************************************************)
(* The campaign-discovery handler.                                         *)
(***************************************************************************)
Goes(a, step) == attempt' = [attempt EXCEPT ![a].pc = step]

\* Mutant of Returns: an attempt ends its job even after that has expired.
ReturnsLate(a) ==
  /\ jobs' = Complete(jobs, attempt[a].key)
  /\ attempt' = [attempt EXCEPT ![a] = IdleAttempt]

\* The handler is left; what it answers counts only while the job is its own.
Returns(a) ==
  /\ jobs' = IF attempt[a].live THEN Complete(jobs, attempt[a].key) ELSE jobs
  /\ attempt' = [attempt EXCEPT ![a] = IdleAttempt]

ThrowsOver(a, table) ==
  /\ jobs' = IF attempt[a].live THEN FailTry(table, attempt[a].key) ELSE table
  /\ attempt' = [attempt EXCEPT ![a] = IdleAttempt]

Throws(a) == ThrowsOver(a, jobs)

Fetch(a) ==
  /\ attempt[a].pc = "idle"
  /\ \E k \in Keys :
       /\ Is(jobs, k, "queued")
       /\ jobs' = Begin(jobs, k)
       /\ attempt' = [attempt EXCEPT ![a].pc = "read", ![a].key = k,
                                     ![a].live = TRUE]
  /\ UNCHANGED <<campaignVars, task, fanout, sources, usage, delivered>>

\* The generation the job was published for is the one discovering now.
Current(k) ==
  /\ campaign.status = "DISCOVERING"
  /\ campaign.version = k.version

\* Mutant of NeedsRepair: looks for a failed page instead of a waiting one.
RepairsFailed(row) == row.status = "FAILED" /\ row.cursor # NoCursor

\* The row has advanced and nobody runs its next page.
NeedsRepair(row) == row.status = "PENDING" /\ row.cursor # NoCursor

\* findUnique and the checks on what it returned (lines 39-94).  A job behind
\* its task repairs the continuation; a job ahead of its task is an error.
Read(a) ==
  LET k == attempt[a].key
      row == task[k.task]
  IN /\ attempt[a].pc = "read"
     /\ IF ~Current(k) \/ row.status = "COMPLETED" THEN Returns(a)
        ELSE IF k.page < row.page THEN
          IF NeedsRepair(row)
          THEN /\ attempt' = [attempt EXCEPT ![a].pc = "reserve",
                                ![a].target = [k EXCEPT !.page = row.page]]
               /\ UNCHANGED jobs
          ELSE Returns(a)
        ELSE IF k.page > row.page THEN Throws(a)
        ELSE /\ attempt' = [attempt EXCEPT ![a].pc = "claim",
                                           ![a].cursor = row.cursor]
             /\ UNCHANGED jobs
     /\ UNCHANGED <<campaignVars, task, fanout, sources, usage, delivered>>

\* Mutant of Claimable: the claim does not look at the status.
ClaimableAnyStatus(k) == task[k.task].page = k.page

\* The where clause of the claim, evaluated on the row as it is now.
Claimable(k) ==
  /\ task[k.task].page = k.page
  /\ task[k.task].status \in Unfinished

Claim(a) ==
  LET k == attempt[a].key
  IN /\ attempt[a].pc = "claim"
     /\ IF Claimable(k)
        THEN /\ task' = [task EXCEPT ![k.task].status = "RUNNING",
                                     ![k.task].attempts = @ + 1]
             /\ Goes(a, "usage")
             /\ UNCHANGED jobs
        ELSE Returns(a) /\ UNCHANGED task
     /\ UNCHANGED <<campaignVars, fanout, sources, usage, delivered>>

\* providers.get and the ProviderUsage upsert before the call.
CountRequest(a) ==
  /\ attempt[a].pc = "usage"
  /\ Goes(a, "call")
  /\ usage' = [usage EXCEPT !.requests = @ + 1]
  /\ UNCHANGED <<campaignVars, task, jobs, fanout, sources, delivered>>

\* The upsert fails outside every try: the handler throws, the claim stays.
CountRequestFails(a) ==
  /\ "usage" \in Faults
  /\ attempt[a].pc = "usage"
  /\ Throws(a)
  /\ UNCHANGED <<campaignVars, task, fanout, sources, usage, delivered>>

\* The page the provider turns to when asked with a cursor.
PageAt(cursor) == IF cursor = NoCursor THEN 1 ELSE cursor

NextCursors(page) ==
  {NoCursor} \cup (IF page < MaxPage THEN {page + 1} ELSE {})

\* A first page must have no cursor, a later page must have one.
CursorFits(k, cursor) == (k.page = 1) <=> (cursor = NoCursor)

CallProvider(a) ==
  LET page == PageAt(attempt[a].cursor)
  IN /\ attempt[a].pc = "call"
     /\ IF CursorFits(attempt[a].key, attempt[a].cursor)
        THEN \E ids \in SUBSET Ids, next \in NextCursors(page) :
               attempt' = [attempt EXCEPT ![a].pc = "commit",
                  ![a].result = [page |-> page, ids |-> ids, next |-> next]]
        ELSE Goes(a, "fail")
     /\ UNCHANGED <<campaignVars, task, jobs, fanout, sources, usage, delivered>>

\* The provider is not registered, or its search or its result is no good.
ProviderFails(a) ==
  /\ "provider" \in Faults
  /\ attempt[a].pc \in {"usage", "call"}
  /\ Goes(a, "fail")
  /\ UNCHANGED <<campaignVars, task, jobs, fanout, sources, usage, delivered>>

\* The where clause of the task update that ends the result transaction.
HoldsClaim(k) ==
  /\ task[k.task].status = "RUNNING"
  /\ task[k.task].page = k.page

\* Mutant of NewSources: counts the rows it skipped.
CountedSources(k, result) == {<<k.task, id>> : id \in result.ids}

\* Rows of the task that the page would add; known ones are skipped.
NewSources(k, result) == {<<k.task, id>> : id \in result.ids} \ sources

\* Mutant of Advanced: pageNumber is not incremented.
AdvancedSamePage(k, result) ==
  [task[k.task] EXCEPT
     !.status  = IF result.next = NoCursor THEN "COMPLETED" ELSE "PENDING",
     !.cursor  = result.next,
     !.results = @ + Cardinality(result.ids),
     !.unique  = @ + Cardinality(NewSources(k, result))]

\* Mutant of Advanced: the last page does not complete the task.
AdvancedPending(k, result) ==
  [task[k.task] EXCEPT
     !.status  = "PENDING",
     !.page    = IF result.next = NoCursor THEN k.page ELSE k.page + 1,
     !.cursor  = result.next,
     !.results = @ + Cardinality(result.ids),
     !.unique  = @ + Cardinality(NewSources(k, result))]

\* The SearchTask row after the page has been persisted.
Advanced(k, result) ==
  LET row == task[k.task]
  IN [row EXCEPT
        !.status  = IF result.next = NoCursor THEN "COMPLETED" ELSE "PENDING",
        !.page    = IF result.next = NoCursor THEN k.page ELSE k.page + 1,
        !.cursor  = result.next,
        !.results = @ + Cardinality(result.ids),
        !.unique  = @ + Cardinality(NewSources(k, result))]

\* What the transaction writes when it commits.
Persist(k, result) ==
  /\ HoldsClaim(k)
  /\ task' = [task EXCEPT ![k.task] = Advanced(k, result)]
  /\ sources' = sources \cup NewSources(k, result)
  /\ usage' = [usage EXCEPT !.results = @ + Cardinality(result.ids)]
  /\ delivered' = [delivered EXCEPT ![k.task] = Append(@, result.page)]

\* Provenance, counters, cursor and page change together, or, when the claim
\* is no longer there, not at all.
Commit(a) ==
  LET k == attempt[a].key
      result == attempt[a].result
  IN /\ attempt[a].pc = "commit"
     /\ \/ /\ Persist(k, result)
           /\ attempt' = [attempt EXCEPT
                ![a].pc = IF result.next = NoCursor THEN "finish" ELSE "reserve",
                ![a].target = IF result.next = NoCursor THEN NoKey
                              ELSE [k EXCEPT !.page = k.page + 1]]
        \/ /\ ~HoldsClaim(k)
           /\ Goes(a, "undo")
           /\ UNCHANGED <<task, sources, usage, delivered>>
     /\ UNCHANGED <<campaignVars, jobs, fanout>>

\* The transaction throws: rolled back, or committed with the answer lost.
CommitThrows(a) ==
  /\ attempt[a].pc = "commit"
  /\ \/ /\ "rollback" \in Faults
        /\ UNCHANGED <<task, sources, usage, delivered>>
     \/ /\ "ack" \in Faults
        /\ Persist(attempt[a].key, attempt[a].result)
  /\ Goes(a, "undo")
  /\ UNCHANGED <<campaignVars, jobs, fanout>>

\* Mutant of FailTask: an unconditional update.
FailTaskAlways(t) == task' = [task EXCEPT ![t].status = "FAILED"]

\* failDiscoveryTask: whoever is RUNNING the task, at whatever page.
FailTask(t) ==
  task' = IF task[t].status = "RUNNING"
          THEN [task EXCEPT ![t].status = "FAILED"] ELSE task

\* The provider failed: mark the task, ...
MarkFailed(a) ==
  /\ attempt[a].pc = "fail"
  /\ FailTask(attempt[a].key.task)
  /\ Goes(a, "record")
  /\ UNCHANGED <<campaignVars, jobs, fanout, sources, usage, delivered>>

\* ... then count the error (recordProviderError) and rethrow.
RecordError(a) ==
  /\ attempt[a].pc = "record"
  /\ usage' = [usage EXCEPT !.errors = @ + 1]
  /\ Throws(a)
  /\ UNCHANGED <<campaignVars, task, fanout, sources, delivered>>

\* The transaction failed: mark the task and rethrow.
Undo(a) ==
  /\ attempt[a].pc = "undo"
  /\ FailTask(attempt[a].key.task)
  /\ Throws(a)
  /\ UNCHANGED <<campaignVars, fanout, sources, usage, delivered>>

\* scheduleSearchTaskDiscovery, first half: a taken key counts as scheduled.
ReserveNext(a) ==
  LET k == attempt[a].target
  IN /\ attempt[a].pc = "reserve"
     /\ IF Is(jobs, k, "none")
        THEN jobs' = Reserve(jobs, k) /\ Goes(a, "send")
        ELSE Goes(a, "finish") /\ UNCHANGED jobs
     /\ UNCHANGED <<campaignVars, task, fanout, sources, usage, delivered>>

SendNext(a) ==
  /\ attempt[a].pc = "send"
  /\ jobs' = Sent(jobs, attempt[a].target)
  /\ Goes(a, "finish")
  /\ UNCHANGED <<campaignVars, task, fanout, sources, usage, delivered>>

\* The send fails and the handler throws, with the key released or not.
SendNextFails(a) ==
  /\ attempt[a].pc = "send"
  /\ \/ "send" \in Faults
        /\ ThrowsOver(a, Release(jobs, attempt[a].target))
     \/ "orphan" \in Faults /\ Throws(a)
  /\ UNCHANGED <<campaignVars, task, fanout, sources, usage, delivered>>

Finish(a) ==
  /\ attempt[a].pc = "finish"
  /\ Returns(a)
  /\ UNCHANGED <<campaignVars, task, fanout, sources, usage, delivered>>

\* The worker dies; a key it was about to send stays reserved ("orphan").
Dies(a) ==
  /\ "crash" \in Faults
  /\ attempt[a].pc # "idle"
  /\ attempt[a].pc = "send" => "orphan" \in Faults
  /\ Throws(a)
  /\ UNCHANGED <<campaignVars, task, fanout, sources, usage, delivered>>

\* The job expires while its attempt goes on.
Expire(a) ==
  /\ "expire" \in Faults
  /\ attempt[a].live
  /\ jobs' = FailTry(jobs, attempt[a].key)
  /\ attempt' = [attempt EXCEPT ![a].live = FALSE]
  /\ UNCHANGED <<campaignVars, task, fanout, sources, usage, delivered>>
-----------------------------------------------------------------------------
CampaignStep == (UserNext \/ RequestNext \/ PlannerNext) /\ UNCHANGED discoveryVars

ScheduleStep(p) ==
  \/ ListTasks(p) \/ ScheduleTask(p) \/ SendTask(p) \/ SendTaskFails(p)
  \/ FinishSchedule(p) \/ PlannerDies(p)

AttemptStep(a) ==
  \/ Fetch(a) \/ Read(a) \/ Claim(a) \/ CountRequest(a) \/ CountRequestFails(a)
  \/ CallProvider(a) \/ ProviderFails(a) \/ Commit(a) \/ CommitThrows(a)
  \/ MarkFailed(a) \/ RecordError(a) \/ Undo(a)
  \/ ReserveNext(a) \/ SendNext(a) \/ SendNextFails(a) \/ Finish(a)
  \/ Dies(a) \/ Expire(a)

Next ==
  \/ CampaignStep
  \/ \E p \in Planners : ScheduleStep(p)
  \/ \E a \in Attempts : AttemptStep(a)

Spec == Init /\ [][Next]_vars

(***************************************************************************)
(* Fairness: the API answers the requests it took, and the worker processes*)
(* poll their queues and run their handlers to the end.  Nothing is assumed*)
(* of users or of faults.                                                  *)
(***************************************************************************)
ApiWorks(r) == (ReservePlan(r) \/ SendPlan(r) \/ Rollback(r)) /\ UNCHANGED discoveryVars

PlannerWorks(p) ==
  \/ /\ FetchPlan(p) \/ LoadForPlan(p) \/ PersistPlan(p) \/ Reload(p)
        \/ Handoff(p) \/ Confirm(p)
     /\ UNCHANGED discoveryVars
  \/ ListTasks(p) \/ ScheduleTask(p) \/ SendTask(p) \/ FinishSchedule(p)

AttemptWorks(a) ==
  \/ Fetch(a) \/ Read(a) \/ Claim(a) \/ CountRequest(a) \/ CallProvider(a)
  \/ Commit(a) \/ MarkFailed(a) \/ RecordError(a) \/ Undo(a)
  \/ ReserveNext(a) \/ SendNext(a) \/ Finish(a)

FairSpec ==
  /\ Spec
  /\ \A r \in Requests : WF_vars(ApiWorks(r))
  /\ \A p \in Planners : WF_vars(PlannerWorks(p))
  /\ \A a \in Attempts : WF_vars(AttemptWorks(a))
-----------------------------------------------------------------------------
(***************************************************************************)
(* Properties.                                                             *)
(***************************************************************************)
\* The steps between a successful claim and the update that gives it back.
ClaimSteps == {"usage", "call", "commit", "fail", "undo"}

Claims(a, t) == attempt[a].pc \in ClaimSteps /\ attempt[a].key.task = t

\* A claim belongs to one attempt, and what that attempt read before it claimed
\* (page and cursor, lines 39-94) is still what the row says while it talks to
\* the provider and persists: neither expired attempts that go on, nor retries,
\* crashes, pauses and duplicate jobs break in.
ClaimExclusive ==
  \A a \in Attempts, t \in Tasks :
    Claims(a, t) =>
      /\ \A b \in Attempts : Claims(b, t) => b = a
      /\ HoldsClaim(attempt[a].key)
      /\ attempt[a].cursor = task[t].cursor

\* No job asks for a page its task has not reached, so the "ahead of persisted"
\* error (line 92) is never seen; repairs and continuations included.
NoJobAhead ==
  \A k \in Keys : ~Is(jobs, k, "none") => k.page <= task[k.task].page

\* A generation that jobs were published for is one in which the campaign was
\* DISCOVERING: updatedAt alone tells a stale job, whatever the status is.
GenerationMeansDiscovering ==
  \A k \in Keys :
    ~Is(jobs, k, "none") /\ k.version = campaign.version
      => campaign.status = "DISCOVERING"

\* The sum of n[t] over the tasks: the number of pairs of a task and one of its n[t].
Counted(n) == UNION {{t} \X (1 .. n[t]) : t \in Tasks}

Total(n) == Cardinality(Counted(n))

\* The counters agree with the rows they count, through retries, repeated pages
\* and lost answers: unique counts the provenance rows of the task, the usage
\* row sums the results of the tasks, and every persisted page was counted as
\* a request, every request as an attempt.
CountersAgree ==
  /\ \A t \in Tasks : task[t].unique = Cardinality({s \in sources : s[1] = t})
  /\ usage.results = Total([t \in Tasks |-> task[t].results])
  /\ Total([t \in Tasks |-> Len(delivered[t])]) <= usage.requests
  /\ usage.requests <= Total([t \in Tasks |-> task[t].attempts])

\* The pipeline implements the abstract paged search: every page once, in order,
\* and nothing after the last one.
Search == INSTANCE PagedSearch WITH
            log <- delivered,
            found <- sources,
            finished <- {t \in Tasks : task[t].status = "COMPLETED"}

SearchRefinement == Search!SearchSpec

Queue == INSTANCE KeyedJobs WITH table <- jobs, LostAnswers <- FALSE

\* Every entry that is not the same in the new table was moved as the queue moves it.
UsedAsPromised(old, new) ==
  \A k \in DOMAIN old :
    new[k] # old[k] => Queue!Moves(old, [old EXCEPT ![k] = new[k]], k)

\* Campaign and discovery use the queue as KeyedJobs, which the queue service
\* implements, lets them: a key is sent or released while it is reserved, and a
\* job ends while it is active, though its reservation and its handler are two
\* steps apart, a job expires under its handler, and a failed continuation is
\* released and its job returned at once.
QueueUsedAsPromised ==
  [][UsedAsPromised(jobs, jobs') /\ UsedAsPromised(planJobs, planJobs')]_vars

\* Something will still take care of the task: an attempt or a job of the current
\* generation, or a planner run that has not ended.  A dead-lettered job counts,
\* an operator sees it.
Driven(t) ==
  \/ \E a \in Attempts : attempt[a].key.task = t
                         /\ attempt[a].key.version = campaign.version
  \/ \E k \in Keys : /\ k.task = t /\ k.version = campaign.version
                     /\ jobs[k].state \in {"queued", "active", "dead"}
  \/ \E p \in Planners : planner[p].pc # "idle"
  \/ \E v \in Versions : planJobs[v].state \in {"queued", "active", "dead"}

\* While the campaign is DISCOVERING, a task that waits for its next page or for
\* a retry has somebody to drive it: the continuation that a failed publication
\* or a crash after the commit lost is repaired by the replay of the old job.
WaitingIsDriven ==
  campaign.status = "DISCOVERING" =>
    \A t \in Tasks : task[t].status \in Unfinished => Driven(t)

\* A task is RUNNING but the attempt that claimed it is gone.
Abandoned(t) ==
  /\ task[t].status = "RUNNING"
  /\ \A a \in Attempts : ~Claims(a, t)

\* Once discovery has begun, every search is finished, unless a user stops the
\* campaign, the retries of one of its jobs are used up, or a worker that died
\* left a task RUNNING (see RunningEnds).
SearchesFinish ==
  campaign.status = "DISCOVERING" ~>
    \/ \A t \in Tasks : task[t].status = "COMPLETED"
    \/ campaign.status # "DISCOVERING"
    \/ \E k \in Keys : Is(jobs, k, "dead")
    \/ \E v \in Versions : Is(planJobs, v, "dead")
    \/ \E t \in Tasks : Abandoned(t)

\* "Jobs must survive API and worker restarts": a task that is being run does
\* not stay so for ever, even when its worker dies and the job is retried.
RunningEnds == \A t \in Tasks : task[t].status = "RUNNING" ~> task[t].status # "RUNNING"
=============================================================================
