# A verification of the AI lead intelligence CRM

TLA+ modules of the campaign pipeline of this repository, the TLC configurations that
check them on small instances, and TLAPS proofs about them. Paths are relative to the
repository.

## 1. The system

A user's *campaign* (niche and region) is turned into *search tasks*; a worker runs each
task page by page against a browser-based discovery provider and stores the businesses it
finds. API and worker are separate processes. They share a PostgreSQL database and a
durable job queue (pg-boss) in it, and nothing else.

| Component | Source | State | Operations | Talks to |
|---|---|---|---|---|
| Campaign lifecycle | `apps/api/src/campaigns/` | `Campaign` row: status, `updatedAt` | create, start, pause, resume, cancel | queue: publishes `campaign-plan` |
| Campaign planning | `apps/worker/src/campaign-plan.processor.ts`, `search-planner/` | `SearchPlan`, `SearchTask` rows | plan, hand off to DISCOVERING, schedule tasks | queue: consumes `campaign-plan`, publishes `campaign-discovery` |
| Business discovery | `apps/worker/src/business-discovery.processor.ts`, `discovery-scheduler.ts` | `SearchTask`, `BusinessCandidate`, `BusinessSource`, `ProviderUsage` | read, claim, call the provider, persist the page, schedule the next | queue, provider, canonicalizer |
| Job queue | `packages/queue/src/`, `apps/worker/src/tracked-job.ts` | `JobMetadata` rows, pg-boss jobs | enqueue, schedule, enqueueBulk (idempotent by key), work, cancel, retry, getStatus | both processes |
| Canonicalization | `apps/worker/src/deduplication/` | `Business`, the match of a candidate | canonicalize one candidate, backfill | inside the page transaction, under a workspace lock |
| Deduplication rules | `packages/discovery/src/deduplication/` | none | normalize, similarity, score, veto | canonicalizer |
| Discovery provider | `packages/discovery/src/browser/` | the cursor | search, continue | browser, AI page interpreter |
| Provider limit | `packages/discovery/src/concurrency-limited-provider.ts` | a counter and a queue of waiters, per worker process | acquire, release around each provider call | provider |
| Jobs API | `apps/api/src/jobs/` | none of its own | enqueue a test job, get a job | job queue |
| Authentication, workspaces | `apps/api/src/auth/`, `workspaces/` | users, sessions, memberships | register, login, authenticate | every API handler |
| Web application | `apps/web/` | none of the system's | pages | API |

What makes it hard:

* Every handler is a sequence of separate database statements. Between two of them the
  user can pause, cancel or resume, another handler can move the same row, and the process
  can die.
* pg-boss delivers at least once: a job that throws, whose worker dies, or that outlives
  `expireInSeconds` (900 s) is run again, up to `retryLimit` 3 times. Nothing stops the
  handler of an expired job: it goes on next to the retry.
* Publication is two statements, the `JobMetadata` reservation and `boss.send`. The second
  may fail, and the deletion of the reservation after it may fail too.
* The row `Campaign.updatedAt` is a *generation*: a discovery job carries the one it was
  published for and is discarded when the campaign has a newer one.

What makes each component correct:

* lifecycle: stale transitions lose, cancelled is final, PLANNING never waits for nothing;
* planning: DISCOVERING only with a plan; the tasks of a new generation get jobs again;
* discovery: a page is claimed by one attempt at a time, persisted once, in order, with
  the counters that go with it; an interrupted search is taken up again;
* queue: one job per idempotency key and no answer that names another, no more tries than
  the limit, metadata that tells the job's state, cancellations that stand;
* canonicalization: one business per listing in a workspace, decided as if transactions
  ran one after the other; a match is never taken back;
* provider: every listing once per search, and a search that ends;
* limit: no more calls at a time than it says, no slot idle while a call waits, and no
  call that waits for ever.

## 2. Modules

| Module | Models |
|---|---|
| `JobTable` | The durable queue as its clients see it: per idempotency key none, reserved, queued, active, done, dead, and the number of tries. Operators that take a table and return one. |
| `KeyedJobs` | The abstract specification of the queue: a table of which one entry at a time moves, by an operation of `JobTable` or by what an operator does. |
| `JobQueue` | What is behind it: `JobMetadata` rows next to pg-boss jobs, publishers, tries of the jobs, cancel and retry. It implements `KeyedJobs`. |
| `CallLimit` | The semaphore around the provider, with the microtask between a release and the turn of the waiter it woke. |
| `Campaign` | Lifecycle requests, publication of plan jobs with rollback, the planner up to the moment it may schedule tasks. Extends `JobTable`. |
| `Discovery` | The fan-out of the planner and the `campaign-discovery` handler. Extends `Campaign` and conjoins its actions with its own state. |
| `PagedSearch` | The abstract specification: pages of a search are persisted one after the other, each once, with what was found on it. `Discovery` implements it. |
| `Matching` | The decision of `canonicalizeBusinessCandidate` as operators on a view of the rows: exact rules, veto, fuzzy rule, the rows afterwards. |
| `Canonicalizer` | The transactions around it: pages of discovery and the backfill, the workspace's advisory lock, commit and rollback. |
| `MapsSearch` | A search with the browser provider: the scroll loop of one call and the chain of calls that the cursor links, against a page that renders by itself. |
| `CampaignMC`, `DiscoveryMC`, `CanonicalizerMC`, `MapsSearchMC`, `JobQueueMC` | Instances for TLC (`CallLimit` needs none). |
| `CampaignProofs`, `DiscoveryProofs`, `JobQueueProofs`, `CallLimitProofs`, `CanonicalizerProofs`, `MapsSearchProofs` | The TLAPS proofs about each of them. |
| `DiscoveryCountProofs`, `DiscoveryDrivenProofs` | Two results about `Discovery` that need an argument of their own, on top of `DiscoveryProofs`. |

How they fit together: `Campaign` and `Discovery` publish and work jobs with the operators
of `JobTable`; `JobQueue` shows that rows and pg-boss jobs together behave like such a
table (`KeyedJobs`), and `QueueUsedAsPromised` that campaign and discovery move its entries
only as it lets them. (Cancels and retries of an operator, and an answer to a publication that
is lost after the job was accepted, are in `JobQueue` alone.) `Discovery` calls a provider that answers with a page or throws; `MapsSearch` is
that provider, `CallLimit` what is in front of it. `Canonicalizer` opens the transaction
that is one step of `Discovery`.

### How state and actions correspond to the code

* One action is one database statement (or one transaction) of a handler, with the local
  computation up to the next one. The handler's local variables are fields of `request`,
  `planner` and `attempt`, its position is the field `pc`.
* `campaign.version` is `updatedAt`. Every update of the row in the code makes a new one.
* `planJobs` is indexed by generation, as the key `campaign-plan:<id>:<updatedAt>` of both
  start and resume is (`campaigns.service.ts:128`). A reservation that could not be deleted
  is the fault `orphan`.
* `jobs` is indexed by task, generation and page, the parts of the key in
  `discovery-scheduler.ts`.
* `attempt[a].live` says whether pg-boss still counts the answer of this execution.
  `Expire` clears it and the handler goes on; what it then returns is ignored.
* `Read` is the whole of lines 35-94: it reads task and campaign with one query. `Claim`
  evaluates the `where` clause of lines 96-101 on the row as it is then. `Commit` is the
  transaction 182-260 with its last `updateMany` deciding whether it commits. `Undo` and
  `MarkFailed` are `failDiscoveryTask`, which looks at the status and not at the page.
* The candidates and canonical businesses which the same transaction writes are left out
  of `Discovery`: they commit or roll back with the provenance rows (`sources`).
* A page of results is a set of ids and the next cursor; the cursor is the page it
  continues at.
* `delivered` is a history variable: the pages persisted per task. Only `PagedSearch`
  looks at it.
* In `JobQueue`, the id of a job (a UUID) is the payload it was drawn for, `<<call, i>>`;
  `row` is `JobMetadata`, `job` what pg-boss has, `try[j][t]` where the handler of the t-th
  try is, which may still be going on when the next one has begun. Every statement is an
  action of its own: `ReserveRow`, `Find`, `Send`, `Withdraw` are `reserveMetadata` and
  `send`; `Start`, `TaskEnds`, `Finish` are `processTrackedJob`; `Report` is pg-boss hearing
  of it. `marks` is a history variable of what has happened to a job that its row may not
  tell. Every publisher of the application gives a key, so each call has one.
* pg-boss is external. Of it `JobQueue` assumes: a queue of the standard policy does not
  enforce `singletonKey`; the outcome of a handler whose job has expired is ignored;
  `cancel` takes jobs that wait or run, `retry` only failed ones, which it grants one more
  try; a worker that dies is noticed.
* In `CallLimit`, a caller is an attempt of `Discovery` in one worker process. `Release`
  takes the first waiter from the queue and resolves its promise; only `Resume`, its
  microtask, counts it in. `overtakers` counts the calls that acquire in between.
* `Canonicalizer` takes up those rows: `db` is what is committed, `tx[a].wrote` what a
  transaction has written, `View(a)` what it reads (READ COMMITTED). `PersistResult` is
  one turn of the loop 186-218 of `business-discovery.processor.ts`, `BackfillCandidate`
  one of the loop 52-54 of the backfill; `Abort` is any rollback: an error, a lost claim, a
  dead process. That the statements of one turn are a single action loses nothing, since
  nobody sees them before the commit. `Take` chooses the results of a page when they are
  first read, after the lock; the code has them before.
* A Business row is named by the candidate it was created for. No code deletes one.
* Texts are values with a normal form (`Normal`), and similarity is a function, so that
  the rules are checked for what they do with it and not for how it is computed. The
  present provider fills in name and address only; city, postal code, phone and domain
  come with rows that are older (and in the tests), hence `OldIdentities`.
* In `MapsSearch`, `page` is the browser's page: the list behind it and how much of it is
  rendered. It grows with every scroll and, unless `Prompt`, at any moment. `Extract` is
  lines 150-161 of `google-maps-browser.provider.ts`, on places of the list; what follows is split at the awaits
  that matter, the look for the end (`ReturnFull`, `ReturnAtEnd`, `GoOn`) and the scroll.
  A page that is returned is persisted in the same step; what may happen between the two
  is the matter of `Discovery`.

Faults are chosen by the constant `Faults`; `Campaign.tla` lists them with their meaning.
Everything in that list can happen to the code: the process dies (`crash`, `api`), the
database or pg-boss refuses a statement (`send`, `usage`, `rollback`), the answer to a
commit is lost (`ack`), a reservation stays behind (`orphan`), a job expires while its
handler runs (`expire`), the provider throws (`provider`). `JobQueue` has kinds of its own:
`send`, `answer` (pg-boss has the job, its answer is lost), `delete` (the reservation
cannot be taken back), `database`, `caller` (a publisher or an operator dies), `crash` and
`expire`.

## 3. Runs

| Run | Instance | Shows |
|---|---|---|
| `campaign` | 2 requests, 2 planners, 4 user transitions, 1 retry; send, orphan, api, crash, expire | the lifecycle properties and that PLANNING ends |
| `discovery_faults` | 1 task, 2 attempts, 2 pages, 1 retry; every worker fault | types, no job ahead of its task, counters, refinement of `PagedSearch`, queue used as `KeyedJobs` lets its clients |
| `discovery_claims` | 1 task, 2 attempts, 2 pages, no retry, 4 user transitions; expire, crash, api, provider | a claim is exclusive and stays valid; the generation tells the status |
| `discovery_live` | 1 task, 2 attempts, 2 pages, 1 retry; provider, send, crash, usage, rollback; fair | waiting tasks are driven, searches finish |
| `canonicalizer` | 1 page transaction of up to 2 results, 1 backfill, 5 candidates in 2 workspaces, 5 identities | one business per listing and workspace, no avoidable twins, no contradicted match, nothing taken back, nothing left by a finished backfill |
| `maps_search` | 5 listings, 2 lists that differ in order and length, pages of 2, 1 retry | the cursor is what was found, the end of the list is no loss, calls and searches end |
| `call_limit` | 5 callers, limit 2, at most 2 overtakers | counter and queue agree with the calls, no wake-up is lost, the excess is the overtaking, every waiting call gets its turn |
| `job_queue` | a bulk call of 2 payloads, a call that repeats its base key, one cancel or retry of the first job; capacity 1, 1 retry, 1 fault of any kind | answers stand, one job per key, the row tells what pg-boss does, a cancelled row stays true, refinement of `KeyedJobs`, accepted jobs end |
| `campaign_late_rollback` | 2 requests, 1 planner; send | **violated**: late rollback of another request's PLANNING |
| `discovery_resume_loses` | 1 task, 1 attempt, no fault | **violated**: a task RUNNING across pause and resume is lost |
| `discovery_crash_running` | 1 task, 1 attempt; crash; fair | **violated**: a task whose worker died stays RUNNING |
| `maps_search_resume` | 6 listings, one rendered per scroll, the limits of the code | **violated**: a continuation ends the search before the end of the list |

### Bounds

* One campaign: campaigns share no row except the queue, whose keys contain the campaign.
* One search task: two tasks share only the `ProviderUsage` row, which is updated by
  increments, and the loop of the planner. The proofs about `Campaign` do not depend on
  it; the discovery runs were also tried with two tasks and smaller fault sets.
* Two attempts, two requests, two planners: the races are between an old execution and a
  new one. Two pages: a first page, a continuation and the end of the search.
* `MaxVersion` bounds user transitions (start, pause, resume and one more), not the end of
  PLANNING: nothing the system does by itself is blocked by the bound.
* `canonicalizer`: transactions of one workspace are serialized by the lock, so that two at
  a time (here a page and a backfill) show the interleavings; a run with two pages on four
  candidates gave the same. Two old candidates of any of five identities (two phones, none,
  an unparseable one; a close name and a less close one) and two new ones are enough for
  each of the rules except `NAME_CITY_POSTAL_EXACT`, which differs from
  `NAME_ADDRESS_EXACT` in its columns only.
* `maps_search`: `MaxSeen` 3 of 5 listings, `MaxRounds` 4 and `MaxEmpty` 2, so that every
  limit of the loop is met.
* `call_limit`: with five callers two hold the slots, one is woken and two can overtake it.
  `MaxOvertakers` bounds a counter that only grows; the bound is on the overtaking and
  blocks no call that waits.
* `job_queue`: the keys of a bulk call and of a later call of a base key differ by design;
  `Capacity` 1 with two jobs makes one wait. `MaxFaults` 1 keeps the refinement and
  liveness within minutes; with 2 the invariants and the refinement were explored over 1.3
  million states without a violation, and the proofs have no such bound.
* `RetryLimit` 0 or 1 instead of 3: enough for a first try, a retry and a dead letter.

### Fairness

`CampaignFairSpec` and `FairSpec` assume weak fairness of each request handler, planner
and attempt: Node runs a handler that is not waiting, and pg-boss polls its queues every
second. One condition per process stands for all its steps, since a process has one next
step. `MapsSearch` assumes it of the call and of its being made again, not of the page.
`CallLimit` assumes it of each caller's microtask and of its release, which is in a
`finally` block after a provider call that ends (`MapsSearch`: `CallsEnd`). `JobQueue` has
one condition for all workers together: something that can be done by pg-boss, a handler or
a cancel or retry that has begun is done; publishers may stop anywhere. No fairness is
assumed of users and faults. `CHECK_DEADLOCK FALSE` because the
system may stop: a cancelled campaign with empty queues has nothing left to do, a job
queue whose jobs have ended neither. `CallLimit` is checked for deadlock.

## 4. Findings

1. **Resume loses a running task** (`discovery_resume_loses`). The planner of the new
   generation skips RUNNING tasks; the running attempt publishes the continuation with its
   own, old generation, and that job is discarded.
2. **A dead worker leaves its task RUNNING** (`discovery_crash_running`). The retried job
   cannot claim a RUNNING task and completes.
3. **Late rollback** (`campaign_late_rollback`). The rollback of a failed publication asks
   for PLANNING, not for its own generation.
4. **A search ends too early** (`maps_search_resume`). Rounds in which a new session
   scrolls past what earlier pages returned count as rounds with nothing new; after three
   the search is over. With one page of listings per scroll that is its fifth page.

Met on the way, with the faults that lead there, and left out of the passing runs:

* `WaitingIsDriven` fails with `orphan` (a reservation without a job blocks the repair of
  the continuation) and with `expire` + `provider` (an attempt that outlives its job and
  then fails leaves a FAILED task whose retry has already returned), and with `ack` +
  `crash`: the commit of a page succeeds and its handler sees an error; before that handler
  marks the task, a planner has published the next page, another handler has claimed it and
  died, and its retry has returned because the task is RUNNING. Then the first handler
  marks the task FAILED, and no job is left for it.
* An API process that dies between the transition and the publication leaves PLANNING
  without a job: the request is `lost`, and `PlanningIsDriven` and `PlanningEnds` have a
  disjunct for it. A user can still pause and resume.
* `ClaimExclusive` fails with `ack`: `Undo` then fails the claim of the next attempt.
  `SearchRefinement` and `CountersAgree` hold nevertheless, and are checked with it.
* `SearchEnds` excepts searches that have seen `MAX_SEEN_IDS` listings: from then on each
  call returns an empty page and the same cursor, unless the page shows its end at once.
* `EndIsComplete` is about pages that render nothing between the extraction and the look
  for the end; what is rendered in between is lost.
* The design of the job system (`docs/superpowers/specs/2026-09-01-milestone-1-postgres-job-system-design.md`)
  differs from the code of the queue in four places, which `StatusAgrees`, `JobsEnd` and
  `CancelStands` except by `marks`. Line 139, "A completion/reconciliation callback maps
  terminal pg-boss failures to metadata `FAILED`": there is none, and a job whose last try
  died or expired keeps RUNNING (or what the last handler wrote). Line 135, "startedAt is
  set on first attempt": it is set on each. Line 128, "compensates by cancelling a newly
  sent job": the reservation is deleted, and a job whose answer was lost runs without a row,
  next to a second one for the key. The retry of a job that has not failed sets its row to
  QUEUED although pg-boss does nothing.
* A job that is cancelled between its reservation and its send is sent all the same; its
  row says CANCELLED until it runs (mark `early`).
* A duplicate may be answered with a job whose publisher withdraws it afterwards;
  `AnswersStand` says when.
* "one active discovery call per worker process" (`README.md:215`) holds as far as nobody
  acquires between a release and the waiter's microtask: `ExcessIsOvertaking`.
* The plan of milestone 2 (`docs/superpowers/plans/2026-09-01-milestone-2-campaign-management.md:96`)
  gives a plan job the key `campaign-plan:<campaignId>`; the code adds the generation,
  without which a resume would be answered with the job of the start.
* The provider may be called once for a generation that was paused after line 59, and the
  planner may publish jobs after a pause that follows line 66; both are discarded or
  fenced later, which is what `GenerationMeansDiscovering` is about.

## 5. Proofs

Eight modules, three of them about `Discovery`, the others about one component each: for
every set of actors, every bound and every set of faults, unless the table says otherwise. All that is assumed are the named assumptions the modules make of their
constants (limits are natural numbers, `Faults` a subset of the kinds there are, a page size
is positive, `None` is no value, ...). In each, one inductive invariant carries the results; there is
one lemma per action, or per way in which an action can end.

| Module | Theorem | States |
|---|---|---|
| `CampaignProofs` | `CampaignInvariant` | `CampaignInv` is an invariant of `CampaignSpec` |
| | `CampaignTypes` | type correctness, with it the limit on tries |
| | `DiscoveringPlanned` | DISCOVERING only with a plan |
| | `PlanningDriven` | PLANNING has a request (perhaps a lost one), a job or a dead letter behind it |
| | `PlanKeysFresh` | no generation is published twice |
| | `CancelledFinal` | nothing changes a cancelled campaign (an action property) |
| `DiscoveryProofs` | `DiscoveryInvariant` | `DiscoveryInv` is an invariant of `Spec` |
| | `DiscoveryTypes` | type correctness |
| | `JobsNeverAhead` | no job for a page that its task has not reached |
| | `GenerationsTell` | while jobs of the current generation exist, the campaign is DISCOVERING |
| | `CampaignStillHolds` | what was proved of `Campaign` holds in the composition |
| | `ClaimsAreExclusive` | a claim has one holder and stays valid, if no answer to a commit is lost |
| | `DiscoveryImplementsSearch` | every step is one of `PagedSearch` or leaves it alone |
| | `QueueIsUsedAsPromised` | entries of the queue move only as `KeyedJobs` lets them |
| `DiscoveryCountProofs` | `CountersStayTrue` | counters of tasks and usage row agree with the rows and pages they count, with every fault |
| `DiscoveryDrivenProofs` | `WaitingStaysDriven` | while DISCOVERING, a task that waits has a job, an attempt or a planner to drive it; under `QuietFaults` and `CalmStart`, see below |
| `JobQueueProofs` | `AnswersAreKept` | what publishers were answered with stands |
| | `KeysHaveOneJob` | one job per key, as far as answers were not lost |
| | `CancelIsKept` | a cancelled row is of a job that will not be tried again |
| | `QueueImplementsTable` | rows and jobs implement `KeyedJobs` |
| | `BulkIsSplit` | the payloads of a bulk call are not merged |
| | `AttemptsAreCounted` | a row counts the tries of its job, but for those that are lost or still to come |
| | `StatusTells` | a row nobody interfered with tells what pg-boss knows |
| | `QueueTypes` | type correctness, with it the bound on tries |
| `CallLimitProofs` | `LimitTypes`, `LimitCountersAgree` | counter and queue say who calls and who waits |
| | `LimitIsUsed` | no slot is idle while a call waits |
| | `LimitIsKept` | the limit is exceeded by overtakers only |
| `CanonicalizerProofs` | `CanonicalizerInvariant`, `CanonicalizerTypes` | `CanonInv` is an invariant; types |
| | `ListingsHaveOneBusiness` | one business per listing and workspace, for any rules of similarity |
| | `WeakLinksStayTrue` | a match by name and address is never contradicted |
| | `TwinsStayAmbiguous` | candidates that are alike and have two businesses were not decided by similarity |
| | `BackfillFinishes` | a finished backfill leaves no candidate it was to match |
| | `MatchesStand` | a match is final (an action property) |
| `MapsSearchProofs` | `SearchInvariant`, `SearchTypes` | `SearchInv` is an invariant; types |
| | `CursorsTell` | the cursor is what was found, for lists that change between calls |
| | `EndsAreComplete` | who stops at the end of the list has found what was rendered |

Why the invariants are as they are:

* `CampaignInv`: the type invariant is not inductive. That `tries` stays within its range
  needs to know that a job which may be started has tries left (`TriesLeft`), which needs to
  know that a reservation belongs to the request that made it (`RequestKeys`), which needs
  requests to own different generations, all of them past (`RequestVersions`,
  `NoFutureJobs`). That PLANNING is driven needs to know that a plan job only ends when its
  generation has left PLANNING (`PlannerHandedOff`, `PlannerJobs`).
* `DiscoveryInv` is `CampaignInv` and: a task's cursor is that of its page (`TaskInv`), jobs
  exist for pages that were reached in generations that were discovering (`JobsInv`), what
  an attempt has read was true (`AttemptInv`), a live attempt alone holds its job
  (`LiveInv`), who publishes a continuation has persisted the page before (`SendInv`), and
  the planner's fan-out (`FanoutInv`). Exclusive claims need `SoleClaims` on top, which `ack`
  breaks; the refinement does not, because the commit looks at the page and not at the
  claim.
* `CountInv` (of `DiscoveryCountProofs`) tells why there are no more persisted pages than
  requests, and no more requests than attempts: each attempt that may still persist a page has
  been counted as a request, and each that may still count one as an attempt. A sum over the tasks is the number of pairs of a
  task and a number up to its count (`Total`), so that the sums move with the cardinality of
  a set by one element or by what a page has brought, and no recursion is needed.
* `WaitingIsDriven` is far from inductive: with almost every step a task changes its driver.
  `HeldInv` says who drives it precisely enough to follow: the job of the current
  generation, of the task's own page when the task has failed (`JobCarries`); the attempt
  that will claim this page, return its job to the queue or schedule this page
  (`AttemptCarries`); the planner that will list the task or has its key on its list
  (`PlannerCarries`); a plan job (`PlanWaits`). A handler that finds the key of a page taken
  hands the task over to whoever took it, so one has to know that a taken key is in good
  hands (`WatchInv`): an active job has its live attempt, a reserved key its sender, a done job
  has left a task behind that has gone on or is over, and a key that is reserved as a
  continuation is of a page nobody has tried. The result has two hypotheses, and needs both.
  `QuietFaults` leaves out `orphan`, `expire` and `ack`, with which it fails (section 4);
  `send`, `crash`, `api`, `provider`, `usage` and `rollback` may happen. `CalmStart` says that no handler is between the
  check of its generation and the end of its claim when the campaign starts to discover: a
  resume that overtakes one loses the task (finding 1).
* `JobQueueProofs` has four invariants, since its results need different things:
  `PublishInv` (where publishers are, what they have reserved, keys unique, answers with
  rows), `CancelInv` (a row that is or will be CANCELLED is of a job that has ended),
  `RefinementInv` (bounds on tries, a row is withdrawn from an accepted job only after a lost
  answer) and `TriesInv`, which tells what every step of every try leaves behind: no try runs
  that pg-boss has not begun (`Begun`), so a try that is picked up is counted once
  (`Counted`); a job that has not expired and was not cancelled or retried has at most one
  try at work, the one pg-boss waits for (`Alone`), so nobody overwrites what it has written
  (`Told`). Who cancels or retries marks the job before the row changes (`ControlInv`), and a
  job is granted one more try per retry asked for (`ExtraInv`).
* `LimitInv` is the conjunction of the properties with the types, as they stand.
* `CanonInv` tells what is committed (`DbInv`: links stay in the workspace, a Business is the
  match of the candidate it was founded for, and per workspace the properties themselves)
  from what the transaction that holds the lock sees (`WorkInv`: the same of its view, and
  that it wrote in its workspace only), with the lock as mutual exclusion (`LockInv`) and what
  the backfill has left to do (`TodoInv`).
* `SearchInv` adds to the properties that a call which has extracted, and has nothing left
  over, has seen all that was rendered (`SeenIsShown`).

Only model-checked: all liveness properties, since liveness under fairness is outside the
prover's reach: `PlanningEnds`, `SearchesFinish`, `CallsEnd`,
`SearchEnds`, `EveryCallGetsItsTurn`, `JobsEnd`.

## 6. Plan

1. (done) `JobTable`, `Campaign`, `Discovery`, `PagedSearch`, their runs, `CampaignProofs`.
2. (done) `Matching`, `Canonicalizer`; `MapsSearch`.
3. (done) `KeyedJobs`, `JobQueue` and its refinement.
4. (done) `CallLimit`.
5. (done) `DiscoveryProofs`, on top of the lemmas of `CampaignProofs`; `JobQueueProofs`;
   `CallLimitProofs`.
6. (done) `CanonicalizerProofs`, `MapsSearchProofs`.
7. (done) `DiscoveryCountProofs`, `DiscoveryDrivenProofs`; `TwinsStayAmbiguous`.
8. Left: equal time stamps as generations (`updatedAt` has milliseconds); texts with lengths,
   for the columns whose normal form may be longer than the text.

## 7. Not modelled

Authentication, workspaces, the web application, schemas and configuration: no state that
several actors work on. Browser access and page interpretation: I/O; the handlers see a
page of results or an error. Niche and geography expansion: pure string tables.
Normalization, edit distance and token overlap: pure functions on strings, which
`Matching` takes as parameters, so that what is proved of it holds for any such functions.
The wiring of the worker process, start and stop of the queues: a process is there or has
died. Queue retention and deletion of old jobs: outside the time a campaign takes.
