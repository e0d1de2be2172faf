# Ego OS in TLA+

Models of [Ego OS](../src), the properties they are checked for, and proofs.
Ego OS is a one-person "company": the Owner submits a request on a web page, a
chain of AI employees plans, staffs, executes and reviews it, and the Owner
gets a report. A second, separate half automates development of the code base:
a control server hands queued automation tasks to an agent on another machine.

## The system

| Component | State | Operations | Talks to |
|---|---|---|---|
| Task store, `ego_os/store.py` | SQLite rows: tasks, reports, memory, proposals, provisioning tasks, employees, the budget ledger, assets, mandates | one function for each read or write, each with a connection of its own | called by every other part |
| Background worker, `ego_os/worker.py` | in-memory queue, one thread | `enqueue`, `process_one`, start-up recovery | runs the lifecycle |
| Task lifecycle, `ego_os/lifecycle.py` | none of its own; one call of `run` drives one task | planning, staffing or gap, execution, QA gate, one revision, delivery or escalation | store, models, tools, skills |
| Owner routes, `ego_os/main.py` | none; handlers run on a thread pool | submit, approve/reject a proposal, accept/retry/close a draft | store, worker |
| Operating budget, `ego_os/model_provider.py` with `store.reserve_budget` | append-only ledger | reserve, call, record, release | the lifecycle's model calls |
| Digital assets, mandates, `ego_os/store.py` | asset rows with status and append-only events; mandate versions | create, transition, accept/reject; submit | Owner routes |
| Skills, tools, employees | files in the repository, a roster table | resolve, run a tool, sync at start-up | the lifecycle |
| Control server, `automation/control_server.js`, with the rules of `automation/runner_control.js` | task files in git, agents.json, the pending command, runner state | Owner's commands and task actions; register, heartbeat, claim, report | agent over HTTP, git remote |
| Windows agent, `automation/windows_agent.js` | its checkout, its copy of the pending command, a sequence counter | heartbeat loop, claim loop | control server, git remote |
| Automation runner, `automation/claude_task_runner.js`, with `session_manager.js` | task files, handoff files, runner state | stages, safe points, outcomes, commits | the `claude` process, git |

What is hard here: requests overlap each other and the worker thread, while
every store function is a transaction of its own; the queue is lost in a crash
while the `queued` column is not; a run can end in an exception at any model
call; several writers keep status, report and memory in step without a
transaction around them; budget is reserved in one transaction and released in
another. In the automation half: leases, lost answers, restarts on either
side, one pending-command file copied from one machine to another, and two git
clones. `PROJECT.json` lists each hazard at its line with the properties about
it.

## Modules

| Module | Models | Used by |
|---|---|---|
| `TaskContract` | what the Owner is promised about one task: the outcome and its report | refined by `ProductTask` |
| `ProductTask` | store, worker, lifecycle, Owner routes, recovery | `MCProductTask`, `ProductTaskProofs` |
| `MCProductTask` | the symmetry of the model values | the four ProductTask configurations |
| `ProductTaskProofs` | theorems about `ProductTask`: types, run states | `ProductOutcomeProofs` |
| `ProductOutcomeProofs` | theorems about `ProductTask`: outcomes, and the refinement of `TaskContract` | |
| `BudgetLedger` | reserve, charge, record, release, crash | `MCBudgetLedger`, `BudgetLedgerProofs` |
| `MCBudgetLedger` | the limits of the instance, symmetry | the budget configuration |
| `BudgetLedgerProofs` | theorems about `BudgetLedger` | |
| `AutomationQueue` | the queue in git, the control server's claims, the agents and their sessions | `MCAutomationQueue`, `AutomationQueueProofs` |
| `MCAutomationQueue` | symmetric agents | the four automation configurations |
| `AutomationQueueProofs` | theorems about `AutomationQueue`: what the server claims | `AutomationRunProofs` |
| `AutomationRunProofs` | theorems about `AutomationQueue`: who works on what | |
| `RunnerControl` | the runner's state on the server, the Owner's command, the agent's two request loops | `MCRunnerControl`, `RunnerControlProofs` |
| `RunnerControlProofs` | theorems about `RunnerControl` | |
| `OwnerRecords` | Digital Assets with their history, mandates | `MCOwnerRecords`, `OwnerRecordsProofs` |
| `OwnerRecordsProofs` | theorems about `OwnerRecords` | |
| `SpecialistWork` | registry sync, attachments, Skills, prompts, tools and published sites | `MCSpecialistWork`, `SpecialistWorkProofs` |
| `SpecialistWorkProofs` | theorems about `SpecialistWork` | |
| `MCRunnerControl`, `MCOwnerRecords`, `MCSpecialistWork` | the instances, with the calls, registry and symmetry they take | one configuration each |

The modules split the state of the code along what reads what. The budget is a
table of its own whose refusal is the `budget` fault of `ProductTask`; the
assets and mandates are tables that no run of a task reads. `SpecialistWork`
takes from the task's life that a queued task is run, ends and may be sent back,
and models what `ProductTask` abstracts to a choice: what goes into a specialist's
turn and what comes out. `RunnerControl` and `AutomationQueue` meet in the HTTP
requests of the agent: the one keeps their numbers and what they say of the
runner, the other the git commands they run. The product's store never reads a
task file of `automation/`.

### ProductTask

`status`, `run_state`, `report`, `memory`, `proposal`, `provisioned` and
`assigned` are rows of the database; `server`, `queue`, the worker's `pc`,
`cur`, `staffed`, `revised`, `checked` and the request threads' `req` are the
process, and `Crash` forgets them. **One step is one SQL statement that
commits**, because every function of `store.py` opens its own connection and
Python's `sqlite3` begins a transaction only before the first INSERT or UPDATE:
`update_task_status` is therefore two steps (`CheckMove`/`MoveStatus` in the
worker, `CheckTask`/`MoveTask` in a route) and every other call is one. The
`set_employee_status` calls that follow a status change in the pipeline are part
of that step: nothing reads the roster while a run is in flight.

The worker's `pc` names the next call of `process_one` and `lifecycle.run`:
`Take`, `ReadRow`, `Claim` start a run; `Plan` to `Remember` are the pipeline;
`BudgetCheck` to `BudgetInsert` are the `except BudgetError` handler; `Finish`
is the last `set_task_run_state`. What a model or tool answers is a choice, and
`Faults` says which calls may raise. A request thread is between two calls of
its route; `OpenReview` and `DecideProposal` are the first statement of each
route, `Continue` the rest. `SubmitFails` is a submission that raises over its
attachment: the row is queued and nobody is told (`stranded`, until the next
start). `Boot`, `RecoverRunning`, `RecoverQueued` and
`Serve` are `on_startup`.

### BudgetLedger

The table is append-only and only ever summed, so the model keeps the sums.
`Reserve` and `Refuse` are the two ends of `reserve_budget` (one `BEGIN
IMMEDIATE` transaction); `Charge`, `RecordSpend` and `Release` are the rest of
`complete`; `Fail` is the provider's client raising, before or after the charge;
`Crash` is the process. `billed` is what the provider charged, which no code
here knows until `RecordSpend`. `Overrun` is how far a call may exceed its
reservation: the estimate of four characters for a token is not a maximum.
Production calls `complete` from the worker alone and never passes
`task_budget_cents`; the module keeps both as parameters, as the function does.

### AutomationQueue

The queue is a directory of task files in git, and the only state that all
parties share is `origin/main`. `origin` is the file of each task there; `clone`
is what the server and each agent hold: last commit (`head`), checked-out files
(`work`), other changes (`scratch`), the tasks its unpushed commits touch
(`ahead`) and what origin has changed since its last pull (`behind`). `lease` is
the lease that has not ended, `agent` and `desk` are where an agent's claim loop
and the server's claim handler are, `outlived` is history.

**One step of the server or of an agent ends at the git command that can meet
another party's push.** The server's handlers use synchronous `spawnSync`, so
two handlers never overlap (`desk`), but a pull (`PullQueue`), each revert of an
expired claim (`RevertExpired`), the commit of the claim (`ClaimTask`) and its
push (`HandOut`, `RefuseClaim`) are separate steps, between which origin moves.
`TaskAction` is `handleTaskAction`, which saves and does not commit. `Report` is
the pull of `report-result`.

An agent pulls (`PullTask`), passes the gates of `execute` (`RefuseTask`) and
its preflight (`Preflight`), and alternates stages and sessions. A session is
the `claude` process: it commits and pushes statuses as its prompt says
(`SessionCommits`) and may leave changes behind (`SessionLeavesScratch`).
`EndSession` and `NextStage` are `decideNextAction` with the branch of `execute`
that follows, down to the commit. `AgentCrash`, `AgentStart` and `ServerCrash`
forget the process and keep the clone; `Repair` is the human an agent with a
dirty or diverged tree needs, and nothing plays that part for the server.

`CanPull` and `CanPush` are git's rules for `pull --ff-only` and for a push
without force, on which everything rests. That a pull may also fail because two
parties changed the same line of different tasks is left out: a task is a file.

### RunnerControl

`memory` is `runnerState` in the server's process, `file` is
`runner_state.json`, which the routes and the pages read; `command` is the
server's `commands.json` and `mirror` the agent's. `transition` moves the first
two together, and only the restart of the server takes them apart, because
nothing reads the file back (`ServerRestart`).

The agent is two loops over one counter. `beat` and `heard` are the heartbeat
loop with its last answer, `at` and `reply` the claim loop, from the claim to the
result with `execute` between them. `wire` holds the requests under way **in the
order of their numbers**: the server may accept any of them (`Accept`) and from
then on refuses every lower number, so the requests before it are gone
(`Younger`) and whoever awaits one of them is refused. `Lose`, `GiveUp` and
`GiveUpEarly` are a lost request and the 20 seconds of `agentPost`, after which a
request may still arrive. `AgentRestart` keeps the agent's command file, which is
on disk. The runner's own `transition` calls in the agent's process start from
`stopped` there and move nothing.

`told` is history: the agent's file has the Owner's last command from the
agent's own heartbeat. `last` is the result accepted since a task was handed out.

### OwnerRecords

A caller is a thread in `transition_asset` or `create_mandate`. Both SELECT
first, outside a transaction, and then write row and event, or the next version,
in one: `Read`/`Write` and `ReadVersion`/`InsertMandate`. What others commit in
between is not seen. `Permitted`, `Consistent` and `Complete` are the checks in
the code's order of dependence; a refused call changes nothing and is no step.
`log_asset_event` is an event without a row. `stale` and `crossed` are history:
the assets written on a status that no longer held, and whether two submissions
of the mandate overlapped. `Fail` ends a call whose transaction does not commit.

### SpecialistWork

`registry`, `content`, `locked` and `revoked` are the files under `company/` and
`skills/`; `EditTree` changes any of them while the server runs, and so does
`WriteFile`, the tool `write_repository` of a specialist. `Boot`, `Upsert`,
`LogSync` and `Ready` are `on_startup`, where each row of `employees` and each
audit event is a commit of its own. `Submit`, `Move` and `Enqueue` are the steps
of `POST /tasks`, and `MoveFails` the `mkdir` or move that raises. `Retry` is
`retry_after_review` of a run that went to the Owner: the task is staffed,
prompted and executed once more, tools and publication included, and only the
report is refused, for the task has one (the second branch of `Conclude`).

The run of the worker goes through `Staff` (resolution of all the employee's
Skills, at once: reads of files that only an edit can change), `Validate` (one
event for each), `Prompt` (which reads each entrypoint again), the reply, QA and
one revision. A tool request is `Reply` where its effect reaches nothing else,
`WriteFile`, or the stages of `build_presentation_site`: `ExtractDeck` or
`RefuseDeck`, `Render` or `RenderFails`, and `Unpublish` and `Publish`, which are
`rmtree` and `copytree`. `Raise` is the `except` of `_execute_tool_request`: three
kinds of exception become text for the model, every other one ends the run.
Digests are compared as contents; a manifest that cannot be parsed
is a digest that does not match.

`lost`, `torn`, `rewritten`, `overtaken` and `cut` are history, each the excuse
in one property: audit events a crash took away, attachments that a crash or an
error left in staging, entrypoints that changed under the run, links under whose
name another publication has begun, and names whose last one was broken off.

## Runs

| Run | Shows |
|---|---|
| `ProductTaskRaces` | One task, two overlapping requests, every fault, one crash (3.0 million states): no queued task is lost but one whose submission raised (`NoLostTask`), a completed run left the pipeline (`CompletedIsOut`). |
| `ProductTaskSequential` | Two tasks that share the worker, one request at a time, every fault, one crash: `TaskContract` is implemented (`ContractHolds`), the report never lies (`ReportIsTrue`), memory once and only of deliveries (`MemoryOfDelivered`), employees are released (`EmployeesReleased`), provisioning only after approval (`ProvisionedIsApproved`), a running task is in the living worker's hand (`RunningIsOwned`), the worker thread survives (`WorkerSurvives`), queued tasks are taken and submitted ones answered (`QueuedIsTaken`, `SubmittedIsAnswered`). |
| `OverlappingDecisions` | violated: `SettledIsFinal`. Accept and close overlap; both pass the check of `update_task_status`. |
| `LostRetry` | violated: `RevisionIsRun`. A retry before the run's last statement is overwritten. |
| `BudgetLedger` | Two callers, two tasks (one with a sub-limit), two losses: nothing is overdrawn (`NeverOverdrawn`, `WithinTaskBudget`), the bill is covered (`BilledIsReserved`), without losses the ledger is exact (`TruedUp`). |
| `AutomationQueue` | Two agents compete for one task while a developer pushes and one thing goes wrong anywhere (6.0 million states): what origin records as taken up or settled is never claimed (`HandedOutIsOpen`), one agent works on a task (`OneRunner`), origin says so (`RunIsRecorded`), a pushed done stays (`DoneIsSettled`). |
| `AutomationLiveness` | Two tasks, one of which the gates refuse, one agent, one mishap, nobody else pushing: the queue moves (`QueueMoves`). |
| `WedgedServer` | violated: `QueueMoves`, with no mishap at all, once a developer may push between the server's pull and its push. |
| `AbandonedRun` | violated: `RunIsReleased`. The agent dies after in_progress has been pushed. |
| `RunnerControl` | Up to three requests under way, any command at any time, one lost or abandoned request or restart (290 thousand states): the server never shows idle over a working agent (`IdleIsIdle`) nor running after a result (`RunningIsOpen`), file and memory agree (`SnapshotIsState`), a pause or stop that has arrived is kept (`HaltIsKept`), an emergency stop ends the session (`EmergencyStops`). |
| `OwnerRecords` | One asset, fourteen kinds of call, two callers that overlap in every way, three mandates (1.4 million states): nothing is accepted or validated but by the Owner and completely (`NeverAutomatic`, `ValidatedIsComplete`), row and history agree (`DecisionIsLast`, `HistoryAgrees`), each decision is made once (`DecidedOnce`), mandates are numbered (`MandatesAreNumbered`). |
| `SpecialistWork` | Two tasks, a coder that may write to the tree and a designer that publishes, two versions of a Skill, two site names, one retry, one edit, one crash (6.5 million states): prompts say what is recorded (`PromptIsTrue`), the audit trail replays to the store (`AuditReplays`), a report's link shows its own deck until another publication begins, then a whole one unless that is under way or was broken off (`LinkShowsItsDeck`). |

The violated properties say what a comment or a document of the repository
says; each is quoted under `findings` in `PROJECT.json`.

### Bounds

* Two request threads make every pairwise overlap; the interleaving needs no
  third. Two tasks are needed where they share something: the worker, the
  queue and the roster, which is `ProductTaskSequential`.
* One crash reaches each of the points between two statements; the state after
  a restart is again one Init could have led to, apart from the rows.
* `MaxRows` stops repeated acceptances and approvals from adding rows for
  ever; two is the first number that shows a duplicate. `MaxQueue` stops a
  draft from being retried while the queue already holds a task.
* One specialist: which of them is staffed changes nothing but a name.
* A budget of 5 with prices 1 and 2 and a sub-limit of 3 meets both limits,
  in either order, and two losses make a failed call and a crash combine.

* Two agents and one task make every contest for a task; the second task of
  `AutomationLiveness` is the one beside it in the same clone, whose commits and
  files the first one's pulls and pushes meet. `MaxMishaps` counts failed git
  commands, lost answers, crashes and runs that outlive their lease or their
  final status; one of them at any point is followed by every recovery the code
  has. `MaxPushes` is how often developers push. The theorems hold for any
  number of both.

* Three requests under way are the claim loop's, the heartbeat's and one given
  up that still travels: the first number at which a request overtakes another
  that nobody awaits. One fault makes each of them; the safety theorems hold for
  any number of both.
* Two callers make every pairwise overlap on an asset. `MaxEvents = 5` is one
  more than the longest way through the statuses, so that a decision can be
  repeated; three mandates show a number taken twice and the next one after it.
* Two versions of one Skill make a sound one fail with its sibling
  (`_load_all_versions` raises for all), and an employee has one of them at a
  time; one edit and one crash meet each step of the startup, a submission and a
  run. Two tasks and two names make one task publish over the other;
  `MaxRetries = 1` makes a task publish over itself. The theorems hold for any
  number of all of them.

`CHECK_DEADLOCK FALSE` in `OwnerRecords` and `SpecialistWork`: the bounds end
every behaviour. In the ProductTask and budget runs: the system rests once all tasks are settled,
all crashes spent or the budget is used up. The automation runs check for
deadlock: the Owner, an agent or the server always has a next step.

### Fairness

`FairSpec` assumes that the worker thread makes progress (`_worker_loop` never
stops while the process lives), that a started handler goes on, and that the
process is started again after a crash (the systemd unit restarts it). Nobody
has to make a request, and no choice inside an action is fair: a model may
answer REVISE each time it is asked. Liveness is checked without symmetry.

`AutomationQueue` assumes that a handler that has begun goes on, that an agent's
loop does, that sessions end (each has its time limit, and their number is
limited) and that leases do; `SF` where another handler may occupy the server
in between, or where a session may commit once more. Nothing makes a human act
or a mishap happen. That agents go on asking over a clean tree is a premise of
the two properties (`SomeAgentAsks`): a pause that is never lifted, a dirty tree
nobody repairs, or an agent that is off ends it.

`RunnerControl` assumes that the heartbeat loop sends its next request whatever
the claim loop does, that the server answers some request that is under way, that
one which is never answered times out, and that a session polls its command file
(`Interrupt`). It does not assume that sessions end, that the claim loop goes on
or that any particular request arrives: `EmergencyStops` holds because a
heartbeat that is overtaken is followed by another.

## Proofs

For any tasks, threads, proposals, faults and number of crashes:

* `TypeCorrect`, from `Typed`: `TypeOK` is not inductive, since a request
  thread indexes rows by `req[r].task` and the worker by `cur`. `RequestOK`
  says that a thread in the middle of a route has a task (and a proposal) of
  the right kind, `WorkerOK` that the worker at a step of a run has one.
* `NothingIsLost`, `CompletedRunsAreOut`, from `RunInv`. `Owned` says whose a
  running task is, the server starting or a dead worker included; `InHand` says
  that the task in hand is queued or running (a retry can re-arm it); `EndsOut`
  that at a step after which a run ends well, the task has left the pipeline.
  `NoLostTask` needs the three together: the step that takes a task off the
  queue is safe because it becomes `cur`, and the step that drops `cur` is
  safe because the task is then no longer queued, or another thread is about
  to enqueue it.

For any tasks, threads, proposals, faults and number of crashes, **as long as no
two of the Owner's requests are about the same task at once** (`OnePerTask`, a
premise of each theorem; requests about different tasks, the worker and crashes
interleave freely, and `OneThread` says that one request thread keeps it):

* `ReportsAreTrue`, `MemoryIsOfDelivered`, `NobodyIsLeft`,
  `OnlyApprovedIsProvisioned`, `OneRunAtATime` and `WorkerNeverDies`, from
  `RunInv` and `Sound`. The premise is needed: with two threads and one task TLC
  violates each of the six properties, and `OverlappingDecisions` is the shortest of these stories.
  `Sound` is about what is known between a check and the write it allows.
  `HandOK` says what the status of the task in hand is at each step of the run,
  and with it that the worker's moves are never refused (`MoveAllowed`). It lasts
  because nobody else touches a task in the middle of the pipeline: a route moves
  a task only out of needs_owner_review or a gap, where the worker is between
  runs, or at one of the three steps at which a run is over but for its last
  writes (`Alone` are the others). `Knows` is the same for a request between
  its check and its last write, `RowsOK` ties report, memory and provisioning to
  the status. `StaffOK` says who may be assigned at each step as long as no
  earlier run has failed; a retry hides a failed run again, hence `Tidy`.
* `SettledStaysSettled` and `ContractRefined`, from the same invariant. Each step
  makes `Progress`: it leaves status and report alone, makes one move of
  `TASK_TRANSITIONS` (`Moved`), or files or amends one report as the status says
  (`Filed`). `MoveRefines` and `FileRefines` map these to the actions of
  `TaskContract`; moves within the pipeline are stutters there.

For any finite number of callers, any prices, limits and losses:

* `LedgerTyped`, `BudgetHolds`, `SubLimitHolds`, from `Limited`, the type
  invariant with the two limits.
* `BillIsCovered` and `LedgerIsExact`, from `Covered`, which says what the open
  calls owe: before the charge, the reservations cover the bill with the whole
  amount of a call to spare (`Slack`); after it, with the unused part to spare;
  and of a charge not yet recorded, how much (`Unrecorded`). It is about sums over
  the callers. A recursive sum would take an induction, so `SumIs` says that a row
  of partial sums along an enumeration of the callers ends in the total, and
  that the row is nondecreasing and rises only at a positive summand. Three lemmas
  are then enough, each without induction: such a row exists for zeros
  (`SumOfZeros`), when one summand changes the row changes from there on
  (`SumChanges`), and a sum of zeros is zero (`SumVanishes`). `CallerStep`
  carries the argument and each action of a caller cites it. That a reservation
  is the maximum of its call (`Overrun = 0`) is a premise of the two properties
  themselves; that the callers are finite in number is in `BudgetAssumption`.

For any number of tasks, agents, mishaps and pushes:

* `TypeCorrect`, `InvHolds` and `HandedOut`, from `Inv`. The server decides in a
  clone that may be out of date, so nothing it reads proves anything about
  origin; the argument goes through git. `InSync`: a clone agrees with origin
  wherever it has no commit of its own and origin no news. A push goes through
  only from a clone without news, so what it overwrites is what the clone knew.
  `ServerOpen`: what the server has committed was open, in its own history and,
  once it has no news, in origin; what it knows to be taken up or settled it
  leaves alone but for the Owner's skip, which is why `nextTask` cannot pick it.
  `AgentNeverClaims` is the same for agents, who push what their sessions wrote.
  `ClaimInHand` ties the claim being pushed to its commit. One lemma for each
  kind of git command (`PullKeeps`, `PushKeeps`, `ServerPush`, `AgentPush`)
  carries the argument, and each action cites one of them.
* `OneRunnerHolds`, `RunRecorded` and `DoneSettled`, from `Inv` and `Runs`. What a
  run holds is its lease, so the invariant says what a lease that has not ended
  keeps true (`RunHeld`): origin and the files of the server show the task as
  claimed or in progress, so the server neither claims it again nor reverts it,
  and no commit about it waits there. The other agents are the harder half. One
  that has left the task may still hold a commit about it; its clone is behind
  origin on that task since the hand-out (`Held`, last conjunct), and git refuses
  the push. `OwnCommits` confines each run to its own file, `DoneKept` says that a
  session which pushed done sees done itself, so that what takes it back is the
  verdict of the runner. A run that outlives its lease or its final status leaves
  the premise of all three (`outlived`), as the properties say.
* The assumptions are `QueueAssumption`: the server is not an agent, code is not
  a task, the rest is types.

For any number of requests under way and of faults (`RunnerControlProofs`):

* `ControlTyped`, `IdleMeansIdle`, `RunningMeansOpen`, `SnapshotAgrees` and
  `HaltKept`, from `ControlInv`. What the server shows depends on the order in
  which requests are accepted, so the invariant is about the wire: at most one
  awaited request of the claim loop, and after it heartbeats only (`AskLast`); no
  result before an announcement (`StatesFirst`), since the loop announces the
  next task only when the last result was answered or refused -- and a refused
  one, given up, sits before what comes later and falls with it. Losing,
  abandoning and refusing requests thin the wire (`Thinner`), and one lemma says
  that thinning keeps all of this (`ThinFacts`).

For any assets, callers and requests (`OwnerRecordsProofs`):

* `RecordsTyped`, `OwnerAccepts`, `ValidationComplete`, `LastDecision`,
  `StatusIsHistory` and `NoSecondDecision`, from `AssetsInv`. It adds what a call
  between its read and its write knows (`Checked`): its request was permitted in
  the status it saw, and if that was accepted, the Owner had accepted
  (`SeenAccepted`), which no later event undoes.
* `MandatesNumbered`, from `MandateInv`: the versions in the table are 1..n, and
  nobody is about to insert one above n + 1.

For any tasks, employees, Skills, retries, edits and crashes
(`SpecialistWorkProofs`):

* `WorkTyped`, `PromptsAreTrue`, `TrailReplays` and `LinksShowDecks`, from
  `WorkInv`. `DeskInv` says that no task in the queue or in a run has still to
  move its file, which is what the order of `POST /tasks` is for; `TrailInv` that
  an event yet to be written tells the truth about the row; `PromptInv` that what
  a prompt will read still has the digest of the resolution, or was rewritten;
  `SiteInv` is `LinkShowsItsDeck` with what makes it last: the sites that the run
  under way has made show its deck, so its report can link them, and while it
  publishes, whoever links that name is overtaken.

Every safety property that a passing run checks is proved. Only model-checked are
the liveness properties, which are out of the prover's reach: `QueuedIsTaken`,
`SubmittedIsAnswered`, `QueueMoves` and `EmergencyStops`.
The inductive invariants were checked by TLC on the instances of the runs before
they were proved.

## Not checked

What the models show of the code beyond the runs, each where it stands:

* `lifecycle.py:600`: the run of a retry ends in `create_report`, whose insert
  meets the draft's row and raises: the task is delivered with a failed run and a
  report that still says needs_owner_review, although `store.py:568-571` says
  such a task updates its row.
* `main.py:537`: a proposal is rejected before its task's transition is checked
  and whatever its own status: one already approved is left rejected while its
  task goes on, against `main.py:531`. Approving twice writes a second
  provisioning task.
* `worker.py:55`: a draft is retried while an acceptance of it, already checked, is
  still to write; the second run exhausts the budget, its handler reads a status
  that is not settled, the acceptance settles it, and the handler's transition
  raises where nothing catches it. The worker thread is gone, nothing queued runs
  and the task is shown as running until a restart. `WorkerSurvives`,
  `RunningIsOwned` and the liveness properties are therefore checked for one
  request at a time.
* `model_provider.py:106`: a provider call that raises keeps its reservation for
  good, against ADR-0016 ("never silently forgotten").
* `store.py:1352`: two overlapping acceptances of one asset both write
  owner_accepted, and a progress note that overlaps a validation puts the status
  back to accepted while the history says validated; hence `stale`. Two
  overlapping mandates get one version; hence `crossed`.
* With an agent, the server never shows paused, pause_requested, stop_requested
  or completed, so `resume` is refused with 409 and only `start` resumes
  (`control_server.js:352`, `:363`). No event of the server leaves
  waiting_for_limit, waiting_for_owner, authentication_required or failed, so a
  pause is refused while the agent works on; and after a restart of the server
  memory says stopped and the file what it said before, until a command or a
  result moves both.
* The server never forgets its command. A pause acknowledged at a safe point is
  mirrored again by the next heartbeat; if that one is late or lost, the claim
  loop takes the task up with no resume. `HaltIsKept` therefore speaks of a
  command the agent has from its last heartbeat (`told`). An old emergency_stop
  interrupts later sessions in the same way.
* `employees.py:27`: a crash in the startup loses audit events for good; `lost`.
* `main.py:629-634`: when `mkdir` or the move of the attachment raises, the
  request answers 500 over a row that is already queued, and no thread will run it
  before the next start of the server (`stranded` in `NoLostTask`). That start, like
  the one after a crash in the same place, runs the task with its file still in
  staging, and the prompt says that nothing was attached (`torn`), although
  `worker.py:107` calls a queued task "always safe to requeue" exactly as it is.
* `lifecycle.py:54`: an entrypoint rewritten during a run is used unverified;
  `rewritten`.
* `tools.py:605-647` is outside the `try` above it: a failed rendering leaves the
  half-built scratch directory, although `tools.py:522-523` says "Everything from
  here through publish is wrapped". Site names are chosen by the model and not
  reserved: a later task replaces an earlier one's site, or removes it when its
  publication fails. So does a retried run of the same task: it publishes anew,
  perhaps another deck, its report is refused, and the first report's link shows
  what it left. `LinkShowsItsDeck` is stated accordingly. The
  digests in that report are those of the first run, too.
* A Skill that cannot be resolved is logged as `resolution_failure` under the
  employee's first reference, whichever of them failed (`lifecycle.py:423`).

## Not modelled

Rendering, routing and the cookie check (no state); execution events, plans and
clarifications (no guard reads them); documents, spreadsheets and web search
(they write or read nothing another part depends on); start-up migration. The
content of prompts, drafts and reports, and money as dollars, are left out: a
model's answer is which branch it takes. Of the Skills, manifest syntax, version
ranges (`resolve_compatible_version` has no caller in a run) and the listing.

In `SpecialistWork` the queue is a set and the task's statuses are one outcome:
order and statuses are `ProductTask`'s. A retry there comes after its run has
ended; one that overlaps the end of the run is `LostRetry`'s. A worker thread that
has died (`worker.py:55`) is `ProductTask`'s, too.

Errors of the database itself (locked, disk full) inside a request are left out in
both: of the calls of `POST /tasks`, `mkdir` and the move may raise.

In the automation half: priorities, queue order and retry times (any eligible
task may come first, at any time), registration and the locks, the runner's
stand-alone main loop, which production replaced by the agent, deployment
requests, usage and logs; how a session's output is classified.

`claude_task_runner.js:491` (the gates of `execute` leave the tree dirty) has no
property: the agent then waits for a human, which is the premise of `QueueMoves`.

## Plan

1. Done: `ProductTask` with its contract, `BudgetLedger`, `AutomationQueue`,
   `OwnerRecords`, `RunnerControl` and `SpecialistWork`, each with its runs and
   proofs.
2. Done: proofs of every safety property, and the refinement of the contract.
3. `SessionDecision`: session outcomes, handoffs, stages and the next action, as
   operators against a definition; reorder and registration on the control server.
