----------------------------- MODULE ProductTask -----------------------------
(***************************************************************************)
(* The ProductTask side of Ego OS: the SQLite rows of ego_os/store.py, the *)
(* background worker thread of ego_os/worker.py running ego_os/lifecycle.  *)
(* py's Task Lifecycle, the Owner's routes of ego_os/main.py and the       *)
(* start-up recovery.                                                      *)
(*                                                                         *)
(* Every function of store.py opens a connection of its own and commits    *)
(* before it returns, and Python's sqlite3 opens a transaction only before *)
(* the first INSERT or UPDATE.  So one statement is one atomic step: a     *)
(* create_* or set_* is one step, and update_task_status is two, the       *)
(* SELECT that checks the transition and the UPDATE that makes it.         *)
(* FastAPI runs the synchronous route handlers on a thread pool: their     *)
(* steps interleave with each other's and with the worker's.  A crash      *)
(* loses the queue and every thread, never a committed row.                *)
(***************************************************************************)
EXTENDS Integers, Sequences

CONSTANTS
    Tasks,            \* ids of the tasks table
    Proposals,        \* ids of the employee_proposals table
    Requests,         \* threads of the pool that serves the Owner's requests
    Specialists,      \* employees the Orchestrator can staff (EXECUTION_CAPABILITY)
    OwnerOps,         \* the routes the Owner uses, a subset of Ops
    Faults,           \* what may go wrong, a subset of FaultKinds
    MaxCrashes,       \* bound: crashes of the server
    MaxRows,          \* bound: below it, an acceptance or approval adds another row
    MaxQueue,         \* bound: below it, a retry adds to the queue
    NoTask, NoProposal, NoSpecialist

ReviewOps == {"accept", "retry", "close"}
DecideOps == {"approve", "reject"}
Ops == ReviewOps \cup DecideOps

\* In a run: a BudgetError, any other exception out of a model or tool call, a
\* SkillError.  In submit_task: the attachment's mkdir or move raises.
FaultKinds == {"budget", "error", "skill", "upload"}

ASSUME ConstantsAssumption ==
    /\ NoTask \notin Tasks
    /\ NoProposal \notin Proposals
    /\ NoSpecialist \notin Specialists
    /\ Specialists \cap {"orchestrator", "qa"} = {}
    /\ OwnerOps \subseteq Ops
    /\ Faults \subseteq FaultKinds
    /\ MaxCrashes \in Nat
    /\ MaxRows \in Nat
    /\ MaxQueue \in Nat

VARIABLES
    \* rows of the database
    status,       \* tasks.status, "none" while the row does not exist
    run_state,    \* tasks.run_state
    report,       \* reports.terminal_status of the task's row, or "none"
    memory,       \* number of rows of the memory table about the task
    proposal,     \* employee_proposals: task_id and status
    provisioned,  \* number of employee_provisioning_tasks of a proposal
    assigned,     \* employees whose status is 'assigned'
    \* the server process
    server,       \* where the process is in its start-up
    queue,        \* worker._queue
    pc,           \* next step of the worker thread
    cur,          \* the task the worker thread has in hand
    staffed,      \* the specialist the Orchestrator chose for it
    revised,      \* whether this run has used its automatic revision
    checked,      \* whether the worker is between the SELECT and the UPDATE
    req,          \* what each request thread is doing
    \* history
    stranded,     \* tasks whose submit_task raised, since the server last started
    crashes       \* crashes so far

rows == <<status, run_state, report, memory, proposal, provisioned, assigned>>
worker == <<pc, cur, staffed, revised, checked>>
history == <<stranded, crashes>>
vars == <<status, run_state, report, memory, proposal, provisioned, assigned,
          server, queue, pc, cur, staffed, revised, checked, req, stranded, crashes>>

-----------------------------------------------------------------------------
(* The status column and its transition table. *)

InFlight == {"intake", "waiting_for_clarification", "planning", "staffing",
             "execution", "qa", "revision"}
Gap == {"awaiting_approval", "gap_approved"}
Terminal == {"delivered", "failed", "cancelled", "needs_owner_review", "gap_rejected"}
Statuses == InFlight \cup Gap \cup Terminal

TaskTransitions ==
    {<<"intake", "waiting_for_clarification">>, <<"intake", "planning">>,
     <<"waiting_for_clarification", "planning">>, <<"planning", "staffing">>,
     <<"staffing", "execution">>, <<"staffing", "awaiting_approval">>,
     <<"awaiting_approval", "gap_approved">>, <<"awaiting_approval", "gap_rejected">>,
     <<"gap_approved", "planning">>, <<"execution", "qa">>,
     <<"qa", "delivered">>, <<"qa", "revision">>, <<"qa", "needs_owner_review">>,
     <<"revision", "qa">>, <<"revision", "planning">>,
     <<"needs_owner_review", "delivered">>, <<"needs_owner_review", "revision">>,
     <<"needs_owner_review", "cancelled">>}
    \cup InFlight \X {"failed"}

(* Mutant: update_task_status without its check. *)
CanAlwaysMove(t, new) == status[t] # "none" /\ new \in Statuses

(* Mutant: a table without the rows that lead to failed. *)
CanMoveButFail(t, new) ==
    status[t] = new \/ (new # "failed" /\ <<status[t], new>> \in TaskTransitions)

(* The check of update_task_status: a move that fails it raises. *)
CanMove(t, new) == status[t] = new \/ <<status[t], new>> \in TaskTransitions

-----------------------------------------------------------------------------
(* Control points. *)

RunStates == {"none", "queued", "running", "completed", "failed"}
WorkerSteps ==
    {"idle", "check", "claim", "planning", "staffing", "select", "draft_proposal",
     "propose", "await", "skills", "skill_status", "skill_report", "execution",
     "work", "qa", "review", "revision", "escalate", "escalate_report", "deliver",
     "deliver_report", "remember", "complete", "error",
     "budget", "budget_status", "budget_report", "budget_insert", "budget_end", "dead"}
RequestSteps == {"idle", "status", "write", "amend", "remember", "rearm", "enqueue",
                 "provision", "report"}
Idle == [op |-> "none", step |-> "idle", task |-> NoTask, prop |-> NoProposal]
RequestStates == [op : Ops \cup {"submit", "none"}, step : RequestSteps,
                  task : Tasks \cup {NoTask}, prop : Proposals \cup {NoProposal}]
NoRow == [task |-> NoTask, status |-> "none"]
ProposalRows == [task : Tasks, status : {"pending", "approved", "rejected"}]

TypeOK ==
    /\ status \in [Tasks -> Statuses \cup {"none"}]
    /\ run_state \in [Tasks -> RunStates]
    /\ report \in [Tasks -> Terminal \cup {"none"}]
    /\ memory \in [Tasks -> Nat]
    /\ proposal \in [Proposals -> ProposalRows \cup {NoRow}]
    /\ provisioned \in [Proposals -> Nat]
    /\ assigned \subseteq {"orchestrator", "qa"} \cup Specialists
    /\ server \in {"down", "recover_running", "recover_queued", "up"}
    /\ queue \in Seq(Tasks)
    /\ pc \in WorkerSteps
    /\ cur \in Tasks \cup {NoTask}
    /\ staffed \in Specialists \cup {NoSpecialist}
    /\ revised \in BOOLEAN
    /\ checked \in BOOLEAN
    /\ req \in [Requests -> RequestStates]
    /\ stranded \subseteq Tasks
    /\ crashes \in 0..MaxCrashes

Init ==
    /\ status = [t \in Tasks |-> "none"]
    /\ run_state = [t \in Tasks |-> "none"]
    /\ report = [t \in Tasks |-> "none"]
    /\ memory = [t \in Tasks |-> 0]
    /\ proposal = [p \in Proposals |-> NoRow]
    /\ provisioned = [p \in Proposals |-> 0]
    /\ assigned = {}
    /\ server = "down"
    /\ queue = <<>>
    /\ pc = "idle"
    /\ cur = NoTask
    /\ staffed = NoSpecialist
    /\ revised = FALSE
    /\ checked = FALSE
    /\ req = [r \in Requests |-> Idle]
    /\ stranded = {}
    /\ crashes = 0

-----------------------------------------------------------------------------
(* The worker thread takes a task from the queue (process_one, first half). *)

Take ==
    /\ server = "up" /\ pc = "idle" /\ queue # <<>>
    /\ cur' = Head(queue)
    /\ queue' = Tail(queue)
    /\ pc' = "check"
    /\ UNCHANGED <<rows, server, staffed, revised, checked, req, history>>

ReadRow ==
    /\ pc = "check"
    /\ IF run_state[cur] = "queued"
       THEN pc' = "claim" /\ UNCHANGED cur
       ELSE pc' = "idle" /\ cur' = NoTask
    /\ UNCHANGED <<rows, server, queue, staffed, revised, checked, req, history>>

Claim ==
    /\ pc = "claim"
    /\ run_state' = [run_state EXCEPT ![cur] = "running"]
    /\ pc' = "planning"
    /\ UNCHANGED <<status, report, memory, proposal, provisioned, assigned,
                   server, queue, cur, staffed, revised, checked, req, history>>

(* Where the worker calls update_task_status, and with which new status. *)
Moves == [planning |-> "planning", staffing |-> "staffing", await |-> "awaiting_approval",
          skill_status |-> "failed", execution |-> "execution", qa |-> "qa",
          revision |-> "revision", escalate |-> "needs_owner_review",
          deliver |-> "delivered", budget_status |-> "failed"]

(* Before the two updates that end a run, the specialist and the QA        *)
(* Reviewer are set back to idle.                                          *)
Released == IF pc \in {"escalate", "deliver"} THEN assigned \ {staffed, "qa"} ELSE assigned

(* The SELECT.  A refused move ends the run; raised inside process_one's   *)
(* BudgetError handler it is outside every handler of process_one and of   *)
(* _worker_loop, and the worker thread is gone.                            *)
CheckMove ==
    /\ pc \in DOMAIN Moves /\ ~checked
    /\ assigned' = Released
    /\ IF CanMove(cur, Moves[pc])
       THEN checked' = TRUE /\ UNCHANGED pc
       ELSE /\ pc' = IF pc = "budget_status" THEN "dead" ELSE "error"
            /\ UNCHANGED checked
    /\ UNCHANGED <<status, run_state, report, memory, proposal, provisioned,
                   server, queue, cur, staffed, revised, req, history>>

(* The UPDATE, and the set_employee_status calls that follow it. *)
MoveStatus(at, next, staff) ==
    /\ pc = at /\ checked
    /\ status' = [status EXCEPT ![cur] = Moves[at]]
    /\ assigned' = staff
    /\ pc' = next
    /\ checked' = FALSE
    /\ UNCHANGED <<run_state, report, memory, proposal, provisioned,
                   server, queue, cur, staffed, revised, req, history>>

(* Mutant: INSERT OR REPLACE. *)
ReplaceReport(at, outcome, next, raise, staff) ==
    /\ pc = at
    /\ report' = [report EXCEPT ![cur] = outcome]
    /\ assigned' = staff
    /\ pc' = next
    /\ UNCHANGED <<checked, status, run_state, memory, proposal, provisioned,
                   server, queue, cur, staffed, revised, req, history>>

(* One create_report of the run: the second row for a task is refused by   *)
(* the primary key of reports, and the exception ends the run.             *)
InsertReport(at, outcome, next, raise, staff) ==
    /\ pc = at
    /\ IF report[cur] = "none"
       THEN /\ report' = [report EXCEPT ![cur] = outcome]
            /\ assigned' = staff
            /\ pc' = next
       ELSE /\ pc' = raise
            /\ UNCHANGED <<report, assigned>>
    /\ UNCHANGED <<checked, status, run_state, memory, proposal, provisioned,
                   server, queue, cur, staffed, revised, req, history>>

(* Where a model call leads when it does not answer. *)
Outages == Faults \cap {"budget", "error"}

-----------------------------------------------------------------------------
(* Planning and staffing (lifecycle.run). *)

Plan == MoveStatus("planning", "staffing", assigned \cup {"orchestrator"})

Staff == MoveStatus("staffing", "select", assigned)

SelectSpecialist ==
    /\ pc = "select"
    /\ \/ \E s \in Specialists : staffed' = s /\ pc' = "skills"
       \/ pc' \in {"draft_proposal"} \cup Outages /\ UNCHANGED staffed
    /\ UNCHANGED <<rows, server, queue, cur, revised, checked, req, history>>

DraftProposal ==
    /\ pc = "draft_proposal"
    /\ pc' \in {"propose"} \cup Outages
    /\ UNCHANGED <<rows, server, queue, cur, staffed, revised, checked, req, history>>

Propose ==
    /\ pc = "propose"
    /\ \E p \in Proposals :
          /\ proposal[p] = NoRow
          /\ proposal' = [proposal EXCEPT ![p] = [task |-> cur, status |-> "pending"]]
    /\ pc' = "await"
    /\ UNCHANGED <<status, run_state, report, memory, provisioned, assigned,
                   server, queue, cur, staffed, revised, checked, req, history>>

(* Mutant: the gap returns without setting the orchestrator back to idle. *)
AwaitAssigned == MoveStatus("await", "complete", assigned)

AwaitApproval == MoveStatus("await", "complete", assigned \ {"orchestrator"})

(* _resolve_employee_skills, before any model call by the specialist. *)
ResolveSkills ==
    /\ pc = "skills"
    /\ pc' \in {"execution"} \cup {"skill_status" : f \in Faults \cap {"skill"}}
    /\ UNCHANGED <<rows, server, queue, cur, staffed, revised, checked, req, history>>

FailSkills == MoveStatus("skill_status", "skill_report", assigned)

(* The SkillError is raised again after the report. *)
ReportSkillFailure ==
    InsertReport("skill_report", "failed", "error", "error", assigned \ {"orchestrator"})

-----------------------------------------------------------------------------
(* Execution, the QA gate and delivery (lifecycle.run). *)

Execute == MoveStatus("execution", "work", assigned \cup {staffed})

(* _run_specialist: one or two model calls around at most one tool call. *)
Work ==
    /\ pc = "work"
    /\ pc' \in {"qa"} \cup Outages
    /\ UNCHANGED <<rows, server, queue, cur, staffed, revised, checked, req, history>>

SendToQA == MoveStatus("qa", "review", assigned \cup {"qa"})

(* PASS delivers, the first REVISE buys one revision, the second REVISE or *)
(* a malformed verdict goes to the Owner.                                  *)
Review ==
    /\ pc = "review"
    /\ \/ pc' = "deliver" /\ UNCHANGED revised
       \/ ~revised /\ pc' = "revision" /\ revised' = TRUE
       \/ pc' \in {"escalate"} \cup Outages /\ UNCHANGED revised
    /\ UNCHANGED <<rows, server, queue, cur, staffed, checked, req, history>>

Revise == MoveStatus("revision", "work", assigned)

Escalate == MoveStatus("escalate", "escalate_report", assigned \ {"orchestrator"})

ReportDraft == 
    InsertReport("escalate_report", "needs_owner_review", "complete", "error", assigned)

Deliver == MoveStatus("deliver", "deliver_report", assigned \ {"orchestrator"})

ReportDelivery == 
    InsertReport("deliver_report", "delivered", "remember", "error", assigned)

Remember ==
    /\ pc = "remember"
    /\ memory' = [memory EXCEPT ![cur] = @ + 1]
    /\ pc' = "complete"
    /\ UNCHANGED <<status, run_state, report, proposal, provisioned, assigned,
                   server, queue, cur, staffed, revised, checked, req, history>>

-----------------------------------------------------------------------------
(* How a run ends (process_one, second half). *)

(* except BudgetError: fail the task and report it, unless it is terminal. *)
BudgetCheck ==
    /\ pc = "budget"
    /\ pc' = IF status[cur] \in Terminal THEN "budget_end" ELSE "budget_status"
    /\ UNCHANGED <<rows, server, queue, cur, staffed, revised, checked, req, history>>

BudgetFail == MoveStatus("budget_status", "budget_report", assigned)

BudgetReport ==
    /\ pc = "budget_report"
    /\ pc' = IF report[cur] = "none" THEN "budget_insert" ELSE "budget_end"
    /\ UNCHANGED <<rows, server, queue, cur, staffed, revised, checked, req, history>>

BudgetInsert == InsertReport("budget_insert", "failed", "budget_end", "dead", assigned)

(* Mutant: process_one swallows the exception. *)
EndsAlike == [complete |-> "completed", error |-> "completed", budget_end |-> "failed"]

Ends == [complete |-> "completed", error |-> "failed", budget_end |-> "failed"]

Finish ==
    /\ pc \in DOMAIN Ends
    /\ run_state' = [run_state EXCEPT ![cur] = Ends[pc]]
    /\ pc' = "idle"
    /\ cur' = NoTask
    /\ staffed' = NoSpecialist
    /\ revised' = FALSE
    /\ UNCHANGED <<status, report, memory, proposal, provisioned, assigned,
                   server, queue, checked, req, history>>

Pipeline ==
    \/ CheckMove \/ Plan \/ Staff \/ SelectSpecialist \/ DraftProposal \/ Propose \/ AwaitApproval
    \/ ResolveSkills \/ FailSkills \/ ReportSkillFailure
    \/ Execute \/ Work \/ SendToQA \/ Review \/ Revise
    \/ Escalate \/ ReportDraft \/ Deliver \/ ReportDelivery \/ Remember

Worker ==
    \/ Take \/ ReadRow \/ Claim \/ Pipeline
    \/ BudgetCheck \/ BudgetFail \/ BudgetReport \/ BudgetInsert \/ Finish

-----------------------------------------------------------------------------
(* The Owner's routes.  A request thread is between two calls of store.py. *)

Target == [accept |-> "delivered", retry |-> "revision", close |-> "cancelled",
           approve |-> "gap_approved", reject |-> "gap_rejected"]

\* The step after a successful update_task_status.
AfterMove == [accept |-> "amend", retry |-> "rearm", close |-> "amend",
              approve |-> "provision", reject |-> "report"]

Goto(r, step) == req' = [req EXCEPT ![r].step = step]
Reply(r) == req' = [req EXCEPT ![r] = Idle]

(* submit_task: create_task, then the attachment, then worker.enqueue. *)
Submit(r, t) ==
    /\ server = "up" /\ req[r] = Idle /\ status[t] = "none"
    /\ status' = [status EXCEPT ![t] = "intake"]
    /\ run_state' = [run_state EXCEPT ![t] = "queued"]
    /\ req' = [req EXCEPT ![r] = [Idle EXCEPT !.op = "submit", !.step = "enqueue", !.task = t]]
    /\ UNCHANGED <<report, memory, proposal, provisioned, assigned,
                   server, queue, worker, history>>

(* accept_draft, retry_after_review, close_task: the check of the status. *)
OpenReview(r, t, op) ==
    /\ server = "up" /\ req[r] = Idle /\ op \in OwnerOps \cap ReviewOps
    /\ status[t] = "needs_owner_review"
    /\ op = "retry" => Len(queue) < MaxQueue
    /\ op = "accept" => memory[t] < MaxRows
    /\ req' = [req EXCEPT ![r] = [Idle EXCEPT !.op = op, !.step = "status", !.task = t]]
    /\ UNCHANGED <<rows, server, queue, worker, history>>

(* approve_proposal, reject_proposal: the proposal is updated first, and   *)
(* whatever its status was.                                                *)
DecideProposal(r, p, op) ==
    /\ server = "up" /\ req[r] = Idle /\ op \in OwnerOps \cap DecideOps
    /\ proposal[p] # NoRow
    /\ op = "approve" => provisioned[p] < MaxRows
    /\ proposal' = [proposal EXCEPT
                      ![p].status = IF op = "approve" THEN "approved" ELSE "rejected"]
    /\ req' = [req EXCEPT ![r] = [Idle EXCEPT !.op = op, !.step = "status",
                                              !.task = proposal[p].task, !.prop = p]]
    /\ UNCHANGED <<status, run_state, report, memory, provisioned, assigned,
                   server, queue, worker, history>>

(* Mutant: a route that goes on after a refused move. *)
IgnoreRefusal(r) ==
    /\ req[r].step = "status"
    /\ Goto(r, IF CanMove(req[r].task, Target[req[r].op]) THEN "write"
               ELSE AfterMove[req[r].op])
    /\ UNCHANGED <<rows, server, queue, worker, history>>

(* update_task_status in a route: a refused move ends the request. *)
CheckTask(r) ==
    /\ req[r].step = "status"
    /\ IF CanMove(req[r].task, Target[req[r].op]) THEN Goto(r, "write") ELSE Reply(r)
    /\ UNCHANGED <<rows, server, queue, worker, history>>

MoveTask(r) ==
    /\ req[r].step = "write"
    /\ status' = [status EXCEPT ![req[r].task] = Target[req[r].op]]
    /\ Goto(r, AfterMove[req[r].op])
    /\ UNCHANGED <<run_state, report, memory, proposal, provisioned, assigned,
                   server, queue, worker, history>>

(* Mutant: close_task writes memory like accept_draft. *)
AmendAndRemember(r) ==
    /\ req[r].step = "amend"
    /\ report' = [report EXCEPT ![req[r].task] = IF @ = "none" THEN @ ELSE Target[req[r].op]]
    /\ Goto(r, "remember")
    /\ UNCHANGED <<status, run_state, memory, proposal, provisioned, assigned,
                   server, queue, worker, history>>

(* update_report_terminal_outcome: raises while the task has no report. *)
AmendReport(r) ==
    /\ req[r].step = "amend"
    /\ IF report[req[r].task] = "none"
       THEN Reply(r) /\ UNCHANGED report
       ELSE /\ report' = [report EXCEPT ![req[r].task] = Target[req[r].op]]
            /\ IF req[r].op = "accept" THEN Goto(r, "remember") ELSE Reply(r)
    /\ UNCHANGED <<status, run_state, memory, proposal, provisioned, assigned,
                   server, queue, worker, history>>

RememberAcceptance(r) ==
    /\ req[r].step = "remember"
    /\ memory' = [memory EXCEPT ![req[r].task] = @ + 1]
    /\ Reply(r)
    /\ UNCHANGED <<status, run_state, report, proposal, provisioned, assigned,
                   server, queue, worker, history>>

Rearm(r) ==
    /\ req[r].step = "rearm"
    /\ run_state' = [run_state EXCEPT ![req[r].task] = "queued"]
    /\ Goto(r, "enqueue")
    /\ UNCHANGED <<status, report, memory, proposal, provisioned, assigned,
                   server, queue, worker, history>>

Enqueue(r) ==
    /\ req[r].step = "enqueue"
    /\ queue' = Append(queue, req[r].task)
    /\ Reply(r)
    /\ UNCHANGED <<rows, server, worker, history>>

(* submit_task raises over the attachment: the row stays queued, the       *)
(* worker is never told.                                                   *)
SubmitFails(r) ==
    /\ "upload" \in Faults
    /\ req[r].step = "enqueue" /\ req[r].op = "submit"
    /\ stranded' = stranded \cup {req[r].task}
    /\ Reply(r)
    /\ UNCHANGED <<rows, server, queue, worker, crashes>>

Provision(r) ==
    /\ req[r].step = "provision"
    /\ provisioned' = [provisioned EXCEPT ![req[r].prop] = @ + 1]
    /\ Reply(r)
    /\ UNCHANGED <<status, run_state, report, memory, proposal, assigned,
                   server, queue, worker, history>>

(* Mutant: the proposal's word for the outcome instead of the task's. *)
ReportRejected(r) ==
    /\ req[r].step = "report"
    /\ report' = [report EXCEPT ![req[r].task] = IF @ = "none" THEN "rejected" ELSE @]
    /\ Reply(r)
    /\ UNCHANGED <<status, run_state, memory, proposal, provisioned, assigned,
                   server, queue, worker, history>>

(* create_report in reject_proposal: refused if the task has a report. *)
ReportRejection(r) ==
    /\ req[r].step = "report"
    /\ report' = [report EXCEPT ![req[r].task] = IF @ = "none" THEN "gap_rejected" ELSE @]
    /\ Reply(r)
    /\ UNCHANGED <<status, run_state, memory, proposal, provisioned, assigned,
                   server, queue, worker, history>>

Continue(r) ==
    \/ CheckTask(r) \/ MoveTask(r) \/ AmendReport(r) \/ RememberAcceptance(r) \/ Rearm(r)
    \/ Enqueue(r) \/ SubmitFails(r) \/ Provision(r) \/ ReportRejection(r)

Owner(r) ==
    \/ \E t \in Tasks : Submit(r, t)
    \/ \E t \in Tasks, op \in ReviewOps : OpenReview(r, t, op)
    \/ \E p \in Proposals, op \in DecideOps : DecideProposal(r, p, op)
    \/ Continue(r)

-----------------------------------------------------------------------------
(* The process stops, by a crash or a restart, and starts again. *)

Crash ==
    /\ server # "down" /\ crashes < MaxCrashes
    /\ crashes' = crashes + 1
    /\ server' = "down"
    /\ queue' = <<>>
    /\ pc' = "idle" /\ cur' = NoTask /\ staffed' = NoSpecialist
    /\ revised' = FALSE /\ checked' = FALSE
    /\ req' = [r \in Requests |-> Idle]
    /\ stranded' = {}
    /\ UNCHANGED rows

Boot ==
    /\ server = "down"
    /\ server' = "recover_running"
    /\ UNCHANGED <<rows, queue, worker, req, history>>

(* recover_interrupted_tasks, first loop: a run cut short is failed. *)
RecoverRunning(t) ==
    /\ server = "recover_running" /\ run_state[t] = "running"
    /\ run_state' = [run_state EXCEPT ![t] = "failed"]
    /\ UNCHANGED <<status, report, memory, proposal, provisioned, assigned,
                   server, queue, worker, req, history>>

(* Mutant: recovery skips the interrupted runs. *)
RecoverNothing ==
    /\ server = "recover_running"
    /\ server' = "recover_queued"
    /\ UNCHANGED <<rows, queue, worker, req, history>>

RunningRecovered ==
    /\ server = "recover_running" /\ \A t \in Tasks : run_state[t] # "running"
    /\ server' = "recover_queued"
    /\ UNCHANGED <<rows, queue, worker, req, history>>

InQueue(t) == \E i \in 1..Len(queue) : queue[i] = t

(* Second loop: a task that never started is queued again, once. *)
RecoverQueued(t) ==
    /\ server = "recover_queued" /\ run_state[t] = "queued" /\ ~InQueue(t)
    /\ queue' = Append(queue, t)
    /\ UNCHANGED <<rows, server, worker, req, history>>

(* Mutant: recovery skips the queued tasks. *)
ServeAtOnce ==
    /\ server = "recover_queued"
    /\ server' = "up"
    /\ UNCHANGED <<rows, queue, worker, req, history>>

(* worker.start, after which the server accepts requests. *)
Serve ==
    /\ server = "recover_queued" /\ \A t \in Tasks : run_state[t] = "queued" => InQueue(t)
    /\ server' = "up"
    /\ UNCHANGED <<rows, queue, worker, req, history>>

Recovery ==
    \/ Boot \/ RunningRecovered \/ Serve
    \/ \E t \in Tasks : RecoverRunning(t) \/ RecoverQueued(t)

-----------------------------------------------------------------------------
Next ==
    \/ Worker
    \/ \E r \in Requests : Owner(r)
    \/ Recovery
    \/ Crash

Spec == Init /\ [][Next]_vars

(* The worker thread runs, a started handler ends and systemd restarts     *)
(* the process; nobody has to make a request and nothing has to crash.     *)
Fairness ==
    /\ WF_vars(Worker)
    /\ \A r \in Requests : WF_vars(Continue(r))
    /\ WF_vars(Recovery)

FairSpec == Spec /\ Fairness

-----------------------------------------------------------------------------
(* Safety. *)

(* A task the database calls queued is somewhere it can be run from: in    *)
(* the queue, in the hands of a request thread that is about to enqueue    *)
(* it, or just taken by the worker.  The queue is memory only, so this is  *)
(* what submit_task, retry_after_review and recover_interrupted_tasks have *)
(* to keep true together, across crashes.  The one exception: a submit_task*)
(* that raised over its attachment has left its row queued, and nobody     *)
(* will run it before the next start of the server, which ends the         *)
(* exception.                                                              *)
Enqueuing(t) == \E r \in Requests : req[r].step = "enqueue" /\ req[r].task = t
Taken(t) == cur = t /\ pc \in {"check", "claim"}
NoLostTask ==
    server = "up" => \A t \in Tasks :
        run_state[t] = "queued" =>
            InQueue(t) \/ Enqueuing(t) \/ Taken(t) \/ t \in stranded

(* A task shown as running is the one the living worker thread has in      *)
(* hand: no run that a crash cut short is still shown as running once the  *)
(* server serves again (recover_interrupted_tasks), no task is run twice   *)
(* at a time, and no thread died over the one it had.  The last needs the  *)
(* Owner's requests one at a time, as WorkerSurvives does.                 *)
RunningIsOwned ==
    server = "up" => \A t \in Tasks :
        run_state[t] = "running" =>
            cur = t /\ pc \notin {"idle", "check", "claim", "dead"}

(* The report never claims an outcome the task does not have, although a   *)
(* draft's report may be out of date.  Two writers set the status and the  *)
(* report in separate transactions, in either order of the worker's and    *)
(* the Owner's steps.                                                      *)
ReportIsTrue ==
    \A t \in Tasks : report[t] \in {"none", "needs_owner_review", status[t]}

(* Memory is written about delivered tasks only, and once                  *)
(* (create_memory_entry follows the delivery in the worker and in          *)
(* accept_draft).                                                          *)
MemoryOfDelivered ==
    \A t \in Tasks : memory[t] > 0 => status[t] = "delivered" /\ memory[t] = 1

(* Between runs, an employee is still shown as assigned only if some run   *)
(* failed: every way out of lifecycle.run that is not an exception sets    *)
(* everyone it assigned back to idle.                                      *)
EmployeesReleased ==
    (pc = "idle" /\ crashes = 0 /\ \A t \in Tasks : run_state[t] # "failed") => assigned = {}

(* Employees are provisioned only for a task whose gap the Owner approved, *)
(* and never for one that ended in gap_rejected, in whatever order and     *)
(* however often approve_proposal and reject_proposal are called.          *)
ProvisionedIsApproved ==
    \A p \in Proposals : provisioned[p] > 0 => status[proposal[p].task] = "gap_approved"

(* The worker thread survives as long as the Owner's requests come one at  *)
(* a time: the transition in process_one's BudgetError handler, which      *)
(* nothing catches, is never refused then.                                 *)
WorkerSurvives == pc # "dead"

(* A run that ends as completed leaves the task with an outcome or with    *)
(* the Owner, never in the middle of the pipeline; the one exception is    *)
(* the revision a retry has asked for.                                     *)
CompletedIsOut ==
    \A t \in Tasks : run_state[t] = "completed" =>
        status[t] \in Gap \cup Terminal \cup {"revision"}

-----------------------------------------------------------------------------
(* What the documents say and the code does not keep. *)

(* Nobody is doing anything, and nobody will until the Owner does. *)
AtRest == server = "up" /\ pc = "idle" /\ queue = <<>> /\ \A r \in Requests : req[r] = Idle

(* store.py: an invalid transition is structurally impossible; nothing     *)
(* leads out of a settled status.                                          *)
SettledIsFinal ==
    [][\A t \in Tasks : status[t] \in Terminal \ {"needs_owner_review"}
                            => status'[t] = status[t]]_vars

(* architecture/002: a task in revision is queued or running. *)
RevisionIsRun ==
    AtRest => \A t \in Tasks : status[t] = "revision" => run_state[t] \in {"queued", "running"}

-----------------------------------------------------------------------------
(* Liveness. *)

(* A queued task is taken up, whatever crashes lie in between, unless its  *)
(* submit_task raised.                                                     *)
QueuedIsTaken ==
    \A t \in Tasks : run_state[t] = "queued" ~> run_state[t] # "queued" \/ t \in stranded

(* A submitted task gets an outcome, comes back to the Owner, or is shown  *)
(* as failed: it does not stay in the pipeline, unless submit_task raised. *)
SubmittedIsAnswered ==
    \A t \in Tasks : status[t] = "intake" ~>
        status[t] \in Gap \cup Terminal \/ run_state[t] = "failed" \/ t \in stranded

-----------------------------------------------------------------------------
(* The promise of TaskContract, read off the status column. *)

Outcome(s) ==
    CASE s = "none" -> "absent"
      [] s \in InFlight \cup Gap -> "open"
      [] s = "needs_owner_review" -> "draft"
      [] OTHER -> s

Contract == INSTANCE TaskContract WITH outcome <- [t \in Tasks |-> Outcome(status[t])]

(* Settled outcomes never change and the report follows them, whatever the *)
(* pipeline, the Owner's threads and crashes do in between.                *)
ContractHolds == Contract!Spec
=============================================================================
