------------------------- MODULE ProductOutcomeProofs -------------------------
(***************************************************************************)
(* What a ProductTask comes to, for any number of tasks, proposals,        *)
(* specialists and request threads, any faults and any number of crashes,  *)
(* as long as no two of the Owner's requests are about the same task at a  *)
(* time: the report and the memory follow the status, employees are        *)
(* released and provisioned as the run and the Owner's decision ask for,   *)
(* the worker thread survives, and the program implements TaskContract.    *)
(*                                                                         *)
(* Requests about different tasks still interleave with each other, and    *)
(* all of them with the worker thread and with crashes.  Two requests      *)
(* about one task break each of these properties: the run                  *)
(* OverlappingDecisions shows a settled task being moved by the second.    *)
(***************************************************************************)
EXTENDS ProductTaskProofs

USE DEF ReviewOps, DecideOps, Ops, Statuses, InFlight, Gap, Terminal, history

(* No two of the Owner's requests are about the same task at a time. *)
OnePerTask == \A r, s \in Requests : req[r] # Idle /\ req[r].task = req[s].task => r = s

\* Control points at which nobody but the worker touches the task it has in hand.
Alone == WorkerSteps \ {"idle", "check", "claim", "escalate_report", "complete", "error"}

\* The outcomes with which a run has set everyone it assigned back to idle.
Closed == {"needs_owner_review", "delivered", "cancelled"}

\* A queued task has not been worked on since it was submitted or sent back; report,
\* memory and employees follow the status.
RowsOK ==
    /\ \A t \in Tasks :
          /\ status[t] = "none" => run_state[t] = "none"
          /\ run_state[t] = "queued" => status[t] \in {"intake", "revision"}
          /\ report[t] \in {"none", "needs_owner_review", status[t]}
          /\ memory[t] = 0 \/ (memory[t] = 1 /\ status[t] = "delivered")
    /\ \A p \in Proposals :
          provisioned[p] > 0 => proposal[p] # NoRow /\ status[proposal[p].task] = "gap_approved"

\* What the worker knows of the task it has in hand.
HandOK ==
    /\ pc # "dead"
    /\ pc \notin {"idle", "check"} => status[cur] # "none"
    /\ pc = "claim" => run_state[cur] = "queued"
    /\ pc = "planning" => status[cur] \in {"intake", "revision"}
    /\ pc = "staffing" => status[cur] = "planning"
    /\ pc \in {"select", "draft_proposal", "propose", "await", "skills", "skill_status",
               "execution"} => status[cur] = "staffing"
    /\ pc \in {"work", "qa"} => status[cur] \in {"execution", "revision"}
    /\ pc \in {"review", "revision", "escalate", "deliver"} => status[cur] = "qa"
    /\ pc \in {"budget", "budget_status"} => status[cur] \in InFlight
    /\ pc \in {"skill_report", "budget_report", "budget_insert", "budget_end"}
          => status[cur] = "failed"
    /\ pc = "escalate_report" => status[cur] \in Closed \cup {"revision"}
    /\ pc \in {"deliver_report", "remember"} => status[cur] = "delivered" /\ memory[cur] = 0
    /\ pc = "budget_insert" => report[cur] = "none"
    /\ pc \in Alone => run_state[cur] = "running"

\* What a request knows of its task, once it has checked it.
Knows(q) ==
    /\ q.op \in ReviewOps /\ q.step \in {"status", "write"}
          => status[q.task] = "needs_owner_review"
    /\ q.op \in DecideOps /\ q.step # "idle"
          => proposal[q.prop] # NoRow /\ proposal[q.prop].task = q.task
    /\ q.op \in DecideOps /\ q.step = "write"
          => status[q.task] \in {"awaiting_approval", Target[q.op]}
    /\ q.step = "amend" => status[q.task] = Target[q.op]
    /\ q.step = "remember" => q.op = "accept" /\ status[q.task] = "delivered"
    /\ q.op = "accept" /\ q.step \in {"amend", "remember"}
          => /\ memory[q.task] = 0
             /\ cur = q.task => pc \notin {"deliver_report", "remember"}
    /\ q.step = "rearm" => /\ q.op = "retry"
                           /\ status[q.task] = "revision" /\ run_state[q.task] # "queued"
                           /\ cur = q.task => pc \notin Alone
    /\ q.step = "provision" => q.op \in DecideOps /\ status[q.task] = "gap_approved"
    /\ q.step = "report" => status[q.task] = "gap_rejected"

KnowOK == \A r \in Requests : Knows(req[r])

\* A run that has failed may leave employees assigned, unless its task is closed, or
\* was and is now being sent back.
Rearming(t) == \E r \in Requests : req[r].step = "rearm" /\ req[r].task = t
Tidy(t) == run_state[t] = "failed" => status[t] \in Closed \/ Rearming(t)
NoneLeft == crashes = 0 /\ \A t \in Tasks : Tidy(t)

\* Who may be assigned, if no run before this one has left anybody.
AssignedOK ==
    /\ pc \in {"idle", "check", "claim", "planning"} \cup EndsWell => assigned = {}
    /\ pc \in {"staffing", "select", "draft_proposal", "propose", "await", "skills",
               "skill_status", "skill_report", "execution"} => assigned \subseteq {"orchestrator"}
    /\ pc \in {"work", "qa", "review", "revision", "escalate", "deliver"}
          => assigned \subseteq {"orchestrator", staffed, "qa"}
    /\ pc \in {"escalate", "deliver"} /\ checked => assigned \subseteq {"orchestrator"}
    /\ pc = "error" /\ (status[cur] \in Closed \/ Rearming(cur)) => assigned = {}

StaffOK ==
    /\ crashes = 0 /\ server # "up" => \A t \in Tasks : run_state[t] # "running"
    /\ NoneLeft => AssignedOK

Sound == RowsOK /\ HandOK /\ KnowOK /\ StaffOK

\* What a step does to the status and the report of tasks: a move of the transition
\* table, or the one report of a task, filed or amended to what the status says.
Moved ==
    \E t \in Tasks, s \in Statuses :
        /\ \/ status[t] = "none" /\ s = "intake"
           \/ <<status[t], s>> \in TaskTransitions
        /\ status' = [status EXCEPT ![t] = s]
        /\ UNCHANGED report

Filed ==
    \E t \in Tasks :
        /\ report[t] \in {"none", "needs_owner_review"}
        /\ \/ /\ report[t] = "none" /\ status[t] \in Closed \cup {"revision"}
              /\ report' = [report EXCEPT ![t] = "needs_owner_review"]
           \/ /\ status[t] \in Terminal \ {"needs_owner_review"}
              /\ report' = [report EXCEPT ![t] = status[t]]
        /\ UNCHANGED status

Progress == UNCHANGED <<status, report>> \/ Moved \/ Filed

-----------------------------------------------------------------------------
(* The worker's steps *)

\* A step of the run in hand changes nothing a request knows, and nothing in the
\* rows of another task.
LEMMA RunFrame ==
    ASSUME RunInv, Sound, cur \in Tasks, pc \notin Unclaimed,
           UNCHANGED <<run_state, req, cur, server, crashes, provisioned>>,
           \A t \in Tasks \ {cur} :
              status'[t] = status[t] /\ report'[t] = report[t] /\ memory'[t] = memory[t],
           \/ status'[cur] = status[cur]
           \/ pc \in Alone /\ status[cur] \in InFlight /\ status'[cur] # "none",
           report'[cur] \in {report[cur], status'[cur], "needs_owner_review"},
           \/ memory'[cur] = memory[cur]
           \/ pc = "remember" /\ memory'[cur] = memory[cur] + 1 /\ status'[cur] = status[cur],
           \A p \in Proposals : proposal'[p] = proposal[p] \/ proposal[p] = NoRow,
           pc' \in {"deliver_report", "remember"}
              => pc \in {"deliver", "deliver_report", "remember"},
           pc' \in Alone => pc \in Alone
    PROVE  RowsOK' /\ KnowOK' /\ (NoneLeft' => NoneLeft) /\ (Rearming(cur)' <=> Rearming(cur))
<1>1. /\ status \in [Tasks -> Statuses \cup {"none"}]
      /\ report \in [Tasks -> Terminal \cup {"none"}]
      /\ proposal \in [Proposals -> ProposalRows \cup {NoRow}]
      /\ provisioned \in [Proposals -> Nat]
      /\ memory \in [Tasks -> Nat]
      /\ run_state[cur] \in {"queued", "running"}
      /\ pc \in Alone => run_state[cur] = "running"
      BY DEF RunInv, Typed, TypeOK, InHand, Unclaimed, Sound, HandOK
<1>2. RowsOK'
  <2>1. ASSUME NEW t \in Tasks, t # cur
        PROVE  /\ status'[t] = "none" => run_state'[t] = "none"
               /\ run_state'[t] = "queued" => status'[t] \in {"intake", "revision"}
               /\ report'[t] \in {"none", "needs_owner_review", status'[t]}
               /\ memory'[t] = 0 \/ (memory'[t] = 1 /\ status'[t] = "delivered")
        BY <2>1 DEF Sound, RowsOK
  <2>2. /\ status'[cur] = "none" => run_state'[cur] = "none"
        /\ run_state'[cur] = "queued" => status'[cur] \in {"intake", "revision"}
        /\ report'[cur] \in {"none", "needs_owner_review", status'[cur]}
        BY <1>1 DEF Sound, RowsOK
  <2>3. memory'[cur] = 0 \/ (memory'[cur] = 1 /\ status'[cur] = "delivered")
        BY <1>1 DEF Sound, RowsOK, HandOK
  <2>4. ASSUME NEW p \in Proposals, provisioned'[p] > 0
        PROVE  proposal'[p] # NoRow /\ status'[proposal'[p].task] = "gap_approved"
    <3>1. /\ proposal[p] # NoRow /\ status[proposal[p].task] = "gap_approved"
          BY <2>4 DEF Sound, RowsOK
    <3>2. proposal'[p] = proposal[p] /\ proposal[p].task \in Tasks
          BY <1>1, <3>1 DEF ProposalRows
    <3> QED
          BY <3>1, <3>2
  <2> QED
        BY <2>1, <2>2, <2>3, <2>4 DEF RowsOK
<1>3. KnowOK'
  <2> SUFFICES ASSUME NEW r \in Requests PROVE Knows(req[r])'
      BY DEF KnowOK
  <2> DEFINE q == req[r]
  <2>1. /\ Knows(q) /\ req'[r] = q
        /\ q.step # "idle" => q.task \in Tasks
        /\ q.step = "amend" => q.op \in {"accept", "close"}
        /\ q.op \in DecideOps => q.prop \in Proposals
        BY DEF Sound, KnowOK, RunInv, Typed, RequestOK, Fits
  <2> HIDE DEF q
  <2>2. ASSUME q.step # "idle", status[q.task] \notin InFlight
        PROVE  status'[q.task] = status[q.task]
        BY <2>1, <2>2
  <2>3. /\ q.op \in ReviewOps /\ q.step \in {"status", "write"}
              => status'[q.task] = "needs_owner_review"
        /\ q.op \in DecideOps /\ q.step = "write"
              => status'[q.task] \in {"awaiting_approval", Target[q.op]}
        /\ q.step = "amend" => status'[q.task] = Target[q.op]
    <3>1. q.op \in DecideOps \/ q.step = "amend" => Target[q.op] \notin InFlight
          BY <2>1 DEF Target
    <3> QED
          BY <2>1, <2>2, <3>1 DEF Knows
  <2>7. /\ q.step = "remember" => q.op = "accept" /\ status'[q.task] = "delivered"
        /\ q.step = "provision" => q.op \in DecideOps /\ status'[q.task] = "gap_approved"
        /\ q.step = "report" => status'[q.task] = "gap_rejected"
        BY <2>1, <2>2 DEF Knows
  <2>4. q.op \in DecideOps /\ q.step # "idle"
           => proposal'[q.prop] # NoRow /\ proposal'[q.prop].task = q.task
        BY <2>1 DEF Knows
  <2>5. ASSUME q.op = "accept", q.step \in {"amend", "remember"}
        PROVE  /\ memory'[q.task] = 0
               /\ cur' = q.task => pc' \notin {"deliver_report", "remember"}
    <3>1. /\ status[q.task] = "delivered" /\ memory[q.task] = 0 /\ q.task \in Tasks
          /\ cur = q.task => pc \notin {"deliver_report", "remember"}
          BY <2>1, <2>5 DEF Knows, Target
    <3>2. cur = q.task => pc # "deliver"
          BY <3>1 DEF Sound, HandOK
    <3> QED
          BY <3>1, <3>2
  <2>6. ASSUME q.step = "rearm"
        PROVE  /\ q.op = "retry" /\ status'[q.task] = "revision"
               /\ run_state'[q.task] # "queued"
               /\ cur' = q.task => pc' \notin Alone
    <3>1. /\ q.op = "retry" /\ status[q.task] = "revision" /\ run_state[q.task] # "queued"
          /\ cur = q.task => pc \notin Alone
          /\ q.task \in Tasks
          BY <2>1, <2>6 DEF Knows
    <3> QED
          BY <3>1
  <2> QED
        BY <2>1, <2>3, <2>4, <2>5, <2>6, <2>7 DEF Knows
<1>4. \A t \in Tasks : Rearming(t)' <=> Rearming(t)
      BY DEF Rearming
<1>5. NoneLeft' => NoneLeft
      BY <1>1, <1>4 DEF NoneLeft, Tidy
<1> QED
    BY <1>2, <1>3, <1>4, <1>5


\* Wherever the worker calls update_task_status, the transition table allows the move.
LEMMA MoveAllowed ==
    ASSUME RunInv, Sound, pc \in DOMAIN Moves
    PROVE  /\ <<status[cur], Moves[pc]>> \in TaskTransitions
           /\ status[cur] \in InFlight /\ Moves[pc] \in Statuses
           /\ pc \in Alone /\ run_state[cur] = "running" /\ cur \in Tasks
<1>1. pc \in {"planning", "staffing", "await", "skill_status", "execution", "qa", "revision",
             "escalate", "deliver", "budget_status"}
      BY DEF Moves
<1>2. pc \in Alone /\ run_state[cur] = "running" /\ cur \in Tasks
      BY <1>1 DEF Alone, WorkerSteps, Sound, HandOK, RunInv, Typed, TypeOK, WorkerOK
<1>3. CASE pc \in {"planning", "staffing", "await", "skill_status", "execution"}
      BY <1>2, <1>3 DEF Sound, HandOK, Moves, TaskTransitions
<1>4. CASE pc \in {"qa", "revision", "escalate", "deliver"}
      BY <1>2, <1>4 DEF Sound, HandOK, Moves, TaskTransitions
<1>5. CASE pc = "budget_status"
      BY <1>2, <1>5 DEF Sound, HandOK, Moves, TaskTransitions
<1> QED
    BY <1>1, <1>3, <1>4, <1>5

\* The UPDATE of a move.
LEMMA MoveSound ==
    ASSUME RunInv, Sound, NEW at \in DOMAIN Moves, NEW next, NEW staff,
           MoveStatus(at, next, staff),
           next = "deliver_report" => at = "deliver", next # "remember"
    PROVE  /\ RowsOK' /\ KnowOK' /\ (NoneLeft' => NoneLeft) /\ Progress
           /\ status'[cur] = Moves[at] /\ run_state[cur] = "running" /\ pc = at
           /\ checked /\ ~checked' /\ pc' = next /\ assigned' = staff
           /\ UNCHANGED <<run_state, report, memory, server, crashes, cur, staffed, req>>
<1>1. /\ pc = at /\ checked /\ ~checked' /\ pc' = next /\ assigned' = staff
      /\ status' = [status EXCEPT ![cur] = Moves[at]]
      /\ UNCHANGED <<run_state, report, memory, server, crashes, cur, staffed, req,
                     proposal, provisioned>>
      BY DEF MoveStatus
<1>2. /\ <<status[cur], Moves[at]>> \in TaskTransitions /\ Moves[at] \in Statuses
      /\ status[cur] \in InFlight
      /\ pc \in Alone /\ run_state[cur] = "running" /\ cur \in Tasks
      BY <1>1, MoveAllowed
<1>3. /\ status \in [Tasks -> Statuses \cup {"none"}] /\ pc \notin Unclaimed
      BY <1>2 DEF RunInv, Typed, TypeOK, Alone, Unclaimed
<1>4. /\ status'[cur] = Moves[at] /\ status'[cur] # "none"
      /\ \A t \in Tasks \ {cur} : status'[t] = status[t]
      BY <1>1, <1>2, <1>3
<1>5. RowsOK' /\ KnowOK' /\ (NoneLeft' => NoneLeft)
      BY <1>1, <1>2, <1>3, <1>4, RunFrame
<1>6. Progress
      BY <1>1, <1>2 DEF Progress, Moved
<1> QED
    BY <1>1, <1>2, <1>4, <1>5, <1>6

\* One create_report of the run.
LEMMA InsertSound ==
    ASSUME RunInv, Sound, NEW at \in WorkerSteps \ Unclaimed, NEW outcome, NEW next,
           NEW raise, NEW staff, InsertReport(at, outcome, next, raise, staff),
           \/ outcome = status[cur] /\ status[cur] \in Terminal \ {"needs_owner_review"}
           \/ outcome = "needs_owner_review" /\ at = "escalate_report",
           next \in Alone \/ raise \in Alone => at \in Alone,
           next = "remember" => at = "deliver_report", next # "deliver_report",
           raise \notin {"deliver_report", "remember"}
    PROVE  /\ RowsOK' /\ KnowOK' /\ (NoneLeft' => NoneLeft) /\ Progress
           /\ Rearming(cur)' <=> Rearming(cur)
           /\ pc = at
           /\ \/ report[cur] = "none" /\ pc' = next /\ assigned' = staff
              \/ report[cur] # "none" /\ pc' = raise /\ assigned' = assigned
           /\ UNCHANGED <<status, run_state, memory, server, crashes, cur, staffed, req>>
<1>1. /\ pc = at /\ UNCHANGED <<status, run_state, memory, server, crashes, cur, staffed, req,
                               proposal, provisioned>>
      /\ \/ /\ report[cur] = "none" /\ pc' = next /\ assigned' = staff
            /\ report' = [report EXCEPT ![cur] = outcome]
         \/ report[cur] # "none" /\ pc' = raise /\ assigned' = assigned /\ report' = report
      BY DEF InsertReport
<1>2. cur \in Tasks /\ pc \notin Unclaimed /\ report \in [Tasks -> Terminal \cup {"none"}]
      BY <1>1 DEF RunInv, Typed, TypeOK, WorkerOK, Unclaimed
<1>3. /\ report'[cur] \in {report[cur], status'[cur], "needs_owner_review"}
      /\ \A t \in Tasks \ {cur} : report'[t] = report[t]
      BY <1>1, <1>2
<1>4. /\ RowsOK' /\ KnowOK' /\ (NoneLeft' => NoneLeft)
      /\ Rearming(cur)' <=> Rearming(cur)
      BY <1>1, <1>2, <1>3, RunFrame
<1>5. Progress
  <2>1. at = "escalate_report" => status[cur] \in Closed \cup {"revision"}
        BY <1>1 DEF Sound, HandOK
  <2> QED
        BY <1>1, <1>2, <2>1 DEF Progress, Filed
<1> QED
    BY <1>1, <1>4, <1>5

\* A step of the run that writes nothing.
LEMMA StepSound ==
    ASSUME RunInv, Sound, pc \in Alone, cur \in Tasks, pc' \in Alone \cup {"error"},
           UNCHANGED <<status, run_state, report, memory, proposal, provisioned, cur, server, req,
                       crashes>>,
           pc' \notin {"deliver_report", "remember"}
    PROVE  /\ RowsOK' /\ KnowOK' /\ (NoneLeft' => NoneLeft) /\ Progress
           /\ run_state[cur] = "running" /\ server = "up"
<1>1. pc \notin Unclaimed
      BY DEF Alone, Unclaimed
<1>2. run_state[cur] = "running" /\ server = "up"
      BY <1>1 DEF Sound, HandOK, RunInv, Typed, WorkerOK, Unclaimed
<1> QED
    BY <1>1, <1>2, RunFrame DEF Progress


\* The rest of Sound, for a step of the run: where it leads, and with whom assigned.
LEMMA RunMoves ==
    ASSUME RunInv, Sound, pc \notin Unclaimed,
           Pipeline \/ BudgetCheck \/ BudgetFail \/ BudgetReport \/ BudgetInsert
    PROVE  Sound' /\ Progress
<1> USE DEF Moves
<1>1. /\ server = "up" /\ cur \in Tasks /\ HandOK /\ (NoneLeft => AssignedOK)
      /\ status[cur] # "none" /\ pc \in WorkerSteps
      /\ pc' \in WorkerSteps
  <2>1. TypeOK'
        BY WorkerTyped DEF Worker, RunInv, Typed
  <2> QED
      BY <2>1 DEF Sound, StaffOK, HandOK, RunInv, Typed, TypeOK, WorkerOK, Unclaimed
<1>2. ASSUME RowsOK', HandOK', KnowOK', Progress, UNCHANGED <<server>>, NoneLeft' => AssignedOK'
      PROVE  Sound' /\ Progress
      BY <1>1, <1>2 DEF Sound, StaffOK
\* The moves.
<1>3. CASE Plan
  <2>1. /\ RowsOK' /\ KnowOK' /\ (NoneLeft' => NoneLeft) /\ Progress /\ UNCHANGED server
        /\ status'[cur'] = "planning" /\ run_state'[cur'] = "running" /\ pc = "planning"
        /\ pc' = "staffing" /\ assigned' = assigned \cup {"orchestrator"}
        BY <1>3, MoveSound DEF Plan
  <2>2. HandOK'
        BY <2>1 DEF HandOK, Alone
  <2>3. NoneLeft' => AssignedOK'
        BY <1>1, <2>1 DEF AssignedOK, EndsWell
  <2> QED
        BY <1>2, <2>1, <2>2, <2>3
<1>4. CASE Staff
  <2>1. /\ RowsOK' /\ KnowOK' /\ (NoneLeft' => NoneLeft) /\ Progress /\ UNCHANGED server
        /\ status'[cur'] = "staffing" /\ run_state'[cur'] = "running" /\ pc = "staffing"
        /\ pc' = "select" /\ assigned' = assigned
        BY <1>4, MoveSound DEF Staff
  <2>2. HandOK'
        BY <2>1 DEF HandOK, Alone
  <2>3. NoneLeft' => AssignedOK'
        BY <1>1, <2>1 DEF AssignedOK, EndsWell
  <2> QED
        BY <1>2, <2>1, <2>2, <2>3
<1>5. CASE AwaitApproval
  <2>1. /\ RowsOK' /\ KnowOK' /\ (NoneLeft' => NoneLeft) /\ Progress /\ UNCHANGED server
        /\ status'[cur'] = "awaiting_approval" /\ pc = "await"
        /\ pc' = "complete" /\ assigned' = assigned \ {"orchestrator"}
        BY <1>5, MoveSound DEF AwaitApproval
  <2>2. HandOK'
        BY <2>1 DEF HandOK, Alone
  <2>3. NoneLeft' => AssignedOK'
        BY <1>1, <2>1 DEF AssignedOK, EndsWell
  <2> QED
        BY <1>2, <2>1, <2>2, <2>3
<1>6. CASE FailSkills
  <2>1. /\ RowsOK' /\ KnowOK' /\ (NoneLeft' => NoneLeft) /\ Progress /\ UNCHANGED server
        /\ status'[cur'] = "failed" /\ run_state'[cur'] = "running" /\ pc = "skill_status"
        /\ pc' = "skill_report" /\ assigned' = assigned
        BY <1>6, MoveSound DEF FailSkills
  <2>2. HandOK'
        BY <2>1 DEF HandOK, Alone
  <2>3. NoneLeft' => AssignedOK'
        BY <1>1, <2>1 DEF AssignedOK, EndsWell
  <2> QED
        BY <1>2, <2>1, <2>2, <2>3
<1>7. CASE Execute
  <2>1. /\ RowsOK' /\ KnowOK' /\ (NoneLeft' => NoneLeft) /\ Progress /\ UNCHANGED <<server, staffed>>
        /\ status'[cur'] = "execution" /\ run_state'[cur'] = "running" /\ pc = "execution"
        /\ pc' = "work" /\ assigned' = assigned \cup {staffed}
        BY <1>7, MoveSound DEF Execute
  <2>2. HandOK'
        BY <2>1 DEF HandOK, Alone
  <2>3. NoneLeft' => AssignedOK'
        BY <1>1, <2>1 DEF AssignedOK, EndsWell
  <2> QED
        BY <1>2, <2>1, <2>2, <2>3
<1>8. CASE SendToQA
  <2>1. /\ RowsOK' /\ KnowOK' /\ (NoneLeft' => NoneLeft) /\ Progress /\ UNCHANGED <<server, staffed>>
        /\ status'[cur'] = "qa" /\ run_state'[cur'] = "running" /\ pc = "qa"
        /\ pc' = "review" /\ assigned' = assigned \cup {"qa"}
        BY <1>8, MoveSound DEF SendToQA
  <2>2. HandOK'
        BY <2>1 DEF HandOK, Alone
  <2>3. NoneLeft' => AssignedOK'
        BY <1>1, <2>1 DEF AssignedOK, EndsWell
  <2> QED
        BY <1>2, <2>1, <2>2, <2>3
<1>9. CASE Revise
  <2>1. /\ RowsOK' /\ KnowOK' /\ (NoneLeft' => NoneLeft) /\ Progress /\ UNCHANGED <<server, staffed>>
        /\ status'[cur'] = "revision" /\ run_state'[cur'] = "running" /\ pc = "revision"
        /\ pc' = "work" /\ assigned' = assigned
        BY <1>9, MoveSound DEF Revise
  <2>2. HandOK'
        BY <2>1 DEF HandOK, Alone
  <2>3. NoneLeft' => AssignedOK'
        BY <1>1, <2>1 DEF AssignedOK, EndsWell
  <2> QED
        BY <1>2, <2>1, <2>2, <2>3
<1>10. CASE Escalate
  <2>1. /\ RowsOK' /\ KnowOK' /\ (NoneLeft' => NoneLeft) /\ Progress /\ UNCHANGED server
        /\ status'[cur'] = "needs_owner_review" /\ pc = "escalate" /\ checked
        /\ pc' = "escalate_report" /\ assigned' = assigned \ {"orchestrator"}
        BY <1>10, MoveSound DEF Escalate
  <2>2. HandOK'
        BY <2>1 DEF HandOK, Alone, Closed
  <2>3. NoneLeft' => AssignedOK'
        BY <1>1, <2>1 DEF AssignedOK, EndsWell
  <2> QED
        BY <1>2, <2>1, <2>2, <2>3
<1>11. CASE Deliver
  <2>1. /\ RowsOK' /\ KnowOK' /\ (NoneLeft' => NoneLeft) /\ Progress /\ UNCHANGED <<server, memory, cur>>
        /\ status'[cur'] = "delivered" /\ run_state'[cur'] = "running" /\ pc = "deliver" /\ checked
        /\ pc' = "deliver_report" /\ assigned' = assigned \ {"orchestrator"}
        BY <1>11, MoveSound DEF Deliver
  <2>2. memory'[cur'] = 0
        BY <1>1, <2>1 DEF HandOK, Sound, RowsOK
  <2>3. HandOK'
        BY <2>1, <2>2 DEF HandOK, Alone
  <2>4. NoneLeft' => AssignedOK'
        BY <1>1, <2>1 DEF AssignedOK, EndsWell
  <2> QED
        BY <1>2, <2>1, <2>3, <2>4
<1>12. CASE BudgetFail
  <2>1. /\ RowsOK' /\ KnowOK' /\ (NoneLeft' => NoneLeft) /\ Progress /\ UNCHANGED server
        /\ status'[cur'] = "failed" /\ run_state'[cur'] = "running" /\ pc = "budget_status"
        /\ pc' = "budget_report"
        BY <1>12, MoveSound DEF BudgetFail
  <2>2. HandOK'
        BY <2>1 DEF HandOK, Alone
  <2>3. AssignedOK'
        BY <2>1 DEF AssignedOK, EndsWell
  <2> QED
        BY <1>2, <2>1, <2>2, <2>3
\* The reports.
<1>13. CASE ReportSkillFailure
  <2>0. pc = "skill_report" /\ status[cur] = "failed"
        BY <1>1, <1>13 DEF ReportSkillFailure, InsertReport, HandOK
  <2>1. /\ RowsOK' /\ KnowOK' /\ (NoneLeft' => NoneLeft) /\ Progress
        /\ UNCHANGED <<server, cur, status>> /\ pc' = "error"
        /\ Rearming(cur)' <=> Rearming(cur)
        BY <1>13, <2>0, InsertSound DEF ReportSkillFailure, WorkerSteps, Unclaimed, Alone
  <2>2. HandOK'
        BY <1>1, <2>1 DEF HandOK, Alone
  <2>3. status'[cur'] \notin Closed /\ ~Rearming(cur)'
    <3>1. ~Rearming(cur)
          BY <2>0 DEF Rearming, Sound, KnowOK, Knows
    <3> QED
          BY <2>0, <2>1, <3>1 DEF Closed
  <2>4. AssignedOK'
        BY <2>1, <2>3 DEF AssignedOK, EndsWell
  <2> QED
        BY <1>2, <2>1, <2>2, <2>4
<1>14. CASE ReportDraft
  <2>0. pc = "escalate_report"
        BY <1>14 DEF ReportDraft, InsertReport
  <2>1. /\ RowsOK' /\ KnowOK' /\ (NoneLeft' => NoneLeft) /\ Progress
        /\ UNCHANGED <<server, cur, status>> /\ pc' \in {"complete", "error"}
        /\ assigned' = assigned
        BY <1>14, InsertSound DEF ReportDraft, WorkerSteps, Unclaimed, Alone
  <2>2. HandOK'
        BY <1>1, <2>1 DEF HandOK, Alone
  <2>3. NoneLeft' => AssignedOK'
        BY <1>1, <2>0, <2>1 DEF AssignedOK, EndsWell
  <2> QED
        BY <1>2, <2>1, <2>2, <2>3
<1>15. CASE ReportDelivery
  <2>0. /\ pc = "deliver_report" /\ status[cur] = "delivered" /\ memory[cur] = 0
        /\ run_state[cur] = "running"
        BY <1>1, <1>15 DEF ReportDelivery, InsertReport, HandOK, Alone, WorkerSteps
  <2>1. /\ RowsOK' /\ KnowOK' /\ (NoneLeft' => NoneLeft) /\ Progress
        /\ UNCHANGED <<server, cur, status, memory, run_state>>
        /\ pc' \in {"remember", "error"} /\ assigned' = assigned
        BY <1>15, <2>0, InsertSound DEF ReportDelivery, WorkerSteps, Unclaimed, Alone
  <2>2. HandOK'
        BY <1>1, <2>0, <2>1 DEF HandOK, Alone
  <2>3. NoneLeft' => AssignedOK'
        BY <1>1, <2>0, <2>1 DEF AssignedOK, EndsWell
  <2> QED
        BY <1>2, <2>1, <2>2, <2>3
\* The worker is still alone with the task, and nobody has filed a report for it.
<1>16. CASE BudgetInsert
  <2>0. /\ pc = "budget_insert" /\ status[cur] = "failed" /\ report[cur] = "none"
        /\ run_state[cur] = "running"
        BY <1>1, <1>16 DEF BudgetInsert, InsertReport, HandOK, Alone, WorkerSteps
  <2>1. /\ RowsOK' /\ KnowOK' /\ (NoneLeft' => NoneLeft) /\ Progress
        /\ UNCHANGED <<server, cur, status, run_state>> /\ pc' = "budget_end"
        BY <1>16, <2>0, InsertSound DEF BudgetInsert, WorkerSteps, Unclaimed, Alone
  <2>2. HandOK'
        BY <1>1, <2>0, <2>1 DEF HandOK, Alone
  <2>3. AssignedOK'
        BY <2>1 DEF AssignedOK, EndsWell
  <2> QED
        BY <1>2, <2>1, <2>2, <2>3
\* The steps that write nothing but who is assigned.
<1>17. CASE CheckMove
  <2>1. /\ pc \in DOMAIN Moves /\ ~checked /\ assigned' = Released
        /\ UNCHANGED <<status, run_state, report, memory, proposal, provisioned,
                       server, cur, staffed, req, crashes>>
        BY <1>17 DEF CheckMove
  <2>2. <<status[cur], Moves[pc]>> \in TaskTransitions /\ pc \in Alone
        BY <2>1, MoveAllowed
  <2>3. checked' /\ pc' = pc
        BY <1>17, <2>2 DEF CheckMove, CanMove
  <2>4. /\ RowsOK' /\ KnowOK' /\ (NoneLeft' => NoneLeft) /\ Progress
        BY <1>1, <2>1, <2>2, <2>3, StepSound, MoveAllowed
  <2>5. HandOK'
        BY <1>1, <2>1, <2>3 DEF HandOK
  <2>6. NoneLeft' => AssignedOK'
    <3> SUFFICES ASSUME NoneLeft' PROVE AssignedOK'
        OBVIOUS
    <3>1. /\ pc \notin {"error"} \cup EndsWell /\ AssignedOK
          /\ UNCHANGED <<staffed, pc>> /\ assigned' = Released
          BY <1>1, <2>1, <2>2, <2>3, <2>4 DEF Alone, EndsWell
    <3>2. assigned' \subseteq assigned
          BY <3>1 DEF Released
    <3>3. pc \in {"escalate", "deliver"} => assigned' \subseteq {"orchestrator"}
          BY <3>1 DEF Released, AssignedOK
    <3> QED
          BY <3>1, <3>2, <3>3 DEF AssignedOK, EndsWell
  <2> QED
        BY <1>2, <2>1, <2>4, <2>5, <2>6
<1>18. CASE SelectSpecialist \/ DraftProposal \/ ResolveSkills
  <2>1. /\ pc \in {"select", "draft_proposal", "skills"}
        /\ pc' \in {"skills", "draft_proposal", "propose", "execution", "skill_status",
                    "budget", "error"}
        /\ UNCHANGED <<rows, server, cur, req, crashes>>
        BY <1>18 DEF SelectSpecialist, DraftProposal, ResolveSkills, Outages
  <2>2. status[cur] = "staffing" /\ run_state[cur] = "running"
        BY <1>1, <2>1 DEF HandOK, Alone, WorkerSteps
  <2>3. /\ RowsOK' /\ KnowOK' /\ (NoneLeft' => NoneLeft) /\ Progress
        BY <1>1, <2>1, StepSound DEF rows, Alone, WorkerSteps
  <2>4. HandOK'
        BY <2>1, <2>2 DEF HandOK, rows, Alone
  <2>5. ~Rearming(cur)'
        BY <2>1, <2>2 DEF Rearming, Sound, KnowOK, Knows
  <2>6. NoneLeft' => AssignedOK'
        BY <1>1, <2>1, <2>2, <2>3, <2>5 DEF AssignedOK, rows, Closed, EndsWell
  <2> QED
        BY <1>2, <2>1, <2>3, <2>4, <2>6
<1>19. CASE Work \/ Review
  <2>1. /\ \/ pc = "work" /\ pc' \in {"qa", "budget", "error"}
           \/ pc = "review" /\ pc' \in {"deliver", "revision", "escalate", "budget", "error"}
        /\ UNCHANGED <<rows, server, cur, req, crashes, staffed, checked>>
        BY <1>19 DEF Work, Review, Outages
  <2>2. /\ run_state[cur] = "running" /\ status[cur] \in {"execution", "revision", "qa"}
        /\ pc = "review" => status[cur] = "qa"
        /\ pc = "work" => status[cur] \in {"execution", "revision"}
        BY <1>1, <2>1 DEF HandOK, Alone, WorkerSteps
  <2>3. /\ RowsOK' /\ KnowOK' /\ (NoneLeft' => NoneLeft) /\ Progress
        BY <1>1, <2>1, StepSound DEF rows, Alone, WorkerSteps
  <2>4. HandOK'
        BY <2>1, <2>2 DEF HandOK, rows, Alone
  <2>5. ~checked /\ pc \in Alone
        BY <2>1 DEF RunInv, Typed, WorkerOK, Alone, WorkerSteps
  <2>6. ~Rearming(cur)'
        BY <2>1, <2>5 DEF Rearming, Sound, KnowOK, Knows
  <2>7. NoneLeft' => AssignedOK'
        BY <1>1, <2>1, <2>2, <2>3, <2>5, <2>6 DEF AssignedOK, rows, Closed, EndsWell
  <2> QED
        BY <1>2, <2>1, <2>3, <2>4, <2>7
<1>20. CASE BudgetCheck \/ BudgetReport
  <2>1. /\ \/ /\ pc = "budget"
              /\ pc' = IF status[cur] \in Terminal THEN "budget_end" ELSE "budget_status"
           \/ /\ pc = "budget_report"
              /\ pc' = IF report[cur] = "none" THEN "budget_insert" ELSE "budget_end"
        /\ UNCHANGED <<rows, server, cur, req, crashes>>
        BY <1>20 DEF BudgetCheck, BudgetReport
  <2>2. /\ run_state[cur] = "running"
        /\ pc = "budget" => status[cur] \in InFlight
        /\ pc = "budget_report" => status[cur] = "failed"
        BY <1>1, <2>1 DEF HandOK, Alone, WorkerSteps
  <2>3. /\ RowsOK' /\ KnowOK' /\ (NoneLeft' => NoneLeft) /\ Progress
        BY <1>1, <2>1, StepSound DEF rows, Alone, WorkerSteps
  <2>4. HandOK' /\ AssignedOK'
        BY <2>1, <2>2 DEF HandOK, AssignedOK, rows, Alone, EndsWell
  <2> QED
        BY <1>2, <2>1, <2>3, <2>4
<1>21. CASE Propose
  <2>1. /\ pc = "propose" /\ pc' = "await"
        /\ UNCHANGED <<status, run_state, report, memory, provisioned, assigned,
                       server, cur, req, crashes>>
        BY <1>21 DEF Propose
  <2>2. \A p \in Proposals : proposal'[p] = proposal[p] \/ proposal[p] = NoRow
        BY <1>21 DEF Propose, RunInv, Typed, TypeOK
  <2>3. status[cur] = "staffing" /\ run_state[cur] = "running"
        BY <1>1, <2>1 DEF HandOK, Alone, WorkerSteps
  <2>4. RowsOK' /\ KnowOK' /\ (NoneLeft' => NoneLeft)
        BY <1>1, <2>1, <2>2, RunFrame DEF Alone, WorkerSteps, Unclaimed
  <2>5. HandOK' /\ (NoneLeft' => AssignedOK') /\ Progress
        BY <1>1, <2>1, <2>3, <2>4 DEF HandOK, AssignedOK, Alone, EndsWell, Progress
  <2> QED
        BY <1>2, <2>1, <2>4, <2>5
<1>22. CASE Remember
  <2>1. /\ pc = "remember" /\ pc' = "complete"
        /\ memory' = [memory EXCEPT ![cur] = @ + 1]
        /\ UNCHANGED <<status, run_state, report, proposal, provisioned, assigned,
                       server, cur, req, crashes>>
        BY <1>22 DEF Remember
  <2>2. /\ memory'[cur] = memory[cur] + 1
        /\ \A t \in Tasks \ {cur} : memory'[t] = memory[t]
        BY <1>1, <2>1 DEF RunInv, Typed, TypeOK
  <2>3. RowsOK' /\ KnowOK' /\ (NoneLeft' => NoneLeft)
        BY <1>1, <2>1, <2>2, RunFrame DEF Alone, WorkerSteps, Unclaimed
  <2>4. HandOK' /\ (NoneLeft' => AssignedOK') /\ Progress
        BY <1>1, <2>1, <2>3 DEF HandOK, AssignedOK, Alone, EndsWell, Progress
  <2> QED
        BY <1>2, <2>1, <2>3, <2>4
<1> QED
    BY <1>3, <1>4, <1>5, <1>6, <1>7, <1>8, <1>9, <1>10, <1>11, <1>12, <1>13, <1>14, <1>15,
       <1>16, <1>17, <1>18, <1>19, <1>20, <1>21, <1>22 DEF Pipeline

\* Every step of the worker thread, the taking up and the end of a run included.
LEMMA WorkerSound ==
    ASSUME RunInv, Sound, Worker
    PROVE  Sound' /\ Progress
<1>1. /\ run_state \in [Tasks -> RunStates] /\ queue \in Seq(Tasks)
      /\ pc # "idle" => cur \in Tasks /\ server = "up"
      /\ RowsOK /\ HandOK /\ KnowOK /\ StaffOK
      /\ \A r \in Requests : req[r].step # "idle" => req[r].task \in Tasks
      /\ pc \notin {"idle", "check"} => run_state[cur] \in {"queued", "running"}
      BY DEF RunInv, Typed, TypeOK, WorkerOK, RequestOK, Fits, Sound, InHand
\* Between two runs the worker changes nothing but what it has in hand.
<1>2. ASSUME UNCHANGED <<rows, server, req, crashes>>, pc \in Unclaimed, pc' \in Unclaimed,
             pc' = "claim" => cur' = cur /\ cur \in Tasks /\ run_state[cur] = "queued"
      PROVE  Sound' /\ Progress
  <2>1. RowsOK'
        BY <1>1, <1>2 DEF RowsOK, rows
  <2>2. HandOK'
        BY <1>1, <1>2 DEF HandOK, RowsOK, rows, Unclaimed, Alone, WorkerSteps
  <2>3. KnowOK'
        BY <1>1, <1>2 DEF KnowOK, Knows, rows, Unclaimed, Alone
  <2>4. NoneLeft' => NoneLeft /\ assigned = {}
        BY <1>1, <1>2 DEF StaffOK, AssignedOK, NoneLeft, Tidy, Rearming, rows, Unclaimed
  <2>5. StaffOK'
        BY <1>1, <1>2, <2>4 DEF StaffOK, AssignedOK, rows, Unclaimed, EndsWell
  <2> QED
        BY <1>2, <2>1, <2>2, <2>3, <2>5 DEF Sound, Progress, rows
<1>3. CASE Take
  BY <1>2, <1>3 DEF Take, Unclaimed
<1>4. CASE ReadRow
  BY <1>1, <1>2, <1>4 DEF ReadRow, Unclaimed
<1>5. CASE Claim
  <2>1. /\ pc = "claim" /\ pc' = "planning" /\ cur \in Tasks /\ server = "up"
        /\ run_state' = [run_state EXCEPT ![cur] = "running"]
        /\ UNCHANGED <<status, report, memory, proposal, provisioned, assigned, server,
                       cur, req, crashes>>
        BY <1>1, <1>5 DEF Claim
  <2>2. /\ run_state'[cur] = "running" /\ run_state[cur] = "queued"
        /\ status[cur] \in {"intake", "revision"}
        /\ \A t \in Tasks \ {cur} : run_state'[t] = run_state[t]
        BY <1>1, <2>1 DEF HandOK, RowsOK
  <2>3. RowsOK'
        BY <1>1, <2>1, <2>2 DEF RowsOK
  <2>4. HandOK'
        BY <1>1, <2>1, <2>2 DEF HandOK, Alone
  <2>5. KnowOK'
    <3> SUFFICES ASSUME NEW r \in Requests PROVE Knows(req[r])'
        BY DEF KnowOK
    <3>1. Knows(req[r]) /\ (req[r].step # "idle" => req[r].task \in Tasks)
          BY <1>1 DEF KnowOK
    <3>2. req[r].step = "rearm" => req[r].task # cur /\ run_state'[req[r].task] # "queued"
          BY <2>2, <3>1 DEF Knows
    <3> QED
          BY <2>1, <3>1, <3>2 DEF Knows
  <2>6. NoneLeft' => NoneLeft
        BY <2>1, <2>2 DEF NoneLeft, Tidy, Rearming
  <2>7. StaffOK'
        BY <1>1, <2>1, <2>6 DEF StaffOK, AssignedOK, EndsWell
  <2> QED
        BY <2>1, <2>3, <2>4, <2>5, <2>7 DEF Sound, Progress
<1>6. CASE Finish
  <2>1. /\ pc \in {"complete", "error", "budget_end"} /\ pc' = "idle" /\ cur' = NoTask
        /\ run_state' = [run_state EXCEPT ![cur] = Ends[pc]]
        /\ Ends[pc] \in {"completed", "failed"}
        /\ pc \in {"error", "budget_end"} => Ends[pc] = "failed"
        /\ UNCHANGED <<status, report, memory, proposal, provisioned, assigned, server,
                       req, crashes>>
        BY <1>6 DEF Finish, Ends
  <2>2. /\ cur \in Tasks /\ server = "up" /\ status[cur] # "none"
        /\ run_state'[cur] = Ends[pc] /\ run_state[cur] \in {"queued", "running"}
        /\ \A t \in Tasks \ {cur} : run_state'[t] = run_state[t]
        BY <1>1, <2>1 DEF HandOK
  <2>3. RowsOK'
        BY <1>1, <2>1, <2>2 DEF RowsOK
  <2>4. HandOK'
        BY <2>1 DEF HandOK, Alone
  <2>5. KnowOK'
    <3> SUFFICES ASSUME NEW r \in Requests PROVE Knows(req[r])'
        BY DEF KnowOK
    <3>1. Knows(req[r]) /\ (req[r].step # "idle" => req[r].task \in Tasks)
          BY <1>1 DEF KnowOK
    <3>2. req[r].step = "rearm" => run_state'[req[r].task] # "queued"
          BY <2>1, <2>2, <3>1 DEF Knows
    <3> QED
          BY <2>1, <3>1, <3>2 DEF Knows, Alone
  <2>6. ASSUME NoneLeft' PROVE assigned = {}
    <3>1. NoneLeft
      <4>1. Tidy(cur)
            BY <2>2 DEF Tidy
      <4>2. \A t \in Tasks \ {cur} : Tidy(t)
            BY <2>1, <2>2, <2>6 DEF NoneLeft, Tidy, Rearming
      <4> QED
            BY <2>1, <2>6, <4>1, <4>2 DEF NoneLeft
    <3>2. Ends[pc] = "failed" => status[cur] \in Closed \/ Rearming(cur)
          BY <2>1, <2>2, <2>6 DEF NoneLeft, Tidy, Rearming
    <3>3. pc # "budget_end"
      <4>1. SUFFICES ASSUME pc = "budget_end" PROVE FALSE
            OBVIOUS
      <4>2. status[cur] = "failed"
            BY <1>1, <4>1 DEF HandOK
      <4> QED
            BY <1>1, <2>1, <3>2, <4>1, <4>2 DEF Closed, Rearming, KnowOK, Knows
    <3> QED
          BY <1>1, <2>1, <3>1, <3>2, <3>3 DEF StaffOK, AssignedOK, EndsWell
  <2>7. StaffOK'
        BY <2>1, <2>2, <2>6 DEF StaffOK, AssignedOK, EndsWell
  <2> QED
        BY <2>1, <2>3, <2>4, <2>5, <2>7 DEF Sound, Progress
<1>7. CASE Pipeline \/ BudgetCheck \/ BudgetFail \/ BudgetReport \/ BudgetInsert
  BY <1>7, PipelineStep, RunMoves DEF RunInv
<1> QED
  BY <1>3, <1>4, <1>5, <1>6, <1>7 DEF Worker

-----------------------------------------------------------------------------
(* The Owner's requests *)

LEMMA OwnerSound ==
    ASSUME RunInv, Sound, NEW r \in Requests, Owner(r), NEW t \in Tasks,
           req[r] # Idle => req[r].task = t, req'[r] # Idle => req'[r].task = t,
           \A s \in Requests \ {r} : req'[s] = req[s] /\ (req[s] # Idle => req[s].task # t)
    PROVE  Sound' /\ Progress
<1> DEFINE op == req[r].op
           step == req[r].step
<1>1. /\ status \in [Tasks -> Statuses \cup {"none"}]
      /\ run_state \in [Tasks -> RunStates]
      /\ report \in [Tasks -> Terminal \cup {"none"}]
      /\ memory \in [Tasks -> Nat]
      /\ proposal \in [Proposals -> ProposalRows \cup {NoRow}]
      /\ provisioned \in [Proposals -> Nat]
      /\ req \in [Requests -> RequestStates]
      /\ pc # "idle" => cur \in Tasks
      /\ RowsOK /\ HandOK /\ Knows(req[r]) /\ (NoneLeft => AssignedOK)
      BY DEF RunInv, Typed, TypeOK, WorkerOK, Sound, KnowOK, StaffOK
<1>2. /\ step # "idle" => req[r].task = t
      /\ step \in {"status", "write"} => op \in Ops
      /\ step = "amend" => op \in {"accept", "close"}
      /\ op \in DecideOps => req[r].prop \in Proposals
      BY DEF RunInv, Typed, RequestOK, Fits, Idle
<1>3. /\ UNCHANGED <<pc, cur, staffed, checked, server, crashes, assigned>> /\ server = "up"
      /\ req[r] # Idle => step # "idle"
  <2>1. /\ req[r] # Idle => step # "idle" /\ server = "up"
        /\ step # "idle" => req[r] # Idle
        BY DEF RunInv, Typed, RequestOK, Fits, WorkerOK, Idle
  <2>2. UNCHANGED <<worker, server, crashes, assigned>> /\ server = "up"
    <3>1. CASE Continue(r)
      <4>1. step # "idle"
            BY <3>1 DEF Continue, CheckTask, MoveTask, AmendReport, RememberAcceptance, Rearm,
                       Enqueue, SubmitFails, Provision, ReportRejection
      <4> QED
            BY <2>1, <3>1, <4>1
               DEF Continue, CheckTask, MoveTask, AmendReport, RememberAcceptance, Rearm,
                   Enqueue, SubmitFails, Provision, ReportRejection, rows
    <3> QED
        BY <3>1 DEF Owner, Submit, OpenReview, DecideProposal, rows
  <2> QED
        BY <2>1, <2>2 DEF worker
<1>4. /\ Rearming(t) <=> step = "rearm"
      /\ Rearming(t)' <=> req'[r].step = "rearm"
      /\ \A u \in Tasks \ {t} : Rearming(u)' <=> Rearming(u)
      BY DEF Rearming, Idle
<1>5. ASSUME NEW s \in RequestSteps, Goto(r, s)
      PROVE  /\ req'[r].step = s /\ req'[r].task = req[r].task /\ req'[r].op = op
             /\ req'[r].prop = req[r].prop
  <2>1. req'[r] = [req[r] EXCEPT !.step = s]
        BY <1>1, <1>5, GotoTyped
  <2> QED
        BY <1>1, <2>1 DEF RequestStates
<1>6. ASSUME Reply(r) PROVE req'[r] = Idle
      BY <1>1, <1>6, ReplyTyped
<1>7. req'[r] = Idle => Knows(req[r])' /\ ~Rearming(t)'
      BY <1>4 DEF Knows, Idle
\* What is left to show: the other requests are about other tasks, and the worker does
\* not move.
<1>8. ASSUME RowsOK', HandOK', Knows(req[r])', Progress, Tidy(t)' => Tidy(t),
             pc = "error" /\ cur = t /\ (status'[t] \in Closed \/ Rearming(t)')
                => status[t] \in Closed \/ Rearming(t),
             \A u \in Tasks \ {t} :
                status'[u] = status[u] /\ run_state'[u] = run_state[u] /\ memory'[u] = memory[u],
             \A p \in Proposals : proposal[p] # NoRow =>
                proposal'[p] # NoRow /\ proposal'[p].task = proposal[p].task
      PROVE  Sound' /\ Progress
  <2>1. ASSUME NEW s \in Requests, s # r PROVE Knows(req[s])'
    <3>1. CASE req[s] = Idle
          BY <2>1, <3>1 DEF Knows, Idle
    <3>2. CASE req[s] # Idle
      <4>1. PICK q \in RequestStates : q = req[s]
            BY <1>1
      <4>2. /\ Knows(q) /\ q = req'[s] /\ q.task \in Tasks \ {t}
            /\ q.op \in DecideOps => q.prop \in Proposals
            BY <2>1, <3>2, <4>1 DEF RunInv, Typed, RequestOK, Fits, Sound, KnowOK
      <4>3. Knows(q)'
            BY <1>3, <1>8, <4>2 DEF Knows
      <4> QED
            BY <4>2, <4>3
    <3> QED
          BY <3>1, <3>2
  <2>2. KnowOK'
        BY <1>8, <2>1 DEF KnowOK
  <2>3. NoneLeft' => NoneLeft
        BY <1>3, <1>4, <1>8 DEF NoneLeft, Tidy
  <2>4. pc = "error" /\ (status'[cur] \in Closed \/ Rearming(cur)')
           => status[cur] \in Closed \/ Rearming(cur)
        BY <1>1, <1>3, <1>4, <1>8
  <2>5. NoneLeft' => AssignedOK'
        BY <1>1, <1>3, <2>3, <2>4 DEF AssignedOK, EndsWell
  <2> QED
        BY <1>3, <1>8, <2>2, <2>5 DEF Sound, StaffOK
\* A step that writes no row of a task.
<1>9. ASSUME UNCHANGED <<status, run_state, report, memory>>, Knows(req[r])',
             step # "rearm", req'[r].step # "rearm",
             \A p \in Proposals : proposal[p] # NoRow =>
                proposal'[p] # NoRow /\ proposal'[p].task = proposal[p].task,
             \A p \in Proposals :
                 provisioned'[p] > 0
                    => proposal'[p] # NoRow /\ status[proposal'[p].task] = "gap_approved"
      PROVE  Sound' /\ Progress
  <2>1. RowsOK' /\ HandOK' /\ Progress
        BY <1>1, <1>3, <1>9 DEF RowsOK, HandOK, Progress
  <2>2. Tidy(t)' => Tidy(t)
        BY <1>4, <1>9 DEF Tidy
  <2> QED
        BY <1>4, <1>8, <1>9, <2>1, <2>2
<1> HIDE DEF op, step

<1>10. ASSUME NEW u \in Tasks, Submit(r, u) PROVE Sound' /\ Progress
  <2>0. u = t
        BY <1>1, <1>10 DEF Submit, Idle
  <2>1. /\ status[u] = "none" /\ run_state[u] = "none" /\ memory[u] = 0
        /\ report[u] \in {"none", "needs_owner_review"}
        /\ status' = [status EXCEPT ![u] = "intake"]
        /\ run_state' = [run_state EXCEPT ![u] = "queued"]
        /\ UNCHANGED <<report, memory, proposal, provisioned>>
        /\ req'[r].op = "submit" /\ req'[r].step = "enqueue" /\ step = "idle" /\ u = t
        BY <1>1, <1>10, <2>0 DEF Submit, RowsOK, Idle, step
  <2>2. /\ status'[u] = "intake" /\ run_state'[u] = "queued"
        /\ \A v \in Tasks \ {u} : status'[v] = status[v] /\ run_state'[v] = run_state[v]
        BY <1>1, <2>1
  <2>3. RowsOK'
    <3>1. ASSUME NEW p \in Proposals, provisioned[p] > 0
          PROVE  proposal[p] # NoRow /\ status'[proposal[p].task] = "gap_approved"
      <4>1. proposal[p] # NoRow /\ status[proposal[p].task] = "gap_approved"
            BY <1>1, <3>1 DEF RowsOK
      <4>2. proposal[p].task \in Tasks
            BY <1>1, <4>1 DEF ProposalRows
      <4> QED
            BY <2>1, <2>2, <4>1, <4>2
    <3> QED
        BY <1>1, <2>1, <2>2, <3>1 DEF RowsOK
  <2>4. pc \notin {"idle", "check"} => cur # u
        BY <1>1, <2>1 DEF HandOK
  <2>5. HandOK'
        BY <1>1, <1>3, <2>1, <2>2, <2>4 DEF HandOK, Alone
  <2>6. Progress
        BY <2>1 DEF Progress, Moved
  <2>7. Tidy(t)
        BY <2>1 DEF Tidy
  <2>8. Knows(req[r])'
        BY <2>1 DEF Knows
  <2> QED
        BY <1>8, <2>1, <2>2, <2>3, <2>4, <2>5, <2>6, <2>7, <2>8
<1>11. ASSUME NEW u \in Tasks, NEW o \in ReviewOps, OpenReview(r, u, o) PROVE Sound' /\ Progress
  <2>1. /\ status[u] = "needs_owner_review" /\ UNCHANGED rows
        /\ req'[r].op = o /\ req'[r].step = "status" /\ req'[r].task = u /\ step = "idle"
        BY <1>1, <1>11 DEF OpenReview, Idle, step
  <2>2. Knows(req[r])'
        BY <2>1 DEF Knows, rows
  <2> QED
        BY <1>1, <1>9, <2>1, <2>2 DEF rows, RowsOK
<1>12. ASSUME NEW p \in Proposals, NEW o \in DecideOps, DecideProposal(r, p, o)
       PROVE  Sound' /\ Progress
  <2>1. /\ proposal[p] # NoRow
        /\ proposal' = [proposal EXCEPT
                          ![p].status = IF o = "approve" THEN "approved" ELSE "rejected"]
        /\ UNCHANGED <<status, run_state, report, memory, provisioned>>
        /\ req'[r].op = o /\ req'[r].step = "status" /\ req'[r].prop = p
        /\ req'[r].task = proposal[p].task /\ step = "idle"
        BY <1>1, <1>12 DEF DecideProposal, Idle, step
  <2>2. /\ proposal'[p] # NoRow /\ proposal'[p].task = proposal[p].task
        /\ \A x \in Proposals \ {p} : proposal'[x] = proposal[x]
        BY <1>1, <2>1, ConstantsAssumption DEF ProposalRows, NoRow
  <2>3. Knows(req[r])'
        BY <2>1, <2>2 DEF Knows
  <2>4. \A x \in Proposals :
           provisioned'[x] > 0 => proposal'[x] # NoRow /\ status[proposal'[x].task] = "gap_approved"
        BY <1>1, <2>1, <2>2 DEF RowsOK
  <2> QED
        BY <1>9, <2>1, <2>2, <2>3, <2>4
<1>13. CASE CheckTask(r)
  <2>1. /\ step = "status" /\ UNCHANGED rows
        /\ \/ CanMove(t, Target[op]) /\ Goto(r, "write")
           \/ Reply(r)
        BY <1>2, <1>13 DEF CheckTask, op, step
  <2>2. CASE Reply(r)
        BY <1>1, <1>6, <1>7, <1>9, <2>1, <2>2 DEF rows, RowsOK, Idle
  <2>3. CASE CanMove(t, Target[op]) /\ Goto(r, "write")
    <3>1. /\ req'[r].step = "write" /\ req'[r].task = t /\ req'[r].op = op
          /\ req'[r].prop = req[r].prop
          BY <1>2, <1>5, <2>1, <2>3 DEF RequestSteps
    <3>2. op \in DecideOps => status[t] \in {"awaiting_approval", Target[op]}
          BY <2>3 DEF CanMove, Target, TaskTransitions
    <3>3. Knows(req[r])'
          BY <1>1, <1>2, <2>1, <3>1, <3>2 DEF Knows, rows, op, step
    <3> QED
          BY <1>1, <1>9, <2>1, <3>1, <3>3 DEF rows, RowsOK
  <2> QED
        BY <2>1, <2>2, <2>3
<1>14. CASE MoveTask(r)
  <2> DEFINE new == Target[op]
  <2>1. /\ step = "write" /\ op \in Ops /\ req[r].task = t
        /\ status' = [status EXCEPT ![t] = new]
        /\ UNCHANGED <<run_state, report, memory, proposal, provisioned>>
        /\ Goto(r, AfterMove[op])
        BY <1>2, <1>14 DEF MoveTask, op, step
  <2>2. /\ op \in ReviewOps => status[t] = "needs_owner_review"
        /\ op \in DecideOps => /\ status[t] \in {"awaiting_approval", new}
                               /\ proposal[req[r].prop] # NoRow
                               /\ proposal[req[r].prop].task = t
        BY <1>1, <2>1 DEF Knows, op, step
  <2>3. /\ op \in {"accept", "close"} => AfterMove[op] = "amend"
        /\ op = "retry" => AfterMove[op] = "rearm"
        /\ op = "approve" => AfterMove[op] = "provision"
        /\ op = "reject" => AfterMove[op] = "report"
        /\ op = "accept" => new = "delivered"
        /\ op = "retry" => new = "revision"
        /\ op = "close" => new = "cancelled"
        /\ op = "approve" => new = "gap_approved"
        /\ op = "reject" => new = "gap_rejected"
        BY DEF AfterMove, Target
  <2>4. /\ req'[r].step = AfterMove[op] /\ req'[r].task = t /\ req'[r].op = op
        /\ req'[r].prop = req[r].prop
        BY <1>5, <2>1, <2>3 DEF RequestSteps
  <2> HIDE DEF new
  <2>5. status'[t] = new /\ \A u \in Tasks \ {t} : status'[u] = status[u]
        BY <1>1, <2>1
  <2>6. /\ memory[t] = 0 /\ run_state[t] # "queued"
        /\ report[t] \in {"none", "needs_owner_review", new}
        /\ status[t] = new \/ <<status[t], new>> \in TaskTransitions
        BY <1>1, <2>1, <2>2, <2>3 DEF RowsOK, TaskTransitions
  <2>7. RowsOK'
    <3>1. ASSUME NEW p \in Proposals, provisioned[p] > 0
          PROVE  proposal[p] # NoRow /\ status'[proposal[p].task] = "gap_approved"
      <4>1. proposal[p] # NoRow /\ status[proposal[p].task] = "gap_approved"
            BY <1>1, <3>1 DEF RowsOK
      <4>2. proposal[p].task \in Tasks
            BY <1>1, <4>1 DEF ProposalRows
      <4>3. proposal[p].task = t => new = "gap_approved"
            BY <2>1, <2>2, <2>3, <4>1
      <4> QED
            BY <2>5, <4>1, <4>2, <4>3
    <3> QED
        BY <1>1, <2>1, <2>3, <2>5, <2>6, <3>1 DEF RowsOK
\* The worker is not at work on the task: it has ended, or all but ended, its run.
  <2>8. cur = t => pc \in {"idle", "check", "escalate_report", "complete", "error"}
        BY <1>1, <2>1, <2>2, <2>3, <2>6 DEF HandOK, RunInv, Typed, TypeOK, WorkerSteps
  <2>9. HandOK'
    <3>1. CASE cur # t \/ pc \in {"idle", "check"}
          BY <1>1, <1>3, <2>1, <2>5, <3>1 DEF HandOK, Alone
    <3>2. CASE cur = t /\ pc \in {"escalate_report", "complete", "error"}
          BY <1>1, <1>3, <2>1, <2>2, <2>3, <2>5, <3>2 DEF HandOK, Alone, Closed
    <3> QED
          BY <2>8, <3>1, <3>2
  <2>10. Progress
    <3>1. CASE status[t] = new
          BY <1>1, <2>1, <3>1 DEF Progress
    <3>2. CASE <<status[t], new>> \in TaskTransitions
      <4>1. new \in Statuses
            BY <2>1, <2>3
      <4> QED
            BY <2>1, <3>2, <4>1 DEF Progress, Moved
    <3> QED
          BY <2>6, <3>1, <3>2
  <2>11. Knows(req[r])'
        BY <1>3, <2>1, <2>2, <2>3, <2>4, <2>5, <2>6, <2>8 DEF Knows, Alone, new
  <2>12. Tidy(t)' => Tidy(t)
        BY <1>4, <2>1, <2>2, <2>3, <2>4, <2>5 DEF Tidy, Closed
  <2>13. pc = "error" /\ cur = t /\ (status'[t] \in Closed \/ Rearming(t)')
             => status[t] \in Closed \/ Rearming(t)
        BY <1>4, <2>1, <2>2, <2>3, <2>4, <2>5 DEF Closed
  <2> QED
        BY <1>8, <2>1, <2>5, <2>7, <2>9, <2>10, <2>11, <2>12, <2>13
\* The steps that follow the move; none of them is a move.
<1>15. CASE AmendReport(r)
  <2>1. /\ step = "amend" /\ op \in {"accept", "close"} /\ req[r].task = t
        /\ status[t] = Target[op] /\ Target[op] \in {"delivered", "cancelled"}
        /\ op = "accept" => memory[t] = 0 /\ (cur = t => pc \notin {"deliver_report", "remember"})
        BY <1>1, <1>2, <1>15 DEF AmendReport, Knows, Target, op, step
  <2>2. /\ report' = [report EXCEPT ![t] = IF @ = "none" THEN @ ELSE Target[op]]
        /\ Reply(r) \/ (op = "accept" /\ Goto(r, "remember"))
        /\ UNCHANGED <<status, run_state, memory, proposal, provisioned>>
        BY <1>1, <1>15, <2>1 DEF AmendReport, op
  <2>3. /\ \A u \in Tasks \ {t} : report'[u] = report[u]
        /\ report'[t] = IF report[t] = "none" THEN "none" ELSE status[t]
        BY <1>1, <2>1, <2>2
  <2>4. RowsOK'
        BY <1>1, <2>2, <2>3 DEF RowsOK
  <2>5. HandOK'
        BY <1>1, <1>3, <2>1, <2>2, <2>3 DEF HandOK
  <2>6. Progress
    <3>1. report[t] \in {"none", "needs_owner_review", status[t]}
          BY <1>1, <2>1 DEF RowsOK
    <3>2. CASE report[t] \in {"none", status[t]}
          BY <1>1, <2>1, <2>2, <3>2 DEF Progress
    <3>3. CASE report[t] = "needs_owner_review"
          BY <2>1, <2>2, <3>3 DEF Progress, Filed
    <3> QED
          BY <3>1, <3>2, <3>3
  <2>7. Knows(req[r])' /\ req'[r].step # "rearm"
    <3>1. CASE Reply(r)
          BY <1>6, <1>7, <3>1 DEF Idle
    <3>2. CASE op = "accept" /\ Goto(r, "remember")
      <4>1. req'[r].step = "remember" /\ req'[r].task = t /\ req'[r].op = "accept"
            BY <1>5, <2>1, <3>2 DEF RequestSteps
      <4> QED
            BY <1>3, <2>1, <2>2, <3>2, <4>1 DEF Knows, Target
    <3> QED
          BY <2>2, <3>1, <3>2
  <2>8. ~Rearming(t)' /\ (Tidy(t)' => Tidy(t))
        BY <1>4, <2>2, <2>7 DEF Tidy
  <2> QED
        BY <1>3, <1>8, <2>2, <2>4, <2>5, <2>6, <2>7, <2>8
<1>16. CASE RememberAcceptance(r)
  <2>1. /\ step = "remember" /\ req[r].task = t /\ status[t] = "delivered"
        /\ memory[t] = 0 /\ (cur = t => pc \notin {"deliver_report", "remember"})
        BY <1>1, <1>2, <1>16 DEF RememberAcceptance, Knows, step
  <2>2. /\ memory' = [memory EXCEPT ![t] = @ + 1] /\ Reply(r)
        /\ UNCHANGED <<status, run_state, report, proposal, provisioned>>
        BY <1>16, <2>1 DEF RememberAcceptance
  <2>3. memory'[t] = 1 /\ \A u \in Tasks \ {t} : memory'[u] = memory[u]
        BY <1>1, <2>1, <2>2
  <2>4. RowsOK'
        BY <1>1, <2>1, <2>2, <2>3 DEF RowsOK
  <2>5. HandOK'
        BY <1>1, <1>3, <2>1, <2>2, <2>3 DEF HandOK
  <2>6. req'[r] = Idle /\ Knows(req[r])'
        BY <1>6, <1>7, <2>2
  <2>7. ~Rearming(t)' /\ (Tidy(t)' => Tidy(t))
        BY <1>4, <1>7, <2>2, <2>6 DEF Tidy
  <2> QED
        BY <1>8, <2>2, <2>3, <2>4, <2>5, <2>6, <2>7 DEF Progress
<1>17. CASE Rearm(r)
  <2>1. /\ step = "rearm" /\ req[r].task = t /\ op = "retry"
        /\ status[t] = "revision" /\ run_state[t] # "queued" /\ (cur = t => pc \notin Alone)
        BY <1>1, <1>2, <1>17 DEF Rearm, Knows, op, step
  <2>2. /\ run_state' = [run_state EXCEPT ![t] = "queued"] /\ Goto(r, "enqueue")
        /\ UNCHANGED <<status, report, memory, proposal, provisioned>>
        BY <1>17, <2>1 DEF Rearm
  <2>3. run_state'[t] = "queued" /\ \A u \in Tasks \ {t} : run_state'[u] = run_state[u]
        BY <1>1, <2>1, <2>2
  <2>4. RowsOK'
        BY <1>1, <2>1, <2>2, <2>3 DEF RowsOK
  <2>5. HandOK'
        BY <1>1, <1>3, <2>1, <2>2, <2>3 DEF HandOK
  <2>6. req'[r].step = "enqueue" /\ req'[r].op = "retry"
        BY <1>5, <2>1, <2>2 DEF RequestSteps
  <2>7. Knows(req[r])'
        BY <2>6 DEF Knows
  <2>8. Tidy(t) /\ ~Rearming(t)'
        BY <1>4, <2>1, <2>6 DEF Tidy
  <2> QED
        BY <1>8, <2>2, <2>3, <2>4, <2>5, <2>7, <2>8 DEF Progress
<1>18. CASE Enqueue(r)
  <2>1. /\ step = "enqueue" /\ UNCHANGED rows /\ req'[r] = Idle /\ Knows(req[r])'
        BY <1>6, <1>7, <1>18 DEF Enqueue, step
  <2> QED
        BY <1>1, <1>9, <2>1 DEF rows, RowsOK, Idle
<1>19. CASE Provision(r)
  <2>1. /\ step = "provision" /\ op \in DecideOps /\ status[t] = "gap_approved"
        /\ proposal[req[r].prop] # NoRow /\ proposal[req[r].prop].task = t
        BY <1>1, <1>2, <1>19 DEF Provision, Knows, op, step
  <2>2. /\ provisioned' = [provisioned EXCEPT ![req[r].prop] = @ + 1]
        /\ UNCHANGED <<status, run_state, report, memory, proposal>>
        /\ req'[r] = Idle /\ Knows(req[r])'
        BY <1>6, <1>7, <1>19 DEF Provision
  <2>3. \A p \in Proposals :
           provisioned'[p] > 0 => proposal'[p] # NoRow /\ status[proposal'[p].task] = "gap_approved"
        BY <1>1, <1>2, <2>1, <2>2 DEF RowsOK
  <2> QED
        BY <1>9, <2>1, <2>2, <2>3 DEF Idle
<1>20. CASE ReportRejection(r)
  <2>1. step = "report" /\ req[r].task = t /\ status[t] = "gap_rejected"
        BY <1>1, <1>2, <1>20 DEF ReportRejection, Knows, step
  <2>2. /\ report' = [report EXCEPT ![t] = IF @ = "none" THEN "gap_rejected" ELSE @]
        /\ UNCHANGED <<status, run_state, memory, proposal, provisioned>>
        /\ req'[r] = Idle /\ Knows(req[r])'
        BY <1>6, <1>7, <1>20, <2>1 DEF ReportRejection
  <2>3. /\ \A u \in Tasks \ {t} : report'[u] = report[u]
        /\ report'[t] = IF report[t] = "none" THEN status[t] ELSE report[t]
        BY <1>1, <2>1, <2>2
  <2>4. RowsOK'
        BY <1>1, <2>2, <2>3 DEF RowsOK
  <2>5. HandOK'
        BY <1>1, <1>3, <2>1, <2>2, <2>3 DEF HandOK
  <2>6. Progress
    <3>1. CASE report[t] = "none"
          BY <2>1, <2>2, <3>1 DEF Progress, Filed
    <3>2. CASE report[t] # "none"
          BY <1>1, <2>2, <3>2 DEF Progress
    <3> QED
          BY <3>1, <3>2
  <2>7. ~Rearming(t)' /\ (Tidy(t)' => Tidy(t))
        BY <1>4, <1>7, <2>2 DEF Tidy
  <2> QED
        BY <1>8, <2>2, <2>4, <2>5, <2>6, <2>7
<1>21. CASE SubmitFails(r)
  <2>1. /\ step = "enqueue" /\ UNCHANGED rows /\ req'[r] = Idle /\ Knows(req[r])'
        BY <1>6, <1>7, <1>21 DEF SubmitFails, step
  <2> QED
        BY <1>1, <1>9, <2>1 DEF rows, RowsOK, Idle
<1> QED
    BY <1>10, <1>11, <1>12, <1>13, <1>14, <1>15, <1>16, <1>17, <1>18, <1>19, <1>20, <1>21
       DEF Owner, Continue

-----------------------------------------------------------------------------
(* Start-up and crashes *)

LEMMA ServerSound ==
    ASSUME RunInv, Sound, Recovery \/ Crash
    PROVE  Sound' /\ Progress
<1>1. /\ crashes \in Nat /\ run_state \in [Tasks -> RunStates]
      /\ RowsOK /\ HandOK /\ KnowOK /\ StaffOK
      /\ server # "up" => pc = "idle" /\ \A r \in Requests : req[r] = Idle
      BY ConstantsAssumption DEF RunInv, Typed, TypeOK, WorkerOK, Sound
<1>2. ASSUME UNCHANGED <<rows, worker, req, crashes>>, server # "up" PROVE Sound' /\ Progress
  <2>1. RowsOK' /\ HandOK' /\ KnowOK'
        BY <1>1, <1>2 DEF RowsOK, HandOK, KnowOK, Knows, rows, worker
  <2>2. (NoneLeft' => NoneLeft) /\ (\A t \in Tasks : Rearming(t)' <=> Rearming(t))
        BY <1>2 DEF NoneLeft, Tidy, Rearming, rows
  <2>3. StaffOK'
        BY <1>1, <1>2, <2>2 DEF StaffOK, AssignedOK, EndsWell, rows, worker
  <2> QED
        BY <1>2, <2>1, <2>3 DEF Sound, Progress, rows
<1>3. CASE Boot \/ RunningRecovered \/ Serve
  BY <1>2, <1>3 DEF Boot, RunningRecovered, Serve
<1>4. ASSUME NEW t \in Tasks, RecoverQueued(t) PROVE Sound' /\ Progress
  BY <1>2, <1>4 DEF RecoverQueued
\* Only a crash leaves a run to fail, and after one nothing is said of who is assigned.
<1>5. ASSUME NEW t \in Tasks, RecoverRunning(t) PROVE Sound' /\ Progress
  <2>1. /\ run_state[t] = "running" /\ server # "up" /\ server' = server
        /\ run_state' = [run_state EXCEPT ![t] = "failed"]
        /\ UNCHANGED <<status, report, memory, proposal, provisioned, assigned,
                       worker, req, crashes>>
        BY <1>5 DEF RecoverRunning
  <2>2. crashes # 0
        BY <1>1, <2>1 DEF StaffOK
  <2>3. run_state'[t] = "failed" /\ \A u \in Tasks \ {t} : run_state'[u] = run_state[u]
        BY <1>1, <2>1
  <2>4. RowsOK'
        BY <1>1, <2>1, <2>3 DEF RowsOK
  <2>5. HandOK' /\ KnowOK'
        BY <1>1, <2>1 DEF HandOK, KnowOK, Knows, Idle, Alone, worker
  <2>6. StaffOK'
        BY <2>1, <2>2 DEF StaffOK, NoneLeft
  <2> QED
        BY <2>1, <2>4, <2>5, <2>6 DEF Sound, Progress
<1>6. CASE Crash
  <2>1. /\ crashes' = crashes + 1 /\ server' = "down" /\ pc' = "idle" /\ cur' = NoTask
        /\ req' = [r \in Requests |-> Idle] /\ UNCHANGED rows
        BY <1>6 DEF Crash
  <2>2. RowsOK' /\ HandOK' /\ KnowOK'
        BY <1>1, <2>1 DEF RowsOK, HandOK, KnowOK, Knows, Idle, Alone, rows
  <2>3. StaffOK'
        BY <1>1, <2>1 DEF StaffOK, NoneLeft
  <2> QED
        BY <2>1, <2>2, <2>3 DEF Sound, Progress, rows
<1> QED
  BY <1>3, <1>4, <1>5, <1>6 DEF Recovery

-----------------------------------------------------------------------------
(* The theorems *)

LEMMA InitSound == Init => Sound
<1> SUFFICES ASSUME Init PROVE Sound
  OBVIOUS
<1>1. RowsOK /\ HandOK /\ KnowOK
  BY DEF Init, RowsOK, HandOK, KnowOK, Knows, Idle, Alone
<1>2. StaffOK
  BY DEF Init, StaffOK, AssignedOK, EndsWell
<1> QED
  BY <1>1, <1>2 DEF Sound

LEMMA NextSound ==
    ASSUME RunInv, Sound, OnePerTask, OnePerTask', [Next]_vars
    PROVE  Sound' /\ Progress
<1>1. ASSUME NEW r \in Requests, Owner(r) PROVE Sound' /\ Progress
  <2>1. /\ req \in [Requests -> RequestStates] /\ proposal \in [Proposals -> ProposalRows \cup {NoRow}]
        /\ Idle.step = "idle" /\ (req[r].step # "idle" => req[r].task \in Tasks)
        /\ Fits(req[r])
        BY DEF RunInv, Typed, TypeOK, RequestOK, Fits, Idle
  <2>2. /\ \A s \in Requests \ {r} : req'[s] = req[s]
        /\ \E t \in Tasks : /\ req[r] # Idle => req[r].task = t
                            /\ req'[r] # Idle => req'[r].task = t
                            /\ req[r] # Idle \/ req'[r] # Idle
    <3>1. CASE Continue(r)
      <4>1. req[r] # Idle /\ req[r].task \in Tasks
            BY <2>1, <3>1 DEF Continue, CheckTask, MoveTask, AmendReport, RememberAcceptance,
                              Rearm, Enqueue, SubmitFails, Provision, ReportRejection
      <4>2. Reply(r) \/ \E step \in RequestSteps : Goto(r, step)
        <5>1. ASSUME MoveTask(r) PROVE AfterMove[req[r].op] \in RequestSteps
          <6>1. req[r].op \in Ops
                BY <2>1, <5>1 DEF Fits, MoveTask
          <6> QED
                BY <6>1 DEF AfterMove, RequestSteps
        <5> QED
            BY <3>1, <5>1
               DEF Continue, CheckTask, MoveTask, AmendReport, RememberAcceptance, Rearm,
                   Enqueue, SubmitFails, Provision, ReportRejection, RequestSteps
      <4>3. CASE Reply(r)
            BY <2>1, <4>1, <4>3, ReplyTyped
      <4>4. ASSUME NEW step \in RequestSteps, Goto(r, step)
            PROVE  req'[r].task = req[r].task /\ \A s \in Requests \ {r} : req'[s] = req[s]
        <5>1. /\ req'[r] = [req[r] EXCEPT !.step = step]
              /\ \A s \in Requests \ {r} : req'[s] = req[s]
              BY <2>1, <4>4, GotoTyped
        <5> QED
            BY <2>1, <5>1 DEF RequestStates
      <4> QED
            BY <4>1, <4>2, <4>3, <4>4
    <3>2. ASSUME NEW t \in Tasks, Submit(r, t)
          PROVE  /\ req[r] = Idle /\ req'[r].step = "enqueue" /\ req'[r].task = t
                 /\ \A s \in Requests \ {r} : req'[s] = req[s]
          BY <2>1, <3>2 DEF Submit, Idle
    <3>3. ASSUME NEW t \in Tasks, NEW op \in ReviewOps, OpenReview(r, t, op)
          PROVE  /\ req[r] = Idle /\ req'[r].step = "status" /\ req'[r].task = t
                 /\ \A s \in Requests \ {r} : req'[s] = req[s]
          BY <2>1, <3>3 DEF OpenReview, Idle
    <3>4. ASSUME NEW p \in Proposals, NEW op \in DecideOps, DecideProposal(r, p, op)
          PROVE  /\ req[r] = Idle /\ req'[r].step = "status" /\ req'[r].task = proposal[p].task
                 /\ proposal[p].task \in Tasks
                 /\ \A s \in Requests \ {r} : req'[s] = req[s]
          BY <2>1, <3>4 DEF DecideProposal, Idle, ProposalRows
    <3> QED
          BY <1>1, <2>1, <3>1, <3>2, <3>3, <3>4 DEF Owner
  <2>3. PICK t \in Tasks : /\ req[r] # Idle => req[r].task = t
                           /\ req'[r] # Idle => req'[r].task = t
                           /\ req[r] # Idle \/ req'[r] # Idle
        BY <2>2
  <2>4. ASSUME NEW s \in Requests \ {r}, req[s] # Idle PROVE req[s].task # t
        BY <2>2, <2>3, <2>4 DEF OnePerTask
  <2> QED
        BY <1>1, <2>2, <2>3, <2>4, OwnerSound
<1>2. ASSUME UNCHANGED vars PROVE Sound' /\ Progress
  <2>1. RowsOK' /\ HandOK' /\ KnowOK'
        BY <1>2 DEF Sound, RowsOK, HandOK, KnowOK, Knows, vars
  <2>2. StaffOK'
        BY <1>2 DEF Sound, StaffOK, AssignedOK, NoneLeft, Tidy, Rearming, vars
  <2> QED
        BY <1>2, <2>1, <2>2 DEF Sound, Progress, vars
<1> QED
  BY <1>1, <1>2, WorkerSound, ServerSound DEF Next

LEMMA SoundInvariant == Spec /\ []OnePerTask => [](RunInv /\ Sound) /\ [][Progress]_vars
<1>1. Spec => []RunInv
  BY RunInvariant
<1>2. RunInv /\ Sound /\ OnePerTask /\ OnePerTask' /\ [Next]_vars => Sound' /\ [Progress]_vars
  BY NextSound
<1> QED
  BY <1>1, <1>2, InitSound, PTL DEF Spec

\* One thread for the Owner's requests keeps them from overlapping.
LEMMA OneThread ==
    ASSUME \A r, s \in Requests : r = s
    PROVE  []OnePerTask
<1>1. OnePerTask
  BY DEF OnePerTask
<1> QED
  BY <1>1, PTL

(* The report of a task never claims an outcome the task does not have, in *)
(* whatever order the worker and the Owner's request write the status and  *)
(* the report, and wherever a crash cuts one of them short (create_report, *)
(* update_report_terminal_outcome).                                        *)
THEOREM ReportsAreTrue == Spec /\ []OnePerTask => []ReportIsTrue
<1>1. Sound => ReportIsTrue
  BY DEF Sound, RowsOK, ReportIsTrue
<1> QED
  BY <1>1, SoundInvariant, PTL

(* Memory is written about delivered tasks only and once, by the worker    *)
(* that delivered the task or by accept_draft, never by both.              *)
THEOREM MemoryIsOfDelivered == Spec /\ []OnePerTask => []MemoryOfDelivered
<1>1. Sound => MemoryOfDelivered
  BY DEF Sound, RowsOK, MemoryOfDelivered
<1> QED
  BY <1>1, SoundInvariant, PTL

(* However many runs there were, when none of them failed and nothing      *)
(* crashed, nobody is still shown as assigned between two runs: each way   *)
(* out of lifecycle.run that is not an exception releases everyone.        *)
THEOREM NobodyIsLeft == Spec /\ []OnePerTask => []EmployeesReleased
<1>1. RunInv /\ Sound => EmployeesReleased
  BY DEF Sound, StaffOK, AssignedOK, NoneLeft, Tidy, EmployeesReleased
<1> QED
  BY <1>1, SoundInvariant, PTL

(* Employees are provisioned only for a gap the Owner approved, however    *)
(* often, and in whatever order, approve_proposal and reject_proposal are  *)
(* called one after the other.                                             *)
THEOREM OnlyApprovedIsProvisioned == Spec /\ []OnePerTask => []ProvisionedIsApproved
<1>1. Sound => ProvisionedIsApproved
  BY DEF Sound, RowsOK, ProvisionedIsApproved
<1> QED
  BY <1>1, SoundInvariant, PTL

(* While the server serves, the one task shown as running is the one the   *)
(* living worker thread has in hand: process_one claims one at a time,     *)
(* recover_interrupted_tasks leaves none behind, and the thread does not   *)
(* die over the one it has.                                                *)
THEOREM OneRunAtATime == Spec /\ []OnePerTask => []RunningIsOwned
<1>1. RunInv /\ Sound => RunningIsOwned
  BY DEF RunInv, Owned, Sound, HandOK, RunningIsOwned, Unclaimed
<1> QED
  BY <1>1, SoundInvariant, PTL

(* The worker thread survives: the transition and the report in process_   *)
(* one's BudgetError handler, which nothing catches, are never refused.    *)
THEOREM WorkerNeverDies == Spec /\ []OnePerTask => []WorkerSurvives
<1>1. Sound => WorkerSurvives
  BY DEF Sound, HandOK, WorkerSurvives
<1> QED
  BY <1>1, SoundInvariant, PTL

(* Nothing leads out of a settled status (TASK_TRANSITIONS), although the  *)
(* check and the update of update_task_status are two steps with the steps *)
(* of the worker and of a crash between them.                              *)
THEOREM SettledStaysSettled == Spec /\ []OnePerTask => SettledIsFinal
<1> DEFINE Final == \A t \in Tasks : status[t] \in Terminal \ {"needs_owner_review"}
                                         => status'[t] = status[t]
<1>1. ASSUME RunInv, [Progress]_vars PROVE [Final]_vars
  <2>1. status \in [Tasks -> Statuses \cup {"none"}]
        BY <1>1 DEF RunInv, Typed, TypeOK
  <2>2. CASE Moved
    <3>1. PICK t \in Tasks, s \in Statuses :
            /\ status[t] = "none" \/ <<status[t], s>> \in TaskTransitions
            /\ status' = [status EXCEPT ![t] = s]
          BY <2>2 DEF Moved
    <3>2. status[t] \notin Terminal \ {"needs_owner_review"}
          BY <3>1 DEF TaskTransitions
    <3> QED
          BY <2>1, <3>1, <3>2
  <2>3. CASE Filed \/ UNCHANGED status
        BY <2>3 DEF Filed
  <2> QED
        BY <1>1, <2>2, <2>3 DEF Progress, vars
<1> HIDE DEF Final
<1>2. Spec /\ []OnePerTask => [][Final]_vars
  BY <1>1, SoundInvariant, PTL
<1> QED
  BY <1>2 DEF SettledIsFinal, Final

-----------------------------------------------------------------------------
(* The refinement of TaskContract *)

\* Where a row of the transition table leads in the contract.
LEMMA MoveRefines ==
    ASSUME NEW t \in Tasks, NEW s \in Statuses, status \in [Tasks -> Statuses \cup {"none"}],
           \/ status[t] = "none" /\ s = "intake"
           \/ <<status[t], s>> \in TaskTransitions,
           status' = [status EXCEPT ![t] = s], UNCHANGED report
    PROVE  Contract!Next \/ UNCHANGED Contract!vars
<1> DEFINE outcome == [u \in Tasks |-> Outcome(status[u])]
<1>1. /\ status'[t] = s /\ \A u \in Tasks \ {t} : status'[u] = status[u]
      OBVIOUS
<1>2. outcome' = [outcome EXCEPT ![t] = Outcome(s)]
      BY <1>1
<1>3. ASSUME Outcome(status[t]) = Outcome(s) PROVE UNCHANGED Contract!vars
  <2>1. outcome' = outcome
        BY <1>2, <1>3
  <2> QED
      BY <2>1 DEF Contract!vars
<1>4. /\ Outcome("none") = "absent" /\ Outcome("needs_owner_review") = "draft"
      /\ \A x \in InFlight \cup Gap : Outcome(x) = "open"
      /\ \A x \in {"delivered", "failed", "cancelled", "gap_rejected"} : Outcome(x) = x
      BY DEF Outcome
<1>5. outcome[t] = Outcome(status[t])
      OBVIOUS
<1> HIDE DEF outcome
<1>6. \/ Outcome(status[t]) = Outcome(s)
      \/ outcome[t] = "absent" /\ Outcome(s) = "open"
      \/ outcome[t] = "open" /\ Outcome(s) = "draft"
      \/ outcome[t] = "draft" /\ Outcome(s) = "open"
      \/ outcome[t] = "open" /\ Outcome(s) \in {"delivered", "failed", "gap_rejected"}
      \/ outcome[t] = "draft" /\ Outcome(s) \in {"delivered", "cancelled"}
  <2>1. CASE status[t] = "none" /\ s = "intake"
        BY <1>4, <1>5, <2>1
  <2>2. CASE status[t] \in InFlight /\ s = "failed"
        BY <1>4, <1>5, <2>2
  <2>3. CASE s # "failed" /\ <<status[t], s>> \in TaskTransitions
        BY <1>4, <1>5, <2>3 DEF TaskTransitions
  <2> QED
        BY <2>1, <2>2, <2>3 DEF TaskTransitions
<1>7. CASE Outcome(status[t]) = Outcome(s)
      BY <1>3, <1>7
<1>8. CASE outcome[t] = "absent" /\ Outcome(s) = "open"
  <2>1. Contract!Submit(t)
        BY <1>2, <1>8 DEF Contract!Submit, outcome
  <2> QED
        BY <2>1 DEF Contract!Next
<1>9. CASE outcome[t] = "open" /\ Outcome(s) = "draft"
  <2>1. Contract!Escalate(t)
        BY <1>2, <1>9 DEF Contract!Escalate, outcome
  <2> QED
        BY <2>1 DEF Contract!Next
<1>10. CASE outcome[t] = "draft" /\ Outcome(s) = "open"
  <2>1. Contract!Reopen(t)
        BY <1>2, <1>10 DEF Contract!Reopen, outcome
  <2> QED
        BY <2>1 DEF Contract!Next
<1>11. CASE \/ outcome[t] = "open" /\ Outcome(s) \in {"delivered", "failed", "gap_rejected"}
            \/ outcome[t] = "draft" /\ Outcome(s) \in {"delivered", "cancelled"}
  <2>1. PICK end \in Contract!Settled : end = Outcome(s)
        BY <1>11 DEF Contract!Settled
  <2>2. Contract!Settle(t, end)
        BY <1>2, <1>11, <2>1 DEF Contract!Settle, Contract!Settled, outcome
  <2> QED
        BY <2>2 DEF Contract!Next
<1> QED
      BY <1>6, <1>7, <1>8, <1>9, <1>10, <1>11

\* A report is filed, or a draft's report amended, as the contract allows.
LEMMA FileRefines ==
    ASSUME Filed
    PROVE  Contract!Next
<1>1. PICK t \in Tasks :
        /\ report[t] \in {"none", "needs_owner_review"}
        /\ \/ /\ report[t] = "none" /\ status[t] \in Closed \cup {"revision"}
              /\ report' = [report EXCEPT ![t] = "needs_owner_review"]
           \/ /\ status[t] \in Terminal \ {"needs_owner_review"}
              /\ report' = [report EXCEPT ![t] = status[t]]
        /\ UNCHANGED status
      BY DEF Filed
<1>2. CASE /\ report[t] = "none" /\ status[t] \in Closed \cup {"revision"}
           /\ report' = [report EXCEPT ![t] = "needs_owner_review"]
  <2>1. Outcome(status[t]) \in {"open", "draft", "delivered", "cancelled"}
        BY <1>2 DEF Outcome, Closed
  <2>2. Contract!FileDraft(t)
        BY <1>1, <1>2, <2>1 DEF Contract!FileDraft
  <2> QED
        BY <2>2 DEF Contract!Next
<1>3. CASE /\ status[t] \in Terminal \ {"needs_owner_review"}
           /\ report' = [report EXCEPT ![t] = status[t]]
  <2>1. Outcome(status[t]) = status[t] /\ status[t] \in Contract!Settled
        BY <1>3 DEF Outcome, Contract!Settled
  <2>2. Contract!FileOutcome(t)
        BY <1>1, <1>3, <2>1 DEF Contract!FileOutcome
  <2> QED
        BY <2>2 DEF Contract!Next
<1> QED
      BY <1>1, <1>2, <1>3

(* The program implements the contract: what the pipeline, the Owner's     *)
(* request and a crash do to the status and the report of a task are, step *)
(* by step, submissions, escalations, reopenings, settlements and filings  *)
(* of TaskContract, or nothing the Owner sees.                             *)
THEOREM ContractRefined == Spec /\ []OnePerTask => ContractHolds
<1>1. Init => Contract!Init
  BY DEF Init, Contract!Init, Outcome
<1>2. ASSUME RunInv, [Progress]_vars PROVE [Contract!Next]_(Contract!vars)
  <2>1. status \in [Tasks -> Statuses \cup {"none"}]
        BY <1>2 DEF RunInv, Typed, TypeOK
  <2>2. CASE UNCHANGED <<status, report>>
        BY <2>2 DEF Contract!vars
  <2>3. CASE Moved
        BY <2>1, <2>3, MoveRefines DEF Moved
  <2>4. CASE Filed
        BY <2>4, FileRefines
  <2> QED
        BY <1>2, <2>2, <2>3, <2>4 DEF Progress, vars
<1> QED
  BY <1>1, <1>2, SoundInvariant, PTL DEF Spec, ContractHolds, Contract!Spec

=============================================================================
