-------------------------- MODULE ProductTaskProofs --------------------------
(***************************************************************************)
(* TLAPS proofs about ProductTask, for any number of tasks, proposals,     *)
(* specialists and request threads, any faults and any number of crashes.  *)
(***************************************************************************)
EXTENDS ProductTask, TLAPS

(* What a request thread holds at each of its steps. *)
Fits(q) ==
    /\ q.step = "idle" => q = Idle
    /\ q.step # "idle" => q.task \in Tasks
    /\ q.step \in {"status", "write"} => q.op \in Ops
    /\ q.step = "amend" => q.op \in {"accept", "close"}
    /\ q.step = "provision" => q.prop \in Proposals
    /\ q.op \in DecideOps => q.prop \in Proposals

RequestOK == \A r \in Requests : Fits(req[r])

(* What the worker thread holds, and that only a serving process has       *)
(* threads.                                                                *)
WorkerOK ==
    /\ pc = "idle" <=> cur = NoTask
    /\ checked => pc \in DOMAIN Moves
    /\ pc \in {"skills", "execution"} => staffed \in Specialists
    /\ server # "up" => pc = "idle" /\ \A r \in Requests : req[r] = Idle

Typed == TypeOK /\ RequestOK /\ WorkerOK

\* A request thread as it goes on: still a request thread, and no other moves.
LEMMA GotoTyped ==
    ASSUME req \in [Requests -> RequestStates], NEW r \in Requests,
           NEW step \in RequestSteps, Goto(r, step)
    PROVE  /\ req' \in [Requests -> RequestStates]
           /\ req'[r] = [req[r] EXCEPT !.step = step]
           /\ \A s \in Requests \ {r} : req'[s] = req[s]
<1>1. [req[r] EXCEPT !.step = step] \in RequestStates
  BY DEF RequestStates
<1>2. req' = [req EXCEPT ![r] = [req[r] EXCEPT !.step = step]]
  BY DEF Goto
<1> QED
  BY <1>1, <1>2

LEMMA ReplyTyped ==
    ASSUME req \in [Requests -> RequestStates], NEW r \in Requests, Reply(r)
    PROVE  /\ req' \in [Requests -> RequestStates]
           /\ req'[r] = Idle
           /\ \A s \in Requests \ {r} : req'[s] = req[s]
<1>1. Idle \in RequestStates
  BY DEF Idle, RequestStates, RequestSteps
<1> QED
  BY <1>1 DEF Reply

USE DEF ReviewOps, DecideOps, Ops, Statuses, InFlight, Gap, Terminal, RunStates, WorkerSteps, RequestSteps,
        history

LEMMA InitTyped == Init => Typed
<1> SUFFICES ASSUME Init PROVE Typed
  OBVIOUS
<1> USE ConstantsAssumption DEF Init
<1>1. Idle \in RequestStates /\ Fits(Idle)
  BY DEF Idle, RequestStates, Fits
<1>2. TypeOK
  <2>1. queue \in Seq(Tasks) /\ 0 \in 0..MaxCrashes
    OBVIOUS
  <2>2. /\ proposal \in [Proposals -> ProposalRows \cup {NoRow}]
        /\ provisioned \in [Proposals -> Nat]
        /\ req \in [Requests -> RequestStates]
    BY <1>1
  <2>3. /\ status \in [Tasks -> Statuses \cup {"none"}]
        /\ run_state \in [Tasks -> RunStates]
        /\ report \in [Tasks -> Terminal \cup {"none"}]
        /\ memory \in [Tasks -> Nat]
    OBVIOUS
  <2> QED
    BY <2>1, <2>2, <2>3 DEF TypeOK
<1>3. RequestOK
  BY <1>1 DEF RequestOK
<1>4. WorkerOK
  BY DEF WorkerOK
<1> QED
  BY <1>2, <1>3, <1>4 DEF Typed

LEMMA WorkerTyped == Typed /\ Worker => Typed'
<1> SUFFICES ASSUME Typed, Worker PROVE Typed'
  OBVIOUS
<1> USE ConstantsAssumption DEF Typed, TypeOK, WorkerOK, rows, Moves
<1>1. ASSUME UNCHANGED req PROVE RequestOK'
  BY <1>1 DEF RequestOK
<1> USE <1>1
<1>2. CASE Take
  BY <1>2 DEF Take
<1>3. CASE ReadRow
  BY <1>3 DEF ReadRow
<1>4. CASE Claim
  BY <1>4 DEF Claim
<1>5. CASE Pipeline
  <2> USE DEF MoveStatus, InsertReport
  <2>1. CASE CheckMove
    <3>1. assigned' \subseteq {"orchestrator", "qa"} \cup Specialists
      BY <2>1 DEF CheckMove, Released
    <3>2. /\ pc' \in {pc, "dead", "error"} /\ checked' \in BOOLEAN
          /\ checked' => pc' = pc /\ pc \in DOMAIN Moves
      BY <2>1 DEF CheckMove
    <3>3. TypeOK'
      BY <2>1, <3>1, <3>2 DEF CheckMove, WorkerSteps
    <3>4. WorkerOK'
      BY <2>1, <3>2 DEF CheckMove
    <3> QED
      BY <2>1, <3>3, <3>4 DEF CheckMove
  <2>2. CASE Plan
    BY <2>2 DEF Plan
  <2>3. CASE Staff
    BY <2>3 DEF Staff
  <2>4. CASE SelectSpecialist
    BY <2>4 DEF SelectSpecialist, Outages
  <2>5. CASE DraftProposal
    BY <2>5 DEF DraftProposal, Outages
  <2>6. CASE Propose
    <3>1. PICK p \in Proposals :
             proposal' = [proposal EXCEPT ![p] = [task |-> cur, status |-> "pending"]]
      BY <2>6 DEF Propose
    <3>2. [task |-> cur, status |-> "pending"] \in ProposalRows
      BY <2>6 DEF Propose, ProposalRows
    <3>3. proposal' \in [Proposals -> ProposalRows \cup {NoRow}]
      BY <3>1, <3>2
    <3> QED
      BY <2>6, <3>3 DEF Propose
  <2>7. CASE AwaitApproval
    BY <2>7 DEF AwaitApproval
  <2>8. CASE ResolveSkills
    BY <2>8 DEF ResolveSkills
  <2>9. CASE FailSkills
    BY <2>9 DEF FailSkills
  <2>10. CASE ReportSkillFailure
    BY <2>10 DEF ReportSkillFailure
  <2>11. CASE Execute
    BY <2>11 DEF Execute
  <2>12. CASE Work
    BY <2>12 DEF Work, Outages
  <2>13. CASE SendToQA
    BY <2>13 DEF SendToQA
  <2>14. CASE Review
    BY <2>14 DEF Review, Outages
  <2>15. CASE Revise
    BY <2>15 DEF Revise
  <2>16. CASE Escalate
    BY <2>16 DEF Escalate
  <2>17. CASE ReportDraft
    BY <2>17 DEF ReportDraft
  <2>18. CASE Deliver
    BY <2>18 DEF Deliver
  <2>19. CASE ReportDelivery
    BY <2>19 DEF ReportDelivery
  <2>20. CASE Remember
    BY <2>20 DEF Remember
  <2> QED
    BY <1>5, <2>1, <2>2, <2>3, <2>4, <2>5, <2>6, <2>7, <2>8, <2>9, <2>10, <2>11,
       <2>12, <2>13, <2>14, <2>15, <2>16, <2>17, <2>18, <2>19, <2>20 DEF Pipeline
<1>6. CASE BudgetCheck
  BY <1>6 DEF BudgetCheck
<1>7. CASE BudgetFail
  BY <1>7 DEF BudgetFail, MoveStatus
<1>8. CASE BudgetReport
  BY <1>8 DEF BudgetReport
<1>9. CASE BudgetInsert
  BY <1>9 DEF BudgetInsert, InsertReport
<1>10. CASE Finish
  <2>1. Ends[pc] \in RunStates /\ pc # "idle" /\ cur \in Tasks /\ server = "up"
    BY <1>10 DEF Finish, Ends
  <2>2. ~checked
    BY <1>10 DEF Finish, Ends
  <2>3. run_state' \in [Tasks -> RunStates]
    BY <1>10, <2>1 DEF Finish
  <2>4. TypeOK'
    BY <1>10, <2>3 DEF Finish
  <2>5. WorkerOK'
    BY <1>10, <2>1, <2>2 DEF Finish
  <2> QED
    BY <1>10, <2>4, <2>5 DEF Finish
<1> QED
  BY <1>2, <1>3, <1>4, <1>5, <1>6, <1>7, <1>8, <1>9, <1>10 DEF Worker

LEMMA OwnerTyped ==
    ASSUME Typed, NEW r \in Requests, Owner(r)
    PROVE  Typed'
<1> USE ConstantsAssumption DEF Typed
<1>1. req \in [Requests -> RequestStates] /\ Fits(req[r])
  BY DEF TypeOK, RequestOK
\* A request thread that starts, goes on or ends leaves the others alone.
<1>2. ASSUME req' \in [Requests -> RequestStates], Fits(req'[r]),
             \A s \in Requests \ {r} : req'[s] = req[s]
      PROVE  RequestOK'
  BY <1>2 DEF RequestOK
<1>3. Fits(Idle)
  BY DEF Idle, Fits
<1>4. ASSUME UNCHANGED <<server, worker>>, server = "up" PROVE WorkerOK'
  BY <1>4 DEF WorkerOK, worker
<1>5. req[r].step # "idle" => server = "up"
  BY DEF WorkerOK, Idle
<1>6. ASSUME NEW q \in RequestStates, req' = [req EXCEPT ![r] = q]
      PROVE  /\ req' \in [Requests -> RequestStates]
             /\ req'[r] = q
             /\ \A s \in Requests \ {r} : req'[s] = req[s]
  BY <1>1, <1>6
<1>7. ASSUME NEW t \in Tasks, Submit(r, t) PROVE Typed'
  <2>1. [Idle EXCEPT !.op = "submit", !.step = "enqueue", !.task = t] \in RequestStates
    BY DEF Idle, RequestStates
  <2>2. Fits([Idle EXCEPT !.op = "submit", !.step = "enqueue", !.task = t])
    BY DEF Idle, Fits
  <2>3. RequestOK' /\ req' \in [Requests -> RequestStates]
    BY <1>2, <1>6, <1>7, <2>1, <2>2 DEF Submit
  <2>4. TypeOK'
    BY <1>7, <2>3 DEF Submit, TypeOK, worker
  <2> QED
    BY <1>4, <1>7, <2>3, <2>4 DEF Submit
<1>8. ASSUME NEW t \in Tasks, NEW op \in ReviewOps, OpenReview(r, t, op) PROVE Typed'
  <2>1. [Idle EXCEPT !.op = op, !.step = "status", !.task = t] \in RequestStates
    BY DEF Idle, RequestStates
  <2>2. Fits([Idle EXCEPT !.op = op, !.step = "status", !.task = t])
    BY DEF Idle, Fits
  <2>3. RequestOK' /\ req' \in [Requests -> RequestStates]
    BY <1>2, <1>6, <1>8, <2>1, <2>2 DEF OpenReview
  <2>4. TypeOK'
    BY <1>8, <2>3 DEF OpenReview, TypeOK, worker, rows
  <2> QED
    BY <1>4, <1>8, <2>3, <2>4 DEF OpenReview
<1>9. ASSUME NEW p \in Proposals, NEW op \in DecideOps, DecideProposal(r, p, op) PROVE Typed'
  <2> DEFINE q == [Idle EXCEPT !.op = op, !.step = "status", !.task = proposal[p].task,
                               !.prop = p]
             decision == IF op = "approve" THEN "approved" ELSE "rejected"
             row == [proposal[p] EXCEPT !.status = decision]
  <2>1. proposal[p] \in ProposalRows
    BY <1>9 DEF DecideProposal, TypeOK
  <2>2. q \in RequestStates /\ Fits(q)
    BY <2>1 DEF Idle, RequestStates, Fits, ProposalRows
  <2>3. RequestOK' /\ req' \in [Requests -> RequestStates]
    BY <1>2, <1>6, <1>9, <2>2 DEF DecideProposal
  <2>4. row \in ProposalRows
    BY <2>1 DEF ProposalRows
  <2>5. proposal' = [proposal EXCEPT ![p] = row]
    BY <1>9 DEF DecideProposal
  <2>6. proposal' \in [Proposals -> ProposalRows \cup {NoRow}]
    BY <2>4, <2>5 DEF TypeOK
  <2>7. TypeOK'
    BY <1>9, <2>3, <2>6 DEF DecideProposal, TypeOK, worker
  <2> QED
    BY <1>4, <1>9, <2>3, <2>7 DEF DecideProposal
<1>10. CASE Continue(r)
  <2>1. ASSUME NEW step \in RequestSteps \ {"idle"}, Goto(r, step),
               step \in {"status", "write"} => req[r].op \in Ops,
               step = "amend" => req[r].op \in {"accept", "close"},
               step = "provision" => req[r].prop \in Proposals,
               req[r].step # "idle"
        PROVE  RequestOK' /\ req' \in [Requests -> RequestStates]
    <3>1. Fits([req[r] EXCEPT !.step = step])
      BY <1>1, <2>1 DEF Fits, RequestStates
    <3> QED
      BY <1>1, <1>2, <2>1, <3>1, GotoTyped
  <2>2. ASSUME Reply(r) PROVE RequestOK' /\ req' \in [Requests -> RequestStates]
    BY <1>1, <1>2, <1>3, <2>2, ReplyTyped
  <2>3. CASE CheckTask(r)
    <3>1. RequestOK' /\ req' \in [Requests -> RequestStates]
      BY <1>1, <2>1, <2>2, <2>3 DEF CheckTask, Fits
    <3>2. TypeOK'
      BY <2>3, <3>1 DEF CheckTask, TypeOK, worker, rows
    <3> QED
      BY <1>4, <1>5, <2>3, <3>1, <3>2 DEF CheckTask
  <2>4. CASE MoveTask(r)
    <3>1. req[r].op \in Ops
      BY <1>1, <2>4 DEF MoveTask, Fits
    <3>2. Target[req[r].op] \in Statuses
      BY <3>1 DEF Target
    <3>3. /\ AfterMove[req[r].op] \in RequestSteps \ {"idle", "status", "write"}
          /\ AfterMove[req[r].op] = "amend" => req[r].op \in {"accept", "close"}
          /\ AfterMove[req[r].op] = "provision" => req[r].op \in DecideOps
      BY <3>1 DEF AfterMove
    <3>4. RequestOK' /\ req' \in [Requests -> RequestStates]
      BY <1>1, <2>1, <2>4, <3>3 DEF MoveTask, Fits
    <3>5. status' \in [Tasks -> Statuses \cup {"none"}]
      BY <2>4, <3>2 DEF MoveTask, TypeOK
    <3>6. TypeOK'
      BY <2>4, <3>4, <3>5 DEF MoveTask, TypeOK, worker
    <3> QED
      BY <1>4, <1>5, <2>4, <3>4, <3>6 DEF MoveTask
  <2>5. CASE AmendReport(r)
    <3>1. req[r].op \in {"accept", "close"}
      BY <1>1, <2>5 DEF AmendReport, Fits
    <3>2. Target[req[r].op] \in Terminal
      BY <3>1 DEF Target
    <3>3. RequestOK' /\ req' \in [Requests -> RequestStates]
      BY <2>1, <2>2, <2>5 DEF AmendReport
    <3>5. report' \in [Tasks -> Terminal \cup {"none"}]
      BY <2>5, <3>2 DEF AmendReport, TypeOK
    <3>4. TypeOK'
      <4> HIDE DEF Typed
      <4>1. /\ UNCHANGED <<status, run_state, memory, proposal, provisioned, assigned>>
            /\ UNCHANGED <<server, queue, worker, history>>
        BY <2>5 DEF AmendReport
      <4> QED
        BY <3>3, <3>5, <4>1 DEF Typed, TypeOK, worker
    <3> QED
      BY <1>4, <1>5, <2>5, <3>3, <3>4 DEF AmendReport
  <2>6. CASE RememberAcceptance(r)
    <3> DEFINE t == req[r].task
    <3>0. t \in Tasks /\ memory \in [Tasks -> Nat]
      BY <1>1, <2>6 DEF RememberAcceptance, TypeOK, Fits
    <3>1. memory' = [memory EXCEPT ![t] = memory[t] + 1]
      BY <2>6 DEF RememberAcceptance
    <3>2. memory[t] + 1 \in Nat
      BY <3>0
    <3> HIDE DEF t
    <3>3. memory' \in [Tasks -> Nat]
      BY <3>0, <3>1, <3>2
    <3>4. TypeOK'
      BY <2>2, <2>6, <3>3 DEF RememberAcceptance, TypeOK, worker
    <3> QED
      BY <1>4, <1>5, <2>2, <2>6, <3>4 DEF RememberAcceptance
  <2>7. CASE Rearm(r)
    <3>1. RequestOK' /\ req' \in [Requests -> RequestStates]
      BY <2>1, <2>7 DEF Rearm
    <3>2. run_state' \in [Tasks -> RunStates]
      BY <2>7 DEF Rearm, TypeOK, RunStates
    <3>3. TypeOK'
      BY <2>7, <3>1, <3>2 DEF Rearm, TypeOK, worker
    <3> QED
      BY <1>4, <1>5, <2>7, <3>1, <3>3 DEF Rearm
  <2>8. CASE Enqueue(r)
    <3>1. req[r].task \in Tasks
      BY <1>1, <2>8 DEF Enqueue, Fits
    <3> QED
      BY <1>4, <1>5, <2>2, <2>8, <3>1 DEF Enqueue, TypeOK, worker, rows
  <2>9. CASE Provision(r)
    <3> DEFINE p == req[r].prop
    <3>0. p \in Proposals /\ provisioned \in [Proposals -> Nat]
      BY <1>1, <2>9 DEF Provision, TypeOK, Fits
    <3>1. provisioned' = [provisioned EXCEPT ![p] = provisioned[p] + 1]
      BY <2>9 DEF Provision
    <3>2. provisioned[p] + 1 \in Nat
      BY <3>0
    <3> HIDE DEF p
    <3>3. provisioned' \in [Proposals -> Nat]
      BY <3>0, <3>1, <3>2
    <3>4. TypeOK'
      BY <2>2, <2>9, <3>3 DEF Provision, TypeOK, worker
    <3> QED
      BY <1>4, <1>5, <2>2, <2>9, <3>4 DEF Provision
  <2>10. CASE ReportRejection(r)
    <3>1. RequestOK' /\ req' \in [Requests -> RequestStates]
      BY <2>2, <2>10 DEF ReportRejection
    <3>2. report' \in [Tasks -> Terminal \cup {"none"}]
      BY <2>10 DEF ReportRejection, TypeOK, Terminal
    <3>3. TypeOK'
      BY <2>10, <3>1, <3>2 DEF ReportRejection, TypeOK, worker
    <3> QED
      BY <1>4, <1>5, <2>10, <3>1, <3>3 DEF ReportRejection
  <2>11. CASE SubmitFails(r)
    <3>1. RequestOK' /\ req' \in [Requests -> RequestStates]
      BY <2>2, <2>11 DEF SubmitFails
    <3>2. stranded' \subseteq Tasks
      BY <1>1, <2>11 DEF SubmitFails, TypeOK, Fits
    <3>3. TypeOK'
      BY <2>11, <3>1, <3>2 DEF SubmitFails, TypeOK, worker, rows
    <3> QED
      BY <1>4, <1>5, <2>11, <3>1, <3>3 DEF SubmitFails
  <2> QED
    BY <1>10, <2>3, <2>4, <2>5, <2>6, <2>7, <2>8, <2>9, <2>10, <2>11 DEF Continue
<1> QED
  BY <1>7, <1>8, <1>9, <1>10 DEF Owner

LEMMA ServerTyped == Typed /\ (Recovery \/ Crash) => Typed'
<1> SUFFICES ASSUME Typed, Recovery \/ Crash PROVE Typed'
  OBVIOUS
<1> USE ConstantsAssumption DEF Typed, TypeOK, WorkerOK, rows, worker
<1>1. ASSUME UNCHANGED req PROVE RequestOK'
  BY <1>1 DEF RequestOK
<1>2. CASE Boot
  BY <1>1, <1>2 DEF Boot
<1>3. CASE RunningRecovered
  BY <1>1, <1>3 DEF RunningRecovered
<1>4. CASE Serve
  BY <1>1, <1>4 DEF Serve
<1>5. ASSUME NEW t \in Tasks, RecoverRunning(t) PROVE Typed'
  BY <1>1, <1>5 DEF RecoverRunning
<1>6. ASSUME NEW t \in Tasks, RecoverQueued(t) PROVE Typed'
  BY <1>1, <1>6 DEF RecoverQueued
<1>7. CASE Crash
  <2>1. Idle \in RequestStates /\ Fits(Idle)
    BY DEF Idle, RequestStates, Fits
  <2>2. RequestOK' /\ req' \in [Requests -> RequestStates]
    BY <1>7, <2>1 DEF Crash, RequestOK
  <2>3. crashes' \in 0..MaxCrashes
    BY <1>7 DEF Crash
  <2>4. queue' \in Seq(Tasks)
    BY <1>7 DEF Crash
  <2>5. TypeOK'
    BY <1>7, <2>2, <2>3, <2>4 DEF Crash
  <2>6. WorkerOK'
    BY <1>7 DEF Crash
  <2> QED
    BY <2>2, <2>5, <2>6
<1> QED
  BY <1>2, <1>3, <1>4, <1>5, <1>6, <1>7 DEF Recovery

LEMMA NextTyped == Typed /\ [Next]_vars => Typed'
<1>1. ASSUME Typed, UNCHANGED vars PROVE Typed'
  BY <1>1 DEF Typed, TypeOK, RequestOK, WorkerOK, vars
<1> QED
  BY <1>1, WorkerTyped, OwnerTyped, ServerTyped DEF Next

(* Every variable keeps its type, whatever interleaves and crashes. *)
THEOREM TypeCorrect == Spec => []TypeOK
<1>1. Spec => []Typed
  BY InitTyped, NextTyped, PTL DEF Spec
<1> QED
  BY <1>1, PTL DEF Typed

-----------------------------------------------------------------------------
(* The run states.  NoLostTask and CompletedIsOut are not inductive: they  *)
(* need what the worker knows of the task it has in hand.                  *)

\* Control points before the worker shows its task as running.
Unclaimed == {"idle", "check", "claim"}
\* Control points from which a run can only end as completed.
EndsWell == {"escalate_report", "deliver_report", "remember", "complete"}
Out == Gap \cup Terminal \cup {"revision"}

(* RunningIsOwned, from the end of recovery's first loop on, but for a     *)
(* thread that died: whatever the Owner's requests do.                     *)
Owned ==
    server \in {"recover_queued", "up"} => \A t \in Tasks :
        run_state[t] = "running" => cur = t /\ pc \notin Unclaimed

(* Nobody but the worker ends the run it has in hand; a retry may queue it *)
(* again.                                                                  *)
InHand == pc \notin {"idle", "check"} => run_state[cur] \in {"queued", "running"}

(* Once the run is past its last obstacle, the task is out of the pipeline.*)
EndsOut == pc \in EndsWell => status[cur] \in Out

RunInv == Typed /\ Owned /\ InHand /\ EndsOut /\ NoLostTask /\ CompletedIsOut

\* The end of a run that does not fail may still raise at its report; every
\* other step of the pipeline moves on to a control point of the pipeline.
LEMMA PipelineStep ==
    ASSUME Typed, EndsOut,
           Pipeline \/ BudgetCheck \/ BudgetFail \/ BudgetReport \/ BudgetInsert
    PROVE  /\ UNCHANGED <<run_state, queue, req, server, cur, stranded>>
           /\ pc \notin Unclaimed /\ pc' \notin Unclaimed
           /\ cur \in Tasks
           /\ \A t \in Tasks \ {cur} : status'[t] = status[t]
           /\ EndsOut'
<1> USE DEF rows, Moves, Unclaimed, EndsWell, EndsOut, Out
<1>1. /\ status \in [Tasks -> Statuses \cup {"none"}]
      /\ pc # "idle" => cur \in Tasks
      /\ pc \in WorkerSteps
  BY DEF Typed, TypeOK, WorkerOK
<1>2. ASSUME NEW at, NEW next, NEW staff, MoveStatus(at, next, staff),
             at \in DOMAIN Moves, next \in WorkerSteps \ Unclaimed,
             next \in EndsWell => Moves[at] \in Out
      PROVE  /\ UNCHANGED <<run_state, queue, req, server, cur, stranded>>
             /\ pc \notin Unclaimed /\ pc' \notin Unclaimed
             /\ cur \in Tasks
             /\ \A t \in Tasks \ {cur} : status'[t] = status[t]
             /\ EndsOut'
  BY <1>1, <1>2 DEF MoveStatus
<1>3. ASSUME NEW at, NEW outcome, NEW next, NEW raise, NEW staff,
             InsertReport(at, outcome, next, raise, staff),
             at \notin Unclaimed, next \notin Unclaimed, raise \notin Unclaimed,
             next \in EndsWell => at \in EndsWell, raise \notin EndsWell
      PROVE  /\ UNCHANGED <<run_state, queue, req, server, cur, stranded>>
             /\ pc \notin Unclaimed /\ pc' \notin Unclaimed
             /\ cur \in Tasks
             /\ \A t \in Tasks \ {cur} : status'[t] = status[t]
             /\ EndsOut'
  BY <1>1, <1>3 DEF InsertReport
<1>4. CASE CheckMove
  BY <1>1, <1>4 DEF CheckMove
<1>5. CASE Plan
  BY <1>2, <1>5 DEF Plan
<1>6. CASE Staff
  BY <1>2, <1>6 DEF Staff
<1>7. CASE AwaitApproval
  BY <1>2, <1>7 DEF AwaitApproval
<1>8. CASE FailSkills
  BY <1>2, <1>8 DEF FailSkills
<1>9. CASE Execute
  BY <1>2, <1>9 DEF Execute
<1>10. CASE SendToQA
  BY <1>2, <1>10 DEF SendToQA
<1>11. CASE Revise
  BY <1>2, <1>11 DEF Revise
<1>12. CASE Escalate
  BY <1>2, <1>12 DEF Escalate
<1>13. CASE Deliver
  BY <1>2, <1>13 DEF Deliver
<1>14. CASE BudgetFail
  BY <1>2, <1>14 DEF BudgetFail
<1>15. CASE ReportSkillFailure
  BY <1>3, <1>15 DEF ReportSkillFailure
<1>16. CASE ReportDraft
  BY <1>3, <1>16 DEF ReportDraft
<1>17. CASE ReportDelivery
  BY <1>3, <1>17 DEF ReportDelivery
<1>18. CASE BudgetInsert
  BY <1>3, <1>18 DEF BudgetInsert
<1>19. CASE SelectSpecialist \/ DraftProposal \/ ResolveSkills \/ Work \/ Review
  BY <1>1, <1>19, ConstantsAssumption
     DEF SelectSpecialist, DraftProposal, ResolveSkills, Work, Review, Outages, FaultKinds
<1>20. CASE Propose \/ Remember
  BY <1>1, <1>20 DEF Propose, Remember
<1>21. CASE BudgetCheck \/ BudgetReport
  BY <1>1, <1>21 DEF BudgetCheck, BudgetReport
<1> QED
  BY <1>4, <1>5, <1>6, <1>7, <1>8, <1>9, <1>10, <1>11, <1>12, <1>13, <1>14, <1>15,
     <1>16, <1>17, <1>18, <1>19, <1>20, <1>21 DEF Pipeline

\* What the proofs use of a queue.
LEMMA QueueFacts ==
    ASSUME queue \in Seq(Tasks)
    PROVE  /\ \A t \in Tasks : queue' = Append(queue, t) =>
                 InQueue(t)' /\ \A u \in Tasks : InQueue(u) => InQueue(u)'
           /\ queue # <<>> /\ queue' = Tail(queue) =>
                 \A u \in Tasks : InQueue(u) => u = Head(queue) \/ InQueue(u)'
<1>1. ASSUME NEW t \in Tasks, queue' = Append(queue, t)
      PROVE  InQueue(t)' /\ \A u \in Tasks : InQueue(u) => InQueue(u)'
  <2>1. /\ Len(queue') = Len(queue) + 1
        /\ queue'[Len(queue) + 1] = t
        /\ \A i \in 1..Len(queue) : queue'[i] = queue[i]
    BY <1>1
  <2>2. Len(queue) \in Nat
    OBVIOUS
  <2>3. Len(queue) + 1 \in 1..Len(queue') /\ 1..Len(queue) \subseteq 1..Len(queue')
    BY <2>1, <2>2
  <2> QED
    BY <2>1, <2>3 DEF InQueue
<1>2. ASSUME queue # <<>>, queue' = Tail(queue), NEW u \in Tasks, InQueue(u), u # Head(queue)
      PROVE  InQueue(u)'
  <2>1. PICK i \in 1..Len(queue) : queue[i] = u
    BY <1>2 DEF InQueue
  <2>2. i # 1 /\ i - 1 \in 1..(Len(queue) - 1)
    BY <1>2, <2>1
  <2>3. Len(queue') = Len(queue) - 1 /\ queue'[i - 1] = queue[i]
    BY <1>2, <2>2
  <2> QED
    BY <2>1, <2>2, <2>3 DEF InQueue
<1> QED
  BY <1>1, <1>2

LEMMA WorkerRun == RunInv /\ Worker => RunInv'
<1> SUFFICES ASSUME RunInv, Worker PROVE RunInv'
  OBVIOUS
<1> USE DEF Unclaimed, EndsWell
<1>1. Typed'
  BY WorkerTyped DEF RunInv
<1>2. /\ run_state \in [Tasks -> RunStates] /\ queue \in Seq(Tasks) /\ pc \in WorkerSteps
      /\ pc # "idle" => cur \in Tasks
      /\ status \in [Tasks -> Statuses \cup {"none"}]
      /\ pc # "idle" => server = "up"
  BY DEF RunInv, Typed, TypeOK, WorkerOK
<1>3. CASE Take
  <2>1. /\ UNCHANGED <<run_state, status, req, server, stranded>>
        /\ pc = "idle" /\ pc' = "check" /\ queue # <<>>
        /\ cur' = Head(queue) /\ queue' = Tail(queue)
    BY <1>3 DEF Take, rows
  <2>2. NoLostTask'
    BY <1>2, <2>1, QueueFacts DEF RunInv, NoLostTask, Enqueuing, Taken
  <2>3. Owned' /\ InHand' /\ EndsOut' /\ CompletedIsOut'
    BY <2>1 DEF RunInv, Owned, InHand, EndsOut, CompletedIsOut
  <2> QED
    BY <1>1, <2>2, <2>3 DEF RunInv
<1>4. CASE ReadRow
  <2>1. /\ UNCHANGED <<run_state, status, req, server, queue, stranded>>
        /\ pc = "check"
        /\ \/ run_state[cur] = "queued" /\ pc' = "claim" /\ cur' = cur
           \/ run_state[cur] # "queued" /\ pc' = "idle" /\ cur' = NoTask
    BY <1>4 DEF ReadRow, rows
  <2>2. NoLostTask'
    BY <1>2, <2>1 DEF RunInv, NoLostTask, Enqueuing, Taken, InQueue
  <2>3. Owned' /\ InHand' /\ EndsOut' /\ CompletedIsOut'
    BY <2>1 DEF RunInv, Owned, InHand, EndsOut, CompletedIsOut
  <2> QED
    BY <1>1, <2>2, <2>3 DEF RunInv
<1>5. CASE Claim
  <2>1. /\ UNCHANGED <<status, req, server, queue, cur, stranded>>
        /\ pc = "claim" /\ pc' = "planning"
        /\ run_state' = [run_state EXCEPT ![cur] = "running"]
    BY <1>5 DEF Claim
  <2>2. NoLostTask'
    BY <1>2, <2>1 DEF RunInv, NoLostTask, Enqueuing, Taken, InQueue
  <2>3. Owned' /\ InHand' /\ EndsOut' /\ CompletedIsOut'
    BY <1>2, <2>1 DEF RunInv, Owned, InHand, EndsOut, CompletedIsOut
  <2> QED
    BY <1>1, <2>2, <2>3 DEF RunInv
<1>6. CASE Pipeline \/ BudgetCheck \/ BudgetFail \/ BudgetReport \/ BudgetInsert
  <2>1. /\ UNCHANGED <<run_state, queue, req, server, cur, stranded>>
        /\ pc \notin Unclaimed /\ pc' \notin Unclaimed
        /\ cur \in Tasks
        /\ \A t \in Tasks \ {cur} : status'[t] = status[t]
        /\ EndsOut'
    BY <1>6, PipelineStep DEF RunInv
  <2>2. NoLostTask'
    BY <2>1 DEF RunInv, NoLostTask, Enqueuing, Taken, InQueue
  <2>3. Owned' /\ InHand'
    BY <2>1 DEF RunInv, Owned, InHand
  <2>4. CompletedIsOut'
    BY <2>1 DEF RunInv, CompletedIsOut, InHand
  <2> QED
    BY <1>1, <2>1, <2>2, <2>3, <2>4 DEF RunInv
<1>7. CASE Finish
  <2>1. /\ UNCHANGED <<status, req, server, queue, stranded>>
        /\ pc \in DOMAIN Ends /\ pc' = "idle" /\ cur' = NoTask
        /\ run_state' = [run_state EXCEPT ![cur] = Ends[pc]]
    BY <1>7 DEF Finish
  <2>2. /\ pc \in {"complete", "error", "budget_end"}
        /\ Ends[pc] \in {"completed", "failed"}
        /\ Ends[pc] = "completed" => pc = "complete"
    BY <2>1 DEF Ends
  <2>3. NoLostTask'
    BY <1>2, <2>1, <2>2 DEF RunInv, NoLostTask, Enqueuing, Taken, InQueue
  <2>4. Owned' /\ InHand' /\ EndsOut'
    BY <1>2, <2>1, <2>2 DEF RunInv, Owned, InHand, EndsOut
  <2>5. CompletedIsOut'
    BY <1>2, <2>1, <2>2 DEF RunInv, CompletedIsOut, EndsOut, Out
  <2> QED
    BY <1>1, <2>3, <2>4, <2>5 DEF RunInv
<1> QED
  BY <1>3, <1>4, <1>5, <1>6, <1>7 DEF Worker

LEMMA OwnerRun ==
    ASSUME RunInv, NEW r \in Requests, Owner(r)
    PROVE  RunInv'
<1> USE DEF Unclaimed, EndsWell
<1>1. Typed'
  BY OwnerTyped DEF RunInv
<1>2. /\ run_state \in [Tasks -> RunStates] /\ queue \in Seq(Tasks)
      /\ status \in [Tasks -> Statuses \cup {"none"}]
      /\ req \in [Requests -> RequestStates]
      /\ pc # "idle" => cur \in Tasks
      /\ Fits(req[r])
  BY DEF RunInv, Typed, TypeOK, WorkerOK, RequestOK
\* What a route does to the run: it queues its task, or moves it out of the
\* pipeline, or leaves both alone.
<1>3. ASSUME UNCHANGED <<server, worker>>,
             NEW t \in Tasks,
             \A u \in Tasks \ {t} : run_state'[u] = run_state[u] /\ status'[u] = status[u],
             run_state'[t] \in {run_state[t], "queued"},
             run_state'[t] = "queued" \/ status'[t] \in Out \cup {status[t]},
             status'[t] \in Out \cup {status[t]} \/ status[t] = "none"
      PROVE  Owned' /\ InHand' /\ EndsOut' /\ CompletedIsOut'
  <2> USE <1>3 DEF worker
  <2>1. Owned'
    BY DEF RunInv, Owned
  <2>2. InHand'
    BY <1>2 DEF RunInv, InHand
  <2>3. EndsOut'
    BY <1>2 DEF RunInv, EndsOut, Out
  <2>4. CompletedIsOut'
    BY DEF RunInv, CompletedIsOut, Out
  <2> QED
    BY <2>1, <2>2, <2>3, <2>4
<1>4. ASSUME UNCHANGED <<server, worker, run_state, status>>
      PROVE  Owned' /\ InHand' /\ EndsOut' /\ CompletedIsOut'
  BY <1>4 DEF RunInv, Owned, InHand, EndsOut, CompletedIsOut, worker
\* A step that queues nothing and ends no request about to enqueue.
<1>5. ASSUME UNCHANGED <<server, worker, queue, run_state, stranded>>, req[r].step # "enqueue",
             \A s \in Requests \ {r} : req'[s] = req[s]
      PROVE  NoLostTask'
  BY <1>5 DEF RunInv, NoLostTask, Enqueuing, Taken, InQueue, worker
<1>6. ASSUME UNCHANGED <<server, worker, queue, stranded>>, NEW t \in Tasks,
             \A u \in Tasks \ {t} : run_state'[u] = run_state[u],
             req[r].step # "enqueue", req'[r].step = "enqueue", req'[r].task = t,
             \A s \in Requests \ {r} : req'[s] = req[s]
      PROVE  NoLostTask'
  BY <1>6 DEF RunInv, NoLostTask, Enqueuing, Taken, InQueue, worker
<1>7. ASSUME NEW t \in Tasks, Submit(r, t) PROVE RunInv'
  <2>1. /\ UNCHANGED <<server, queue, worker, stranded>>
        /\ status[t] = "none"
        /\ status' = [status EXCEPT ![t] = "intake"]
        /\ run_state' = [run_state EXCEPT ![t] = "queued"]
        /\ req[r].step # "enqueue" /\ req'[r].step = "enqueue" /\ req'[r].task = t
        /\ \A s \in Requests \ {r} : req'[s] = req[s]
    BY <1>2, <1>7 DEF Submit, Idle
  <2>2. /\ \A u \in Tasks \ {t} : run_state'[u] = run_state[u] /\ status'[u] = status[u]
        /\ run_state'[t] = "queued"
    BY <1>2, <2>1
  <2>3. NoLostTask'
    BY <1>6, <2>1, <2>2
  <2>4. Owned' /\ InHand' /\ EndsOut' /\ CompletedIsOut'
    BY <1>3, <2>1, <2>2
  <2> QED
    BY <1>1, <2>3, <2>4 DEF RunInv
<1>8. ASSUME NEW t \in Tasks, NEW op \in ReviewOps, OpenReview(r, t, op) PROVE RunInv'
  <2>1. /\ UNCHANGED <<server, queue, worker, run_state, status, stranded>>
        /\ req[r].step # "enqueue"
        /\ \A s \in Requests \ {r} : req'[s] = req[s]
    BY <1>2, <1>8 DEF OpenReview, Idle, rows
  <2> QED
    BY <1>1, <1>4, <1>5, <2>1 DEF RunInv
<1>9. ASSUME NEW p \in Proposals, NEW op \in DecideOps, DecideProposal(r, p, op) PROVE RunInv'
  <2>1. /\ UNCHANGED <<server, queue, worker, run_state, status, stranded>>
        /\ req[r].step # "enqueue"
        /\ \A s \in Requests \ {r} : req'[s] = req[s]
    BY <1>2, <1>9 DEF DecideProposal, Idle
  <2> QED
    BY <1>1, <1>4, <1>5, <2>1 DEF RunInv
<1>10. CASE Continue(r)
  <2>1. ASSUME NEW step \in RequestSteps, Goto(r, step)
        PROVE  /\ req'[r].step = step /\ req'[r].task = req[r].task
               /\ \A s \in Requests \ {r} : req'[s] = req[s]
    <3>1. /\ req'[r] = [req[r] EXCEPT !.step = step]
          /\ \A s \in Requests \ {r} : req'[s] = req[s]
      BY <1>2, <2>1, GotoTyped
    <3>2. req[r] \in RequestStates
      BY <1>2
    <3> QED
      BY <3>1, <3>2 DEF RequestStates
  <2>2. ASSUME Reply(r) PROVE \A s \in Requests \ {r} : req'[s] = req[s]
    BY <1>2, <2>2, ReplyTyped
  <2>3. CASE CheckTask(r)
    <3>1. /\ UNCHANGED <<server, queue, worker, run_state, status, stranded>>
          /\ req[r].step # "enqueue"
          /\ \A s \in Requests \ {r} : req'[s] = req[s]
      BY <2>1, <2>2, <2>3 DEF CheckTask, rows
    <3> QED
      BY <1>1, <1>4, <1>5, <3>1 DEF RunInv
  <2>4. CASE MoveTask(r)
    <3> DEFINE t == req[r].task
               new == Target[req[r].op]
    <3>1. req[r].op \in Ops /\ t \in Tasks
      BY <1>2, <2>4 DEF MoveTask, Fits
    <3>2. new \in Out /\ AfterMove[req[r].op] \in RequestSteps
      BY <3>1 DEF Target, Out, AfterMove
    <3>3. /\ UNCHANGED <<server, queue, worker, run_state, stranded>>
          /\ status' = [status EXCEPT ![t] = new]
          /\ req[r].step # "enqueue"
          /\ \A s \in Requests \ {r} : req'[s] = req[s]
      BY <2>1, <2>4, <3>2 DEF MoveTask
    <3>4. NoLostTask'
      BY <1>5, <3>3
    <3> HIDE DEF t, new
    <3>5. status'[t] = new /\ \A u \in Tasks \ {t} : status'[u] = status[u]
      BY <1>2, <3>1, <3>3
    <3>6. Owned' /\ InHand' /\ EndsOut' /\ CompletedIsOut'
      BY <1>3, <3>1, <3>2, <3>3, <3>5
    <3> QED
      BY <1>1, <3>4, <3>6 DEF RunInv
  <2>5. CASE AmendReport(r) \/ RememberAcceptance(r) \/ Provision(r) \/ ReportRejection(r)
    <3>1. /\ UNCHANGED <<server, queue, worker, run_state, status, stranded>>
          /\ req[r].step # "enqueue"
          /\ \A s \in Requests \ {r} : req'[s] = req[s]
      BY <2>1, <2>2, <2>5 DEF AmendReport, RememberAcceptance, Provision, ReportRejection
    <3> QED
      BY <1>1, <1>4, <1>5, <3>1 DEF RunInv
  <2>6. CASE Rearm(r)
    <3> DEFINE t == req[r].task
    <3>1. /\ t \in Tasks
          /\ UNCHANGED <<server, queue, worker, status, stranded>>
          /\ run_state' = [run_state EXCEPT ![t] = "queued"]
          /\ req[r].step # "enqueue" /\ req'[r].step = "enqueue" /\ req'[r].task = t
          /\ \A s \in Requests \ {r} : req'[s] = req[s]
      BY <1>2, <2>1, <2>6 DEF Rearm, Fits
    <3> HIDE DEF t
    <3>2. run_state'[t] = "queued" /\ \A u \in Tasks \ {t} : run_state'[u] = run_state[u]
      BY <1>2, <3>1
    <3>3. NoLostTask'
      BY <1>6, <3>1, <3>2
    <3>4. Owned' /\ InHand' /\ EndsOut' /\ CompletedIsOut'
      BY <1>3, <3>1, <3>2
    <3> QED
      BY <1>1, <3>3, <3>4 DEF RunInv
  <2>7. CASE Enqueue(r)
    <3>1. PICK t \in Tasks :
          /\ t = req[r].task
          /\ UNCHANGED <<server, worker, run_state, status, stranded>>
          /\ queue' = Append(queue, t)
          /\ \A s \in Requests \ {r} : req'[s] = req[s]
      BY <1>2, <2>2, <2>7 DEF Enqueue, Fits, rows
    <3>2. InQueue(t)' /\ \A u \in Tasks : InQueue(u) => InQueue(u)'
      BY <1>2, <3>1, QueueFacts
    <3>3. \A u \in Tasks : Enqueuing(u) => Enqueuing(u)' \/ u = t
      BY <3>1 DEF Enqueuing
    <3>4. NoLostTask'
      BY <3>1, <3>2, <3>3 DEF RunInv, NoLostTask, Taken, worker
    <3> QED
      BY <1>1, <1>4, <3>1, <3>4 DEF RunInv
  <2>8. CASE SubmitFails(r)
    <3>1. /\ UNCHANGED <<server, queue, worker, run_state, status>>
          /\ stranded' = stranded \cup {req[r].task}
          /\ \A s \in Requests \ {r} : req'[s] = req[s]
      BY <2>2, <2>8 DEF SubmitFails, rows
    <3>2. \A u \in Tasks : Enqueuing(u) => Enqueuing(u)' \/ u \in stranded'
      BY <3>1 DEF Enqueuing
    <3>3. NoLostTask'
      BY <3>1, <3>2 DEF RunInv, NoLostTask, Taken, InQueue, worker
    <3> QED
      BY <1>1, <1>4, <3>1, <3>3 DEF RunInv
  <2> QED
    BY <1>10, <2>3, <2>4, <2>5, <2>6, <2>7, <2>8 DEF Continue
<1> QED
  BY <1>7, <1>8, <1>9, <1>10 DEF Owner

LEMMA ServerRun == RunInv /\ (Recovery \/ Crash) => RunInv'
<1> SUFFICES ASSUME RunInv, Recovery \/ Crash PROVE RunInv'
  OBVIOUS
<1> USE DEF Unclaimed, EndsWell, worker, rows
<1>1. Typed'
  BY ServerTyped DEF RunInv
<1>2. run_state \in [Tasks -> RunStates] /\ (server # "up" => pc = "idle")
  BY DEF RunInv, Typed, TypeOK, WorkerOK
<1>3. CASE Boot
  BY <1>1, <1>3 DEF Boot, RunInv, NoLostTask, Owned, InHand, EndsOut, CompletedIsOut
<1>4. CASE RunningRecovered
  BY <1>1, <1>4 DEF RunningRecovered, RunInv, NoLostTask, Owned, InHand, EndsOut, CompletedIsOut
<1>5. CASE Serve
  BY <1>1, <1>5
     DEF Serve, RunInv, NoLostTask, Owned, InHand, EndsOut, CompletedIsOut, InQueue
<1>6. ASSUME NEW t \in Tasks, RecoverRunning(t) PROVE RunInv'
  BY <1>1, <1>2, <1>6
     DEF RecoverRunning, RunInv, NoLostTask, Owned, InHand, EndsOut, CompletedIsOut
<1>7. ASSUME NEW t \in Tasks, RecoverQueued(t) PROVE RunInv'
  BY <1>1, <1>7 DEF RecoverQueued, RunInv, NoLostTask, Owned, InHand, EndsOut, CompletedIsOut
<1>8. CASE Crash
  BY <1>1, <1>8 DEF Crash, RunInv, NoLostTask, Owned, InHand, EndsOut, CompletedIsOut
<1> QED
  BY <1>3, <1>4, <1>5, <1>6, <1>7, <1>8 DEF Recovery

LEMMA RunInvariant == Spec => []RunInv
<1>1. Init => RunInv
  BY InitTyped DEF Init, RunInv, NoLostTask, Owned, InHand, EndsOut, EndsWell, CompletedIsOut
<1>2. RunInv /\ [Next]_vars => RunInv'
  <2>1. ASSUME RunInv, UNCHANGED vars PROVE RunInv'
    BY <2>1, NextTyped
       DEF RunInv, NoLostTask, Owned, InHand, EndsOut, CompletedIsOut, InQueue, Enqueuing,
           Taken, vars
  <2> QED
    BY <2>1, WorkerRun, OwnerRun, ServerRun DEF Next
<1> QED
  BY <1>1, <1>2, PTL DEF Spec

(* No task the database calls queued is lost: submit_task, retry_after_    *)
(* review, the worker and recover_interrupted_tasks together keep it in    *)
(* the queue or in somebody's hands, across any number of crashes.  Only a *)
(* submit_task that raised over its attachment leaves one behind, and only *)
(* until the server starts again.                                          *)
THEOREM NothingIsLost == Spec => []NoLostTask
<1>1. RunInv => NoLostTask
  BY DEF RunInv
<1> QED
  BY <1>1, RunInvariant, PTL

(* A run that process_one ends as completed left its task with an outcome  *)
(* or with the Owner, whatever the Owner's requests did to it meanwhile.   *)
THEOREM CompletedRunsAreOut == Spec => []CompletedIsOut
<1>1. RunInv => CompletedIsOut
  BY DEF RunInv
<1> QED
  BY <1>1, RunInvariant, PTL
=============================================================================
