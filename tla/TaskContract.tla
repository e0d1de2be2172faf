---------------------------- MODULE TaskContract ----------------------------
(***************************************************************************)
(* What Ego OS promises the Owner about one ProductTask, with the pipeline *)
(* that produces the answer left out.  A task is absent, open, waiting     *)
(* with a draft for the Owner, or settled; a settled task never changes    *)
(* its outcome, and the one report row of the task never claims an outcome *)
(* the task does not have.  ProductTask.tla implements this module.        *)
(***************************************************************************)
CONSTANT Tasks

VARIABLES
    outcome,   \* where the task stands, as the Owner sees it
    report     \* terminal_status of the task's row in reports, or "none"

vars == <<outcome, report>>

\* The outcomes nothing leads out of.
Settled == {"delivered", "failed", "cancelled", "gap_rejected"}
Outcomes == {"absent", "open", "draft"} \cup Settled

Init ==
    /\ outcome = [t \in Tasks |-> "absent"]
    /\ report = [t \in Tasks |-> "none"]

(* The Owner submits a request. *)
Submit(t) ==
    /\ outcome[t] = "absent"
    /\ outcome' = [outcome EXCEPT ![t] = "open"]
    /\ UNCHANGED report

(* The pipeline hands in a draft it could not get through QA. *)
Escalate(t) ==
    /\ outcome[t] = "open"
    /\ outcome' = [outcome EXCEPT ![t] = "draft"]
    /\ UNCHANGED report

(* The Owner sends the draft back for another attempt. *)
Reopen(t) ==
    /\ outcome[t] = "draft"
    /\ outcome' = [outcome EXCEPT ![t] = "open"]
    /\ UNCHANGED report

(* The task ends.  Only a draft can be cancelled, and only the pipeline or *)
(* a rejected proposal, never a draft, can fail or be gap_rejected.        *)
Settle(t, end) ==
    /\ \/ outcome[t] = "open" /\ end \in Settled \ {"cancelled"}
       \/ outcome[t] = "draft" /\ end \in {"delivered", "cancelled"}
    /\ outcome' = [outcome EXCEPT ![t] = end]
    /\ UNCHANGED report

(* The report of a draft is filed.  The Owner may be faster than the       *)
(* filing, so the draft may meanwhile be accepted, closed or reopened.     *)
FileDraft(t) ==
    /\ report[t] = "none"
    /\ outcome[t] \in {"open", "draft", "delivered", "cancelled"}
    /\ report' = [report EXCEPT ![t] = "needs_owner_review"]
    /\ UNCHANGED outcome

(* The report of a settled task is filed, or the draft's report amended. *)
FileOutcome(t) ==
    /\ report[t] \in {"none", "needs_owner_review"}
    /\ outcome[t] \in Settled
    /\ report' = [report EXCEPT ![t] = outcome[t]]
    /\ UNCHANGED outcome

Next ==
    \E t \in Tasks :
        \/ Submit(t)
        \/ Escalate(t)
        \/ Reopen(t)
        \/ \E end \in Settled : Settle(t, end)
        \/ FileDraft(t)
        \/ FileOutcome(t)

Spec == Init /\ [][Next]_vars
=============================================================================
