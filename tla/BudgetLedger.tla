----------------------------- MODULE BudgetLedger -----------------------------
(***************************************************************************)
(* The operating budget: the budget_ledger_events table of ego_os/store.py *)
(* and model_provider.complete, which reserves a conservative maximum,     *)
(* calls the provider, records the spend and releases the unused part.     *)
(* Each of the four is a transaction of its own, and the call may raise or *)
(* the process die between any two of them.                                *)
(*                                                                         *)
(* The table is append-only and every reader sums it up, so the model      *)
(* keeps the sums: what the Owner approved, what is reserved and not       *)
(* released (of all rows, and of the rows of one task) and what was        *)
(* recorded as spent.  Amounts are cents.                                  *)
(***************************************************************************)
EXTENDS Integers, FiniteSets

CONSTANTS
    Tasks,        \* the tasks model calls are made for
    Callers,      \* threads inside complete(): in production the one worker
    Seed,         \* the budget init_db approves on an empty ledger
    Prices,       \* what _conservative_reservation_cents may come to
    Overrun,      \* by how much a call may cost more than its reservation
    TaskBudget,   \* task_budget_cents of each task's calls, or NoLimit
    NoLimit, NoTask,
    MaxLosses     \* bound: failed calls and crashes

ASSUME BudgetAssumption ==
    /\ NoTask \notin Tasks
    /\ NoLimit \notin Nat
    /\ IsFiniteSet(Callers)
    /\ Seed \in Nat \ {0}
    /\ Prices \subseteq Nat \ {0}
    /\ Overrun \in Nat
    /\ TaskBudget \in [Tasks -> Nat \cup {NoLimit}]
    /\ MaxLosses \in Nat

VARIABLES
    approved,      \* sum of the budget_approved rows
    reserved,      \* task_reserved minus reservation_released, over all rows
    taskReserved,  \* the same, over the rows of a task
    spent,         \* sum of the spend_recorded rows
    exhausted,     \* tasks with a budget_exhausted row
    up,            \* whether the process runs
    call,          \* what each caller is doing
    billed,        \* what the provider has charged, known to nobody here
    losses         \* calls that raised and crashes so far

ledger == <<approved, reserved, taskReserved, spent, exhausted>>
vars == <<approved, reserved, taskReserved, spent, exhausted, up, call, billed, losses>>

Idle == [step |-> "idle", task |-> NoTask, amount |-> 0, cost |-> 0]
Steps == {"idle", "asked", "charged", "recorded"}
Calls == [step : Steps, task : Tasks \cup {NoTask}, amount : Nat, cost : Nat]

TypeOK ==
    /\ approved \in {0, Seed}
    /\ reserved \in Int
    /\ taskReserved \in [Tasks -> Int]
    /\ spent \in Nat
    /\ exhausted \subseteq Tasks
    /\ up \in BOOLEAN
    /\ call \in [Callers -> Calls]
    /\ billed \in Nat
    /\ losses \in 0..MaxLosses

Init ==
    /\ approved = 0
    /\ reserved = 0
    /\ taskReserved = [t \in Tasks |-> 0]
    /\ spent = 0
    /\ exhausted = {}
    /\ up = FALSE
    /\ call = [c \in Callers |-> Idle]
    /\ billed = 0
    /\ losses = 0

-----------------------------------------------------------------------------
(* Mutant: init_db approves the budget on every start. *)
BootAgain ==
    /\ ~up
    /\ up' = TRUE
    /\ approved' = approved + Seed
    /\ UNCHANGED <<reserved, taskReserved, spent, exhausted, call, billed, losses>>

(* init_db: the budget is approved once, while the ledger is empty. *)
Boot ==
    /\ ~up
    /\ up' = TRUE
    /\ approved' = IF approved = 0 THEN Seed ELSE approved
    /\ UNCHANGED <<reserved, taskReserved, spent, exhausted, call, billed, losses>>

(* Mutants: the check against one of the two limits alone. *)
FitsTask(t, amount) ==
    TaskBudget[t] # NoLimit => taskReserved[t] + amount <= TaskBudget[t]
FitsBalance(t, amount) == amount <= approved - reserved

Fits(t, amount) ==
    /\ TaskBudget[t] # NoLimit => taskReserved[t] + amount <= TaskBudget[t]
    /\ amount <= approved - reserved

(* reserve_budget: check and row in one BEGIN IMMEDIATE transaction. *)
Reserve(c, t, amount) ==
    /\ up /\ call[c] = Idle /\ Fits(t, amount)
    /\ reserved' = reserved + amount
    /\ taskReserved' = [taskReserved EXCEPT ![t] = @ + amount]
    /\ call' = [call EXCEPT ![c] = [step |-> "asked", task |-> t, amount |-> amount,
                                    cost |-> 0]]
    /\ UNCHANGED <<approved, spent, exhausted, up, billed, losses>>

(* BudgetError: the call does not happen. *)
Refuse(c, t, amount) ==
    /\ up /\ call[c] = Idle /\ ~Fits(t, amount)
    /\ exhausted' = exhausted \cup {t}
    /\ UNCHANGED <<approved, reserved, taskReserved, spent, up, call, billed, losses>>

(* The provider answers a request and charges for it. *)
Charge(c) ==
    /\ call[c].step = "asked"
    /\ \E cost \in 0..(call[c].amount + Overrun) :
          /\ call' = [call EXCEPT ![c].step = "charged", ![c].cost = cost]
          /\ billed' = billed + cost
    /\ UNCHANGED <<ledger, up, losses>>

RecordSpend(c) ==
    /\ call[c].step = "charged"
    /\ spent' = spent + call[c].cost
    /\ call' = [call EXCEPT ![c].step = "recorded"]
    /\ UNCHANGED <<approved, reserved, taskReserved, exhausted, up, billed, losses>>

(* Mutants: the whole reservation, or nothing, is released. *)
WholeOf(q) == q.amount
NothingOf(q) == 0

(* max(0, reserved_cents - actual_cents) *)
Unused(q) == IF q.cost < q.amount THEN q.amount - q.cost ELSE 0

Release(c) ==
    /\ call[c].step = "recorded"
    /\ reserved' = reserved - Unused(call[c])
    /\ taskReserved' = [taskReserved EXCEPT ![call[c].task] = @ - Unused(call[c])]
    /\ call' = [call EXCEPT ![c] = Idle]
    /\ UNCHANGED <<approved, spent, exhausted, up, billed, losses>>

(* The provider's client raises, before or after the charge.  Nothing      *)
(* between reserve_budget and release_reservation catches it.              *)
Fail(c) ==
    /\ call[c].step \in {"asked", "charged"} /\ losses < MaxLosses
    /\ losses' = losses + 1
    /\ call' = [call EXCEPT ![c] = Idle]
    /\ UNCHANGED <<ledger, up, billed>>

Crash ==
    /\ up /\ losses < MaxLosses
    /\ losses' = losses + 1
    /\ up' = FALSE
    /\ call' = [c \in Callers |-> Idle]
    /\ UNCHANGED <<ledger, billed>>

Complete(c) ==
    \/ \E t \in Tasks, amount \in Prices : Reserve(c, t, amount) \/ Refuse(c, t, amount)
    \/ Charge(c) \/ RecordSpend(c) \/ Release(c) \/ Fail(c)

Next == Boot \/ Crash \/ \E c \in Callers : Complete(c)

Spec == Init /\ [][Next]_vars

-----------------------------------------------------------------------------
Quiet == \A c \in Callers : call[c] = Idle

(* Whatever threads reserve at a time, and whatever crashes in between,    *)
(* no more is ever reserved than the Owner approved (reserve_budget).      *)
NeverOverdrawn == reserved <= approved

(* The same for the sub-limit of a task, where its calls have one.         *)
WithinTaskBudget ==
    \A t \in Tasks : TaskBudget[t] # NoLimit => taskReserved[t] <= TaskBudget[t]

(* What the provider has charged is covered by reservations that nobody    *)
(* will release, also when the charge was never recorded because the call  *)
(* raised or the process died first.  It takes the reservation to be the   *)
(* maximum it is meant to be (Overrun = 0), and with NeverOverdrawn it is  *)
(* what keeps the bill within the approved budget.                         *)
BilledIsReserved == Overrun = 0 => billed <= reserved

(* The ledger is exact as long as no call is lost: between calls, what is  *)
(* reserved is what was spent, and what the provider charged.              *)
TruedUp ==
    Overrun = 0 /\ losses = 0 /\ Quiet => reserved = spent /\ spent = billed
=============================================================================
