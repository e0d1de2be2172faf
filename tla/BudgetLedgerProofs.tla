-------------------------- MODULE BudgetLedgerProofs --------------------------
(***************************************************************************)
(* TLAPS proofs about BudgetLedger, for any finite number of threads       *)
(* inside complete(), any prices and limits and any number of losses.      *)
(***************************************************************************)
EXTENDS BudgetLedger, FiniteSetTheorems, TLAPS

CallOK == \A c \in Callers : call[c] # Idle => call[c].task \in Tasks

Typed == TypeOK /\ CallOK

(* The limits; before the first start nothing is reserved. *)
Limited == Typed /\ NeverOverdrawn /\ WithinTaskBudget

USE BudgetAssumption

\* An unused part is a number of cents, and no refund of a negative one.
LEMMA UnusedNat ==
    ASSUME NEW q \in Calls
    PROVE  Unused(q) \in Nat
BY DEF Unused, Calls

LEMMA LimitedInit == Init => Limited
<1> SUFFICES ASSUME Init PROVE Limited
  OBVIOUS
<1> USE DEF Init
<1>1. Idle \in Calls
  BY DEF Idle, Calls, Steps
<1>2. TypeOK
  <2>1. /\ losses \in 0..MaxLosses
        /\ call \in [Callers -> Calls]
        /\ taskReserved \in [Tasks -> Int]
    BY <1>1
  <2>2. /\ approved \in {0, Seed}
        /\ reserved \in Int /\ spent \in Nat /\ billed \in Nat
    OBVIOUS
  <2>3. exhausted \subseteq Tasks /\ up \in BOOLEAN
    OBVIOUS
  <2> QED
    BY <2>1, <2>2, <2>3, Zenon DEF TypeOK
<1>3. CallOK
  BY DEF CallOK
<1>4. NeverOverdrawn /\ WithinTaskBudget
  BY DEF NeverOverdrawn, WithinTaskBudget
<1> QED
  BY <1>2, <1>3, <1>4 DEF Limited, Typed

LEMMA LimitedStep == Limited /\ [Next]_vars => Limited'
<1> SUFFICES ASSUME Limited, [Next]_vars PROVE Limited'
  OBVIOUS
<1> USE DEF Limited, Typed, TypeOK, NeverOverdrawn, WithinTaskBudget
<1>1. Idle \in Calls
  BY DEF Idle, Calls, Steps
\* A caller that goes on leaves the others alone.
<1>2. ASSUME NEW c \in Callers, NEW q \in Calls, q # Idle => q.task \in Tasks,
             call' = [call EXCEPT ![c] = q]
      PROVE  call' \in [Callers -> Calls] /\ CallOK'
  BY <1>2 DEF CallOK
<1>3. CASE UNCHANGED vars
  BY <1>3 DEF vars, CallOK
<1>4. CASE Boot
  BY <1>4 DEF Boot, CallOK
<1>5. CASE Crash
  <2>1. call' \in [Callers -> Calls] /\ CallOK'
    BY <1>1, <1>5 DEF Crash, CallOK
  <2>2. losses' \in 0..MaxLosses
    BY <1>5 DEF Crash
  <2> QED
    BY <1>5, <2>1, <2>2 DEF Crash, ledger
<1>6. ASSUME NEW c \in Callers, NEW t \in Tasks, NEW amount \in Prices, Reserve(c, t, amount)
      PROVE  Limited'
  <2> DEFINE q == [step |-> "asked", task |-> t, amount |-> amount, cost |-> 0]
  <2>1. q \in Calls /\ amount \in Nat
    BY DEF Calls, Steps
  <2>2. call' \in [Callers -> Calls] /\ CallOK'
    BY <1>2, <1>6, <2>1 DEF Reserve
  <2>3. reserved' \in Int /\ reserved' <= approved'
    BY <1>6, <2>1 DEF Reserve, Fits
  <2>4. taskReserved[t] + amount \in Int
    BY <2>1
  <2>5. taskReserved' = [taskReserved EXCEPT ![t] = taskReserved[t] + amount]
    BY <1>6 DEF Reserve
  <2>6. taskReserved' \in [Tasks -> Int]
    BY <2>4, <2>5
  <2>7. WithinTaskBudget'
    BY <1>6, <2>5 DEF Reserve, Fits
  <2> QED
    BY <1>6, <2>2, <2>3, <2>6, <2>7 DEF Reserve
<1>7. ASSUME NEW c \in Callers, NEW t \in Tasks, NEW amount \in Prices, Refuse(c, t, amount)
      PROVE  Limited'
  BY <1>7 DEF Refuse, CallOK
<1>8. ASSUME NEW c \in Callers, Charge(c) PROVE Limited'
  <2>1. PICK cost \in 0..(call[c].amount + Overrun) :
           /\ call' = [call EXCEPT ![c].step = "charged", ![c].cost = cost]
           /\ billed' = billed + cost
    BY <1>8 DEF Charge
  <2> DEFINE q == [call[c] EXCEPT !.step = "charged", !.cost = cost]
  <2>2. call[c] \in Calls /\ call[c] # Idle
    BY <1>8 DEF Charge, Idle
  <2>3. cost \in Nat
    BY <2>1, <2>2 DEF Calls
  <2>4. q \in Calls /\ q.task \in Tasks
    BY <2>2, <2>3 DEF Calls, Steps, CallOK
  <2>5. call' = [call EXCEPT ![c] = q]
    BY <2>1
  <2> HIDE DEF q
  <2>6. call' \in [Callers -> Calls] /\ CallOK'
    BY <1>2, <2>4, <2>5
  <2> QED
    BY <1>8, <2>1, <2>3, <2>6 DEF Charge, ledger
<1>9. ASSUME NEW c \in Callers, RecordSpend(c) PROVE Limited'
  <2> DEFINE q == [call[c] EXCEPT !.step = "recorded"]
  <2>1. call[c] \in Calls /\ call[c] # Idle
    BY <1>9 DEF RecordSpend, Idle
  <2>2. q \in Calls /\ q.task \in Tasks
    BY <2>1 DEF Calls, Steps, CallOK
  <2>3. call' = [call EXCEPT ![c] = q]
    BY <1>9 DEF RecordSpend
  <2> HIDE DEF q
  <2>4. call' \in [Callers -> Calls] /\ CallOK'
    BY <1>2, <2>2, <2>3
  <2>5. spent' \in Nat
    BY <1>9, <2>1 DEF RecordSpend, Calls
  <2> QED
    BY <1>9, <2>4, <2>5 DEF RecordSpend
<1>10. ASSUME NEW c \in Callers, Release(c) PROVE Limited'
  <2>1. PICK t \in Tasks : t = call[c].task
    BY <1>10 DEF Release, CallOK, Idle
  <2>2. PICK u \in Nat : u = Unused(call[c])
    BY UnusedNat
  <2>3. /\ reserved' = reserved - u
        /\ taskReserved' = [taskReserved EXCEPT ![t] = taskReserved[t] - u]
    BY <1>10, <2>1, <2>2 DEF Release
  <2>4. taskReserved[t] - u \in Int
    OBVIOUS
  <2>5. taskReserved' \in [Tasks -> Int]
    BY <2>3, <2>4
  <2>6. WithinTaskBudget'
    BY <2>3
  <2>7. call' \in [Callers -> Calls] /\ CallOK'
    BY <1>1, <1>2, <1>10 DEF Release
  <2>8. reserved' \in Int /\ reserved' <= approved'
    BY <1>10, <2>3 DEF Release
  <2> QED
    BY <1>10, <2>5, <2>6, <2>7, <2>8 DEF Release
<1>11. ASSUME NEW c \in Callers, Fail(c) PROVE Limited'
  <2>1. call' \in [Callers -> Calls] /\ CallOK'
    BY <1>1, <1>2, <1>11 DEF Fail
  <2>2. losses' \in 0..MaxLosses
    BY <1>11 DEF Fail
  <2> QED
    BY <1>11, <2>1, <2>2 DEF Fail, ledger
<1> QED
  BY <1>3, <1>4, <1>5, <1>6, <1>7, <1>8, <1>9, <1>10, <1>11 DEF Next, Complete

LEMMA LimitedAlways == Spec => []Limited
BY LimitedInit, LimitedStep, PTL DEF Spec

(* Every variable of the ledger and of the calls keeps its type.           *)
THEOREM LedgerTyped == Spec => []TypeOK
<1>1. Limited => TypeOK
  BY DEF Limited, Typed
<1> QED
  BY <1>1, LimitedAlways, PTL

(* reserve_budget never lets the reservations exceed the approved budget,  *)
(* however many threads call it and wherever they fail or crash.           *)
THEOREM BudgetHolds == Spec => []NeverOverdrawn
<1>1. Limited => NeverOverdrawn
  BY DEF Limited
<1> QED
  BY <1>1, LimitedAlways, PTL

(* The same for a task's own sub-limit.                                    *)
THEOREM SubLimitHolds == Spec => []WithinTaskBudget
<1>1. Limited => WithinTaskBudget
  BY DEF Limited
<1> QED
  BY <1>1, LimitedAlways, PTL

-----------------------------------------------------------------------------
(* Sums over the callers.  Without induction a sum is the end of a row of  *)
(* partial sums along an enumeration, and what an induction would show of  *)
(* the row is part of what makes it one.                                   *)

Enumerates(e, n) == n \in Nat /\ e \in Bijection(1..n, Callers)

PartialSums(S, f, e, n) ==
    /\ S \in [0..n -> Nat]
    /\ S[0] = 0
    /\ \A i \in 1..n : S[i] = S[i - 1] + f[e[i]]
    /\ \A i, j \in 0..n : i <= j => S[i] <= S[j]
    /\ \A i, j \in 0..n : S[i] < S[j] => \E k \in (i + 1)..j : f[e[k]] > 0

SumIs(f, total, e, n) == \E S : PartialSums(S, f, e, n) /\ S[n] = total

LEMMA SumOfZeros ==
    ASSUME NEW e, NEW n, Enumerates(e, n)
    PROVE  SumIs([c \in Callers |-> 0], 0, e, n)
<1> DEFINE S == [i \in 0..n |-> 0]
<1>1. \A i \in 1..n : e[i] \in Callers /\ i - 1 \in 0..n /\ i \in 0..n
  BY DEF Enumerates, Bijection, Injection
<1>2. n \in Nat /\ 0 \in 0..n /\ n \in 0..n
  BY DEF Enumerates
<1>3. PartialSums(S, [c \in Callers |-> 0], e, n)
  BY <1>1, <1>2 DEF PartialSums
<1> QED
  BY <1>2, <1>3 DEF SumIs

\* One summand changes, and the sum with it.
LEMMA SumChanges ==
    ASSUME NEW e, NEW n, Enumerates(e, n), NEW f \in [Callers -> Nat], NEW total,
           SumIs(f, total, e, n), NEW c \in Callers, NEW v \in Nat
    PROVE  /\ total \in Nat /\ f[c] <= total
           /\ SumIs([f EXCEPT ![c] = v], total - f[c] + v, e, n)
<1>1. n \in Nat /\ \A i \in 1..n : e[i] \in Callers /\ i \in 0..n /\ i - 1 \in 0..n
  BY DEF Enumerates, Bijection, Injection
<1>2. PICK S : PartialSums(S, f, e, n) /\ S[n] = total
  BY DEF SumIs
<1>3. /\ S \in [0..n -> Nat] /\ S[0] = 0
      /\ \A i \in 1..n : S[i] = S[i - 1] + f[e[i]]
      /\ \A i, j \in 0..n : i <= j => S[i] <= S[j]
      /\ \A i, j \in 0..n : S[i] < S[j] => \E k \in (i + 1)..j : f[e[k]] > 0
  BY <1>2 DEF PartialSums
<1>4. PICK m \in 1..n : e[m] = c
  BY DEF Enumerates, Bijection, Surjection
<1>5. \A i \in 1..n : e[i] = c => i = m
  BY <1>1, <1>4 DEF Enumerates, Bijection, Injection, IsInjective
<1>6. /\ m \in 0..n /\ m - 1 \in 0..n /\ n \in 0..n /\ 0 \in 0..n
      /\ m \in Int /\ S[m] = S[m - 1] + f[c] /\ f[c] \in Nat
      /\ S[m] <= S[n] /\ 0 <= S[m - 1] /\ S[n] \in Nat /\ S[m] \in Nat /\ S[m - 1] \in Nat
  BY <1>1, <1>3, <1>4
<1>7. total \in Nat /\ f[c] <= total
  BY <1>2, <1>6
<1> DEFINE g == [f EXCEPT ![c] = v]
           T == [i \in 0..n |-> IF i < m THEN S[i] ELSE S[i] - f[c] + v]
<1>8. /\ g[c] = v /\ g \in [Callers -> Nat]
      /\ \A i \in 1..n : i # m => g[e[i]] = f[e[i]]
      /\ g[e[m]] = v
  BY <1>1, <1>4, <1>5
<1>9. /\ \A i \in 0..n : i < m => T[i] = S[i]
      /\ \A i \in 0..n : ~(i < m) => T[i] = S[i] - f[c] + v
  OBVIOUS
<1>10. ASSUME NEW i \in 0..n, ~(i < m)
       PROVE  S[m] <= S[i] /\ S[i] - f[c] \in Nat
  <2>1. m <= i /\ S[i] \in Nat
    BY <1>1, <1>3, <1>6, <1>10
  <2>2. S[m] <= S[i]
    BY <1>3, <1>6, <2>1
  <2> QED
    BY <1>6, <2>1, <2>2
<1>11. T \in [0..n -> Nat]
  BY <1>3, <1>10
<1> HIDE DEF T, g
<1>12. T[0] = 0
  BY <1>3, <1>4, <1>6, <1>9
<1>13. \A i \in 1..n : T[i] = T[i - 1] + g[e[i]]
  <2> SUFFICES ASSUME NEW i \in 1..n PROVE T[i] = T[i - 1] + g[e[i]]
    OBVIOUS
  <2>1. /\ i \in 0..n /\ i - 1 \in 0..n /\ S[i] = S[i - 1] + f[e[i]]
        /\ S[i] \in Nat /\ S[i - 1] \in Nat /\ f[e[i]] \in Nat
    BY <1>1, <1>3
  <2>2. CASE i < m
    BY <1>8, <1>9, <2>1, <2>2
  <2>3. CASE i = m
    BY <1>6, <1>8, <1>9, <2>1, <2>3
  <2>4. CASE i > m
    BY <1>6, <1>8, <1>9, <2>1, <2>4
  <2> QED
    BY <1>6, <2>2, <2>3, <2>4
<1>14. \A i, j \in 0..n : i <= j => T[i] <= T[j]
  <2> SUFFICES ASSUME NEW i \in 0..n, NEW j \in 0..n, i <= j PROVE T[i] <= T[j]
    OBVIOUS
  <2>1. S[i] <= S[j] /\ S[i] \in Nat /\ S[j] \in Nat
    BY <1>3
  <2>2. CASE i < m /\ ~(j < m)
    <3>1. S[i] <= S[m - 1] /\ S[m] <= S[j]
      BY <1>3, <1>6, <2>2
    <3> QED
      BY <1>6, <1>9, <2>1, <2>2, <3>1
  <2>3. CASE (i < m) <=> (j < m)
    BY <1>6, <1>9, <2>1, <2>3
  <2> QED
    BY <1>6, <2>2, <2>3
<1>15. \A i, j \in 0..n : T[i] < T[j] => \E k \in (i + 1)..j : g[e[k]] > 0
  <2> SUFFICES ASSUME NEW i \in 0..n, NEW j \in 0..n, T[i] < T[j]
               PROVE  \E k \in (i + 1)..j : g[e[k]] > 0
    OBVIOUS
  <2>1. S[i] \in Nat /\ S[j] \in Nat /\ T[i] \in Nat /\ T[j] \in Nat /\ i < j
    BY <1>3, <1>11, <1>14
  \* Before the changed summand or after it, the witness is the old one.
  <2>2. ASSUME NEW a \in i..j, NEW b \in i..j, b < m \/ a >= m, S[a] < S[b]
        PROVE  \E k \in (i + 1)..j : g[e[k]] > 0
    <3>1. a \in 0..n /\ b \in 0..n
      BY <1>1
    <3>2. PICK k \in (a + 1)..b : f[e[k]] > 0
      BY <1>3, <2>2, <3>1
    <3>3. k \in 1..n /\ k \in (i + 1)..j /\ k # m
      BY <1>6, <2>2, <3>1
    <3> QED
      BY <1>8, <3>2, <3>3
  <2>3. CASE j < m
    <3>1. S[i] < S[j] /\ i \in i..j /\ j \in i..j
      BY <1>6, <1>9, <2>1, <2>3
    <3> QED
      BY <2>2, <2>3, <3>1
  <2>4. CASE ~(i < m)
    <3>1. S[i] < S[j] /\ i \in i..j /\ j \in i..j /\ i >= m
      BY <1>6, <1>9, <2>1, <2>4
    <3> QED
      BY <2>2, <3>1
  <2>5. CASE i < m /\ ~(j < m)
    <3>1. m \in i..j /\ m - 1 \in i..j /\ m \in (i + 1)..j /\ j \in i..j /\ i \in i..j
      BY <1>6, <2>1, <2>5
    <3>2. CASE v > 0
      BY <1>8, <3>1, <3>2
    <3>3. CASE S[i] < S[m - 1]
      BY <1>6, <2>2, <3>1, <3>3
    <3>4. CASE S[m] < S[j]
      BY <1>6, <2>2, <3>1, <3>4
    <3>5. S[i] <= S[m - 1] /\ S[m] <= S[j] /\ T[i] = S[i] /\ T[j] = S[j] - f[c] + v
      BY <1>3, <1>6, <1>9, <2>5
    <3> QED
      BY <1>6, <2>1, <3>2, <3>3, <3>4, <3>5
  <2> QED
    BY <1>6, <2>1, <2>3, <2>4, <2>5
<1>16. PartialSums(T, g, e, n)
  BY <1>11, <1>12, <1>13, <1>14, <1>15 DEF PartialSums
<1>17. T[n] = total - f[c] + v
  BY <1>2, <1>4, <1>6, <1>9
<1> QED
  BY <1>7, <1>16, <1>17 DEF SumIs, g

\* A sum of nothing but zeros is zero.
LEMMA SumVanishes ==
    ASSUME NEW e, NEW n, Enumerates(e, n), NEW f, NEW total, SumIs(f, total, e, n),
           \A c \in Callers : f[c] = 0
    PROVE  total = 0
<1>1. n \in Nat /\ \A i \in 1..n : e[i] \in Callers
  BY DEF Enumerates, Bijection, Injection
<1>2. PICK S : PartialSums(S, f, e, n) /\ S[n] = total
  BY DEF SumIs
<1>3. /\ S[n] \in Nat /\ S[0] = 0
      /\ S[0] < S[n] => \E k \in (0 + 1)..n : f[e[k]] > 0
  BY <1>1, <1>2 DEF PartialSums
<1> QED
  BY <1>1, <1>2, <1>3

LEMMA CallersAreEnumerated == \E e, n : Enumerates(e, n)
<1>1. PICK n \in Nat : ExistsBijection(1..n, Callers)
  BY FS_NatBijection
<1> QED
  BY <1>1 DEF ExistsBijection, Enumerates

-----------------------------------------------------------------------------
(* Reservations that are the maximum they are meant to be: what is         *)
(* reserved covers the bill and what the callers may still be charged.     *)

\* What a caller's reservation still covers of a charge to come.
Slack(q) ==
    CASE q.step = "asked" -> q.amount
      [] q.step \in {"charged", "recorded"} -> q.amount - q.cost
      [] OTHER -> 0

\* What a caller has not yet recorded of a charge.
Unrecorded(q) == IF q.step = "charged" THEN q.cost ELSE 0

Charged(q) == q.step \in {"charged", "recorded"}

slack == [c \in Callers |-> Slack(call[c])]
unrecorded == [c \in Callers |-> Unrecorded(call[c])]

(* BilledIsReserved and TruedUp in the middle of any number of calls. *)
Covered(e, n) ==
    /\ \A c \in Callers : Charged(call[c]) => call[c].cost <= call[c].amount
    /\ \E open, late \in Nat :
          /\ SumIs(slack, open, e, n)
          /\ SumIs(unrecorded, late, e, n)
          /\ billed + open <= reserved
          /\ losses = 0 => spent + late = billed /\ billed + open = reserved

LEMMA SlackNat ==
    ASSUME NEW q \in Calls, Charged(q) => q.cost <= q.amount
    PROVE  Slack(q) \in Nat /\ Unrecorded(q) \in Nat
BY DEF Slack, Unrecorded, Charged, Calls, Steps

LEMMA IdleCovers == Slack(Idle) = 0 /\ Unrecorded(Idle) = 0 /\ ~Charged(Idle)
BY DEF Slack, Unrecorded, Charged, Idle

\* When everyone is idle both sums are zero.
LEMMA SumsWhenQuiet ==
    ASSUME NEW e, NEW n, Enumerates(e, n), Quiet
    PROVE  SumIs(slack, 0, e, n) /\ SumIs(unrecorded, 0, e, n)
<1>1. slack = [c \in Callers |-> 0] /\ unrecorded = [c \in Callers |-> 0]
  BY IdleCovers DEF slack, unrecorded, Quiet
<1> QED
  BY <1>1, SumOfZeros

LEMMA CoveredInit ==
    ASSUME NEW e, NEW n, Enumerates(e, n), Init
    PROVE  Covered(e, n)
<1>1. Quiet /\ billed = 0 /\ reserved = 0 /\ spent = 0
  BY DEF Init, Quiet
<1>2. \A c \in Callers : ~Charged(call[c])
  BY <1>1, IdleCovers DEF Quiet
<1>3. 0 \in Nat /\ billed + 0 <= reserved /\ spent + 0 = billed /\ billed + 0 = reserved
  BY <1>1
<1> QED
  BY <1>1, <1>2, <1>3, SumsWhenQuiet DEF Covered

\* One caller goes on; what it adds to the reservations covers what it adds
\* to the bill and to the slack.
LEMMA CallerStep ==
    ASSUME NEW e, NEW n, Enumerates(e, n), Typed, Covered(e, n),
           NEW c \in Callers, NEW q \in Calls, call' = [call EXCEPT ![c] = q],
           Charged(q) => q.cost <= q.amount,
           billed' \in Nat, reserved' \in Int, spent' \in Nat,
           billed' - billed + Slack(q) - Slack(call[c]) <= reserved' - reserved,
           losses' = 0 =>
              /\ losses = 0
              /\ spent' - spent + Unrecorded(q) - Unrecorded(call[c]) = billed' - billed
              /\ billed' - billed + Slack(q) - Slack(call[c]) = reserved' - reserved
    PROVE  Covered(e, n)'
<1>1. /\ call \in [Callers -> Calls] /\ billed \in Nat /\ reserved \in Int /\ spent \in Nat
      /\ \A d \in Callers : call[d] \in Calls
  BY DEF Typed, TypeOK
<1>2. \A d \in Callers : Charged(call[d]) => call[d].cost <= call[d].amount
  BY DEF Covered
<1>3. slack \in [Callers -> Nat] /\ unrecorded \in [Callers -> Nat]
  BY <1>1, <1>2, SlackNat DEF slack, unrecorded
<1>4. Slack(q) \in Nat /\ Unrecorded(q) \in Nat
  BY SlackNat
<1>5. slack[c] = Slack(call[c]) /\ unrecorded[c] = Unrecorded(call[c])
  BY DEF slack, unrecorded
<1>6. slack[c] \in Nat /\ unrecorded[c] \in Nat
  BY <1>3
<1>7. /\ slack' = [slack EXCEPT ![c] = Slack(q)]
      /\ unrecorded' = [unrecorded EXCEPT ![c] = Unrecorded(q)]
  <2>1. \A d \in Callers : call'[d] = IF d = c THEN q ELSE call[d]
    BY <1>1
  <2>2. \A d \in Callers :
           /\ Slack(call'[d]) = IF d = c THEN Slack(q) ELSE Slack(call[d])
           /\ Unrecorded(call'[d]) = IF d = c THEN Unrecorded(q) ELSE Unrecorded(call[d])
    BY <2>1
  <2>3. /\ slack' = [d \in Callers |-> Slack(call'[d])]
        /\ unrecorded' = [d \in Callers |-> Unrecorded(call'[d])]
    BY DEF slack, unrecorded
  <2>4. /\ \A d \in Callers : slack[d] = Slack(call[d])
        /\ \A d \in Callers : unrecorded[d] = Unrecorded(call[d])
    BY DEF slack, unrecorded
  <2> QED
    BY <1>3, <2>2, <2>3, <2>4
<1>8. PICK open \in Nat, late \in Nat :
         /\ SumIs(slack, open, e, n)
         /\ SumIs(unrecorded, late, e, n)
         /\ billed + open <= reserved
         /\ losses = 0 => spent + late = billed /\ billed + open = reserved
  BY DEF Covered
<1>9. /\ slack[c] <= open
      /\ SumIs(slack', open - slack[c] + Slack(q), e, n)
  BY <1>3, <1>4, <1>7, <1>8, SumChanges
<1>10. /\ unrecorded[c] <= late
       /\ SumIs(unrecorded', late - unrecorded[c] + Unrecorded(q), e, n)
  BY <1>3, <1>4, <1>7, <1>8, SumChanges
<1> DEFINE x == open - slack[c] + Slack(q)
           y == late - unrecorded[c] + Unrecorded(q)
<1>11. x \in Nat /\ y \in Nat
  BY <1>4, <1>6, <1>9, <1>10
<1>12. billed' + x <= reserved'
  BY <1>1, <1>4, <1>5, <1>6, <1>8
<1>13. losses' = 0 => spent' + y = billed' /\ billed' + x = reserved'
  BY <1>1, <1>4, <1>5, <1>6, <1>8
<1>14. \A d \in Callers : Charged(call'[d]) => call'[d].cost <= call'[d].amount
  BY <1>1, <1>2
<1>15. PICK x1, y1 : x1 = x /\ y1 = y
  OBVIOUS
<1>16. /\ x1 \in Nat /\ y1 \in Nat
       /\ SumIs(slack', x1, e, n) /\ SumIs(unrecorded', y1, e, n)
       /\ billed' + x1 <= reserved'
       /\ losses' = 0 => spent' + y1 = billed' /\ billed' + x1 = reserved'
  BY <1>9, <1>10, <1>11, <1>12, <1>13, <1>15
<1> HIDE DEF x, y
<1> QED
  BY <1>14, <1>16 DEF Covered

LEMMA CoveredStep ==
    ASSUME NEW e, NEW n, Enumerates(e, n), Overrun = 0, Limited, Covered(e, n),
           Limited', [Next]_vars
    PROVE  Covered(e, n)'
<1>1. /\ Typed /\ call \in [Callers -> Calls] /\ reserved \in Int /\ reserved' \in Int
      /\ billed \in Nat /\ billed' \in Nat /\ spent \in Nat /\ spent' \in Nat
      /\ losses \in Nat /\ Idle \in Calls
  BY DEF Limited, Typed, TypeOK, Idle, Calls, Steps
<1>2. \A c \in Callers : /\ call[c] \in Calls /\ call[c].amount \in Nat /\ call[c].cost \in Nat
                         /\ Charged(call[c]) => call[c].cost <= call[c].amount
  BY <1>1 DEF Covered, Calls
<1>3. ASSUME UNCHANGED <<call, billed, reserved, spent, losses>> PROVE Covered(e, n)'
  BY <1>3 DEF Covered, slack, unrecorded
<1>4. CASE UNCHANGED vars
  BY <1>3, <1>4 DEF vars
<1>5. CASE Boot
  BY <1>3, <1>5 DEF Boot
<1>6. CASE Crash
  <2>1. Quiet' /\ losses' # 0 /\ UNCHANGED <<billed, reserved>>
    BY <1>1, <1>6 DEF Crash, Quiet, ledger
  <2>2. SumIs(slack', 0, e, n) /\ SumIs(unrecorded', 0, e, n)
    <3>1. slack' = [c \in Callers |-> 0] /\ unrecorded' = [c \in Callers |-> 0]
      BY <2>1, IdleCovers DEF slack, unrecorded, Quiet
    <3> QED
      BY <3>1, SumOfZeros
  <2>3. billed' + 0 <= reserved'
    BY <1>1, <2>1 DEF Covered
  <2>4. \A c \in Callers : ~Charged(call'[c])
    BY <2>1, IdleCovers DEF Quiet
  <2>5. 0 \in Nat
    OBVIOUS
  <2> QED
    BY <2>1, <2>2, <2>3, <2>4, <2>5 DEF Covered
<1>7. ASSUME NEW c \in Callers, NEW t \in Tasks, NEW amount \in Prices, Reserve(c, t, amount)
      PROVE  Covered(e, n)'
  <2> DEFINE q == [step |-> "asked", task |-> t, amount |-> amount, cost |-> 0]
  <2>1. /\ call' = [call EXCEPT ![c] = q] /\ call[c] = Idle
        /\ reserved' = reserved + amount /\ UNCHANGED <<spent, billed, losses>>
    BY <1>7 DEF Reserve
  <2>2. amount \in Nat /\ q \in Calls
    BY DEF Calls, Steps
  <2>3. Slack(q) = amount /\ Unrecorded(q) = 0 /\ ~Charged(q)
    BY DEF Slack, Unrecorded, Charged
  <2> HIDE DEF q
  <2>4. /\ billed' - billed + Slack(q) - Slack(call[c]) <= reserved' - reserved
        /\ losses' = 0 =>
              /\ losses = 0
              /\ spent' - spent + Unrecorded(q) - Unrecorded(call[c]) = billed' - billed
              /\ billed' - billed + Slack(q) - Slack(call[c]) = reserved' - reserved
    BY <1>1, <2>1, <2>2, <2>3, IdleCovers
  <2> QED
    BY <1>1, <2>1, <2>2, <2>3, <2>4, CallerStep
<1>8. ASSUME NEW c \in Callers, NEW t \in Tasks, NEW amount \in Prices, Refuse(c, t, amount)
      PROVE  Covered(e, n)'
  BY <1>3, <1>8 DEF Refuse
<1>9. ASSUME NEW c \in Callers, Charge(c) PROVE Covered(e, n)'
  <2>1. call[c].amount + Overrun = call[c].amount
    BY <1>2
  <2>2. PICK cost \in 0..call[c].amount :
           /\ call' = [call EXCEPT ![c].step = "charged", ![c].cost = cost]
           /\ billed' = billed + cost
    BY <1>9, <2>1 DEF Charge
  <2> DEFINE q == [call[c] EXCEPT !.step = "charged", !.cost = cost]
  <2>3. /\ call' = [call EXCEPT ![c] = q] /\ call[c].step = "asked"
        /\ UNCHANGED <<reserved, spent, losses>>
    BY <1>1, <1>9, <2>2 DEF Charge, ledger
  <2>4. cost \in Nat /\ cost <= call[c].amount
    BY <1>2, <2>2
  <2>5. /\ q.step = "charged" /\ q.cost = cost /\ q.amount = call[c].amount
        /\ q \in Calls
    BY <1>2, <2>4 DEF Calls, Steps
  <2> HIDE DEF q
  <2>6. /\ Slack(q) = call[c].amount - cost /\ Unrecorded(q) = cost
        /\ Slack(call[c]) = call[c].amount /\ Unrecorded(call[c]) = 0
    BY <2>3, <2>5 DEF Slack, Unrecorded
  <2>7. /\ billed' - billed + Slack(q) - Slack(call[c]) <= reserved' - reserved
        /\ losses' = 0 =>
              /\ losses = 0
              /\ spent' - spent + Unrecorded(q) - Unrecorded(call[c]) = billed' - billed
              /\ billed' - billed + Slack(q) - Slack(call[c]) = reserved' - reserved
    BY <1>1, <1>2, <2>2, <2>3, <2>4, <2>6
  <2> QED
    BY <1>1, <2>3, <2>4, <2>5, <2>7, CallerStep
<1>10. ASSUME NEW c \in Callers, RecordSpend(c) PROVE Covered(e, n)'
  <2> DEFINE q == [call[c] EXCEPT !.step = "recorded"]
  <2>1. /\ call' = [call EXCEPT ![c] = q] /\ call[c].step = "charged"
        /\ spent' = spent + call[c].cost
        /\ UNCHANGED <<reserved, billed, losses>>
    BY <1>1, <1>10 DEF RecordSpend
  <2>2. q \in Calls
    BY <1>2 DEF Calls, Steps
  <2>3. q.step = "recorded" /\ q.cost = call[c].cost /\ q.amount = call[c].amount
    BY <1>2 DEF Calls
  <2> HIDE DEF q
  <2>4. /\ Slack(q) = call[c].amount - call[c].cost /\ Unrecorded(q) = 0
        /\ Slack(call[c]) = call[c].amount - call[c].cost
        /\ Unrecorded(call[c]) = call[c].cost
    BY <2>1, <2>3 DEF Slack, Unrecorded
  <2>5. q.cost <= q.amount
    BY <1>2, <2>1, <2>3 DEF Charged
  <2>6. /\ billed' - billed + Slack(q) - Slack(call[c]) <= reserved' - reserved
        /\ losses' = 0 =>
              /\ losses = 0
              /\ spent' - spent + Unrecorded(q) - Unrecorded(call[c]) = billed' - billed
              /\ billed' - billed + Slack(q) - Slack(call[c]) = reserved' - reserved
    BY <1>1, <1>2, <2>1, <2>4
  <2> QED
    BY <1>1, <2>1, <2>2, <2>5, <2>6, CallerStep
<1>11. ASSUME NEW c \in Callers, Release(c) PROVE Covered(e, n)'
  <2>1. /\ call' = [call EXCEPT ![c] = Idle] /\ call[c].step = "recorded"
        /\ reserved' = reserved - Unused(call[c])
        /\ UNCHANGED <<spent, billed, losses>>
    BY <1>11 DEF Release
  <2>2. call[c].cost <= call[c].amount
    BY <1>2, <2>1 DEF Charged
  <2>3. Unused(call[c]) = call[c].amount - call[c].cost
    BY <1>2, <2>2 DEF Unused
  <2>4. Slack(call[c]) = call[c].amount - call[c].cost /\ Unrecorded(call[c]) = 0
    BY <2>1 DEF Slack, Unrecorded
  <2>5. /\ billed' - billed + Slack(Idle) - Slack(call[c]) <= reserved' - reserved
        /\ losses' = 0 =>
              /\ losses = 0
              /\ spent' - spent + Unrecorded(Idle) - Unrecorded(call[c]) = billed' - billed
              /\ billed' - billed + Slack(Idle) - Slack(call[c]) = reserved' - reserved
    BY <1>1, <1>2, <2>1, <2>3, <2>4, IdleCovers
  <2> QED
    BY <1>1, <2>1, <2>5, IdleCovers, CallerStep
<1>12. ASSUME NEW c \in Callers, Fail(c) PROVE Covered(e, n)'
  <2>1. /\ call' = [call EXCEPT ![c] = Idle] /\ losses' # 0
        /\ UNCHANGED <<reserved, spent, billed>>
    BY <1>1, <1>12 DEF Fail, ledger
  <2>2. Slack(call[c]) \in Nat
    BY <1>2, SlackNat
  <2>3. billed' - billed + Slack(Idle) - Slack(call[c]) <= reserved' - reserved
    BY <1>1, <2>1, <2>2, IdleCovers
  <2> QED
    BY <1>1, <2>1, <2>3, IdleCovers, CallerStep
<1> QED
  BY <1>4, <1>5, <1>6, <1>7, <1>8, <1>9, <1>10, <1>11, <1>12 DEF Next, Complete

\* What the two properties need of it.
LEMMA CoveredSuffices ==
    ASSUME NEW e, NEW n, Enumerates(e, n), Limited, Covered(e, n)
    PROVE  BilledIsReserved /\ TruedUp
<1>1. PICK open \in Nat, late \in Nat :
         /\ SumIs(slack, open, e, n)
         /\ SumIs(unrecorded, late, e, n)
         /\ billed + open <= reserved
         /\ losses = 0 => spent + late = billed /\ billed + open = reserved
  BY DEF Covered
<1>2. billed \in Nat /\ reserved \in Int /\ spent \in Nat
  BY DEF Limited, Typed, TypeOK
<1>3. BilledIsReserved
  BY <1>1, <1>2 DEF BilledIsReserved
<1>4. ASSUME Quiet PROVE open = 0 /\ late = 0
  <2>1. \A c \in Callers : slack[c] = 0 /\ unrecorded[c] = 0
    BY <1>4, IdleCovers DEF Quiet, slack, unrecorded
  <2> QED
    BY <1>1, <2>1, SumVanishes
<1>5. TruedUp
  BY <1>1, <1>2, <1>4 DEF TruedUp
<1> QED
  BY <1>3, <1>5

LEMMA CoveredAlways ==
    ASSUME NEW e, NEW n, Enumerates(e, n), Overrun = 0
    PROVE  Spec => [](BilledIsReserved /\ TruedUp)
<1>1. Init => Covered(e, n)
  BY CoveredInit
<1>2. Limited /\ Limited' /\ Covered(e, n) /\ [Next]_vars => Covered(e, n)'
  BY CoveredStep
<1>3. Limited /\ Covered(e, n) => BilledIsReserved /\ TruedUp
  BY CoveredSuffices
<1> QED
  BY <1>1, <1>2, <1>3, LimitedAlways, PTL DEF Spec

(* However many threads are inside complete() at a time, the provider      *)
(* never charges more than is reserved, whichever step of complete() an    *)
(* exception or a crash interrupts, as long as a reservation is the        *)
(* maximum it is meant to be.                                              *)
THEOREM BillIsCovered == Spec => []BilledIsReserved
<1>1. CASE Overrun = 0
  <2>1. PICK e, n : Enumerates(e, n)
    BY CallersAreEnumerated
  <2> QED
    BY <1>1, <2>1, CoveredAlways, PTL
<1>2. CASE Overrun # 0
  <2>1. BilledIsReserved
    BY <1>2 DEF BilledIsReserved
  <2> QED
    BY <2>1, PTL
<1> QED
  BY <1>1, <1>2

(* As long as no call is lost the ledger is exact whenever no thread is    *)
(* inside complete(): what is reserved is what was spent and what the      *)
(* provider charged.                                                       *)
THEOREM LedgerIsExact == Spec => []TruedUp
<1>1. CASE Overrun = 0
  <2>1. PICK e, n : Enumerates(e, n)
    BY CallersAreEnumerated
  <2> QED
    BY <1>1, <2>1, CoveredAlways, PTL
<1>2. CASE Overrun # 0
  <2>1. TruedUp
    BY <1>2 DEF TruedUp
  <2> QED
    BY <2>1, PTL
<1> QED
  BY <1>1, <1>2
=============================================================================
