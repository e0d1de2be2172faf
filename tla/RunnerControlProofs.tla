------------------------- MODULE RunnerControlProofs -------------------------
(***************************************************************************)
(* TLAPS proofs about RunnerControl, for any number of requests under way  *)
(* and any number of faults.                                               *)
(***************************************************************************)
EXTENDS RunnerControl, SequenceTheorems, TLAPS

USE ControlAssumption

-----------------------------------------------------------------------------
(* What the invariant says of a sequence w of requests under way.          *)
IsAsk(r) == r.awaited /\ ~OfBeat(r)

HasAsk(w) == \E j \in DOMAIN w : IsAsk(w[j])
HasClaim(w) == \E j \in DOMAIN w : IsAsk(w[j]) /\ w[j].what = "claim"
HasState(w) == \E j \in DOMAIN w : w[j].what = "state"
NoResult(w) == \A j \in DOMAIN w : w[j].what # "result"
Carries(w) == \A j \in DOMAIN w : w[j].what = "result" => w[j].outcome \in Outcomes
AskLast(w) == \A j, k \in DOMAIN w : j < k /\ IsAsk(w[j]) => OfBeat(w[k])
StatesFirst(w) ==
    \A j, k \in DOMAIN w : j < k /\ w[k].what = "state" => w[j].what # "result"

Good(w) == w \in Seq(Request) /\ Carries(w) /\ AskLast(w) /\ StatesFirst(w)

\* v has requests of w only, in their order, some of them awaited no longer.
Thinner(w, v) ==
    /\ v \in Seq(Request)
    /\ \E f \in [DOMAIN v -> DOMAIN w] :
          /\ \A j, k \in DOMAIN v : j < k => f[j] < f[k]
          /\ \A j \in DOMAIN v :
                /\ v[j].what = w[f[j]].what /\ v[j].outcome = w[f[j]].outcome
                /\ v[j].awaited => w[f[j]].awaited

LEMMA ThinFacts ==
    ASSUME NEW w, NEW v, Good(w), Thinner(w, v)
    PROVE  /\ Good(v)
           /\ NoResult(w) => NoResult(v)
           /\ HasAsk(v) => HasAsk(w)
           /\ HasClaim(v) => HasClaim(w)
           /\ HasState(v) => HasState(w)
<1>1. PICK f \in [DOMAIN v -> DOMAIN w] :
         /\ \A j, k \in DOMAIN v : j < k => f[j] < f[k]
         /\ \A j \in DOMAIN v :
               /\ v[j].what = w[f[j]].what /\ v[j].outcome = w[f[j]].outcome
               /\ v[j].awaited => w[f[j]].awaited
  BY DEF Thinner
<1>2. \A j \in DOMAIN v : f[j] \in DOMAIN w /\ (IsAsk(v[j]) => IsAsk(w[f[j]]))
                          /\ (OfBeat(w[f[j]]) => OfBeat(v[j]))
  BY <1>1 DEF IsAsk, OfBeat
<1>3. v \in Seq(Request) /\ Carries(v)
  BY <1>1, <1>2 DEF Thinner, Good, Carries
<1>4. AskLast(v)
  BY <1>1, <1>2 DEF Good, AskLast
<1>5. StatesFirst(v)
  BY <1>1, <1>2 DEF Good, StatesFirst
<1>6. /\ NoResult(w) => NoResult(v)
      /\ HasAsk(v) => HasAsk(w)
      /\ HasClaim(v) => HasClaim(w)
      /\ HasState(v) => HasState(w)
  BY <1>1, <1>2 DEF NoResult, HasAsk, HasClaim, HasState
<1> QED
  BY <1>3, <1>4, <1>5, <1>6 DEF Good

LEMMA AppendFacts ==
    ASSUME NEW w, NEW r \in Request, Good(w),
           r.what = "result" => r.outcome \in Outcomes,
           OfBeat(r) \/ ~HasAsk(w),
           r.what = "state" => NoResult(w)
    PROVE  /\ Good(Append(w, r))
           /\ NoResult(w) /\ r.what # "result" => NoResult(Append(w, r))
           /\ HasAsk(Append(w, r)) => HasAsk(w) \/ IsAsk(r)
           /\ HasClaim(Append(w, r)) => HasClaim(w) \/ r.what = "claim"
           /\ HasState(Append(w, r)) => HasState(w) \/ r.what = "state"
<1> DEFINE v == Append(w, r)  n == Len(w) + 1
<1>1. /\ v \in Seq(Request) /\ DOMAIN v = DOMAIN w \cup {n} /\ v[n] = r
      /\ \A j \in DOMAIN w : v[j] = w[j] /\ j < n /\ j \in Nat
      /\ n \in Nat
  BY DEF Good
<1> HIDE DEF v, n
<1>2. Carries(v)
  BY <1>1 DEF Good, Carries
<1>3. AskLast(v)
  BY <1>1 DEF Good, AskLast, HasAsk
<1>4. StatesFirst(v)
  BY <1>1 DEF Good, StatesFirst, NoResult
<1>5. /\ NoResult(w) /\ r.what # "result" => NoResult(v)
      /\ HasAsk(v) => HasAsk(w) \/ IsAsk(r)
      /\ HasClaim(v) => HasClaim(w) \/ r.what = "claim"
      /\ HasState(v) => HasState(w) \/ r.what = "state"
  BY <1>1 DEF NoResult, HasAsk, HasClaim, HasState
<1> QED
  BY <1>1, <1>2, <1>3, <1>4, <1>5 DEF Good, v

LEMMA YoungerThins ==
    ASSUME wire \in Seq(Request), NEW i \in DOMAIN wire
    PROVE  /\ Thinner(wire, Younger(i))
           /\ \A j \in DOMAIN Younger(i) :
                 /\ j + i \in DOMAIN wire /\ i < j + i
                 /\ Younger(i)[j] = wire[j + i]
<1>1. /\ Younger(i) \in Seq(Request)
      /\ DOMAIN Younger(i) = 1..(Len(wire) - i)
      /\ \A j \in 1..(Len(wire) - i) : Younger(i)[j] = wire[j + i]
  BY DEF Younger
<1> DEFINE f == [j \in 1..(Len(wire) - i) |-> j + i]
<1>2. f \in [DOMAIN Younger(i) -> DOMAIN wire]
  BY <1>1
<1>3. \A j, k \in DOMAIN Younger(i) : j < k => f[j] < f[k]
  BY <1>1
<1>4. \A j \in DOMAIN Younger(i) : Younger(i)[j] = wire[f[j]]
  BY <1>1
<1> HIDE DEF f
<1>5. Thinner(wire, Younger(i))
  BY <1>1, <1>2, <1>3, <1>4 DEF Thinner
<1>6. \A j \in DOMAIN Younger(i) : j + i \in DOMAIN wire /\ i < j + i
  BY <1>1
<1> QED
  BY <1>1, <1>5, <1>6

LEMMA LossThins ==
    ASSUME wire \in Seq(Request), NEW i \in DOMAIN wire
    PROVE  Thinner(wire, SubSeq(wire, 1, i - 1) \o SubSeq(wire, i + 1, Len(wire)))
<1> DEFINE a == SubSeq(wire, 1, i - 1)  b == SubSeq(wire, i + 1, Len(wire))
           v == a \o b
           f == [j \in 1..(Len(wire) - 1) |-> IF j < i THEN j ELSE j + 1]
<1>1. i \in 1..Len(wire) /\ Len(wire) \in Nat
  OBVIOUS
<1>2. /\ a \in Seq(Request) /\ Len(a) = i - 1
      /\ \A j \in 1..(i - 1) : a[j] = wire[j]
  BY <1>1
<1>3. /\ b \in Seq(Request) /\ Len(b) = Len(wire) - i
      /\ \A j \in 1..(Len(wire) - i) : b[j] = wire[j + i]
  BY <1>1
<1> HIDE DEF a, b
<1>4. /\ v \in Seq(Request) /\ DOMAIN v = 1..(Len(wire) - 1)
      /\ \A j \in 1..(Len(wire) - 1) : v[j] = IF j < i THEN a[j] ELSE b[j - i + 1]
  <2>1. /\ v \in Seq(Request) /\ Len(v) = Len(a) + Len(b)
        /\ \A j \in 1..(Len(a) + Len(b)) : v[j] = IF j <= Len(a) THEN a[j] ELSE b[j - Len(a)]
    BY <1>2, <1>3, ConcatProperties
  <2>2. Len(a) + Len(b) = Len(wire) - 1
    BY <1>1, <1>2, <1>3
  <2>3. DOMAIN v = 1..(Len(wire) - 1)
    BY <2>1, <2>2
  <2>4. \A j \in 1..(Len(wire) - 1) : (j <= Len(a) <=> j < i) /\ j - Len(a) = j - i + 1
    BY <1>1, <1>2
  <2> QED
    BY <2>1, <2>2, <2>3, <2>4
<1>5. \A j \in DOMAIN v : v[j] = wire[f[j]]
  <2> SUFFICES ASSUME NEW j \in 1..(Len(wire) - 1) PROVE v[j] = wire[f[j]]
    BY <1>4
  <2>1. CASE j < i
    BY <1>1, <1>2, <1>4, <2>1
  <2>2. CASE ~(j < i)
    <3>1. j - i + 1 \in 1..(Len(wire) - i)
      BY <1>1, <2>2
    <3>2. b[j - i + 1] = wire[j - i + 1 + i]
      BY <1>3, <3>1
    <3>3. j - i + 1 + i = j + 1
      BY <1>1
    <3>4. v[j] = b[j - i + 1] /\ f[j] = j + 1
      BY <1>4, <2>2
    <3> QED
      BY <3>2, <3>3, <3>4
  <2> QED
    BY <2>1, <2>2
<1>6. f \in [DOMAIN v -> DOMAIN wire] /\ \A j, k \in DOMAIN v : j < k => f[j] < f[k]
  BY <1>1, <1>4
<1> HIDE DEF v, f
<1>7. Thinner(wire, v)
  BY <1>4, <1>5, <1>6 DEF Thinner
<1> QED
  BY <1>7 DEF v, a, b

\* A loop that waits no longer.
LEMMA ForgetThins ==
    ASSUME wire \in Seq(Request), wire' \in [DOMAIN wire -> Request],
           \A j \in DOMAIN wire :
              wire'[j] = wire[j] \/ wire'[j] = [wire[j] EXCEPT !.awaited = FALSE]
    PROVE  Thinner(wire, wire')
<1>1. wire' \in Seq(Request) /\ DOMAIN wire' = DOMAIN wire
  <2>1. DOMAIN wire = 1..Len(wire) /\ Len(wire) \in Nat
    OBVIOUS
  <2> QED
    BY <2>1
<1> DEFINE f == [j \in DOMAIN wire |-> j]
<1>2. f \in [DOMAIN wire' -> DOMAIN wire] /\ \A j, k \in DOMAIN wire' : j < k => f[j] < f[k]
  BY <1>1
<1>3. \A j \in DOMAIN wire' : /\ wire'[j].what = wire[f[j]].what
                              /\ wire'[j].outcome = wire[f[j]].outcome
                              /\ wire'[j].awaited => wire[f[j]].awaited
  BY <1>1 DEF Request
<1> HIDE DEF f
<1> QED
  BY <1>1, <1>2, <1>3 DEF Thinner
-----------------------------------------------------------------------------
\* The rows of the table that the events of the server can meet.
LEMMA TransitionFacts ==
    ASSUME memory \in States, file \in States, NEW event, Transition(event)
    PROVE  /\ memory' \in States /\ file' \in States
           /\ UNCHANGED <<memory, file>> \/ file' = memory'
           /\ memory = "stopped" /\ event # "start" => UNCHANGED <<memory, file>>
           /\ memory' = "idle" => \/ memory = "idle" /\ event # "task_claimed"
                               \/ event \in {"no_ready_tasks", "safe_point_reached_idle"}
           /\ memory' = "running" => memory = "running" \/ event = "task_claimed"
           /\ memory' = "running" =>
                 event \notin {"safe_point_reached_idle", "owner_gate_blocked", "rate_limited",
                               "auth_required", "task_failed", "emergency_stop_command"}
<1> USE DEF Transition
<1>1. CASE memory = "stopped"
  BY <1>1 DEF Transitions, States
<1>2. CASE memory = "starting"
  BY <1>2 DEF Transitions, States
<1>3. CASE memory = "idle"
  BY <1>3 DEF Transitions, States
<1>4. CASE memory = "running"
  BY <1>4 DEF Transitions, States
<1>5. CASE memory \in {"pause_requested", "paused", "stop_requested"}
  BY <1>5 DEF Transitions, States
<1>6. CASE memory \in {"waiting_for_limit", "waiting_for_owner", "authentication_required"}
  BY <1>6 DEF Transitions, States
<1>7. CASE memory \in {"failed", "completed"}
  BY <1>7 DEF Transitions, States
<1> QED
  BY <1>1, <1>2, <1>3, <1>4, <1>5, <1>6, <1>7 DEF Transitions, States

LEMMA EventFacts ==
    ASSUME NEW outcome \in Outcomes
    PROVE  /\ Event(outcome) \notin {"start", "task_claimed", "no_ready_tasks"}
           /\ outcome # "checkpointing" =>
                 Event(outcome) \in {"safe_point_reached_idle", "owner_gate_blocked",
                                     "rate_limited", "auth_required", "task_failed",
                                     "emergency_stop_command"}
BY DEF Outcomes, Event

Snapshot == memory \in States /\ file \in States /\ SnapshotIsState

\* What an accepted request does to the state of the runner.
LEMMA HandleFacts ==
    ASSUME Snapshot, NEW r \in Request, r.what = "result" => r.outcome \in Outcomes,
           last \in Outcomes \cup {NULL},
           NEW answer, answer = "task" => r.what = "claim", Handle(r, answer)
    PROVE  /\ Snapshot'
           /\ last' = IF r.what = "result" THEN r.outcome
                      ELSE IF answer = "task" THEN NULL ELSE last
           /\ answer = "task" => memory' # "idle"
           /\ memory' = "idle" => memory = "idle" \/ r.what = "result"
           /\ memory' = "running" =>
                 \/ r.what = "state" \/ answer = "task"
                 \/ memory = "running" /\ (r.what = "result" => r.outcome = "checkpointing")
<1> USE DEF Snapshot, SnapshotIsState, Handle
<1>1. CASE r.what = "heartbeat"
  <2>1. CASE file = "stopped"
    <3>1. Transition("start") /\ last' = last
      BY <1>1, <2>1
    <3> QED
      BY <1>1, <2>1, <3>1, TransitionFacts
  <2>2. CASE file # "stopped"
    BY <1>1, <2>2
  <2> QED
    BY <2>1, <2>2
<1>2. CASE r.what = "claim" /\ answer = "task"
  <2>1. Transition("task_claimed") /\ last' = NULL
    BY <1>2
  <2>2. memory' # "idle"
    BY <2>1, TransitionFacts
  <2> QED
    BY <1>2, <2>1, <2>2, TransitionFacts
<1>3. CASE r.what = "state"
  <2>1. Transition("task_claimed") /\ last' = last
    BY <1>3
  <2> QED
    BY <1>3, <2>1, TransitionFacts
<1>4. CASE r.what = "result"
  <2>1. Transition(Event(r.outcome)) /\ last' = r.outcome /\ r.outcome \in Outcomes
    BY <1>4
  <2> QED
    BY <1>4, <2>1, TransitionFacts, EventFacts
<1>5. CASE r.what \notin {"heartbeat", "state", "result"} /\ ~(r.what = "claim" /\ answer = "task")
  BY <1>5 DEF server
<1> QED
  BY <1>1, <1>2, <1>3, <1>4, <1>5

-----------------------------------------------------------------------------
(* A task is in the agent's hands, or on its way to it. *)
Busy == at \in Working \/ reply = "task"

Loops ==
    /\ command \in Commands \cup {NULL}
    /\ beat \in {"off", "waiting", "ok", "refused"}
    /\ heard \in Commands \cup {NULL}
    /\ at \in Places
    /\ reply \in {"off", "waiting", "ok", "task", "refused"}
    /\ mirror \in Commands \cup {NULL}
    /\ last \in Outcomes \cup {NULL}
    /\ at = "session" => reply = "off"
    /\ at \in {"free", "stage"} => reply = "off"
    /\ reply = "task" => at = "claiming"

(* What is under way agrees with what the claim loop waits for; a task in  *)
(* the agent's hands has no result before it on the wire.                  *)
Wires ==
    /\ Good(wire)
    /\ HasAsk(wire) => reply = "waiting"
    /\ HasClaim(wire) => at = "claiming"
    /\ HasState(wire) => last = NULL
    /\ Busy => NoResult(wire)

Shown ==
    /\ Busy => memory # "idle" /\ last = NULL
    /\ memory = "running" => last \in {NULL, "checkpointing"}

ToldIsMirrored == told => mirror = command

ControlInv == Snapshot /\ Loops /\ Wires /\ Shown /\ ToldIsMirrored

(* The rest of the type invariant. *)
Rest == told \in BOOLEAN /\ faults \in Nat

LEMMA ControlInit == Init => ControlInv /\ Rest
<1> SUFFICES ASSUME Init PROVE ControlInv /\ Rest
  OBVIOUS
<1> USE DEF Init
<1>1. Snapshot
  BY DEF Snapshot, SnapshotIsState, States, Transitions
<1>2. Loops /\ Shown
  BY DEF Loops, Places, Shown, Busy, Working
<1>3. Wires
  <2>1. DOMAIN wire = {} /\ wire \in Seq(Request)
    OBVIOUS
  <2> QED
    BY <2>1 DEF Wires, Good, Carries, AskLast, StatesFirst, HasAsk, HasClaim, HasState,
                NoResult
<1>4. ToldIsMirrored
  BY DEF ToldIsMirrored
<1>5. Rest
  <2>1. told \in BOOLEAN
    BY Zenon
  <2>2. faults \in Nat
    OBVIOUS
  <2> QED
    BY <2>1, <2>2, Zenon DEF Rest
<1> QED
  BY <1>1, <1>2, <1>3, <1>4, <1>5, Zenon DEF ControlInv

\* Steps that only shorten the wire, and leave the claim loop busy or make it free.
LEMMA ThinStep ==
    ASSUME ControlInv, Loops', ToldIsMirrored', Thinner(wire, wire'), Snapshot',
           memory' = memory \/ memory' = "stopped", last' = last,
           Busy' => Busy,
           HasAsk(wire') => reply' = "waiting",
           HasClaim(wire') => at' = "claiming"
    PROVE  ControlInv'
<1> USE DEF ControlInv, Wires, Shown
<1>1. /\ Good(wire') /\ (NoResult(wire) => NoResult(wire'))
      /\ HasState(wire') => HasState(wire)
  BY ThinFacts
<1>2. Wires'
  BY <1>1 DEF Good, Carries, AskLast, StatesFirst, HasAsk, HasClaim, HasState, NoResult
<1>3. Shown'
  OBVIOUS
<1> QED
  BY <1>2, <1>3
LEMMA SameThins ==
    ASSUME wire \in Seq(Request), wire' = wire
    PROVE  Thinner(wire, wire')
<1>1. wire' \in [DOMAIN wire -> Request]
  <2>1. wire \in [1..Len(wire) -> Request] /\ DOMAIN wire = 1..Len(wire)
    OBVIOUS
  <2> QED
    BY <2>1
<1> QED
  BY <1>1, ForgetThins

\* A step inside the agent: nothing is sent and nothing arrives.
LEMMA LocalStep ==
    ASSUME ControlInv, Loops', ToldIsMirrored', UNCHANGED <<server, wire>>,
           Busy' => Busy,
           reply = "waiting" => UNCHANGED <<at, reply>>
    PROVE  ControlInv'
<1> USE DEF ControlInv, server
<1>1. Thinner(wire, wire')
  BY SameThins DEF Wires, Good
<1>2. Snapshot'
  BY DEF Snapshot, SnapshotIsState
<1>3. HasAsk(wire') => reply' = "waiting"
  BY DEF Wires
<1>4. HasClaim(wire') => at' = "claiming"
  BY DEF Wires, HasAsk, HasClaim
<1> QED
  BY <1>1, <1>2, <1>3, <1>4, ThinStep

\* A request of one of the loops.
LEMMA SendStep ==
    ASSUME ControlInv, Loops', ToldIsMirrored', UNCHANGED server,
           NEW r \in Request, wire' = Append(wire, r),
           r.what = "result" => r.outcome \in Outcomes,
           \/ OfBeat(r) /\ UNCHANGED <<at, reply>>
           \/ ~OfBeat(r) /\ reply # "waiting" /\ reply' = "waiting",
           r.what = "state" => Busy,
           r.what = "claim" => at' = "claiming",
           Busy' => Busy /\ r.what # "result"
    PROVE  ControlInv'
<1> USE DEF ControlInv, server
<1>1. Good(wire) /\ (OfBeat(r) \/ ~HasAsk(wire)) /\ (r.what = "state" => NoResult(wire))
  BY DEF Wires
<1>2. /\ Good(wire')
      /\ NoResult(wire) /\ r.what # "result" => NoResult(wire')
      /\ HasAsk(wire') => HasAsk(wire) \/ IsAsk(r)
      /\ HasClaim(wire') => HasClaim(wire) \/ r.what = "claim"
      /\ HasState(wire') => HasState(wire) \/ r.what = "state"
  BY <1>1, AppendFacts
<1>3. Snapshot' /\ Shown'
  BY DEF Snapshot, SnapshotIsState, Shown
<1>4. /\ HasAsk(wire)' => reply' = "waiting"
      /\ HasClaim(wire)' => at' = "claiming"
  <2>1. HasClaim(wire) => HasAsk(wire)
    BY DEF HasClaim, HasAsk
  <2>2. HasAsk(wire') => reply' = "waiting"
    BY <1>2 DEF Wires, IsAsk
  <2>3. HasClaim(wire') => at' = "claiming"
    BY <1>1, <1>2, <2>1 DEF Wires
  <2> QED
    BY <2>2, <2>3 DEF HasAsk, HasClaim
<1>5. HasState(wire') => last' = NULL
  BY <1>2 DEF Wires, Shown
<1>6. Busy' => NoResult(wire')
  BY <1>2 DEF Wires
<1>7. Wires'
  BY <1>2, <1>4, <1>5, <1>6 DEF Wires, Good, Carries, AskLast, StatesFirst, HasState, NoResult
<1> QED
  BY <1>3, <1>7

\* The server accepts one request and refuses the older ones.
LEMMA AcceptStep ==
    ASSUME ControlInv, NEW i \in DOMAIN wire, NEW answer \in {"ok", "task"}, Accept(i, answer)
    PROVE  ControlInv'
<1> USE DEF ControlInv
<1>1. wire \in Seq(Request) /\ wire[i] \in Request /\ i \in Nat
  BY DEF Wires, Good
<1>2. Thinner(wire, wire') /\ \A j \in DOMAIN wire' :
         j + i \in DOMAIN wire /\ i < j + i /\ wire'[j] = wire[j + i]
  BY <1>1, YoungerThins DEF Accept
<1>3. /\ Good(wire') /\ (NoResult(wire) => NoResult(wire'))
      /\ HasAsk(wire') => HasAsk(wire)
      /\ HasClaim(wire') => HasClaim(wire)
      /\ HasState(wire') => HasState(wire)
  BY <1>2, ThinFacts DEF Wires
<1> DEFINE r == wire[i]
<1>4. r.what = "result" => r.outcome \in Outcomes
  BY DEF Wires, Good, Carries
<1>5. answer = "task" => r.what = "claim"
  BY DEF Accept
<1>6. Handle(r, answer)
  BY DEF Accept
<1>7. last \in Outcomes \cup {NULL}
  BY DEF Loops
<1> HIDE DEF r
<1>8. /\ Snapshot'
      /\ last' = IF r.what = "result" THEN r.outcome
                 ELSE IF answer = "task" THEN NULL ELSE last
      /\ answer = "task" => memory' # "idle"
      /\ memory' = "idle" => memory = "idle" \/ r.what = "result"
      /\ memory' = "running" =>
            \/ r.what = "state" \/ answer = "task"
            \/ memory = "running" /\ (r.what = "result" => r.outcome = "checkpointing")
  BY <1>1, <1>4, <1>5, <1>6, <1>7, HandleFacts DEF r
<1>9. /\ UNCHANGED <<command, at, mirror, told>>
      /\ beat' \in {"ok", "refused", beat}
      /\ heard' \in {command, heard}
  BY DEF Accept
\* The answer of the claim loop.
<1>10. IsAsk(r) => HasAsk(wire)
  BY DEF HasAsk, r
<1>11. reply' = IF Awaited(i, i, FALSE) THEN answer
                ELSE IF Awaited(1, i - 1, FALSE) THEN "refused" ELSE reply
  BY DEF Accept
<1>12. Awaited(i, i, FALSE) => IsAsk(r)
  <2>1. \A j \in i..i : j = i
    BY <1>1
  <2> QED
    BY <2>1, <1>1 DEF Awaited, IsAsk, r, OfBeat
<1>13. HasAsk(wire') => /\ ~Awaited(i, i, FALSE) /\ ~Awaited(1, i - 1, FALSE)
  <2> SUFFICES ASSUME NEW j \in DOMAIN wire', IsAsk(wire'[j])
               PROVE  ~Awaited(i, i, FALSE) /\ ~Awaited(1, i - 1, FALSE)
    BY DEF HasAsk
  <2>1. j + i \in DOMAIN wire /\ i < j + i /\ ~OfBeat(wire[j + i])
    BY <1>2 DEF IsAsk
  <2>2. \A k \in DOMAIN wire : k <= i => ~IsAsk(wire[k])
    BY <1>1, <2>1 DEF Wires, Good, AskLast
  <2>3. \A k \in 1..i : k \in DOMAIN wire
    BY <1>1
  <2>4. \A k \in 1..i : ~(wire[k].awaited /\ OfBeat(wire[k]) = FALSE)
    BY <2>2, <2>3 DEF IsAsk
  <2> QED
    BY <1>1, <2>4 DEF Awaited
<1>14. HasAsk(wire') => reply' = "waiting"
  BY <1>3, <1>11, <1>13 DEF Wires
<1>15. HasClaim(wire') => at' = "claiming"
  BY <1>3, <1>9 DEF Wires
<1>16. reply' \in {"off", "waiting", "ok", "task", "refused"}
  BY <1>11 DEF Loops
<1>17. CASE Awaited(i, i, FALSE) /\ answer = "task"
  <2>1. IsAsk(r) /\ r.what = "claim"
    BY <1>5, <1>12, <1>17
  <2>2. at = "claiming" /\ reply = "waiting" /\ reply' = "task"
    BY <1>10, <1>11, <1>17, <2>1 DEF Wires, HasClaim, r
  <2>3. \A j \in DOMAIN wire' : OfBeat(wire'[j])
    BY <1>2, <2>1, <1>1 DEF Wires, Good, AskLast, r
  <2>4. NoResult(wire') /\ ~HasState(wire')
    BY <2>3 DEF NoResult, HasState, OfBeat
  <2>5. Loops'
    BY <1>8, <1>9, <2>1, <2>2, <1>17 DEF Loops
  <2>6. last' = NULL /\ memory' # "idle"
    BY <1>8, <1>17, <2>1
  <2>7. Wires'
    BY <1>3, <1>14, <1>15, <2>4, <2>6
       DEF Wires, Good, Carries, AskLast, StatesFirst, HasAsk, HasClaim, HasState, NoResult
  <2>8. Shown' /\ ToldIsMirrored'
    BY <1>9, <2>6 DEF Shown, ToldIsMirrored
  <2> QED
    BY <1>8, <2>5, <2>7, <2>8
<1>18. CASE ~(Awaited(i, i, FALSE) /\ answer = "task")
  <2>1. reply' \in {"ok", "refused", reply}
    BY <1>11, <1>18
  <2>2. Busy' => Busy
    BY <1>9, <2>1 DEF Busy
  <2>3. Busy => r.what # "result"
    BY DEF Wires, NoResult, r
  <2>4. last' \in Outcomes \cup {NULL} /\ (r.what # "result" /\ last = NULL => last' = NULL)
    BY <1>4, <1>7, <1>8
  <2>5. at \in {"free", "stage", "session"} => ~Awaited(i, i, FALSE) /\ ~Awaited(1, i - 1, FALSE)
    <3>1. HasAsk(wire) => at \notin {"free", "stage", "session"}
      BY DEF Wires, Loops
    <3>2. Awaited(1, i - 1, FALSE) => HasAsk(wire)
      <4>1. \A k \in 1..(i - 1) : k \in DOMAIN wire
        BY <1>1
      <4> QED
        BY <4>1 DEF Awaited, HasAsk, IsAsk
    <3> QED
      BY <1>10, <1>12, <3>1, <3>2
  <2>6. Loops'
    BY <1>9, <1>11, <1>16, <2>1, <2>4, <2>5 DEF Loops
  <2>7. HasState(wire') => last' = NULL
    <3>1. CASE r.what = "result"
      <4>1. \A j \in DOMAIN wire' : wire'[j].what # "state"
        BY <1>1, <1>2, <3>1 DEF Wires, Good, StatesFirst, r
      <4> QED
        BY <4>1 DEF HasState
    <3>2. CASE r.what # "result"
      BY <1>3, <2>4, <3>2 DEF Wires
    <3> QED
      BY <3>1, <3>2
  <2>8. Wires'
    BY <1>3, <1>14, <1>15, <2>2, <2>7
       DEF Wires, Good, Carries, AskLast, StatesFirst, HasAsk, HasClaim, HasState, NoResult
  <2>9. r.what = "state" => last = NULL
    BY DEF Wires, HasState, r
  <2>10. Shown'
    <3>1. Busy' => memory' # "idle" /\ last' = NULL
      BY <1>8, <2>2, <2>3, <2>4 DEF Shown
    <3>2. memory' = "running" => last' \in {NULL, "checkpointing"}
      BY <1>5, <1>8, <2>9 DEF Shown
    <3> QED
      BY <3>1, <3>2 DEF Shown
  <2> QED
    BY <1>8, <1>9, <2>6, <2>8, <2>10 DEF ToldIsMirrored
<1> QED
  BY <1>17, <1>18
-----------------------------------------------------------------------------
LEMMA Unawaited ==
    ASSUME NEW r \in Request
    PROVE  /\ [r EXCEPT !.awaited = FALSE] \in Request
           /\ [r EXCEPT !.awaited = FALSE].awaited = FALSE
           /\ [r EXCEPT !.awaited = FALSE].what = r.what
BY DEF Request

LEMMA ControlStep == ControlInv /\ [Next]_vars => ControlInv'
<1> SUFFICES ASSUME ControlInv, [Next]_vars PROVE ControlInv'
  OBVIOUS
<1>0. /\ wire \in Seq(Request) /\ NULL \notin Commands /\ "waiting" # "off"
      /\ Loops /\ ToldIsMirrored /\ Wires
  BY DEF ControlInv, Wires, Good, NULL, Commands
<1> USE DEF Loops, ToldIsMirrored
<1>1. ASSUME NEW c \in Commands, Issue(c) PROVE ControlInv'
  <2>1. /\ UNCHANGED <<server, wire, loops, mirror>> /\ command' = c /\ told' = FALSE
    BY <1>1 DEF Issue
  <2>2. Loops' /\ ToldIsMirrored'
    BY <1>0, <2>1 DEF server, loops
  <2> QED
    BY <2>1, <2>2, LocalStep DEF loops, Busy
<1>2. CASE Heartbeat
  <2> DEFINE r == [what |-> "heartbeat", outcome |-> NULL, awaited |-> TRUE]
  <2>1. r \in Request /\ OfBeat(r) /\ r.what = "heartbeat"
    BY DEF Request, OfBeat
  <2>2. wire' = Append(wire, r) /\ beat' = "waiting"
        /\ UNCHANGED <<server, command, heard, at, reply, mirror, told>>
    BY <1>2 DEF Heartbeat, Send
  <2> HIDE DEF r
  <2>3. Loops' /\ ToldIsMirrored'
    BY <1>0, <2>2 DEF server
  <2> QED
    BY <2>1, <2>2, <2>3, SendStep DEF Busy
<1>3. CASE Mirror
  <2>1. Loops' /\ ToldIsMirrored'
    BY <1>0, <1>3 DEF Mirror, server
  <2> QED
    BY <1>3, <2>1, LocalStep DEF Mirror, Busy
<1>4. CASE HeartbeatRejected
  <2>1. Loops' /\ ToldIsMirrored'
    BY <1>0, <1>4 DEF HeartbeatRejected, server
  <2> QED
    BY <1>4, <2>1, LocalStep DEF HeartbeatRejected, Busy
\* A request of the claim loop.
<1>5. ASSUME NEW what \in {"claim", "state", "checkpoint", "result"},
             NEW outcome \in Outcomes \cup {NULL}, NEW place \in Places,
             Send(what, outcome), at' = place, reply' = "waiting",
             UNCHANGED <<server, command, beat, heard>>,
             mirror' \in Commands \cup {NULL}, told' => told /\ mirror' = mirror,
             reply # "waiting", place \notin {"free", "stage", "session"},
             what = "result" => outcome \in Outcomes /\ place = "reporting",
             what = "state" => Busy, what = "claim" => place = "claiming",
             place \in Working => Busy
      PROVE  ControlInv'
  <2> DEFINE r == [what |-> what, outcome |-> outcome, awaited |-> TRUE]
  <2>1. r \in Request /\ ~OfBeat(r) /\ r.what = what /\ r.outcome = outcome
    BY DEF Request, OfBeat
  <2>2. wire' = Append(wire, r)
    BY <1>5 DEF Send
  <2> HIDE DEF r
  <2>3. Loops' /\ ToldIsMirrored'
    BY <1>0, <1>5 DEF server
  <2>4. Busy' => Busy /\ what # "result"
    BY <1>5 DEF Busy, Working
  <2> QED
    BY <1>5, <2>1, <2>2, <2>3, <2>4, SendStep
\* A step of the claim loop without a request.
<1>6. ASSUME NEW place \in {"free", "stage", "session"}, Move(place),
             UNCHANGED <<mirror, told>>, reply # "waiting", place # "free" => Busy
      PROVE  ControlInv'
  <2>1. Loops' /\ ToldIsMirrored'
    BY <1>0, <1>6 DEF Move, server, Places
  <2>2. Busy' => Busy
    BY <1>6 DEF Busy, Move, Working
  <2> QED
    BY <1>6, <2>1, <2>2, LocalStep DEF Move
<1> HIDE DEF Loops, ToldIsMirrored
<1>7. command \in Commands \cup {NULL} /\ mirror \in Commands \cup {NULL}
  BY <1>0 DEF Loops
<1>8. CASE Claim
  BY <1>0, <1>5, <1>7, <1>8 DEF Claim, Ask, Places, Working, Loops
<1>9. CASE NoTask
  BY <1>6, <1>9 DEF NoTask, Answered
<1>10. CASE StartTask
  <2>1. CASE at = "claiming" /\ reply = "task" /\ Ask("state", NULL, "announcing")
    BY <1>5, <1>7, <2>1 DEF Ask, Places, Busy
  <2>2. CASE at = "claiming" /\ reply = "task" /\ Ask("result", "failed", "reporting")
    BY <1>5, <1>7, <2>2 DEF Ask, Places, Outcomes, Working
  <2>3. CASE Answered("announcing") /\ Ask("checkpoint", NULL, "noting")
    BY <1>5, <1>7, <2>3 DEF Ask, Places, Busy, Working, Answered
  <2> QED
    BY <1>10, <2>1, <2>2, <2>3 DEF StartTask, Answered
<1>11. CASE Gates
  <2>1. at = "noting" /\ reply # "waiting" /\ Busy
    BY <1>11 DEF Gates, Answered, Busy, Working
  <2>2. CASE (Move("stage") \/ Move("free")) /\ UNCHANGED <<mirror, told>>
    BY <1>6, <2>1, <2>2
  <2>3. ASSUME NEW outcome \in Outcomes, Ask("result", outcome, "reporting")
        PROVE  ControlInv'
    BY <1>5, <1>7, <2>1, <2>3 DEF Ask, Places, Outcomes, Working
  <2> QED
    BY <1>11, <2>2, <2>3 DEF Gates
<1>12. CASE Checkpoint
  BY <1>0, <1>5, <1>12 DEF Checkpoint, Loops, Places, Outcomes, Working
<1>13. CASE StartSession
  BY <1>0, <1>6, <1>13 DEF StartSession, Loops, Busy, Working
<1>14. CASE Interrupt
  BY <1>0, <1>5, <1>14 DEF Interrupt, Loops, Places, Outcomes, Working
<1>15. CASE EndSession
  <2>1. at = "session" /\ reply # "waiting" /\ Busy
    BY <1>0, <1>15 DEF EndSession, Loops, Busy, Working
  <2>2. CASE (Move("stage") \/ Move("free")) /\ UNCHANGED <<mirror, told>>
    BY <1>6, <2>1, <2>2
  <2>3. ASSUME NEW outcome \in Outcomes \ {"checkpointing", "interrupted"},
               Ask("result", outcome, "reporting")
        PROVE  ControlInv'
    BY <1>5, <1>7, <2>1, <2>3 DEF Ask, Places, Working
  <2> QED
    BY <1>15, <2>2, <2>3 DEF EndSession
<1>16. CASE Reported
  BY <1>6, <1>16 DEF Reported, Answered
<1>17. ASSUME NEW i \in 1..MaxWire, NEW answer \in {"ok", "task"}, Accept(i, answer)
       PROVE  ControlInv'
  BY <1>17, AcceptStep DEF Accept
<1>18. ASSUME NEW i \in 1..MaxWire, Lose(i) PROVE ControlInv'
  <2>1. Thinner(wire, wire')
    BY <1>0, <1>18, LossThins DEF Lose
  <2>2. UNCHANGED <<server, command, loops, mirror, told>>
    BY <1>18 DEF Lose
  <2>3. Snapshot' /\ Loops' /\ ToldIsMirrored' /\ (Busy' => Busy)
    BY <1>0, <2>2 DEF ControlInv, server, loops, Snapshot, SnapshotIsState, Loops,
                      ToldIsMirrored, Busy
  <2>4. (HasAsk(wire') => HasAsk(wire)) /\ (HasClaim(wire') => HasClaim(wire))
    BY <1>0, <2>1, ThinFacts DEF Wires
  <2> QED
    BY <1>0, <2>1, <2>2, <2>3, <2>4, ThinStep DEF server, loops, Wires
<1>19. CASE GiveUp
  <2>1. CASE beat' = "refused" /\ UNCHANGED <<wire, heard, at, reply, server, command, mirror, told>>
    <3>1. Loops' /\ ToldIsMirrored'
      BY <1>0, <2>1 DEF server, Loops, ToldIsMirrored
    <3> QED
      BY <2>1, <3>1, LocalStep DEF Busy
  <2>2. CASE /\ reply = "waiting" /\ ~Under(FALSE) /\ reply' = "refused"
             /\ UNCHANGED <<wire, beat, heard, at, server, command, mirror, told>>
    <3>1. ~HasAsk(wire)
      <4>1. DOMAIN wire = 1..Len(wire)
        BY <1>0
      <4>2. \A j \in DOMAIN wire : ~(wire[j].awaited /\ OfBeat(wire[j]) = FALSE)
        BY <2>2, <4>1 DEF Under, Awaited
      <4> QED
        BY <4>2 DEF HasAsk, IsAsk
    <3>2. ~HasClaim(wire)
      BY <3>1 DEF HasAsk, HasClaim
    <3>3. Loops' /\ ToldIsMirrored' /\ Snapshot' /\ (Busy' => Busy)
      BY <1>0, <2>2 DEF ControlInv, server, Loops, ToldIsMirrored, Snapshot, SnapshotIsState,
                        Busy
    <3> QED
      BY <1>0, <2>2, <3>1, <3>2, <3>3, SameThins, ThinStep DEF server
  <2> QED
    BY <1>19, <2>1, <2>2 DEF GiveUp
<1>20. CASE GiveUpEarly
  <2>1. UNCHANGED <<server, command, mirror, told, at>>
    BY <1>20 DEF GiveUpEarly
  <2>2. PICK ofBeat \in BOOLEAN :
           /\ Forget(ofBeat)
           /\ \/ ofBeat = TRUE /\ beat' = "refused" /\ heard' = NULL /\ UNCHANGED reply
              \/ ofBeat = FALSE /\ reply' = "refused" /\ UNCHANGED <<beat, heard>>
                 /\ reply # "off"
    <3>1. Under(FALSE) => reply = "waiting"
      <4>1. \A j \in 1..Len(wire) : j \in DOMAIN wire
        BY <1>0
      <4> QED
        BY <1>0, <4>1 DEF Under, Awaited, Wires, HasAsk, IsAsk
    <3> QED
      BY <1>20, <3>1 DEF GiveUpEarly
  <2>3. Thinner(wire, wire')
    <3>1. \A j \in DOMAIN wire : wire[j] \in Request
                                  /\ [wire[j] EXCEPT !.awaited = FALSE] \in Request
      BY <1>0, Unawaited
    <3>2. /\ wire' \in [DOMAIN wire -> Request]
          /\ \A j \in DOMAIN wire :
                wire'[j] = wire[j] \/ wire'[j] = [wire[j] EXCEPT !.awaited = FALSE]
      BY <2>2, <3>1 DEF Forget
    <3> QED
      BY <1>0, <3>2, ForgetThins
  <2>4. (HasAsk(wire') => HasAsk(wire)) /\ (HasClaim(wire') => HasClaim(wire))
    BY <1>0, <2>3, ThinFacts DEF Wires
  <2>5. HasAsk(wire') => reply' = "waiting"
    <3>1. CASE ofBeat = TRUE
      BY <1>0, <2>2, <2>4, <3>1 DEF Wires
    <3>2. CASE ofBeat = FALSE
      <4>1. \A j \in DOMAIN wire : OfBeat(wire[j]) = FALSE =>
                                      wire'[j] = [wire[j] EXCEPT !.awaited = FALSE]
        BY <2>2, <3>2 DEF Forget
      <4>2. \A j \in DOMAIN wire : OfBeat(wire[j]) # FALSE => wire'[j] = wire[j]
        BY <2>2, <3>2 DEF Forget
      <4>3. DOMAIN wire' = DOMAIN wire
        BY <2>2 DEF Forget
      <4>4. \A j \in DOMAIN wire : OfBeat(wire[j]) \in BOOLEAN
        BY DEF OfBeat
      <4>5. \A j \in DOMAIN wire : wire[j] \in Request
        BY <1>0
      <4>6. ASSUME NEW j \in DOMAIN wire, OfBeat(wire[j]) = FALSE PROVE ~IsAsk(wire'[j])
        BY <4>1, <4>5, <4>6, Unawaited DEF IsAsk
      <4>7. ASSUME NEW j \in DOMAIN wire, OfBeat(wire[j]) # FALSE PROVE ~IsAsk(wire'[j])
        BY <4>2, <4>4, <4>7 DEF IsAsk
      <4> QED
        BY <4>3, <4>6, <4>7 DEF HasAsk
    <3> QED
      BY <3>1, <3>2
  <2>6. Snapshot' /\ Loops' /\ ToldIsMirrored' /\ (Busy' => Busy)
    BY <1>0, <2>1, <2>2 DEF ControlInv, server, Snapshot, SnapshotIsState, Loops,
                            ToldIsMirrored, Busy
  <2> QED
    BY <1>0, <2>1, <2>3, <2>4, <2>5, <2>6, ThinStep DEF server, Wires
<1>21. CASE ServerRestart
  <2>1. /\ memory' = "stopped" /\ wire' = <<>> /\ beat' \in {"refused", beat}
        /\ reply' \in {"refused", reply} /\ (at \in {"free", "stage", "session"} => reply' = reply)
        /\ UNCHANGED <<file, command, heard, at, mirror, told, last>>
    BY <1>0, <1>21 DEF ServerRestart, Loops
  <2>2. DOMAIN wire' = {} /\ wire' \in Seq(Request)
    BY <2>1
  <2>3. Thinner(wire, wire')
    <3>1. [j \in {} |-> 1] \in [DOMAIN wire' -> DOMAIN wire]
      BY <2>2
    <3> QED
      BY <2>2, <3>1 DEF Thinner
  <2>4. ~HasAsk(wire') /\ ~HasClaim(wire')
    BY <2>2 DEF HasAsk, HasClaim
  <2>5. Loops' /\ ToldIsMirrored' /\ (Busy' => Busy)
    BY <1>0, <2>1 DEF Loops, ToldIsMirrored, Busy
  <2>6. Snapshot'
    BY <2>1 DEF ControlInv, Snapshot, SnapshotIsState, States, Transitions
  <2> QED
    BY <2>1, <2>3, <2>4, <2>5, <2>6, ThinStep
<1>22. CASE AgentRestart
  <2>1. /\ beat' = "off" /\ heard' = NULL /\ at' = "free" /\ reply' = "off"
        /\ wire' = [j \in DOMAIN wire |-> [wire[j] EXCEPT !.awaited = FALSE]]
        /\ UNCHANGED <<server, command, mirror, told>>
    BY <1>22 DEF AgentRestart
  <2>2. \A j \in DOMAIN wire : /\ [wire[j] EXCEPT !.awaited = FALSE] \in Request
                               /\ ~[wire[j] EXCEPT !.awaited = FALSE].awaited
    <3>1. \A j \in DOMAIN wire : wire[j] \in Request
      BY <1>0
    <3> QED
      BY <3>1, Unawaited
  <2>3. Thinner(wire, wire')
    BY <1>0, <2>1, <2>2, ForgetThins
  <2>4. ~HasAsk(wire') /\ ~HasClaim(wire')
    BY <2>1, <2>2 DEF HasAsk, HasClaim, IsAsk
  <2>5. Snapshot' /\ Loops' /\ ToldIsMirrored' /\ ~Busy'
    BY <1>0, <2>1 DEF ControlInv, server, Snapshot, SnapshotIsState, Loops, ToldIsMirrored,
                      Busy, Working, Places
  <2> QED
    BY <2>1, <2>3, <2>4, <2>5, ThinStep DEF server
<1>23. CASE UNCHANGED vars
  <2>1. Loops' /\ ToldIsMirrored'
    BY <1>0, <1>23 DEF vars, Loops, ToldIsMirrored
  <2> QED
    BY <1>23, <2>1, LocalStep DEF vars, server, Busy
<1> QED
  BY <1>1, <1>2, <1>3, <1>4, <1>8, <1>9, <1>10, <1>11, <1>12, <1>13, <1>14, <1>15, <1>16,
     <1>17, <1>18, <1>19, <1>20, <1>21, <1>22, <1>23 DEF Next, AgentStep

LEMMA RestStep == ControlInv /\ Rest /\ [Next]_vars => Rest'
<1> SUFFICES ASSUME ControlInv, Rest, [Next]_vars PROVE Rest'
  OBVIOUS
<1>1. told' \in BOOLEAN
  <2>1. told' = told \/ told' = FALSE \/ told' = (heard = command /\ heard # NULL)
    BY Zenon DEF Next, vars, Issue, AgentStep, Heartbeat, Mirror, HeartbeatRejected, Claim,
          NoTask, StartTask, Gates, Checkpoint, StartSession, Interrupt, EndSession, Reported,
          Ask, Accept, Lose, GiveUp, GiveUpEarly, ServerRestart, AgentRestart
  <2> QED
    BY <2>1, Zenon DEF Rest
<1>2. faults' \in Nat
  <2>1. faults' = faults \/ faults' = faults + 1
    BY Zenon DEF Next, vars, Issue, AgentStep, Heartbeat, Mirror, HeartbeatRejected, Claim,
          NoTask, StartTask, Gates, Checkpoint, StartSession, Interrupt, EndSession, Reported,
          Ask, Move, Accept, Lose, GiveUp, GiveUpEarly, ServerRestart, AgentRestart, Fault
  <2> QED
    BY <2>1 DEF Rest
<1> QED
  BY <1>1, <1>2 DEF Rest

-----------------------------------------------------------------------------
(* The inductive invariant. *)
THEOREM ControlSafe == Spec => [](ControlInv /\ Rest)
BY ControlInit, ControlStep, RestStep, PTL DEF Spec

(* Type correctness. *)
THEOREM ControlTyped == Spec => []TypeOK
<1>1. ControlInv /\ Rest => TypeOK
  BY DEF ControlInv, Rest, Snapshot, Loops, Wires, Good, TypeOK
<1> QED
  BY <1>1, ControlSafe, PTL

(* The numbers of the requests keep every result of an earlier task away   *)
(* from the state of the task in the agent's hands.                        *)
THEOREM IdleMeansIdle == Spec => []IdleIsIdle
<1>1. ControlInv => IdleIsIdle
  BY DEF ControlInv, Shown, Busy, IdleIsIdle
<1> QED
  BY <1>1, ControlSafe, PTL

(* A result that is in has moved the server out of running. *)
THEOREM RunningMeansOpen == Spec => []RunningIsOpen
<1>1. ControlInv => RunningIsOpen
  BY DEF ControlInv, Shown, RunningIsOpen
<1> QED
  BY <1>1, ControlSafe, PTL

(* Snapshot and state differ only after a restart of the server. *)
THEOREM SnapshotAgrees == Spec => []SnapshotIsState
<1>1. ControlInv => SnapshotIsState
  BY DEF ControlInv, Snapshot
<1> QED
  BY <1>1, ControlSafe, PTL

(* A halt that has reached the agent is kept up to the next safe point. *)
THEOREM HaltKept == Spec => HaltIsKept
<1>1. ControlInv /\ [Next]_vars =>
         [at # "session" /\ at' = "session" => ~(told /\ command \in Halts)]_vars
  <2> SUFFICES ASSUME ControlInv, Next, at # "session", at' = "session",
                      told, command \in Halts
               PROVE  FALSE
    OBVIOUS
  <2>1. mirror \in Halts
    BY DEF ControlInv, ToldIsMirrored
  <2>2. ~AgentStep
    BY <2>1 DEF AgentStep, Heartbeat, Mirror, HeartbeatRejected, Claim, NoTask, StartTask,
                Gates, Checkpoint, StartSession, Interrupt, EndSession, Reported, Ask, Move
  <2>3. at' = at \/ at' = "free"
    BY <2>2 DEF Next, Issue, Accept, Lose, GiveUp, GiveUpEarly, ServerRestart, AgentRestart,
                loops
  <2> QED
    BY <2>3
<1> QED
  BY <1>1, ControlSafe, PTL DEF Spec, HaltIsKept
=============================================================================
