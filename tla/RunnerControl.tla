---------------------------- MODULE RunnerControl ----------------------------
(***************************************************************************)
(* The control of the automation runner: the state that the control server *)
(* keeps of it (automation/runner_control.js, control_server.js), the      *)
(* command of the Owner, and the Windows agent with its two loops of HTTP  *)
(* requests (automation/windows_agent.js).  The loops number their         *)
(* requests from one counter, and the server refuses a request with a      *)
(* number below one it has accepted.                                       *)
(*                                                                         *)
(* Which task is handed out, the git clones and the leases are the matter  *)
(* of AutomationQueue.                                                     *)
(***************************************************************************)
EXTENDS Naturals, Sequences

CONSTANTS
    MaxWire,      \* bound: requests under way
    MaxFaults     \* bound: lost and abandoned requests, restarts

ASSUME ControlAssumption == MaxWire \in Nat /\ MaxFaults \in Nat

NULL == "null"

Commands == {"pause", "resume", "stop_after_stage", "emergency_stop"}
Halts == {"pause", "stop_after_stage"}
Outcomes == {"done", "failed", "blocked", "waiting_for_limit", "waiting_for_auth",
             "checkpointing", "interrupted"}

VARIABLES
    memory,     \* runnerState of the server's process
    file,       \* runner_state.json, which outlives it
    command,    \* commands.json of the server
    wire,       \* requests under way, in the order of their numbers
    beat,       \* the heartbeat loop: off, waiting or what it was answered
    heard,      \* the pending_command of that answer
    at,         \* the claim loop
    reply,      \* the answer the claim loop waits for or has
    mirror,     \* commands.json of the agent
    told,       \* history: the agent's file holds the command by its own request
    last,       \* history: the result accepted since a task was handed out
    faults      \* faults so far

server == <<memory, file, last>>
loops == <<beat, heard, at, reply>>
vars == <<memory, file, command, wire, beat, heard, at, reply, mirror, told, last, faults>>

(* TRANSITIONS *)
Transitions ==
    [stopped |-> [start |-> "starting"],
     starting |-> [task_claimed |-> "running", no_ready_tasks |-> "idle",
                   auth_required |-> "authentication_required", pause_command |-> "paused",
                   stop_after_stage_command |-> "stopped", emergency_stop_command |-> "stopped"],
     idle |-> [task_claimed |-> "running", pause_command |-> "paused",
               stop_after_stage_command |-> "stopped", emergency_stop_command |-> "stopped"],
     running |-> [pause_command |-> "pause_requested",
                  stop_after_stage_command |-> "stop_requested",
                  emergency_stop_command |-> "stopped", safe_point_reached_idle |-> "idle",
                  rate_limited |-> "waiting_for_limit", owner_gate_blocked |-> "waiting_for_owner",
                  auth_required |-> "authentication_required", task_failed |-> "failed",
                  queue_exhausted |-> "completed"],
     pause_requested |-> [safe_point_reached |-> "paused", emergency_stop_command |-> "stopped"],
     paused |-> [resume_command |-> "starting", emergency_stop_command |-> "stopped"],
     stop_requested |-> [safe_point_reached |-> "stopped", emergency_stop_command |-> "stopped"],
     waiting_for_limit |-> [start |-> "starting", emergency_stop_command |-> "stopped"],
     waiting_for_owner |-> [start |-> "starting", emergency_stop_command |-> "stopped"],
     authentication_required |-> [start |-> "starting", emergency_stop_command |-> "stopped"],
     failed |-> [start |-> "starting"],
     completed |-> [start |-> "starting"]]

States == DOMAIN Transitions

(* Mutant: an event without a transition is written to the file all the    *)
(* same.                                                                   *)
TransitionWritten(event) ==
    IF event \in DOMAIN Transitions[memory]
    THEN /\ memory' = Transitions[memory][event]
         /\ file' = memory'
    ELSE /\ file' = "starting"
         /\ UNCHANGED memory

(* transition: nothing happens on an event without a transition. *)
Transition(event) ==
    IF event \in DOMAIN Transitions[memory]
    THEN /\ memory' = Transitions[memory][event]
         /\ file' = memory'
    ELSE UNCHANGED <<memory, file>>

(* commandAllowedInState *)
Allowed ==
    [pause |-> {"running", "idle", "starting"},
     resume |-> {"paused", "pause_requested"},
     stop_after_stage |-> {"running", "idle", "starting", "pause_requested"},
     emergency_stop |-> States \ {"stopped"}]

(* Mutant: a task that waits for the Owner is reported as a safe point. *)
EventSafePoint(outcome) ==
    [done |-> "safe_point_reached_idle", blocked |-> "safe_point_reached",
     checkpointing |-> "safe_point_reached", waiting_for_limit |-> "rate_limited",
     waiting_for_auth |-> "auth_required", failed |-> "task_failed",
     interrupted |-> "emergency_stop_command"][outcome]

(* eventByOutcome *)
Event(outcome) ==
    [done |-> "safe_point_reached_idle", blocked |-> "owner_gate_blocked",
     checkpointing |-> "safe_point_reached", waiting_for_limit |-> "rate_limited",
     waiting_for_auth |-> "auth_required", failed |-> "task_failed",
     interrupted |-> "emergency_stop_command"][outcome]

Request == [what : {"heartbeat", "claim", "state", "checkpoint", "result"},
            outcome : Outcomes \cup {NULL}, awaited : BOOLEAN]
Places == {"free", "claiming", "announcing", "noting", "stage", "session", "reporting"}

TypeOK ==
    /\ memory \in States /\ file \in States
    /\ command \in Commands \cup {NULL}
    /\ wire \in Seq(Request)
    /\ beat \in {"off", "waiting", "ok", "refused"}
    /\ heard \in Commands \cup {NULL}
    /\ at \in Places
    /\ reply \in {"off", "waiting", "ok", "task", "refused"}
    /\ mirror \in Commands \cup {NULL}
    /\ told \in BOOLEAN
    /\ last \in Outcomes \cup {NULL}
    /\ faults \in Nat

Init ==
    /\ memory = "stopped" /\ file = "stopped"
    /\ command = NULL /\ mirror = NULL /\ told = FALSE
    /\ wire = <<>> /\ beat = "off" /\ heard = NULL
    /\ at = "free" /\ reply = "off"
    /\ last = NULL /\ faults = 0

-----------------------------------------------------------------------------
(* Mutant: start is queued under its own name. *)
IssueStart(c) ==
    /\ c = "resume" \/ file \in Allowed[c]
    /\ command' = IF c = "resume" /\ file \notin Allowed[c] THEN "start" ELSE c
    /\ told' = FALSE
    /\ UNCHANGED <<server, wire, loops, mirror, faults>>

(* The Owner: handleRunnerCommand.  With an agent registered, start only   *)
(* queues a resume, in any state.                                          *)
Issue(c) ==
    /\ c = "resume" \/ file \in Allowed[c]
    /\ command' = c
    /\ told' = FALSE
    /\ UNCHANGED <<server, wire, loops, mirror, faults>>

-----------------------------------------------------------------------------
(* agentPost: the next number, so the last place on the wire. *)
Send(what, outcome) ==
    /\ Len(wire) < MaxWire
    /\ wire' = Append(wire, [what |-> what, outcome |-> outcome, awaited |-> TRUE])

(* The two loops of the agent wait for one request each. *)
OfBeat(r) == r.what = "heartbeat"

(* heartbeat, up to its answer. *)
Heartbeat ==
    /\ beat = "off" /\ Send("heartbeat", NULL)
    /\ beat' = "waiting"
    /\ UNCHANGED <<server, command, heard, at, reply, mirror, told, faults>>

(* Mutant: a command is mirrored into an empty file only. *)
MirrorFirst ==
    /\ beat = "ok" /\ beat' = "off" /\ heard' = NULL
    /\ mirror' = IF mirror = NULL THEN heard ELSE mirror
    /\ told' = (told \/ heard = command)
    /\ UNCHANGED <<server, command, wire, at, reply, faults>>

(* mirrorPendingCommand *)
Mirror ==
    /\ beat = "ok" /\ beat' = "off" /\ heard' = NULL
    /\ mirror' = IF heard = NULL THEN mirror ELSE heard
    /\ told' = (heard = command /\ heard # NULL)
    /\ UNCHANGED <<server, command, wire, at, reply, faults>>

HeartbeatRejected ==
    /\ beat = "refused" /\ beat' = "off"
    /\ UNCHANGED <<server, command, wire, heard, at, reply, mirror, told, faults>>

(* A request of the claim loop, which goes on when it is answered. *)
Ask(what, outcome, place) ==
    /\ Send(what, outcome)
    /\ at' = place /\ reply' = "waiting"
    /\ UNCHANGED <<server, command, beat, heard, mirror, told, faults>>

Move(place) ==
    /\ at' = place /\ reply' = "off"
    /\ UNCHANGED <<server, command, wire, beat, heard, faults>>

Answered(place) == at = place /\ reply # "waiting"

(* claimLoop *)
Claim == at = "free" /\ mirror \notin Halts /\ Ask("claim", NULL, "claiming")

NoTask ==
    /\ Answered("claiming") /\ reply # "task"
    /\ Move("free") /\ UNCHANGED <<mirror, told>>

(* runClaimedTask up to execute; the task's file may be missing. *)
StartTask ==
    \/ /\ Answered("claiming") /\ reply = "task"
       /\ \/ Ask("state", NULL, "announcing")
          \/ Ask("result", "failed", "reporting")
    \/ Answered("announcing") /\ Ask("checkpoint", NULL, "noting")

(* execute: the gates before the first stage, one of which throws.  The    *)
(* outcome of a refusal is what the task's file says by then (mapOutcome). *)
Gates ==
    /\ Answered("noting")
    /\ \/ /\ Move("stage") \/ Move("free")
          /\ UNCHANGED <<mirror, told>>
       \/ \E outcome \in Outcomes : Ask("result", outcome, "reporting")

(* The safe point before a stage clears the agent's file. *)
Checkpoint ==
    /\ at = "stage" /\ mirror \in Halts
    /\ Send("result", "checkpointing")
    /\ at' = "reporting" /\ reply' = "waiting"
    /\ mirror' = NULL /\ told' = FALSE
    /\ UNCHANGED <<server, command, beat, heard, faults>>

(* Mutant: only a pause is looked for between stages. *)
StartAnySession ==
    /\ at = "stage" /\ mirror # "pause"
    /\ Move("session") /\ UNCHANGED <<mirror, told>>

StartSession ==
    /\ at = "stage" /\ mirror \notin Halts
    /\ Move("session") /\ UNCHANGED <<mirror, told>>

(* pollEmergencyStop kills the session; the agent's file is cleared. *)
Interrupt ==
    /\ at = "session" /\ mirror = "emergency_stop"
    /\ Send("result", "interrupted")
    /\ at' = "reporting" /\ reply' = "waiting"
    /\ mirror' = NULL /\ told' = FALSE
    /\ UNCHANGED <<server, command, beat, heard, faults>>

(* decideNextAction: the next stage, or the end of the task; or execute    *)
(* throws, for example on the file that the session has left.              *)
EndSession ==
    /\ at = "session"
    /\ \/ /\ Move("stage") \/ Move("free")
          /\ UNCHANGED <<mirror, told>>
       \/ \E outcome \in Outcomes \ {"checkpointing", "interrupted"} :
             Ask("result", outcome, "reporting")

Reported == Answered("reporting") /\ Move("free") /\ UNCHANGED <<mirror, told>>

-----------------------------------------------------------------------------
(* What a handler does with an accepted request r.  The answers of a claim *)
(* are a task, which is then claimed, or none.                             *)
Handle(r, answer) ==
    CASE r.what = "heartbeat" ->
            /\ IF file = "stopped" THEN Transition("start") ELSE UNCHANGED <<memory, file>>
            /\ UNCHANGED last
      [] r.what = "claim" /\ answer = "task" -> Transition("task_claimed") /\ last' = NULL
      [] r.what = "state" -> Transition("task_claimed") /\ UNCHANGED last
      [] r.what = "result" -> Transition(Event(r.outcome)) /\ last' = r.outcome
      [] OTHER -> UNCHANGED server

(* Mutant: no request is refused for its number. *)
KeepOlder(i) == SubSeq(wire, 1, i - 1) \o SubSeq(wire, i + 1, Len(wire))

(* The requests that can still be accepted once the i-th has been          *)
(* (authenticateAgentRequest, touchAgent): those with a higher number.     *)
Younger(i) == SubSeq(wire, i + 1, Len(wire))

(* What becomes of a waiting loop: answered if its request was accepted,   *)
(* and refused if that request is older than the accepted one.             *)
Awaited(from, to, ofBeat) ==
    \E j \in from..to : wire[j].awaited /\ OfBeat(wire[j]) = ofBeat

Accept(i, answer) ==
    /\ i \in DOMAIN wire
    /\ answer = "task" => wire[i].what = "claim"
    /\ Handle(wire[i], answer)
    /\ wire' = Younger(i)
    /\ beat' = IF Awaited(i, i, TRUE) THEN "ok"
               ELSE IF Awaited(1, i - 1, TRUE) THEN "refused" ELSE beat
    /\ heard' = IF Awaited(i, i, TRUE) THEN command ELSE heard
    /\ reply' = IF Awaited(i, i, FALSE) THEN answer
                ELSE IF Awaited(1, i - 1, FALSE) THEN "refused" ELSE reply
    /\ UNCHANGED <<command, at, mirror, told, faults>>

Fault == faults < MaxFaults /\ faults' = faults + 1

(* A request that never arrives: its sender waits for its own timeout. *)
Lose(i) ==
    /\ Fault /\ i \in DOMAIN wire
    /\ wire' = SubSeq(wire, 1, i - 1) \o SubSeq(wire, i + 1, Len(wire))
    /\ UNCHANGED <<server, command, loops, mirror, told>>

Forget(ofBeat) ==
    wire' = [j \in DOMAIN wire |->
                IF OfBeat(wire[j]) = ofBeat THEN [wire[j] EXCEPT !.awaited = FALSE]
                ELSE wire[j]]

Under(ofBeat) == Awaited(1, Len(wire), ofBeat)

(* The 20 seconds of agentPost are over.  The request, or its answer, may  *)
(* still be under way: a fault, unless the request was lost already.       *)
GiveUp ==
    \/ /\ beat = "waiting" /\ ~Under(TRUE)
       /\ beat' = "refused"
       /\ UNCHANGED <<wire, heard, at, reply, faults, server, command, mirror, told>>
    \/ /\ reply = "waiting" /\ ~Under(FALSE)
       /\ reply' = "refused"
       /\ UNCHANGED <<wire, beat, heard, at, faults, server, command, mirror, told>>

GiveUpEarly ==
    /\ Fault
    /\ \/ /\ beat = "ok" \/ Under(TRUE)
          /\ Forget(TRUE) /\ beat' = "refused" /\ heard' = NULL
          /\ UNCHANGED <<at, reply>>
       \/ /\ reply \in {"ok", "task"} \/ Under(FALSE)
          /\ Forget(FALSE) /\ reply' = "refused"
          /\ UNCHANGED <<beat, heard, at>>
    /\ UNCHANGED <<server, command, mirror, told>>

(* Requests and answers go with either process. *)
ServerRestart ==
    /\ Fault
    /\ memory' = "stopped"
    /\ wire' = <<>>
    /\ beat' = IF beat = "waiting" THEN "refused" ELSE beat
    /\ reply' = IF reply = "waiting" THEN "refused" ELSE reply
    /\ UNCHANGED <<file, command, heard, at, mirror, told, last>>

(* The file of commands stays on the agent's disk. *)
AgentRestart ==
    /\ Fault
    /\ wire' = [j \in DOMAIN wire |-> [wire[j] EXCEPT !.awaited = FALSE]]
    /\ beat' = "off" /\ heard' = NULL /\ at' = "free" /\ reply' = "off"
    /\ UNCHANGED <<server, command, mirror, told>>

AgentStep ==
    \/ Heartbeat \/ Mirror \/ HeartbeatRejected
    \/ Claim \/ NoTask \/ StartTask \/ Gates
    \/ Checkpoint \/ StartSession \/ Interrupt \/ EndSession \/ Reported

Next ==
    \/ \E c \in Commands : Issue(c)
    \/ AgentStep
    \/ \E i \in 1..MaxWire :
          \/ \E answer \in {"ok", "task"} : Accept(i, answer)
          \/ Lose(i)
    \/ GiveUp \/ GiveUpEarly \/ ServerRestart \/ AgentRestart

(* The heartbeat loop runs on its timer whatever the claim loop does, the  *)
(* server answers, a request that is not answered times out, and the       *)
(* session polls its file.  No session need end by itself.                 *)
Fairness ==
    /\ WF_vars(Heartbeat) /\ WF_vars(Mirror) /\ WF_vars(HeartbeatRejected)
    /\ WF_vars(\E i \in 1..MaxWire : Accept(i, "ok"))
    /\ WF_vars(GiveUp) /\ WF_vars(Interrupt)

Spec == Init /\ [][Next]_vars /\ Fairness

-----------------------------------------------------------------------------
Working == {"announcing", "noting", "stage", "session"}

(* The server shows idle only while the agent does no work: no result of   *)
(* an earlier task is accepted after a task was handed out, however late   *)
(* it arrives (isReplayedRequest, runner_control.js).                      *)
IdleIsIdle == memory = "idle" => at \notin Working /\ reply # "task"

(* The server shows running only until the result of the task it handed    *)
(* out is in, or while that task is checkpointing, which moves nothing     *)
(* from running (handleAgentReportResult, control_server.js).              *)
RunningIsOpen == memory = "running" => last \in {NULL, "checkpointing"}

(* The state on disk is the state in memory, but after a restart of the    *)
(* server, which never reads it back: "the live state snapshot can never   *)
(* drift apart" (transition, claude_task_runner.js).                       *)
SnapshotIsState == file # memory => memory = "stopped"

(* Once the agent has the Owner's pause or stop from its own heartbeat, no *)
(* session starts until the agent has come to a safe point and cleared its *)
(* file, or the Owner has said otherwise (claimLoop, execute).             *)
HaltIsKept ==
    [][at # "session" /\ at' = "session" => ~(told /\ command \in Halts)]_vars

(* The Owner's emergency stop ends the session that runs, however the      *)
(* heartbeats are delayed, unless the Owner issues another command.        *)
EmergencyStops ==
    command = "emergency_stop" /\ at = "session"
        ~> at # "session" \/ command # "emergency_stop"

=============================================================================
