---------------------------- MODULE AutomationQueue ----------------------------
(***************************************************************************)
(* The development queue of automation/: one task file per task in a git   *)
(* repository.  The control server on the VPS (control_server.js) picks a  *)
(* task, commits it as claimed under a lease and hands it to an agent      *)
(* (windows_agent.js), which runs it in a clone of its own with execute()  *)
(* of claude_task_runner.js and pushes the outcome.                        *)
(*                                                                         *)
(* The handlers of the server run one at a time (Node, synchronous git),   *)
(* but the agents and the developers push to origin between any two of     *)
(* its git commands.  Every pull is --ff-only with its result ignored, and *)
(* no push is forced: this is all that keeps the clones together.          *)
(*                                                                         *)
(* Left out: priorities and queue_order (any eligible task may come first),*)
(* the clock (a lease may end, and a retry_after pass, at any time), the   *)
(* registration and numbering of requests, and the runner's own state.     *)
(***************************************************************************)
EXTENDS Naturals

CONSTANTS
    Tasks,
    Agents,
    Server,       \* the clone the control server works in
    Code,         \* whatever is not a task file
    None,
    Barred,       \* tasks the gates at the head of execute() refuse
    MaxMishaps,   \* bound: git commands, answers and processes that fail, and
                  \* runs that outlive their lease or their final status
    MaxPushes     \* bound: commits that developers push to origin

ASSUME QueueAssumption ==
    /\ Server \notin Agents
    /\ Code \notin Tasks
    /\ None \notin Tasks \cup Agents
    /\ Barred \subseteq Tasks
    /\ MaxMishaps \in Nat
    /\ MaxPushes \in Nat

Clones == Agents \cup {Server}

\* What nextTask picks from: ready, resumable, or a limit that may have passed.
Open == {"ready", "waiting_for_limit", "checkpointing"}

Statuses == Open \cup {"claimed", "in_progress", "done", "failed", "blocked",
                       "waiting_for_auth", "interrupted", "held", "skipped"}

\* What a session has taken up or settled: nextTask must not come back to it.
Closed == {"in_progress", "done", "blocked"}

\* A task file: pre is its pre_claim_status, kept while it is claimed.
Files == [status : Statuses \ {"claimed"}, pre : {None}]
         \cup [status : {"claimed"}, pre : Open]
File(s) == [status |-> s, pre |-> None]

VARIABLES
    origin,     \* origin/main: the file of every task
    clone,      \* what each clone holds, see TypeOK
    lease,      \* the agent whose lease on the task has not ended, or None
    agent,      \* what each agent is doing, with which task
    desk,       \* the claim the server is working on
    outlived,   \* history: tasks whose run went on past its lease or final status
    mishaps, pushes

vars == <<origin, clone, lease, agent, desk, outlived, mishaps, pushes>>

AtWork == {"handed", "pulled", "stage", "session"}
AgentSteps == AtWork \cup {"off", "idle", "asking", "closing", "report"}
FreeDesk == [step |-> "free", agent |-> None, task |-> None]

\* head is the last commit, work the checked-out files, scratch whether other
\* files are modified; ahead is what unpushed commits changed, and behind what
\* origin has changed since the last pull.
TypeOK ==
    /\ origin \in [Tasks -> Files]
    /\ clone \in [Clones -> [head : [Tasks -> Files], work : [Tasks -> Files],
                             scratch : BOOLEAN, ahead : SUBSET Tasks,
                             behind : SUBSET (Tasks \cup {Code})]]
    /\ lease \in [Tasks -> Agents \cup {None}]
    /\ agent \in [Agents -> [step : AgentSteps, task : Tasks \cup {None}]]
    /\ desk \in [step : {"free", "pull", "scan", "push"},
                 agent : Agents \cup {None}, task : Tasks \cup {None}]
    /\ outlived \subseteq Tasks
    /\ mishaps \in 0..MaxMishaps
    /\ pushes \in 0..MaxPushes

Init ==
    /\ origin = [t \in Tasks |-> File("ready")]
    /\ clone = [c \in Clones |-> [head |-> origin, work |-> origin, scratch |-> FALSE,
                                  ahead |-> {}, behind |-> {}]]
    /\ lease = [t \in Tasks |-> None]
    /\ agent = [a \in Agents |-> [step |-> "idle", task |-> None]]
    /\ desk = FreeDesk
    /\ outlived = {}
    /\ mishaps = 0
    /\ pushes = 0

-----------------------------------------------------------------------------
(* git *)

\* What git status --porcelain lists.
Dirty(c) == {t \in Tasks : clone[c].work[t] # clone[c].head[t]}
            \cup (IF clone[c].scratch THEN {Code} ELSE {})

\* All goes well, or something does not and counts as a mishap.
CountMishap(well) ==
    /\ well \/ mishaps < MaxMishaps
    /\ mishaps' = IF well THEN mishaps ELSE mishaps + 1

\* git pull --ff-only: refused over unpushed commits and over local changes.
CanPull(c) == clone[c].ahead = {} /\ Dirty(c) \cap clone[c].behind = {}

Pull(c, up) ==
    clone' = IF ~up \/ ~CanPull(c) THEN clone
             ELSE LET new(files) == [t \in Tasks |-> IF t \in clone[c].behind
                                                     THEN origin[t] ELSE files[t]]
                  IN  [clone EXCEPT ![c].head = new(@), ![c].work = new(@),
                                    ![c].behind = {}]

\* Mutant: git push --force.
ForcePush(c, up) == up

\* git push: refused when origin has anything the clone has not.
CanPush(c, up) == up /\ clone[c].behind = {}

\* The clone after file t is saved as f, added and committed.
Committed(c, t, f) ==
    [clone[c] EXCEPT !.work[t] = f, !.head[t] = f, !.ahead = @ \cup {t}]

\* Pushes clone c, whose state is k.
Push(c, k, up) ==
    IF CanPush(c, up)
    THEN /\ origin' = [t \in Tasks |-> IF t \in k.ahead THEN k.head[t] ELSE origin[t]]
         /\ clone' = [d \in Clones |->
                        IF d = c THEN [k EXCEPT !.ahead = {}]
                        ELSE [clone[d] EXCEPT !.behind = @ \cup k.ahead]]
    ELSE /\ clone' = [clone EXCEPT ![c] = k]
         /\ UNCHANGED origin

\* save and commitRunnerState: save, commit, push, a failed push left as it is.
SaveAndCommit(c, t, f, up) == CountMishap(up) /\ Push(c, Committed(c, t, f), up)

-----------------------------------------------------------------------------
(* The control server *)

\* The claim loop of an agent with a clean tree.
AskClaim(a) ==
    /\ agent[a].step = "idle"
    /\ Dirty(a) = {}
    /\ desk = FreeDesk
    /\ agent' = [agent EXCEPT ![a].step = "asking"]
    /\ desk' = [step |-> "pull", agent |-> a, task |-> None]
    /\ UNCHANGED <<origin, clone, lease, outlived, mishaps, pushes>>

PullQueue(up) ==
    /\ desk.step = "pull"
    /\ CountMishap(up)
    /\ Pull(Server, up)
    /\ desk' = [desk EXCEPT !.step = "scan"]
    /\ UNCHANGED <<origin, lease, agent, outlived, pushes>>

\* Mutant: nextTask takes any claim for an abandoned one.
AnyClaim(t) == clone[Server].work[t].status = "claimed"

\* Mutant: nextTask without its branch for claimed tasks.
ClaimStays(t) == FALSE

LeaseExpired(t) == clone[Server].work[t].status = "claimed" /\ lease[t] = None

\* nextTask puts an abandoned claim back, commits and pushes, whatever comes of it.
RevertExpired(t, up) ==
    /\ desk.step = "scan"
    /\ LeaseExpired(t)
    /\ SaveAndCommit(Server, t, File(clone[Server].work[t].pre), up)
    /\ UNCHANGED <<lease, agent, desk, outlived, pushes>>

\* Mutant: a list of the statuses to leave alone, with done missing from it.
NotTaken(t) ==
    clone[Server].work[t].status \notin Statuses \ (Open \cup {"done"})

Eligible(t) == clone[Server].work[t].status \in Open

\* Mutant: pre_claim_status is read after the status has been set.
ClaimOverwritten(t) ==
    /\ desk.step = "scan"
    /\ \A u \in Tasks : ~LeaseExpired(u)
    /\ Eligible(t)
    /\ clone' = [clone EXCEPT ![Server] = Committed(Server, t,
                    [status |-> "claimed", pre |-> "claimed"])]
    /\ lease' = [lease EXCEPT ![t] = desk.agent]
    /\ desk' = [desk EXCEPT !.step = "push", !.task = t]
    /\ UNCHANGED <<origin, agent, outlived, mishaps, pushes>>

\* handleAgentClaim saves the claim and commits it; the push comes next.
ClaimTask(t) ==
    /\ desk.step = "scan"
    /\ \A u \in Tasks : ~LeaseExpired(u)
    /\ Eligible(t)
    /\ clone' = [clone EXCEPT ![Server] = Committed(Server, t,
                    [status |-> "claimed", pre |-> clone[Server].work[t].status])]
    /\ lease' = [lease EXCEPT ![t] = desk.agent]
    /\ desk' = [desk EXCEPT !.step = "push", !.task = t]
    /\ UNCHANGED <<origin, agent, outlived, mishaps, pushes>>

\* The answer reaches the agent that still waits for it.
Answer(a, step, t) ==
    agent' = IF agent[a].step = "asking"
             THEN [agent EXCEPT ![a] = [step |-> step, task |-> t]] ELSE agent

\* No task to hand out: a limit may not have passed yet, and a task this very
\* scan has put back as checkpointing is left for the next one.
NothingReady ==
    /\ desk.step = "scan"
    /\ \A t \in Tasks : ~LeaseExpired(t) /\ clone[Server].work[t].status # "ready"
    /\ Answer(desk.agent, "idle", None)
    /\ desk' = FreeDesk
    /\ UNCHANGED <<origin, clone, lease, outlived, mishaps, pushes>>

\* The claim is pushed and handed out; heard is FALSE when the answer is lost.
HandOut(heard) ==
    /\ desk.step = "push"
    /\ CanPush(Server, TRUE)
    /\ CountMishap(heard)
    /\ Push(Server, clone[Server], TRUE)
    /\ IF heard THEN Answer(desk.agent, "handed", desk.task)
                ELSE Answer(desk.agent, "idle", None)
    /\ desk' = FreeDesk
    /\ UNCHANGED <<lease, outlived, pushes>>

\* Mutant: the result of commitRunnerState is not looked at.
HandOutAnyway(up) ==
    /\ desk.step = "push"
    /\ ~CanPush(Server, up)
    /\ CountMishap(up)
    /\ Answer(desk.agent, "handed", desk.task)
    /\ desk' = FreeDesk
    /\ UNCHANGED <<origin, clone, lease, outlived, pushes>>

\* The push fails: the file goes back, the commit stays, the agent gets a 500.
RefuseClaim(up) ==
    /\ desk.step = "push"
    /\ ~CanPush(Server, up)
    /\ CountMishap(up)
    /\ clone' = [clone EXCEPT ![Server].work[desk.task] = File(@.pre)]
    /\ lease' = [lease EXCEPT ![desk.task] = None]
    /\ Answer(desk.agent, "idle", None)
    /\ desk' = FreeDesk
    /\ UNCHANGED <<origin, outlived, pushes>>

\* The server dies in the middle of a claim and is started again.
ServerCrash ==
    /\ desk.step # "free"
    /\ CountMishap(FALSE)
    /\ Answer(desk.agent, "idle", None)
    /\ desk' = FreeDesk
    /\ UNCHANGED <<origin, clone, lease, outlived, pushes>>

\* taskActionAllowed, and what handleTaskAction makes of the status.
TaskActions ==
    [hold   |-> [from |-> {"ready"}, to |-> "held"],
     unhold |-> [from |-> {"held"}, to |-> "ready"],
     skip   |-> [from |-> {"ready", "held", "blocked", "waiting_for_limit",
                           "waiting_for_auth"}, to |-> "skipped"],
     retry  |-> [from |-> {"failed", "waiting_for_auth", "interrupted"},
                 to |-> "ready"]]

\* The Owner acts on a task: the file is saved and not committed.
TaskAction(t, action) ==
    /\ desk = FreeDesk
    /\ clone[Server].work[t].status \in TaskActions[action].from
    /\ clone' = [clone EXCEPT ![Server].work[t] = File(TaskActions[action].to)]
    /\ UNCHANGED <<origin, lease, agent, desk, outlived, mishaps, pushes>>

-----------------------------------------------------------------------------
(* The agents *)

Goto(a, step) == agent' = [agent EXCEPT ![a].step = step]

PullTask(a, up) ==
    /\ agent[a].step = "handed"
    /\ CountMishap(up)
    /\ Pull(a, up)
    /\ Goto(a, "pulled")
    /\ UNCHANGED <<origin, lease, desk, outlived, pushes>>

\* An Owner-only risk or an unknown executor: saved, not committed.
RefuseTask(a) ==
    /\ agent[a].step = "pulled"
    /\ agent[a].task \in Barred
    /\ \E s \in {"blocked", "failed"} :
          clone' = [clone EXCEPT ![a].work[agent[a].task] = File(s)]
    /\ Goto(a, "report")
    /\ UNCHANGED <<origin, lease, desk, outlived, mishaps, pushes>>

\* preflight: a clean tree that equals origin/main.
PreflightOk(a, up) ==
    up /\ Dirty(a) = {} /\ clone[a].ahead = {} /\ clone[a].behind = {}

\* execute() up to its loop.  The status of the task is not looked at.
Preflight(a, up) ==
    /\ agent[a].step = "pulled"
    /\ agent[a].task \notin Barred
    /\ CountMishap(up)
    /\ IF PreflightOk(a, up)
       THEN /\ clone' = [clone EXCEPT ![a].work[agent[a].task] = File("in_progress")]
            /\ Goto(a, "stage")
       ELSE Goto(a, "report") /\ UNCHANGED clone
    /\ UNCHANGED <<origin, lease, desk, outlived, pushes>>

OpenSession(a) ==
    /\ agent[a].step = "stage"
    /\ Goto(a, "session")
    /\ UNCHANGED <<origin, clone, lease, desk, outlived, mishaps, pushes>>

\* A pending pause or stop_after_stage, or no stage left.
StopBeforeStage(a, s, up) ==
    /\ agent[a].step = "stage"
    /\ s \in {"checkpointing", "failed"}
    /\ SaveAndCommit(a, agent[a].task, File(s), up)
    /\ Goto(a, "report")
    /\ UNCHANGED <<lease, desk, outlived, pushes>>

\* The session commits and pushes as its prompt tells it to (rules 4 to 9), and
\* closes once it has written a final status.  It never rewrites history.  The
\* testing and deploying it goes through are in_progress to every reader.
SessionCommits(a, s, up) ==
    /\ agent[a].step = "session"
    /\ s \in {"in_progress", "done", "failed", "blocked"}
    /\ SaveAndCommit(a, agent[a].task, File(s), up)
    /\ Goto(a, IF s = "in_progress" THEN "session" ELSE "closing")
    /\ UNCHANGED <<lease, desk, outlived, pushes>>

SessionLeavesScratch(a) ==
    /\ agent[a].step = "session"
    /\ ~clone[a].scratch
    /\ clone' = [clone EXCEPT ![a].scratch = TRUE]
    /\ UNCHANGED <<origin, lease, agent, desk, outlived, mishaps, pushes>>

\* How a session ends: emergency stop, authentication, limit, time out with no
\* stage to follow, a clean exit, or any other (fatal output, bad evidence).
Endings == {"emergency", "auth", "limit", "timeout", "exit", "other"}

\* decideNextAction and the branches of execute() on it.
Outcome(a, how) ==
    LET status == clone[a].work[agent[a].task].status
    IN  CASE how = "emergency" -> "interrupted"
          [] how = "auth" -> "waiting_for_auth"
          [] how = "limit" -> "waiting_for_limit"
          [] how = "exit" /\ status \in {"done", "blocked"} /\ Dirty(a) = {} -> status
          [] OTHER -> "failed"

EndSession(a, how, up) ==
    /\ agent[a].step \in {"session", "closing"}
    /\ SaveAndCommit(a, agent[a].task, File(Outcome(a, how)), up)
    /\ Goto(a, "report")
    /\ UNCHANGED <<lease, desk, outlived, pushes>>

\* Out of time with a usable handoff and a stage left: the next stage follows,
\* even when the session had already written a final status.
NextStage(a, up) ==
    /\ agent[a].step \in {"session", "closing"}
    /\ CountMishap(up /\ agent[a].step = "session")
    /\ Push(a, Committed(a, agent[a].task, clone[a].work[agent[a].task]), up)
    /\ outlived' = IF agent[a].step = "closing"
                   THEN outlived \cup {agent[a].task} ELSE outlived
    /\ Goto(a, "stage")
    /\ UNCHANGED <<lease, desk, pushes>>

\* report-result: the server pulls.  A report that is lost is not repeated.
Report(a, up) ==
    /\ agent[a].step = "report"
    /\ desk = FreeDesk
    /\ CountMishap(up)
    /\ Pull(Server, up)
    /\ agent' = [agent EXCEPT ![a] = [step |-> "idle", task |-> None]]
    /\ UNCHANGED <<origin, lease, desk, outlived, pushes>>

AgentCrash(a) ==
    /\ agent[a].step # "off"
    /\ CountMishap(FALSE)
    /\ agent' = [agent EXCEPT ![a] = [step |-> "off", task |-> None]]
    /\ UNCHANGED <<origin, clone, lease, desk, outlived, pushes>>

\* The agent refuses to start over uncommitted changes.
AgentStart(a) ==
    /\ agent[a].step = "off"
    /\ Dirty(a) = {}
    /\ Goto(a, "idle")
    /\ UNCHANGED <<origin, clone, lease, desk, outlived, mishaps, pushes>>

\* A human gives up what the clone of an agent holds and takes origin's.
Repair(a) ==
    /\ agent[a].step \in {"off", "idle"}
    /\ Dirty(a) # {} \/ clone[a].ahead # {}
    /\ clone' = [clone EXCEPT ![a] = [head |-> origin, work |-> origin,
                    scratch |-> FALSE, ahead |-> {}, behind |-> {}]]
    /\ UNCHANGED <<origin, lease, agent, desk, outlived, mishaps, pushes>>

-----------------------------------------------------------------------------
(* Time and the developers *)

WorksOn(a, t) == agent[a].task = t /\ agent[a].step \in AtWork

LeaseEnds(t) ==
    LET inTime == ~WorksOn(lease[t], t) /\ desk.task # t
    IN  /\ lease[t] # None
        /\ CountMishap(inTime)
        /\ outlived' = IF inTime THEN outlived ELSE outlived \cup {t}
        /\ lease' = [lease EXCEPT ![t] = None]
        /\ UNCHANGED <<origin, clone, agent, desk, pushes>>

\* A developer pushes a commit: code, or a blocked task promoted to ready.
DeveloperPush(p) ==
    /\ pushes < MaxPushes
    /\ pushes' = pushes + 1
    /\ p \in Tasks => origin[p].status = "blocked"
    /\ origin' = [t \in Tasks |-> IF t = p THEN File("ready") ELSE origin[t]]
    /\ clone' = [c \in Clones |-> [clone[c] EXCEPT !.behind = @ \cup {p}]]
    /\ UNCHANGED <<lease, agent, desk, outlived, mishaps>>

-----------------------------------------------------------------------------
ServerStep ==
    \/ \E up \in BOOLEAN : PullQueue(up) \/ HandOut(up) \/ RefuseClaim(up)
    \/ \E t \in Tasks : ClaimTask(t) \/ \E up \in BOOLEAN : RevertExpired(t, up)
    \/ NothingReady
    \/ ServerCrash
    \/ \E t \in Tasks, action \in DOMAIN TaskActions : TaskAction(t, action)

SessionStep(a) ==
    \/ OpenSession(a)
    \/ SessionLeavesScratch(a)
    \/ \E s \in Statuses, up \in BOOLEAN : SessionCommits(a, s, up)
    \/ \E how \in Endings, up \in BOOLEAN : EndSession(a, how, up)
    \/ \E up \in BOOLEAN : NextStage(a, up)

AgentStep(a) ==
    \/ AskClaim(a)
    \/ \E up \in BOOLEAN : PullTask(a, up) \/ Preflight(a, up) \/ Report(a, up)
    \/ RefuseTask(a)
    \/ \E s \in Statuses, up \in BOOLEAN : StopBeforeStage(a, s, up)
    \/ SessionStep(a)
    \/ AgentCrash(a)
    \/ AgentStart(a)
    \/ Repair(a)

Next ==
    \/ ServerStep
    \/ \E a \in Agents : AgentStep(a)
    \/ \E t \in Tasks : LeaseEnds(t)
    \/ \E p \in Tasks \cup {Code} : DeveloperPush(p)

Spec == Init /\ [][Next]_vars

\* The loops and handlers go on, sessions end (their time and their number are
\* limited) and leases end; nothing obliges a human, or anything to fail.
Fairness ==
    /\ WF_vars(PullQueue(TRUE) \/ NothingReady \/ HandOut(TRUE) \/ RefuseClaim(TRUE))
    /\ WF_vars(\E t \in Tasks : RevertExpired(t, TRUE) \/ ClaimTask(t))
    /\ \A t \in Tasks : WF_vars(LeaseEnds(t))
    /\ \A a \in Agents :
          /\ SF_vars(AskClaim(a))
          /\ WF_vars(PullTask(a, TRUE) \/ RefuseTask(a) \/ Preflight(a, TRUE))
          /\ WF_vars(OpenSession(a) \/ AgentStart(a))
          /\ SF_vars(\E how \in Endings : EndSession(a, how, TRUE))
          /\ SF_vars(Report(a, TRUE))

FairSpec == Spec /\ Fairness

-----------------------------------------------------------------------------
(* Properties *)

\* A commit of the server that claims a task never lands on a task that origin
\* already records as done, blocked or in progress, however stale the clone the
\* server decided in.
HandedOutIsOpen ==
    [][\A t \in Tasks : origin[t].status \in Closed
                          => origin'[t].status # "claimed"]_vars

\* Two agents are never at work on one task, unless a run of it has outlived its
\* lease or its final status: neither lost answers, crashes, failed pushes nor
\* what the Owner does to the task can bring a second one in.
OneRunner ==
    \A a, b \in Agents, t \in Tasks :
        WorksOn(a, t) /\ WorksOn(b, t) => a = b \/ t \in outlived

\* With the same exception, a task somebody works on is claimed or in progress in
\* origin, so that every reader of the queue can tell.
RunIsRecorded ==
    \A a \in Agents, t \in Tasks :
        WorksOn(a, t) => \/ origin[t].status \in {"claimed", "in_progress"}
                        \/ t \in outlived

\* With the same exception, only the verdict of the runner on its own session
\* takes back a done that has been pushed.
DoneIsSettled ==
    [][\A t \in Tasks \ outlived :
          origin[t].status = "done" /\ origin'[t].status # "done"
             => \E a \in Agents : /\ agent[a] = [step |-> "closing", task |-> t]
                                  /\ agent'[a].step = "report"]_vars

\* Infinitely often an agent is idle over a clean tree.
SomeAgentAsks == []<>\E a \in Agents : agent[a].step = "idle" /\ Dirty(a) = {}

Waiting(t) == clone[Server].work[t].status \in {"ready", "claimed"}

\* As long as agents keep asking, a task that is ready or claimed is not left for
\* ever: one is handed out again, or none of them waits any more.  A claim whose
\* answer was lost, whose push failed or whose agent or server died is put back.
QueueMoves ==
    SomeAgentAsks =>
        ((\E t \in Tasks : Waiting(t))
            ~> \/ \E a \in Agents : agent[a].step = "handed"
               \/ \A t \in Tasks : ~Waiting(t))

\* An agent that dies leaves no task in progress for ever.
RunIsReleased ==
    SomeAgentAsks =>
        \A t \in Tasks : origin[t].status = "in_progress"
                           ~> origin[t].status # "in_progress"

=============================================================================
