------------------------- MODULE AutomationQueueProofs -------------------------
(***************************************************************************)
(* For any number of tasks, agents, mishaps and pushes: the state of       *)
(* AutomationQueue keeps its types, and a claim never lands on a task that *)
(* origin records as taken up or settled.                                  *)
(*                                                                         *)
(* The second is about git more than about the queue.  The server decides  *)
(* in its own clone, which may be out of date; what saves it is that a     *)
(* push that goes through comes from a clone origin has nothing on, that   *)
(* such a clone agrees with origin wherever it has not committed itself    *)
(* (InSync), and that the server commits only tasks whose last known state *)
(* was open (ServerOpen).                                                  *)
(***************************************************************************)
EXTENDS AutomationQueue, TLAPS

Busy == AtWork \cup {"closing", "report"}

\* An agent past the hand-out has a task, and so has a claim being pushed.
HasTask ==
    /\ \A a \in Agents : agent[a].step \in Busy => agent[a].task \in Tasks
    /\ desk.step # "free" => desk.agent \in Agents
    /\ desk.step = "push" => desk.task \in Tasks

Typed == TypeOK /\ HasTask

\* The claim being pushed is committed, and the file says so.
ClaimInHand ==
    desk.step = "push" => /\ desk.task \in clone[Server].ahead
                          /\ clone[Server].work[desk.task].status = "claimed"

\* Where a clone k has no commit of its own and origin no news, the two agree.
Agrees(k) == \A t \in Tasks : t \notin k.ahead \cup k.behind => k.head[t] = origin[t]

InSync == \A c \in Clones : Agrees(clone[c])

\* What the server has committed was open; what it knows to be closed it leaves
\* alone, except that the Owner may skip it.
LeavesClosed(k) ==
    \A t \in Tasks :
        /\ t \in k.ahead => k.head[t].status \notin Closed
        /\ t \in k.ahead /\ k.behind = {} => origin[t].status \notin Closed
        /\ t \notin k.ahead /\ k.head[t].status \in Closed
              => k.work[t] = k.head[t] \/ k.work[t].status = "skipped"

ServerOpen == LeavesClosed(clone[Server])

\* Agents never commit a claim.
NoClaim(k) == \A t \in k.ahead : k.head[t].status # "claimed"

AgentNeverClaims ==
    \A a \in Agents :
        /\ NoClaim(clone[a])
        /\ agent[a].step \in {"stage", "session", "closing"}
              => clone[a].work[agent[a].task].status # "claimed"

Inv == Typed /\ ClaimInHand /\ InSync /\ ServerOpen /\ AgentNeverClaims

-----------------------------------------------------------------------------
(* Types *)

CloneStates == [head : [Tasks -> Files], work : [Tasks -> Files], scratch : BOOLEAN,
                ahead : SUBSET Tasks, behind : SUBSET (Tasks \cup {Code})]

\* A file in any status but claimed.
LEMMA FileTyped ==
    ASSUME NEW s \in Statuses \ {"claimed"}
    PROVE  File(s) \in Files
BY DEF File, Files

\* Neither a pull, nor a commit, nor a push takes the repository out of its type.
LEMMA PullTyped ==
    ASSUME TypeOK, NEW c \in Clones, NEW up \in BOOLEAN, Pull(c, up)
    PROVE  clone' \in [Clones -> CloneStates]
<1>1. clone \in [Clones -> CloneStates] /\ origin \in [Tasks -> Files]
      BY DEF TypeOK, CloneStates
<1>2. CASE ~up \/ ~CanPull(c)
      BY <1>1, <1>2 DEF Pull
<1>3. CASE up /\ CanPull(c)
  <2> DEFINE new(files) == [t \in Tasks |-> IF t \in clone[c].behind
                                            THEN origin[t] ELSE files[t]]
             k == [clone[c] EXCEPT !.head = new(@), !.work = new(@), !.behind = {}]
  <2>1. clone[c] \in CloneStates
        BY <1>1
  <2>2. new(clone[c].head) \in [Tasks -> Files] /\ new(clone[c].work) \in [Tasks -> Files]
        BY <1>1, <2>1 DEF CloneStates
  <2>3. k \in CloneStates
        BY <2>1, <2>2 DEF CloneStates
  <2>4. clone' = [clone EXCEPT ![c] = k]
        BY <1>1, <1>3, <2>1 DEF Pull, CloneStates
  <2> QED
        BY <1>1, <2>3, <2>4
<1> QED
      BY <1>2, <1>3

LEMMA CommittedTyped ==
    ASSUME TypeOK, NEW c \in Clones, NEW t \in Tasks, NEW f \in Files
    PROVE  /\ Committed(c, t, f) \in CloneStates
           /\ Committed(c, t, f).head = [clone[c].head EXCEPT ![t] = f]
           /\ Committed(c, t, f).work = [clone[c].work EXCEPT ![t] = f]
           /\ Committed(c, t, f).ahead = clone[c].ahead \cup {t}
           /\ Committed(c, t, f).behind = clone[c].behind
<1>1. clone[c] \in CloneStates
      BY DEF TypeOK, CloneStates
<1> QED
      BY <1>1 DEF Committed, CloneStates

LEMMA PushTyped ==
    ASSUME TypeOK, NEW c \in Clones, NEW k \in CloneStates, NEW up \in BOOLEAN,
           Push(c, k, up)
    PROVE  origin' \in [Tasks -> Files] /\ clone' \in [Clones -> CloneStates]
<1>1. clone \in [Clones -> CloneStates] /\ origin \in [Tasks -> Files]
      BY DEF TypeOK, CloneStates
<1>2. CASE CanPush(c, up)
  <2>1. origin' = [t \in Tasks |-> IF t \in k.ahead THEN k.head[t] ELSE origin[t]]
        BY <1>2 DEF Push
  <2>2. clone' = [d \in Clones |-> IF d = c THEN [k EXCEPT !.ahead = {}]
                                  ELSE [clone[d] EXCEPT !.behind = @ \cup k.ahead]]
        BY <1>2 DEF Push
  <2>3. [k EXCEPT !.ahead = {}] \in CloneStates
        BY DEF CloneStates
  <2>4. \A d \in Clones : [clone[d] EXCEPT !.behind = @ \cup k.ahead] \in CloneStates
        BY <1>1 DEF CloneStates
  <2> QED
        BY <1>1, <2>1, <2>2, <2>3, <2>4 DEF CloneStates
<1>3. CASE ~CanPush(c, up)
      BY <1>1, <1>3 DEF Push
<1> QED
      BY <1>2, <1>3

\* What a save and commit does, mishaps included.
LEMMA SaveTyped ==
    ASSUME TypeOK, NEW c \in Clones, NEW t \in Tasks, NEW f \in Files,
           NEW up \in BOOLEAN, SaveAndCommit(c, t, f, up)
    PROVE  /\ origin' \in [Tasks -> Files]
           /\ clone' \in [Clones -> CloneStates]
           /\ mishaps' \in 0..MaxMishaps
<1>1. mishaps' \in 0..MaxMishaps
      BY QueueAssumption DEF SaveAndCommit, CountMishap, TypeOK
<1> DEFINE k == Committed(c, t, f)
<1>2. k \in CloneStates
      BY CommittedTyped
<1>3. Push(c, k, up)
      BY DEF SaveAndCommit
<1> HIDE DEF k
<1> QED
      BY <1>1, <1>2, <1>3, PushTyped

\* A working copy that only one task file or the scratch mark is changed in.
LEMMA SavedTyped ==
    ASSUME TypeOK, NEW c \in Clones, NEW t \in Tasks, NEW f \in Files,
           clone' = [clone EXCEPT ![c].work[t] = f]
    PROVE  clone' \in [Clones -> CloneStates]
<1> DEFINE k == [clone[c] EXCEPT !.work = [@ EXCEPT ![t] = f]]
<1>1. clone \in [Clones -> CloneStates]
      BY DEF TypeOK, CloneStates
<1>2. k \in CloneStates
      BY <1>1 DEF CloneStates
<1>3. clone' = [clone EXCEPT ![c] = k]
      BY <1>1 DEF CloneStates
<1> HIDE DEF k
<1> QED
    BY <1>1, <1>2, <1>3

\* The agent that is answered goes on with the task, or without one.
LEMMA AnswerTyped ==
    ASSUME Typed, NEW a \in Agents, NEW t \in Tasks \cup {None},
           NEW step \in {"idle", "handed"}, step = "handed" => t \in Tasks,
           Answer(a, step, t)
    PROVE  /\ agent' \in [Agents -> [step : AgentSteps, task : Tasks \cup {None}]]
           /\ \A b \in Agents : agent'[b].step \in Busy => agent'[b].task \in Tasks
BY DEF Typed, TypeOK, HasTask, Answer, AgentSteps, AtWork, Busy

LEMMA GotoTyped ==
    ASSUME Typed, NEW a \in Agents, NEW step \in AgentSteps,
           step \in Busy => agent[a].task \in Tasks, Goto(a, step)
    PROVE  /\ agent' \in [Agents -> [step : AgentSteps, task : Tasks \cup {None}]]
           /\ \A b \in Agents : agent'[b].step \in Busy => agent'[b].task \in Tasks
BY DEF Typed, TypeOK, HasTask, Goto

LEMMA InitTyped == Init => Typed
<1> SUFFICES ASSUME Init PROVE Typed
    OBVIOUS
<1>1. File("ready") \in Files
      BY FileTyped DEF Statuses, Open
<1>2. clone \in [Clones -> CloneStates]
      BY <1>1 DEF Init, CloneStates
<1> QED
    BY <1>1, <1>2, QueueAssumption
    DEF Init, Typed, TypeOK, HasTask, CloneStates, FreeDesk, AgentSteps, AtWork, Busy

LEMMA ServerTyped == Typed /\ ClaimInHand /\ ServerStep => Typed'
<1> SUFFICES ASSUME Typed, ClaimInHand, ServerStep PROVE Typed'
    OBVIOUS
<1> USE DEF Typed
<1>1. /\ clone \in [Clones -> CloneStates]
      /\ Server \in Clones
      /\ FreeDesk \in [step : {"free", "pull", "scan", "push"},
                        agent : Agents \cup {None}, task : Tasks \cup {None}]
      BY DEF TypeOK, CloneStates, Clones, FreeDesk
<1>2. ASSUME NEW up \in BOOLEAN, CountMishap(up) PROVE mishaps' \in 0..MaxMishaps
      BY <1>2, QueueAssumption DEF CountMishap, TypeOK
<1>3. ASSUME NEW up \in BOOLEAN, PullQueue(up) PROVE Typed'
  <2>1. clone' \in [Clones -> CloneStates]
        BY <1>1, <1>3, PullTyped DEF PullQueue
  <2> QED
        BY <1>2, <1>3, <2>1 DEF PullQueue, TypeOK, HasTask, CloneStates
<1>4. ASSUME NEW heard \in BOOLEAN, HandOut(heard) PROVE Typed'
  <2>1. origin' \in [Tasks -> Files] /\ clone' \in [Clones -> CloneStates]
        BY <1>1, <1>4, PushTyped DEF HandOut
  <2>2. /\ agent' \in [Agents -> [step : AgentSteps, task : Tasks \cup {None}]]
        /\ \A b \in Agents : agent'[b].step \in Busy => agent'[b].task \in Tasks
        BY <1>4, AnswerTyped DEF HandOut, HasTask
  <2> QED
        BY <1>1, <1>2, <1>4, <2>1, <2>2 DEF HandOut, TypeOK, HasTask, CloneStates, FreeDesk
<1>5. ASSUME NEW up \in BOOLEAN, RefuseClaim(up) PROVE Typed'
  <2> DEFINE t == desk.task
             f == File(clone[Server].work[t].pre)
  <2>1. t \in Tasks /\ clone[Server].work[t] \in Files
        BY <1>1, <1>5 DEF RefuseClaim, HasTask, CloneStates
  <2>2. clone[Server].work[t].pre \in Open
        BY <1>5, <2>1 DEF RefuseClaim, ClaimInHand, Files
  <2>3. f \in Files
        BY <2>2, FileTyped DEF Open, Statuses
  <2>4. clone' = [clone EXCEPT ![Server].work[t] = f]
        BY <1>5 DEF RefuseClaim
  <2> HIDE DEF f
  <2>6. clone' \in [Clones -> CloneStates]
        BY <1>1, <2>1, <2>3, <2>4, SavedTyped
  <2>7. /\ agent' \in [Agents -> [step : AgentSteps, task : Tasks \cup {None}]]
        /\ \A b \in Agents : agent'[b].step \in Busy => agent'[b].task \in Tasks
        BY <1>5, AnswerTyped DEF RefuseClaim, HasTask
  <2> QED
        BY <1>1, <1>2, <1>5, <2>6, <2>7 DEF RefuseClaim, TypeOK, HasTask, CloneStates, FreeDesk
<1>6. ASSUME NEW t \in Tasks, ClaimTask(t) PROVE Typed'
  <2> DEFINE f == [status |-> "claimed", pre |-> clone[Server].work[t].status]
  <2>1. f \in Files
        BY <1>6 DEF ClaimTask, Eligible, Files
  <2>2. clone' \in [Clones -> CloneStates]
        BY <1>1, <1>6, <2>1, CommittedTyped DEF ClaimTask
  <2>3. desk.agent \in Agents
        BY <1>6 DEF ClaimTask, HasTask
  <2> QED
        BY <1>6, <2>2, <2>3 DEF ClaimTask, TypeOK, HasTask, CloneStates
<1>7. ASSUME NEW t \in Tasks, NEW up \in BOOLEAN, RevertExpired(t, up) PROVE Typed'
  <2>1. clone[Server].work[t] \in Files /\ clone[Server].work[t].status = "claimed"
        BY <1>1, <1>7 DEF RevertExpired, LeaseExpired, CloneStates
  <2>2. File(clone[Server].work[t].pre) \in Files
        BY <2>1, FileTyped DEF Files, Open, Statuses
  <2> QED
        BY <1>1, <1>7, <2>2, SaveTyped DEF RevertExpired, TypeOK, HasTask, CloneStates
<1>8. CASE NothingReady
  <2>1. /\ agent' \in [Agents -> [step : AgentSteps, task : Tasks \cup {None}]]
        /\ \A b \in Agents : agent'[b].step \in Busy => agent'[b].task \in Tasks
        BY <1>8, AnswerTyped DEF NothingReady, HasTask
  <2> QED
        BY <1>1, <1>8, <2>1 DEF NothingReady, TypeOK, HasTask, FreeDesk
<1>9. CASE ServerCrash
  <2>1. desk.agent \in Agents
        BY <1>9 DEF ServerCrash, HasTask
  <2>2. /\ agent' \in [Agents -> [step : AgentSteps, task : Tasks \cup {None}]]
        /\ \A b \in Agents : agent'[b].step \in Busy => agent'[b].task \in Tasks
        BY <1>9, <2>1, AnswerTyped DEF ServerCrash
  <2> QED
        BY <1>1, <1>2, <1>9, <2>2 DEF ServerCrash, TypeOK, HasTask, FreeDesk
<1>10. ASSUME NEW t \in Tasks, NEW action \in DOMAIN TaskActions, TaskAction(t, action)
       PROVE Typed'
  <2>1. TaskActions[action].to \in {"held", "ready", "skipped"}
        BY DEF TaskActions
  <2>2. File(TaskActions[action].to) \in Files
        BY <2>1, FileTyped DEF Open, Statuses
  <2>3. clone' \in [Clones -> CloneStates]
        BY <1>1, <1>10, <2>2, SavedTyped DEF TaskAction
  <2> QED
        BY <1>10, <2>3 DEF TaskAction, TypeOK, HasTask, CloneStates
<1> QED
    BY <1>3, <1>4, <1>5, <1>6, <1>7, <1>8, <1>9, <1>10 DEF ServerStep

\* What SaveTyped asks of a file an agent commits.
LEMMA StatusTyped ==
    ASSUME NEW s \in {"in_progress", "done", "failed", "blocked", "checkpointing",
                      "interrupted", "waiting_for_auth", "waiting_for_limit"}
    PROVE  File(s) \in Files /\ File(s).status = s
BY FileTyped DEF Statuses, Open, File

LEMMA OutcomeStatus ==
    ASSUME NEW a \in Agents, NEW how \in Endings
    PROVE  Outcome(a, how) \in {"interrupted", "waiting_for_auth", "waiting_for_limit",
                                "done", "blocked", "failed"}
<1> DEFINE status == clone[a].work[agent[a].task].status
<1>1. CASE how = "exit" /\ status \in {"done", "blocked"} /\ Dirty(a) = {}
      BY <1>1 DEF Outcome
<1>2. CASE ~(how = "exit" /\ status \in {"done", "blocked"} /\ Dirty(a) = {})
      BY <1>2 DEF Outcome
<1> QED
    BY <1>1, <1>2

LEMMA SessionTyped ==
    ASSUME Typed, NEW a \in Agents, SessionStep(a)
    PROVE  Typed'
<1> USE DEF Typed
<1>1. clone \in [Clones -> CloneStates] /\ a \in Clones
      BY DEF TypeOK, CloneStates, Clones
<1>2. agent[a].step \in {"session", "closing", "stage"} => agent[a].task \in Tasks
      BY DEF HasTask, Busy, AtWork
<1>3. ASSUME NEW step \in Busy \ {"handed", "pulled"}, Goto(a, step), agent[a].task \in Tasks
      PROVE  /\ agent' \in [Agents -> [step : AgentSteps, task : Tasks \cup {None}]]
             /\ \A b \in Agents : agent'[b].step \in Busy => agent'[b].task \in Tasks
      BY <1>3, GotoTyped DEF Busy, AgentSteps
<1>4. CASE OpenSession(a)
      BY <1>2, <1>3, <1>4 DEF OpenSession, TypeOK, HasTask, Busy, AtWork
<1>5. CASE SessionLeavesScratch(a)
  <2> DEFINE k == [clone[a] EXCEPT !.scratch = TRUE]
  <2>1. k \in CloneStates
        BY <1>1 DEF CloneStates
  <2>2. clone' = [clone EXCEPT ![a] = k]
        BY <1>1, <1>5 DEF SessionLeavesScratch, CloneStates
  <2> HIDE DEF k
  <2>3. clone' \in [Clones -> CloneStates]
        BY <1>1, <2>1, <2>2
  <2> QED
        BY <1>5, <2>3 DEF SessionLeavesScratch, TypeOK, HasTask, CloneStates
<1>6. ASSUME NEW s \in Statuses, NEW up \in BOOLEAN, SessionCommits(a, s, up) PROVE Typed'
  <2>1. File(s) \in Files
        BY <1>6, StatusTyped DEF SessionCommits
  <2>2. /\ agent' \in [Agents -> [step : AgentSteps, task : Tasks \cup {None}]]
        /\ \A b \in Agents : agent'[b].step \in Busy => agent'[b].task \in Tasks
        BY <1>2, <1>3, <1>6 DEF SessionCommits, Busy, AtWork
  <2> QED
        BY <1>1, <1>2, <1>6, <2>1, <2>2, SaveTyped
        DEF SessionCommits, TypeOK, HasTask, CloneStates
<1>7. ASSUME NEW how \in Endings, NEW up \in BOOLEAN, EndSession(a, how, up) PROVE Typed'
  <2>1. File(Outcome(a, how)) \in Files
        BY OutcomeStatus, StatusTyped
  <2>2. /\ agent' \in [Agents -> [step : AgentSteps, task : Tasks \cup {None}]]
        /\ \A b \in Agents : agent'[b].step \in Busy => agent'[b].task \in Tasks
        BY <1>2, <1>3, <1>7 DEF EndSession, Busy, AtWork
  <2> QED
        BY <1>1, <1>2, <1>7, <2>1, <2>2, SaveTyped
        DEF EndSession, TypeOK, HasTask, CloneStates
<1>8. ASSUME NEW up \in BOOLEAN, NextStage(a, up) PROVE Typed'
  <2> DEFINE k == Committed(a, agent[a].task, clone[a].work[agent[a].task])
  <2>1. clone[a].work[agent[a].task] \in Files
        BY <1>1, <1>2, <1>8 DEF NextStage, CloneStates
  <2>2. k \in CloneStates
        BY <1>1, <1>2, <1>8, <2>1, CommittedTyped DEF NextStage
  <2>3. origin' \in [Tasks -> Files] /\ clone' \in [Clones -> CloneStates]
        BY <1>1, <1>8, <2>2, PushTyped DEF NextStage
  <2>4. /\ agent' \in [Agents -> [step : AgentSteps, task : Tasks \cup {None}]]
        /\ \A b \in Agents : agent'[b].step \in Busy => agent'[b].task \in Tasks
        BY <1>2, <1>3, <1>8 DEF NextStage, Busy, AtWork
  <2>5. mishaps' \in 0..MaxMishaps /\ outlived' \subseteq Tasks
        BY <1>2, <1>8, QueueAssumption DEF NextStage, CountMishap, TypeOK
  <2> QED
        BY <1>8, <2>3, <2>4, <2>5 DEF NextStage, TypeOK, HasTask, CloneStates
<1> QED
    BY <1>4, <1>5, <1>6, <1>7, <1>8 DEF SessionStep

LEMMA AgentTyped ==
    ASSUME Typed, NEW a \in Agents, AgentStep(a)
    PROVE  Typed'
<1> USE DEF Typed
<1>1. clone \in [Clones -> CloneStates] /\ a \in Clones /\ Server \in Clones
      BY DEF TypeOK, CloneStates, Clones
<1>2. ASSUME NEW up \in BOOLEAN, CountMishap(up) PROVE mishaps' \in 0..MaxMishaps
      BY <1>2, QueueAssumption DEF CountMishap, TypeOK
<1>3. agent[a].step \in {"handed", "pulled", "stage", "report"} => agent[a].task \in Tasks
      BY DEF HasTask, Busy, AtWork
<1>4. ASSUME NEW step \in {"pulled", "stage", "report"}, Goto(a, step),
             agent[a].task \in Tasks
      PROVE  /\ agent' \in [Agents -> [step : AgentSteps, task : Tasks \cup {None}]]
             /\ \A b \in Agents : agent'[b].step \in Busy => agent'[b].task \in Tasks
      BY <1>4, GotoTyped DEF AtWork, AgentSteps
<1>5. CASE AskClaim(a)
      BY <1>5, QueueAssumption DEF AskClaim, TypeOK, HasTask, AgentSteps, Busy, AtWork
<1>6. ASSUME NEW up \in BOOLEAN, PullTask(a, up) PROVE Typed'
  <2>1. clone' \in [Clones -> CloneStates]
        BY <1>1, <1>6, PullTyped DEF PullTask
  <2>2. /\ agent' \in [Agents -> [step : AgentSteps, task : Tasks \cup {None}]]
        /\ \A b \in Agents : agent'[b].step \in Busy => agent'[b].task \in Tasks
        BY <1>3, <1>4, <1>6 DEF PullTask
  <2> QED
        BY <1>2, <1>6, <2>1, <2>2 DEF PullTask, TypeOK, HasTask, CloneStates
<1>7. CASE RefuseTask(a)
  <2>1. PICK s \in {"blocked", "failed"} :
                clone' = [clone EXCEPT ![a].work[agent[a].task] = File(s)]
        BY <1>7 DEF RefuseTask
  <2>2. clone' \in [Clones -> CloneStates]
        BY <1>1, <1>3, <1>7, <2>1, StatusTyped, SavedTyped DEF RefuseTask
  <2>3. /\ agent' \in [Agents -> [step : AgentSteps, task : Tasks \cup {None}]]
        /\ \A b \in Agents : agent'[b].step \in Busy => agent'[b].task \in Tasks
        BY <1>3, <1>4, <1>7 DEF RefuseTask
  <2> QED
        BY <1>7, <2>2, <2>3 DEF RefuseTask, TypeOK, HasTask, CloneStates
<1>8. ASSUME NEW up \in BOOLEAN, Preflight(a, up) PROVE Typed'
  <2>1. clone' \in [Clones -> CloneStates]
    <3>1. CASE PreflightOk(a, up)
          BY <1>1, <1>3, <1>8, <3>1, StatusTyped, SavedTyped DEF Preflight
    <3>2. CASE ~PreflightOk(a, up)
          BY <1>1, <1>8, <3>2 DEF Preflight
    <3> QED
          BY <3>1, <3>2
  <2>2. /\ agent' \in [Agents -> [step : AgentSteps, task : Tasks \cup {None}]]
        /\ \A b \in Agents : agent'[b].step \in Busy => agent'[b].task \in Tasks
        BY <1>3, <1>4, <1>8 DEF Preflight
  <2> QED
        BY <1>2, <1>8, <2>1, <2>2 DEF Preflight, TypeOK, HasTask, CloneStates
<1>9. ASSUME NEW s \in Statuses, NEW up \in BOOLEAN, StopBeforeStage(a, s, up)
      PROVE  Typed'
  <2>1. File(s) \in Files
        BY <1>9, StatusTyped DEF StopBeforeStage
  <2>2. /\ agent' \in [Agents -> [step : AgentSteps, task : Tasks \cup {None}]]
        /\ \A b \in Agents : agent'[b].step \in Busy => agent'[b].task \in Tasks
        BY <1>3, <1>4, <1>9 DEF StopBeforeStage
  <2> QED
        BY <1>1, <1>3, <1>9, <2>1, <2>2, SaveTyped
        DEF StopBeforeStage, TypeOK, HasTask, CloneStates
<1>10. ASSUME NEW up \in BOOLEAN, Report(a, up) PROVE Typed'
  <2>1. clone' \in [Clones -> CloneStates]
        BY <1>1, <1>10, PullTyped DEF Report
  <2> QED
        BY <1>2, <1>10, <2>1
        DEF Report, TypeOK, HasTask, CloneStates, AgentSteps, Busy, AtWork
<1>11. CASE AgentCrash(a)
       BY <1>2, <1>11 DEF AgentCrash, TypeOK, HasTask, AgentSteps, Busy, AtWork
<1>12. CASE AgentStart(a)
       BY <1>12, GotoTyped DEF AgentStart, TypeOK, HasTask, AgentSteps, Busy, AtWork
<1>13. CASE Repair(a)
  <2>1. [head |-> origin, work |-> origin, scratch |-> FALSE, ahead |-> {}, behind |-> {}]
          \in CloneStates
        BY DEF TypeOK, CloneStates
  <2> QED
        BY <1>1, <1>13, <2>1 DEF Repair, TypeOK, HasTask, CloneStates
<1> QED
    BY <1>5, <1>6, <1>7, <1>8, <1>9, <1>10, <1>11, <1>12, <1>13, SessionTyped DEF AgentStep

LEMMA OthersTyped ==
    ASSUME Typed, \/ \E t \in Tasks : LeaseEnds(t)
                  \/ \E p \in Tasks \cup {Code} : DeveloperPush(p)
    PROVE  Typed'
<1> USE DEF Typed
<1>1. ASSUME NEW t \in Tasks, LeaseEnds(t) PROVE Typed'
  <2>1. mishaps' \in 0..MaxMishaps
        BY <1>1, QueueAssumption DEF LeaseEnds, CountMishap, TypeOK
  <2> QED
        BY <1>1, <2>1 DEF LeaseEnds, TypeOK, HasTask
<1>2. ASSUME NEW p \in Tasks \cup {Code}, DeveloperPush(p) PROVE Typed'
  <2>1. File("ready") \in Files
        BY FileTyped DEF Statuses, Open
  <2>2. clone \in [Clones -> CloneStates]
        BY DEF TypeOK, CloneStates
  <2>3. \A c \in Clones : [clone[c] EXCEPT !.behind = @ \cup {p}] \in CloneStates
        BY <2>2 DEF CloneStates
  <2>4. clone' \in [Clones -> CloneStates]
        BY <1>2, <2>3 DEF DeveloperPush
  <2>5. pushes' \in 0..MaxPushes
        BY <1>2, QueueAssumption DEF DeveloperPush, TypeOK
  <2> QED
        BY <1>2, <2>1, <2>4, <2>5 DEF DeveloperPush, TypeOK, HasTask, CloneStates
<1> QED
    BY <1>1, <1>2

LEMMA NextTyped == Typed /\ ClaimInHand /\ [Next]_vars => Typed'
<1>1. ASSUME Typed, UNCHANGED vars PROVE Typed'
      BY <1>1 DEF Typed, TypeOK, HasTask, vars
<1> QED
    BY <1>1, ServerTyped, AgentTyped, OthersTyped DEF Next

-----------------------------------------------------------------------------
(* git *)

\* What HandedOutIsOpen says of one step.
Safe == \A t \in Tasks : origin[t].status \in Closed => origin'[t].status # "claimed"

\* Clone c holds the same files and commits as before.
Keeps(c) == /\ clone'[c].head = clone[c].head
            /\ clone'[c].work = clone[c].work
            /\ clone'[c].ahead = clone[c].ahead

\* A pull leaves every clone in sync, and the server's knowledge of closed tasks true.
LEMMA PullKeeps ==
    ASSUME TypeOK, InSync, ServerOpen, NEW c \in Clones, NEW up \in BOOLEAN,
           Pull(c, up), UNCHANGED origin
    PROVE  /\ InSync' /\ ServerOpen'
           /\ clone'[c].ahead = clone[c].ahead
           /\ clone'[c].ahead # {} => Keeps(c)
           /\ \A d \in Clones \ {c} : Keeps(d)
<1>1. clone \in [Clones -> CloneStates] /\ Server \in Clones
      BY DEF TypeOK, CloneStates, Clones
<1>2. CASE ~up \/ ~CanPull(c)
  <2>1. clone' = clone
        BY <1>2 DEF Pull
  <2> QED
        BY <2>1 DEF InSync, Agrees, ServerOpen, LeavesClosed, Keeps
<1>3. CASE up /\ CanPull(c)
  <2> DEFINE new(files) == [t \in Tasks |-> IF t \in clone[c].behind
                                            THEN origin[t] ELSE files[t]]
             k == [clone[c] EXCEPT !.head = new(@), !.work = new(@), !.behind = {}]
  <2>1. clone' = [clone EXCEPT ![c] = k]
        BY <1>1, <1>3 DEF Pull, CloneStates
  <2>2. /\ k.head = new(clone[c].head) /\ k.work = new(clone[c].work)
        /\ k.ahead = clone[c].ahead /\ k.behind = {}
        BY <1>1 DEF CloneStates
  <2>3. clone[c].ahead = {}
        BY <1>3 DEF CanPull
  <2>4. Agrees(k)
        BY <2>2, <2>3 DEF InSync, Agrees
  <2>5. ASSUME c = Server PROVE LeavesClosed(k)
    <3> SUFFICES ASSUME NEW t \in Tasks, k.head[t].status \in Closed
                 PROVE  k.work[t] = k.head[t] \/ k.work[t].status = "skipped"
        BY <2>2, <2>3 DEF LeavesClosed
    <3>1. CASE t \in clone[c].behind
          BY <2>2, <3>1
    <3>2. CASE t \notin clone[c].behind
          BY <2>2, <2>3, <2>5, <3>2 DEF ServerOpen, LeavesClosed
    <3> QED
          BY <3>1, <3>2
  <2> HIDE DEF k
  <2>6. clone'[c] = k /\ \A d \in Clones \ {c} : clone'[d] = clone[d]
        BY <1>1, <2>1
  <2> QED
        BY <1>1, <2>2, <2>3, <2>4, <2>5, <2>6
        DEF InSync, Agrees, ServerOpen, LeavesClosed, Keeps
<1> QED
    BY <1>2, <1>3

\* What a push makes of the clones and of origin, in the terms of the invariant.
LEMMA PushKeeps ==
    ASSUME TypeOK, InSync, NEW c \in Clones, NEW k \in CloneStates, NEW up \in BOOLEAN,
           Agrees(k), k.behind = clone[c].behind, Push(c, k, up)
    PROVE  /\ InSync'
           /\ clone'[c].head = k.head /\ clone'[c].work = k.work
           /\ \A d \in Clones \ {c} : Keeps(d)
           /\ \/ /\ clone'[c] = k /\ origin' = origin
                 /\ \A d \in Clones \ {c} : clone'[d] = clone[d]
              \/ /\ clone'[c].ahead = {} /\ k.behind = {} /\ clone'[c].behind = {}
                 /\ \A t \in Tasks :
                       origin'[t] = IF t \in k.ahead THEN k.head[t] ELSE origin[t]
                 /\ \A d \in Clones \ {c} :
                       clone'[d].behind = clone[d].behind \cup k.ahead
<1>1. clone \in [Clones -> CloneStates]
      BY DEF TypeOK, CloneStates
<1>2. CASE CanPush(c, up)
  <2>1. /\ origin' = [t \in Tasks |-> IF t \in k.ahead THEN k.head[t] ELSE origin[t]]
        /\ clone' = [d \in Clones |-> IF d = c THEN [k EXCEPT !.ahead = {}]
                                  ELSE [clone[d] EXCEPT !.behind = @ \cup k.ahead]]
        BY <1>2 DEF Push
  <2>2. k.behind = {}
        BY <1>2 DEF CanPush
  <2>3. /\ clone'[c].head = k.head /\ clone'[c].work = k.work
        /\ clone'[c].ahead = {} /\ clone'[c].behind = {}
        BY <2>1, <2>2 DEF CloneStates
  <2>4. \A d \in Clones \ {c} : Keeps(d) /\ clone'[d].behind = clone[d].behind \cup k.ahead
        BY <1>1, <2>1 DEF CloneStates, Keeps
  <2>5. \A t \in Tasks : k.head[t] = origin'[t]
        BY <2>1, <2>2 DEF Agrees
  <2>6. ASSUME NEW d \in Clones \ {c}, NEW t \in Tasks,
               t \notin clone'[d].ahead \cup clone'[d].behind
        PROVE  clone'[d].head[t] = origin'[t]
    <3>1. t \notin clone[d].ahead \cup clone[d].behind /\ t \notin k.ahead
          BY <2>4, <2>6 DEF Keeps
    <3>2. clone[d].head[t] = origin[t]
          BY <3>1 DEF InSync, Agrees
    <3>3. origin'[t] = origin[t]
          BY <2>1, <3>1
    <3> QED
          BY <2>4, <3>2, <3>3 DEF Keeps
  <2>7. InSync'
        BY <2>3, <2>5, <2>6 DEF InSync, Agrees
  <2> QED
        BY <2>1, <2>2, <2>3, <2>4, <2>7
<1>3. CASE ~CanPush(c, up)
  <2>1. clone' = [clone EXCEPT ![c] = k] /\ origin' = origin
        BY <1>3 DEF Push
  <2>2. clone'[c] = k /\ \A d \in Clones \ {c} : clone'[d] = clone[d]
        BY <1>1, <2>1
  <2> QED
        BY <2>1, <2>2 DEF InSync, Agrees, Keeps
<1> QED
    BY <1>2, <1>3

\* A push of the server: its commits were open, in origin too if it goes through.
LEMMA ServerPush ==
    ASSUME TypeOK, InSync, NEW k \in CloneStates, NEW up \in BOOLEAN,
           Agrees(k), LeavesClosed(k), k.behind = clone[Server].behind, Push(Server, k, up)
    PROVE  InSync' /\ ServerOpen' /\ Safe /\ \A a \in Agents : Keeps(a)
<1>1. Server \in Clones /\ \A a \in Agents : a \in Clones \ {Server}
      BY QueueAssumption DEF Clones
<1>2. Safe
      BY <1>1, PushKeeps DEF Safe, LeavesClosed, Closed
<1>3. ServerOpen'
      BY <1>1, PushKeeps DEF ServerOpen, LeavesClosed
<1> QED
    BY <1>1, <1>2, <1>3, PushKeeps

\* A push of an agent: it carries no claim, and the server is behind from then on.
LEMMA AgentPush ==
    ASSUME TypeOK, InSync, ServerOpen, NEW a \in Agents, NEW k \in CloneStates,
           NEW up \in BOOLEAN, Agrees(k), NoClaim(k), k.behind = clone[a].behind,
           Push(a, k, up)
    PROVE  /\ InSync' /\ ServerOpen' /\ Safe
           /\ NoClaim(clone'[a]) /\ clone'[a].work = k.work
           /\ \A c \in Clones \ {a} : Keeps(c)
<1>1. a \in Clones /\ Server \in Clones \ {a}
      BY QueueAssumption DEF Clones
<1>2. Safe
      BY <1>1, PushKeeps DEF Safe, NoClaim, Closed
<1>3. ServerOpen'
  <2>1. CASE origin' = origin /\ clone'[Server] = clone[Server]
        BY <2>1 DEF ServerOpen, LeavesClosed
  <2>2. CASE /\ clone'[Server].behind = clone[Server].behind \cup k.ahead
             /\ \A t \in Tasks : origin'[t] = IF t \in k.ahead THEN k.head[t] ELSE origin[t]
        BY <1>1, <2>2, PushKeeps DEF ServerOpen, LeavesClosed, Keeps
  <2> QED
        BY <1>1, <2>1, <2>2, PushKeeps
<1>4. NoClaim(clone'[a])
      BY <1>1, PushKeeps DEF NoClaim
<1> QED
    BY <1>1, <1>2, <1>3, <1>4, PushKeeps

-----------------------------------------------------------------------------
(* The steps *)

Good == ClaimInHand /\ InSync /\ ServerOpen /\ AgentNeverClaims

\* When every agent keeps its clone and none of them takes a step it can claim in.
LEMMA AgentsKeep ==
    ASSUME AgentNeverClaims, \A a \in Agents : Keeps(a),
           \A a \in Agents : \/ agent'[a] = agent[a]
                             \/ agent'[a].step \notin {"stage", "session", "closing"}
    PROVE  AgentNeverClaims'
BY DEF AgentNeverClaims, NoClaim, Keeps

LEMMA AnswerKeeps ==
    ASSUME Typed, NEW a \in Agents, NEW t, NEW step \in {"idle", "handed"}, Answer(a, step, t)
    PROVE  \A b \in Agents : \/ agent'[b] = agent[b]
                             \/ agent'[b].step \notin {"stage", "session", "closing"}
BY DEF Answer, Typed, TypeOK

\* The server commits task t, open or claimed in its working copy, as f.
LEMMA ServerCommit ==
    ASSUME Typed, InSync, ServerOpen, NEW t \in Tasks, NEW f \in Files,
           f.status \notin Closed,
           clone[Server].work[t].status \in Open \cup {"claimed"}
    PROVE  /\ Committed(Server, t, f) \in CloneStates
           /\ Agrees(Committed(Server, t, f))
           /\ LeavesClosed(Committed(Server, t, f))
           /\ t \in Committed(Server, t, f).ahead /\ Committed(Server, t, f).work[t] = f
           /\ Committed(Server, t, f).behind = clone[Server].behind
<1> DEFINE k == Committed(Server, t, f)
           old == clone[Server]
<1>1. old \in CloneStates /\ Server \in Clones
      BY DEF Typed, TypeOK, CloneStates, Clones
<1>2. /\ k \in CloneStates
      /\ k.head = [old.head EXCEPT ![t] = f] /\ k.work = [old.work EXCEPT ![t] = f]
      /\ k.ahead = old.ahead \cup {t} /\ k.behind = old.behind
      BY <1>1, CommittedTyped DEF Typed
<1>3. Agrees(old) /\ LeavesClosed(old)
      BY <1>1 DEF InSync, ServerOpen
<1>4. old.head \in [Tasks -> Files] /\ old.work \in [Tasks -> Files]
      BY <1>1 DEF CloneStates
<1>5. t \notin old.ahead => old.head[t].status \notin Closed
      BY <1>3 DEF LeavesClosed, Closed, Open
<1> HIDE DEF k, old
<1>6. Agrees(k)
      BY <1>2, <1>3, <1>4 DEF Agrees
<1>7. \A u \in Tasks \ {t} : k.head[u] = old.head[u] /\ k.work[u] = old.work[u]
      BY <1>2, <1>4
<1>8. k.head[t] = f /\ k.work[t] = f
      BY <1>2, <1>4
<1>9. k.behind = {} => origin[t].status \notin Closed
      BY <1>2, <1>3, <1>5 DEF Agrees, LeavesClosed
<1>10. LeavesClosed(k)
  <2>1. ASSUME NEW u \in Tasks, u # t
        PROVE  /\ u \in k.ahead => k.head[u].status \notin Closed
               /\ u \in k.ahead /\ k.behind = {} => origin[u].status \notin Closed
               /\ u \notin k.ahead /\ k.head[u].status \in Closed
                     => k.work[u] = k.head[u] \/ k.work[u].status = "skipped"
        BY <1>2, <1>3, <1>7, <2>1 DEF LeavesClosed
  <2>2. /\ t \in k.ahead => k.head[t].status \notin Closed
        /\ t \in k.ahead /\ k.behind = {} => origin[t].status \notin Closed
        /\ t \in k.ahead
        BY <1>2, <1>8, <1>9
  <2> QED
        BY <2>1, <2>2 DEF LeavesClosed
<1> QED
    BY <1>2, <1>6, <1>8, <1>10 DEF k, old

LEMMA ServerGood ==
    ASSUME Typed, Good, ServerStep
    PROVE  Good' /\ Safe
<1> USE DEF Good
<1>1. clone \in [Clones -> CloneStates] /\ Server \in Clones
      BY DEF Typed, TypeOK, CloneStates, Clones
<1>2. \A a \in Agents : a \in Clones \ {Server}
      BY QueueAssumption DEF Clones
<1>3. UNCHANGED origin => Safe
      BY DEF Safe, Closed
<1>4. desk' = FreeDesk => ClaimInHand'
      BY DEF FreeDesk, ClaimInHand
<1>5. ASSUME NEW up \in BOOLEAN, PullQueue(up) PROVE Good' /\ Safe
  <2>1. InSync' /\ ServerOpen' /\ \A a \in Agents : Keeps(a)
        BY <1>1, <1>2, <1>5, PullKeeps DEF PullQueue, Typed
  <2>2. ClaimInHand'
        BY <1>5 DEF PullQueue, ClaimInHand, Typed, TypeOK
  <2> QED
        BY <1>3, <1>5, <2>1, <2>2, AgentsKeep DEF PullQueue
<1>6. ASSUME NEW heard \in BOOLEAN, HandOut(heard) PROVE Good' /\ Safe
  <2>1. Agrees(clone[Server]) /\ LeavesClosed(clone[Server]) /\ clone[Server] \in CloneStates
        BY <1>1 DEF InSync, ServerOpen
  <2>2. InSync' /\ ServerOpen' /\ Safe /\ \A a \in Agents : Keeps(a)
        BY <1>6, <2>1, ServerPush DEF HandOut, Typed
  <2>3. desk.agent \in Agents
        BY <1>6 DEF HandOut, Typed, HasTask
  <2> QED
        BY <1>4, <1>6, <2>2, <2>3, AgentsKeep, AnswerKeeps DEF HandOut
<1>7. ASSUME NEW up \in BOOLEAN, RefuseClaim(up) PROVE Good' /\ Safe
  <2> DEFINE f == File(clone[Server].work[desk.task].pre)
             k == [clone[Server] EXCEPT !.work = [@ EXCEPT ![desk.task] = f]]
  <2>1. desk.agent \in Agents /\ desk.task \in Tasks /\ desk.task \in clone[Server].ahead
        BY <1>7 DEF RefuseClaim, Typed, HasTask, ClaimInHand
  <2>2. clone' = [clone EXCEPT ![Server] = k]
        BY <1>1, <1>7 DEF RefuseClaim, CloneStates
  <2>3. /\ k.head = clone[Server].head /\ k.ahead = clone[Server].ahead
        /\ k.behind = clone[Server].behind
        /\ \A t \in Tasks \ {desk.task} : k.work[t] = clone[Server].work[t]
        BY <1>1, <2>1 DEF CloneStates
  <2> HIDE DEF k
  <2>4. clone'[Server] = k /\ \A c \in Clones \ {Server} : clone'[c] = clone[c]
        BY <1>1, <2>2
  <2>5. UNCHANGED origin
        BY <1>7 DEF RefuseClaim
  <2>6. InSync'
        BY <1>1, <2>3, <2>4, <2>5 DEF InSync, Agrees
  <2>7. ServerOpen'
        BY <2>1, <2>3, <2>4, <2>5 DEF ServerOpen, LeavesClosed
  <2>8. \A a \in Agents : Keeps(a)
        BY <1>2, <2>4 DEF Keeps
  <2> QED
        BY <1>3, <1>4, <1>7, <2>1, <2>5, <2>6, <2>7, <2>8, AgentsKeep, AnswerKeeps DEF RefuseClaim
<1>8. ASSUME NEW t \in Tasks, ClaimTask(t) PROVE Good' /\ Safe
  <2> DEFINE f == [status |-> "claimed", pre |-> clone[Server].work[t].status]
             k == Committed(Server, t, f)
  <2>1. f \in Files /\ f.status = "claimed" /\ clone[Server].work[t].status \in Open
        BY <1>8 DEF ClaimTask, Eligible, Files
  <2>2. clone' = [clone EXCEPT ![Server] = k]
        BY <1>8 DEF ClaimTask
  <2> HIDE DEF f
  <2>3. Agrees(k) /\ LeavesClosed(k)
        BY <2>1, ServerCommit DEF Closed
  <2>4. t \in k.ahead /\ k.work[t] = f
        BY <2>1, ServerCommit DEF Closed
  <2> HIDE DEF k
  <2>5. clone'[Server] = k /\ \A c \in Clones \ {Server} : clone'[c] = clone[c]
        BY <1>1, <2>2
  <2>6. UNCHANGED <<origin, agent>> /\ desk'.task = t
        BY <1>8 DEF ClaimTask, Typed, TypeOK
  <2>7. InSync' /\ ServerOpen'
        BY <2>3, <2>5, <2>6 DEF InSync, Agrees, ServerOpen, LeavesClosed
  <2>8. ClaimInHand'
        BY <2>1, <2>4, <2>5, <2>6 DEF ClaimInHand
  <2>9. \A a \in Agents : Keeps(a)
        BY <1>2, <2>5 DEF Keeps
  <2> QED
        BY <1>3, <2>6, <2>7, <2>8, <2>9, AgentsKeep
<1>9. ASSUME NEW t \in Tasks, NEW up \in BOOLEAN, RevertExpired(t, up) PROVE Good' /\ Safe
  <2> DEFINE f == File(clone[Server].work[t].pre)
             k == Committed(Server, t, f)
  <2>1. clone[Server].work[t] \in Files /\ clone[Server].work[t].status = "claimed"
        BY <1>1, <1>9 DEF RevertExpired, LeaseExpired, CloneStates
  <2>2. f \in Files /\ f.status \in Open
        BY <2>1, FileTyped DEF Files, Open, Statuses, File
  <2>3. Push(Server, k, up)
        BY <1>9 DEF RevertExpired, SaveAndCommit
  <2> HIDE DEF f
  <2>4. /\ k \in CloneStates /\ Agrees(k) /\ LeavesClosed(k)
        /\ k.behind = clone[Server].behind
        BY <2>1, <2>2, ServerCommit DEF Closed, Open
  <2> HIDE DEF k
  <2>5. InSync' /\ ServerOpen' /\ Safe /\ \A a \in Agents : Keeps(a)
        BY <2>3, <2>4, ServerPush DEF Typed
  <2>6. ClaimInHand' /\ UNCHANGED agent
        BY <1>9 DEF RevertExpired, ClaimInHand
  <2> QED
        BY <2>5, <2>6, AgentsKeep
<1>10. CASE NothingReady \/ ServerCrash
  <2>1. UNCHANGED <<origin, clone>> /\ desk' = FreeDesk
        BY <1>10 DEF NothingReady, ServerCrash
  <2>2. InSync' /\ ServerOpen' /\ \A a \in Agents : Keeps(a)
        BY <2>1 DEF InSync, Agrees, ServerOpen, LeavesClosed, Keeps
  <2>3. desk.agent \in Agents /\ Answer(desk.agent, "idle", None)
        BY <1>10 DEF NothingReady, ServerCrash, Typed, HasTask
  <2> QED
        BY <1>3, <1>4, <2>1, <2>2, <2>3, AgentsKeep, AnswerKeeps
<1>11. ASSUME NEW t \in Tasks, NEW action \in DOMAIN TaskActions, TaskAction(t, action)
       PROVE Good' /\ Safe
  <2> DEFINE f == File(TaskActions[action].to)
             k == [clone[Server] EXCEPT !.work = [@ EXCEPT ![t] = f]]
  <2>1. clone[Server].work[t].status \in Closed => f.status = "skipped"
        BY <1>11 DEF TaskAction, TaskActions, Closed, File
  <2>2. clone[Server].work[t].status # "skipped"
        BY <1>11 DEF TaskAction, TaskActions
  <2>3. clone' = [clone EXCEPT ![Server] = k]
        BY <1>1, <1>11 DEF TaskAction, CloneStates
  <2>4. /\ k.head = clone[Server].head /\ k.ahead = clone[Server].ahead
        /\ k.behind = clone[Server].behind /\ k.work[t] = f
        /\ \A u \in Tasks \ {t} : k.work[u] = clone[Server].work[u]
        BY <1>1 DEF CloneStates
  <2> HIDE DEF k, f
  <2>5. clone'[Server] = k /\ \A c \in Clones \ {Server} : clone'[c] = clone[c]
        BY <1>1, <2>3
  <2>6. UNCHANGED <<origin, agent>> /\ desk' = FreeDesk
        BY <1>11 DEF TaskAction
  <2>7. InSync'
        BY <1>1, <2>4, <2>5, <2>6 DEF InSync, Agrees
  <2>8. ServerOpen'
    <3>1. ASSUME t \notin k.ahead, k.head[t].status \in Closed PROVE k.work[t].status = "skipped"
          BY <2>1, <2>2, <2>4, <3>1 DEF ServerOpen, LeavesClosed
    <3> QED
          BY <2>4, <2>5, <2>6, <3>1 DEF ServerOpen, LeavesClosed
  <2>9. \A a \in Agents : Keeps(a)
        BY <1>2, <2>5 DEF Keeps
  <2> QED
        BY <1>3, <1>4, <2>6, <2>7, <2>8, <2>9, AgentsKeep
<1> QED
    BY <1>5, <1>6, <1>7, <1>8, <1>9, <1>10, <1>11 DEF ServerStep

\* An agent commits task t as f, which is no claim.
LEMMA AgentCommit ==
    ASSUME Typed, Good, NEW a \in Agents, NEW t \in Tasks, NEW f \in Files,
           f.status # "claimed", NEW up \in BOOLEAN, Push(a, Committed(a, t, f), up)
    PROVE  /\ InSync' /\ ServerOpen' /\ Safe
           /\ NoClaim(clone'[a]) /\ clone'[a].work[t] = f
           /\ \A c \in Clones \ {a} : Keeps(c)
<1> DEFINE k == Committed(a, t, f)
           old == clone[a]
<1>1. old \in CloneStates /\ a \in Clones
      BY DEF Typed, TypeOK, CloneStates, Clones
<1>2. /\ k \in CloneStates
      /\ k.head = [old.head EXCEPT ![t] = f] /\ k.work = [old.work EXCEPT ![t] = f]
      /\ k.ahead = old.ahead \cup {t} /\ k.behind = old.behind
      BY <1>1, CommittedTyped DEF Typed
<1>3. Agrees(old) /\ NoClaim(old)
      BY <1>1 DEF Good, InSync, AgentNeverClaims
<1>4. old.head \in [Tasks -> Files] /\ old.work \in [Tasks -> Files] /\ old.ahead \subseteq Tasks
      BY <1>1 DEF CloneStates
<1>5. Push(a, k, up) /\ k.behind = clone[a].behind
      BY <1>2
<1> HIDE DEF k, old
<1>6. Agrees(k)
      BY <1>2, <1>3, <1>4 DEF Agrees
<1>7. NoClaim(k)
      BY <1>2, <1>3, <1>4 DEF NoClaim
<1>8. k.work[t] = f
      BY <1>2, <1>4
<1>9. /\ InSync' /\ ServerOpen' /\ Safe
      /\ NoClaim(clone'[a]) /\ clone'[a].work = k.work
      /\ \A c \in Clones \ {a} : Keeps(c)
  <2>1. TypeOK /\ InSync /\ ServerOpen
        BY DEF Good, Typed
  <2> QED
        BY <1>2, <1>5, <1>6, <1>7, <2>1, AgentPush
<1> QED
    BY <1>8, <1>9

\* An agent changes no more of its clone than the checked-out files.
LEMMA AgentSaves ==
    ASSUME Typed, Good, NEW a \in Agents, NEW k, clone' = [clone EXCEPT ![a] = k],
           k.head = clone[a].head, k.ahead = clone[a].ahead, k.behind = clone[a].behind,
           UNCHANGED origin
    PROVE  /\ InSync' /\ ServerOpen' /\ Safe /\ NoClaim(clone'[a])
           /\ \A c \in Clones \ {a} : Keeps(c)
<1>1. a \in Clones /\ Server \in Clones \ {a} /\ clone \in [Clones -> CloneStates]
      BY QueueAssumption DEF Clones, Typed, TypeOK, CloneStates
<1>2. clone'[a] = k /\ \A c \in Clones \ {a} : clone'[c] = clone[c]
      BY <1>1
<1>3. InSync'
      BY <1>1, <1>2 DEF Good, InSync, Agrees
<1>4. ServerOpen'
      BY <1>1, <1>2 DEF Good, ServerOpen, LeavesClosed
<1>5. Safe
      BY DEF Safe, Closed
<1> QED
    BY <1>1, <1>2, <1>3, <1>4, <1>5 DEF Good, AgentNeverClaims, NoClaim, Keeps

\* What is left to show of a step in which an agent works in its clone.
LEMMA AgentKeeps ==
    ASSUME Typed, Good, NEW a \in Agents,
           InSync', ServerOpen', NoClaim(clone'[a]), \A c \in Clones \ {a} : Keeps(c),
           \A b \in Agents \ {a} : agent'[b] = agent[b],
           agent'[a].step \in {"stage", "session", "closing"}
              => clone'[a].work[agent'[a].task].status # "claimed",
           desk' = desk
    PROVE  Good'
<1>1. Server \in Clones \ {a} /\ \A b \in Agents \ {a} : b \in Clones \ {a}
      BY QueueAssumption DEF Clones
<1>2. ClaimInHand'
      BY <1>1 DEF Good, ClaimInHand, Keeps
<1>3. AgentNeverClaims'
      BY <1>1 DEF Good, AgentNeverClaims, NoClaim, Keeps
<1> QED
    BY <1>2, <1>3 DEF Good

LEMMA SessionGood ==
    ASSUME Typed, Good, NEW a \in Agents, SessionStep(a)
    PROVE  Good' /\ Safe
<1>1. clone \in [Clones -> CloneStates] /\ a \in Clones
      BY DEF Typed, TypeOK, CloneStates, Clones
<1>2. agent[a].step \in {"session", "closing", "stage"}
         => /\ agent[a].task \in Tasks
            /\ clone[a].work[agent[a].task].status # "claimed"
      BY DEF Typed, HasTask, Busy, AtWork, Good, AgentNeverClaims
<1>3. ASSUME NEW step, Goto(a, step)
      PROVE  /\ \A b \in Agents \ {a} : agent'[b] = agent[b]
             /\ agent'[a].step = step /\ agent'[a].task = agent[a].task
      BY <1>3 DEF Goto, Typed, TypeOK
<1>4. CASE OpenSession(a)
  <2>1. /\ InSync' /\ ServerOpen' /\ Safe /\ NoClaim(clone'[a])
        /\ \A c \in Clones : Keeps(c)
        BY <1>1, <1>4 DEF OpenSession, Good, InSync, Agrees, ServerOpen, LeavesClosed, Safe,
                          Closed, AgentNeverClaims, NoClaim, Keeps
  <2>2. clone'[a].work[agent'[a].task].status # "claimed"
        BY <1>2, <1>3, <1>4 DEF OpenSession
  <2> QED
        BY <1>3, <1>4, <2>1, <2>2, AgentKeeps DEF OpenSession
<1>5. CASE SessionLeavesScratch(a)
  <2> DEFINE k == [clone[a] EXCEPT !.scratch = TRUE]
  <2>1. /\ clone' = [clone EXCEPT ![a] = k]
        /\ k.head = clone[a].head /\ k.work = clone[a].work
        /\ k.ahead = clone[a].ahead /\ k.behind = clone[a].behind
        BY <1>1, <1>5 DEF SessionLeavesScratch, CloneStates
  <2> HIDE DEF k
  <2>2. /\ InSync' /\ ServerOpen' /\ Safe /\ NoClaim(clone'[a])
        /\ \A c \in Clones \ {a} : Keeps(c)
        BY <1>5, <2>1, AgentSaves DEF SessionLeavesScratch
  <2>3. clone'[a].work = clone[a].work /\ agent' = agent
        BY <1>1, <1>5, <2>1 DEF SessionLeavesScratch
  <2> QED
        BY <1>2, <1>5, <2>2, <2>3, AgentKeeps DEF SessionLeavesScratch
<1>6. ASSUME NEW f \in Files, f.status # "claimed", NEW up \in BOOLEAN, NEW step,
             Push(a, Committed(a, agent[a].task, f), up), Goto(a, step), desk' = desk,
             agent[a].task \in Tasks
      PROVE  Good' /\ Safe
  <2>1. /\ InSync' /\ ServerOpen' /\ Safe
        /\ NoClaim(clone'[a]) /\ clone'[a].work[agent[a].task] = f
        /\ \A c \in Clones \ {a} : Keeps(c)
        BY <1>6, AgentCommit
  <2> QED
        BY <1>3, <1>6, <2>1, AgentKeeps
<1>7. ASSUME NEW s \in Statuses, NEW up \in BOOLEAN, SessionCommits(a, s, up)
      PROVE  Good' /\ Safe
  <2>1. File(s) \in Files /\ File(s).status # "claimed"
        BY <1>7, StatusTyped DEF SessionCommits
  <2> QED
        BY <1>2, <1>6, <1>7, <2>1 DEF SessionCommits, SaveAndCommit
<1>8. ASSUME NEW how \in Endings, NEW up \in BOOLEAN, EndSession(a, how, up)
      PROVE  Good' /\ Safe
  <2>1. File(Outcome(a, how)) \in Files /\ File(Outcome(a, how)).status # "claimed"
        BY OutcomeStatus, StatusTyped
  <2> QED
        BY <1>2, <1>6, <1>8, <2>1 DEF EndSession, SaveAndCommit
<1>9. ASSUME NEW up \in BOOLEAN, NextStage(a, up) PROVE Good' /\ Safe
  <2> DEFINE f == clone[a].work[agent[a].task]
  <2>1. f \in Files /\ f.status # "claimed"
        BY <1>1, <1>2, <1>9 DEF NextStage, CloneStates
  <2> QED
        BY <1>2, <1>6, <1>9, <2>1 DEF NextStage
<1> QED
    BY <1>4, <1>5, <1>7, <1>8, <1>9 DEF SessionStep

LEMMA AgentGood ==
    ASSUME Typed, Good, NEW a \in Agents, AgentStep(a)
    PROVE  Good' /\ Safe
<1>1. /\ clone \in [Clones -> CloneStates] /\ a \in Clones /\ Server \in Clones \ {a}
      /\ TypeOK /\ InSync /\ ServerOpen
      BY QueueAssumption DEF Typed, TypeOK, CloneStates, Clones, Good
<1>2. agent[a].step \in {"handed", "pulled", "stage"} => agent[a].task \in Tasks
      BY DEF Typed, HasTask, Busy, AtWork
<1>3. ASSUME NEW step, Goto(a, step)
      PROVE  /\ \A b \in Agents \ {a} : agent'[b] = agent[b]
             /\ agent'[a].step = step /\ agent'[a].task = agent[a].task
      BY <1>3 DEF Goto, Typed, TypeOK
<1>4. NoClaim(clone[a])
      BY DEF Good, AgentNeverClaims
<1>5. UNCHANGED origin => Safe
      BY DEF Safe, Closed
<1>6. ASSUME UNCHANGED <<origin, clone>>
      PROVE  InSync' /\ ServerOpen' /\ NoClaim(clone'[a]) /\ \A c \in Clones : Keeps(c)
      BY <1>1, <1>4, <1>6 DEF InSync, Agrees, ServerOpen, LeavesClosed, NoClaim, Keeps
<1>7. CASE AskClaim(a)
  <2>1. \A b \in Agents : agent'[b] = agent[b] \/ agent'[b].step = "asking"
        BY <1>7 DEF AskClaim, Typed, TypeOK
  <2>2. \A b \in Agents : Keeps(b)
        BY <1>6, <1>7 DEF AskClaim, Clones
  <2>3. AgentNeverClaims'
        BY <2>1, <2>2, AgentsKeep DEF Good
  <2>4. ClaimInHand'
        BY <1>7 DEF AskClaim, ClaimInHand
  <2> QED
        BY <1>5, <1>6, <1>7, <2>3, <2>4 DEF AskClaim, Good
<1>8. ASSUME NEW up \in BOOLEAN, PullTask(a, up) PROVE Good' /\ Safe
  <2>1. /\ InSync' /\ ServerOpen' /\ clone'[a].ahead = clone[a].ahead
        /\ clone'[a].ahead # {} => Keeps(a)
        /\ \A c \in Clones \ {a} : Keeps(c)
        BY <1>1, <1>8, PullKeeps DEF PullTask
  <2>2. NoClaim(clone'[a])
        BY <1>4, <2>1 DEF NoClaim, Keeps
  <2> QED
        BY <1>3, <1>5, <1>8, <2>1, <2>2, AgentKeeps DEF PullTask
<1>9. ASSUME NEW f, NEW step, Goto(a, step), UNCHANGED <<origin, desk>>,
             agent[a].task \in Tasks, f.status # "claimed",
             clone' = [clone EXCEPT ![a].work[agent[a].task] = f]
      PROVE  Good' /\ Safe
  <2> DEFINE k == [clone[a] EXCEPT !.work = [@ EXCEPT ![agent[a].task] = f]]
  <2>1. clone' = [clone EXCEPT ![a] = k]
        BY <1>1, <1>9 DEF CloneStates
  <2>2. /\ k.head = clone[a].head /\ k.ahead = clone[a].ahead
        /\ k.behind = clone[a].behind /\ k.work[agent[a].task] = f
        BY <1>1, <1>9 DEF CloneStates
  <2> HIDE DEF k
  <2>3. /\ InSync' /\ ServerOpen' /\ Safe /\ NoClaim(clone'[a])
        /\ \A c \in Clones \ {a} : Keeps(c)
        BY <1>9, <2>1, <2>2, AgentSaves
  <2>4. clone'[a].work[agent'[a].task] = f
        BY <1>1, <1>3, <1>9, <2>1, <2>2
  <2> QED
        BY <1>3, <1>9, <2>3, <2>4, AgentKeeps
<1>10. CASE RefuseTask(a)
       BY <1>2, <1>9, <1>10, StatusTyped DEF RefuseTask
<1>11. ASSUME NEW up \in BOOLEAN, Preflight(a, up) PROVE Good' /\ Safe
  <2>1. CASE PreflightOk(a, up)
        BY <1>2, <1>9, <1>11, <2>1, StatusTyped DEF Preflight
  <2>2. CASE ~PreflightOk(a, up)
        BY <1>3, <1>5, <1>6, <1>11, <2>2, AgentKeeps DEF Preflight
  <2> QED
        BY <2>1, <2>2
<1>12. ASSUME NEW s \in Statuses, NEW up \in BOOLEAN, StopBeforeStage(a, s, up)
       PROVE  Good' /\ Safe
  <2>1. File(s) \in Files /\ File(s).status # "claimed" /\ agent[a].task \in Tasks
        BY <1>2, <1>12, StatusTyped DEF StopBeforeStage
  <2>2. InSync' /\ ServerOpen' /\ Safe /\ NoClaim(clone'[a]) /\ \A c \in Clones \ {a} : Keeps(c)
        BY <1>12, <2>1, AgentCommit DEF StopBeforeStage, SaveAndCommit
  <2> QED
        BY <1>3, <1>12, <2>2, AgentKeeps DEF StopBeforeStage
<1>13. ASSUME NEW up \in BOOLEAN, Report(a, up) PROVE Good' /\ Safe
  <2>1. InSync' /\ ServerOpen' /\ \A c \in Clones \ {Server} : Keeps(c)
        BY <1>1, <1>13, PullKeeps DEF Report
  <2>2. \A b \in Agents : Keeps(b)
        BY <2>1, QueueAssumption DEF Clones
  <2>3. \A b \in Agents : agent'[b] = agent[b] \/ agent'[b].step = "idle"
        BY <1>13 DEF Report, Typed, TypeOK
  <2>4. AgentNeverClaims'
        BY <2>2, <2>3, AgentsKeep DEF Good
  <2>5. ClaimInHand'
        BY <1>13 DEF Report, ClaimInHand, FreeDesk
  <2> QED
        BY <1>5, <1>13, <2>1, <2>4, <2>5 DEF Report, Good
<1>14. CASE AgentCrash(a) \/ AgentStart(a)
  <2>1. /\ \A b \in Agents \ {a} : agent'[b] = agent[b]
        /\ agent'[a].step \in {"off", "idle"}
    <3>1. agent \in [Agents -> [step : AgentSteps, task : Tasks \cup {None}]]
          BY <1>1 DEF TypeOK
    <3>2. CASE AgentCrash(a)
          BY <3>1, <3>2 DEF AgentCrash
    <3>3. CASE AgentStart(a)
          BY <1>3, <3>3 DEF AgentStart
    <3> QED
          BY <1>14, <3>2, <3>3
  <2> QED
        BY <1>5, <1>6, <1>14, <2>1, AgentKeeps DEF AgentCrash, AgentStart
<1>15. CASE Repair(a)
  <2> DEFINE k == [head |-> origin, work |-> origin, scratch |-> FALSE,
                   ahead |-> {}, behind |-> {}]
  <2>1. clone'[a] = k /\ \A c \in Clones \ {a} : clone'[c] = clone[c]
        BY <1>1, <1>15 DEF Repair
  <2>2. UNCHANGED <<origin, agent, desk>> /\ agent[a].step \in {"off", "idle"}
        BY <1>15 DEF Repair
  <2>3. InSync' /\ ServerOpen' /\ NoClaim(clone'[a])
        BY <1>1, <2>1, <2>2 DEF InSync, Agrees, ServerOpen, LeavesClosed, NoClaim
  <2>4. \A c \in Clones \ {a} : Keeps(c)
        BY <2>1 DEF Keeps
  <2> QED
        BY <1>5, <2>2, <2>3, <2>4, AgentKeeps
<1> QED
    BY <1>7, <1>8, <1>10, <1>11, <1>12, <1>13, <1>14, <1>15, SessionGood DEF AgentStep

LEMMA OthersGood ==
    ASSUME Typed, Good, \/ \E t \in Tasks : LeaseEnds(t)
                        \/ \E p \in Tasks \cup {Code} : DeveloperPush(p)
    PROVE  Good' /\ Safe
<1> USE DEF Good
<1>1. Server \in Clones /\ (\A a \in Agents : a \in Clones) /\ clone \in [Clones -> CloneStates]
      BY DEF Clones, Typed, TypeOK, CloneStates
<1>2. ASSUME NEW t \in Tasks, LeaseEnds(t) PROVE Good' /\ Safe
  <2>1. UNCHANGED <<origin, clone, agent, desk>>
        BY <1>2 DEF LeaseEnds
  <2> QED
        BY <2>1 DEF ClaimInHand, InSync, Agrees, ServerOpen, LeavesClosed,
                    AgentNeverClaims, NoClaim, Safe, Closed
<1>3. ASSUME NEW p \in Tasks \cup {Code}, DeveloperPush(p) PROVE Good' /\ Safe
  <2>1. /\ \A t \in Tasks : origin'[t] = IF t = p THEN File("ready") ELSE origin[t]
        /\ UNCHANGED <<agent, desk>>
        BY <1>3 DEF DeveloperPush
  <2>2. \A c \in Clones : Keeps(c) /\ clone'[c].behind = clone[c].behind \cup {p}
        BY <1>1, <1>3 DEF DeveloperPush, CloneStates, Keeps
  <2>3. InSync'
        BY <2>1, <2>2 DEF InSync, Agrees, Keeps
  <2>4. ServerOpen'
    <3>1. /\ Keeps(Server) /\ clone'[Server].behind # {}
          BY <1>1, <2>2
    <3> QED
          BY <3>1 DEF ServerOpen, LeavesClosed, Keeps
  <2>5. Safe
        BY <2>1 DEF Safe, Closed, File
  <2>6. ClaimInHand' /\ AgentNeverClaims'
        BY <1>1, <2>1, <2>2 DEF ClaimInHand, AgentNeverClaims, NoClaim, Keeps
  <2> QED
        BY <2>3, <2>4, <2>5, <2>6
<1> QED
    BY <1>2, <1>3

LEMMA InitGood == Init => Good
<1> SUFFICES ASSUME Init PROVE Good
    OBVIOUS
<1>1. \A c \in Clones : /\ clone[c].head = origin /\ clone[c].work = origin
                        /\ clone[c].ahead = {} /\ clone[c].behind = {}
      BY DEF Init
<1>2. Server \in Clones /\ \A a \in Agents : a \in Clones
      BY DEF Clones
<1>3. ClaimInHand /\ \A a \in Agents : agent[a].step = "idle"
      BY DEF Init, ClaimInHand, FreeDesk
<1> QED
    BY <1>1, <1>2, <1>3
    DEF Good, InSync, Agrees, ServerOpen, LeavesClosed, AgentNeverClaims, NoClaim

-----------------------------------------------------------------------------
(* The theorems *)

\* Every step of the program keeps the invariant and hands out only what is open.
LEMMA NextGood == Inv /\ [Next]_vars => Inv' /\ Safe
<1> SUFFICES ASSUME Inv, [Next]_vars PROVE Inv' /\ Safe
    OBVIOUS
<1>1. Typed /\ Good /\ Typed'
      BY NextTyped DEF Inv, Good
<1>2. CASE UNCHANGED vars
      BY <1>1, <1>2 DEF vars, Inv, Good, ClaimInHand, InSync, Agrees, ServerOpen,
                        LeavesClosed, AgentNeverClaims, NoClaim, Safe, Closed
<1>3. CASE Next
      BY <1>1, <1>3, ServerGood, AgentGood, OthersGood DEF Next, Inv, Good
<1> QED
    BY <1>2, <1>3

\* The inductive invariant holds of every behaviour: clones differ from origin only
\* where they say so, and neither the server nor an agent commits what it must not.
THEOREM InvHolds == Spec => []Inv
<1>1. Init => Inv
      BY InitTyped, InitGood DEF Inv, Good
<1> QED
    BY <1>1, NextGood, PTL DEF Spec

\* TypeOK for every value of the constants.
THEOREM TypeCorrect == Spec => []TypeOK
<1>1. Inv => TypeOK
      BY DEF Inv, Typed
<1> QED
    BY <1>1, InvHolds, PTL

\* nextTask, handleAgentClaim and commitRunnerState together: whatever the server's
\* clone has missed, no claim of a task that origin records as done, blocked or in
\* progress is ever pushed.
THEOREM HandedOut == Spec => HandedOutIsOpen
<1>1. Inv /\ [Next]_vars
        => [\A t \in Tasks : origin[t].status \in Closed
                              => origin'[t].status # "claimed"]_vars
      BY NextGood DEF Safe
<1> QED
    BY <1>1, InvHolds, PTL DEF Spec, HandedOutIsOpen

=============================================================================
