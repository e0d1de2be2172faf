-------------------------- MODULE AutomationRunProofs --------------------------
(***************************************************************************)
(* For any number of tasks, agents, mishaps and pushes: no two agents are  *)
(* at work on one task, whoever is at work is on record in origin, and a   *)
(* pushed done stays, the runs that outlive their lease or their final     *)
(* status excepted.                                                        *)
(*                                                                         *)
(* The lease is what a run holds (RunHeld): as long as it has not ended,   *)
(* the server keeps its hands off the task, because its own clone shows    *)
(* the task as claimed or in progress and carries no commit of it; and the *)
(* clone of an agent that has done with the task is behind origin on it    *)
(* from the hand-out on, so that nothing it commits later goes through.    *)
(***************************************************************************)
EXTENDS AutomationQueueProofs

InSession == {"stage", "session", "closing"}
Recorded == {"claimed", "in_progress"}

Closing(a, t) == agent[a].step = "closing" /\ agent[a].task = t

\* A run commits nothing but its own task file.
OwnCommits ==
    \A a \in Agents : agent[a].step \in InSession => clone[a].ahead \subseteq {agent[a].task}

\* The claim being pushed is the agent's that asked, unless its lease has ended.
ClaimLeased ==
    desk.step = "push" => /\ clone[Server].head[desk.task].status = "claimed"
                          /\ desk.task \in outlived \/ lease[desk.task] = desk.agent

\* What the lease of agent a on task t keeps true.
Held(a, t) ==
    /\ lease[t] = a
    /\ origin[t].status \in Recorded
    /\ t \notin clone[Server].ahead
    /\ clone[Server].work[t].status \in Recorded
    /\ desk.step = "push" => desk.task # t
    /\ agent[a].step \in {"stage", "session"} => clone[a].work[t].status = "in_progress"
    /\ \A b \in Agents : Closing(b, t) => t \in clone[b].behind

RunHeld == \A a \in Agents, t \in Tasks \ outlived : WorksOn(a, t) => Held(a, t)

\* A session that has pushed done has done in its own files too.
DoneKept ==
    \A a \in Agents, t \in Tasks \ outlived :
        Closing(a, t) /\ t \notin clone[a].behind /\ origin[t].status = "done"
            => clone[a].work[t].status = "done"

Runs == OwnCommits /\ ClaimLeased /\ RunHeld /\ DoneKept

\* What DoneIsSettled says of one step.
DoneStays ==
    \A t \in Tasks \ outlived :
        origin[t].status = "done" /\ origin'[t].status # "done"
            => \E a \in Agents : /\ agent[a] = [step |-> "closing", task |-> t]
                                 /\ agent'[a].step = "report"

-----------------------------------------------------------------------------
(* The server's steps *)

\* No agent works in its clone, and what changes in origin was not closed and is
\* news to every agent.
LEMMA AgentsWait ==
    ASSUME OwnCommits, DoneKept, outlived \subseteq outlived',
           \A b \in Agents : Keeps(b) /\ clone[b].behind \subseteq clone'[b].behind,
           \A b \in Agents : agent'[b] = agent[b] \/ agent'[b].step \notin InSession,
           \A t \in Tasks : origin'[t] # origin[t] =>
               origin[t].status \notin Closed /\ \A b \in Agents : t \in clone'[b].behind
    PROVE  OwnCommits' /\ DoneKept' /\ DoneStays
<1>1. OwnCommits'
      BY DEF OwnCommits, Keeps
<1>2. DoneKept'
      BY DEF DoneKept, Closing, InSession, Keeps
<1>3. DoneStays
      BY DEF DoneStays, Closed
<1> QED
    BY <1>1, <1>2, <1>3

\* The runs under way do not notice a step that leaves their task alone.
LEMMA RunsGoOn ==
    ASSUME RunHeld, NEW t \in Tasks, t \notin outlived, NEW a \in Agents,
           WorksOn(a, t), agent'[a] = agent[a], Keeps(a),
           lease'[t] = lease[t], origin'[t] = origin[t],
           t \notin clone'[Server].ahead,
           clone'[Server].work[t].status \in Recorded,
           desk'.step = "push" => desk'.task # t,
           \A b \in Agents : /\ agent'[b] = agent[b] \/ agent'[b].step # "closing"
                             /\ clone[b].behind \subseteq clone'[b].behind
    PROVE  Held(a, t)'
BY DEF RunHeld, Held, Closing, Keeps

\* A pull brings in origin's files, or none.
LEMMA PullWork ==
    ASSUME TypeOK, NEW c \in Clones, NEW up \in BOOLEAN, Pull(c, up)
    PROVE  /\ \A t \in Tasks : clone'[c].work[t] \in {clone[c].work[t], origin[t]}
           /\ clone'[c].head # clone[c].head => clone[c].ahead = {}
           /\ \A d \in Clones \ {c} : clone'[d] = clone[d]
<1>1. clone \in [Clones -> CloneStates]
      BY DEF TypeOK, CloneStates
<1>2. CASE ~up \/ ~CanPull(c)
      BY <1>2 DEF Pull
<1>3. CASE up /\ CanPull(c)
  <2> DEFINE new(files) == [t \in Tasks |-> IF t \in clone[c].behind
                                            THEN origin[t] ELSE files[t]]
             k == [clone[c] EXCEPT !.head = new(@), !.work = new(@), !.behind = {}]
  <2>1. clone' = [clone EXCEPT ![c] = k]
        BY <1>1, <1>3 DEF Pull, CloneStates
  <2>2. k.work = new(clone[c].work)
        BY <1>1 DEF CloneStates
  <2>3. clone[c].ahead = {}
        BY <1>3 DEF CanPull
  <2> HIDE DEF k
  <2>4. clone'[c] = k /\ \A d \in Clones \ {c} : clone'[d] = clone[d]
        BY <1>1, <2>1
  <2> QED
        BY <2>2, <2>3, <2>4
<1> QED
    BY <1>2, <1>3

\* A push of the server, of commits on tasks that nobody has under a lease.
LEMMA ServerRunPush ==
    ASSUME Typed, InSync, NEW k \in CloneStates, NEW up \in BOOLEAN,
           Agrees(k), LeavesClosed(k), k.behind = clone[Server].behind, Push(Server, k, up)
    PROVE  /\ clone'[Server].head = k.head /\ clone'[Server].work = k.work
           /\ clone'[Server].ahead \subseteq k.ahead
           /\ \A b \in Agents : Keeps(b) /\ clone[b].behind \subseteq clone'[b].behind
           /\ \A t \in Tasks : origin'[t] # origin[t] =>
                 /\ t \in k.ahead
                 /\ origin[t].status \notin Closed
                 /\ \A b \in Agents : t \in clone'[b].behind
<1>1. Server \in Clones /\ \A a \in Agents : a \in Clones \ {Server}
      BY QueueAssumption DEF Clones
<1>2. TypeOK
      BY DEF Typed
<1>3. /\ clone'[Server].head = k.head /\ clone'[Server].work = k.work
      /\ \A b \in Agents : Keeps(b)
      BY <1>1, <1>2, PushKeeps
<1>4. CASE clone'[Server] = k /\ origin' = origin
           /\ \A d \in Clones \ {Server} : clone'[d] = clone[d]
      BY <1>1, <1>3, <1>4
<1>5. CASE /\ clone'[Server].ahead = {} /\ k.behind = {}
           /\ \A t \in Tasks : origin'[t] = IF t \in k.ahead THEN k.head[t] ELSE origin[t]
           /\ \A d \in Clones \ {Server} : clone'[d].behind = clone[d].behind \cup k.ahead
      BY <1>1, <1>3, <1>5 DEF LeavesClosed
<1> QED
    BY <1>1, <1>2, <1>4, <1>5, PushKeeps

LEMMA ServerRuns ==
    ASSUME Typed, Good, Runs, ServerStep
    PROVE  Runs' /\ DoneStays
<1> USE DEF Good, Runs
<1>1. /\ clone \in [Clones -> CloneStates] /\ Server \in Clones
      /\ \A a \in Agents : a \in Clones \ {Server}
      /\ TypeOK
      BY QueueAssumption DEF Typed, TypeOK, CloneStates, Clones
\* A step that leaves origin and the agents' clones alone.
<1>2. ASSUME UNCHANGED <<origin, outlived>>,
             \A b \in Agents : clone'[b] = clone[b],
             \A b \in Agents : agent'[b] = agent[b] \/ agent'[b].step \notin InSession
      PROVE  OwnCommits' /\ DoneKept' /\ DoneStays
      BY <1>2, AgentsWait DEF Keeps
<1>3. ASSUME UNCHANGED <<origin, outlived>>,
             \A b \in Agents : clone'[b] = clone[b],
             \A b \in Agents : \/ agent'[b] = agent[b]
                               \/ agent'[b].step \notin AtWork \cup {"closing"},
             \A t \in Tasks \ outlived :
                (\E a \in Agents : WorksOn(a, t)) =>
                   /\ lease'[t] = lease[t]
                   /\ t \notin clone'[Server].ahead
                   /\ clone'[Server].work[t].status \in Recorded
                   /\ desk'.step = "push" => desk'.task # t
      PROVE  RunHeld'
  <2> SUFFICES ASSUME NEW a \in Agents, NEW t \in Tasks, t \notin outlived', WorksOn(a, t)'
               PROVE  Held(a, t)'
      BY DEF RunHeld
  <2>1. t \notin outlived /\ WorksOn(a, t) /\ agent'[a] = agent[a]
      BY <1>3 DEF WorksOn
  <2> QED
      BY <1>3, <2>1, RunsGoOn DEF Keeps
<1>4. desk' = FreeDesk => ClaimLeased'
      BY DEF FreeDesk, ClaimLeased
<1>5. ASSUME NEW up \in BOOLEAN, PullQueue(up) PROVE Runs' /\ DoneStays
  <2>1. /\ UNCHANGED <<origin, lease, agent, outlived>>
        /\ Pull(Server, up) /\ desk'.step = "scan"
        BY <1>5 DEF PullQueue, Typed, TypeOK
  <2>2. /\ \A t \in Tasks : clone'[Server].work[t] \in {clone[Server].work[t], origin[t]}
        /\ \A b \in Agents : clone'[b] = clone[b]
        /\ clone'[Server].ahead = clone[Server].ahead
        BY <1>1, <2>1, PullWork, PullKeeps
  <2>3. RunHeld'
        BY <1>3, <2>1, <2>2 DEF RunHeld, Held
  <2>4. ClaimLeased'
        BY <2>1 DEF ClaimLeased
  <2> QED
        BY <1>2, <2>1, <2>2, <2>3, <2>4
<1>6. ASSUME NEW heard \in BOOLEAN, HandOut(heard) PROVE Runs' /\ DoneStays
  <2> DEFINE t == desk.task
  <2>1. /\ UNCHANGED <<lease, outlived>> /\ desk' = FreeDesk /\ desk.step = "push"
        /\ Push(Server, clone[Server], TRUE) /\ CanPush(Server, TRUE)
        /\ t \in Tasks /\ desk.agent \in Agents /\ t \in clone[Server].ahead
        BY <1>6 DEF HandOut, Typed, HasTask, ClaimInHand
  <2>2. /\ Agrees(clone[Server]) /\ LeavesClosed(clone[Server])
        /\ clone[Server] \in CloneStates
        BY <1>1 DEF InSync, ServerOpen
  <2>3. /\ clone'[Server].work = clone[Server].work
        /\ clone'[Server].ahead \subseteq clone[Server].ahead
        /\ \A b \in Agents : Keeps(b) /\ clone[b].behind \subseteq clone'[b].behind
        /\ \A u \in Tasks : origin'[u] # origin[u] =>
              /\ u \in clone[Server].ahead
              /\ origin[u].status \notin Closed
              /\ \A b \in Agents : u \in clone'[b].behind
        BY <2>1, <2>2, ServerRunPush
  \* The claim itself goes through.
  <2>4. /\ origin'[t] = clone[Server].head[t] /\ clone'[Server].ahead = {}
        /\ \A b \in Agents : t \in clone'[b].behind
    <3>1. /\ origin' = [u \in Tasks |-> IF u \in clone[Server].ahead
                                       THEN clone[Server].head[u] ELSE origin[u]]
          /\ clone' = [d \in Clones |->
                IF d = Server THEN [clone[Server] EXCEPT !.ahead = {}]
                ELSE [clone[d] EXCEPT !.behind = @ \cup clone[Server].ahead]]
          BY <2>1 DEF Push
    <3>2. \A b \in Agents : clone'[b].behind = clone[b].behind \cup clone[Server].ahead
          BY <1>1, <3>1 DEF CloneStates
    <3> QED
          BY <1>1, <2>1, <3>1, <3>2 DEF CloneStates
  <2>5. \A b \in Agents : \/ agent'[b] = agent[b]
                          \/ agent'[b].step \notin AtWork \cup {"closing"}
                          \/ /\ b = desk.agent
                             /\ agent'[b].step = "handed" /\ agent'[b].task = t
        BY <1>1, <1>6, <2>1 DEF HandOut, Answer, TypeOK, AtWork
  <2>6. OwnCommits' /\ DoneKept' /\ DoneStays
        BY <2>1, <2>3, <2>5, AgentsWait DEF InSession, AtWork
  <2>7. RunHeld'
    <3> SUFFICES ASSUME NEW a \in Agents, NEW u \in Tasks, u \notin outlived', WorksOn(a, u)'
                 PROVE  Held(a, u)'
        BY DEF RunHeld
    <3>1. CASE agent'[a] = agent[a]
      <4>1. Held(a, u) /\ WorksOn(a, u) /\ u \notin outlived
            BY <2>1, <3>1 DEF RunHeld, WorksOn
      <4>2. u # t /\ u \notin clone[Server].ahead
            BY <2>1, <4>1 DEF Held
      <4>3. \A b \in Agents : agent'[b] = agent[b] \/ agent'[b].step # "closing"
            BY <2>5
      <4> QED
            BY <2>1, <2>3, <2>4, <3>1, <4>1, <4>2, <4>3, RunsGoOn DEF Held, FreeDesk
    <3>2. CASE a = desk.agent /\ agent'[a].step = "handed" /\ agent'[a].task = t
      <4>1. u = t /\ t \notin outlived
            BY <2>1, <3>2 DEF WorksOn
      <4>2. lease'[t] = a /\ origin'[t].status = "claimed"
            BY <2>1, <2>4, <3>2, <4>1 DEF ClaimLeased
      <4>3. t \notin clone'[Server].ahead /\ clone'[Server].work[t].status = "claimed"
            BY <2>1, <2>3, <2>4 DEF ClaimInHand
      <4> QED
            BY <2>1, <2>4, <3>2, <4>1, <4>2, <4>3 DEF Held, Recorded, FreeDesk
    <3> QED
        BY <2>5, <3>1, <3>2 DEF WorksOn
  <2> QED
        BY <1>4, <2>1, <2>6, <2>7
<1>7. ASSUME NEW up \in BOOLEAN, RefuseClaim(up) PROVE Runs' /\ DoneStays
  <2> DEFINE f == File(clone[Server].work[desk.task].pre)
             k == [clone[Server] EXCEPT !.work = [@ EXCEPT ![desk.task] = f]]
  <2>1. /\ desk.agent \in Agents /\ desk.task \in Tasks /\ desk.step = "push"
        /\ UNCHANGED <<origin, outlived>> /\ desk' = FreeDesk
        /\ lease' = [lease EXCEPT ![desk.task] = None]
        BY <1>7 DEF RefuseClaim, Typed, HasTask
  <2>2. clone' = [clone EXCEPT ![Server] = k]
        BY <1>1, <1>7 DEF RefuseClaim, CloneStates
  <2>3. /\ k.ahead = clone[Server].ahead
        /\ \A t \in Tasks \ {desk.task} : k.work[t] = clone[Server].work[t]
        BY <1>1, <2>1 DEF CloneStates
  <2> HIDE DEF k
  <2>4. clone'[Server] = k /\ \A b \in Agents : clone'[b] = clone[b]
        BY <1>1, <2>2
  <2>5. \A b \in Agents : agent'[b] = agent[b] \/ agent'[b].step = "idle"
        BY <1>1, <1>7, <2>1 DEF RefuseClaim, Answer, TypeOK
  <2>6. RunHeld'
        BY <1>1, <1>3, <2>1, <2>3, <2>4, <2>5 DEF RunHeld, Held, FreeDesk, AtWork, TypeOK
  <2> QED
        BY <1>2, <1>4, <2>1, <2>4, <2>5, <2>6 DEF InSession
<1>8. ASSUME NEW t \in Tasks, ClaimTask(t) PROVE Runs' /\ DoneStays
  <2> DEFINE f == [status |-> "claimed", pre |-> clone[Server].work[t].status]
             k == Committed(Server, t, f)
  <2>1. f \in Files /\ f.status = "claimed" /\ clone[Server].work[t].status \in Open
        BY <1>8 DEF ClaimTask, Eligible, Files
  <2>2. clone' = [clone EXCEPT ![Server] = k]
        BY <1>8 DEF ClaimTask
  <2> HIDE DEF f
  <2>3. /\ k.head = [clone[Server].head EXCEPT ![t] = f]
        /\ k.work = [clone[Server].work EXCEPT ![t] = f]
        /\ k.ahead = clone[Server].ahead \cup {t}
        BY <1>1, <2>1, CommittedTyped
  <2> HIDE DEF k
  <2>4. clone'[Server] = k /\ \A b \in Agents : clone'[b] = clone[b]
        BY <1>1, <2>2
  <2>5. /\ UNCHANGED <<origin, agent, outlived>>
        /\ lease' = [lease EXCEPT ![t] = desk.agent]
        /\ desk'.task = t /\ desk'.agent = desk.agent
        BY <1>1, <1>8 DEF ClaimTask, TypeOK
  <2>6. \A a \in Agents : ~WorksOn(a, t) \/ t \in outlived
        BY <2>1 DEF RunHeld, Held, Recorded, Open
  <2>7. RunHeld'
        BY <1>1, <1>3, <2>3, <2>4, <2>5, <2>6 DEF RunHeld, Held, TypeOK, CloneStates
  <2>8. ClaimLeased'
        BY <1>1, <2>1, <2>3, <2>4, <2>5 DEF ClaimLeased, TypeOK, CloneStates
  <2> QED
        BY <1>2, <2>4, <2>5, <2>7, <2>8
<1>9. ASSUME NEW t \in Tasks, NEW up \in BOOLEAN, RevertExpired(t, up)
      PROVE  Runs' /\ DoneStays
  <2> DEFINE f == File(clone[Server].work[t].pre)
             k == Committed(Server, t, f)
  <2>1. /\ clone[Server].work[t] \in Files /\ clone[Server].work[t].status = "claimed"
        /\ lease[t] = None
        /\ UNCHANGED <<lease, agent, desk, outlived>> /\ desk.step = "scan"
        BY <1>1, <1>9 DEF RevertExpired, LeaseExpired, CloneStates
  <2>2. f \in Files /\ f.status \in Open
        BY <2>1, FileTyped DEF Files, Open, Statuses, File
  <2>3. Push(Server, k, up)
        BY <1>9 DEF RevertExpired, SaveAndCommit
  <2> HIDE DEF f
  <2>4. /\ k.head = [clone[Server].head EXCEPT ![t] = f]
        /\ k.work = [clone[Server].work EXCEPT ![t] = f]
        /\ k.ahead = clone[Server].ahead \cup {t}
        BY <1>1, <2>2, CommittedTyped
  <2>5. /\ k \in CloneStates /\ Agrees(k) /\ LeavesClosed(k)
        /\ k.behind = clone[Server].behind
        BY <2>1, <2>2, ServerCommit DEF Closed, Open
  <2> HIDE DEF k
  <2>6. /\ clone'[Server].work = k.work /\ clone'[Server].ahead \subseteq k.ahead
        /\ \A b \in Agents : Keeps(b) /\ clone[b].behind \subseteq clone'[b].behind
        /\ \A u \in Tasks : origin'[u] # origin[u] =>
              /\ u \in k.ahead
              /\ origin[u].status \notin Closed
              /\ \A b \in Agents : u \in clone'[b].behind
        BY <2>3, <2>5, ServerRunPush
  <2>7. OwnCommits' /\ DoneKept' /\ DoneStays
        BY <2>1, <2>6, AgentsWait
  <2>8. RunHeld'
    <3> SUFFICES ASSUME NEW a \in Agents, NEW u \in Tasks, u \notin outlived, WorksOn(a, u)
                 PROVE  Held(a, u)'
        BY <2>1 DEF RunHeld, WorksOn
    <3>1. Held(a, u)
        BY DEF RunHeld
    <3>2. u # t
        BY <2>1, <3>1, QueueAssumption DEF Held
    <3>3. u \notin k.ahead /\ k.work[u] = clone[Server].work[u]
        BY <1>1, <2>4, <3>1, <3>2 DEF Held, CloneStates
    <3> QED
        BY <2>1, <2>6, <3>1, <3>3, RunsGoOn DEF Held
  <2>9. ClaimLeased'
        BY <2>1 DEF ClaimLeased
  <2> QED
        BY <2>7, <2>8, <2>9
<1>10. CASE NothingReady \/ ServerCrash
  <2>1. /\ UNCHANGED <<origin, clone, lease, outlived>> /\ desk' = FreeDesk
        /\ desk.agent \in Agents /\ Answer(desk.agent, "idle", None)
        BY <1>10 DEF NothingReady, ServerCrash, Typed, HasTask
  <2>2. \A b \in Agents : agent'[b] = agent[b] \/ agent'[b].step = "idle"
        BY <1>1, <2>1 DEF Answer, TypeOK
  <2>3. RunHeld'
        BY <1>3, <2>1, <2>2 DEF RunHeld, Held, FreeDesk, AtWork
  <2> QED
        BY <1>2, <1>4, <2>1, <2>2, <2>3 DEF InSession
<1>11. ASSUME NEW t \in Tasks, NEW action \in DOMAIN TaskActions, TaskAction(t, action)
       PROVE Runs' /\ DoneStays
  <2> DEFINE f == File(TaskActions[action].to)
             k == [clone[Server] EXCEPT !.work = [@ EXCEPT ![t] = f]]
  <2>1. clone[Server].work[t].status \notin Recorded
        BY <1>11 DEF TaskAction, TaskActions, Recorded
  <2>2. clone' = [clone EXCEPT ![Server] = k]
        BY <1>1, <1>11 DEF TaskAction, CloneStates
  <2>3. /\ k.ahead = clone[Server].ahead
        /\ \A u \in Tasks \ {t} : k.work[u] = clone[Server].work[u]
        BY <1>1 DEF CloneStates
  <2> HIDE DEF k, f
  <2>4. clone'[Server] = k /\ \A b \in Agents : clone'[b] = clone[b]
        BY <1>1, <2>2
  <2>5. UNCHANGED <<origin, lease, agent, outlived>> /\ desk' = FreeDesk
        BY <1>11 DEF TaskAction
  <2>6. RunHeld'
        BY <1>3, <2>1, <2>3, <2>4, <2>5 DEF RunHeld, Held, FreeDesk
  <2> QED
        BY <1>2, <1>4, <2>4, <2>5, <2>6
<1> QED
    BY <1>5, <1>6, <1>7, <1>8, <1>9, <1>10, <1>11 DEF ServerStep

-----------------------------------------------------------------------------
(* The agents' steps *)

\* The run of task t commits t as f; the push goes through from a clone that
\* origin has nothing on, and is news to every other clone.
LEMMA RunCommit ==
    ASSUME Typed, Good, NEW a \in Agents, NEW t \in Tasks, NEW f \in Files,
           NEW up \in BOOLEAN, Push(a, Committed(a, t, f), up), clone[a].ahead \subseteq {t}
    PROVE  /\ clone'[a].ahead \subseteq {t} /\ clone'[a].work[t] = f
           /\ \A c \in Clones \ {a} : Keeps(c) /\ clone[c].behind \subseteq clone'[c].behind
           /\ \A u \in Tasks : origin'[u] # origin[u] =>
                 /\ u = t /\ origin'[u] = f /\ u \notin clone[a].behind
                 /\ \A c \in Clones \ {a} : u \in clone'[c].behind
<1> DEFINE k == Committed(a, t, f)
           old == clone[a]
<1>1. old \in CloneStates /\ a \in Clones /\ TypeOK /\ InSync
      BY DEF Typed, TypeOK, CloneStates, Clones, Good
<1>2. /\ k \in CloneStates
      /\ k.head = [old.head EXCEPT ![t] = f] /\ k.work = [old.work EXCEPT ![t] = f]
      /\ k.ahead = old.ahead \cup {t} /\ k.behind = old.behind
      BY <1>1, CommittedTyped
<1>3. Agrees(old)
      BY <1>1 DEF InSync
<1>4. old.head \in [Tasks -> Files] /\ old.work \in [Tasks -> Files] /\ old.ahead \subseteq Tasks
      BY <1>1 DEF CloneStates
<1>5. Push(a, k, up) /\ k.behind = clone[a].behind /\ k.ahead = {t}
      BY <1>2
<1> HIDE DEF k, old
<1>6. Agrees(k)
      BY <1>2, <1>3, <1>4 DEF Agrees
<1>7. k.work[t] = f /\ k.head[t] = f
      BY <1>2, <1>4
<1>8. clone'[a].work = k.work /\ \A c \in Clones \ {a} : Keeps(c)
      BY <1>1, <1>2, <1>5, <1>6, PushKeeps
<1>9. \/ /\ clone'[a] = k /\ origin' = origin
         /\ \A d \in Clones \ {a} : clone'[d] = clone[d]
      \/ /\ clone'[a].ahead = {} /\ k.behind = {}
         /\ \A u \in Tasks : origin'[u] = IF u \in k.ahead THEN k.head[u] ELSE origin[u]
         /\ \A d \in Clones \ {a} : clone'[d].behind = clone[d].behind \cup k.ahead
  <2>1. \A c \in Clones, l \in CloneStates :
           Agrees(l) /\ l.behind = clone[c].behind /\ Push(c, l, up) =>
              \/ /\ clone'[c] = l /\ origin' = origin
                 /\ \A d \in Clones \ {c} : clone'[d] = clone[d]
              \/ /\ clone'[c].ahead = {} /\ l.behind = {}
                 /\ \A u \in Tasks : origin'[u] = IF u \in l.ahead THEN l.head[u] ELSE origin[u]
                 /\ \A d \in Clones \ {c} : clone'[d].behind = clone[d].behind \cup l.ahead
    <3> TAKE c \in Clones, l \in CloneStates
    <3> HAVE Agrees(l) /\ l.behind = clone[c].behind /\ Push(c, l, up)
    <3> QED
        BY <1>1, PushKeeps
  <2> QED
        BY <1>1, <1>2, <1>5, <1>6, <2>1
<1>10. CASE clone'[a] = k /\ origin' = origin
           /\ \A d \in Clones \ {a} : clone'[d] = clone[d]
      BY <1>5, <1>7, <1>8, <1>10
<1>11. CASE /\ clone'[a].ahead = {} /\ k.behind = {}
            /\ \A u \in Tasks : origin'[u] = IF u \in k.ahead THEN k.head[u] ELSE origin[u]
            /\ \A d \in Clones \ {a} : clone'[d].behind = clone[d].behind \cup k.ahead
      BY <1>5, <1>7, <1>8, <1>11
<1> QED
    BY <1>9, <1>10, <1>11

\* What is left to show of a step of one agent: what it changes in origin it
\* changes as part of its session, and what it is at work on was its task before.
LEMMA AgentWorks ==
    ASSUME Typed, Runs, NEW a \in Agents,
           \A b \in Agents \ {a} : agent'[b] = agent[b],
           UNCHANGED lease, desk'.step = "push" => desk' = desk,
           outlived \subseteq outlived',
           \A c \in Clones \ {a} : Keeps(c) /\ clone[c].behind \subseteq clone'[c].behind,
           \A t \in Tasks : origin'[t] # origin[t] =>
               /\ agent[a].step \in InSession /\ t = agent[a].task
               /\ agent'[a].step \notin {"handed", "pulled"}
               /\ t \notin clone[a].behind /\ origin'[t] = clone'[a].work[t]
               /\ \A c \in Clones \ {a} : t \in clone'[c].behind,
           agent'[a].step \in AtWork =>
               /\ agent'[a].task = agent[a].task
               /\ agent[a].step \in AtWork \/ agent[a].task \in outlived'
               /\ \/ agent'[a].step \in {"handed", "pulled"}
                  \/ agent[a].task \in outlived'
                  \/ clone'[a].work[agent[a].task].status = "in_progress",
           agent'[a].step = "closing" =>
               agent[a].step = "session" /\ agent'[a].task = agent[a].task,
           agent'[a].step \in InSession => clone'[a].ahead \subseteq {agent'[a].task},
           agent[a].step = "closing" =>
               \/ agent'[a].step = "report"
               \/ clone'[a].work[agent[a].task] = clone[a].work[agent[a].task]
    PROVE  Runs' /\ DoneStays
<1> USE DEF Runs
<1>1. Server \in Clones \ {a} /\ \A b \in Agents \ {a} : b \in Clones \ {a}
      BY QueueAssumption DEF Clones
\* What a does in its session is of no concern to the run of another agent.
<1>2. ASSUME NEW b \in Agents \ {a}, NEW t \in Tasks \ outlived, WorksOn(b, t)
      PROVE  origin'[t] = origin[t] /\ ~(agent[a].step = "session" /\ agent[a].task = t)
  <2>1. Held(b, t) /\ ~WorksOn(a, t)
        BY <1>2 DEF RunHeld, Held
  <2> QED
        BY <2>1 DEF Held, WorksOn, AtWork, InSession, Closing
<1>3. ASSUME NEW t \in Tasks \ outlived, origin[t].status = "done", origin'[t] # origin[t]
      PROVE  Closing(a, t)
  <2>1. ~WorksOn(a, t)
        BY <1>3 DEF RunHeld, Held, Recorded
  <2> QED
        BY <1>3, <2>1 DEF WorksOn, AtWork, InSession, Closing
<1>4. OwnCommits'
      BY <1>1 DEF OwnCommits, Keeps
<1>5. ClaimLeased'
      BY <1>1 DEF ClaimLeased, Keeps
<1>6. RunHeld'
  <2> SUFFICES ASSUME NEW b \in Agents, NEW t \in Tasks, t \notin outlived', WorksOn(b, t)'
               PROVE  Held(b, t)'
      BY DEF RunHeld
  <2>1. CASE b # a
    <3>1. WorksOn(b, t) /\ Held(b, t) /\ agent'[b] = agent[b] /\ Keeps(b)
          BY <1>1, <2>1 DEF RunHeld, WorksOn
    <3>2. origin'[t] = origin[t] /\ \A c \in Agents : Closing(c, t)' => Closing(c, t) /\ c # a
          BY <1>2, <2>1, <3>1 DEF Closing
    <3> QED
          BY <1>1, <3>1, <3>2 DEF Held, Keeps
  <2>2. CASE b = a
    <3>1. t = agent[a].task /\ WorksOn(a, t) /\ Held(a, t)
          BY <2>2 DEF RunHeld, WorksOn
    <3>2. origin'[t].status \in Recorded
          BY <2>2, <3>1 DEF Held, WorksOn, AtWork, Recorded
    <3>3. \A c \in Agents : Closing(c, t)' => Closing(c, t) /\ c # a
          BY <2>2 DEF Closing, WorksOn, AtWork
    <3> QED
          BY <1>1, <2>2, <3>1, <3>2, <3>3 DEF Held, Keeps, WorksOn
  <2> QED
      BY <2>1, <2>2
<1>7. DoneKept'
  <2> SUFFICES ASSUME NEW b \in Agents, NEW t \in Tasks, t \notin outlived', Closing(b, t)',
                      t \notin clone'[b].behind, origin'[t].status = "done"
               PROVE  clone'[b].work[t].status = "done"
      BY DEF DoneKept
  <2>1. CASE b # a
        BY <1>1, <2>1 DEF DoneKept, Closing, Keeps
  <2>2. CASE b = a
    <3>1. WorksOn(a, t)
          BY <2>2 DEF Closing, WorksOn, AtWork
    <3>2. origin[t].status # "done"
          BY <3>1 DEF RunHeld, Held, Recorded
    <3> QED
          BY <2>2, <3>2
  <2> QED
      BY <2>1, <2>2
<1>8. DoneStays
  <2> SUFFICES ASSUME NEW t \in Tasks \ outlived, origin[t].status = "done",
                      origin'[t].status # "done"
               PROVE  agent[a] = [step |-> "closing", task |-> t] /\ agent'[a].step = "report"
      BY DEF DoneStays
  <2>1. Closing(a, t) /\ t \notin clone[a].behind /\ origin'[t] = clone'[a].work[t]
        BY <1>3
  <2>2. clone[a].work[t].status = "done"
        BY <2>1 DEF DoneKept
  <2>3. agent[a] = [step |-> "closing", task |-> t]
        BY <2>1 DEF Closing, Typed, TypeOK
  <2> QED
        BY <2>1, <2>2, <2>3 DEF Closing
<1> QED
    BY <1>4, <1>5, <1>6, <1>7, <1>8

LEMMA SessionRuns ==
    ASSUME Typed, Good, Runs, NEW a \in Agents, SessionStep(a)
    PROVE  Runs' /\ DoneStays
<1> DEFINE task == agent[a].task
<1>1. clone \in [Clones -> CloneStates] /\ a \in Clones
      BY DEF Typed, TypeOK, CloneStates, Clones
<1>2. agent[a].step \in InSession => task \in Tasks /\ clone[a].ahead \subseteq {task}
      BY DEF Typed, HasTask, Busy, AtWork, InSession, Runs, OwnCommits
<1>3. ASSUME NEW step, Goto(a, step)
      PROVE  /\ \A b \in Agents \ {a} : agent'[b] = agent[b]
             /\ agent'[a].step = step /\ agent'[a].task = task
      BY <1>3 DEF Goto, Typed, TypeOK
<1>4. agent[a].step \in {"stage", "session"}
         => task \in outlived \/ clone[a].work[task].status = "in_progress"
      BY <1>2 DEF Runs, RunHeld, WorksOn, AtWork, Held, InSession
<1>5. CASE OpenSession(a)
  <2>1. UNCHANGED <<origin, clone, lease, desk, outlived>> /\ agent[a].step = "stage"
        BY <1>5 DEF OpenSession
  <2>2. agent'[a].step = "session" /\ \A c \in Clones : Keeps(c)
        BY <1>3, <1>5, <2>1 DEF OpenSession, Keeps
  <2> QED
        BY <1>2, <1>3, <1>4, <1>5, <2>1, <2>2, AgentWorks DEF OpenSession, AtWork, InSession
<1>6. CASE SessionLeavesScratch(a)
  <2> DEFINE k == [clone[a] EXCEPT !.scratch = TRUE]
  <2>1. /\ clone' = [clone EXCEPT ![a] = k]
        /\ k.work = clone[a].work /\ k.ahead = clone[a].ahead
        BY <1>1, <1>6 DEF SessionLeavesScratch, CloneStates
  <2> HIDE DEF k
  <2>2. /\ clone'[a].work = clone[a].work /\ clone'[a].ahead = clone[a].ahead
        /\ \A c \in Clones \ {a} : Keeps(c) /\ clone[c].behind \subseteq clone'[c].behind
        BY <1>1, <2>1 DEF Keeps
  <2>3. UNCHANGED <<origin, lease, agent, desk, outlived>> /\ agent[a].step = "session"
        BY <1>6 DEF SessionLeavesScratch
  <2> QED
        BY <1>2, <1>4, <2>2, <2>3, AgentWorks DEF AtWork, InSession
\* Every other step of the session is a commit.
<1>7. ASSUME NEW f \in Files, NEW up \in BOOLEAN, agent[a].step \in InSession,
             Push(a, Committed(a, task, f), up), UNCHANGED <<lease, desk>>,
             outlived \subseteq outlived', NEW step, Goto(a, step),
             \/ step = "report"
             \/ step = "closing" /\ agent[a].step = "session"
             \/ /\ step = "session" /\ agent[a].step = "session"
                /\ f.status = "in_progress"
             \/ /\ step = "stage" /\ f = clone[a].work[task]
                /\ agent[a].step = "session" \/ task \in outlived'
      PROVE  Runs' /\ DoneStays
  <2>1. /\ clone'[a].ahead \subseteq {task} /\ clone'[a].work[task] = f
        /\ \A c \in Clones \ {a} : Keeps(c) /\ clone[c].behind \subseteq clone'[c].behind
        /\ \A u \in Tasks : origin'[u] # origin[u] =>
              /\ u = task /\ origin'[u] = f /\ u \notin clone[a].behind
              /\ \A c \in Clones \ {a} : u \in clone'[c].behind
        BY <1>2, <1>7, RunCommit
  <2>2. agent'[a].step = step /\ agent'[a].task = task
        /\ \A b \in Agents \ {a} : agent'[b] = agent[b]
        BY <1>3, <1>7
  <2>3. agent'[a].step \in AtWork =>
              /\ agent[a].step \in AtWork \/ task \in outlived'
              /\ task \in outlived' \/ clone'[a].work[task].status = "in_progress"
        BY <1>4, <1>7, <2>1, <2>2 DEF AtWork
  <2>4. \A u \in Tasks : origin'[u] # origin[u] =>
              /\ agent[a].step \in InSession /\ u = task
              /\ agent'[a].step \notin {"handed", "pulled"}
              /\ u \notin clone[a].behind /\ origin'[u] = clone'[a].work[u]
              /\ \A c \in Clones \ {a} : u \in clone'[c].behind
        BY <1>7, <2>1, <2>2
  <2>5. agent[a].step = "closing" =>
              \/ agent'[a].step = "report"
              \/ clone'[a].work[task] = clone[a].work[task]
        BY <1>7, <2>1, <2>2
  <2>6. agent'[a].step = "closing" => agent[a].step = "session"
        BY <1>7, <2>2
  <2> QED
        BY <1>7, <2>1, <2>2, <2>3, <2>4, <2>5, <2>6, AgentWorks
<1>8. ASSUME NEW s \in Statuses, NEW up \in BOOLEAN, SessionCommits(a, s, up)
      PROVE  Runs' /\ DoneStays
  <2>1. File(s) \in Files /\ (s = "in_progress" => File(s).status = "in_progress")
        BY <1>8, StatusTyped DEF SessionCommits
  <2> DEFINE step == IF s = "in_progress" THEN "session" ELSE "closing"
  <2>2. /\ Push(a, Committed(a, task, File(s)), up) /\ Goto(a, step)
        /\ UNCHANGED <<lease, desk, outlived>> /\ agent[a].step = "session"
        BY <1>8 DEF SessionCommits, SaveAndCommit
  <2> QED
        BY <1>7, <2>1, <2>2 DEF InSession
<1>9. ASSUME NEW how \in Endings, NEW up \in BOOLEAN, EndSession(a, how, up)
      PROVE  Runs' /\ DoneStays
  <2>1. File(Outcome(a, how)) \in Files
        BY OutcomeStatus, StatusTyped
  <2>2. /\ Push(a, Committed(a, task, File(Outcome(a, how))), up) /\ Goto(a, "report")
        /\ UNCHANGED <<lease, desk, outlived>> /\ agent[a].step \in InSession
        BY <1>9 DEF EndSession, SaveAndCommit, InSession
  <2> QED
        BY <1>7, <2>1, <2>2
<1>10. ASSUME NEW up \in BOOLEAN, NextStage(a, up) PROVE Runs' /\ DoneStays
  <2> DEFINE f == clone[a].work[task]
  <2>1. /\ Push(a, Committed(a, task, f), up) /\ Goto(a, "stage")
        /\ UNCHANGED <<lease, desk>> /\ agent[a].step \in InSession
        /\ outlived \subseteq outlived'
        /\ agent[a].step = "session" \/ task \in outlived'
        BY <1>10 DEF NextStage, InSession
  <2>2. f \in Files
        BY <1>1, <1>2, <2>1 DEF CloneStates
  <2> QED
        BY <1>7, <2>1, <2>2
<1> QED
    BY <1>5, <1>6, <1>8, <1>9, <1>10 DEF SessionStep


LEMMA AgentRuns ==
    ASSUME Typed, Good, Runs, NEW a \in Agents, AgentStep(a)
    PROVE  Runs' /\ DoneStays
<1> DEFINE task == agent[a].task
<1>1. /\ clone \in [Clones -> CloneStates] /\ a \in Clones /\ Server \in Clones
      /\ TypeOK /\ \A b \in Agents : b \in Clones \ {Server}
      BY QueueAssumption DEF Typed, TypeOK, CloneStates, Clones
<1>2. agent[a].step \in Busy => task \in Tasks
      BY DEF Typed, HasTask
<1>3. ASSUME NEW step, Goto(a, step)
      PROVE  /\ \A b \in Agents \ {a} : agent'[b] = agent[b]
             /\ agent'[a].step = step /\ agent'[a].task = task
      BY <1>3 DEF Goto, Typed, TypeOK
\* A step outside the session, into a state that is not at work either.
<1>4. ASSUME UNCHANGED <<origin, lease, outlived>>, desk'.step = "push" => desk' = desk,
             \A b \in Agents \ {a} : agent'[b] = agent[b],
             agent'[a].step \notin AtWork \cup InSession,
             agent[a].step # "closing" \/ UNCHANGED clone,
             \A c \in Clones \ {a} : clone'[c] = clone[c]
      PROVE  Runs' /\ DoneStays
      BY <1>4, AgentWorks DEF Keeps, InSession
<1>5. CASE AskClaim(a)
  <2>1. /\ \A b \in Agents \ {a} : agent'[b] = agent[b]
        /\ agent'[a].step = "asking" /\ desk'.step = "pull"
        BY <1>1, <1>5 DEF AskClaim, TypeOK
  <2> QED
        BY <1>4, <1>5, <2>1 DEF AskClaim, AtWork, InSession
<1>6. ASSUME NEW up \in BOOLEAN, PullTask(a, up) PROVE Runs' /\ DoneStays
  <2>1. /\ UNCHANGED <<origin, lease, desk, outlived>> /\ agent[a].step = "handed"
        /\ agent'[a].step = "pulled" /\ agent'[a].task = task
        /\ \A b \in Agents \ {a} : agent'[b] = agent[b]
        BY <1>3, <1>6 DEF PullTask
  <2>2. \A c \in Clones \ {a} : Keeps(c) /\ clone[c].behind \subseteq clone'[c].behind
        BY <1>1, <1>6, PullWork DEF PullTask, Keeps
  <2> QED
        BY <2>1, <2>2, AgentWorks DEF AtWork, InSession
\* The agent saves its task file without committing it.
<1>7. ASSUME NEW f, UNCHANGED origin, task \in Tasks,
             clone' = [clone EXCEPT ![a].work[task] = f]
      PROVE  /\ clone'[a].work[task] = f /\ clone'[a].ahead = clone[a].ahead
             /\ \A c \in Clones \ {a} : clone'[c] = clone[c]
  <2> DEFINE k == [clone[a] EXCEPT !.work = [@ EXCEPT ![task] = f]]
  <2>1. clone' = [clone EXCEPT ![a] = k]
        BY <1>1, <1>7 DEF CloneStates
  <2>2. k.work[task] = f /\ k.ahead = clone[a].ahead
        BY <1>1, <1>7 DEF CloneStates
  <2> HIDE DEF k
  <2> QED
        BY <1>1, <2>1, <2>2
<1>8. CASE RefuseTask(a)
  <2>1. /\ UNCHANGED <<origin, lease, desk, outlived>> /\ agent[a].step = "pulled"
        /\ agent'[a].step = "report" /\ \A b \in Agents \ {a} : agent'[b] = agent[b]
        BY <1>3, <1>8 DEF RefuseTask
  <2>2. \A c \in Clones \ {a} : clone'[c] = clone[c]
        BY <1>2, <1>7, <1>8, <2>1 DEF RefuseTask, Busy, AtWork
  <2> QED
        BY <1>4, <2>1, <2>2 DEF AtWork, InSession
<1>9. ASSUME NEW up \in BOOLEAN, Preflight(a, up) PROVE Runs' /\ DoneStays
  <2>1. /\ UNCHANGED <<origin, lease, desk, outlived>> /\ agent[a].step = "pulled"
        /\ task \in Tasks
        BY <1>2, <1>9 DEF Preflight, Busy, AtWork
  <2>2. CASE PreflightOk(a, up)
    <3>1. /\ agent'[a].step = "stage" /\ agent'[a].task = task
          /\ \A b \in Agents \ {a} : agent'[b] = agent[b]
          BY <1>3, <1>9, <2>2 DEF Preflight
    <3>2. /\ clone'[a].work[task] = File("in_progress") /\ clone'[a].ahead = {}
          /\ \A c \in Clones \ {a} : clone'[c] = clone[c]
          BY <1>7, <1>9, <2>1, <2>2 DEF Preflight, PreflightOk
    <3> QED
          BY <2>1, <3>1, <3>2, AgentWorks DEF AtWork, InSession, Keeps, File
  <2>3. CASE ~PreflightOk(a, up)
    <3>1. UNCHANGED clone /\ agent'[a].step = "report"
          /\ \A b \in Agents \ {a} : agent'[b] = agent[b]
          BY <1>3, <1>9, <2>3 DEF Preflight
    <3> QED
          BY <1>4, <2>1, <3>1 DEF AtWork, InSession
  <2> QED
      BY <2>2, <2>3
<1>10. ASSUME NEW s \in Statuses, NEW up \in BOOLEAN, StopBeforeStage(a, s, up)
       PROVE  Runs' /\ DoneStays
  <2>1. /\ File(s) \in Files /\ task \in Tasks /\ clone[a].ahead \subseteq {task}
        BY <1>2, <1>10, StatusTyped
        DEF StopBeforeStage, Busy, AtWork, Runs, OwnCommits, InSession
  <2>2. /\ Push(a, Committed(a, task, File(s)), up) /\ agent[a].step = "stage"
        /\ UNCHANGED <<lease, desk, outlived>>
        /\ agent'[a].step = "report" /\ \A b \in Agents \ {a} : agent'[b] = agent[b]
        BY <1>3, <1>10 DEF StopBeforeStage, SaveAndCommit
  <2>3. /\ clone'[a].work[task] = File(s)
        /\ \A c \in Clones \ {a} : Keeps(c) /\ clone[c].behind \subseteq clone'[c].behind
        /\ \A u \in Tasks : origin'[u] # origin[u] =>
              /\ u = task /\ origin'[u] = File(s) /\ u \notin clone[a].behind
              /\ \A c \in Clones \ {a} : u \in clone'[c].behind
        BY <2>1, <2>2, RunCommit
  <2> QED
        BY <2>2, <2>3, AgentWorks DEF AtWork, InSession
\* The server pulls when the outcome is reported to it.
<1>11. ASSUME NEW up \in BOOLEAN, Report(a, up) PROVE Runs' /\ DoneStays
  <2>1. /\ UNCHANGED <<origin, lease, desk, outlived>> /\ desk = FreeDesk
        /\ Pull(Server, up)
        /\ \A b \in Agents : agent'[b] = agent[b] \/ agent'[b].step = "idle"
        BY <1>1, <1>11 DEF Report, TypeOK
  <2>2. /\ \A t \in Tasks : clone'[Server].work[t] \in {clone[Server].work[t], origin[t]}
        /\ \A b \in Agents : clone'[b] = clone[b]
        /\ clone'[Server].ahead = clone[Server].ahead
        BY <1>1, <2>1, PullWork, PullKeeps DEF Good
  <2>3. OwnCommits' /\ DoneKept' /\ DoneStays
        BY <2>1, <2>2, AgentsWait DEF Runs, Keeps, InSession
  <2>4. RunHeld'
    <3> SUFFICES ASSUME NEW b \in Agents, NEW t \in Tasks, t \notin outlived', WorksOn(b, t)'
                 PROVE  Held(b, t)'
        BY DEF RunHeld
    <3>1. /\ t \notin outlived /\ WorksOn(b, t) /\ agent'[b] = agent[b]
          /\ desk'.step # "push"
          BY <2>1 DEF WorksOn, AtWork, FreeDesk
    <3>2. RunHeld /\ Held(b, t)
          BY <3>1 DEF Runs, RunHeld
    <3> QED
          BY <2>1, <2>2, <3>1, <3>2, RunsGoOn DEF Held, Keeps
  <2>5. ClaimLeased'
        BY <2>1 DEF ClaimLeased, FreeDesk
  <2> QED
        BY <2>3, <2>4, <2>5 DEF Runs
<1>12. CASE AgentCrash(a) \/ AgentStart(a)
  <2>1. /\ \A b \in Agents \ {a} : agent'[b] = agent[b]
        /\ agent'[a].step \in {"off", "idle"}
    <3>1. CASE AgentCrash(a)
          BY <1>1, <3>1 DEF AgentCrash, TypeOK
    <3>2. CASE AgentStart(a)
          BY <1>3, <3>2 DEF AgentStart
    <3> QED
          BY <1>12, <3>1, <3>2
  <2> QED
        BY <1>4, <1>12, <2>1 DEF AgentCrash, AgentStart, AtWork, InSession
<1>13. CASE Repair(a)
  <2>1. /\ UNCHANGED <<origin, lease, agent, desk, outlived>>
        /\ agent[a].step \in {"off", "idle"}
        /\ \A c \in Clones \ {a} : clone'[c] = clone[c]
        BY <1>1, <1>13 DEF Repair
  <2> QED
        BY <1>4, <2>1 DEF AtWork, InSession
<1> QED
    BY <1>5, <1>6, <1>8, <1>9, <1>10, <1>11, <1>12, <1>13, SessionRuns DEF AgentStep

-----------------------------------------------------------------------------
(* Time and the developers *)

LEMMA OthersRun ==
    ASSUME Typed, Good, Runs, \/ \E t \in Tasks : LeaseEnds(t)
                              \/ \E p \in Tasks \cup {Code} : DeveloperPush(p)
    PROVE  Runs' /\ DoneStays
<1> USE DEF Runs
<1>1. /\ clone \in [Clones -> CloneStates] /\ Server \in Clones /\ TypeOK
      /\ \A a \in Agents : a \in Clones
      BY DEF Typed, TypeOK, CloneStates, Clones
\* A lease that ends under a run or a claim is one that both outlive.
<1>2. ASSUME NEW t \in Tasks, LeaseEnds(t) PROVE Runs' /\ DoneStays
  <2>1. /\ UNCHANGED <<origin, clone, agent, desk>> /\ outlived \subseteq outlived'
        /\ \A u \in Tasks \ {t} : lease'[u] = lease[u]
        /\ t \in outlived' \/ (~WorksOn(lease[t], t) /\ desk.task # t)
    <3> DEFINE inTime == ~WorksOn(lease[t], t) /\ desk.task # t
    <3>1. /\ UNCHANGED <<origin, clone, agent, desk>>
          /\ outlived' = IF inTime THEN outlived ELSE outlived \cup {t}
          /\ lease' = [lease EXCEPT ![t] = None]
          BY <1>2 DEF LeaseEnds
    <3> QED
        BY <1>1, <3>1 DEF TypeOK
  <2>2. OwnCommits' /\ DoneKept' /\ DoneStays
        BY <2>1 DEF OwnCommits, DoneKept, DoneStays, Closing
  <2>3. ClaimLeased'
    <3>1. desk.step = "push" => desk.task \in Tasks
          BY DEF Typed, HasTask
    <3> QED
          BY <2>1, <3>1 DEF ClaimLeased
  <2>4. RunHeld'
    <3> SUFFICES ASSUME NEW a \in Agents, NEW u \in Tasks, u \notin outlived', WorksOn(a, u)'
                 PROVE  Held(a, u)'
        BY DEF RunHeld
    <3>1. u \notin outlived /\ WorksOn(a, u) /\ Held(a, u)
          BY <2>1 DEF RunHeld, WorksOn
    <3>2. u # t
          BY <2>1, <3>1 DEF Held
    <3> QED
          BY <2>1, <3>1, <3>2 DEF Held, Closing
  <2> QED
        BY <2>2, <2>3, <2>4
\* Only a task that origin shows as blocked is promoted.
<1>3. ASSUME NEW p \in Tasks \cup {Code}, DeveloperPush(p) PROVE Runs' /\ DoneStays
  <2>1. /\ UNCHANGED <<lease, agent, desk, outlived>>
        /\ \A t \in Tasks : origin'[t] # origin[t] => t = p /\ origin[t].status = "blocked"
        BY <1>3 DEF DeveloperPush
  <2>2. \A c \in Clones : Keeps(c) /\ clone'[c].behind = clone[c].behind \cup {p}
        BY <1>1, <1>3 DEF DeveloperPush, CloneStates, Keeps
  <2>3. OwnCommits' /\ DoneKept' /\ DoneStays
    <3>1. OwnCommits' /\ DoneStays
          BY <1>1, <2>1, <2>2 DEF OwnCommits, DoneStays, Keeps
    <3>2. ASSUME NEW a \in Agents, NEW t \in Tasks, t \notin clone'[a].behind
          PROVE  origin'[t] = origin[t] /\ t \notin clone[a].behind
          BY <1>1, <2>1, <2>2, <3>2
    <3>3. DoneKept'
          BY <1>1, <2>1, <2>2, <3>2 DEF DoneKept, Closing, Keeps
    <3> QED
          BY <3>1, <3>3
  <2>4. ClaimLeased'
        BY <1>1, <2>1, <2>2 DEF ClaimLeased, Keeps
  <2>5. RunHeld'
    <3> SUFFICES ASSUME NEW a \in Agents, NEW u \in Tasks \ outlived, WorksOn(a, u)
                 PROVE  Held(a, u)'
        BY <2>1 DEF RunHeld, WorksOn
    <3>1. Held(a, u)
          BY DEF RunHeld
    <3>2. origin'[u] = origin[u]
          BY <2>1, <3>1 DEF Held, Recorded
    <3> QED
          BY <1>1, <2>1, <2>2, <3>1, <3>2 DEF Held, Closing, Keeps
  <2> QED
        BY <2>3, <2>4, <2>5
<1> QED
    BY <1>2, <1>3

LEMMA InitRuns == Init => Runs
BY DEF Init, Runs, OwnCommits, ClaimLeased, RunHeld, DoneKept, WorksOn, Closing, AtWork,
       InSession, FreeDesk

-----------------------------------------------------------------------------
(* The theorems *)

LEMMA NextRuns == Inv /\ Runs /\ [Next]_vars => Runs' /\ [DoneStays]_vars
<1> SUFFICES ASSUME Inv, Runs, [Next]_vars PROVE Runs' /\ [DoneStays]_vars
    OBVIOUS
<1>1. Typed /\ Good
      BY DEF Inv, Good
<1>2. CASE UNCHANGED vars
  <2>1. Runs'
        BY <1>2 DEF vars, Runs, OwnCommits, ClaimLeased, RunHeld, Held, DoneKept, WorksOn,
                    Closing
  <2> QED
        BY <1>2, <2>1
<1>3. CASE Next
      BY <1>1, <1>3, ServerRuns, AgentRuns, OthersRun DEF Next
<1> QED
    BY <1>2, <1>3

\* The lease keeps the server off the task of a run, and the files of the run and of
\* origin on record, until the lease ends or the run goes on after its final status.
THEOREM RunsHold == Spec => []Runs
<1>1. Init => Inv /\ Runs
      BY InitTyped, InitGood, InitRuns DEF Inv, Good
<1>2. Inv /\ Runs /\ [Next]_vars => (Inv /\ Runs)'
      BY NextGood, NextRuns
<1> QED
    BY <1>1, <1>2, PTL DEF Spec

\* handleAgentClaim and nextTask never let a second agent in on a task while a run
\* of it is under its lease, whatever answers, pushes and processes fail.
THEOREM OneRunnerHolds == Spec => []OneRunner
<1>1. Runs => OneRunner
      BY DEF Runs, RunHeld, Held, OneRunner
<1> QED
    BY <1>1, RunsHold, PTL

\* A task under such a run is claimed or in progress for every reader of origin.
THEOREM RunRecorded == Spec => []RunIsRecorded
<1>1. Runs => RunIsRecorded
      BY DEF Runs, RunHeld, Held, RunIsRecorded, Recorded
<1> QED
    BY <1>1, RunsHold, PTL

\* A done in origin stays, unless execute() overrides its own session, or the run
\* that takes it back has outlived its lease or its final status.
THEOREM DoneSettled == Spec => DoneIsSettled
<1>1. Inv /\ Runs /\ [Next]_vars
        => [\A t \in Tasks \ outlived :
              origin[t].status = "done" /\ origin'[t].status # "done"
                 => \E a \in Agents : /\ agent[a] = [step |-> "closing", task |-> t]
                                      /\ agent'[a].step = "report"]_vars
      BY NextRuns DEF DoneStays
<1> QED
    BY <1>1, InvHolds, RunsHold, PTL DEF Spec, DoneIsSettled

=============================================================================
