------------------------ MODULE SpecialistWorkProofs ------------------------
(***************************************************************************)
(* TLAPS proofs about SpecialistWork, for any number of tasks, employees,  *)
(* Skill versions, site names, retries, changes of the tree and crashes.   *)
(***************************************************************************)
EXTENDS SpecialistWork, TLAPS

USE WorkAssumption

(* The steps of lifecycle.run after a specialist was staffed. *)
RunStep ==
    \/ Validate \/ Prompt \/ Reply \/ WriteFile
    \/ \E n \in Names : ExtractDeck(n)
    \/ \E caught \in BOOLEAN : RefuseDeck(caught) \/ RenderFails(caught)
    \/ Render \/ Unpublish \/ Publish \/ PublishFails
    \/ \E outcome \in {"delivered", "review"} : Conclude(outcome)
    \/ Revise \/ RunFails

(* A run that builds a site has a name for it. *)
Building ==
    run # NoRun /\ run.at \in {"render", "unpublish", "publish"} => run.name \in Names

(* A run that goes on is about the same task, employee and Skills. *)
Continues ==
    /\ run' \in Running /\ run' # NoRun
    /\ run'.task = run.task /\ run'.who = run.who
    /\ run'.skills = run.skills /\ run'.digests = run.digests
    /\ UNCHANGED state

Finishes ==
    /\ run' = NoRun
    /\ \E outcome \in {"failed", "delivered", "review"} :
         state' = [state EXCEPT ![run.task] = outcome]

LEMMA RunFacts ==
    ASSUME TypeOK, run # NoRun
    PROVE  /\ run \in Running
           /\ run.at \in Stages /\ run.task \in Tasks /\ run.who \in Employees
           /\ run.skills \in Seq(Refs) /\ run.digests \in [Refs -> Contents \cup {None}]
           /\ run.logged \in Nat /\ run.turn \in {1, 2} /\ run.told \in Prompts
           /\ run.told.skills \in Seq(Contents) /\ run.told.attachment \in {None, "yes", "no"}
           /\ run.name \in Names \cup {None}
           /\ run.kept \subseteq Names /\ run.made \subseteq Names
           /\ \A r \in Running : r # NoRun
<1>1. run \in Running
  BY DEF TypeOK
<1>2. \A r \in Running : r # NoRun
  BY DEF Running, NoRun, Stages
<1> QED
  BY <1>1, <1>2 DEF Running, Prompts

LEMMA StagesOf ==
    /\ "validate" \in Stages /\ "prompt" \in Stages /\ "reply" \in Stages /\ "qa" \in Stages
    /\ "render" \in Stages /\ "unpublish" \in Stages /\ "publish" \in Stages
BY DEF Stages

(* What every step of a run has in common. *)
LEMMA RunStepFacts ==
    ASSUME TypeOK, RunStep, Building
    PROVE  /\ run # NoRun
           /\ Continues \/ Finishes
           /\ UNCHANGED <<server, left, pending, roster, lost, deskVars, queue, retries, crashes>>
           /\ \/ UNCHANGED audit
              \/ \E r \in Refs : audit' = Append(audit, SkillEvent("validated", run.who, r))
<1>0. run # NoRun
  BY DEF RunStep, Validate, Prompt, Reply, WriteFile, ExtractDeck, RefuseDeck, RenderFails,
         Render, Unpublish, Publish, PublishFails, Conclude, Revise, RunFails, At
<1>1. /\ run \in Running /\ (\A r \in Running : r # NoRun)
      /\ run.skills \in Seq(Refs) /\ run.name \in Names \cup {None}
      /\ run.kept \subseteq Names /\ run.made \subseteq Names
      /\ run.logged \in Nat
  BY <1>0, RunFacts
<1>2. CASE Validate
  <2>1. CASE run.logged < Len(run.skills)
    <3>1. run.skills[run.logged + 1] \in Refs
      BY <1>1, <2>1
    <3>2a. run' = [run EXCEPT !.logged = run.logged + 1] /\ run.logged + 1 \in Nat
      BY <1>1, <1>2, <2>1 DEF Validate
    <3>2. run' \in Running
      BY <1>1, <3>2a DEF Running
    <3>3. Continues
      BY <1>1, <1>2, <3>2a, <3>2 DEF Continues, Running, Validate
    <3> QED
      BY <1>0, <1>2, <2>1, <3>1, <3>3 DEF Validate, syncVars, boundVars
  <2>2. CASE ~(run.logged < Len(run.skills))
    <3>1. run' \in Running /\ run' = [run EXCEPT !.at = "prompt"]
      BY <1>1, <1>2, <2>2, StagesOf DEF Validate, Running
    <3>2. Continues
      BY <1>1, <1>2, <3>1 DEF Continues, Running, Validate
    <3> QED
      BY <1>0, <1>2, <2>2, <3>2 DEF Validate, syncVars, boundVars
  <2> QED
    BY <2>1, <2>2
<1>3. CASE Prompt
  <2> DEFINE told == run'.told
  <2>1. /\ run' = [run EXCEPT !.at = "reply", !.told = told]
        /\ told = [skills |-> [i \in DOMAIN run.skills |-> content[run.skills[i]]],
                   attachment |-> IF run.who \notin Builders THEN None
                                  ELSE IF upload[run.task] = "attached" THEN "yes" ELSE "no"]
    BY <1>1, <1>3 DEF Prompt, Running
  <2>2. [i \in DOMAIN run.skills |-> content[run.skills[i]]] \in Seq(Contents)
    <3>1. DOMAIN run.skills = 1..Len(run.skills) /\ Len(run.skills) \in Nat
      BY <1>1
    <3>2. \A i \in 1..Len(run.skills) : content[run.skills[i]] \in Contents
      BY <1>1 DEF TypeOK
    <3> QED
      BY <3>1, <3>2
  <2>3. told \in Prompts
    BY <2>1, <2>2 DEF Prompts
  <2> HIDE DEF told
  <2>4. run' \in Running
    BY <1>1, <2>1, <2>3, StagesOf DEF Running
  <2>5. Continues
    BY <1>1, <1>3, <2>1, <2>4 DEF Continues, Running, Prompt
  <2> QED
    BY <1>0, <1>3, <2>5 DEF Prompt, syncVars, boundVars
<1>4. CASE Reply \/ WriteFile
  <2>1. run' = [run EXCEPT !.at = "qa"] /\ UNCHANGED state
    BY <1>4 DEF Reply, WriteFile
  <2>2. run' \in Running
    BY <1>1, <2>1, StagesOf DEF Running
  <2>3. Continues
    BY <1>1, <2>1, <2>2 DEF Continues, Running
  <2> QED
    BY <1>0, <1>4, <2>3 DEF Reply, WriteFile, RunUnchanged, syncVars, boundVars
<1>5. CASE \E n \in Names : ExtractDeck(n)
  <2>1. PICK n \in Names : ExtractDeck(n)
    BY <1>5
  <2>2. run' \in Running /\ run' = [run EXCEPT !.at = "render", !.name = n]
    BY <1>1, <2>1, StagesOf DEF ExtractDeck, Running
  <2>3. Continues
    BY <1>1, <2>1, <2>2 DEF Continues, Running, ExtractDeck
  <2> QED
    BY <1>0, <2>1, <2>3 DEF ExtractDeck, RunUnchanged, syncVars, boundVars
<1>6. CASE \E caught \in BOOLEAN : RefuseDeck(caught) \/ RenderFails(caught)
  <2>1. PICK caught \in BOOLEAN : RefuseDeck(caught) \/ RenderFails(caught)
    BY <1>6
  <2>2. CASE caught
    <3>1. run' \in Running /\ run' = [run EXCEPT !.at = "qa", !.name = None]
      BY <1>1, <2>1, <2>2, StagesOf DEF RefuseDeck, RenderFails, Raise, Running
    <3>2. Continues
      BY <1>1, <2>1, <2>2, <3>1 DEF Continues, Running, RefuseDeck, RenderFails, Raise
    <3> QED
      BY <1>0, <2>1, <3>2 DEF RefuseDeck, RenderFails, RunUnchanged, syncVars, boundVars
  <2>3. CASE ~caught
    <3>1. Finishes
      BY <2>1, <2>3 DEF RefuseDeck, RenderFails, Raise, Ends, Finishes
    <3> QED
      BY <1>0, <2>1, <3>1 DEF RefuseDeck, RenderFails, RunUnchanged, syncVars, boundVars
  <2> QED
    BY <2>2, <2>3
<1>7. CASE Render \/ Unpublish
  <2>1. \E at \in Stages : run' = [run EXCEPT !.at = at]
    BY <1>7, StagesOf DEF Render, Unpublish
  <2>2. run' \in Running
    BY <1>1, <2>1 DEF Running
  <2>3. Continues
    BY <1>1, <1>7, <2>1, <2>2 DEF Continues, Running, Render, Unpublish
  <2> QED
    BY <1>0, <1>7, <2>3 DEF Render, Unpublish, RunUnchanged, syncVars, boundVars
<1>8. CASE Publish
  <2>1. run' = [run EXCEPT !.at = "qa", !.name = None, !.made = {run.name}]
    BY <1>8 DEF Publish
  <2>2. run.name \in Names
    BY <1>8 DEF Building, Publish, At
  <2>3. run' \in Running
    BY <1>1, <2>1, <2>2, StagesOf DEF Running
  <2>4. Continues
    BY <1>1, <1>8, <2>1, <2>3 DEF Continues, Running, Publish
  <2> QED
    BY <1>0, <1>8, <2>4 DEF Publish, RunUnchanged, syncVars, boundVars
<1>9. CASE PublishFails \/ RunFails
  <2>1. Finishes
    BY <1>9 DEF PublishFails, RunFails, Ends, Finishes
  <2> QED
    BY <1>0, <1>9, <2>1 DEF PublishFails, RunFails, RunUnchanged, syncVars, boundVars
<1>10. CASE \E outcome \in {"delivered", "review"} : Conclude(outcome)
  <2>1. Finishes
    BY <1>10 DEF Conclude, Ends, Finishes
  <2> QED
    BY <1>0, <1>10, <2>1 DEF Conclude, RunUnchanged, syncVars, boundVars
<1>11. CASE Revise
  <2>1. Artifacts \subseteq Names
    BY <1>1 DEF Artifacts
  <2>2. run' = [run EXCEPT !.at = "prompt", !.turn = 2, !.kept = Artifacts, !.made = {}]
    BY <1>11 DEF Revise
  <2>3. run' \in Running
    BY <1>1, <2>1, <2>2, StagesOf DEF Running
  <2>4. Continues
    BY <1>1, <1>11, <2>2, <2>3 DEF Continues, Running, Revise
  <2> QED
    BY <1>0, <1>11, <2>4 DEF Revise, RunUnchanged, syncVars, boundVars
<1> QED
  BY <1>2, <1>3, <1>4, <1>5, <1>6, <1>7, <1>8, <1>9, <1>10, <1>11 DEF RunStep

-----------------------------------------------------------------------------
(* Type correctness. *)
LEMMA MembersOf ==
    ASSUME NEW refs \in Rosters \cup {<<>>}
    PROVE  refs \in Seq(Refs) /\ Members(refs) \subseteq Refs
<1>1. refs \in Seq(Refs)
  <2>1. CASE refs \in Rosters
    BY <2>1
  <2>2. CASE refs = <<>>
    BY <2>2
  <2> QED
    BY <2>1, <2>2
<1>2. \A i \in DOMAIN refs : refs[i] \in Refs
  BY <1>1
<1> QED
  BY <1>1, <1>2 DEF Members

LEMMA EventsOf ==
    ASSUME NEW e \in Employees, NEW r \in Refs,
           NEW kind \in {"attached", "detached", "validated", "resolution_failure"}
    PROVE  /\ SkillEvent(kind, e, r) \in Events
           /\ SkillEvent(kind, e, r).kind = kind
           /\ SkillEvent(kind, e, r).who = e /\ SkillEvent(kind, e, r).ref = r
BY DEF SkillEvent, Events

(* The definition a startup upserts, and the events of its difference.     *)
LEMMA UpsertFacts ==
    ASSUME TypeOK, Upsert
    PROVE  \E e \in Employees :
              /\ roster' = [roster EXCEPT ![e] = registry[e]]
              /\ registry[e] \in Rosters
              /\ \A event : event \in pending' <=>
                   \E r \in Refs :
                     \/ /\ event = SkillEvent("attached", e, r)
                        /\ r \in Members(registry[e]) \ Members(roster[e])
                     \/ /\ event = SkillEvent("detached", e, r)
                        /\ r \in Members(roster[e]) \ Members(registry[e])
<1>1. left \in Seq(Employees) /\ left # <<>>
  BY DEF Upsert, TypeOK
<1>2. Head(left) \in Employees
  BY <1>1
<1> DEFINE e == Head(left)
<1>3. registry[e] \in Rosters /\ roster[e] \in Rosters \cup {<<>>}
  BY <1>2 DEF TypeOK
<1>4. Members(registry[e]) \subseteq Refs /\ Members(roster[e]) \subseteq Refs
  BY <1>3, MembersOf
<1>5. /\ roster' = [roster EXCEPT ![e] = registry[e]]
      /\ pending' = Difference(e, roster[e], registry[e])
  BY DEF Upsert
<1> HIDE DEF e
<1>6. e \in Employees
  BY <1>2 DEF e
<1> QED
  BY <1>3, <1>4, <1>5, <1>6 DEF Difference

LEMMA TypeOfRun ==
    ASSUME TypeOK, Building, RunStep
    PROVE  TypeOK'
<1>1. /\ run \in Running /\ run.task \in Tasks /\ run.who \in Employees
      /\ run.name \in Names \cup {None} /\ run.kept \subseteq Names /\ run.made \subseteq Names
  BY RunFacts, RunStepFacts
<1>2. /\ run' \in Running \cup {NoRun}
      /\ state' \in [Tasks -> RunStates]
  <2>1. CASE Continues
    BY <2>1 DEF Continues, TypeOK
  <2>2. CASE Finishes
    BY <1>1, <2>2 DEF Finishes, TypeOK, RunStates
  <2> QED
    BY <2>1, <2>2, RunStepFacts
<1>3. audit' \in Seq(Events)
  <2>1. \A r \in Refs : SkillEvent("validated", run.who, r) \in Events
    BY <1>1, EventsOf
  <2>2. \A event \in Events : Append(audit, event) \in Seq(Events)
    BY DEF TypeOK
  <2>3. audit' = audit
        \/ \E r \in Refs : audit' = Append(audit, SkillEvent("validated", run.who, r))
    BY RunStepFacts
  <2>4. CASE \E r \in Refs : audit' = Append(audit, SkillEvent("validated", run.who, r))
    BY <2>1, <2>2, <2>4
  <2>5. audit \in Seq(Events)
    BY DEF TypeOK
  <2> QED
    BY <2>3, <2>4, <2>5
<1>4. /\ registry' \in [Employees -> Rosters]
      /\ content' \in [Refs -> Contents] /\ rewritten' \subseteq Refs
      /\ locked' = locked /\ revoked' = revoked /\ edits' \in Nat
  <2>1. CASE WriteFile
    <3>1. edits' \in Nat /\ locked' = locked /\ revoked' = revoked
      BY <2>1 DEF WriteFile, TypeOK
    <3>2. CASE \E r \in Refs, c \in Contents : Rewrite(r, c) /\ UNCHANGED registry
      BY <3>1, <3>2 DEF Rewrite, TypeOK
    <3>3. CASE \E e \in Employees, refs \in Rosters :
                 /\ registry' = [registry EXCEPT ![e] = refs]
                 /\ UNCHANGED <<content, rewritten>>
      BY <3>1, <3>3 DEF TypeOK
    <3> QED
      BY <2>1, <3>2, <3>3 DEF WriteFile
  <2>2. CASE UNCHANGED <<treeVars, rewritten, edits>>
    BY <2>2 DEF treeVars, TypeOK
  <2> QED
    BY <2>1, <2>2 DEF RunStep, Validate, Prompt, Reply, ExtractDeck, RefuseDeck, RenderFails,
       Render, Unpublish, Publish, PublishFails, Conclude, Revise, RunFails, RunUnchanged,
       boundVars
<1>5. /\ site' \in [Names -> Tasks \cup {None}] /\ cut' \subseteq Names
      /\ filed' \subseteq Tasks /\ links' \in [Tasks -> SUBSET Names]
      /\ overtaken' \subseteq Tasks \X Names
  <2>1. CASE Unpublish
    <3>1. run.name \in Names
      BY <2>1 DEF Unpublish, Building, At
    <3> QED
      BY <2>1, <3>1 DEF Unpublish, TypeOK
  <2>2. CASE Publish
    BY <1>1, <2>2 DEF Publish, TypeOK
  <2>5. CASE PublishFails
    <3>1. run.name \in Names
      BY <2>5 DEF PublishFails, Building, At
    <3> QED
      BY <2>5, <3>1 DEF PublishFails, TypeOK
  <2>3. CASE \E outcome \in {"delivered", "review"} : Conclude(outcome)
    <3>1. Artifacts \subseteq Names
      BY <1>1 DEF Artifacts
    <3> QED
      BY <1>1, <2>3, <3>1 DEF Conclude, TypeOK
  <2>4. CASE UNCHANGED siteVars
    BY <2>4 DEF siteVars, TypeOK
  <2> QED
    BY <2>1, <2>2, <2>3, <2>4, <2>5 DEF RunStep, Validate, Prompt, Reply, WriteFile,
       ExtractDeck, RefuseDeck, RenderFails, Render, Revise, RunFails
<1> QED
  BY <1>2, <1>3, <1>4, <1>5, RunStepFacts DEF TypeOK, deskVars

LEMMA TypeStep ==
    ASSUME TypeOK, Building, [Next]_vars
    PROVE  TypeOK'
<1>1. CASE EditTree
  <2>1. /\ edits' \in Nat
        /\ UNCHANGED <<server, left, pending, roster, audit, lost, desk, upload, wanted, torn,
                       state, queue, run, siteVars, retries, crashes>>
    BY <1>1 DEF EditTree, TypeOK, syncVars, deskVars
  <2>2. /\ registry' \in [Employees -> Rosters]
        /\ content' \in [Refs -> Contents] /\ locked' \in [Refs -> Contents \cup {None}]
        /\ revoked' \subseteq Refs /\ rewritten' \subseteq Refs
    <3>1. CASE \E e \in Employees, refs \in Rosters :
                 /\ registry' = [registry EXCEPT ![e] = refs]
                 /\ UNCHANGED <<content, locked, revoked, rewritten>>
      BY <3>1 DEF TypeOK
    <3>2. CASE \E r \in Refs, c \in Contents :
                 /\ locked' = [locked EXCEPT ![r] = c] /\ Rewrite(r, c)
                 /\ UNCHANGED <<registry, revoked>>
      BY <3>2 DEF Rewrite, TypeOK
    <3>3. CASE \E r \in Refs :
                 /\ revoked' = revoked \cup {r}
                 /\ UNCHANGED <<registry, content, locked, rewritten>>
      BY <3>3 DEF TypeOK
    <3>4. CASE \E r \in Refs, c \in Contents :
                 Rewrite(r, c) /\ UNCHANGED <<registry, locked, revoked>>
      BY <3>4 DEF Rewrite, TypeOK
    <3>5. CASE \E r \in Refs :
                 /\ locked' = [locked EXCEPT ![r] = None]
                 /\ UNCHANGED <<registry, content, revoked, rewritten>>
      BY <3>5 DEF TypeOK
    <3> QED
      BY <1>1, <3>1, <3>2, <3>3, <3>4, <3>5 DEF EditTree
  <2> QED
    BY <2>1, <2>2 DEF TypeOK, siteVars
<1>2. CASE Boot
  BY <1>2 DEF Boot, TypeOK, treeVars, deskVars, siteVars, boundVars
<1>3. CASE Upsert
  <2>1. PICK e \in Employees :
          /\ roster' = [roster EXCEPT ![e] = registry[e]]
          /\ registry[e] \in Rosters
          /\ \A event \in pending' : \E r \in Refs :
                event \in {SkillEvent("attached", e, r), SkillEvent("detached", e, r)}
    BY <1>3, UpsertFacts
  <2>2. pending' \subseteq Events
    BY <2>1, EventsOf
  <2>3. left' \in Seq(Employees)
    <3>1. left \in Seq(Employees) /\ left # <<>> /\ left' = Tail(left)
      BY <1>3 DEF Upsert, TypeOK
    <3> QED
      BY <3>1
  <2> QED
    BY <1>3, <2>1, <2>2, <2>3 DEF Upsert, TypeOK, treeVars, deskVars, siteVars, boundVars
<1>4. CASE \E event \in pending : LogSync(event)
  <2>1. PICK event \in pending : LogSync(event)
    BY <1>4
  <2>2. Append(audit, event) \in Seq(Events)
    BY <2>1 DEF TypeOK
  <2> QED
    BY <2>1, <2>2 DEF LogSync, TypeOK, treeVars, deskVars, siteVars, boundVars
<1>5. CASE Ready
  BY <1>5 DEF Ready, TypeOK, RunStates, treeVars, syncVars, deskVars, siteVars, boundVars
<1>6. CASE Crash
  <2>1. {<<event.who, event.ref>> : event \in pending} \subseteq Employees \X Refs
    BY DEF TypeOK, Events
  <2>2. desk' \in [Tasks -> Desks] /\ left' \in Seq(Employees)
    BY <1>6 DEF Crash, TypeOK, Desks
  <2>3. cut' \subseteq Names
    BY <1>6 DEF Crash, Building, At, TypeOK
  <2> QED
    BY <1>6, <2>1, <2>2, <2>3 DEF Crash, TypeOK, treeVars
<1>7. CASE \E t \in Tasks, attached \in BOOLEAN : Submit(t, attached)
  BY <1>7 DEF Submit, TypeOK, RunStates, Desks, treeVars, syncVars, siteVars, boundVars
<1>8. CASE \E t \in Tasks : Move(t) \/ Enqueue(t)
  <2>1. /\ desk' \in [Tasks -> Desks] /\ queue' \subseteq Tasks
        /\ upload' \in [Tasks -> {None, "staged", "attached"}]
    BY <1>8 DEF Move, Enqueue, TypeOK, Desks
  <2>2. /\ UNCHANGED <<treeVars, server, syncVars, audit, lost, wanted, torn, state, run>>
        /\ UNCHANGED <<rewritten, siteVars, boundVars>>
    BY <1>8 DEF Move, Enqueue
  <2> QED
    BY <2>1, <2>2 DEF TypeOK, treeVars, syncVars, siteVars, boundVars
<1>13. CASE \E t \in Tasks : MoveFails(t)
  BY <1>13 DEF MoveFails, TypeOK, Desks, treeVars, syncVars, siteVars, boundVars
<1>12. CASE \E t \in Tasks : Retry(t)
  BY <1>12 DEF Retry, TypeOK, Desks, RunStates, treeVars, syncVars, siteVars
<1>9. CASE \E t \in Tasks, e \in Employees : Staff(t, e)
  <2>1. PICK t \in Tasks, e \in Employees : Staff(t, e)
    BY <1>9
  <2>2. roster[e] \in Seq(Refs) /\ Members(roster[e]) \subseteq Refs
    BY MembersOf DEF TypeOK
  <2>3. CASE \A r \in Members(roster[e]) : Resolves(r)
    <3>1. /\ run' = [at |-> "validate", task |-> t, who |-> e, skills |-> roster[e],
                     digests |-> locked, logged |-> 0, turn |-> 1, told |-> NoPrompt,
                     name |-> None, kept |-> {}, made |-> {}]
          /\ state' = [state EXCEPT ![t] = "running"]
          /\ audit' = audit
      BY <2>1, <2>3 DEF Staff
    <3>2. NoPrompt \in Prompts
      BY DEF NoPrompt, Prompts
    <3>3. run' \in Running
      BY <2>2, <3>1, <3>2, StagesOf DEF Running, TypeOK
    <3> QED
      BY <2>1, <3>1, <3>3 DEF Staff, TypeOK, RunStates, treeVars, syncVars, deskVars, siteVars, boundVars
  <2>4. CASE ~(\A r \in Members(roster[e]) : Resolves(r))
    <3>1. /\ audit' = Append(audit, SkillEvent("resolution_failure", e, Head(roster[e])))
          /\ run' = NoRun /\ state' = [state EXCEPT ![t] = "failed"]
      BY <2>1, <2>4 DEF Staff, Ends
    <3>2. roster[e] # <<>>
      BY <2>4 DEF Members
    <3>3. Head(roster[e]) \in Refs
      BY <2>2, <3>2
    <3>4. audit' \in Seq(Events)
      BY <3>1, <3>3, EventsOf DEF TypeOK
    <3> QED
      BY <2>1, <3>1, <3>4 DEF Staff, TypeOK, RunStates, treeVars, syncVars, deskVars, siteVars, boundVars
  <2> QED
    BY <2>3, <2>4
<1>10. CASE RunStep
  BY <1>10, TypeOfRun
<1>11. CASE UNCHANGED vars
  BY <1>11 DEF vars, TypeOK, treeVars, syncVars, deskVars, siteVars, boundVars
<1> QED
  BY <1>1, <1>2, <1>3, <1>4, <1>5, <1>6, <1>7, <1>8, <1>9, <1>10, <1>11, <1>12, <1>13
     DEF Next, RunStep

-----------------------------------------------------------------------------
(* Where the request and the attachment of a task stand: no run is about a *)
(* task whose request has still to move its file.                          *)
DeskOf(t) ==
    /\ desk[t] = None => state[t] = None /\ t \notin wanted
    /\ state[t] \in {None, "queued"} \/ desk[t] \notin {None, "move"}
    /\ t \in queue => desk[t] \notin {None, "move"}
    /\ upload[t] = "attached" \/ desk[t] = "move" => t \in wanted
    /\ t \in wanted \ torn /\ desk[t] # "move" => upload[t] = "attached"
    /\ server # "up" => desk[t] \in {None, "answered"}

DeskInv ==
    /\ \A t \in Tasks : DeskOf(t)
    /\ run # NoRun => server = "up" /\ state[run.task] = "running"

USE DEF None

LEMMA DeskStep ==
    ASSUME TypeOK, Building, DeskInv, [Next]_vars
    PROVE  DeskInv'
<1>0. /\ desk \in [Tasks -> Desks] /\ upload \in [Tasks -> {None, "staged", "attached"}]
      /\ state \in [Tasks -> RunStates]
      /\ run # NoRun => run.task \in Tasks
  BY RunFacts DEF TypeOK
<1>1. CASE EditTree \/ Upsert \/ \E event \in pending : LogSync(event)
  <2>1. UNCHANGED <<server, deskVars, state, queue, run>>
    BY <1>1 DEF EditTree, Upsert, LogSync
  <2> QED
    BY <2>1 DEF DeskInv, DeskOf, deskVars
<1>2. CASE Boot
  <2>1. UNCHANGED <<deskVars, state, queue, run>> /\ server # "up" /\ run = NoRun
    BY <1>2 DEF Boot, DeskInv
  <2> QED
    BY <1>2, <2>1 DEF DeskInv, DeskOf, deskVars, Boot
<1>3. CASE Ready
  <2>1. /\ UNCHANGED <<desk, upload, wanted, torn, run>> /\ server # "up" /\ run = NoRun
        /\ server' = "up"
        /\ state' = [t \in Tasks |-> IF state[t] = "running" THEN "failed" ELSE state[t]]
        /\ queue' = {t \in Tasks : state[t] = "queued"}
    BY <1>3 DEF Ready, DeskInv, deskVars
  <2>2. ASSUME NEW t \in Tasks
        PROVE  DeskOf(t)'
    BY <1>0, <2>1, <2>2 DEF DeskInv, DeskOf
  <2> QED
    BY <2>1, <2>2 DEF DeskInv
<1>4. CASE Crash
  <2>1. /\ UNCHANGED <<upload, wanted, state>> /\ server' = "down" /\ run' = NoRun /\ queue' = {}
        /\ desk' = [t \in Tasks |-> IF desk[t] = None THEN None ELSE "answered"]
        /\ torn' = torn \cup {t \in Tasks : desk[t] = "move"}
    BY <1>4 DEF Crash
  <2>2. ASSUME NEW t \in Tasks
        PROVE  DeskOf(t)'
    <3>1. desk'[t] = IF desk[t] = None THEN None ELSE "answered"
      BY <2>1
    <3> QED
      BY <1>0, <2>1, <3>1 DEF DeskInv, DeskOf
  <2> QED
    BY <2>1, <2>2 DEF DeskInv
<1>5. CASE \E t \in Tasks, attached \in BOOLEAN : Submit(t, attached)
  <2>1. PICK t \in Tasks, attached \in BOOLEAN : Submit(t, attached)
    BY <1>5
  <2>2. /\ server = "up" /\ desk[t] = None /\ UNCHANGED <<server, torn, queue, run>>
        /\ state' = [state EXCEPT ![t] = "queued"]
        /\ upload' = [upload EXCEPT ![t] = IF attached THEN "staged" ELSE None]
        /\ desk' = [desk EXCEPT ![t] = IF attached THEN "move" ELSE "enqueue"]
        /\ wanted' = IF attached THEN wanted \cup {t} ELSE wanted
    BY <2>1 DEF Submit, deskVars
  <2>3. ASSUME NEW u \in Tasks
        PROVE  DeskOf(u)'
    <3>1. CASE u = t
      <4>1. /\ desk'[u] = IF attached THEN "move" ELSE "enqueue"
            /\ state'[u] = "queued" /\ upload'[u] = IF attached THEN "staged" ELSE None
            /\ u \notin queue /\ u \notin wanted
        BY <1>0, <2>2, <3>1 DEF DeskInv, DeskOf
      <4> QED
        BY <2>2, <3>1, <4>1 DEF DeskOf
    <3>2. CASE u # t
      <4>1. /\ desk'[u] = desk[u] /\ state'[u] = state[u] /\ upload'[u] = upload[u]
            /\ (u \in wanted' <=> u \in wanted)
        BY <1>0, <2>2, <3>2
      <4> QED
        BY <2>2, <4>1 DEF DeskInv, DeskOf
    <3> QED
      BY <3>1, <3>2
  <2>4. run # NoRun => state'[run.task] = "running"
    BY <1>0, <2>2 DEF DeskInv, DeskOf
  <2> QED
    BY <2>2, <2>3, <2>4 DEF DeskInv
<1>6. CASE \E t \in Tasks : Move(t) \/ Enqueue(t)
  <2>1. PICK t \in Tasks : Move(t) \/ Enqueue(t)
    BY <1>6
  <2>2. UNCHANGED <<server, wanted, torn, state, run>>
    BY <2>1 DEF Move, Enqueue
  <2>3. ASSUME NEW u \in Tasks
        PROVE  DeskOf(u)'
    <3>1. CASE u # t
      BY <1>0, <2>1, <2>2, <3>1 DEF DeskInv, DeskOf, Move, Enqueue
    <3>2. CASE u = t /\ Move(t)
      BY <1>0, <2>2, <3>2 DEF DeskInv, DeskOf, Move
    <3>3. CASE u = t /\ Enqueue(t)
      BY <1>0, <2>2, <3>3 DEF DeskInv, DeskOf, Enqueue
    <3> QED
      BY <2>1, <3>1, <3>2, <3>3
  <2> QED
    BY <2>2, <2>3 DEF DeskInv
<1>10. CASE \E t \in Tasks : MoveFails(t)
  <2>1. PICK t \in Tasks : MoveFails(t)
    BY <1>10
  <2>2. /\ UNCHANGED <<server, upload, wanted, state, queue, run>> /\ desk[t] = "move"
        /\ desk' = [desk EXCEPT ![t] = "answered"] /\ torn' = torn \cup {t}
    BY <2>1 DEF MoveFails
  <2>3. ASSUME NEW u \in Tasks
        PROVE  DeskOf(u)'
    BY <1>0, <2>2, <2>3 DEF DeskInv, DeskOf
  <2> QED
    BY <2>2, <2>3 DEF DeskInv
<1>11. CASE \E t \in Tasks : Retry(t)
  <2>1. PICK t \in Tasks : Retry(t)
    BY <1>11
  <2>2. /\ server = "up" /\ state[t] = "review"
        /\ UNCHANGED <<server, upload, wanted, torn, queue, run>>
        /\ state' = [state EXCEPT ![t] = "queued"] /\ desk' = [desk EXCEPT ![t] = "enqueue"]
    BY <2>1 DEF Retry
  <2>3. ASSUME NEW u \in Tasks
        PROVE  DeskOf(u)'
    BY <1>0, <2>2, <2>3 DEF DeskInv, DeskOf
  <2>4. run # NoRun => state'[run.task] = "running"
    BY <1>0, <2>2 DEF DeskInv
  <2> QED
    BY <2>2, <2>3, <2>4 DEF DeskInv
<1>7. CASE \E t \in Tasks, e \in Employees : Staff(t, e)
  <2>1. PICK t \in Tasks, e \in Employees : Staff(t, e)
    BY <1>7
  <2>2. /\ server = "up" /\ t \in queue /\ queue' = queue \ {t}
        /\ UNCHANGED <<server, desk, upload, wanted, torn>>
    BY <2>1 DEF Staff, deskVars
  <2>3. \/ /\ run' # NoRun /\ run'.task = t /\ state' = [state EXCEPT ![t] = "running"]
        \/ run' = NoRun /\ state' = [state EXCEPT ![t] = "failed"]
    BY <2>1 DEF Staff, Ends, NoRun
  <2>4. ASSUME NEW u \in Tasks
        PROVE  DeskOf(u)'
    BY <1>0, <2>2, <2>3 DEF DeskInv, DeskOf
  <2> QED
    BY <1>0, <2>2, <2>3, <2>4 DEF DeskInv
<1>8. CASE RunStep
  <2>1. /\ run # NoRun /\ UNCHANGED <<server, desk, upload, wanted, torn, queue>>
        /\ Continues \/ Finishes
    BY <1>8, RunStepFacts DEF deskVars
  <2>2. CASE Continues
    BY <2>1, <2>2 DEF DeskInv, DeskOf, Continues
  <2>3. CASE Finishes
    <3>1. PICK outcome \in {"failed", "delivered", "review"} :
            state' = [state EXCEPT ![run.task] = outcome]
      BY <2>3 DEF Finishes
    <3>2. \A t \in Tasks : DeskOf(t)'
      BY <1>0, <2>1, <3>1 DEF DeskInv, DeskOf
    <3> QED
      BY <2>3, <3>2 DEF DeskInv, Finishes
  <2> QED
    BY <2>1, <2>2, <2>3
<1>9. CASE UNCHANGED vars
  BY <1>9 DEF vars, DeskInv, DeskOf, deskVars
<1> QED
  BY <1>1, <1>2, <1>3, <1>4, <1>5, <1>6, <1>7, <1>8, <1>9, <1>10, <1>11 DEF Next, RunStep

HIDE DEF None
-----------------------------------------------------------------------------
(* The audit trail.  What is still to be written about an employee and a   *)
(* reference is one event, and it says what the store already shows.       *)
PendingIsTrue ==
    \A event \in pending :
        /\ event.kind \in {"attached", "detached"}
        /\ event.kind = "attached" <=> event.ref \in Members(roster[event.who])

TrailInv == PendingIsTrue /\ AuditReplays

\* What one more event at the end of the trail says.
LEMMA AppendSays ==
    ASSUME audit \in Seq(Events), NEW event \in Events, audit' = Append(audit, event),
           NEW e \in Employees, NEW r \in Refs
    PROVE  /\ event = SkillEvent("attached", e, r) => SaysAttached(e, r)'
           /\ event = SkillEvent("detached", e, r) => ~SaysAttached(e, r)'
           /\ event \notin {SkillEvent("attached", e, r), SkillEvent("detached", e, r)}
                => (SaysAttached(e, r)' <=> SaysAttached(e, r))
<1> DEFINE n == Len(audit)
<1>1. /\ n \in Nat /\ DOMAIN audit = 1..n /\ DOMAIN audit' = 1..(n + 1)
      /\ audit'[n + 1] = event /\ \A i \in 1..n : audit'[i] = audit[i]
  OBVIOUS
<1> HIDE DEF n
<1>2. SkillEvent("attached", e, r) # SkillEvent("detached", e, r)
  BY DEF SkillEvent
<1> DEFINE a == SkillEvent("attached", e, r)  d == SkillEvent("detached", e, r)
<1>3. SaysAttached(e, r) <=>
        \E i \in 1..n : audit[i] = a /\ \A j \in 1..n : j > i => audit[j] # d
  BY <1>1 DEF SaysAttached
<1>4. SaysAttached(e, r)' <=>
        \E i \in 1..(n + 1) : audit'[i] = a /\ \A j \in 1..(n + 1) : j > i => audit'[j] # d
  BY <1>1 DEF SaysAttached
<1>5. a # d
  BY <1>2
<1> HIDE DEF a, d
<1>6. event = a => SaysAttached(e, r)'
  <2>1. n + 1 \in 1..(n + 1) /\ \A j \in 1..(n + 1) : ~(j > n + 1)
    BY <1>1
  <2> QED
    BY <1>1, <1>4, <2>1
<1>7. event = d => ~SaysAttached(e, r)'
  BY <1>1, <1>4, <1>5
<1>8. event \notin {a, d} => (SaysAttached(e, r)' <=> SaysAttached(e, r))
  <2>1. SUFFICES ASSUME event \notin {a, d}
                 PROVE  SaysAttached(e, r)' <=> SaysAttached(e, r)
    OBVIOUS
  <2>2. ASSUME SaysAttached(e, r) PROVE SaysAttached(e, r)'
    <3>1. PICK i \in 1..n : audit[i] = a /\ \A j \in 1..n : j > i => audit[j] # d
      BY <1>3, <2>2
    <3>2. i \in 1..(n + 1) /\ audit'[i] = a
      BY <1>1, <3>1
    <3>3. \A j \in 1..(n + 1) : j > i => audit'[j] # d
      BY <1>1, <2>1, <3>1
    <3> QED
      BY <1>4, <3>2, <3>3
  <2>3. ASSUME SaysAttached(e, r)' PROVE SaysAttached(e, r)
    <3>1. PICK i \in 1..(n + 1) :
            audit'[i] = a /\ \A j \in 1..(n + 1) : j > i => audit'[j] # d
      BY <1>4, <2>3
    <3>2. i \in 1..n
      BY <1>1, <2>1, <3>1
    <3>3. \A j \in 1..n : j > i => audit[j] # d
      BY <1>1, <3>1
    <3> QED
      BY <1>1, <1>3, <3>1, <3>2, <3>3
  <2> QED
    BY <2>2, <2>3
<1> QED
  BY <1>6, <1>7, <1>8 DEF a, d

\* An event of another kind changes nothing of what the trail says.
LEMMA OtherEvents ==
    ASSUME TypeOK, TrailInv, UNCHANGED <<pending, roster, lost>>,
           \/ audit' = audit
           \/ \E e \in Employees, r \in Refs, kind \in {"validated", "resolution_failure"} :
                 audit' = Append(audit, SkillEvent(kind, e, r))
    PROVE  TrailInv'
<1>1. PendingIsTrue'
  BY DEF TrailInv, PendingIsTrue
<1>2. ASSUME NEW e \in Employees, NEW r \in Refs
      PROVE  SaysAttached(e, r)' <=> SaysAttached(e, r)
  <2>1. CASE audit' = audit
    BY <2>1 DEF SaysAttached
  <2>2. CASE \E f \in Employees, q \in Refs, kind \in {"validated", "resolution_failure"} :
               audit' = Append(audit, SkillEvent(kind, f, q))
    <3>1. PICK f \in Employees, q \in Refs, kind \in {"validated", "resolution_failure"} :
            audit' = Append(audit, SkillEvent(kind, f, q))
      BY <2>2
    <3>2. /\ SkillEvent(kind, f, q) \in Events
          /\ SkillEvent(kind, f, q)
               \notin {SkillEvent("attached", e, r), SkillEvent("detached", e, r)}
      BY DEF SkillEvent, Events
    <3>3. audit \in Seq(Events)
      BY DEF TypeOK
    <3> QED
      BY <3>1, <3>2, <3>3, AppendSays
  <2> QED
    BY <2>1, <2>2
<1>3. AuditReplays'
  BY <1>2 DEF TrailInv, AuditReplays, Unwritten
<1> QED
  BY <1>1, <1>3 DEF TrailInv

LEMMA TrailStep ==
    ASSUME TypeOK, Building, TrailInv, [Next]_vars
    PROVE  TrailInv'
<1>0. audit \in Seq(Events) /\ pending \subseteq Events
  BY DEF TypeOK
<1>1. CASE UNCHANGED <<pending, roster, lost, audit>>
  BY <1>1, OtherEvents
<1>2. CASE Upsert
  <2>1. PICK e \in Employees :
          /\ roster' = [roster EXCEPT ![e] = registry[e]]
          /\ registry[e] \in Rosters
          /\ \A event : event \in pending' <=>
               \E r \in Refs :
                 \/ /\ event = SkillEvent("attached", e, r)
                    /\ r \in Members(registry[e]) \ Members(roster[e])
                 \/ /\ event = SkillEvent("detached", e, r)
                    /\ r \in Members(roster[e]) \ Members(registry[e])
    BY <1>2, UpsertFacts
  <2>2. pending = {} /\ audit' = audit /\ lost' = lost /\ roster \in [Employees -> Rosters \cup {<<>>}]
    BY <1>2 DEF Upsert, TypeOK
  <2>3. PendingIsTrue'
    <3>1. ASSUME NEW event \in pending'
          PROVE  /\ event.kind \in {"attached", "detached"}
                 /\ event.kind = "attached" <=> event.ref \in Members(roster'[event.who])
      <4>1. roster'[e] = registry[e]
        BY <2>1, <2>2
      <4>2. PICK r \in Refs :
              \/ /\ event = SkillEvent("attached", e, r)
                 /\ r \in Members(registry[e]) \ Members(roster[e])
              \/ /\ event = SkillEvent("detached", e, r)
                 /\ r \in Members(roster[e]) \ Members(registry[e])
        BY <2>1, <3>1
      <4> QED
        BY <4>1, <4>2, EventsOf
    <3> QED
      BY <3>1 DEF PendingIsTrue, Members
  <2>4. AuditReplays'
    <3>1. SUFFICES ASSUME NEW f \in Employees, NEW r \in Refs,
                          <<f, r>> \notin lost, <<f, r>> \notin Unwritten'
                   PROVE  SaysAttached(f, r)' <=> r \in Members(roster'[f])
      BY <2>2 DEF AuditReplays, Members
    <3>2. SaysAttached(f, r)' <=> SaysAttached(f, r)
      BY <2>2 DEF SaysAttached
    <3>3. SaysAttached(f, r) <=> r \in Members(roster[f])
      BY <2>2, <3>1 DEF TrailInv, AuditReplays, Unwritten
    <3>4. CASE f # e
      BY <2>1, <2>2, <3>2, <3>3, <3>4
    <3>5. CASE f = e
      <4>1. roster'[f] = registry[e]
        BY <2>1, <2>2, <3>5
      <4>2. ASSUME NEW kind \in {"attached", "detached"}
            PROVE  SkillEvent(kind, e, r) \notin pending'
        <5>1. SkillEvent(kind, e, r).who = e /\ SkillEvent(kind, e, r).ref = r
          BY DEF SkillEvent
        <5> QED
          BY <3>1, <3>5, <5>1 DEF Unwritten
      <4>3. r \in Members(registry[e]) <=> r \in Members(roster[e])
        BY <2>1, <4>2
      <4> QED
        BY <3>2, <3>3, <3>5, <4>1, <4>3
    <3> QED
      BY <3>4, <3>5
  <2> QED
    BY <2>3, <2>4 DEF TrailInv
<1>3. CASE \E event \in pending : LogSync(event)
  <2>1. PICK event \in pending : LogSync(event)
    BY <1>3
  <2>2. /\ audit' = Append(audit, event) /\ pending' = pending \ {event}
        /\ lost' = lost \ {<<event.who, event.ref>>} /\ roster' = roster
    BY <2>1 DEF LogSync
  <2>3. /\ event \in Events /\ event.who \in Employees /\ event.ref \in Refs
        /\ event = SkillEvent(event.kind, event.who, event.ref)
        /\ event.kind \in {"attached", "detached"}
    BY <1>0 DEF Events, SkillEvent, TrailInv, PendingIsTrue
  <2>4. PendingIsTrue'
    BY <2>2 DEF TrailInv, PendingIsTrue
  <2>5. AuditReplays'
    <3>1. SUFFICES ASSUME NEW f \in Employees, NEW r \in Refs,
                          <<f, r>> \notin lost' \cup Unwritten'
                   PROVE  SaysAttached(f, r)' <=> r \in Members(roster[f])
      BY <2>2 DEF AuditReplays
    <3>2. CASE f = event.who /\ r = event.ref
      <4>1. event.kind = "attached" <=> r \in Members(roster[f])
        BY <3>2 DEF TrailInv, PendingIsTrue
      <4>2. event = SkillEvent("attached", f, r) \/ event = SkillEvent("detached", f, r)
        BY <2>3, <3>2
      <4>3. /\ event = SkillEvent("attached", f, r) => SaysAttached(f, r)'
            /\ event = SkillEvent("detached", f, r) => ~SaysAttached(f, r)'
        BY <1>0, <2>2, <2>3, AppendSays
      <4>4. /\ event = SkillEvent("attached", f, r) => event.kind = "attached"
            /\ event = SkillEvent("detached", f, r) => event.kind = "detached"
        BY DEF SkillEvent
      <4> QED
        BY <4>1, <4>2, <4>3, <4>4
    <3>3. CASE ~(f = event.who /\ r = event.ref)
      <4>1. event \notin {SkillEvent("attached", f, r), SkillEvent("detached", f, r)}
        BY <3>3 DEF SkillEvent
      <4>2. SaysAttached(f, r)' <=> SaysAttached(f, r)
        BY <1>0, <2>2, <2>3, <4>1, AppendSays
      <4>3. <<f, r>> # <<event.who, event.ref>>
        BY <3>3
      <4>4. <<f, r>> \notin lost
        BY <2>2, <3>1, <4>3
      <4>5. <<f, r>> \notin Unwritten
        BY <2>2, <3>1, <4>3 DEF Unwritten
      <4> QED
        BY <4>2, <4>4, <4>5 DEF TrailInv, AuditReplays
    <3> QED
      BY <3>2, <3>3
  <2> QED
    BY <2>4, <2>5 DEF TrailInv
<1>4. CASE Crash
  <2>1. /\ audit' = audit /\ roster' = roster /\ pending' = {}
        /\ lost' = lost \cup Unwritten
    BY <1>4 DEF Crash, Unwritten
  <2>2. PendingIsTrue'
    BY <2>1 DEF PendingIsTrue
  <2>3. AuditReplays'
    BY <2>1 DEF TrailInv, AuditReplays, SaysAttached, Unwritten
  <2> QED
    BY <2>2, <2>3 DEF TrailInv
<1>5. CASE \E t \in Tasks, e \in Employees : Staff(t, e)
  <2>1. PICK t \in Tasks, e \in Employees : Staff(t, e)
    BY <1>5
  <2>2. UNCHANGED <<pending, roster, lost>>
    BY <2>1 DEF Staff, syncVars
  <2>3. CASE \A r \in Members(roster[e]) : Resolves(r)
    BY <2>1, <2>2, <2>3, OtherEvents DEF Staff
  <2>4. CASE ~(\A r \in Members(roster[e]) : Resolves(r))
    <3>1. roster[e] \in Seq(Refs) /\ roster[e] # <<>>
      BY <2>4, MembersOf DEF TypeOK, Members
    <3>2. Head(roster[e]) \in Refs
      BY <3>1
    <3>3. audit' = Append(audit, SkillEvent("resolution_failure", e, Head(roster[e])))
      BY <2>1, <2>4 DEF Staff
    <3> QED
      BY <2>2, <3>2, <3>3, OtherEvents
  <2> QED
    BY <2>3, <2>4
<1>6. CASE RunStep
  <2>1. run.who \in Employees
    BY <1>6, RunStepFacts, RunFacts
  <2>2. UNCHANGED <<pending, roster, lost>>
    BY <1>6, RunStepFacts
  <2>3. \/ audit' = audit
        \/ \E r \in Refs : audit' = Append(audit, SkillEvent("validated", run.who, r))
    BY <1>6, RunStepFacts
  <2> QED
    BY <2>1, <2>2, <2>3, OtherEvents
<1>7. CASE EditTree \/ Boot \/ Ready \/ UNCHANGED vars
  BY <1>1, <1>7 DEF EditTree, Boot, Ready, vars, syncVars
<1>8. CASE \E t \in Tasks :
             \/ \E attached \in BOOLEAN : Submit(t, attached)
             \/ Move(t) \/ MoveFails(t) \/ Enqueue(t) \/ Retry(t)
  BY <1>1, <1>8 DEF Submit, Move, MoveFails, Enqueue, Retry, syncVars
<1> QED
  BY <1>2, <1>3, <1>4, <1>5, <1>6, <1>7, <1>8 DEF Next, RunStep

-----------------------------------------------------------------------------
(* Prompts.  Of every Skill of a run, the entrypoint on the disk is the    *)
(* one whose digest was resolved, unless it was rewritten since.           *)
SkillsStand ==
    run # NoRun => \A i \in DOMAIN run.skills :
        run.digests[run.skills[i]] = content[run.skills[i]] \/ run.skills[i] \in rewritten

ToldOfSkills == run # NoRun => DOMAIN run.told.skills \subseteq DOMAIN run.skills

PromptInv == SkillsStand /\ ToldOfSkills /\ PromptIsTrue

\* What a step other than a new prompt keeps of the last one.
LEMMA SamePrompt ==
    ASSUME TypeOK, Building, RunStep, ~Prompt, run' # NoRun
    PROVE  run'.told = run.told
<1>1. run \in Running
  BY RunFacts, RunStepFacts
<1>2. CASE Validate
  BY <1>1, <1>2 DEF Validate, Running
<1>3. CASE Reply \/ WriteFile \/ \E n \in Names : ExtractDeck(n)
  BY <1>1, <1>3 DEF Reply, WriteFile, ExtractDeck, Running
<1>4. CASE \E caught \in BOOLEAN : RefuseDeck(caught) \/ RenderFails(caught)
  BY <1>1, <1>4 DEF RefuseDeck, RenderFails, Raise, Ends, Running
<1>5. CASE Render \/ Unpublish \/ Publish
  BY <1>1, <1>5 DEF Render, Unpublish, Publish, Running
<1>6. CASE PublishFails \/ RunFails \/ \E outcome \in {"delivered", "review"} : Conclude(outcome)
  BY <1>6 DEF PublishFails, RunFails, Conclude, Ends
<1>7. CASE Revise
  BY <1>1, <1>7 DEF Revise, Running
<1> QED
  BY <1>2, <1>3, <1>4, <1>5, <1>6, <1>7 DEF RunStep

\* A file that changes is remembered as rewritten.
LEMMA TreeFacts ==
    ASSUME TypeOK, EditTree \/ RunStep
    PROVE  /\ rewritten \subseteq rewritten'
           /\ \A r \in Refs : content'[r] = content[r] \/ r \in rewritten'
<1>1. CASE EditTree
  BY <1>1 DEF EditTree, Rewrite, TypeOK
<1>2. CASE WriteFile
  BY <1>2 DEF WriteFile, Rewrite, TypeOK
<1>3. CASE UNCHANGED <<content, rewritten>>
  BY <1>3
<1> QED
  BY <1>1, <1>2, <1>3 DEF RunStep, Validate, Prompt, Reply, ExtractDeck, RefuseDeck, RenderFails,
     Render, Unpublish, Publish, PublishFails, Conclude, Revise, RunFails, treeVars

LEMMA SkillsStep ==
    ASSUME TypeOK, Building, PromptInv, [Next]_vars
    PROVE  SkillsStand' /\ ToldOfSkills' /\ InstructedAsRecorded'
<1>1. CASE run' = NoRun
  BY <1>1 DEF SkillsStand, ToldOfSkills, InstructedAsRecorded
<1>2. CASE /\ run # NoRun /\ run'.skills = run.skills /\ run'.digests = run.digests
           /\ run'.told = run.told
           /\ rewritten \subseteq rewritten'
           /\ \A r \in Refs : content'[r] = content[r] \/ r \in rewritten'
  <2>1. \A i \in DOMAIN run.skills : run.skills[i] \in Refs
    BY <1>2, RunFacts
  <2> QED
    BY <1>2, <2>1 DEF PromptInv, PromptIsTrue, SkillsStand, ToldOfSkills, InstructedAsRecorded
<1>3. CASE EditTree /\ run # NoRun
  <2>1. run' = run
    BY <1>3 DEF EditTree
  <2> QED
    BY <1>2, <1>3, <2>1, TreeFacts
<1>4. CASE RunStep /\ ~Prompt /\ run' # NoRun
  <2>1. run # NoRun /\ run'.skills = run.skills /\ run'.digests = run.digests
    BY <1>4, RunStepFacts DEF Continues, Finishes
  <2> QED
    BY <1>2, <1>4, <2>1, SamePrompt, TreeFacts
<1>5. CASE Prompt
  <2>1. run # NoRun /\ run \in Running
    BY <1>5, RunFacts DEF Prompt, At
  <2>2. /\ run'.skills = run.skills /\ run'.digests = run.digests
        /\ run'.told.skills = [i \in DOMAIN run.skills |-> content[run.skills[i]]]
        /\ content' = content /\ rewritten' = rewritten
    BY <1>5, <2>1 DEF Prompt, Running, treeVars
  <2> QED
    BY <2>1, <2>2 DEF PromptInv, SkillsStand, ToldOfSkills, InstructedAsRecorded
<1>6. CASE \E t \in Tasks, e \in Employees : Staff(t, e)
  <2>1. PICK t \in Tasks, e \in Employees : Staff(t, e)
    BY <1>6
  <2>2. CASE \A r \in Members(roster[e]) : Resolves(r)
    <3>1. /\ run'.skills = roster[e] /\ run'.digests = locked /\ run'.told = NoPrompt
          /\ content' = content
      BY <2>1, <2>2 DEF Staff, treeVars
    <3>2. \A i \in DOMAIN roster[e] : roster[e][i] \in Refs /\ Resolves(roster[e][i])
      BY <2>2, MembersOf DEF Members, TypeOK
    <3>3. \A r \in Refs : Resolves(r) => locked[r] = content[r]
      BY DEF Resolves, Loads
    <3>4. DOMAIN NoPrompt.skills = {}
      BY DEF NoPrompt
    <3> QED
      BY <3>1, <3>2, <3>3, <3>4 DEF SkillsStand, ToldOfSkills, InstructedAsRecorded
  <2>3. CASE ~(\A r \in Members(roster[e]) : Resolves(r))
    BY <1>1, <2>1, <2>3 DEF Staff, Ends
  <2> QED
    BY <2>2, <2>3
<1>7. CASE UNCHANGED <<run, content, rewritten>>
  BY <1>7 DEF PromptInv, PromptIsTrue, SkillsStand, ToldOfSkills, InstructedAsRecorded
<1>8. CASE EditTree /\ run = NoRun
  BY <1>1, <1>8 DEF EditTree
<1>9. CASE Crash
  BY <1>1, <1>9 DEF Crash
<1>10. CASE \/ Boot \/ Upsert \/ Ready \/ UNCHANGED vars
            \/ \E event \in pending : LogSync(event)
            \/ \E t \in Tasks :
                 \/ \E attached \in BOOLEAN : Submit(t, attached)
                 \/ Move(t) \/ MoveFails(t) \/ Enqueue(t) \/ Retry(t)
  BY <1>7, <1>10 DEF Boot, Upsert, Ready, vars, LogSync, Submit, Move, MoveFails, Enqueue, Retry,
     treeVars
<1> QED
  BY <1>1, <1>3, <1>4, <1>5, <1>6, <1>8, <1>9, <1>10 DEF Next, RunStep

LEMMA AttachedStep ==
    ASSUME TypeOK, Building, DeskInv, PromptInv, [Next]_vars
    PROVE  AttachedIsTold'
<1>0. run # NoRun => run.task \in Tasks
  BY RunFacts
<1>1. CASE run' = NoRun
  BY <1>1 DEF AttachedIsTold
<1>2. CASE /\ run # NoRun /\ run'.task = run.task /\ run'.told = run.told
           /\ torn \subseteq torn'
           /\ run.task \in wanted' <=> run.task \in wanted
  BY <1>2 DEF AttachedIsTold, PromptInv, PromptIsTrue
<1>3. CASE RunStep /\ ~Prompt /\ run' # NoRun
  <2>1. run # NoRun /\ run'.task = run.task /\ torn' = torn /\ wanted' = wanted
    BY <1>3, RunStepFacts DEF Continues, Finishes, deskVars
  <2> QED
    BY <1>2, <1>3, <2>1, SamePrompt
<1>4. CASE Prompt
  <2>1. run # NoRun /\ run \in Running
    BY <1>4, RunFacts DEF Prompt, At
  <2>2. /\ run'.task = run.task /\ torn' = torn /\ wanted' = wanted
        /\ run'.told.attachment \in
             {None, IF upload[run.task] = "attached" THEN "yes" ELSE "no"}
    BY <1>4, <2>1 DEF Prompt, Running, deskVars
  <2>3. DeskOf(run.task) /\ state[run.task] = "running"
    BY <1>0, <2>1 DEF DeskInv
  <2>4. /\ upload[run.task] = "attached" => run.task \in wanted
        /\ run.task \in wanted \ torn => upload[run.task] = "attached"
    BY <1>0, <2>3 DEF DeskOf, None
  <2> QED
    BY <2>2, <2>4 DEF AttachedIsTold, None
<1>5. CASE \E t \in Tasks, e \in Employees : Staff(t, e)
  <2>1. run' # NoRun => run'.told.attachment = None
    BY <1>5 DEF Staff, Ends, NoPrompt
  <2> QED
    BY <2>1 DEF AttachedIsTold, None
<1>6. CASE \E t \in Tasks, attached \in BOOLEAN : Submit(t, attached)
  <2>1. PICK t \in Tasks, attached \in BOOLEAN : Submit(t, attached)
    BY <1>6
  <2>2. /\ desk[t] = None /\ run' = run /\ torn' = torn
        /\ wanted' = IF attached THEN wanted \cup {t} ELSE wanted
    BY <2>1 DEF Submit
  <2>3. run # NoRun => run.task # t
    BY <1>0, <2>2 DEF DeskInv, DeskOf, None
  <2> QED
    BY <1>1, <1>2, <2>2, <2>3
<1>7. CASE UNCHANGED <<run, wanted>> /\ torn \subseteq torn'
  BY <1>7 DEF PromptInv, PromptIsTrue, AttachedIsTold
<1>8. CASE Crash
  BY <1>1, <1>8 DEF Crash
<1>9. CASE \/ EditTree \/ Boot \/ Upsert \/ Ready \/ UNCHANGED vars
           \/ \E event \in pending : LogSync(event)
           \/ \E t \in Tasks : Move(t) \/ MoveFails(t) \/ Enqueue(t) \/ Retry(t)
  BY <1>7, <1>9 DEF EditTree, Boot, Upsert, Ready, vars, LogSync, Move, MoveFails, Enqueue,
     Retry, deskVars
<1> QED
  BY <1>1, <1>3, <1>4, <1>5, <1>6, <1>8, <1>9 DEF Next, RunStep

-----------------------------------------------------------------------------
(* Sites.  What a run has made and will link shows its deck, but for the   *)
(* moment of publishing it again; the links of a name that is being        *)
(* published are overtaken.                                                *)
RunSites ==
    run # NoRun =>
        /\ \A n \in run.made \cup run.kept : site[n] = run.task \/ Publishing(n)
        /\ run.at = "publish" =>
              \A t \in Tasks : run.name \in links[t] => <<t, run.name>> \in overtaken

SiteInv == LinkShowsItsDeck /\ RunSites

LEMMA BuildingStep ==
    ASSUME TypeOK, Building, [Next]_vars
    PROVE  Building'
<1>1. CASE run' = NoRun \/ run' = run
  BY <1>1 DEF Building
<1>2. CASE RunStep /\ run' # NoRun
  <2>1. run \in Running /\ run # NoRun
    BY <1>2, RunFacts, RunStepFacts
  <2>2. CASE Validate \/ Prompt \/ Reply \/ WriteFile \/ Publish \/ Revise
    <3>1. run'.at \in {"validate", "prompt", "reply", "qa"}
      BY <2>1, <2>2 DEF Validate, Prompt, Reply, WriteFile, Publish, Revise, Running, At
    <3> QED
      BY <3>1 DEF Building
  <2>3. CASE \E n \in Names : ExtractDeck(n)
    BY <2>1, <2>3 DEF ExtractDeck, Running, Building
  <2>4. CASE \E caught \in BOOLEAN : RefuseDeck(caught) \/ RenderFails(caught)
    <3>1. run'.at = "qa"
      BY <1>2, <2>1, <2>4 DEF RefuseDeck, RenderFails, Raise, Ends, Running
    <3> QED
      BY <3>1 DEF Building
  <2>5. CASE Render \/ Unpublish
    BY <2>1, <2>5 DEF Render, Unpublish, Running, Building, At
  <2>6. CASE PublishFails \/ RunFails
             \/ \E outcome \in {"delivered", "review"} : Conclude(outcome)
    BY <1>2, <2>6 DEF PublishFails, RunFails, Conclude, Ends
  <2> QED
    BY <1>2, <2>2, <2>3, <2>4, <2>5, <2>6 DEF RunStep
<1>3. CASE \E t \in Tasks, e \in Employees : Staff(t, e)
  <2>1. run' # NoRun => run'.at = "validate"
    BY <1>3 DEF Staff, Ends
  <2> QED
    BY <2>1 DEF Building
<1>4. CASE \/ EditTree \/ Boot \/ Upsert \/ Ready \/ Crash \/ UNCHANGED vars
           \/ \E event \in pending : LogSync(event)
           \/ \E t \in Tasks :
                \/ \E attached \in BOOLEAN : Submit(t, attached)
                \/ Move(t) \/ MoveFails(t) \/ Enqueue(t) \/ Retry(t)
  BY <1>1, <1>4 DEF EditTree, Boot, Upsert, Ready, Crash, vars, LogSync, Submit, Move, MoveFails,
     Enqueue, Retry
<1> QED
  BY <1>1, <1>2, <1>3, <1>4 DEF Next, RunStep

\* What a step that touches no site and no report does to the links: nothing,
\* if no publication is under way and the run keeps to what it had made.
LEMMA SitesStay ==
    ASSUME TypeOK, SiteInv, UNCHANGED siteVars,
           run # NoRun => run.at # "publish",
           \/ run' = NoRun
           \/ /\ run' # NoRun /\ run'.at # "publish"
              /\ \A n \in run'.made \cup run'.kept : site[n] = run'.task
    PROVE  SiteInv'
<1>1. LinkShowsItsDeck'
  BY DEF SiteInv, LinkShowsItsDeck, Publishing, At, siteVars
<1>2. RunSites'
  BY DEF RunSites, siteVars
<1> QED
  BY <1>1, <1>2 DEF SiteInv

LEMMA SitesOfRun ==
    ASSUME TypeOK, Building, SiteInv, RunStep
    PROVE  SiteInv'
<1>1. /\ run # NoRun /\ run \in Running /\ run.task \in Tasks
      /\ site \in [Names -> Tasks \cup {None}] /\ links \in [Tasks -> SUBSET Names]
      /\ run.made \subseteq Names /\ run.kept \subseteq Names
  BY RunFacts, RunStepFacts DEF TypeOK
<1>2. run.at # "publish" => \A n \in run.made \cup run.kept : site[n] = run.task
  BY <1>1 DEF SiteInv, RunSites, Publishing, At
<1>3. CASE Validate \/ Prompt \/ Reply \/ WriteFile \/ Render \/ Revise
           \/ \E n \in Names : ExtractDeck(n)
  <2>1. run.at # "publish" /\ run'.at # "publish" /\ UNCHANGED siteVars /\ run' # NoRun
    BY <1>1, <1>3 DEF Validate, Prompt, Reply, WriteFile, Render, Revise, ExtractDeck, At,
       Running, NoRun
  <2>2. run'.task = run.task
    BY <2>1, RunStepFacts DEF Continues, Finishes
  <2>3. run'.made \cup run'.kept \subseteq run.made \cup run.kept
    BY <1>1, <1>3 DEF Validate, Prompt, Reply, WriteFile, Render, Revise, ExtractDeck,
       Artifacts, Running
  <2> QED
    BY <1>2, <2>1, <2>2, <2>3, SitesStay
<1>4. CASE \E caught \in BOOLEAN : RefuseDeck(caught) \/ RenderFails(caught)
  <2>1. run.at # "publish" /\ UNCHANGED siteVars
    BY <1>4 DEF RefuseDeck, RenderFails, At
  <2>2. CASE run' = NoRun
    BY <2>1, <2>2, SitesStay
  <2>3. CASE run' # NoRun
    <3>1. run'.task = run.task
      BY <2>3, RunStepFacts DEF Continues, Finishes
    <3>2. run'.made = run.made /\ run'.kept = run.kept /\ run'.at = "qa"
      BY <1>1, <1>4, <2>3 DEF RefuseDeck, RenderFails, Raise, Ends, Running
    <3> QED
      BY <1>2, <2>1, <2>3, <3>1, <3>2, SitesStay
  <2> QED
    BY <2>2, <2>3
<1>5. CASE RunFails
  <2>1. run.at # "publish" /\ UNCHANGED siteVars /\ run' = NoRun
    BY <1>5 DEF RunFails, Ends
  <2> QED
    BY <2>1, SitesStay
<1>6. CASE Unpublish
  <2>1. run.name \in Names /\ run.at = "unpublish"
    BY <1>6 DEF Unpublish, At, Building
  <2>2. /\ site' = [site EXCEPT ![run.name] = None] /\ links' = links
        /\ cut' = cut \ {run.name} /\ run' = [run EXCEPT !.at = "publish"]
        /\ overtaken' =
             overtaken \cup {<<t, run.name>> : t \in {u \in Tasks : run.name \in links[u]}}
    BY <1>6 DEF Unpublish
  <2>3. /\ run'.at = "publish" /\ run'.task = run.task /\ run'.name = run.name
        /\ run'.made = run.made /\ run'.kept = run.kept /\ run' # NoRun
    BY <1>1, <2>2 DEF Running, NoRun
  <2>4. \A n \in Names : n # run.name => site'[n] = site[n]
    BY <1>1, <2>1, <2>2
  <2>5. \A t \in Tasks : run.name \in links[t] => <<t, run.name>> \in overtaken'
    BY <2>2
  <2>6. LinkShowsItsDeck'
    <3>1. SUFFICES ASSUME NEW t \in Tasks, NEW n \in links[t]
                   PROVE  \/ site'[n] = t
                          \/ /\ <<t, n>> \in overtaken'
                             /\ site'[n] # None \/ n \in cut' \/ Publishing(n)'
      BY <2>2 DEF LinkShowsItsDeck
    <3>2. CASE n = run.name
      BY <2>3, <2>5, <3>2 DEF Publishing, At
    <3>3. CASE n # run.name
      <4>1. n \in Names /\ site'[n] = site[n] /\ ~Publishing(n)
        BY <1>1, <2>4, <3>3 DEF Publishing
      <4> QED
        BY <2>2, <3>3, <4>1 DEF SiteInv, LinkShowsItsDeck
    <3> QED
      BY <3>2, <3>3
  <2>7. RunSites'
    <3>1. \A n \in run.made \cup run.kept : site'[n] = run.task \/ n = run.name
      BY <1>1, <1>2, <2>1, <2>4
    <3> QED
      BY <2>2, <2>3, <2>5, <3>1 DEF RunSites, Publishing, At
  <2> QED
    BY <2>6, <2>7 DEF SiteInv
<1>7. CASE Publish
  <2>1. run.name \in Names /\ run.at = "publish"
    BY <1>7 DEF Publish, At, Building
  <2>2. /\ site' = [site EXCEPT ![run.name] = run.task]
        /\ run' = [run EXCEPT !.at = "qa", !.name = None, !.made = {run.name}]
        /\ UNCHANGED <<links, overtaken, cut>>
    BY <1>7 DEF Publish
  <2>3. /\ run'.task = run.task /\ run'.made = {run.name} /\ run'.kept = run.kept
        /\ run'.at = "qa"
    BY <1>1, <2>2 DEF Running
  <2>4. site'[run.name] = run.task /\ \A n \in Names : n # run.name => site'[n] = site[n]
    BY <1>1, <2>1, <2>2
  <2>5. LinkShowsItsDeck'
    <3>1. SUFFICES ASSUME NEW t \in Tasks, NEW n \in links[t]
                   PROVE  \/ site'[n] = t
                          \/ <<t, n>> \in overtaken /\ (site'[n] # None \/ n \in cut)
      BY <2>2 DEF LinkShowsItsDeck
    <3>2. CASE n = run.name
      <4>1. <<t, n>> \in overtaken
        BY <1>1, <2>1, <3>2 DEF SiteInv, RunSites
      <4>2. site'[n] # None
        BY <1>1, <2>4, <3>2
      <4> QED
        BY <4>1, <4>2
    <3>3. CASE n # run.name
      <4>1. n \in Names /\ site'[n] = site[n] /\ ~Publishing(n)
        BY <1>1, <2>4, <3>3 DEF Publishing
      <4> QED
        BY <4>1 DEF SiteInv, LinkShowsItsDeck
    <3> QED
      BY <3>2, <3>3
  <2>6. RunSites'
    <3>1. \A n \in run.kept : n # run.name => site[n] = run.task
      BY <1>1 DEF SiteInv, RunSites, Publishing
    <3> QED
      BY <1>1, <2>3, <2>4, <3>1 DEF RunSites
  <2> QED
    BY <2>5, <2>6 DEF SiteInv
<1>8. CASE PublishFails
  <2>1. /\ run' = NoRun /\ cut' = cut \cup {run.name} /\ UNCHANGED <<site, links, overtaken>>
    BY <1>8 DEF PublishFails, Ends
  <2>2. LinkShowsItsDeck'
    BY <2>1 DEF SiteInv, LinkShowsItsDeck, Publishing
  <2>3. RunSites'
    BY <2>1 DEF RunSites
  <2> QED
    BY <2>2, <2>3 DEF SiteInv
<1>9. CASE \E outcome \in {"delivered", "review"} : Conclude(outcome)
  <2>1. /\ run' = NoRun /\ run.at = "qa" /\ UNCHANGED <<site, overtaken, cut>>
        /\ links' \in {links, [links EXCEPT ![run.task] = Artifacts]}
    BY <1>9 DEF Conclude, Ends, At
  <2>2. \A n \in Artifacts : site[n] = run.task
    BY <1>2, <2>1 DEF Artifacts
  <2>3. \A t \in Tasks : \/ links'[t] = links[t]
                         \/ t = run.task /\ links'[t] = Artifacts
    BY <1>1, <2>1
  <2>4. LinkShowsItsDeck'
    BY <2>1, <2>2, <2>3 DEF SiteInv, LinkShowsItsDeck, Publishing, At
  <2>5. RunSites'
    BY <2>1 DEF RunSites
  <2> QED
    BY <2>4, <2>5 DEF SiteInv
<1> QED
  BY <1>3, <1>4, <1>5, <1>6, <1>7, <1>8, <1>9 DEF RunStep

LEMMA SitesStep ==
    ASSUME TypeOK, Building, SiteInv, [Next]_vars
    PROVE  SiteInv'
<1>1. CASE UNCHANGED <<run, siteVars>>
  BY <1>1 DEF SiteInv, LinkShowsItsDeck, RunSites, Publishing, At, siteVars
<1>2. CASE Crash
  <2>1. /\ run' = NoRun /\ UNCHANGED <<site, links, overtaken>>
        /\ cut' = IF At("publish") THEN cut \cup {run.name} ELSE cut
    BY <1>2 DEF Crash
  <2>2. LinkShowsItsDeck'
    BY <2>1 DEF SiteInv, LinkShowsItsDeck, Publishing
  <2>3. RunSites'
    BY <2>1 DEF RunSites
  <2> QED
    BY <2>2, <2>3 DEF SiteInv
<1>3. CASE \E t \in Tasks, e \in Employees : Staff(t, e)
  <2>1. run = NoRun /\ UNCHANGED siteVars
    BY <1>3 DEF Staff
  <2>2. run' # NoRun => run'.at = "validate" /\ run'.made = {} /\ run'.kept = {}
    BY <1>3 DEF Staff, Ends
  <2> QED
    BY <2>1, <2>2, SitesStay
<1>4. CASE RunStep
  BY <1>4, SitesOfRun
<1>5. CASE \/ EditTree \/ Boot \/ Upsert \/ Ready \/ UNCHANGED vars
           \/ \E event \in pending : LogSync(event)
           \/ \E t \in Tasks :
                \/ \E attached \in BOOLEAN : Submit(t, attached)
                \/ Move(t) \/ MoveFails(t) \/ Enqueue(t) \/ Retry(t)
  BY <1>1, <1>5 DEF EditTree, Boot, Upsert, Ready, vars, LogSync, Submit, Move, MoveFails,
     Enqueue, Retry
<1> QED
  BY <1>2, <1>3, <1>4, <1>5 DEF Next, RunStep
-----------------------------------------------------------------------------
WorkInv ==
    /\ TypeOK /\ Building
    /\ DeskInv /\ TrailInv /\ PromptInv /\ SiteInv

LEMMA WorkInit == Init => WorkInv
<1> SUFFICES ASSUME Init PROVE WorkInv
  OBVIOUS
<1>1. run = NoRun /\ audit = <<>> /\ pending = {} /\ left = <<>>
  BY DEF Init
<1>2. TypeOK
  <2>1. audit \in Seq(Events) /\ left \in Seq(Employees)
    BY <1>1
  <2> QED
    BY <1>1, <2>1 DEF Init, TypeOK, Desks, RunStates
<1>3. Building /\ PromptInv
  BY <1>1 DEF Building, PromptInv, SkillsStand, ToldOfSkills, PromptIsTrue,
     InstructedAsRecorded, AttachedIsTold
<1>4. DeskInv
  BY <1>1 DEF Init, DeskInv, DeskOf, None
<1>5. TrailInv
  <2>1. \A e \in Employees : Members(roster[e]) = {}
    BY DEF Init, Members
  <2>2. \A e \in Employees, r \in Refs : ~SaysAttached(e, r)
    BY <1>1 DEF SaysAttached
  <2> QED
    BY <1>1, <2>1, <2>2 DEF TrailInv, PendingIsTrue, AuditReplays
<1>6. SiteInv
  BY <1>1 DEF Init, SiteInv, LinkShowsItsDeck, RunSites
<1> QED
  BY <1>2, <1>3, <1>4, <1>5, <1>6 DEF WorkInv

LEMMA WorkStep == WorkInv /\ [Next]_vars => WorkInv'
<1> SUFFICES ASSUME WorkInv, [Next]_vars PROVE WorkInv'
  OBVIOUS
<1>1. TypeOK /\ Building /\ DeskInv /\ TrailInv /\ PromptInv /\ SiteInv
  BY DEF WorkInv
<1>2. PromptInv'
  BY <1>1, SkillsStep, AttachedStep DEF PromptInv, PromptIsTrue
<1> QED
  BY <1>1, <1>2, TypeStep, BuildingStep, DeskStep, TrailStep, SitesStep DEF WorkInv

(* The inductive invariant: desks, trail, prompts and sites, for every     *)
(* interleaving of submissions, runs, edits of the tree and crashes.       *)
THEOREM WorkSafe == Spec => []WorkInv
BY WorkInit, WorkStep, PTL DEF Spec

(* Type correctness. *)
THEOREM WorkTyped == Spec => []TypeOK
<1>1. WorkInv => TypeOK
  BY DEF WorkInv
<1> QED
  BY <1>1, WorkSafe, PTL

(* A prompt carries the Skill texts that the run records and the truth     *)
(* about the attachment, up to a file rewritten under the run, and to a    *)
(* submission that a crash cut short or whose move failed.                 *)
THEOREM PromptsAreTrue == Spec => []PromptIsTrue
<1>1. WorkInv => PromptIsTrue
  BY DEF WorkInv, PromptInv
<1> QED
  BY <1>1, WorkSafe, PTL

(* The Skill audit trail replays to the references in the store, whatever  *)
(* the registry went through, up to what a crash of the startup took away. *)
THEOREM TrailReplays == Spec => []AuditReplays
<1>1. WorkInv => AuditReplays
  BY DEF WorkInv, TrailInv
<1> QED
  BY <1>1, WorkSafe, PTL

(* A report's link shows the whole deck of the report's task until another *)
(* publication begins under its name, be it of a retried run of the task   *)
(* itself; after that a whole deck still, unless the last publication is   *)
(* under way or was broken off.                                            *)
THEOREM LinksShowDecks == Spec => []LinkShowsItsDeck
<1>1. WorkInv => LinkShowsItsDeck
  BY DEF WorkInv, SiteInv
<1> QED
  BY <1>1, WorkSafe, PTL
=============================================================================
