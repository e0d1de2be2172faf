--------------------------- MODULE SpecialistWork ---------------------------
(***************************************************************************)
(* What a specialist is given for a task and what it leaves behind.        *)
(*                                                                         *)
(* employees.sync_from_registry puts the registry's definitions into the   *)
(* store when the server starts and writes the Skill audit trail; the      *)
(* route POST /tasks stages an attachment; the worker's run resolves the   *)
(* employee's Skills (ego_os/skills.py), prompts it with them, executes    *)
(* one tool request per turn (ego_os/tools.py), build_presentation_site    *)
(* the longest of them, and reports the artifacts.  A run that went to the *)
(* Owner may be retried: it is staffed, prompted and executed all over, up *)
(* to the report, which its task already has.  The rest of a task's life   *)
(* is module ProductTask.                                                  *)
(*                                                                         *)
(* The tree under company/ and skills/ changes under the running server:   *)
(* a deployment or a developer edits it, and so does a specialist that     *)
(* may write to the repository.                                            *)
(***************************************************************************)
EXTENDS Naturals, Sequences, FiniteSets

CONSTANTS
    Tasks,      \* the tasks that will be submitted
    Employees,  \* specialists of the registry
    Definitions,\* the files of the registry, sorted by name
    Builders,   \* those with the permission build_presentation_sites
    Writers,    \* those with the permission write_repository
    Refs,       \* exact Skill versions, each a package directory
    Sibling,    \* Sibling[r]: the versions stored under the same Skill id
    Rosters,    \* the lists of references a definition may have
    Deployed,   \* the lists of the first deployment
    Contents,   \* what an entrypoint file may contain, up to its digest
    Names,      \* site names a model may choose
    MaxRetries, \* bound: runs the Owner sends back
    MaxEdits,   \* bound: changes of the tree
    MaxCrashes  \* bound: crashes of the server

None == "none"

ASSUME WorkAssumption ==
    /\ Definitions \in Seq(Employees)
    /\ Builders \subseteq Employees /\ Writers \subseteq Employees
    /\ Rosters \subseteq Seq(Refs)
    /\ Deployed \in [Employees -> Rosters]
    /\ Sibling \in [Refs -> SUBSET Refs]
    /\ \A r \in Refs : r \in Sibling[r]
    /\ None \notin Contents \cup Tasks \cup Employees
    /\ MaxRetries \in Nat /\ MaxEdits \in Nat /\ MaxCrashes \in Nat

VARIABLES
    registry,    \* the Skill list of each definition in company/employees/core
    content,     \* the entrypoint file of each package directory
    locked,      \* the digest its manifest declares, None while there is no manifest
    revoked,     \* the packages whose manifest says revoked
    server,      \* "down", "sync" (in on_startup) or "up"
    left,        \* definitions the startup has yet to upsert
    pending,     \* audit events of the definition just upserted, yet to be written
    roster,      \* employees.skills in the store
    audit,       \* the rows of skill_audit_events, in the order of their ids
    lost,        \* history: what the trail no longer tells, as <<employee, ref>>
    desk,        \* where the request that submits a task stands
    upload,      \* the attachment of a task: None, "staged" or "attached"
    wanted,      \* history: the tasks submitted with an attachment
    torn,        \* history: the tasks whose attachment a crash or an error left in staging
    state,       \* tasks.run_state, or the outcome once QA has given the run one
    queue,       \* the worker's queue
    run,         \* the locals of lifecycle.run in the worker's thread
    rewritten,   \* history: entrypoints that changed since the run resolved
    site,        \* the task whose whole deck stands at /p/<name>/, else None
    filed,       \* the tasks with a row in reports
    links,       \* the site names in the artifacts of each task's report
    overtaken,   \* history: the links under whose name a later publication has begun
    cut,         \* history: the names whose last publication was broken off
    retries,     \* bound: retries so far
    edits,       \* bound: changes so far
    crashes      \* bound: crashes so far

treeVars == <<registry, content, locked, revoked>>
syncVars == <<left, pending, roster>>
deskVars == <<desk, upload, wanted, torn>>
siteVars == <<site, filed, links, overtaken, cut>>
boundVars == <<retries, edits, crashes>>
vars == <<treeVars, server, syncVars, audit, lost, deskVars, state, queue, run,
          rewritten, siteVars, boundVars>>

RunStates == {None, "queued", "running", "failed", "delivered", "review"}
Desks == {None, "move", "enqueue", "answered"}
Events == [kind : {"attached", "detached", "validated", "resolution_failure"},
           who : Employees, ref : Refs]
NoPrompt == [skills |-> <<>>, attachment |-> None]
NoRun == [at |-> "idle"]
Stages == {"validate", "prompt", "reply", "render", "unpublish", "publish", "qa"}
Prompts == [skills : Seq(Contents), attachment : {None, "yes", "no"}]
Running ==
    [at : Stages, task : Tasks, who : Employees, skills : Seq(Refs),
     digests : [Refs -> Contents \cup {None}], logged : Nat, turn : {1, 2}, told : Prompts,
     name : Names \cup {None}, kept : SUBSET Names, made : SUBSET Names]

TypeOK ==
    /\ registry \in [Employees -> Rosters] /\ roster \in [Employees -> Rosters \cup {<<>>}]
    /\ content \in [Refs -> Contents] /\ locked \in [Refs -> Contents \cup {None}]
    /\ revoked \subseteq Refs /\ rewritten \subseteq Refs
    /\ server \in {"down", "sync", "up"} /\ left \in Seq(Employees)
    /\ pending \subseteq Events /\ audit \in Seq(Events)
    /\ lost \subseteq Employees \X Refs
    /\ desk \in [Tasks -> Desks] /\ upload \in [Tasks -> {None, "staged", "attached"}]
    /\ wanted \subseteq Tasks /\ torn \subseteq Tasks /\ queue \subseteq Tasks
    /\ state \in [Tasks -> RunStates]
    /\ run \in Running \cup {NoRun}
    /\ site \in [Names -> Tasks \cup {None}] /\ cut \subseteq Names
    /\ filed \subseteq Tasks /\ links \in [Tasks -> SUBSET Names]
    /\ overtaken \subseteq Tasks \X Names
    /\ retries \in Nat /\ edits \in Nat /\ crashes \in Nat

(* A deployed tree with sound packages and an empty store, before the start. *)
Init ==
    /\ registry = Deployed
    /\ content \in [Refs -> Contents] /\ locked = content
    /\ revoked = {} /\ rewritten = {}
    /\ server = "down" /\ left = <<>> /\ pending = {}
    /\ roster = [e \in Employees |-> <<>>] /\ audit = <<>> /\ lost = {}
    /\ desk = [t \in Tasks |-> None] /\ upload = [t \in Tasks |-> None]
    /\ wanted = {} /\ torn = {} /\ queue = {}
    /\ state = [t \in Tasks |-> None] /\ run = NoRun
    /\ site = [n \in Names |-> None] /\ cut = {}
    /\ filed = {} /\ links = [t \in Tasks |-> {}] /\ overtaken = {}
    /\ retries = 0 /\ edits = 0 /\ crashes = 0

-----------------------------------------------------------------------------
(* The tree, edited from outside: a definition's Skill list, a package     *)
(* that appears, one that is revoked, an entrypoint changed in place.      *)
Rewrite(r, c) ==
    /\ content' = [content EXCEPT ![r] = c]
    /\ rewritten' = rewritten \cup {r}

EditTree ==
    /\ edits < MaxEdits /\ edits' = edits + 1
    /\ \/ \E e \in Employees, refs \in Rosters :
            /\ registry' = [registry EXCEPT ![e] = refs]
            /\ UNCHANGED <<content, locked, revoked, rewritten>>
       \/ \E r \in Refs, c \in Contents :
            /\ locked' = [locked EXCEPT ![r] = c] /\ Rewrite(r, c)
            /\ UNCHANGED <<registry, revoked>>
       \/ \E r \in Refs :
            /\ revoked' = revoked \cup {r}
            /\ UNCHANGED <<registry, content, locked, rewritten>>
       \/ \E r \in Refs, c \in Contents :
            /\ Rewrite(r, c) /\ UNCHANGED <<registry, locked, revoked>>
       \/ \E r \in Refs :
            /\ locked' = [locked EXCEPT ![r] = None]
            /\ UNCHANGED <<registry, content, revoked, rewritten>>
    /\ UNCHANGED <<server, syncVars, audit, lost, deskVars, state, queue, run, siteVars,
                   retries, crashes>>

-----------------------------------------------------------------------------
(* on_startup: every definition, then the tasks a crash left behind. *)
Boot ==
    /\ server = "down"
    /\ server' = "sync" /\ left' = Definitions
    /\ UNCHANGED <<treeVars, pending, roster, audit, lost, deskVars, state, queue, run,
                   rewritten, siteVars, boundVars>>

SkillEvent(kind, e, r) == [kind |-> kind, who |-> e, ref |-> r]
Members(refs) == {refs[i] : i \in DOMAIN refs}

(* Mutant: an event type the audit trail does not know. *)
DifferenceAdded(e, previous, new) ==
    {SkillEvent("added", e, r) : r \in Members(new) \ Members(previous)}

Difference(e, previous, new) ==
    {SkillEvent("attached", e, r) : r \in Members(new) \ Members(previous)}
        \cup {SkillEvent("detached", e, r) : r \in Members(previous) \ Members(new)}

(* Mutant: the row is read back after it was written. *)
UpsertThenRead ==
    /\ server = "sync" /\ left # <<>> /\ pending = {}
    /\ LET e == Head(left) IN
       /\ roster' = [roster EXCEPT ![e] = registry[e]]
       /\ pending' = Difference(e, roster'[e], registry[e])
    /\ left' = Tail(left)
    /\ UNCHANGED <<treeVars, server, audit, lost, deskVars, state, queue, run, rewritten,
                   siteVars, boundVars>>

(* One definition of sync_from_registry: the row of the store first, the   *)
(* audit events of its difference after it, each in a commit of its own.   *)
Upsert ==
    /\ server = "sync" /\ left # <<>> /\ pending = {}
    /\ LET e == Head(left) IN
       /\ roster' = [roster EXCEPT ![e] = registry[e]]
       /\ pending' = Difference(e, roster[e], registry[e])
    /\ left' = Tail(left)
    /\ UNCHANGED <<treeVars, server, audit, lost, deskVars, state, queue, run, rewritten,
                   siteVars, boundVars>>

LogSync(event) ==
    /\ server = "sync" /\ event \in pending
    /\ event.kind = "detached" => \A other \in pending : other.kind = "detached"
    /\ audit' = Append(audit, event)
    /\ pending' = pending \ {event}
    /\ lost' = lost \ {<<event.who, event.ref>>}
    /\ UNCHANGED <<treeVars, server, left, roster, deskVars, state, queue, run, rewritten,
                   siteVars, boundVars>>

(* recover_interrupted_tasks, then the worker starts. *)
Ready ==
    /\ server = "sync" /\ left = <<>> /\ pending = {}
    /\ server' = "up"
    /\ state' = [t \in Tasks |-> IF state[t] = "running" THEN "failed" ELSE state[t]]
    /\ queue' = {t \in Tasks : state[t] = "queued"}
    /\ UNCHANGED <<treeVars, syncVars, audit, lost, deskVars, run, rewritten, siteVars,
                   boundVars>>

At(stage) == run # NoRun /\ run.at = stage

(* A crash or a restart. *)
Crash ==
    /\ server # "down" /\ crashes < MaxCrashes
    /\ server' = "down" /\ crashes' = crashes + 1
    /\ left' = <<>> /\ pending' = {}
    /\ lost' = lost \cup {<<event.who, event.ref>> : event \in pending}
    /\ desk' = [t \in Tasks |-> IF desk[t] = None THEN None ELSE "answered"]
    /\ torn' = torn \cup {t \in Tasks : desk[t] = "move"}
    /\ queue' = {} /\ run' = NoRun
    /\ cut' = IF At("publish") THEN cut \cup {run.name} ELSE cut
    /\ UNCHANGED <<treeVars, roster, audit, upload, wanted, state, rewritten, site, filed, links,
                   overtaken, retries, edits>>

-----------------------------------------------------------------------------
(* Mutant: the task is enqueued before its attachment is in place. *)
SubmitEarly(t, attached) ==
    /\ server = "up" /\ desk[t] = None
    /\ state' = [state EXCEPT ![t] = "queued"]
    /\ upload' = [upload EXCEPT ![t] = IF attached THEN "staged" ELSE None]
    /\ desk' = [desk EXCEPT ![t] = IF attached THEN "move" ELSE "answered"]
    /\ wanted' = IF attached THEN wanted \cup {t} ELSE wanted
    /\ queue' = queue \cup {t}
    /\ UNCHANGED <<treeVars, server, syncVars, audit, lost, torn, run, rewritten, siteVars,
                   boundVars>>

(* POST /tasks: stage the attachment and create the row, move the file,    *)
(* enqueue.  Of a request that dies before the row, no task remains.       *)
Submit(t, attached) ==
    /\ server = "up" /\ desk[t] = None
    /\ state' = [state EXCEPT ![t] = "queued"]
    /\ upload' = [upload EXCEPT ![t] = IF attached THEN "staged" ELSE None]
    /\ desk' = [desk EXCEPT ![t] = IF attached THEN "move" ELSE "enqueue"]
    /\ wanted' = IF attached THEN wanted \cup {t} ELSE wanted
    /\ UNCHANGED <<treeVars, server, syncVars, audit, lost, torn, queue, run, rewritten,
                   siteVars, boundVars>>

Move(t) ==
    /\ desk[t] = "move"
    /\ upload' = [upload EXCEPT ![t] = "attached"]
    /\ desk' = [desk EXCEPT ![t] = "enqueue"]
    /\ UNCHANGED <<treeVars, server, syncVars, audit, lost, wanted, torn, state, queue, run,
                   rewritten, siteVars, boundVars>>

(* mkdir or the move raises: the request ends, the row stays queued and    *)
(* nobody is told; the next start of the server will find it.              *)
MoveFails(t) ==
    /\ desk[t] = "move"
    /\ desk' = [desk EXCEPT ![t] = "answered"]
    /\ torn' = torn \cup {t}
    /\ UNCHANGED <<treeVars, server, syncVars, audit, lost, upload, wanted, state, queue, run,
                   rewritten, siteVars, boundVars>>

Enqueue(t) ==
    /\ desk[t] = "enqueue"
    /\ queue' = queue \cup {t}
    /\ desk' = [desk EXCEPT ![t] = "answered"]
    /\ UNCHANGED <<treeVars, server, syncVars, audit, lost, upload, wanted, torn, state, run,
                   rewritten, siteVars, boundVars>>

(* retry_after_review, once the run has ended (what an earlier one does is *)
(* ProductTask's run LostRetry).                                           *)
Retry(t) ==
    /\ server = "up" /\ state[t] = "review"
    /\ retries < MaxRetries /\ retries' = retries + 1
    /\ state' = [state EXCEPT ![t] = "queued"]
    /\ desk' = [desk EXCEPT ![t] = "enqueue"]
    /\ UNCHANGED <<treeVars, server, syncVars, audit, lost, upload, wanted, torn, queue, run,
                   rewritten, siteVars, edits, crashes>>

-----------------------------------------------------------------------------
(* The worker. *)
Ends(t, outcome) ==
    /\ state' = [state EXCEPT ![t] = outcome]
    /\ run' = NoRun

(* load_manifest: what is wrong with one version raises for its whole Skill. *)
Loads(r) == \A q \in Sibling[r] : locked[q] \in {None, content[q]}

(* get_exact_version *)
Resolves(r) == Loads(r) /\ locked[r] # None /\ r \notin revoked

(* The run up to the resolution of the chosen employee's Skills. *)
Staff(t, e) ==
    /\ server = "up" /\ run = NoRun /\ t \in queue /\ state[t] = "queued"
    /\ queue' = queue \ {t}
    /\ rewritten' = {}
    /\ LET refs == roster[e] IN
       IF \A r \in Members(refs) : Resolves(r)
       THEN /\ run' = [at |-> "validate", task |-> t, who |-> e, skills |-> refs,
                       digests |-> locked, logged |-> 0, turn |-> 1, told |-> NoPrompt,
                       name |-> None, kept |-> {}, made |-> {}]
            /\ state' = [state EXCEPT ![t] = "running"]
            /\ UNCHANGED audit
       ELSE /\ audit' = Append(audit, SkillEvent("resolution_failure", e, Head(refs)))
            /\ Ends(t, "failed")
    /\ UNCHANGED <<treeVars, server, syncVars, lost, deskVars, siteVars, boundVars>>

(* One 'validated' event per resolved Skill, then the specialist's turn. *)
Validate ==
    /\ At("validate")
    /\ IF run.logged < Len(run.skills)
       THEN /\ audit' = Append(audit, SkillEvent("validated", run.who, run.skills[run.logged + 1]))
            /\ run' = [run EXCEPT !.logged = @ + 1]
       ELSE run' = [run EXCEPT !.at = "prompt"] /\ UNCHANGED audit
    /\ UNCHANGED <<treeVars, server, syncVars, lost, deskVars, state, queue, rewritten, siteVars,
                   boundVars>>

(* _run_specialist up to the model's reply: the attachment line, and each  *)
(* entrypoint read again from its file.                                    *)
Prompt ==
    /\ At("prompt")
    /\ run' = [run EXCEPT
        !.at = "reply",
        !.told = [skills |-> [i \in DOMAIN run.skills |-> content[run.skills[i]]],
                  attachment |-> IF run.who \notin Builders THEN None
                                 ELSE IF upload[run.task] = "attached" THEN "yes" ELSE "no"]]
    /\ UNCHANGED <<treeVars, server, syncVars, audit, lost, deskVars, state, queue, rewritten,
                   siteVars, boundVars>>

RunUnchanged == UNCHANGED <<server, syncVars, audit, lost, deskVars, queue, boundVars>>

(* A reply without a request, with a request that is refused or fails, or  *)
(* one for a tool whose effect is outside this module.                     *)
Reply ==
    /\ At("reply") /\ run' = [run EXCEPT !.at = "qa"]
    /\ UNCHANGED <<treeVars, state, rewritten, siteVars>> /\ RunUnchanged

(* _write_repository_file, on an entrypoint or on a definition. *)
WriteFile ==
    /\ At("reply") /\ run.who \in Writers
    /\ edits < MaxEdits /\ edits' = edits + 1
    /\ \/ \E r \in Refs, c \in Contents : Rewrite(r, c) /\ UNCHANGED registry
       \/ \E e \in Employees, refs \in Rosters :
            /\ registry' = [registry EXCEPT ![e] = refs]
            /\ UNCHANGED <<content, rewritten>>
    /\ run' = [run EXCEPT !.at = "qa"]
    /\ UNCHANGED <<locked, revoked, server, syncVars, audit, lost, deskVars, state, queue,
                   siteVars, retries, crashes>>

(* Mutant: the artifact is named by the request, whatever the tool did. *)
RaiseWithArtifact(caught) ==
    IF caught
    THEN /\ run' = [run EXCEPT !.at = "qa", !.name = None, !.made = {run.name} \ {None}]
         /\ UNCHANGED state
    ELSE Ends(run.task, "failed")

(* An exception in a tool: ToolError, ValueError and TypeError go back to  *)
(* the model as text; any other ends the run.                              *)
Raise(caught) ==
    IF caught THEN run' = [run EXCEPT !.at = "qa", !.name = None] /\ UNCHANGED state
    ELSE Ends(run.task, "failed")

(* _build_presentation_site: the deck is extracted into the task's scratch *)
(* directory or refused, with the scratch removed.                         *)
ExtractDeck(n) ==
    /\ At("reply") /\ run.who \in Builders /\ upload[run.task] = "attached"
    /\ run' = [run EXCEPT !.at = "render", !.name = n]
    /\ UNCHANGED <<treeVars, state, rewritten, siteVars>> /\ RunUnchanged

RefuseDeck(caught) ==
    /\ At("reply") /\ run.who \in Builders /\ upload[run.task] = "attached"
    /\ Raise(caught)
    /\ UNCHANGED <<treeVars, rewritten, siteVars>> /\ RunUnchanged

Render ==
    /\ At("render") /\ run' = [run EXCEPT !.at = "unpublish"]
    /\ UNCHANGED <<treeVars, state, rewritten, siteVars>> /\ RunUnchanged

RenderFails(caught) ==
    /\ At("render") /\ Raise(caught)
    /\ UNCHANGED <<treeVars, rewritten, siteVars>> /\ RunUnchanged

(* rmtree of what the name showed, then copytree of the new site: from the *)
(* first file that goes to the last that comes, nothing whole stands there. *)
Unpublish ==
    /\ At("unpublish")
    /\ site' = [site EXCEPT ![run.name] = None]
    /\ overtaken' = overtaken \cup {<<t, run.name>> : t \in {u \in Tasks : run.name \in links[u]}}
    /\ cut' = cut \ {run.name}
    /\ run' = [run EXCEPT !.at = "publish"]
    /\ UNCHANGED <<treeVars, state, rewritten, filed, links>> /\ RunUnchanged

Publish ==
    /\ At("publish")
    /\ site' = [site EXCEPT ![run.name] = run.task]
    /\ run' = [run EXCEPT !.at = "qa", !.name = None, !.made = {run.name}]
    /\ UNCHANGED <<treeVars, state, rewritten, filed, links, overtaken, cut>> /\ RunUnchanged

PublishFails ==
    /\ At("publish") /\ Ends(run.task, "failed")
    /\ cut' = cut \cup {run.name}
    /\ UNCHANGED <<treeVars, rewritten, site, filed, links, overtaken>> /\ RunUnchanged

(* A revision's artifacts replace those of the first turn, if it has any.  *)
(* (No employee of the registry with the site tool has a second tool that  *)
(* makes artifacts.)                                                       *)
Artifacts == IF run.made # {} THEN run.made ELSE run.kept

(* QA: deliver or leave it to the Owner, then the report.  create_report   *)
(* may raise, and does for a task that has one: then the first stays, and  *)
(* the outcome is the status all the same.                                 *)
Conclude(outcome) ==
    /\ At("qa") /\ Ends(run.task, outcome)
    /\ \/ /\ run.task \notin filed /\ filed' = filed \cup {run.task}
          /\ links' = [links EXCEPT ![run.task] = Artifacts]
       \/ UNCHANGED <<filed, links>>
    /\ UNCHANGED <<treeVars, rewritten, site, overtaken, cut>> /\ RunUnchanged

Revise ==
    /\ At("qa") /\ run.turn = 1
    /\ run' = [run EXCEPT !.at = "prompt", !.turn = 2, !.kept = Artifacts, !.made = {}]
    /\ UNCHANGED <<treeVars, state, rewritten, siteVars>> /\ RunUnchanged

(* A call of the model or of the store raises. *)
RunFails ==
    /\ run # NoRun /\ run.at \in {"validate", "prompt", "reply", "qa"}
    /\ Ends(run.task, "failed")
    /\ UNCHANGED <<treeVars, rewritten, siteVars>> /\ RunUnchanged

Next ==
    \/ EditTree \/ Boot \/ Upsert \/ Ready \/ Crash
    \/ \E event \in pending : LogSync(event)
    \/ \E t \in Tasks :
         \/ \E attached \in BOOLEAN : Submit(t, attached)
         \/ Move(t) \/ MoveFails(t) \/ Enqueue(t) \/ Retry(t)
         \/ \E e \in Employees : Staff(t, e)
    \/ Validate \/ Prompt \/ Reply \/ WriteFile
    \/ \E n \in Names : ExtractDeck(n)
    \/ \E caught \in BOOLEAN : RefuseDeck(caught) \/ RenderFails(caught)
    \/ Render \/ Unpublish \/ Publish \/ PublishFails
    \/ \E outcome \in {"delivered", "review"} : Conclude(outcome)
    \/ Revise \/ RunFails

Spec == Init /\ [][Next]_vars

-----------------------------------------------------------------------------
(* What a prompt says is true.  Each Skill text in it hashes to the digest *)
(* that the run resolved and that its execution events record, unless the  *)
(* file was rewritten after that (_skill_instructions_block reads it       *)
(* again, unchecked).  (The report records the digests of the task's first *)
(* run, whatever a retried one was told.)  And the fact about an attachment*)
(* is what the Owner did: nobody is told of one that was not sent, and of  *)
(* one that was only a task whose file a crash or a failed move left in    *)
(* staging is told there is none.                                          *)
InstructedAsRecorded ==
    run # NoRun => \A i \in DOMAIN run.told.skills :
        run.told.skills[i] = run.digests[run.skills[i]] \/ run.skills[i] \in rewritten

AttachedIsTold ==
    run # NoRun =>
        /\ run.told.attachment = "yes" => run.task \in wanted
        /\ run.told.attachment = "no" /\ run.task \in wanted => run.task \in torn

PromptIsTrue == InstructedAsRecorded /\ AttachedIsTold

(* The Skill audit trail replays to the store: an employee has a reference *)
(* exactly if the last 'attached' or 'detached' event about the two says   *)
(* so, whatever edits, restarts and runs came between -- except for events *)
(* a startup has still to write and for those a crash of one took away.    *)
SaysAttached(e, r) ==
    \E i \in DOMAIN audit :
        /\ audit[i] = SkillEvent("attached", e, r)
        /\ \A j \in DOMAIN audit : j > i => audit[j] # SkillEvent("detached", e, r)

Unwritten == {<<event.who, event.ref>> : event \in pending}

AuditReplays ==
    \A e \in Employees, r \in Refs :
        <<e, r>> \notin lost \cup Unwritten
            => (SaysAttached(e, r) <=> r \in Members(roster[e]))

(* A link in a report leads to the whole deck of the report's own task,    *)
(* until another publication begins under the name: a later task's, or one *)
(* of a retried run of the task itself, whose report is refused.  From then*)
(* on it leads to a whole deck still, that of the last of them, unless     *)
(* this one is under way or was broken off: nothing but a publication      *)
(* takes a deck away.                                                      *)
Publishing(n) == At("publish") /\ run.name = n

LinkShowsItsDeck ==
    \A t \in Tasks : \A n \in links[t] :
        \/ site[n] = t
        \/ /\ <<t, n>> \in overtaken
           /\ site[n] # None \/ n \in cut \/ Publishing(n)
=============================================================================
