---------------------------- MODULE OwnerRecords ----------------------------
(***************************************************************************)
(* The records the Owner decides on with no run of a task behind them:     *)
(* Digital Assets (digital_assets with their append-only events) and the   *)
(* versions of the mandate, in ego_os/store.py, with the routes of         *)
(* ego_os/main.py that change them.                                        *)
(*                                                                         *)
(* transition_asset and create_mandate first read and then write.  The     *)
(* read opens no transaction, so that calls of other threads commit in     *)
(* between: Read and Write, and ReadVersion and InsertMandate, are steps   *)
(* of their own.  A call that is refused changes nothing and is no step.   *)
(***************************************************************************)
EXTENDS Naturals, Sequences, FiniteSets

CONSTANTS
    Assets,       \* rows of digital_assets
    Callers,      \* threads inside a store function
    Requests,     \* the transitions that callers ask for
    Noters,       \* actors that log a fact without a transition
    MaxEvents,    \* bound: events of an asset
    MaxMandates   \* bound: rows of mandate

NULL == "null"

Statuses == {"candidate", "accepted", "rejected", "internally_validated", "archived"}
EventTypes == {"candidate_created", "owner_accepted", "owner_rejected",
               "validation_started", "validation_passed", "validation_failed",
               "thesis_updated", "archived"}
Validations == {"started", "passed", "failed", "needs_revision"}
Theses == {"empty", "given"}
Actors == {"owner", "system", "other"}

Request == [new : Statuses, event : EventTypes, actor : Actors,
            validation : Validations \cup {NULL}, thesis : Theses \cup {NULL}]
Event == [type : EventTypes, actor : Actors]
Row == [status : Statuses \cup {NULL}, validation : Validations \cup {NULL},
        thesis : Theses \cup {NULL}, decision : {"accepted", "rejected", NULL}]

ASSUME RecordsAssumption ==
    /\ Requests \subseteq Request /\ Noters \subseteq Actors
    /\ MaxEvents \in Nat /\ MaxMandates \in Nat

VARIABLES
    row,         \* the row of each asset; its status is NULL before it exists
    history,     \* its rows of digital_asset_events, in the order of their ids
    call,        \* the status a caller has read, with its request
    stale,       \* history: assets written on a status that no longer held
    mandate,     \* the versions of the mandate rows, in the order of their ids
    submission,  \* the version a caller is about to insert, or 0
    crossed      \* history: whether two submissions have overlapped

assetVars == <<row, history, stale>>
mandateVars == <<mandate, crossed>>
vars == <<row, history, call, stale, mandate, submission, crossed>>

Nowhere == [asset |-> NULL]
Calls == {Nowhere} \cup [asset : Assets, seen : Statuses, request : Requests]

TypeOK ==
    /\ row \in [Assets -> Row]
    /\ history \in [Assets -> Seq(Event)]
    /\ call \in [Callers -> Calls]
    /\ stale \subseteq Assets
    /\ mandate \in Seq(Nat)
    /\ submission \in [Callers -> Nat]
    /\ crossed \in BOOLEAN

NoRow == [status |-> NULL, validation |-> NULL, thesis |-> NULL, decision |-> NULL]

Init ==
    /\ row = [a \in Assets |-> NoRow]
    /\ history = [a \in Assets |-> <<>>]
    /\ call = [c \in Callers |-> Nowhere]
    /\ stale = {}
    /\ mandate = <<>>
    /\ submission = [c \in Callers |-> 0]
    /\ crossed = FALSE

Free(c) == call[c] = Nowhere /\ submission[c] = 0

-----------------------------------------------------------------------------
(* _insert_asset_event, in the transaction of its caller. *)
Insert(a, type, actor) ==
    history' = [history EXCEPT ![a] = Append(@, [type |-> type, actor |-> actor])]

(* create_asset_candidate: row and first event in one transaction. *)
CreateCandidate(a) ==
    /\ row[a].status = NULL
    /\ row' = [row EXCEPT ![a].status = "candidate"]
    /\ Insert(a, "candidate_created", "system")
    /\ UNCHANGED <<call, stale, submission, mandateVars>>

(* _EVENT_VALIDATION_STATUS: what an event may set validation_status to. *)
EventValidation ==
    [validation_started |-> {"started"}, validation_failed |-> {"failed", "needs_revision"},
     validation_passed |-> {"passed"}, thesis_updated |-> {}]

Consistent(r) ==
    r.validation # NULL /\ r.event \in DOMAIN EventValidation
        => r.validation \in EventValidation[r.event]

(* _ASSET_TRANSITIONS: the moves of the Owner alone and the others. *)
OwnerMoves == {<<"candidate", "accepted", "owner_accepted">>,
               <<"candidate", "rejected", "owner_rejected">>,
               <<"rejected", "accepted", "owner_accepted">>}
SharedMoves == {<<"accepted", "internally_validated", "validation_passed">>,
                <<"accepted", "accepted", "validation_started">>,
                <<"accepted", "accepted", "validation_failed">>,
                <<"accepted", "accepted", "thesis_updated">>}

(* Mutant: one set of actors for every move of the table. *)
PermittedToAll(status, r) ==
    \/ r.new = "archived" /\ r.event = "archived" /\ r.actor \in {"system", "owner"}
    \/ <<status, r.new, r.event>> \in OwnerMoves \cup SharedMoves /\ r.actor \in {"system", "owner"}

(* Mutant: the Owner may take back an acceptance. *)
PermittedBack(status, r) ==
    \/ r.new = "archived" /\ r.event = "archived" /\ r.actor \in {"system", "owner"}
    \/ /\ <<status, r.new, r.event>> \in
             OwnerMoves \cup {<<"accepted", "rejected", "owner_rejected">>}
       /\ r.actor = "owner"
    \/ <<status, r.new, r.event>> \in SharedMoves /\ r.actor \in {"system", "owner"}

(* Mutant: archiving takes any event for its reason. *)
PermittedAnyReason(status, r) ==
    \/ r.new = "archived" /\ r.actor \in {"system", "owner"}
    \/ <<status, r.new, r.event>> \in OwnerMoves /\ r.actor = "owner"
    \/ <<status, r.new, r.event>> \in SharedMoves /\ r.actor \in {"system", "owner"}

Permitted(status, r) ==
    \/ r.new = "archived" /\ r.event = "archived" /\ r.actor \in {"system", "owner"}
    \/ <<status, r.new, r.event>> \in OwnerMoves /\ r.actor = "owner"
    \/ <<status, r.new, r.event>> \in SharedMoves /\ r.actor \in {"system", "owner"}

(* Mutant: a thesis is asked for, but may be empty. *)
CompleteOrEmpty(r) ==
    r.new = "internally_validated" => r.validation = "passed" /\ r.thesis # NULL

(* What internally_validated needs in the same call. *)
Complete(r) ==
    r.new = "internally_validated" => r.validation = "passed" /\ r.thesis = "given"

(* transition_asset up to its UPDATE: the checks of the arguments, the     *)
(* SELECT and the checks of the transition.  accept_asset and reject_asset *)
(* ask for one with the Owner as actor and nothing else.                   *)
Read(c, a, r) ==
    /\ Free(c) /\ row[a].status # NULL
    /\ Consistent(r) /\ Permitted(row[a].status, r) /\ Complete(r)
    /\ call' = [call EXCEPT ![c] = [asset |-> a, seen |-> row[a].status, request |-> r]]
    /\ UNCHANGED <<assetVars, submission, mandateVars>>

Supplied(value, old) == IF value = NULL THEN old ELSE value

(* Mutant: the name of the event is stored. *)
DecisionAsEvent(event, old) ==
    IF event \in {"owner_accepted", "owner_rejected"} THEN event ELSE old

(* Mutant: a rejected asset keeps the decision of before. *)
DecisionOfAcceptance(event, old) == IF event = "owner_accepted" THEN "accepted" ELSE old

Decision(event, old) ==
    CASE event = "owner_accepted" -> "accepted"
      [] event = "owner_rejected" -> "rejected"
      [] OTHER -> old

(* transition_asset from its UPDATE: row and event in one transaction. *)
Write(c) ==
    /\ call[c] # Nowhere
    /\ LET a == call[c].asset  r == call[c].request  IN
       /\ Len(history[a]) < MaxEvents
       /\ row' = [row EXCEPT ![a] =
             [status |-> r.new,
              validation |-> Supplied(r.validation, @.validation),
              thesis |-> Supplied(r.thesis, @.thesis),
              decision |-> Decision(r.event, @.decision)]]
       /\ Insert(a, r.event, r.actor)
       /\ stale' = IF row[a].status = call[c].seen THEN stale ELSE stale \cup {a}
    /\ call' = [call EXCEPT ![c] = Nowhere]
    /\ UNCHANGED <<submission, mandateVars>>

(* log_asset_event.  Nothing calls it yet: it is taken as its docstring    *)
(* asks, for facts that move no status, by any of Noters.                  *)
LogEvent(a, type, actor) ==
    /\ row[a].status # NULL /\ Len(history[a]) < MaxEvents
    /\ Insert(a, type, actor)
    /\ UNCHANGED <<row, call, stale, submission, mandateVars>>

-----------------------------------------------------------------------------
(* Mutant: the number of rows for the highest version. *)
CountVersion == Len(mandate)

(* SELECT COALESCE(MAX(version), 0) *)
MaxVersion ==
    IF mandate = <<>> THEN 0
    ELSE LET versions == {mandate[i] : i \in DOMAIN mandate} IN
         CHOOSE v \in versions : \A w \in versions : w <= v

(* create_mandate, called by submit_mandate, up to its INSERT. *)
ReadVersion(c) ==
    /\ Free(c) /\ Len(mandate) < MaxMandates
    /\ submission' = [submission EXCEPT ![c] = MaxVersion + 1]
    /\ UNCHANGED <<call, assetVars, mandateVars>>

InsertMandate(c) ==
    /\ submission[c] # 0 /\ Len(mandate) < MaxMandates
    /\ mandate' = Append(mandate, submission[c])
    /\ crossed' = (crossed \/ submission[c] # MaxVersion + 1)
    /\ submission' = [submission EXCEPT ![c] = 0]
    /\ UNCHANGED <<call, assetVars>>

(* The database is locked for too long, or the process dies: nothing of a  *)
(* transaction that was not committed remains.                             *)
Fail(c) ==
    /\ ~Free(c)
    /\ call' = [call EXCEPT ![c] = Nowhere]
    /\ submission' = [submission EXCEPT ![c] = 0]
    /\ UNCHANGED <<assetVars, mandateVars>>

Notes == {"validation_started", "validation_failed", "thesis_updated"}

Next ==
    \/ \E a \in Assets :
          \/ CreateCandidate(a)
          \/ \E type \in Notes, actor \in Noters : LogEvent(a, type, actor)
    \/ \E c \in Callers :
          \/ \E a \in Assets, r \in Requests : Read(c, a, r)
          \/ Write(c) \/ ReadVersion(c) \/ InsertMandate(c) \/ Fail(c)

Spec == Init /\ [][Next]_vars

-----------------------------------------------------------------------------
Types(a) == {history[a][i].type : i \in DOMAIN history[a]}
Happened(a, type) == {i \in DOMAIN history[a] : history[a][i].type = type}

(* Whatever overlaps, no asset is accepted or validated that the Owner has *)
(* not accepted at some time: the system may never move an asset past      *)
(* candidate (create_asset_candidate, store.py).                           *)
NeverAutomatic ==
    \A a \in Assets : row[a].status \in {"accepted", "internally_validated"} =>
        \E i \in DOMAIN history[a] :
            history[a][i] = [type |-> "owner_accepted", actor |-> "owner"]

(* Whatever overlaps, a validated asset carries the passed validation and  *)
(* a thesis: no other call takes them from it and leaves the status        *)
(* (transition_asset, store.py).                                           *)
ValidatedIsComplete ==
    \A a \in Assets : row[a].status = "internally_validated" =>
        row[a].validation = "passed" /\ row[a].thesis = "given"

(* owner_decision is what the Owner's last event in the history says.      *)
OwnerEvents == {"owner_accepted", "owner_rejected"}
DecisionIsLast ==
    \A a \in Assets : \A i \in DOMAIN history[a] :
        /\ history[a][i].type \in OwnerEvents
        /\ \A j \in DOMAIN history[a] : history[a][j].type \in OwnerEvents => j <= i
        => row[a].decision = Decision(history[a][i].type, NULL)

(* The status is what the last event that moves a status says, so that     *)
(* "the status column and the event history can never disagree"            *)
(* (log_asset_event, store.py), unless decisions on the asset overlapped:  *)
(* then an event that only notes progress may put back accepted.           *)
StatusAfter == [candidate_created |-> "candidate", owner_accepted |-> "accepted",
                owner_rejected |-> "rejected", validation_passed |-> "internally_validated",
                archived |-> "archived"]
HistoryAgrees ==
    \A a \in Assets \ stale : \A i \in DOMAIN history[a] :
        /\ history[a][i].type \in DOMAIN StatusAfter
        /\ \A j \in DOMAIN history[a] : history[a][j].type \in DOMAIN StatusAfter => j <= i
        => row[a].status = StatusAfter[history[a][i].type]

(* The Owner accepts once and rejects once, and not after accepting: a     *)
(* second click duplicates no decision (accept_asset, main.py), unless the *)
(* two overlap.                                                            *)
DecidedOnce ==
    \A a \in Assets \ stale :
        /\ \A type \in OwnerEvents : \A i, j \in Happened(a, type) : i = j
        /\ \A i \in Happened(a, "owner_rejected"), j \in Happened(a, "owner_accepted") : i < j

(* Mandate versions have no gaps, and unless two submissions overlapped    *)
(* each one has a version of its own, in the order they were made          *)
(* (submit_mandate, main.py).                                              *)
MandatesAreNumbered ==
    /\ {mandate[i] : i \in DOMAIN mandate} = 1..MaxVersion
    /\ crossed \/ \A i \in DOMAIN mandate : mandate[i] = i
=============================================================================
