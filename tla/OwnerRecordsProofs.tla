------------------------- MODULE OwnerRecordsProofs -------------------------
(***************************************************************************)
(* TLAPS proofs about OwnerRecords, for any number of assets, of callers   *)
(* in the middle of a decision and of events.                              *)
(***************************************************************************)
EXTENDS OwnerRecords, TLAPS

USE RecordsAssumption

(* A caller between its SELECT and its UPDATE has passed every check.      *)
Checked ==
    \A c \in Callers : call[c] # Nowhere =>
        /\ Permitted(call[c].seen, call[c].request)
        /\ Complete(call[c].request)

(* The Owner has accepted what a caller has read as accepted, too. *)
Accepted(a) ==
    \E i \in DOMAIN history[a] :
        history[a][i] = [type |-> "owner_accepted", actor |-> "owner"]

SeenAccepted ==
    \A c \in Callers : call[c] # Nowhere =>
        (call[c].seen \in {"accepted", "internally_validated"} => Accepted(call[c].asset))

(* What the status of an asset says of the decisions already taken. *)
Undecided ==
    \A a \in Assets :
        /\ row[a].status = NULL => history[a] = <<>>
        /\ a \notin stale /\ row[a].status \in {"candidate", "rejected"}
              => Happened(a, "owner_accepted") = {}
        /\ a \notin stale /\ row[a].status = "candidate"
              => Happened(a, "owner_rejected") = {}

AssetsInv ==
    /\ TypeOK /\ Checked
    /\ NeverAutomatic /\ SeenAccepted
    /\ ValidatedIsComplete
    /\ DecisionIsLast /\ HistoryAgrees
    /\ Undecided /\ DecidedOnce

-----------------------------------------------------------------------------
\* What the table of the transitions allows.
LEMMA MoveFacts ==
    ASSUME NEW s \in Statuses, NEW r \in Request, Permitted(s, r)
    PROVE  /\ r.new \in {"accepted", "internally_validated"} =>
                 s = "accepted" \/ (r.event = "owner_accepted" /\ r.actor = "owner")
           /\ r.event \in DOMAIN StatusAfter => r.new = StatusAfter[r.event]
           /\ r.event \notin DOMAIN StatusAfter => r.new = "accepted" /\ s = "accepted"
           /\ r.event = "owner_accepted" => s \in {"candidate", "rejected"}
           /\ r.event = "owner_rejected" => s = "candidate"
           /\ r.new # "candidate" /\ (r.new = "rejected" => r.event = "owner_rejected")
BY DEF Permitted, OwnerMoves, SharedMoves, StatusAfter, Request, Statuses, EventTypes

\* One more event at the end of a history.
LEMMA AppendFacts ==
    ASSUME NEW h \in Seq(Event), NEW e \in Event
    PROVE  /\ Append(h, e) \in Seq(Event)
           /\ DOMAIN Append(h, e) = DOMAIN h \cup {Len(h) + 1}
           /\ Len(h) + 1 \notin DOMAIN h
           /\ Append(h, e)[Len(h) + 1] = e
           /\ \A i \in DOMAIN h : Append(h, e)[i] = h[i] /\ i <= Len(h) /\ i \in Nat
OBVIOUS

\* What a decided transition writes, with the checks it passed.
LEMMA WriteFacts ==
    ASSUME TypeOK, Checked, NEW c \in Callers, Write(c)
    PROVE  \E a \in Assets, s \in Statuses, r \in Request :
              /\ call[c] # Nowhere
              /\ call[c].asset = a /\ call[c].seen = s /\ call[c].request = r
              /\ Permitted(s, r) /\ Complete(r)
              /\ row' = [row EXCEPT ![a] =
                    [status |-> r.new,
                     validation |-> Supplied(r.validation, row[a].validation),
                     thesis |-> Supplied(r.thesis, row[a].thesis),
                     decision |-> Decision(r.event, row[a].decision)]]
              /\ history' = [history EXCEPT ![a] =
                    Append(history[a], [type |-> r.event, actor |-> r.actor])]
              /\ stale' = IF row[a].status = s THEN stale ELSE stale \cup {a}
              /\ call' = [call EXCEPT ![c] = Nowhere]
<1>1. call[c] \in Calls /\ call[c] # Nowhere
  BY DEF Write, TypeOK
<1>2. /\ call[c].asset \in Assets /\ call[c].seen \in Statuses
      /\ call[c].request \in Request
  BY <1>1 DEF Calls
<1>3. Permitted(call[c].seen, call[c].request) /\ Complete(call[c].request)
  BY <1>1 DEF Checked
<1> DEFINE a == call[c].asset  s == call[c].seen  r == call[c].request
<1>4. /\ row' = [row EXCEPT ![a] =
            [status |-> r.new,
             validation |-> Supplied(r.validation, row[a].validation),
             thesis |-> Supplied(r.thesis, row[a].thesis),
             decision |-> Decision(r.event, row[a].decision)]]
      /\ history' = [history EXCEPT ![a] =
            Append(history[a], [type |-> r.event, actor |-> r.actor])]
      /\ stale' = IF row[a].status = s THEN stale ELSE stale \cup {a}
      /\ call' = [call EXCEPT ![c] = Nowhere]
  BY <1>2 DEF Write, Insert, TypeOK
<1> QED
  BY <1>1, <1>2, <1>3, <1>4
-----------------------------------------------------------------------------
(* The versions in use are 1..n; nobody is about to insert one past n + 1. *)
Versions == {mandate[i] : i \in DOMAIN mandate}

NumberedUpTo(n) ==
    /\ Versions = 1..n
    /\ \A c \in Callers : submission[c] <= n + 1
    /\ crossed \/ (n = Len(mandate) /\ \A i \in DOMAIN mandate : mandate[i] = i)

MandateInv ==
    /\ mandate \in Seq(Nat)
    /\ submission \in [Callers -> Nat]
    /\ crossed \in BOOLEAN
    /\ \E n \in Nat : NumberedUpTo(n)

LEMMA HighestVersion ==
    ASSUME mandate \in Seq(Nat), NEW n \in Nat, Versions = 1..n
    PROVE  MaxVersion = n
<1>1. CASE mandate = <<>>
  <2>1. Versions = {}
    BY <1>1 DEF Versions
  <2>2. n = 0
    <3>1. n \notin 1..n
      BY <2>1
    <3> QED
      BY <3>1
  <2> QED
    BY <1>1, <2>2 DEF MaxVersion
<1>2. CASE mandate # <<>>
  <2>1. mandate[1] \in Versions
    BY <1>2 DEF Versions
  <2>2. n \in 1..n /\ \A w \in 1..n : w <= n
    BY <2>1
  <2>3. \A v \in 1..n : (\A w \in 1..n : w <= v) => v = n
    BY <2>2
  <2>4. MaxVersion = CHOOSE v \in 1..n : \A w \in 1..n : w <= v
    BY <1>2 DEF MaxVersion, Versions
  <2> QED
    BY <2>2, <2>3, <2>4
<1> QED
  BY <1>1, <1>2

LEMMA MandateInit == Init => MandateInv
<1> SUFFICES ASSUME Init PROVE MandateInv
  OBVIOUS
<1>1. Versions = 1..0
  BY DEF Init, Versions
<1>2. NumberedUpTo(0)
  BY <1>1 DEF Init, NumberedUpTo
<1>3. mandate = <<>> /\ submission = [c \in Callers |-> 0] /\ crossed = FALSE
  BY DEF Init
<1>4. mandate \in Seq(Nat) /\ submission \in [Callers -> Nat]
  BY <1>3
<1>5. crossed \in BOOLEAN
  BY <1>3, Zenon
<1>6. \E n \in Nat : NumberedUpTo(n)
  BY <1>2
<1> QED
  BY <1>4, <1>5, <1>6, Zenon DEF MandateInv

LEMMA MandateStep == MandateInv /\ [Next]_vars => MandateInv'
<1> SUFFICES ASSUME MandateInv, [Next]_vars PROVE MandateInv'
  OBVIOUS
<1> USE DEF MandateInv
<1>1. PICK n \in Nat : NumberedUpTo(n)
  OBVIOUS
<1>2. MaxVersion = n
  BY <1>1, HighestVersion DEF NumberedUpTo
<1>3. CASE UNCHANGED <<mandate, submission, crossed>>
  BY <1>3, <1>1 DEF NumberedUpTo, Versions
<1>4. ASSUME NEW c \in Callers, ReadVersion(c) PROVE MandateInv'
  <2>1. submission' = [submission EXCEPT ![c] = n + 1]
    BY <1>2, <1>4 DEF ReadVersion
  <2>2. UNCHANGED <<mandate, crossed>>
    BY <1>4 DEF ReadVersion, mandateVars
  <2>3. NumberedUpTo(n)'
    BY <1>1, <2>1, <2>2 DEF NumberedUpTo, Versions
  <2> QED
    BY <2>1, <2>2, <2>3
<1>5. ASSUME NEW c \in Callers, InsertMandate(c) PROVE MandateInv'
  <2> DEFINE v == submission[c]
  <2>1. v \in 1..(n + 1)
    BY <1>1, <1>5 DEF InsertMandate, NumberedUpTo
  <2>2. /\ mandate' = Append(mandate, v)
        /\ submission' = [submission EXCEPT ![c] = 0]
        /\ crossed' = (crossed \/ v # n + 1)
    BY <1>2, <1>5 DEF InsertMandate
  <2> HIDE DEF v
  <2>3. mandate' \in Seq(Nat) /\ submission' \in [Callers -> Nat] /\ crossed' \in BOOLEAN
    BY <2>1, <2>2
  <2>4. /\ DOMAIN mandate' = DOMAIN mandate \cup {Len(mandate) + 1}
        /\ Len(mandate') = Len(mandate) + 1
        /\ mandate'[Len(mandate) + 1] = v
        /\ \A i \in DOMAIN mandate : mandate'[i] = mandate[i]
    BY <2>1, <2>2
  <2>5. Versions' = Versions \cup {v}
    BY <2>4 DEF Versions
  <2>6. \A d \in Callers : submission'[d] <= n + 1
    BY <1>1, <2>2 DEF NumberedUpTo
  <2>7. CASE v = n + 1
    <3>1. Versions' = 1..(n + 1)
      BY <1>1, <2>5, <2>7 DEF NumberedUpTo
    <3>2. crossed' \/ (n + 1 = Len(mandate') /\ \A i \in DOMAIN mandate' : mandate'[i] = i)
      BY <1>1, <2>2, <2>4, <2>7 DEF NumberedUpTo
    <3>3. NumberedUpTo(n + 1)'
      BY <2>3, <2>6, <3>1, <3>2 DEF NumberedUpTo
    <3> QED
      BY <2>3, <3>3
  <2>8. CASE v # n + 1
    <3>1. Versions' = 1..n
      BY <1>1, <2>1, <2>5, <2>8 DEF NumberedUpTo
    <3>2. crossed'
      BY <2>2, <2>8
    <3>3. NumberedUpTo(n)'
      BY <2>6, <3>1, <3>2 DEF NumberedUpTo
    <3> QED
      BY <2>3, <3>3
  <2> QED
    BY <2>7, <2>8
<1>6. ASSUME NEW c \in Callers, Fail(c) PROVE MandateInv'
  <2>1. submission' = [submission EXCEPT ![c] = 0] /\ UNCHANGED <<mandate, crossed>>
    BY <1>6 DEF Fail, mandateVars
  <2>2. NumberedUpTo(n)'
    BY <1>1, <2>1 DEF NumberedUpTo, Versions
  <2> QED
    BY <2>1, <2>2
<1>7. ASSUME NEW a \in Assets, CreateCandidate(a) PROVE MandateInv'
  BY <1>3, <1>7 DEF CreateCandidate, mandateVars
<1>8. ASSUME NEW a \in Assets, NEW type \in Notes, NEW actor \in Noters, LogEvent(a, type, actor)
      PROVE  MandateInv'
  BY <1>3, <1>8 DEF LogEvent, mandateVars
<1>9. ASSUME NEW c \in Callers, NEW a \in Assets, NEW r \in Requests, Read(c, a, r)
      PROVE  MandateInv'
  BY <1>3, <1>9 DEF Read, mandateVars
<1>10. ASSUME NEW c \in Callers, Write(c) PROVE MandateInv'
  BY <1>3, <1>10 DEF Write, mandateVars
<1> QED
  BY <1>3, <1>4, <1>5, <1>6, <1>7, <1>8, <1>9, <1>10 DEF Next, vars

(* The mandates have no gaps, and are in order unless two overlapped.      *)
THEOREM MandatesNumbered == Spec => []MandatesAreNumbered
<1>1. MandateInv => MandatesAreNumbered
  <2> SUFFICES ASSUME MandateInv PROVE MandatesAreNumbered
    OBVIOUS
  <2>1. PICK n \in Nat : NumberedUpTo(n)
    BY DEF MandateInv
  <2>2. MaxVersion = n
    BY <2>1, HighestVersion DEF MandateInv, NumberedUpTo
  <2> QED
    BY <2>1, <2>2 DEF MandatesAreNumbered, NumberedUpTo, Versions, MandateInv
<1> QED
  BY <1>1, MandateInit, MandateStep, PTL DEF Spec

-----------------------------------------------------------------------------
LEMMA AssetsInit == Init => AssetsInv
<1> SUFFICES ASSUME Init PROVE AssetsInv
  OBVIOUS
<1>1. NoRow \in Row
  BY DEF NoRow, Row
<1>2. TypeOK
  <2>1. row \in [Assets -> Row] /\ history \in [Assets -> Seq(Event)]
    BY <1>1 DEF Init
  <2>2. call \in [Callers -> Calls]
    BY DEF Init, Calls
  <2>3. stale \subseteq Assets /\ mandate \in Seq(Nat) /\ submission \in [Callers -> Nat]
    BY DEF Init
  <2>4. crossed \in BOOLEAN
    BY Zenon DEF Init
  <2> QED
    BY <2>1, <2>2, <2>3, <2>4, Zenon DEF TypeOK
<1>3. \A a \in Assets : row[a].status = NULL /\ history[a] = <<>>
  BY DEF Init, NoRow
<1>4. \A c \in Callers : call[c] = Nowhere
  BY DEF Init
<1>5. Checked /\ SeenAccepted
  BY <1>4 DEF Checked, SeenAccepted
<1>6. NeverAutomatic /\ ValidatedIsComplete
  BY <1>3 DEF NeverAutomatic, ValidatedIsComplete, NULL
<1>7. DecisionIsLast /\ HistoryAgrees
  BY <1>3 DEF DecisionIsLast, HistoryAgrees
<1>8. Undecided /\ DecidedOnce
  BY <1>3 DEF Undecided, DecidedOnce, Happened, OwnerEvents
<1> QED
  BY <1>2, <1>5, <1>6, <1>7, <1>8 DEF AssetsInv

\* A step that leaves the assets alone and starts or drops calls.
LEMMA CallsStep ==
    ASSUME AssetsInv, MandateInv', UNCHANGED assetVars, call' \in [Callers -> Calls],
           \A c \in Callers : call'[c] # Nowhere =>
              \/ call'[c] = call[c]
              \/ /\ Permitted(call'[c].seen, call'[c].request)
                 /\ Complete(call'[c].request)
                 /\ call'[c].seen = row[call'[c].asset].status
                 /\ call'[c].asset \in Assets
    PROVE  AssetsInv'
<1> USE DEF AssetsInv, assetVars
<1>1. TypeOK'
  BY DEF TypeOK, MandateInv
<1>2. Checked'
  BY DEF Checked
<1>3. SeenAccepted'
  <2> SUFFICES ASSUME NEW c \in Callers, call'[c] # Nowhere,
                      call'[c].seen \in {"accepted", "internally_validated"}
               PROVE  Accepted(call[c].asset)'
    BY DEF SeenAccepted
  <2>1. CASE call'[c] = call[c]
    BY <2>1 DEF SeenAccepted, Accepted
  <2>2. CASE call'[c].asset \in Assets /\ call'[c].seen = row[call'[c].asset].status
    BY <2>2 DEF NeverAutomatic, Accepted
  <2> QED
    BY <2>1, <2>2
<1>4. /\ NeverAutomatic' /\ ValidatedIsComplete' /\ DecisionIsLast' /\ HistoryAgrees'
      /\ Undecided' /\ DecidedOnce'
  BY DEF NeverAutomatic, ValidatedIsComplete, DecisionIsLast, HistoryAgrees, Undecided,
         DecidedOnce, Happened
<1> QED
  BY <1>1, <1>2, <1>3, <1>4

\* An event that notes progress, at the end of the history of an asset.
LEMMA LogStep ==
    ASSUME AssetsInv, MandateInv', NEW a \in Assets, NEW type \in Notes, NEW actor \in Noters,
           LogEvent(a, type, actor)
    PROVE  AssetsInv'
<1> USE DEF AssetsInv
<1> DEFINE e == [type |-> type, actor |-> actor]  k == Len(history[a]) + 1
<1>1. /\ e \in Event /\ e.type = type
      /\ type \notin OwnerEvents /\ type \notin DOMAIN StatusAfter
  BY DEF Event, EventTypes, Actors, Notes, OwnerEvents, StatusAfter
<1>2. /\ UNCHANGED <<row, call, stale, submission, mandate, crossed>>
      /\ history' = [history EXCEPT ![a] = Append(history[a], e)]
      /\ row[a].status # NULL
  BY DEF LogEvent, Insert, mandateVars
<1> HIDE DEF e
<1>3. history \in [Assets -> Seq(Event)]
  BY DEF TypeOK
<1>4. /\ history'[a] = Append(history[a], e)
      /\ \A b \in Assets : b # a => history'[b] = history[b]
      /\ history' \in [Assets -> Seq(Event)]
  BY <1>1, <1>2, <1>3, AppendFacts
<1>5. /\ DOMAIN history'[a] = DOMAIN history[a] \cup {k}
      /\ k \notin DOMAIN history[a] /\ history'[a][k].type = type
      /\ \A i \in DOMAIN history[a] : history'[a][i] = history[a][i] /\ i \in Nat
  BY <1>1, <1>3, <1>4, AppendFacts
<1> HIDE DEF k
<1>6. TypeOK'
  BY <1>2, <1>4 DEF TypeOK, MandateInv
<1>7. Checked' /\ ValidatedIsComplete'
  BY <1>2 DEF Checked, ValidatedIsComplete
<1>8. \A b \in Assets : Accepted(b) => Accepted(b)'
  BY <1>4, <1>5 DEF Accepted
<1>9. NeverAutomatic'
  BY <1>2, <1>8 DEF NeverAutomatic, Accepted
<1>10. SeenAccepted'
  <2>1. \A c \in Callers : call[c] # Nowhere => call[c].asset \in Assets
    BY DEF TypeOK, Calls
  <2> QED
    BY <1>2, <1>8, <2>1 DEF SeenAccepted
<1>11. \A b \in Assets : \A t \in OwnerEvents : Happened(b, t)' = Happened(b, t)
  BY <1>1, <1>4, <1>5 DEF Happened
<1>12. DecisionIsLast'
  BY <1>1, <1>2, <1>4, <1>5 DEF DecisionIsLast
<1>13. HistoryAgrees'
  <2> SUFFICES ASSUME NEW b \in Assets \ stale, NEW i \in DOMAIN history'[b],
                      history'[b][i].type \in DOMAIN StatusAfter,
                      \A j \in DOMAIN history'[b] :
                          history'[b][j].type \in DOMAIN StatusAfter => j <= i
               PROVE  row[b].status = StatusAfter[history'[b][i].type]
    BY <1>2 DEF HistoryAgrees
  <2>1. i \in DOMAIN history[b] /\ history'[b][i] = history[b][i]
    BY <1>1, <1>4, <1>5
  <2>2. \A j \in DOMAIN history[b] :
           j \in DOMAIN history'[b] /\ history'[b][j] = history[b][j]
    BY <1>4, <1>5
  <2> QED
    BY <2>1, <2>2 DEF HistoryAgrees
<1>14. DecidedOnce' /\ Undecided'
  BY <1>2, <1>4, <1>11 DEF DecidedOnce, Undecided, OwnerEvents
<1> QED
  BY <1>6, <1>7, <1>9, <1>10, <1>12, <1>13, <1>14

\* A new candidate: a row with the first event of its history.
LEMMA CreateStep ==
    ASSUME AssetsInv, MandateInv', NEW a \in Assets, CreateCandidate(a)
    PROVE  AssetsInv'
<1> USE DEF AssetsInv
<1> DEFINE e == [type |-> "candidate_created", actor |-> "system"]
           R == [row[a] EXCEPT !.status = "candidate"]
<1>1. e \in Event
  BY DEF Event, EventTypes, Actors
<1>2. history[a] = <<>> /\ row[a] \in Row /\ row[a].status = NULL
  BY DEF CreateCandidate, Undecided, TypeOK
<1>3. /\ R \in Row /\ R.status = "candidate"
      /\ R.validation = row[a].validation /\ R.thesis = row[a].thesis
      /\ R.decision = row[a].decision
  BY <1>2 DEF Row, Statuses
<1>4. /\ row' = [row EXCEPT ![a] = R]
      /\ history' = [history EXCEPT ![a] = Append(history[a], e)]
      /\ UNCHANGED <<call, stale, submission, mandate, crossed>>
  BY DEF CreateCandidate, Insert, mandateVars
<1> HIDE DEF R
<1>5. row' \in [Assets -> Row] /\ row'[a] = R /\ \A b \in Assets : b # a => row'[b] = row[b]
  BY <1>3, <1>4 DEF TypeOK
<1>6. /\ history' \in [Assets -> Seq(Event)] /\ history'[a] = <<e>>
      /\ \A b \in Assets : b # a => history'[b] = history[b]
  BY <1>1, <1>2, <1>4 DEF TypeOK
<1>7. DOMAIN history'[a] = {1} /\ history'[a][1].type = "candidate_created"
  BY <1>6
<1>8. TypeOK'
  BY <1>4, <1>5, <1>6 DEF TypeOK, MandateInv
<1>9. Checked'
  BY <1>4 DEF Checked
<1>10. \A b \in Assets : b # a /\ Accepted(b) => Accepted(b)'
  BY <1>6 DEF Accepted
<1>11. ~Accepted(a)
  BY <1>2 DEF Accepted
<1>12. NeverAutomatic'
  BY <1>3, <1>5, <1>10 DEF NeverAutomatic, Accepted
<1>13. SeenAccepted'
  <2>1. \A c \in Callers : call[c] # Nowhere => call[c].asset \in Assets
    BY DEF TypeOK, Calls
  <2> QED
    BY <1>4, <1>10, <1>11, <2>1 DEF SeenAccepted
<1>14. ValidatedIsComplete'
  BY <1>3, <1>5 DEF ValidatedIsComplete
<1>15. DecisionIsLast'
  <2> SUFFICES ASSUME NEW b \in Assets, NEW i \in DOMAIN history'[b],
                      history'[b][i].type \in OwnerEvents,
                      \A j \in DOMAIN history'[b] :
                          history'[b][j].type \in OwnerEvents => j <= i
               PROVE  row'[b].decision = Decision(history'[b][i].type, NULL)
    BY DEF DecisionIsLast
  <2>1. b # a
    BY <1>7 DEF OwnerEvents
  <2>2. history'[b] = history[b] /\ row'[b] = row[b]
    BY <1>5, <1>6, <2>1
  <2> QED
    BY <2>2 DEF DecisionIsLast
<1>16. HistoryAgrees'
  BY <1>3, <1>4, <1>5, <1>6, <1>7 DEF HistoryAgrees, StatusAfter
<1>17. /\ \A b \in Assets : b # a => \A t \in OwnerEvents : Happened(b, t)' = Happened(b, t)
       /\ \A t \in OwnerEvents : Happened(a, t)' = {}
  BY <1>6, <1>7 DEF Happened, OwnerEvents
<1>18. Undecided'
  <2>1. \A b \in Assets : b # a => row'[b] = row[b] /\ history'[b] = history[b]
    BY <1>5, <1>6
  <2>2. row'[a].status # NULL
    BY <1>3, <1>5 DEF NULL
  <2> QED
    BY <1>4, <1>17, <2>1, <2>2 DEF Undecided, OwnerEvents
<1>19. DecidedOnce'
  BY <1>4, <1>17 DEF DecidedOnce, OwnerEvents
<1> QED
  BY <1>8, <1>9, <1>12, <1>13, <1>14, <1>15, <1>16, <1>18, <1>19

\* The write of a decision whose checks may have been made on an older status.
LEMMA WriteStep ==
    ASSUME AssetsInv, MandateInv', NEW c \in Callers, Write(c)
    PROVE  AssetsInv'
<1> USE DEF AssetsInv
<1>1. PICK a \in Assets, s \in Statuses, r \in Request :
         /\ call[c] # Nowhere
         /\ call[c].asset = a /\ call[c].seen = s /\ call[c].request = r
         /\ Permitted(s, r) /\ Complete(r)
         /\ row' = [row EXCEPT ![a] =
               [status |-> r.new,
                validation |-> Supplied(r.validation, row[a].validation),
                thesis |-> Supplied(r.thesis, row[a].thesis),
                decision |-> Decision(r.event, row[a].decision)]]
         /\ history' = [history EXCEPT ![a] =
               Append(history[a], [type |-> r.event, actor |-> r.actor])]
         /\ stale' = IF row[a].status = s THEN stale ELSE stale \cup {a}
         /\ call' = [call EXCEPT ![c] = Nowhere]
  BY WriteFacts
<1> DEFINE e == [type |-> r.event, actor |-> r.actor]
           R == [status |-> r.new,
                 validation |-> Supplied(r.validation, row[a].validation),
                 thesis |-> Supplied(r.thesis, row[a].thesis),
                 decision |-> Decision(r.event, row[a].decision)]
           k == Len(history[a]) + 1
<1>2. e \in Event /\ e.type = r.event /\ e.actor = r.actor
  BY DEF Event, Request
<1>3. /\ R \in Row /\ R.status = r.new
      /\ R.validation = Supplied(r.validation, row[a].validation)
      /\ R.thesis = Supplied(r.thesis, row[a].thesis)
      /\ R.decision = Decision(r.event, row[a].decision)
  <2>1. row[a] \in Row
    BY DEF TypeOK
  <2> QED
    BY <2>1 DEF Row, Request, Supplied, Decision
<1>4. row' = [row EXCEPT ![a] = R] /\ history' = [history EXCEPT ![a] = Append(history[a], e)]
  BY <1>1
<1> HIDE DEF e, R
<1>5. row' \in [Assets -> Row] /\ row'[a] = R /\ \A b \in Assets : b # a => row'[b] = row[b]
  BY <1>3, <1>4 DEF TypeOK
<1>6. history \in [Assets -> Seq(Event)]
  BY DEF TypeOK
<1>7. /\ history'[a] = Append(history[a], e)
      /\ \A b \in Assets : b # a => history'[b] = history[b]
      /\ history' \in [Assets -> Seq(Event)]
  BY <1>2, <1>4, <1>6, AppendFacts
<1>8. /\ DOMAIN history'[a] = DOMAIN history[a] \cup {k}
      /\ k \notin DOMAIN history[a] /\ history'[a][k] = e /\ k \in Nat
      /\ \A i \in DOMAIN history[a] :
            history'[a][i] = history[a][i] /\ i \in Nat /\ i < k
  BY <1>2, <1>6, <1>7, AppendFacts
<1> HIDE DEF k
<1>9. /\ r.new \in {"accepted", "internally_validated"} =>
            s = "accepted" \/ (r.event = "owner_accepted" /\ r.actor = "owner")
      /\ r.event \in DOMAIN StatusAfter => r.new = StatusAfter[r.event]
      /\ r.event \notin DOMAIN StatusAfter => r.new = "accepted" /\ s = "accepted"
      /\ r.event = "owner_accepted" => s \in {"candidate", "rejected"}
      /\ r.event = "owner_rejected" => s = "candidate"
      /\ r.new # "candidate" /\ (r.new = "rejected" => r.event = "owner_rejected")
  BY <1>1, MoveFacts
<1>10. TypeOK'
  BY <1>1, <1>5, <1>7 DEF TypeOK, Calls, MandateInv
<1>11. Checked'
  BY <1>1 DEF Checked, TypeOK
<1>12. \A b \in Assets : Accepted(b) => Accepted(b)'
  BY <1>7, <1>8 DEF Accepted
<1>13. r.new \in {"accepted", "internally_validated"} => Accepted(a)'
  <2>1. CASE s = "accepted"
    BY <1>1, <1>12, <2>1 DEF SeenAccepted
  <2>2. CASE r.event = "owner_accepted" /\ r.actor = "owner"
    <3>1. e = [type |-> "owner_accepted", actor |-> "owner"]
      BY <2>2 DEF e
    <3> QED
      BY <1>8, <3>1 DEF Accepted
  <2> QED
    BY <1>9, <2>1, <2>2
<1>14. NeverAutomatic'
  BY <1>3, <1>5, <1>12, <1>13 DEF NeverAutomatic, Accepted
<1>15. SeenAccepted'
  <2>1. \A d \in Callers : call[d] # Nowhere => call[d].asset \in Assets
    BY DEF TypeOK, Calls
  <2>2. \A d \in Callers : call'[d] # Nowhere => call'[d] = call[d]
    BY <1>1 DEF TypeOK
  <2> QED
    BY <1>12, <2>1, <2>2 DEF SeenAccepted
<1>16. ValidatedIsComplete'
  BY <1>1, <1>3, <1>5 DEF ValidatedIsComplete, Complete, Supplied, NULL
<1>17. DecisionIsLast'
  <2> SUFFICES ASSUME NEW b \in Assets, NEW i \in DOMAIN history'[b],
                      history'[b][i].type \in OwnerEvents,
                      \A j \in DOMAIN history'[b] :
                          history'[b][j].type \in OwnerEvents => j <= i
               PROVE  row'[b].decision = Decision(history'[b][i].type, NULL)
    BY DEF DecisionIsLast
  <2>1. CASE b # a
    BY <1>5, <1>7, <2>1 DEF DecisionIsLast
  <2>2. CASE b = a /\ r.event \in OwnerEvents
    <3>1. i = k
      BY <1>2, <1>8, <2>2
    <3> QED
      BY <1>2, <1>3, <1>5, <1>8, <2>2, <3>1 DEF Decision, OwnerEvents
  <2>3. CASE b = a /\ r.event \notin OwnerEvents
    <3>1. i \in DOMAIN history[a] /\ history'[a][i] = history[a][i]
      BY <1>2, <1>8, <2>3
    <3>2. \A j \in DOMAIN history[a] :
             j \in DOMAIN history'[a] /\ history'[a][j] = history[a][j]
      BY <1>8
    <3>3. row[a].decision = Decision(history[a][i].type, NULL)
      BY <2>3, <3>1, <3>2 DEF DecisionIsLast
    <3>4. R.decision = row[a].decision
      BY <1>3, <2>3 DEF Decision, OwnerEvents
    <3> QED
      BY <1>5, <2>3, <3>1, <3>3, <3>4
  <2> QED
    BY <2>1, <2>2, <2>3
\* The asset is still what the caller saw, or it is stale from now on.
<1>18. stale \subseteq stale' /\ (a \notin stale' => row[a].status = s)
  BY <1>1
<1>19. HistoryAgrees'
  <2> SUFFICES ASSUME NEW b \in Assets \ stale', NEW i \in DOMAIN history'[b],
                      history'[b][i].type \in DOMAIN StatusAfter,
                      \A j \in DOMAIN history'[b] :
                          history'[b][j].type \in DOMAIN StatusAfter => j <= i
               PROVE  row'[b].status = StatusAfter[history'[b][i].type]
    BY DEF HistoryAgrees
  <2>1. CASE b # a
    <3>1. history'[b] = history[b] /\ row'[b] = row[b] /\ b \in Assets \ stale
      BY <1>5, <1>7, <1>18, <2>1
    <3> QED
      BY <3>1 DEF HistoryAgrees
  <2>2. CASE b = a /\ r.event \in DOMAIN StatusAfter
    <3>1. i = k
      BY <1>2, <1>8, <2>2
    <3> QED
      BY <1>2, <1>3, <1>5, <1>8, <1>9, <2>2, <3>1
  <2>3. CASE b = a /\ r.event \notin DOMAIN StatusAfter
    <3>1. i \in DOMAIN history[a] /\ history'[a][i] = history[a][i]
      BY <1>2, <1>8, <2>3
    <3>2. \A j \in DOMAIN history[a] :
             j \in DOMAIN history'[a] /\ history'[a][j] = history[a][j]
      BY <1>8
    <3>3. row[a].status = StatusAfter[history[a][i].type]
      BY <1>18, <2>3, <3>1, <3>2 DEF HistoryAgrees
    <3> QED
      BY <1>3, <1>5, <1>9, <1>18, <2>3, <3>1, <3>3
  <2> QED
    BY <2>1, <2>2, <2>3
<1>20. \A b \in Assets : b # a => \A t \in OwnerEvents : Happened(b, t)' = Happened(b, t)
  BY <1>7 DEF Happened
<1>21. \A t \in OwnerEvents :
          Happened(a, t)' = IF r.event = t THEN Happened(a, t) \cup {k} ELSE Happened(a, t)
  BY <1>2, <1>8 DEF Happened
<1>22. Undecided'
  <2> SUFFICES ASSUME NEW b \in Assets
               PROVE  /\ row'[b].status = NULL => history'[b] = <<>>
                      /\ b \notin stale' /\ row'[b].status \in {"candidate", "rejected"}
                            => Happened(b, "owner_accepted")' = {}
                      /\ b \notin stale' /\ row'[b].status = "candidate"
                            => Happened(b, "owner_rejected")' = {}
    BY DEF Undecided
  <2>1. CASE b # a
    BY <1>5, <1>7, <1>18, <1>20, <2>1 DEF Undecided, OwnerEvents
  <2>2. CASE b = a
    BY <1>3, <1>5, <1>9, <1>18, <1>21, <2>2
       DEF Undecided, OwnerEvents, Request, Statuses, NULL
  <2> QED
    BY <2>1, <2>2
<1>23. DecidedOnce'
  <2> SUFFICES ASSUME NEW b \in Assets \ stale'
               PROVE  /\ \A t \in OwnerEvents : \A i, j \in Happened(b, t)' : i = j
                      /\ \A i \in Happened(b, "owner_rejected")',
                            j \in Happened(b, "owner_accepted")' : i < j
    BY DEF DecidedOnce
  <2>1. CASE b # a
    BY <1>18, <1>20, <2>1 DEF DecidedOnce, OwnerEvents
  <2>2. CASE b = a
    <3>1. /\ r.event = "owner_accepted" => Happened(a, "owner_accepted") = {}
          /\ r.event = "owner_rejected" => Happened(a, "owner_rejected") = {}
                                           /\ Happened(a, "owner_accepted") = {}
      BY <1>9, <1>18, <2>2 DEF Undecided
    <3>2. \A t \in OwnerEvents : \A i \in Happened(a, t) : i < k
      BY <1>8 DEF Happened
    <3>3. /\ \A t \in OwnerEvents : \A i, j \in Happened(a, t) : i = j
          /\ \A i \in Happened(a, "owner_rejected"), j \in Happened(a, "owner_accepted") : i < j
      BY <1>18, <2>2 DEF DecidedOnce
    <3> QED
      BY <1>21, <2>2, <3>1, <3>2, <3>3 DEF OwnerEvents
  <2> QED
    BY <2>1, <2>2
<1> QED
  BY <1>10, <1>11, <1>14, <1>15, <1>16, <1>17, <1>19, <1>22, <1>23

LEMMA AssetsStep == AssetsInv /\ MandateInv /\ [Next]_vars => AssetsInv'
<1> SUFFICES ASSUME AssetsInv, MandateInv, [Next]_vars PROVE AssetsInv'
  OBVIOUS
<1>1. MandateInv'
  BY MandateStep
<1>2. call \in [Callers -> Calls] /\ Nowhere \in Calls
  BY DEF AssetsInv, TypeOK, Calls
<1>3. CASE UNCHANGED <<assetVars, call>>
  BY <1>1, <1>2, <1>3, CallsStep
<1>4. ASSUME NEW c \in Callers, NEW a \in Assets, NEW r \in Requests, Read(c, a, r)
      PROVE  AssetsInv'
  <2> DEFINE q == [asset |-> a, seen |-> row[a].status, request |-> r]
  <2>1. call' = [call EXCEPT ![c] = q] /\ UNCHANGED assetVars
    BY <1>4 DEF Read
  <2>2. row[a].status \in Statuses /\ Permitted(row[a].status, r) /\ Complete(r)
    BY <1>4 DEF Read, AssetsInv, TypeOK, Row
  <2>3. q \in Calls /\ q.asset = a /\ q.seen = row[a].status /\ q.request = r
    BY <2>2 DEF Calls
  <2> HIDE DEF q
  <2>4. call' \in [Callers -> Calls]
    BY <1>2, <2>1, <2>3
  <2> QED
    BY <1>1, <1>2, <2>1, <2>2, <2>3, <2>4, CallsStep
<1>5. ASSUME NEW c \in Callers, Fail(c) PROVE AssetsInv'
  <2>1. call' = [call EXCEPT ![c] = Nowhere] /\ UNCHANGED assetVars
    BY <1>5 DEF Fail
  <2> QED
    BY <1>1, <1>2, <2>1, CallsStep
<1>6. ASSUME NEW c \in Callers, ReadVersion(c) \/ InsertMandate(c) PROVE AssetsInv'
  BY <1>3, <1>6 DEF ReadVersion, InsertMandate
<1>7. CASE UNCHANGED vars
  BY <1>3, <1>7 DEF vars, assetVars
<1> QED
  BY <1>1, <1>4, <1>5, <1>6, <1>7, CreateStep, LogStep, WriteStep DEF Next

-----------------------------------------------------------------------------
(* Every assertion about an asset, from the inductive invariant.           *)
THEOREM AssetsSafe == Spec => []AssetsInv
BY AssetsInit, AssetsStep, MandateInit, MandateStep, PTL DEF Spec

(* Type correctness. *)
THEOREM RecordsTyped == Spec => []TypeOK
<1>1. AssetsInv => TypeOK
  BY DEF AssetsInv
<1> QED
  BY <1>1, AssetsSafe, PTL

(* The system accepts nothing: an asset past candidate and rejected has    *)
(* been accepted by the Owner, whatever overlaps.                          *)
THEOREM OwnerAccepts == Spec => []NeverAutomatic
<1>1. AssetsInv => NeverAutomatic
  BY DEF AssetsInv
<1> QED
  BY <1>1, AssetsSafe, PTL

(* A validated asset has its thesis and its passed validation, whatever    *)
(* overlaps.                                                               *)
THEOREM ValidationComplete == Spec => []ValidatedIsComplete
<1>1. AssetsInv => ValidatedIsComplete
  BY DEF AssetsInv
<1> QED
  BY <1>1, AssetsSafe, PTL

(* The recorded decision is the Owner's last one, whatever overlaps.       *)
THEOREM LastDecision == Spec => []DecisionIsLast
<1>1. AssetsInv => DecisionIsLast
  BY DEF AssetsInv
<1> QED
  BY <1>1, AssetsSafe, PTL

(* Status and history agree on every asset that was not decided on twice   *)
(* at once.                                                                *)
THEOREM StatusIsHistory == Spec => []HistoryAgrees
<1>1. AssetsInv => HistoryAgrees
  BY DEF AssetsInv
<1> QED
  BY <1>1, AssetsSafe, PTL

(* No decision is duplicated on such an asset. *)
THEOREM NoSecondDecision == Spec => []DecidedOnce
<1>1. AssetsInv => DecidedOnce
  BY DEF AssetsInv
<1> QED
  BY <1>1, AssetsSafe, PTL
=============================================================================
