-------------------------- MODULE PartnerApiProofs --------------------------
(***************************************************************************)
(* Proofs about PartnerApi, for any set of calls, of ids and of inputs:    *)
(* its inductive invariant, and that it implements PartnerLedger.          *)
(***************************************************************************)
EXTENDS PartnerApi, FiniteSetTheorems, TLAPS

-----------------------------------------------------------------------------
(* The conversions and the requests.                                       *)

\* What the conversions between wire numbers and texts return.
LEMMA TextTypes ==
    /\ \A n : tierToText(n) \in Tiers \cup {""}
    /\ \A n : statusToText(n) \in Statuses
    /\ \A n : statusLabel(n) \in Messages
    /\ \A s \in Tiers \cup {""} : Coalesce(s, "starter") \in Tiers
    /\ \A s \in Statuses : Coalesce(s, "pending") \in Statuses
  BY DEF tierToText, statusToText, statusLabel, Coalesce, Tiers, Statuses, Messages

\* A row inserted by a call has the type of a row.
LEMMA NewRowType ==
    ASSUME NEW r \in Calls, NEW tier \in Tiers \cup {""}, NEW status \in Statuses
    PROVE  NewRow(r, tier, status) \in Row
  BY TextTypes DEF NewRow, Row, Writers

\* Validation answers "ok" or one of the errors a row is reported with.
LEMMA ValidationTypes ==
    ASSUME NEW in \in Inputs
    PROVE  ~ValidInput(in) => validatePartnerInput(in) \in RowErrors
  <1>1. in.name \in {"blank", "given"} /\ in.email \in {"blank", "malformed", "good"}
    BY ArgAssumption
  <1> QED
    BY <1>1 DEF ValidInput, validatePartnerInput, RowErrors

\* What the fields of a request hold.
LEMMA RequestTypes ==
    ASSUME NEW q \in Requests
    PROVE  /\ q.op \in AllOps
           /\ q.id \in PartnerIds \cup {BlankId, BadId}
           /\ q.status \in Nat
           /\ \A i \in DOMAIN q.rows : q.rows[i] \in Inputs /\ i \in Nat
  <1>1. \A i \in DOMAIN <<>> : FALSE
    OBVIOUS
  <1>2. \A s \in OneInput \cup Batches : \A i \in DOMAIN s : s[i] \in Inputs /\ i \in Nat
    BY ArgAssumption DEF OneInput, Batches
  <1>3. \/ q \in Ask("ListPartners", {BlankId}, {0}, {<<>>})
        \/ q \in Ask("AgentListPartners", {BlankId}, {0}, {<<>>})
        \/ q \in Ask("GetPartner", IdArgs, {0}, {<<>>})
        \/ q \in Ask("CreatePartner", {BlankId}, {0}, OneInput)
        \/ q \in Ask("SubmitOnboarding", {BlankId}, {0}, OneInput)
        \/ q \in Ask("UpdatePartnerStatus", IdArgs, StatusArgs, {<<>>})
        \/ q \in Ask("BulkImportPartners", {BlankId}, {0}, Batches)
    BY DEF Requests
  <1>4. /\ q.op \in AllOps
        /\ q.id \in IdArgs \cup {BlankId}
        /\ q.status \in StatusArgs \cup {0}
        /\ q.rows \in OneInput \cup Batches \/ q.rows = <<>>
    <2>1. \A op, ids, numbers, rowss : q \in Ask(op, ids, numbers, rowss) =>
             q.op = op /\ q.id \in ids /\ q.status \in numbers /\ q.rows \in rowss
      BY DEF Ask
    <2>2. q.op \in AllOps
      BY <1>3, <2>1 DEF AllOps, ReadOps, AuditedOps, EntryOps
    <2>3. q.id \in IdArgs \cup {BlankId} /\ q.status \in StatusArgs \cup {0}
      BY <1>3, <2>1
    <2>4. q.rows \in OneInput \cup Batches \/ q.rows \in {<<>>}
      BY <1>3, <2>1
    <2> QED
      BY <2>2, <2>3, <2>4
  <1>5. \A i \in DOMAIN q.rows : q.rows[i] \in Inputs /\ i \in Nat
    <2>1. CASE q.rows = <<>>
      BY <2>1, <1>1
    <2>2. CASE q.rows \in OneInput \cup Batches
      BY <2>2, <1>2
    <2> QED
      BY <2>1, <2>2, <1>4
  <1>6. q.id \in PartnerIds \cup {BlankId, BadId}
    BY <1>4, IdAssumption
  <1>7. q.status \in Nat
    <2>1. StatusArgs \subseteq Nat
      BY ArgAssumption
    <2>2. \A n \in StatusArgs \cup {0} : n \in Nat
      BY <2>1
    <2> QED
      BY <1>4, <2>2
  <1> QED
    BY <1>4, <1>5, <1>6, <1>7

-----------------------------------------------------------------------------
(* Types.                                                                  *)

\* The empty frame of a call has the type of a frame.
LEMMA FrameTypes == NoFrame \in Frame
  BY DEF NoFrame, Frame, NoTable, Table

LEMMA InitType == Init => TypeOK
  <1> SUFFICES ASSUME Init PROVE TypeOK
    OBVIOUS
  <1>1. SeedRow \in Row
    BY DEF SeedRow, Row, Tiers, Statuses, Writers
  <1>2. partners \in Table
    BY <1>1 DEF Init, Table
  <1> QED
    BY <1>2, FrameTypes DEF Init, TypeOK, Codes, Statements

\* What Goto and Answer leave behind.
LEMMA PcTypes ==
    ASSUME TypeOK, NEW r \in Calls
    PROVE  /\ \A l \in Statements : Goto(r, l) =>
                 pc' \in [Calls -> Statements \cup {"waiting", "done"}] /\ code' \in [Calls -> Codes]
           /\ \A c \in Codes : Answer(r, c) =>
                 pc' \in [Calls -> Statements \cup {"waiting", "done"}] /\ code' \in [Calls -> Codes]
  BY DEF TypeOK, Goto, Answer

LEMMA ReceiveType ==
    ASSUME TypeOK, NEW r \in Calls, Receive(r)
    PROVE  TypeOK'
  <1>1. PICK q \in Requests :
           /\ req' = [req EXCEPT ![r] = q]
           /\ IF Malformed(q) THEN Answer(r, "invalid_argument") ELSE Goto(r, FirstStatement(q.op))
    BY DEF Receive
  <1>2. FirstStatement(q.op) \in Statements /\ "invalid_argument" \in Codes
    BY DEF FirstStatement, Statements, Codes
  <1>3. pc' \in [Calls -> Statements \cup {"waiting", "done"}] /\ code' \in [Calls -> Codes]
    BY <1>1, <1>2, PcTypes
  <1>4. req' \in [Calls -> Requests \cup {NoRequest}]
    BY <1>1 DEF TypeOK
  <1>5. settled' \in [Calls -> SUBSET Calls]
    BY DEF TypeOK, Receive
  <1> QED
    BY <1>3, <1>4, <1>5 DEF TypeOK, Receive, tables

LEMMA ReadPartnersType ==
    ASSUME TypeOK, NEW r \in Calls, ReadPartners(r)
    PROVE  TypeOK'
  <1>1. frame' \in [Calls -> Frame]
    BY DEF TypeOK, ReadPartners, Frame
  <1>2. "count" \in Statements
    BY DEF Statements
  <1> QED
    BY <1>1, <1>2, PcTypes DEF TypeOK, ReadPartners, tables, log

LEMMA ReadCountsType ==
    ASSUME TypeOK, NEW r \in Calls, ReadCounts(r)
    PROVE  TypeOK'
  <1>1. \A status : CountByStatus(status) \in Nat
    <2>1. \A status : {p \in Present : partners[p].status = status} \subseteq PartnerIds
      BY DEF Present
    <2> QED
      BY <2>1, IdAssumption, FS_Subset, FS_CardinalityType DEF CountByStatus
  <1>2. frame' \in [Calls -> Frame]
    <2>1. [frame[r] EXCEPT !.active = CountByStatus("active"),
                           !.pending = CountByStatus("pending")] \in Frame
      BY <1>1 DEF TypeOK, Frame
    <2> QED
      BY <2>1 DEF TypeOK, ReadCounts
  <1>3. "ok" \in Codes
    BY DEF Codes
  <1> QED
    BY <1>2, <1>3, PcTypes DEF TypeOK, ReadCounts, tables, log

LEMMA ReadPartnerType ==
    ASSUME TypeOK, NEW r \in Calls, ReadPartner(r)
    PROVE  TypeOK'
  <1>1. "activities" \in Statements /\ "not_found" \in Codes
    BY DEF Statements, Codes
  <1>2. CASE req[r].id \in Present
    <2>1. req[r].id \in PartnerIds /\ partners[req[r].id] \in Row
      BY <1>2 DEF TypeOK, Present, Table
    <2>2. [frame[r].shown EXCEPT ![req[r].id] = partners[req[r].id]] \in Table
      BY <2>1 DEF TypeOK, Frame, Table
    <2>3. [frame[r] EXCEPT !.id = req[r].id, !.shown[req[r].id] = partners[req[r].id]] \in Frame
      BY <2>1, <2>2 DEF TypeOK, Frame
    <2>4. frame' \in [Calls -> Frame]
      BY <1>2, <2>3 DEF TypeOK, ReadPartner
    <2> QED
      BY <1>1, <1>2, <2>4, PcTypes DEF TypeOK, ReadPartner, tables, log
  <1>3. CASE req[r].id \notin Present
    BY <1>1, <1>3, PcTypes DEF TypeOK, ReadPartner, tables, log
  <1> QED
    BY <1>2, <1>3

LEMMA ReadActivitiesType ==
    ASSUME TypeOK, NEW r \in Calls, ReadActivities(r)
    PROVE  TypeOK'
  <1>1. {i \in DOMAIN activities : activities[i].partner = frame[r].id} \in SUBSET Nat
    BY DEF TypeOK
  <1>2. frame' \in [Calls -> Frame]
    BY <1>1 DEF TypeOK, ReadActivities, Frame
  <1>3. "ok" \in Codes
    BY DEF Codes
  <1> QED
    BY <1>2, <1>3, PcTypes DEF TypeOK, ReadActivities, tables, log

\* An inserted row keeps the types, whatever the handler does with the reply.
LEMMA InsertRowType ==
    ASSUME TypeOK, NEW r \in Calls, NEW p \in PartnerIds,
           NEW tier \in Tiers \cup {""}, NEW status \in Statuses,
           InsertRow(r, p, tier, status)
    PROVE  partners' \in Table /\ wrote' \in [Calls -> SUBSET PartnerIds]
  <1>1. NewRow(r, tier, status) \in Row
    BY NewRowType
  <1> QED
    BY <1>1 DEF TypeOK, InsertRow, Table

LEMMA InsertPartnerType ==
    ASSUME TypeOK, NEW r \in Calls, NEW tier \in Tiers \cup {""}, NEW status \in Statuses,
           InsertPartner(r, tier, status)
    PROVE  TypeOK'
  <1>1. PICK p \in FreshIds :
           /\ InsertRow(r, p, tier, status)
           /\ \/ Goto(r, "record") /\ frame' = [frame EXCEPT ![r].id = p]
              \/ Answer(r, "internal") /\ UNCHANGED frame
    BY DEF InsertPartner
  <1>2. p \in PartnerIds
    BY DEF FreshIds
  <1>3. partners' \in Table /\ wrote' \in [Calls -> SUBSET PartnerIds]
    BY <1>1, <1>2, InsertRowType
  <1>4. [frame[r] EXCEPT !.id = p] \in Frame
    BY <1>2 DEF TypeOK, Frame
  <1>5. frame' \in [Calls -> Frame]
    BY <1>1, <1>4 DEF TypeOK
  <1>6. "record" \in Statements /\ "internal" \in Codes
    BY DEF Statements, Codes
  <1>7. pc' \in [Calls -> Statements \cup {"waiting", "done"}] /\ code' \in [Calls -> Codes]
    BY <1>1, <1>6, PcTypes
  <1> QED
    BY <1>3, <1>5, <1>7 DEF TypeOK, InsertPartner

LEMMA UpdateRowType ==
    ASSUME TypeOK, NEW r \in Calls, UpdateRow(r)
    PROVE  TypeOK'
  <1>1. {"record"} \subseteq Statements /\ {"internal", "not_found"} \subseteq Codes
    BY DEF Statements, Codes
  <1>2. pc' \in [Calls -> Statements \cup {"waiting", "done"}] /\ code' \in [Calls -> Codes]
    BY <1>1, PcTypes DEF UpdateRow
  <1>3. CASE req[r].id \in Present
    <2>1. req[r].id \in PartnerIds /\ partners[req[r].id] \in Row
      BY <1>3 DEF TypeOK, Present, Table
    <2>2. [partners[req[r].id] EXCEPT !.status = statusToText(req[r].status), !.by = r] \in Row
      BY <2>1, TextTypes DEF Row, Writers
    <2>3. partners' \in Table
      BY <1>3, <2>1, <2>2 DEF TypeOK, UpdateRow, Table
    <2>4. wrote' \in [Calls -> SUBSET PartnerIds]
      BY <1>3, <2>1 DEF TypeOK, UpdateRow
    <2>5. [frame[r] EXCEPT !.id = req[r].id] \in Frame
      BY <2>1 DEF TypeOK, Frame
    <2>6. frame' \in [Calls -> Frame]
      BY <1>3, <2>5 DEF TypeOK, UpdateRow
    <2> QED
      BY <1>2, <2>3, <2>4, <2>6 DEF TypeOK, UpdateRow
  <1>4. CASE req[r].id \notin Present
    BY <1>2, <1>4 DEF TypeOK, UpdateRow
  <1> QED
    BY <1>3, <1>4

\* The message of an activity is one of the known ones, and it is about a partner
\* once the handler has reached it.
LEMMA RecordType ==
    ASSUME TypeOK, NEW r \in Calls, frame[r].id \in PartnerIds,
           NEW type \in ActivityTypes, NEW message \in Messages, Record(r, type, message)
    PROVE  TypeOK'
  <1>1. [partner |-> frame[r].id, type |-> type, message |-> message, by |-> r] \in Activity
    BY DEF Activity
  <1>2. activities' \in Seq(Activity)
    BY <1>1 DEF TypeOK, Record, InsertActivity
  <1>3. {"ok", "internal"} \subseteq Codes
    BY DEF Codes
  <1>4. pc' \in [Calls -> Statements \cup {"waiting", "done"}] /\ code' \in [Calls -> Codes]
    BY <1>3, PcTypes DEF Record
  <1> QED
    BY <1>2, <1>4 DEF TypeOK, Record, log

\* The row a bulk import is at is an input.
LEMMA CurrentRowType ==
    ASSUME TypeOK, NEW r \in Calls, AtRow(r)
    PROVE  CurrentRow(r) \in Inputs /\ frame[r].row \in Nat
  <1>1. req[r] # NoRequest
    BY DEF AtRow, NoRequest
  <1> QED
    BY <1>1, RequestTypes DEF TypeOK, AtRow, CurrentRow, Frame

\* The counters of the loop stay numbers.
LEMMA NextNumber == \A n \in Nat : n + 1 \in Nat
  OBVIOUS

LEMMA RowRejectedType ==
    ASSUME TypeOK, NEW r \in Calls, NEW message \in RowErrors, RowRejected(r, message)
    PROVE  frame' \in [Calls -> Frame]
  <1> DEFINE e == [row |-> frame[r].row, message |-> message]
  <1>1. frame[r] \in Frame
    BY DEF TypeOK
  <1>2. /\ frame[r].row \in Nat /\ frame[r].row + 1 \in Nat
        /\ Append(frame[r].errors, e) \in Seq([row: Nat, message: RowErrors])
    BY <1>1, NextNumber DEF Frame
  <1>3. [frame[r] EXCEPT !.row = frame[r].row + 1, !.errors = Append(frame[r].errors, e)] \in Frame
    BY <1>1, <1>2 DEF Frame
  <1> QED
    BY <1>3 DEF TypeOK, RowRejected

LEMMA RowImportedType ==
    ASSUME TypeOK, NEW r \in Calls, RowImported(r)
    PROVE  frame' \in [Calls -> Frame]
  <1>1. frame[r] \in Frame
    BY DEF TypeOK
  <1>2. frame[r].row + 1 \in Nat /\ frame[r].imported + 1 \in Nat
    BY <1>1, NextNumber DEF Frame
  <1>3. [frame[r] EXCEPT !.row = frame[r].row + 1, !.imported = frame[r].imported + 1] \in Frame
    BY <1>1, <1>2 DEF Frame
  <1> QED
    BY <1>3 DEF TypeOK, RowImported

LEMMA BulkImportType ==
    ASSUME TypeOK, NEW r \in Calls, BulkImportPartners(r)
    PROVE  TypeOK'
  <1>1. "failed to save row" \in RowErrors
    BY DEF RowErrors
  <1>2. CASE RejectRow(r)
    <2>1. validatePartnerInput(CurrentRow(r)) \in RowErrors
      BY <1>2, CurrentRowType, ValidationTypes DEF RejectRow
    <2> QED
      BY <1>2, <2>1, RowRejectedType DEF TypeOK, RejectRow, tables, log
  <1>3. CASE SaveRow(r)
    <2>1. PICK p \in PartnerIds : InsertRow(r, p, tierToText(CurrentRow(r).tier), statusToText(2))
      BY <1>3 DEF SaveRow, FreshIds
    <2>2. partners' \in Table /\ wrote' \in [Calls -> SUBSET PartnerIds]
      BY <2>1, InsertRowType, TextTypes
    <2>3. frame' \in [Calls -> Frame]
      BY <1>1, <1>3, RowRejectedType, RowImportedType DEF SaveRow
    <2> QED
      BY <1>3, <2>2, <2>3 DEF TypeOK, SaveRow
  <1>4. CASE SaveRowFails(r)
    BY <1>1, <1>4, RowRejectedType DEF TypeOK, SaveRowFails, tables, log
  <1>5. CASE ImportEnds(r)
    <2>1. "ok" \in Codes
      BY DEF Codes
    <2> QED
      BY <1>5, <2>1, PcTypes DEF TypeOK, ImportEnds, tables, log
  <1> QED
    BY <1>2, <1>3, <1>4, <1>5 DEF BulkImportPartners

LEMMA StatementFailsType ==
    ASSUME TypeOK, NEW r \in Calls, StatementFails(r)
    PROVE  TypeOK'
  <1>1. "internal" \in Codes
    BY DEF Codes
  <1> QED
    BY <1>1, PcTypes DEF TypeOK, StatementFails, tables, log

LEMMA CrashType ==
    ASSUME TypeOK, Crash
    PROVE  TypeOK'
  <1>1. "lost" \in Codes
    BY DEF Codes
  <1> QED
    BY <1>1 DEF TypeOK, Crash, tables, log

-----------------------------------------------------------------------------
(* The inductive invariant.                                                *)

NoEntryOf(r) == \A i \in DOMAIN activities : activities[i].by # r

OneEntryOf(r, p) ==
    \E i \in DOMAIN activities :
        /\ activities[i].by = r
        /\ activities[i].partner = p
        /\ \A j \in DOMAIN activities : activities[j].by = r => j = i

\* What a call has done, by where it is: nothing up to its write, one row and
\* no activity before its Record, and at the end what its answer says.
CallInv(r) ==
    /\ pc[r] # "done" => code[r] = "none" /\ NoEntryOf(r)
    /\ pc[r] \notin {"record", "row", "done"} => wrote[r] = {}
    /\ pc[r] = "record" => frame[r].id \in PartnerIds /\ wrote[r] = {frame[r].id}
    /\ code[r] = "ok" /\ Audited(r) => \E p \in PartnerIds : wrote[r] = {p} /\ OneEntryOf(r, p)
    /\ code[r] \in {"invalid_argument", "not_found"} => wrote[r] = {} /\ NoEntryOf(r)

\* An activity is about a row its call wrote, and is the only one of that call.
EntriesInv ==
    \A i \in DOMAIN activities :
        /\ activities[i].partner \in wrote[activities[i].by]
        /\ \A j \in DOMAIN activities : activities[j].by = activities[i].by => j = i

\* Who wrote a row is on record, and the row has the status its last writer gave.
RowInv(p) ==
    partners[p] # NoRow =>
        /\ partners[p].from # Seed => p \in wrote[partners[p].from]
        /\ partners[p].by # Seed => /\ p \in wrote[partners[p].by]
                                    /\ partners[p].status = StatusWrittenBy(req[partners[p].by])
        /\ partners[p].by # partners[p].from =>
              partners[p].by # Seed /\ req[partners[p].by].op = "UpdatePartnerStatus"

IInv ==
    /\ TypeOK
    /\ \A r \in Calls : CallInv(r)
    /\ EntriesInv
    /\ \A p \in PartnerIds : RowInv(p)

LEMMA InitInv == Init => IInv
  <1> SUFFICES ASSUME Init PROVE IInv
    OBVIOUS
  <1>1. activities = <<>> /\ DOMAIN activities = {}
    BY DEF Init
  <1>2. \A r \in Calls : CallInv(r)
    BY <1>1 DEF Init, CallInv, NoEntryOf
  <1>3. EntriesInv
    BY <1>1 DEF EntriesInv
  <1>4. \A p \in PartnerIds : RowInv(p)
    BY DEF Init, RowInv, SeedRow
  <1> QED
    BY <1>2, <1>3, <1>4, InitType DEF IInv

\* What appending an activity does to the log.
LEMMA AppendEntry ==
    ASSUME TypeOK, NEW e, activities' = Append(activities, e)
    PROVE  /\ DOMAIN activities' = DOMAIN activities \cup {Len(activities) + 1}
           /\ Len(activities) + 1 \notin DOMAIN activities
           /\ activities'[Len(activities) + 1] = e
           /\ \A i \in DOMAIN activities : activities'[i] = activities[i]
  BY DEF TypeOK

\* A step of r leaves the other calls as they were, also when it logs.
LEMMA OthersKeep ==
    ASSUME IInv, NEW r \in Calls, NEW s \in Calls, s # r,
           pc'[s] = pc[s], code'[s] = code[s], frame'[s] = frame[s],
           req'[s] = req[s], wrote'[s] = wrote[s],
           \/ activities' = activities
           \/ \E e : e.by = r /\ activities' = Append(activities, e)
    PROVE  CallInv(s)'
  <1>1. NoEntryOf(s) => NoEntryOf(s)'
    BY AppendEntry DEF NoEntryOf, IInv
  <1>2. ASSUME NEW p \in PartnerIds, OneEntryOf(s, p)
        PROVE  OneEntryOf(s, p)'
    BY <1>2, AppendEntry DEF OneEntryOf, IInv
  <1>3. CallInv(s)
    BY DEF IInv
  <1>4. Audited(s)' = Audited(s)
    BY DEF Audited
  <1> QED
    BY <1>1, <1>2, <1>3, <1>4 DEF CallInv

\* A step that changes neither the tables nor the requests.
LEMMA QuietStep ==
    ASSUME IInv, TypeOK', NEW r \in Calls, UNCHANGED <<tables, log>>, CallInv(r)',
           \A s \in Calls \ {r} : pc'[s] = pc[s] /\ code'[s] = code[s] /\ frame'[s] = frame[s]
    PROVE  IInv'
  <1>1. \A s \in Calls : CallInv(s)'
    BY OthersKeep DEF tables, log
  <1>2. EntriesInv'
    BY DEF IInv, EntriesInv, tables, log
  <1>3. \A p \in PartnerIds : RowInv(p)'
    BY DEF IInv, RowInv, tables, log
  <1> QED
    BY <1>1, <1>2, <1>3 DEF IInv

\* What Goto and Answer do to pc and code.
LEMMA PcEffects ==
    ASSUME TypeOK, NEW r \in Calls
    PROVE  /\ \A l : Goto(r, l) => pc'[r] = l /\ code' = code
           /\ \A c : Answer(r, c) => pc'[r] = "done" /\ code'[r] = c
           /\ \A l : Goto(r, l) => \A s \in Calls \ {r} : pc'[s] = pc[s] /\ code'[s] = code[s]
           /\ \A c : Answer(r, c) => \A s \in Calls \ {r} : pc'[s] = pc[s] /\ code'[s] = code[s]
  BY DEF TypeOK, Goto, Answer

-----------------------------------------------------------------------------
(* Each step keeps the invariant.                                          *)

LEMMA ReceiveInv ==
    ASSUME IInv, NEW r \in Calls, Receive(r)
    PROVE  IInv'
  <1>1. TypeOK /\ TypeOK'
    BY ReceiveType DEF IInv
  <1>2. PICK q \in Requests :
           /\ req' = [req EXCEPT ![r] = q]
           /\ IF Malformed(q) THEN Answer(r, "invalid_argument") ELSE Goto(r, FirstStatement(q.op))
    BY DEF Receive
  <1>3. wrote[r] = {} /\ NoEntryOf(r) /\ code[r] = "none"
    BY DEF IInv, CallInv, Receive
  <1>4. FirstStatement(q.op) \notin {"record", "done"}
    BY DEF FirstStatement
  <1>5. NoEntryOf(r)' /\ wrote'[r] = {}
    BY <1>3 DEF NoEntryOf, Receive, tables
  <1>6. CallInv(r)'
    <2>1. CASE Malformed(q)
      BY <1>1, <1>2, <1>5, <2>1, PcEffects DEF CallInv
    <2>2. CASE ~Malformed(q)
      BY <1>1, <1>2, <1>3, <1>4, <1>5, <2>2, PcEffects DEF CallInv
    <2> QED
      BY <2>1, <2>2
  <1>7. \A s \in Calls \ {r} : pc'[s] = pc[s] /\ code'[s] = code[s] /\ req'[s] = req[s]
    BY <1>1, <1>2, PcEffects DEF TypeOK
  <1>8. \A s \in Calls : CallInv(s)'
    BY <1>6, <1>7, OthersKeep DEF Receive, tables
  <1>9. EntriesInv'
    BY DEF IInv, EntriesInv, Receive, tables
  <1>10. ASSUME NEW p \in PartnerIds
         PROVE  RowInv(p)'
    <2>1. RowInv(p) /\ p \notin wrote[r]
      BY <1>3 DEF IInv
    <2>2. partners[p] # NoRow => partners[p].by \in Writers
      BY <1>1 DEF TypeOK, Table, Row
    <2>3. partners[p] # NoRow /\ partners[p].by # Seed => req'[partners[p].by] = req[partners[p].by]
      BY <1>7, <2>1, <2>2 DEF RowInv, Writers
    <2> QED
      BY <2>1, <2>3 DEF RowInv, Receive, tables
  <1> QED
    BY <1>1, <1>8, <1>9, <1>10 DEF IInv

\* The statements that only read.
LEMMA ListInv ==
    ASSUME IInv, NEW r \in Calls, ReadPartners(r) \/ ReadCounts(r), ~Audited(r)
    PROVE  IInv'
  <1>1. TypeOK /\ TypeOK'
    BY ReadPartnersType, ReadCountsType DEF IInv
  <1>2. UNCHANGED <<tables, log>>
    BY DEF ReadPartners, ReadCounts
  <1>3. \A s \in Calls \ {r} : pc'[s] = pc[s] /\ code'[s] = code[s] /\ frame'[s] = frame[s]
    BY <1>1, PcEffects DEF ReadPartners, ReadCounts, TypeOK
  <1>4. CallInv(r) /\ NoEntryOf(r)' = NoEntryOf(r) /\ Audited(r)' = Audited(r)
    BY <1>2 DEF IInv, NoEntryOf, Audited, tables, log
  <1>5. CallInv(r)'
    <2>1. CASE ReadPartners(r)
      BY <1>1, <1>2, <1>4, <2>1, PcEffects DEF ReadPartners, CallInv, log
    <2>2. CASE ReadCounts(r)
      BY <1>1, <1>2, <1>4, <2>2, PcEffects DEF ReadCounts, CallInv, log
    <2> QED
      BY <2>1, <2>2
  <1> QED
    BY <1>1, <1>2, <1>3, <1>5, QuietStep

LEMMA GetPartnerInv ==
    ASSUME IInv, NEW r \in Calls, GetPartner(r)
    PROVE  IInv'
  <1>1. TypeOK /\ TypeOK'
    BY ReadPartnerType, ReadActivitiesType DEF IInv, GetPartner
  <1>2. UNCHANGED <<tables, log>>
    BY DEF GetPartner, ReadPartner, ReadActivities
  <1>3. \A s \in Calls \ {r} : pc'[s] = pc[s] /\ code'[s] = code[s] /\ frame'[s] = frame[s]
    BY <1>1, PcEffects DEF GetPartner, ReadPartner, ReadActivities, TypeOK
  <1>4. CallInv(r) /\ NoEntryOf(r)' = NoEntryOf(r) /\ ~Audited(r)'
    BY <1>2 DEF IInv, NoEntryOf, Audited, AuditedOps, EntryOps, GetPartner, tables, log
  <1>5. CallInv(r)'
    <2>1. CASE ReadPartner(r)
      BY <1>1, <1>2, <1>4, <2>1, PcEffects DEF ReadPartner, CallInv, log
    <2>2. CASE ReadActivities(r)
      BY <1>1, <1>2, <1>4, <2>2, PcEffects DEF ReadActivities, CallInv, log
    <2> QED
      BY <2>1, <2>2 DEF GetPartner
  <1> QED
    BY <1>1, <1>2, <1>3, <1>5, QuietStep

LEMMA StatementFailsInv ==
    ASSUME IInv, NEW r \in Calls, StatementFails(r)
    PROVE  IInv'
  <1>1. TypeOK /\ TypeOK'
    BY StatementFailsType DEF IInv
  <1>2. UNCHANGED <<tables, log>>
    BY DEF StatementFails
  <1>3. \A s \in Calls \ {r} : pc'[s] = pc[s] /\ code'[s] = code[s] /\ frame'[s] = frame[s]
    BY <1>1, PcEffects DEF StatementFails
  <1>4. pc'[r] = "done" /\ code'[r] = "internal"
    BY <1>1, PcEffects DEF StatementFails
  <1>5. CallInv(r)'
    BY <1>4 DEF CallInv
  <1> QED
    BY <1>1, <1>2, <1>3, <1>5, QuietStep

LEMMA CrashInv ==
    ASSUME IInv, Crash
    PROVE  IInv'
  <1>1. TypeOK'
    BY CrashType DEF IInv
  <1>2. UNCHANGED <<tables, log, frame>>
    BY DEF Crash
  <1>3. ASSUME NEW s \in Calls
        PROVE  CallInv(s)'
    <2>1. CASE InFlight(s)
      <3>1. pc'[s] = "done" /\ code'[s] = "lost"
        BY <2>1 DEF Crash
      <3> QED
        BY <3>1 DEF CallInv
    <2>2. CASE ~InFlight(s)
      <3>1. pc'[s] = pc[s] /\ code'[s] = code[s] /\ frame'[s] = frame[s] /\ req'[s] = req[s]
              /\ wrote'[s] = wrote[s] /\ activities' = activities
        BY <1>2, <2>2 DEF Crash, tables, log
      <3> QED
        BY <3>1 DEF IInv, CallInv, NoEntryOf, OneEntryOf, Audited
    <2> QED
      BY <2>1, <2>2
  <1>4. EntriesInv'
    BY <1>2 DEF IInv, EntriesInv, tables, log
  <1>5. \A p \in PartnerIds : RowInv(p)'
    BY <1>2 DEF IInv, RowInv, tables, log
  <1> QED
    BY <1>1, <1>3, <1>4, <1>5 DEF IInv

\* The second statement of the audited handlers.
LEMMA RecordInv ==
    ASSUME IInv, NEW r \in Calls, NEW type \in ActivityTypes, NEW message \in Messages,
           Record(r, type, message)
    PROVE  IInv'
  <1> DEFINE n == Len(activities) + 1
  <1> DEFINE e == [partner |-> frame[r].id, type |-> type, message |-> message, by |-> r]
  <1>1. /\ pc[r] = "record" /\ NoEntryOf(r)
        /\ frame[r].id \in PartnerIds /\ wrote[r] = {frame[r].id}
    BY DEF IInv, CallInv, Record
  <1>2. TypeOK /\ TypeOK'
    BY <1>1, RecordType DEF IInv
  <1>3. activities' = Append(activities, e) /\ e.by = r /\ e.partner = frame[r].id
    BY DEF Record, InsertActivity
  <1>4. /\ DOMAIN activities' = DOMAIN activities \cup {n} /\ n \notin DOMAIN activities
        /\ activities'[n] = e
        /\ \A i \in DOMAIN activities : activities'[i] = activities[i]
    BY <1>2, <1>3, AppendEntry
  <1>5. OneEntryOf(r, frame[r].id)'
    BY <1>1, <1>3, <1>4 DEF OneEntryOf, NoEntryOf, Record
  <1>6. pc'[r] = "done" /\ code'[r] \in {"ok", "internal"}
    BY <1>2, PcEffects DEF Record
  <1>7. CallInv(r)'
    BY <1>1, <1>5, <1>6 DEF CallInv, Record, log
  <1>8. \A s \in Calls \ {r} : pc'[s] = pc[s] /\ code'[s] = code[s]
    BY <1>2, PcEffects DEF Record
  <1>9. \A s \in Calls : CallInv(s)'
    BY <1>3, <1>7, <1>8, OthersKeep DEF Record, log
  <1>10. EntriesInv'
    BY <1>1, <1>3, <1>4 DEF IInv, EntriesInv, NoEntryOf, Record, log
  <1>11. \A p \in PartnerIds : RowInv(p)'
    BY DEF IInv, RowInv, Record, log
  <1> QED
    BY <1>2, <1>9, <1>10, <1>11 DEF IInv

\* Each activity is by a call and about a partner.
LEMMA EntryTypes ==
    ASSUME TypeOK
    PROVE  \A i \in DOMAIN activities : activities[i].by \in Calls /\ activities[i].partner \in PartnerIds
  <1>1. \A i \in DOMAIN activities : activities[i] \in Activity
    BY DEF TypeOK
  <1>2. \A a \in Activity : a.by \in Calls /\ a.partner \in PartnerIds
    BY DEF Activity
  <1> QED
    BY <1>1, <1>2

\* Inserting a fresh row with the status of the handler's operation.
LEMMA InsertRowInv ==
    ASSUME IInv, NEW r \in Calls, NEW p \in FreshIds,
           NEW tier, NEW status \in {"pending", "active"},
           InsertRow(r, p, tier, status), UNCHANGED <<activities, req>>,
           status = StatusWrittenBy(req[r])
    PROVE  EntriesInv' /\ \A x \in PartnerIds : RowInv(x)'
  <1>1. TypeOK /\ p \in PartnerIds /\ partners[p] = NoRow
    BY DEF IInv, FreshIds, Present
  <1>2. wrote' = [wrote EXCEPT ![r] = wrote[r] \cup {p}]
    BY DEF InsertRow
  <1>3. \A s \in Calls : wrote[s] \subseteq wrote'[s]
    BY <1>1, <1>2 DEF TypeOK
  <1>4. EntriesInv'
    <2>1. \A i \in DOMAIN activities : activities[i].by \in Calls
      BY <1>1, EntryTypes
    <2> QED
      BY <1>3, <2>1 DEF IInv, EntriesInv
  <1>5. partners' = [partners EXCEPT ![p] = NewRow(r, tier, status)]
    BY DEF InsertRow
  <1>6. RowInv(p)'
    <2>1. partners'[p] = NewRow(r, tier, status)
      BY <1>1, <1>5 DEF TypeOK, Table
    <2>2. /\ partners'[p].from = r /\ partners'[p].by = r
          /\ partners'[p].status = status
      <3>1. Coalesce(status, "pending") = status
        BY DEF Coalesce
      <3> QED
        BY <2>1, <3>1 DEF NewRow
    <2>3. p \in wrote'[r]
      BY <1>1, <1>2 DEF TypeOK
    <2> QED
      BY <2>2, <2>3 DEF RowInv
  <1>7. ASSUME NEW x \in PartnerIds, x # p
        PROVE  RowInv(x)'
    <2>1. partners'[x] = partners[x]
      BY <1>1, <1>5, <1>7 DEF TypeOK, Table
    <2>2. partners[x] # NoRow => partners[x].from \in Writers /\ partners[x].by \in Writers
      BY <1>1 DEF TypeOK, Table, Row
    <2>3. RowInv(x)
      BY DEF IInv
    <2> QED
      BY <1>3, <2>1, <2>2, <2>3 DEF RowInv, Writers
  <1> QED
    BY <1>4, <1>6, <1>7

LEMMA InsertPartnerInv ==
    ASSUME IInv, NEW r \in Calls, NEW tier \in Tiers \cup {""}, NEW status \in {"pending", "active"},
           InsertPartner(r, tier, status), status = StatusWrittenBy(req[r])
    PROVE  IInv'
  <1>1. TypeOK /\ TypeOK'
    BY InsertPartnerType DEF IInv, Statuses
  <1>2. PICK p \in FreshIds :
           /\ InsertRow(r, p, tier, status)
           /\ \/ Goto(r, "record") /\ frame' = [frame EXCEPT ![r].id = p]
              \/ Answer(r, "internal") /\ UNCHANGED frame
    BY DEF InsertPartner
  <1>3. EntriesInv' /\ \A x \in PartnerIds : RowInv(x)'
    BY <1>2, InsertRowInv DEF InsertPartner
  <1>4. wrote[r] = {} /\ NoEntryOf(r) /\ code[r] = "none"
    BY DEF IInv, CallInv, InsertPartner
  <1>5. p \in PartnerIds /\ wrote'[r] = {p} /\ NoEntryOf(r)'
    BY <1>1, <1>2, <1>4 DEF FreshIds, InsertRow, TypeOK, NoEntryOf, InsertPartner
  <1>6. CallInv(r)'
    <2>1. CASE Goto(r, "record") /\ frame' = [frame EXCEPT ![r].id = p]
      <3>1. frame'[r].id = p
        BY <1>1, <2>1 DEF TypeOK, Frame
      <3> QED
        BY <1>1, <1>4, <1>5, <2>1, <3>1, PcEffects DEF CallInv
    <2>2. CASE Answer(r, "internal")
      <3>1. pc'[r] = "done" /\ code'[r] = "internal"
        BY <1>1, <2>2, PcEffects
      <3> QED
        BY <3>1 DEF CallInv
    <2> QED
      BY <1>2, <2>1, <2>2
  <1>7. \A s \in Calls \ {r} : /\ pc'[s] = pc[s] /\ code'[s] = code[s]
                               /\ frame'[s] = frame[s] /\ wrote'[s] = wrote[s]
    BY <1>1, <1>2, PcEffects DEF InsertRow, TypeOK
  <1>8. \A s \in Calls : CallInv(s)'
    BY <1>6, <1>7, OthersKeep DEF InsertPartner
  <1> QED
    BY <1>1, <1>3, <1>8 DEF IInv

LEMMA UpdateRowInv ==
    ASSUME IInv, NEW r \in Calls, UpdateRow(r), req[r].op = "UpdatePartnerStatus"
    PROVE  IInv'
  <1>1. TypeOK /\ TypeOK'
    BY UpdateRowType DEF IInv
  <1>2. wrote[r] = {} /\ NoEntryOf(r) /\ code[r] = "none"
    BY DEF IInv, CallInv, UpdateRow
  <1>3. NoEntryOf(r)'
    BY <1>2 DEF NoEntryOf, UpdateRow
  <1>4. \A s \in Calls \ {r} : /\ pc'[s] = pc[s] /\ code'[s] = code[s]
                               /\ frame'[s] = frame[s] /\ wrote'[s] = wrote[s]
    BY <1>1, PcEffects DEF UpdateRow, TypeOK
  <1>p. PICK p : p = req[r].id
    OBVIOUS
  <1>5. CASE p \in Present
    <2>1. p \in PartnerIds /\ partners[p] \in Row
      BY <1>p, <1>1, <1>5 DEF TypeOK, Present, Table
    <2>2. wrote'[r] = {p}
      BY <1>p, <1>1, <1>2, <1>5 DEF UpdateRow, TypeOK
    <2>3. CallInv(r)'
      <3>1. CASE Goto(r, "record") /\ frame' = [frame EXCEPT ![r].id = p]
        <4>1. frame'[r].id = p
          BY <1>1, <3>1 DEF TypeOK, Frame
        <4> QED
          BY <1>1, <1>2, <1>3, <2>1, <2>2, <3>1, <4>1, PcEffects DEF CallInv
      <3>2. CASE Answer(r, "internal")
        <4>1. pc'[r] = "done" /\ code'[r] = "internal"
          BY <1>1, <3>2, PcEffects
        <4> QED
          BY <4>1 DEF CallInv
      <3> QED
        BY <1>p, <1>5, <3>1, <3>2 DEF UpdateRow
    <2>4. \A s \in Calls : CallInv(s)'
      BY <1>4, <2>3, OthersKeep DEF UpdateRow
    <2>5. \A s \in Calls : wrote[s] \subseteq wrote'[s]
      BY <1>2, <1>4
    <2>6. EntriesInv'
      <3>1. \A i \in DOMAIN activities : activities[i].by \in Calls
        BY <1>1, EntryTypes
      <3> QED
        BY <2>5, <3>1 DEF IInv, EntriesInv, UpdateRow
    <2>7. partners' = [partners EXCEPT ![p] =
                          [partners[p] EXCEPT !.status = statusToText(req[r].status), !.by = r]]
      BY <1>p, <1>5 DEF UpdateRow
    <2>8. RowInv(p)'
      <3>1. /\ partners'[p].by = r /\ partners'[p].from = partners[p].from
            /\ partners'[p].status = statusToText(req[r].status)
        BY <1>1, <2>1, <2>7 DEF TypeOK, Table, Row
      <3>2. partners[p].from # Seed => p \in wrote'[partners[p].from]
        <4>1. RowInv(p) /\ partners[p] # NoRow
          BY <1>5, <2>1 DEF IInv, Present
        <4>2. partners[p].from \in Writers
          BY <2>1 DEF Row
        <4> QED
          BY <2>5, <4>1, <4>2 DEF RowInv, Writers
      <3>3. r # Seed
        BY SeedAssumption
      <3> QED
        BY <2>2, <3>1, <3>2, <3>3 DEF RowInv, StatusWrittenBy, UpdateRow
    <2>9. ASSUME NEW x \in PartnerIds, x # p
          PROVE  RowInv(x)'
      <3>1. partners'[x] = partners[x]
        BY <1>1, <2>7, <2>9 DEF TypeOK, Table
      <3>2. partners[x] # NoRow => partners[x].from \in Writers /\ partners[x].by \in Writers
        BY <1>1 DEF TypeOK, Table, Row
      <3>3. RowInv(x)
        BY DEF IInv
      <3> QED
        BY <2>5, <3>1, <3>2, <3>3 DEF RowInv, Writers, UpdateRow
    <2> QED
      BY <1>1, <2>4, <2>6, <2>8, <2>9 DEF IInv
  <1>6. CASE p \notin Present
    <2>1. UNCHANGED <<partners, activities, wrote, frame, req, settled>> /\ Answer(r, "not_found")
      BY <1>p, <1>6 DEF UpdateRow
    <2>2. CallInv(r)'
      BY <1>1, <1>2, <1>3, <2>1, PcEffects DEF CallInv
    <2> QED
      BY <1>1, <1>4, <2>1, <2>2, QuietStep DEF tables, log
  <1> QED
    BY <1>5, <1>6

LEMMA BulkImportInv ==
    ASSUME IInv, NEW r \in Calls, BulkImportPartners(r)
    PROVE  IInv'
  <1>1. TypeOK /\ TypeOK'
    BY BulkImportType DEF IInv
  <1>2. /\ req[r].op = "BulkImportPartners" /\ pc[r] = "row" /\ UNCHANGED <<activities, req>>
        /\ ~Audited(r) /\ ~Audited(r)'
    BY DEF BulkImportPartners, RejectRow, SaveRow, SaveRowFails, ImportEnds, AtRow, tables, log,
           Audited, AuditedOps, EntryOps
  <1>3. code[r] = "none" /\ NoEntryOf(r) /\ NoEntryOf(r)'
    BY <1>2 DEF IInv, CallInv, NoEntryOf
  <1>4. pc'[r] = "row" /\ code'[r] = "none" => CallInv(r)'
    BY <1>3 DEF CallInv
  <1>5. CASE RejectRow(r) \/ SaveRowFails(r)
    <2>1. UNCHANGED <<tables, log, pc, code>>
      BY <1>5 DEF RejectRow, SaveRowFails
    <2>2. \A s \in Calls \ {r} : frame'[s] = frame[s]
      BY <1>1, <1>5 DEF RejectRow, SaveRowFails, RowRejected, TypeOK
    <2> QED
      BY <1>1, <1>2, <1>3, <1>4, <2>1, <2>2, QuietStep
  <1>6. CASE ImportEnds(r)
    <2>1. UNCHANGED <<tables, log, frame>> /\ Answer(r, "ok")
      BY <1>6 DEF ImportEnds
    <2>2. pc'[r] = "done" /\ code'[r] = "ok"
      BY <1>1, <2>1, PcEffects
    <2>3. CallInv(r)'
      BY <1>2, <2>2 DEF CallInv
    <2> QED
      BY <1>1, <2>1, <2>3, PcEffects, QuietStep
  <1>7. CASE SaveRow(r)
    <2>1. PICK p \in FreshIds : InsertRow(r, p, tierToText(CurrentRow(r).tier), statusToText(2))
      BY <1>7 DEF SaveRow
    <2>2. statusToText(2) = "active" /\ StatusWrittenBy(req[r]) = "active"
      BY <1>2 DEF statusToText, StatusWrittenBy
    <2>3. EntriesInv' /\ \A x \in PartnerIds : RowInv(x)'
      BY <1>2, <2>1, <2>2, InsertRowInv
    <2>4. pc' = pc /\ code' = code
      BY <1>7 DEF SaveRow
    <2>5. \A s \in Calls \ {r} : frame'[s] = frame[s] /\ wrote'[s] = wrote[s]
      BY <1>1, <1>7, <2>1 DEF SaveRow, RowRejected, RowImported, InsertRow, TypeOK
    <2>6. \A s \in Calls : CallInv(s)'
      BY <1>2, <1>3, <1>4, <2>4, <2>5, OthersKeep
    <2> QED
      BY <1>1, <2>3, <2>6 DEF IInv
  <1> QED
    BY <1>5, <1>6, <1>7 DEF BulkImportPartners

LEMMA HandleInv ==
    ASSUME IInv, NEW r \in Calls, Handle(r)
    PROVE  IInv'
  <1>1. /\ "created" \in ActivityTypes /\ "submitted" \in ActivityTypes
        /\ "status_changed" \in ActivityTypes
        /\ "Partner created" \in Messages /\ "Submitted via public onboarding form" \in Messages
    BY DEF ActivityTypes, Messages
  <1>2. statusToText(1) = "pending" /\ statusToText(2) = "active"
    BY DEF statusToText
  <1>3. CASE ListPartners(r) \/ AgentListPartners(r)
    <2>1. ~Audited(r)
      BY <1>3 DEF ListPartners, AgentListPartners, Audited, AuditedOps, EntryOps
    <2> QED
      BY <1>3, <2>1, ListInv DEF ListPartners, AgentListPartners
  <1>4. CASE CreatePartner(r)
    <2>1. StatusWrittenBy(req[r]) = statusToText(2)
      BY <1>2, <1>4 DEF CreatePartner, StatusWrittenBy
    <2> QED
      BY <1>1, <1>2, <1>4, <2>1, InsertPartnerInv, RecordInv, TextTypes DEF CreatePartner
  <1>5. CASE SubmitOnboarding(r)
    <2>1. StatusWrittenBy(req[r]) = statusToText(1)
      BY <1>2, <1>5 DEF SubmitOnboarding, StatusWrittenBy
    <2> QED
      BY <1>1, <1>2, <1>5, <2>1, InsertPartnerInv, RecordInv, TextTypes DEF SubmitOnboarding
  <1>6. CASE UpdatePartnerStatus(r)
    BY <1>1, <1>6, UpdateRowInv, RecordInv, TextTypes DEF UpdatePartnerStatus
  <1> QED
    BY <1>3, <1>4, <1>5, <1>6, GetPartnerInv, BulkImportInv, StatementFailsInv DEF Handle

LEMMA NextInv == IInv /\ [Next]_vars => IInv'
  <1> SUFFICES ASSUME IInv, [Next]_vars PROVE IInv'
    OBVIOUS
  <1>1. ASSUME NEW r \in Calls, Receive(r) \/ Handle(r)
        PROVE  IInv'
    BY <1>1, ReceiveInv, HandleInv
  <1>2. CASE Crash
    BY <1>2, CrashInv
  <1>3. CASE UNCHANGED vars
    BY <1>3 DEF vars, IInv, TypeOK, CallInv, NoEntryOf, OneEntryOf, Audited, EntriesInv, RowInv
  <1> QED
    BY <1>1, <1>2, <1>3 DEF Next, Finished

\* Calls, tables and log keep the invariant, whatever statements fail.
THEOREM Invariance == Spec => []IInv
  <1> QED
    BY InitInv, NextInv, PTL DEF Spec

-----------------------------------------------------------------------------
(* The results.                                                            *)

\* Every variable keeps its type: the rows the handlers store have a named tier,
\* whatever Tier number a request carries (tierToText, coalesce in CreatePartner).
THEOREM TypeCorrect == Spec => []TypeOK
  <1>1. IInv => TypeOK
    BY DEF IInv
  <1> QED
    BY <1>1, Invariance, PTL

\* What CreatePartner, SubmitOnboarding and UpdatePartnerStatus answer agrees with
\* the two tables: ok stands for one row written and one activity about it, a
\* refusal for nothing, and no activity lacks its write or is there twice.
THEOREM AuditTrail == Spec => []AnswersMatchEffects
  <1>1. ASSUME IInv PROVE OkMeansWrittenAndLogged
    <2> SUFFICES ASSUME NEW r \in Calls, code[r] = "ok", Audited(r)
                 PROVE  \E p \in PartnerIds, i \in DOMAIN activities :
                           wrote[r] = {p} /\ LoggedBy(r) = {i} /\ activities[i].partner = p
      BY DEF OkMeansWrittenAndLogged
    <2>1. PICK p \in PartnerIds : wrote[r] = {p} /\ OneEntryOf(r, p)
      BY <1>1 DEF IInv, CallInv
    <2>2. PICK i \in DOMAIN activities :
             /\ activities[i].by = r
             /\ activities[i].partner = p
             /\ \A j \in DOMAIN activities : activities[j].by = r => j = i
      BY <2>1 DEF OneEntryOf
    <2>3. LoggedBy(r) = {i}
      BY <2>2 DEF LoggedBy
    <2> QED
      BY <2>1, <2>2, <2>3
  <1>2. ASSUME IInv PROVE RefusedLeavesNoTrace
    BY <1>2 DEF IInv, CallInv, RefusedLeavesNoTrace, NoEntryOf, LoggedBy
  <1>3. ASSUME IInv PROVE EntriesAreJustified
    BY <1>3 DEF IInv, EntriesInv, EntriesAreJustified, LoggedBy
  <1>4. IInv => AnswersMatchEffects
    BY <1>1, <1>2, <1>3 DEF AnswersMatchEffects
  <1> QED
    BY <1>4, Invariance, PTL

\* A submitted partner stays pending until UpdatePartnerStatus writes that row.
THEOREM SubmissionsAreReviewed == Spec => []OnlyReviewLeavesPending
  <1>1. ASSUME IInv PROVE OnlyReviewLeavesPending
    <2> SUFFICES ASSUME NEW p \in PartnerIds, partners[p] # NoRow
                 PROVE  /\ partners[p].from # Seed => p \in wrote[partners[p].from]
                        /\ partners[p].by # Seed =>
                              /\ p \in wrote[partners[p].by]
                              /\ partners[p].status = StatusWrittenBy(req[partners[p].by])
                        /\ partners[p].by # partners[p].from =>
                              req[partners[p].by].op = "UpdatePartnerStatus"
                        /\ /\ partners[p].from # Seed
                           /\ req[partners[p].from].op = "SubmitOnboarding"
                           /\ partners[p].status # "pending"
                           => partners[p].by # partners[p].from
      BY DEF OnlyReviewLeavesPending, Present
    <2>1. RowInv(p)
      BY <1>1 DEF IInv
    <2>2. \A q : q.op = "SubmitOnboarding" => StatusWrittenBy(q) = "pending"
      BY DEF StatusWrittenBy
    <2> QED
      BY <2>1, <2>2 DEF RowInv
  <1>2. IInv => OnlyReviewLeavesPending
    BY <1>1
  <1> QED
    BY <1>2, Invariance, PTL

-----------------------------------------------------------------------------
(* PartnerApi implements PartnerLedger: each statement of a handler is a   *)
(* step of the ledger, or leaves it alone.  The refinement mapping.        *)

LedgerStatus == [p \in PartnerIds |-> IF partners[p] = NoRow THEN "absent" ELSE partners[p].status]

Owed == {Owes(r) : r \in {s \in Calls : pc[s] = "record"}}

\* The status column stands for itself, as no row has the status "absent".
LEMMA StatusIsMapped ==
    ASSUME TypeOK, NEW p \in PartnerIds
    PROVE  /\ p \in Present  => LedgerStatus[p] = partners[p].status /\ LedgerStatus[p] # "absent"
           /\ p \notin Present => LedgerStatus[p] = "absent"
  <1>1. partners[p] # NoRow => partners[p].status \in Statuses
    BY DEF TypeOK, Table, Row
  <1> QED
    BY <1>1 DEF LedgerStatus, Present, Statuses

\* A written row changes the mapped status of its partner and no other.
LEMMA WrittenStatus ==
    ASSUME TypeOK, NEW p \in PartnerIds, NEW row \in Row,
           partners' = [partners EXCEPT ![p] = row]
    PROVE  LedgerStatus' = [LedgerStatus EXCEPT ![p] = row.status]
  <1>1. row # NoRow
    BY NoRowAssumption
  <1>2. partners'[p] = row /\ \A x \in PartnerIds \ {p} : partners'[x] = partners[x]
    BY DEF TypeOK, Table
  <1>3. LedgerStatus'[p] = row.status /\ \A x \in PartnerIds \ {p} : LedgerStatus'[x] = LedgerStatus[x]
    BY <1>1, <1>2 DEF LedgerStatus
  <1>4. /\ LedgerStatus = [x \in PartnerIds |-> LedgerStatus[x]]
        /\ LedgerStatus' = [x \in PartnerIds |-> LedgerStatus'[x]]
    BY DEF LedgerStatus
  <1> QED
    BY <1>3, <1>4

\* What a call owes carries its name, so that no two calls owe the same entry.
LEMMA OwnersDiffer == \A r, s \in Calls : Owes(r) = Owes(s) => r = s
  <1>1. \A r : Owes(r).by = r
    BY DEF Owes
  <1> QED
    BY <1>1

\* What a step of one call does to the entries that are owed.
LEMMA OwedStep ==
    ASSUME NEW r \in Calls,
           \A s \in Calls \ {r} : pc'[s] = pc[s] /\ frame'[s] = frame[s] /\ req'[s] = req[s]
    PROVE  /\ pc[r] # "record" /\ pc'[r] # "record" => Owed' = Owed
           /\ pc[r] # "record" /\ pc'[r] = "record" => Owed' = Owed \cup {Owes(r)'}
           /\ pc[r] = "record" /\ pc'[r] # "record" => Owed' = Owed \ {Owes(r)}
  <1> DEFINE others == {s \in Calls \ {r} : pc[s] = "record"}
  <1>1. \A s \in Calls \ {r} : Owes(s)' = Owes(s)
    BY DEF Owes
  <1>2. others' = others
    OBVIOUS
  <1>3. {Owes(s) : s \in others}' = {Owes(s) : s \in others}
    BY <1>1, <1>2
  <1>4. Owed = {Owes(s) : s \in others} \cup (IF pc[r] = "record" THEN {Owes(r)} ELSE {})
    BY DEF Owed
  <1>5. Owed' = {Owes(s) : s \in others}' \cup (IF pc'[r] = "record" THEN {Owes(r)'} ELSE {})
    BY DEF Owed
  <1>6. Owes(r) \notin {Owes(s) : s \in others}
    BY OwnersDiffer
  <1> QED
    BY <1>3, <1>4, <1>5, <1>6

-----------------------------------------------------------------------------
(* The actions of the ledger, in the words of the mapping.                 *)

ledgerVars == <<LedgerStatus, activities, Owed>>

OweStep(entry) == Owed' = Owed \cup {entry} \/ Owed' = Owed

Appears(p, text) == LedgerStatus[p] = "absent" /\ LedgerStatus' = [LedgerStatus EXCEPT ![p] = text]

LEMMA LedgerAdd ==
    ASSUME NEW p \in PartnerIds, NEW r \in Calls,
           \/ /\ Appears(p, "active")
              /\ OweStep(Ledger!Entry(p, "created", "Partner created", r))
           \/ /\ Appears(p, "pending")
              /\ OweStep(Ledger!Entry(p, "submitted", "Submitted via public onboarding form", r)),
           activities' = activities
    PROVE  Ledger!Next
  <1>1. Ledger!Add(p, r)
    BY DEF Ledger!Add, Ledger!Added, Ledger!Owe, OweStep, Appears, LedgerStatus, Owed
  <1> QED
    BY <1>1 DEF Ledger!Next

\* The label of a status number names its text.
LEMMA LabelTexts ==
    ASSUME NEW n \in Nat
    PROVE  \/ statusLabel(n) = "Pending" /\ statusToText(n) = "pending"
           \/ statusLabel(n) = "Active"  /\ statusToText(n) = "active"
           \/ statusLabel(n) = "Churned" /\ statusToText(n) = "churned"
           \/ statusLabel(n) = "Unknown" /\ statusToText(n) = ""
  <1>1. CASE n = 1
    BY <1>1 DEF statusLabel, statusToText
  <1>2. CASE n = 2
    BY <1>2 DEF statusLabel, statusToText
  <1>3. CASE n = 3
    BY <1>3 DEF statusLabel, statusToText
  <1>4. CASE n \notin {1, 2, 3}
    BY <1>4 DEF statusLabel, statusToText
  <1> QED
    BY <1>1, <1>2, <1>3, <1>4

LEMMA LedgerChange ==
    ASSUME NEW p \in PartnerIds, NEW r \in Calls, NEW n \in Nat, LedgerStatus[p] # "absent",
           LedgerStatus' = [LedgerStatus EXCEPT ![p] = statusToText(n)],
           OweStep(Ledger!Entry(p, "status_changed", statusLabel(n), r)),
           activities' = activities
    PROVE  Ledger!Next
  <1>1. DOMAIN Ledger!Texts = {"Pending", "Active", "Churned", "Unknown"}
    BY DEF Ledger!Texts
  <1>2. /\ Ledger!Texts["Pending"] = "pending" /\ Ledger!Texts["Active"] = "active"
        /\ Ledger!Texts["Churned"] = "churned" /\ Ledger!Texts["Unknown"] = ""
    BY DEF Ledger!Texts
  <1>3. PICK label \in DOMAIN Ledger!Texts :
           label = statusLabel(n) /\ Ledger!Texts[label] = statusToText(n)
    BY <1>1, <1>2, LabelTexts
  <1>4. Ledger!Change(p, r)
    BY <1>3 DEF Ledger!Change, Ledger!Added, Ledger!Owe, OweStep, LedgerStatus, Owed
  <1> QED
    BY <1>4 DEF Ledger!Next

LEMMA LedgerLog ==
    ASSUME NEW entry \in Owed, activities' = Append(activities, entry), Owed' = Owed \ {entry},
           LedgerStatus' = LedgerStatus
    PROVE  Ledger!Next
  <1>1. Ledger!Log
    BY DEF Ledger!Log, LedgerStatus, Owed
  <1> QED
    BY <1>1 DEF Ledger!Next

LEMMA LedgerForget ==
    ASSUME Owed' \subseteq Owed, LedgerStatus' = LedgerStatus, activities' = activities
    PROVE  Ledger!Next
  <1>1. Ledger!Forget
    BY DEF Ledger!Forget, LedgerStatus, Owed
  <1> QED
    BY <1>1 DEF Ledger!Next

-----------------------------------------------------------------------------
(* The steps of the handlers.                                              *)

\* A call at its second statement owes the entry that this statement inserts.
LEMMA InsertedEntry ==
    ASSUME NEW r \in Calls, NEW type, NEW message, Record(r, type, message),
           \/ req[r].op = "CreatePartner" /\ type = "created" /\ message = "Partner created"
           \/ /\ req[r].op = "SubmitOnboarding"
              /\ type = "submitted" /\ message = "Submitted via public onboarding form"
           \/ /\ req[r].op = "UpdatePartnerStatus"
              /\ type = "status_changed" /\ message = statusLabel(req[r].status)
    PROVE  activities' = Append(activities, Owes(r)) /\ Owes(r) \in Owed
  <1>1. Owes(r) = [partner |-> frame[r].id, type |-> type, message |-> message, by |-> r]
    BY DEF Owes
  <1>2. Owes(r) \in Owed
    BY DEF Record, Owed
  <1> QED
    BY <1>1, <1>2 DEF Record, InsertActivity

LEMMA RecordImplements ==
    ASSUME TypeOK, NEW r \in Calls, NEW type, NEW message, Record(r, type, message),
           activities' = Append(activities, Owes(r)), Owes(r) \in Owed
    PROVE  Ledger!Next
  <1>1. pc[r] = "record" /\ pc'[r] = "done" /\ \A s \in Calls \ {r} : pc'[s] = pc[s]
    BY PcEffects DEF Record
  <1>2. Owed' = Owed \ {Owes(r)}
    BY <1>1, OwedStep DEF Record, log
  <1>3. LedgerStatus' = LedgerStatus
    BY DEF Record, LedgerStatus
  <1> QED
    BY <1>2, <1>3, LedgerLog

\* The status of a new row is the one it is given, where that has a text.
LEMMA NewRowStatus ==
    ASSUME NEW r \in Calls, NEW tier \in Tiers \cup {""}, NEW status \in {"pending", "active"}
    PROVE  NewRow(r, tier, status) \in Row /\ NewRow(r, tier, status).status = status
  BY NewRowType DEF NewRow, Coalesce, Statuses

\* A fresh id is absent from the ledger, and its row appears there with its status.
LEMMA FreshRowStatus ==
    ASSUME TypeOK, NEW r, NEW p \in FreshIds, NEW tier, NEW status,
           NewRow(r, tier, status) \in Row, NewRow(r, tier, status).status = status,
           InsertRow(r, p, tier, status)
    PROVE  p \in PartnerIds /\ Appears(p, status)
  <1>1. p \in PartnerIds /\ p \notin Present
    BY DEF FreshIds
  <1>2. LedgerStatus' = [LedgerStatus EXCEPT ![p] = NewRow(r, tier, status).status]
    BY <1>1, WrittenStatus DEF InsertRow
  <1> QED
    BY <1>1, <1>2, StatusIsMapped DEF Appears

LEMMA InsertPartnerImplements ==
    ASSUME TypeOK, NEW r \in Calls, NEW tier \in Tiers \cup {""}, NEW status \in {"pending", "active"},
           InsertPartner(r, tier, status),
           \/ req[r].op = "CreatePartner" /\ status = "active"
           \/ req[r].op = "SubmitOnboarding" /\ status = "pending"
    PROVE  Ledger!Next
  <1>1. PICK p \in FreshIds :
           /\ InsertRow(r, p, tier, status)
           /\ \/ Goto(r, "record") /\ frame' = [frame EXCEPT ![r].id = p]
              \/ Answer(r, "internal") /\ UNCHANGED frame
    BY DEF InsertPartner
  <1>2. p \in PartnerIds /\ Appears(p, status)
    <2>1. NewRow(r, tier, status) \in Row /\ NewRow(r, tier, status).status = status
      BY NewRowStatus
    <2>2. InsertRow(r, p, tier, status)
      BY <1>1
    <2> QED
      BY <2>1, <2>2, FreshRowStatus
  <1>3. \A s \in Calls \ {r} : pc'[s] = pc[s] /\ frame'[s] = frame[s] /\ req'[s] = req[s]
    BY <1>1, PcEffects DEF InsertPartner, TypeOK
  <1>4. CASE Goto(r, "record") /\ frame' = [frame EXCEPT ![r].id = p]
    <2>1. frame'[r].id = p
      BY <1>4 DEF TypeOK, Frame
    <2>2. Owes(r)' = IF req[r].op = "CreatePartner"
                     THEN Ledger!Entry(p, "created", "Partner created", r)
                     ELSE Ledger!Entry(p, "submitted", "Submitted via public onboarding form", r)
      BY <2>1 DEF Owes, InsertPartner, Ledger!Entry
    <2>3. Owed' = Owed \cup {Owes(r)'}
      BY <1>3, <1>4, PcEffects, OwedStep DEF InsertPartner
    <2> QED
      BY <1>2, <2>2, <2>3, LedgerAdd DEF InsertPartner, OweStep
  <1>5. CASE Answer(r, "internal")
    <2>1. Owed' = Owed
      BY <1>3, <1>5, PcEffects, OwedStep DEF InsertPartner
    <2> QED
      BY <1>2, <2>1, LedgerAdd DEF InsertPartner, OweStep
  <1> QED
    BY <1>1, <1>4, <1>5

LEMMA UpdateRowImplements ==
    ASSUME TypeOK, NEW r \in Calls, UpdateRow(r), req[r].op = "UpdatePartnerStatus"
    PROVE  [Ledger!Next]_ledgerVars
  <1> DEFINE n == req[r].status
  <1>1. n \in Nat
    BY RequestTypes DEF TypeOK, NoRequest
  <1>2. PICK p : p = req[r].id
    OBVIOUS
  <1>3. \A s \in Calls \ {r} : pc'[s] = pc[s] /\ frame'[s] = frame[s] /\ req'[s] = req[s]
    BY PcEffects DEF UpdateRow, TypeOK
  <1>4. CASE p \in Present
    <2>1. p \in PartnerIds /\ partners[p] \in Row
      BY <1>4 DEF TypeOK, Present, Table
    <2>2. partners' = [partners EXCEPT ![p] = [partners[p] EXCEPT !.status = statusToText(n), !.by = r]]
      BY <1>2, <1>4 DEF UpdateRow
    <2>3. /\ [partners[p] EXCEPT !.status = statusToText(n), !.by = r] \in Row
          /\ [partners[p] EXCEPT !.status = statusToText(n), !.by = r].status = statusToText(n)
      BY <2>1, TextTypes DEF Row, Writers
    <2>4. LedgerStatus[p] # "absent" /\ LedgerStatus' = [LedgerStatus EXCEPT ![p] = statusToText(n)]
      BY <1>4, <2>1, <2>2, <2>3, WrittenStatus, StatusIsMapped
    <2>5. OweStep(Ledger!Entry(p, "status_changed", statusLabel(n), r))
      <3>1. CASE Goto(r, "record") /\ frame' = [frame EXCEPT ![r].id = p]
        <4>1. frame'[r].id = p
          BY <3>1 DEF TypeOK, Frame
        <4>2. Owes(r)' = Ledger!Entry(p, "status_changed", statusLabel(n), r)
          BY <4>1 DEF Owes, UpdateRow, Ledger!Entry
        <4> QED
          BY <1>3, <3>1, <4>2, PcEffects, OwedStep DEF UpdateRow, OweStep
      <3>2. CASE Answer(r, "internal")
        BY <1>3, <3>2, PcEffects, OwedStep DEF UpdateRow, OweStep
      <3> QED
        BY <1>2, <1>4, <3>1, <3>2 DEF UpdateRow
    <2> QED
      BY <1>1, <2>1, <2>4, <2>5, LedgerChange DEF UpdateRow
  <1>5. CASE p \notin Present
    <2>1. UNCHANGED <<partners, activities>> /\ Answer(r, "not_found")
      BY <1>2, <1>5 DEF UpdateRow
    <2>2. Owed' = Owed
      BY <1>3, <2>1, PcEffects, OwedStep DEF UpdateRow
    <2> QED
      BY <2>1, <2>2 DEF ledgerVars, LedgerStatus
  <1> QED
    BY <1>4, <1>5

\* A step that reads, validates or fails leaves the ledger alone.
LEMMA QuietImplements ==
    ASSUME NEW r \in Calls, UNCHANGED tables, pc[r] # "record", pc'[r] # "record",
           \A s \in Calls \ {r} : pc'[s] = pc[s] /\ frame'[s] = frame[s] /\ req'[s] = req[s]
    PROVE  UNCHANGED ledgerVars
  BY OwedStep DEF tables, ledgerVars, LedgerStatus

LEMMA ReceiveImplements ==
    ASSUME TypeOK, NEW r \in Calls, Receive(r)
    PROVE  UNCHANGED ledgerVars
  <1>1. PICK q \in Requests :
           /\ req' = [req EXCEPT ![r] = q]
           /\ IF Malformed(q) THEN Answer(r, "invalid_argument") ELSE Goto(r, FirstStatement(q.op))
    BY DEF Receive
  <1>2. FirstStatement(q.op) # "record"
    BY DEF FirstStatement
  <1>3. \A s \in Calls \ {r} : pc'[s] = pc[s] /\ frame'[s] = frame[s] /\ req'[s] = req[s]
    BY <1>1, PcEffects DEF Receive, TypeOK
  <1>4. pc[r] # "record" /\ pc'[r] # "record"
    BY <1>1, <1>2, PcEffects DEF Receive
  <1> QED
    BY <1>3, <1>4, QuietImplements DEF Receive, tables

LEMMA ReadImplements ==
    ASSUME TypeOK, NEW r \in Calls, ListPartners(r) \/ AgentListPartners(r) \/ GetPartner(r)
    PROVE  UNCHANGED ledgerVars
  <1>1. ReadPartners(r) \/ ReadCounts(r) \/ ReadPartner(r) \/ ReadActivities(r)
    BY DEF ListPartners, AgentListPartners, GetPartner
  <1>2. UNCHANGED <<tables, log>>
    BY <1>1 DEF ReadPartners, ReadCounts, ReadPartner, ReadActivities
  <1>3. \A s \in Calls \ {r} : pc'[s] = pc[s] /\ frame'[s] = frame[s]
    BY <1>1, PcEffects DEF ReadPartners, ReadCounts, ReadPartner, ReadActivities, TypeOK
  <1>4. pc[r] # "record" /\ pc'[r] # "record"
    BY <1>1, PcEffects DEF ReadPartners, ReadCounts, ReadPartner, ReadActivities
  <1> QED
    BY <1>2, <1>3, <1>4, QuietImplements DEF log, tables

LEMMA BulkImportImplements ==
    ASSUME TypeOK, NEW r \in Calls, BulkImportPartners(r)
    PROVE  [Ledger!Next]_ledgerVars
  <1>1. /\ pc[r] = "row" /\ pc'[r] # "record" /\ UNCHANGED req
        /\ \A s \in Calls \ {r} : pc'[s] = pc[s] /\ frame'[s] = frame[s]
    BY PcEffects DEF BulkImportPartners, RejectRow, SaveRow, SaveRowFails, ImportEnds, AtRow,
                     RowRejected, RowImported, TypeOK, log
  <1>2. CASE RejectRow(r) \/ SaveRowFails(r) \/ ImportEnds(r)
    <2>1. UNCHANGED tables
      BY <1>2 DEF RejectRow, SaveRowFails, ImportEnds
    <2> QED
      BY <1>1, <2>1, QuietImplements
  <1>3. CASE SaveRow(r)
    <2>1. PICK p \in FreshIds : InsertRow(r, p, tierToText(CurrentRow(r).tier), statusToText(2))
      BY <1>3 DEF SaveRow
    <2>2. statusToText(2) = "active"
      BY DEF statusToText
    <2>3. /\ NewRow(r, tierToText(CurrentRow(r).tier), "active") \in Row
          /\ NewRow(r, tierToText(CurrentRow(r).tier), "active").status = "active"
      BY NewRowStatus, TextTypes
    <2>4. p \in PartnerIds /\ Appears(p, "active")
      BY <2>1, <2>2, <2>3, FreshRowStatus
    <2>5. Owed' = Owed
      BY <1>1, OwedStep
    <2> QED
      BY <1>3, <2>4, <2>5, LedgerAdd DEF SaveRow, OweStep
  <1> QED
    BY <1>2, <1>3 DEF BulkImportPartners

\* A failed statement or a dead process forgets the entries that were owed.
LEMMA StatementFailsImplements ==
    ASSUME TypeOK, NEW r \in Calls, StatementFails(r)
    PROVE  Ledger!Next
  <1>1. pc'[r] = "done" /\ \A s \in Calls \ {r} : pc'[s] = pc[s] /\ frame'[s] = frame[s] /\ req'[s] = req[s]
    BY PcEffects DEF StatementFails, log
  <1>2. Owed' \subseteq Owed
    BY <1>1, OwedStep
  <1> QED
    BY <1>2, LedgerForget DEF StatementFails, tables, LedgerStatus

LEMMA CrashImplements ==
    ASSUME TypeOK, Crash
    PROVE  Ledger!Next
  <1>1. \A r \in Calls : pc'[r] # "record"
    BY DEF Crash, InFlight, Statements, TypeOK
  <1>2. Owed' = {}
    BY <1>1 DEF Owed
  <1> QED
    BY <1>2, LedgerForget DEF Crash, tables, LedgerStatus

LEMMA HandleImplements ==
    ASSUME TypeOK, NEW r \in Calls, Handle(r)
    PROVE  [Ledger!Next]_ledgerVars
  <1>1. statusToText(1) = "pending" /\ statusToText(2) = "active"
    BY DEF statusToText
  <1>2. CASE CreatePartner(r)
    <2>1. CASE InsertPartner(r, tierToText(req[r].rows[1].tier), statusToText(2))
      BY <1>1, <1>2, <2>1, TextTypes, InsertPartnerImplements DEF CreatePartner
    <2>2. CASE Record(r, "created", "Partner created")
      BY <1>2, <2>2, InsertedEntry, RecordImplements DEF CreatePartner
    <2> QED
      BY <1>2, <2>1, <2>2 DEF CreatePartner
  <1>3. CASE SubmitOnboarding(r)
    <2>1. CASE InsertPartner(r, "", statusToText(1))
      BY <1>1, <1>3, <2>1, InsertPartnerImplements DEF SubmitOnboarding
    <2>2. CASE Record(r, "submitted", "Submitted via public onboarding form")
      BY <1>3, <2>2, InsertedEntry, RecordImplements DEF SubmitOnboarding
    <2> QED
      BY <1>3, <2>1, <2>2 DEF SubmitOnboarding
  <1>4. CASE UpdatePartnerStatus(r)
    <2>1. CASE UpdateRow(r)
      BY <1>4, <2>1, UpdateRowImplements DEF UpdatePartnerStatus
    <2>2. CASE Record(r, "status_changed", statusLabel(req[r].status))
      BY <1>4, <2>2, InsertedEntry, RecordImplements DEF UpdatePartnerStatus
    <2> QED
      BY <1>4, <2>1, <2>2 DEF UpdatePartnerStatus
  <1> QED
    BY <1>2, <1>3, <1>4, ReadImplements, BulkImportImplements, StatementFailsImplements DEF Handle

LEMMA StepImplements == TypeOK /\ [Next]_vars => [Ledger!Next]_ledgerVars
  <1> SUFFICES ASSUME TypeOK, [Next]_vars PROVE [Ledger!Next]_ledgerVars
    OBVIOUS
  <1>1. CASE UNCHANGED vars
    BY <1>1 DEF vars, ledgerVars, LedgerStatus, Owed, Owes
  <1> QED
    BY <1>1, ReceiveImplements, HandleImplements, CrashImplements DEF Next, Finished

LEMMA InitImplements == Init => Ledger!Init
  <1> SUFFICES ASSUME Init PROVE Ledger!Init
    OBVIOUS
  <1>1. LedgerStatus \in [PartnerIds -> {"absent", "pending", "active", "churned"}]
    BY DEF Init, LedgerStatus, SeedRow
  <1>2. Owed = {}
    BY DEF Init, Owed
  <1> QED
    BY <1>1, <1>2 DEF Init, Ledger!Init, LedgerStatus, Owed

\* The handlers implement the ledger: whatever interleaves, fails or crashes, a
\* partner stays, an id is given once (gen_random_uuid()), and an activity is
\* logged at most once and only for a change that its own call has committed.
THEOREM LedgerImplemented == Spec => ImplementsLedger
  <1>1. UNCHANGED ledgerVars => UNCHANGED Ledger!ledger
    BY DEF ledgerVars, LedgerStatus, Owed, Ledger!ledger
  <1>2. TypeOK /\ [Next]_vars => [Ledger!Next]_(Ledger!ledger)
    BY <1>1, StepImplements
  <1> QED
    BY InitImplements, TypeCorrect, <1>2, PTL DEF Spec, ImplementsLedger, Ledger!Spec
=============================================================================
