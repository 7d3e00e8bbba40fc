----------------------------- MODULE PartnerApi -----------------------------
(***************************************************************************)
(* The handlers of PartnerService, OnboardingService and AgentQueryService *)
(* (internal/api/partner.go, internal/api/agentquery.go) over the          *)
(* `partners' and `activities' tables (internal/api/db/partner.go).        *)
(*                                                                         *)
(* The API processes keep no state of their own: a call is a sequence of   *)
(* SQL statements, each committed on its own (no handler opens a           *)
(* transaction), and the statements of concurrent calls interleave.  A     *)
(* step of this module is one statement together with everything the       *)
(* handler does up to the next one.  A statement may succeed, may fail     *)
(* without effect, or may commit and then fail for the caller because its  *)
(* reply was lost; a process may die between two statements of its calls.  *)
(*                                                                         *)
(* A served process always has a database handle (module ApiProcess), so   *)
(* the `s.db == nil' returns of the handlers have no counterpart here.     *)
(***************************************************************************)
EXTENDS Naturals, Sequences, FiniteSets

CONSTANTS
    Calls,       \* the calls that may be made; each is made at most once
    PartnerIds,  \* the uuids gen_random_uuid() can return
    Seeded,      \* the ids of the rows present at the start
    Ops,         \* the procedures that are called
    IdArgs,      \* the ids that requests carry
    StatusArgs,  \* the Status numbers that requests carry
    Inputs,      \* the partner inputs that requests carry
    MaxRows,     \* the most rows a bulk import carries
    BlankId,     \* an id that is empty once trimmed
    BadId,       \* an id that Postgres does not accept as a uuid
    NoRow,       \* the absence of a row
    Seed         \* stands for the writer of the rows present at the start

ReadOps    == {"ListPartners", "AgentListPartners", "GetPartner"}
EntryOps   == {"CreatePartner", "SubmitOnboarding"}
AuditedOps == EntryOps \cup {"UpdatePartnerStatus"}
AllOps     == ReadOps \cup AuditedOps \cup {"BulkImportPartners"}

ASSUME IdAssumption ==
    /\ IsFiniteSet(PartnerIds)
    /\ Seeded \subseteq PartnerIds
    /\ BlankId \notin PartnerIds
    /\ BadId \notin PartnerIds
    /\ BlankId # BadId
    /\ IdArgs \subseteq PartnerIds \cup {BlankId, BadId}
ASSUME SeedAssumption == Seed \notin Calls
ASSUME ArgAssumption ==
    /\ Ops \subseteq AllOps
    /\ StatusArgs \subseteq Nat
    /\ Inputs \subseteq [name: {"blank", "given"}, email: {"blank", "malformed", "good"}, tier: Nat]
    /\ MaxRows \in Nat

-----------------------------------------------------------------------------
(* Wire numbers and column texts.  Proto3 enums are open, so a request can *)
(* carry a number that has no name.                                        *)

tierToText(n)   == CASE n = 1 -> "starter" [] n = 2 -> "pro" [] n = 3 -> "enterprise" [] OTHER -> ""
statusToText(n) == CASE n = 1 -> "pending" [] n = 2 -> "active" [] n = 3 -> "churned" [] OTHER -> ""
textToStatus(s) == CASE s = "pending" -> 1 [] s = "active" -> 2 [] s = "churned" -> 3 [] OTHER -> 0
statusLabel(n)  == CASE n = 1 -> "Pending" [] n = 2 -> "Active" [] n = 3 -> "Churned" [] OTHER -> "Unknown"

\* coalesce(nullif(text, ''), default)
Coalesce(text, default) == IF text = "" THEN default ELSE text

Tiers     == {"starter", "pro", "enterprise"}
Statuses  == {"pending", "active", "churned", ""}
Messages  == {"Partner created", "Submitted via public onboarding form",
              "Pending", "Active", "Churned", "Unknown"}
ActivityTypes == {"created", "submitted", "status_changed"}
Writers   == Calls \cup {Seed}

\* A row of `partners'.  `from' and `by' are history: the call that inserted
\* the row and the call that last wrote its status.
Row == [tier: Tiers, status: Statuses, from: Writers, by: Writers]

ASSUME NoRowAssumption == NoRow \notin Row

\* A row of `activities'; `by' is history: the call that appended it.
Activity == [partner: PartnerIds, type: ActivityTypes, message: Messages, by: Calls]

\* name and contact_email of a partner input, up to what validation tells apart.
validatePartnerInput(in) ==
    CASE in.name = "blank"      -> "name is required"
      [] in.email = "blank"     -> "contact email is required"
      [] in.email = "malformed" -> "contact email is not valid"
      [] OTHER                  -> "ok"

ValidInput(in) == validatePartnerInput(in) = "ok"

RowErrors == {"name is required", "contact email is required",
              "contact email is not valid", "failed to save row"}

-----------------------------------------------------------------------------
(* Requests.                                                               *)

Ask(op, ids, numbers, rowss) == [op: {op}, id: ids, status: numbers, rows: rowss]

OneInput  == [1..1 -> Inputs]
Batches   == UNION {[1..n -> Inputs] : n \in 0..MaxRows}

Requests ==
    {q \in UNION {Ask("ListPartners", {BlankId}, {0}, {<<>>}),
                  Ask("AgentListPartners", {BlankId}, {0}, {<<>>}),
                  Ask("GetPartner", IdArgs, {0}, {<<>>}),
                  Ask("CreatePartner", {BlankId}, {0}, OneInput),
                  Ask("SubmitOnboarding", {BlankId}, {0}, OneInput),
                  Ask("UpdatePartnerStatus", IdArgs, StatusArgs, {<<>>}),
                  Ask("BulkImportPartners", {BlankId}, {0}, Batches)} : q.op \in Ops}

NoRequest == [op |-> "none", id |-> BlankId, status |-> 0, rows |-> <<>>]

\* The early returns with CodeInvalidArgument.
Malformed(q) ==
    \/ q.op \in {"GetPartner", "UpdatePartnerStatus"} /\ q.id = BlankId
    \/ q.op = "UpdatePartnerStatus" /\ q.status = 0
    \/ q.op \in EntryOps /\ ~ValidInput(q.rows[1])

FirstStatement(op) ==
    CASE op \in {"ListPartners", "AgentListPartners"} -> "list"
      [] op = "GetPartner"          -> "get"
      [] op \in EntryOps            -> "insert"
      [] op = "UpdatePartnerStatus" -> "update"
      [] OTHER                      -> "row"

-----------------------------------------------------------------------------
VARIABLES
    partners,    \* the table `partners'
    activities,  \* the table `activities', in insertion order
    req,         \* req[r]: the request of call r
    pc,          \* pc[r]: the statement the handler of r executes next
    code,        \* code[r]: the answer of r
    frame,       \* frame[r]: the local variables of the handler of r
    wrote,       \* history: the ids whose rows r has written
    settled      \* history: the calls that had ended when r arrived

vars == <<partners, activities, req, pc, code, frame, wrote, settled>>
tables == <<partners, activities>>
log  == <<req, wrote, settled>>

Statements == {"list", "count", "get", "activities", "insert", "update", "record", "row"}
Codes == {"none", "ok", "invalid_argument", "not_found", "internal", "lost"}

Table   == [PartnerIds -> Row \cup {NoRow}]
NoTable == [p \in PartnerIds |-> NoRow]

\* id: the partner to log about; shown: the rows read; active, pending: the
\* counts read; acts: the positions in `activities' of the entries read, the
\* newest being the largest; row, imported, errors: the loop of a bulk import.
Frame == [id: PartnerIds \cup {BlankId, BadId}, shown: Table, active: Nat, pending: Nat,
          acts: SUBSET Nat, row: Nat, imported: Nat, errors: Seq([row: Nat, message: RowErrors])]

NoFrame == [id |-> BlankId, shown |-> NoTable, active |-> 0, pending |-> 0,
            acts |-> {}, row |-> 1, imported |-> 0, errors |-> <<>>]

SeedRow == [tier |-> "pro", status |-> "pending", from |-> Seed, by |-> Seed]

Init ==
    /\ partners = [p \in PartnerIds |-> IF p \in Seeded THEN SeedRow ELSE NoRow]
    /\ activities = <<>>
    /\ req = [r \in Calls |-> NoRequest]
    /\ pc = [r \in Calls |-> "waiting"]
    /\ code = [r \in Calls |-> "none"]
    /\ frame = [r \in Calls |-> NoFrame]
    /\ wrote = [r \in Calls |-> {}]
    /\ settled = [r \in Calls |-> {}]

Present  == {p \in PartnerIds : partners[p] # NoRow}
FreshIds == PartnerIds \ Present
InFlight(r) == pc[r] \in Statements

Goto(r, statement) ==
    /\ pc' = [pc EXCEPT ![r] = statement]
    /\ UNCHANGED code

Answer(r, c) ==
    /\ pc' = [pc EXCEPT ![r] = "done"]
    /\ code' = [code EXCEPT ![r] = c]

-----------------------------------------------------------------------------
(* A call arrives and the handler validates it.                            *)

Receive(r) ==
    /\ pc[r] = "waiting"
    /\ \E q \in Requests :
          /\ req' = [req EXCEPT ![r] = q]
          /\ IF Malformed(q) THEN Answer(r, "invalid_argument")
                             ELSE Goto(r, FirstStatement(q.op))
    /\ settled' = [settled EXCEPT ![r] = {o \in Calls : pc[o] = "done"}]
    /\ UNCHANGED <<tables, frame, wrote>>

-----------------------------------------------------------------------------
(* Reads.                                                                  *)

\* Fault: the list leaves out the partners that are not active.
ReadPartners_ActiveOnly(r) ==
    /\ pc[r] = "list"
    /\ frame' = [frame EXCEPT ![r].shown = [p \in PartnerIds |->
                    IF partners[p] # NoRow /\ partners[p].status = "active" THEN partners[p] ELSE NoRow]]
    /\ Goto(r, "count")
    /\ UNCHANGED <<tables, log>>

\* select ... from partners
ReadPartners(r) ==
    /\ pc[r] = "list"
    /\ frame' = [frame EXCEPT ![r].shown = partners]
    /\ Goto(r, "count")
    /\ UNCHANGED <<tables, log>>

\* Fault: the count is not restricted to the status.
CountByStatus_AnyStatus(status) == Cardinality({p \in Present : partners[p].status # "churned"})

\* select status, count(*) from partners group by status, at one status
CountByStatus(status) == Cardinality({p \in Present : partners[p].status = status})

ReadCounts(r) ==
    /\ pc[r] = "count"
    /\ frame' = [frame EXCEPT ![r] = [frame[r] EXCEPT !.active = CountByStatus("active"),
                                               !.pending = CountByStatus("pending")]]
    /\ Answer(r, "ok")
    /\ UNCHANGED <<tables, log>>

ListPartners(r)      == req[r].op = "ListPartners" /\ (ReadPartners(r) \/ ReadCounts(r))
AgentListPartners(r) == req[r].op = "AgentListPartners" /\ (ReadPartners(r) \/ ReadCounts(r))

\* select ... from partners where id = $1; Postgres refuses an id that is no uuid.
ReadPartner(r) ==
    /\ pc[r] = "get"
    /\ req[r].id # BadId
    /\ IF req[r].id \in Present
       THEN /\ frame' = [frame EXCEPT ![r] = [frame[r] EXCEPT !.id = req[r].id,
                                                       !.shown[req[r].id] = partners[req[r].id]]]
            /\ Goto(r, "activities")
       ELSE Answer(r, "not_found") /\ UNCHANGED frame
    /\ UNCHANGED <<tables, log>>

\* select ... from activities where partner_id = $1
ReadActivities(r) ==
    /\ pc[r] = "activities"
    /\ frame' = [frame EXCEPT ![r].acts = {i \in DOMAIN activities : activities[i].partner = frame[r].id}]
    /\ Answer(r, "ok")
    /\ UNCHANGED <<tables, log>>

\* Fault: the activities are read before the row.
GetPartner_ActivitiesFirst(r) ==
    /\ req[r].op = "GetPartner"
    /\ req[r].id # BadId
    /\ \/ /\ pc[r] = "get"
          /\ frame' = [frame EXCEPT ![r].acts = {i \in DOMAIN activities : activities[i].partner = req[r].id}]
          /\ Goto(r, "activities")
       \/ /\ pc[r] = "activities"
          /\ IF req[r].id \in Present
             THEN /\ frame' = [frame EXCEPT ![r].shown[req[r].id] = partners[req[r].id]]
                  /\ Answer(r, "ok")
             ELSE Answer(r, "not_found") /\ UNCHANGED frame
    /\ UNCHANGED <<tables, log>>

GetPartner(r) == req[r].op = "GetPartner" /\ (ReadPartner(r) \/ ReadActivities(r))

-----------------------------------------------------------------------------
(* Writes.  A statement that commits may still fail for the handler, which *)
(* then answers CodeInternal.                                              *)

\* Fault: empty texts are stored as they come.
NewRow_NoDefaults(r, tier, status) == [tier |-> tier, status |-> status, from |-> r, by |-> r]

\* insert into partners ... returning ...
NewRow(r, tier, status) ==
    [tier |-> Coalesce(tier, "starter"), status |-> Coalesce(status, "pending"), from |-> r, by |-> r]

InsertRow(r, p, tier, status) ==
    /\ partners' = [partners EXCEPT ![p] = NewRow(r, tier, status)]
    /\ wrote' = [wrote EXCEPT ![r] = @ \cup {p}]

InsertPartner(r, tier, status) ==
    /\ pc[r] = "insert"
    /\ \E p \in FreshIds :
          /\ InsertRow(r, p, tier, status)
          /\ \/ Goto(r, "record") /\ frame' = [frame EXCEPT ![r].id = p]
             \/ Answer(r, "internal") /\ UNCHANGED frame
    /\ UNCHANGED <<activities, req, settled>>

\* update partners set status = $2 where id = $1 returning ...
UpdateRow(r) ==
    /\ pc[r] = "update"
    /\ req[r].id # BadId
    /\ IF req[r].id \in Present
       THEN /\ partners' = [partners EXCEPT ![req[r].id] =
                              [partners[req[r].id] EXCEPT !.status = statusToText(req[r].status), !.by = r]]
            /\ wrote' = [wrote EXCEPT ![r] = @ \cup {req[r].id}]
            /\ \/ Goto(r, "record") /\ frame' = [frame EXCEPT ![r].id = req[r].id]
               \/ Answer(r, "internal") /\ UNCHANGED frame
       ELSE Answer(r, "not_found") /\ UNCHANGED <<partners, wrote, frame>>
    /\ UNCHANGED <<activities, req, settled>>

\* Fault: the newest activity is not the last of the log.
InsertActivity_AtFront(r, type, message) ==
    activities' = <<[partner |-> frame[r].id, type |-> type, message |-> message, by |-> r]>> \o activities

\* insert into activities ...
InsertActivity(r, type, message) ==
    activities' = Append(activities, [partner |-> frame[r].id, type |-> type,
                                      message |-> message, by |-> r])

\* Fault: an insert that fails is tried again, although it may have committed.
Record_TriesAgain(r, type, message) ==
    /\ pc[r] = "record"
    /\ InsertActivity(r, type, message)
    /\ Answer(r, "ok") \/ Goto(r, "record")
    /\ UNCHANGED <<partners, log, frame>>

Record(r, type, message) ==
    /\ pc[r] = "record"
    /\ InsertActivity(r, type, message)
    /\ Answer(r, "ok") \/ Answer(r, "internal")
    /\ UNCHANGED <<partners, log, frame>>

CreatePartner(r) ==
    /\ req[r].op = "CreatePartner"
    /\ \/ InsertPartner(r, tierToText(req[r].rows[1].tier), statusToText(2))
       \/ Record(r, "created", "Partner created")

\* Fault: a submission is active at once, as a created partner is.
SubmitOnboarding_Active(r) ==
    /\ req[r].op = "SubmitOnboarding"
    /\ \/ InsertPartner(r, "", statusToText(2))
       \/ Record(r, "submitted", "Submitted via public onboarding form")

\* The form has no tier, so the column takes its default.
SubmitOnboarding(r) ==
    /\ req[r].op = "SubmitOnboarding"
    /\ \/ InsertPartner(r, "", statusToText(1))
       \/ Record(r, "submitted", "Submitted via public onboarding form")

UpdatePartnerStatus(r) ==
    /\ req[r].op = "UpdatePartnerStatus"
    /\ \/ UpdateRow(r)
       \/ Record(r, "status_changed", statusLabel(req[r].status))

-----------------------------------------------------------------------------
(* BulkImportPartners: one pass over the rows; a row that fails is         *)
(* reported with its number and never ends the loop.                       *)

CurrentRow(r) == req[r].rows[frame[r].row]

RowRejected(r, message) ==
    frame' = [frame EXCEPT ![r] =
                 [frame[r] EXCEPT
                    !.row = frame[r].row + 1,
                    !.errors = Append(frame[r].errors, [row |-> frame[r].row, message |-> message])]]

RowImported(r) ==
    frame' = [frame EXCEPT ![r] = [frame[r] EXCEPT !.row = frame[r].row + 1,
                                                   !.imported = frame[r].imported + 1]]

AtRow(r) ==
    /\ req[r].op = "BulkImportPartners"
    /\ pc[r] = "row"
    /\ frame[r].row \in DOMAIN req[r].rows

\* Fault: an invalid row is reported and then imported all the same.
RejectRow_NoContinue(r) ==
    /\ AtRow(r)
    /\ ~ValidInput(CurrentRow(r))
    /\ \E p \in FreshIds : InsertRow(r, p, tierToText(CurrentRow(r).tier), statusToText(2))
    /\ frame' = [frame EXCEPT ![r] =
                    [frame[r] EXCEPT
                       !.row = frame[r].row + 1,
                       !.imported = frame[r].imported + 1,
                       !.errors = Append(frame[r].errors,
                                         [row |-> frame[r].row,
                                          message |-> validatePartnerInput(CurrentRow(r))])]]
    /\ UNCHANGED <<activities, req, settled, pc, code>>

RejectRow(r) ==
    /\ AtRow(r)
    /\ ~ValidInput(CurrentRow(r))
    /\ RowRejected(r, validatePartnerInput(CurrentRow(r)))
    /\ UNCHANGED <<tables, log, pc, code>>

SaveRow(r) ==
    /\ AtRow(r)
    /\ ValidInput(CurrentRow(r))
    /\ \E p \in FreshIds : InsertRow(r, p, tierToText(CurrentRow(r).tier), statusToText(2))
    /\ RowImported(r) \/ RowRejected(r, "failed to save row")
    /\ UNCHANGED <<activities, req, settled, pc, code>>

SaveRowFails(r) ==
    /\ AtRow(r)
    /\ ValidInput(CurrentRow(r))
    /\ RowRejected(r, "failed to save row")
    /\ UNCHANGED <<tables, log, pc, code>>

ImportEnds(r) ==
    /\ req[r].op = "BulkImportPartners"
    /\ pc[r] = "row"
    /\ frame[r].row \notin DOMAIN req[r].rows
    /\ Answer(r, "ok")
    /\ UNCHANGED <<tables, log, frame>>

BulkImportPartners(r) == RejectRow(r) \/ SaveRow(r) \/ SaveRowFails(r) \/ ImportEnds(r)

-----------------------------------------------------------------------------
(* Fault: an activity that cannot be inserted is ignored.                  *)
StatementFails_LogErrorIgnored(r) ==
    /\ pc[r] \in Statements \ {"row"}
    /\ Answer(r, IF pc[r] = "record" THEN "ok" ELSE "internal")
    /\ UNCHANGED <<tables, log, frame>>

(* Fault: a list whose count fails starts again, however often.            *)
StatementFails_RetriesForever(r) ==
    /\ pc[r] \in Statements \ {"row"}
    /\ IF pc[r] = "count" THEN Goto(r, "list") ELSE Answer(r, "internal")
    /\ UNCHANGED <<tables, log, frame>>

(* A statement of any other handler fails without effect: the connection   *)
(* is down, the client has gone and its context is cancelled, or Postgres  *)
(* refuses the id.                                                         *)
StatementFails(r) ==
    /\ pc[r] \in Statements \ {"row"}
    /\ Answer(r, "internal")
    /\ UNCHANGED <<tables, log, frame>>

\* The API process dies with its calls; what it committed stays.
Crash ==
    /\ \E r \in Calls : InFlight(r)
    /\ pc' = [r \in Calls |-> IF InFlight(r) THEN "done" ELSE pc[r]]
    /\ code' = [r \in Calls |-> IF InFlight(r) THEN "lost" ELSE code[r]]
    /\ UNCHANGED <<tables, log, frame>>

\* All calls have been made and answered.
Finished ==
    /\ \A r \in Calls : pc[r] = "done"
    /\ UNCHANGED vars

Handle(r) ==
    \/ ListPartners(r)
    \/ AgentListPartners(r)
    \/ GetPartner(r)
    \/ CreatePartner(r)
    \/ SubmitOnboarding(r)
    \/ UpdatePartnerStatus(r)
    \/ BulkImportPartners(r)
    \/ StatementFails(r)

Next ==
    \/ \E r \in Calls : Receive(r) \/ Handle(r)
    \/ Crash
    \/ Finished

Spec == Init /\ [][Next]_vars

\* database/sql and net/http keep running a handler until it returns.
FairSpec == Spec /\ \A r \in Calls : WF_vars(Handle(r))

-----------------------------------------------------------------------------
(* Properties.                                                             *)

\* Every variable has the type its comment gives.
TypeOK ==
    /\ partners \in Table
    /\ activities \in Seq(Activity)
    /\ req \in [Calls -> Requests \cup {NoRequest}]
    /\ pc \in [Calls -> Statements \cup {"waiting", "done"}]
    /\ code \in [Calls -> Codes]
    /\ frame \in [Calls -> Frame]
    /\ wrote \in [Calls -> SUBSET PartnerIds]
    /\ settled \in [Calls -> SUBSET Calls]

Audited(r)  == req[r].op \in AuditedOps
LoggedBy(r) == {i \in DOMAIN activities : activities[i].by = r}

\* An ok answer to a create, a submission or a status change stands for one
\* written partner and one activity about it.
OkMeansWrittenAndLogged ==
    \A r \in Calls : code[r] = "ok" /\ Audited(r) =>
        \E p \in PartnerIds, i \in DOMAIN activities :
            /\ wrote[r] = {p}
            /\ LoggedBy(r) = {i}
            /\ activities[i].partner = p

\* A refused call wrote nothing.
RefusedLeavesNoTrace ==
    \A r \in Calls : code[r] \in {"invalid_argument", "not_found"} =>
        wrote[r] = {} /\ LoggedBy(r) = {}

\* An activity is about a partner its call had written, and is that call's only one.
EntriesAreJustified ==
    \A i \in DOMAIN activities :
        LET a == activities[i] IN
        /\ a.partner \in wrote[a.by]
        /\ LoggedBy(a.by) = {i}

\* What callers are told about the audit log agrees with the tables, whatever
\* else runs, fails or crashes: CreatePartner, UpdatePartnerStatus and
\* SubmitOnboarding answer ok only after both of their statements, and the log
\* holds no entry that a failed or repeated statement left behind.
AnswersMatchEffects ==
    /\ OkMeansWrittenAndLogged
    /\ RefusedLeavesNoTrace
    /\ EntriesAreJustified

\* The status a call gives to the rows it writes.
StatusWrittenBy(q) ==
    CASE q.op = "UpdatePartnerStatus" -> statusToText(q.status)
      [] q.op = "SubmitOnboarding"    -> "pending"
      [] OTHER                        -> "active"

\* A self-serve submission "lands as Pending for an admin to review"
\* (partner.go:171): a submitted partner is pending until a status change of
\* that very row is made, and a row's status is what its last writer asked for.
OnlyReviewLeavesPending ==
    \A p \in Present :
        LET row == partners[p] IN
        /\ row.from # Seed => p \in wrote[row.from]
        /\ row.by # Seed => p \in wrote[row.by] /\ row.status = StatusWrittenBy(req[row.by])
        /\ row.by # row.from => req[row.by].op = "UpdatePartnerStatus"
        /\ row.from # Seed /\ req[row.from].op = "SubmitOnboarding" /\ row.status # "pending"
              => row.by # row.from

Overlap(r, s) == r # s /\ r \notin settled[s] /\ s \notin settled[r]

\* The label that an activity tells its reader the status is.
StatusTold(a) ==
    CASE a.type = "created"   -> "Active"
      [] a.type = "submitted" -> "Pending"
      [] OTHER                -> a.message

\* Once the last change of a partner's status is answered ok, an activity names
\* that status, and only calls that overlapped the change can have logged a newer
\* one: UpdatePartnerStatus commits its row and its activity one by one
\* (partner.go:122-131), so that the log may end with the change that the row lost
\* to the other, but never with one that was over before, or began after.
NewestEntryNamesStatus ==
    \A p \in Present :
        LET w == partners[p].by
            about == {i \in DOMAIN activities : activities[i].partner = p}
        IN  w # Seed /\ code[w] = "ok" /\ Audited(w) =>
               \E i \in about :
                  /\ StatusTold(activities[i]) = statusLabel(textToStatus(partners[p].status))
                  /\ \A j \in about : j <= i \/ Overlap(activities[j].by, w)

\* GetPartner reads the row first and the activities second, so a status it
\* shows whose change has been answered ok comes with the activity about it.
ShownStatusIsExplained ==
    [][\A r \in Calls :
          req[r].op = "GetPartner" /\ code[r] # "ok" /\ code'[r] = "ok" =>
             LET w == frame'[r].shown[req[r].id].by IN
             w \in Calls /\ code[w] = "ok" /\ Audited(w) =>
                \E i \in frame'[r].acts : activities[i].by = w]_vars

Reads(r, ops) == req[r].op \in ops /\ code[r] = "ok"

\* A read that arrived after a write was answered ok sees it: the row in a
\* list, the row and its activity in GetPartner.
AckedWritesAreRead ==
    \A r \in Calls, w \in Calls : w \in settled[r] /\ code[w] = "ok" =>
        /\ Reads(r, {"ListPartners", "AgentListPartners"}) =>
              \A p \in wrote[w] : frame[r].shown[p] # NoRow
        /\ Reads(r, {"GetPartner"}) /\ req[r].id \in wrote[w] =>
              /\ frame[r].shown[req[r].id] # NoRow
              /\ Audited(w) => \E i \in frame[r].acts : activities[i].by = w

ShownWith(r, status) ==
    Cardinality({p \in PartnerIds : frame[r].shown[p] # NoRow /\ frame[r].shown[p].status = status})
Total(r) == Cardinality({p \in PartnerIds : frame[r].shown[p] # NoRow})

Gap(m, n) == IF m < n THEN n - m ELSE m - n

\* The row writes of calls that were not over when r arrived.
WritesBeside(r) ==
    Cardinality({x \in Calls \X PartnerIds : x[1] \notin settled[r] /\ x[2] \in wrote[x[1]]})

\* The two reads of ListPartners are not one snapshot, but the summary differs
\* from the rows listed with it by at most one partner per write that was not
\* over when the call arrived: with none, the two agree.
SummaryDriftIsBounded ==
    \A r \in Calls : Reads(r, {"ListPartners", "AgentListPartners"}) =>
        /\ Gap(frame[r].active, ShownWith(r, "active")) <= WritesBeside(r)
        /\ Gap(frame[r].pending, ShownWith(r, "pending")) <= WritesBeside(r)

\* BulkImportPartners answers for each row once, in order: invalid rows are
\* reported and have no effect, a row reported as imported is in the table, and
\* the only rows that may be in the table unreported are those whose save
\* failed for the handler (docs/invariants.md INV-6).
BulkAccountsForEveryRow ==
    \A r \in Calls : req[r].op = "BulkImportPartners" /\ pc[r] \in {"row", "done"} =>
        LET f == frame[r]
            seen == {i \in DOMAIN req[r].rows : i < f.row}
            reported == {f.errors[k].row : k \in DOMAIN f.errors}
            unsaved == {k \in DOMAIN f.errors : f.errors[k].message = "failed to save row"}
            bad == {i \in seen : ~ValidInput(req[r].rows[i])}
        IN  /\ f.imported + Len(f.errors) = Cardinality(seen)
            /\ \A j, k \in DOMAIN f.errors : j < k => f.errors[j].row < f.errors[k].row
            /\ bad \subseteq reported /\ reported \subseteq seen
            /\ f.imported <= Cardinality(wrote[r])
            /\ Cardinality(wrote[r]) <= f.imported + Cardinality(unsaved)
            /\ code[r] = "ok" => seen = DOMAIN req[r].rows

\* A call that has arrived is answered, or dies with its process.
EveryCallAnswered == \A r \in Calls : InFlight(r) ~> pc[r] = "done"

\* PRD.md:81: the Total, Active and Pending counts are consistent.
SummaryAddsUp ==
    \A r \in Calls : Reads(r, {"ListPartners"}) => frame[r].active + frame[r].pending <= Total(r)

-----------------------------------------------------------------------------
(* The ledger that the two tables are, seen without the calls.             *)

\* The entry that a call at its second statement has still to log.
Owes(r) ==
    [partner |-> frame[r].id, by |-> r,
     type    |-> CASE req[r].op = "CreatePartner"    -> "created"
                   [] req[r].op = "SubmitOnboarding" -> "submitted"
                   [] OTHER                          -> "status_changed",
     message |-> CASE req[r].op = "CreatePartner"    -> "Partner created"
                   [] req[r].op = "SubmitOnboarding" -> "Submitted via public onboarding form"
                   [] OTHER                          -> statusLabel(req[r].status)]

Ledger == INSTANCE PartnerLedger WITH
    status <- [p \in PartnerIds |-> IF partners[p] = NoRow THEN "absent" ELSE partners[p].status],
    log    <- activities,
    owed   <- {Owes(r) : r \in {s \in Calls : pc[s] = "record"}}

\* Seen without the calls, the handlers' statements keep the ledger: partners
\* stay, an id is given once, and the log only grows by the entry of a change
\* that was made, once, whatever interleaves, fails or crashes.
ImplementsLedger == Ledger!Spec
=============================================================================
