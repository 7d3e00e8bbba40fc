-------------------------- MODULE PartnerReadProofs --------------------------
(***************************************************************************)
(* Proofs about what the callers of PartnerApi are shown: that reads see   *)
(* the writes that were answered before them, that the status of a partner *)
(* is explained by the audit log, that the summary of a list drifts by no  *)
(* more than the writes beside it, and that an import accounts for every   *)
(* row; for any set of calls, of ids and of inputs.                        *)
(***************************************************************************)
EXTENDS PartnerApiProofs

-----------------------------------------------------------------------------
(* What the calls that have arrived rest on.                               *)

ListOps == {"ListPartners", "AgentListPartners"}

\* A call arrives after those it counts as settled have ended.
SettledInv == \A r \in Calls : \A w \in settled[r] : pc[w] = "done"

\* A row that a call has written is there, and was last written by a call.
WrittenInv ==
    \A r \in Calls : \A p \in wrote[r] : partners[p] # NoRow /\ partners[p].by # Seed

\* Before a call arrives its handler has no local variables.
WaitingInv == \A r \in Calls : pc[r] = "waiting" => frame[r] = NoFrame

-----------------------------------------------------------------------------
(* What a read has seen.                                                   *)

\* A row that a call has read was last written by a writer of it.
ShownInv(r) ==
    \A p \in PartnerIds : frame[r].shown[p] # NoRow /\ frame[r].shown[p].by # Seed =>
        p \in wrote[frame[r].shown[p].by]

\* A list has the rows that were written before it arrived, GetPartner the row
\* that was asked for and the entries that were logged before it arrived.
ReaderInv(r) ==
    /\ req[r].op \in ListOps /\ (pc[r] = "count" \/ code[r] = "ok") =>
          \A w \in settled[r] : \A p \in wrote[w] : frame[r].shown[p] # NoRow
    /\ pc[r] = "activities" => req[r].op = "GetPartner" /\ frame[r].id = req[r].id
    /\ req[r].op = "GetPartner" /\ (pc[r] = "activities" \/ code[r] = "ok") =>
          req[r].id \in PartnerIds /\ frame[r].shown[req[r].id] # NoRow
    /\ req[r].op = "GetPartner" /\ code[r] = "ok" =>
          \A w \in settled[r] : code[w] = "ok" /\ Audited(w) /\ req[r].id \in wrote[w] =>
              \E i \in frame[r].acts : i \in DOMAIN activities /\ activities[i].by = w

ReadInv ==
    /\ IInv /\ SettledInv /\ WrittenInv /\ WaitingInv
    /\ \A r \in Calls : ShownInv(r) /\ ReaderInv(r)

\* An entry tells what its call asked for.
EntryTexts ==
    \A i \in DOMAIN activities :
        LET a == activities[i]
            q == req[a.by]
        IN  \/ q.op = "CreatePartner" /\ a.type = "created"
            \/ q.op = "SubmitOnboarding" /\ a.type = "submitted"
            \/ q.op = "UpdatePartnerStatus" /\ a.type = "status_changed" /\ a.message = statusLabel(q.status)

\* Entries are in the order of calls that did not overlap.
EntryOrder ==
    \A i, j \in DOMAIN activities : activities[j].by \in settled[activities[i].by] => j < i

\* The last writer of a row did not end before another of its writers arrived.
LastWriters ==
    \A s \in Calls : \A p \in wrote[s] : partners[p].by \notin settled[s]

OrderInv == ReadInv /\ EntryTexts /\ EntryOrder /\ LastWriters

-----------------------------------------------------------------------------
(* What any step does.                                                     *)

\* One call moves and the others stand still.
Acts(r) ==
    /\ Receive(r) \/ Handle(r)
    /\ \A s \in Calls \ {r} : /\ pc'[s] = pc[s] /\ code'[s] = code[s] /\ frame'[s] = frame[s]
                              /\ req'[s] = req[s] /\ settled'[s] = settled[s] /\ wrote'[s] = wrote[s]

LEMMA OthersStand ==
    ASSUME TypeOK, NEW r \in Calls, Receive(r) \/ Handle(r)
    PROVE  Acts(r)
  <1>1. CASE Receive(r)
    <2>1. \A s \in Calls \ {r} : /\ pc'[s] = pc[s] /\ code'[s] = code[s] /\ req'[s] = req[s]
                                 /\ settled'[s] = settled[s]
      BY <1>1 DEF Receive, Goto, Answer, TypeOK
    <2> QED
      BY <1>1, <2>1 DEF Receive, Acts
  <1>2. CASE StatementFails(r)
    BY <1>2, PcEffects DEF StatementFails, Acts, tables, log, Handle
  <1>3. CASE ListPartners(r) \/ AgentListPartners(r) \/ GetPartner(r)
    <2>1. UNCHANGED <<tables, log>>
      BY <1>3 DEF ListPartners, AgentListPartners, GetPartner, ReadPartners, ReadCounts, ReadPartner,
                  ReadActivities
    <2>2. \A s \in Calls \ {r} : pc'[s] = pc[s] /\ code'[s] = code[s] /\ frame'[s] = frame[s]
      BY <1>3, PcEffects DEF ListPartners, AgentListPartners, GetPartner, ReadPartners, ReadCounts,
                             ReadPartner, ReadActivities, TypeOK
    <2> QED
      BY <1>3, <2>1, <2>2 DEF Acts, Handle, tables, log
  <1>4. CASE CreatePartner(r) \/ SubmitOnboarding(r) \/ UpdatePartnerStatus(r)
    <2>1. ASSUME NEW tier, NEW status, InsertPartner(r, tier, status)
          PROVE  Acts(r)
      BY <1>4, <2>1, PcEffects DEF InsertPartner, InsertRow, Acts, Handle, TypeOK
    <2>2. ASSUME NEW type, NEW message, Record(r, type, message)
          PROVE  Acts(r)
      BY <1>4, <2>2, PcEffects DEF Record, Acts, Handle, log
    <2>3. ASSUME UpdateRow(r)
          PROVE  Acts(r)
      BY <1>4, <2>3, PcEffects DEF UpdateRow, Acts, Handle, TypeOK
    <2> QED
      BY <1>4, <2>1, <2>2, <2>3 DEF CreatePartner, SubmitOnboarding, UpdatePartnerStatus
  <1>5. CASE BulkImportPartners(r)
    <2>1. CASE RejectRow(r) \/ SaveRowFails(r)
      BY <1>5, <2>1 DEF RejectRow, SaveRowFails, RowRejected, Acts, Handle, tables, log, TypeOK
    <2>2. CASE SaveRow(r)
      BY <1>5, <2>2 DEF SaveRow, RowRejected, RowImported, InsertRow, Acts, Handle, TypeOK
    <2>3. CASE ImportEnds(r)
      BY <1>5, <2>3, PcEffects DEF ImportEnds, Acts, Handle, tables, log
    <2> QED
      BY <1>5, <2>1, <2>2, <2>3 DEF BulkImportPartners
  <1> QED
    BY <1>1, <1>2, <1>3, <1>4, <1>5 DEF Handle

\* The call that moves is under way, or arrives.
LEMMA ActorIsUnderWay ==
    ASSUME NEW r \in Calls
    PROVE  /\ Receive(r) => pc[r] = "waiting"
           /\ Handle(r) => /\ pc[r] \in Statements /\ pc[r] # "waiting" /\ pc[r] # "done"
                           /\ req' = req /\ settled' = settled
  <1>1. pc[r] \in Statements => pc[r] # "waiting" /\ pc[r] # "done"
    BY DEF Statements
  <1>2. Handle(r) => pc[r] \in Statements
    BY DEF Handle, ListPartners, AgentListPartners, GetPartner, ReadPartners, ReadCounts, ReadPartner,
           ReadActivities, CreatePartner, SubmitOnboarding, UpdatePartnerStatus, InsertPartner,
           UpdateRow, Record, BulkImportPartners, RejectRow, SaveRow, SaveRowFails, ImportEnds, AtRow,
           StatementFails, Statements
  <1>3. Handle(r) => req' = req /\ settled' = settled
    BY DEF Handle, ListPartners, AgentListPartners, GetPartner, ReadPartners, ReadCounts, ReadPartner,
           ReadActivities, CreatePartner, SubmitOnboarding, UpdatePartnerStatus, InsertPartner,
           UpdateRow, Record, BulkImportPartners, RejectRow, SaveRow, SaveRowFails, ImportEnds,
           StatementFails, log
  <1> QED
    BY <1>1, <1>2, <1>3 DEF Receive

\* A statement that writes a row writes one that its call had not written.
Writes(r, p) ==
    /\ pc[r] \in {"insert", "update", "row"}
    /\ p \notin wrote[r] /\ wrote' = [wrote EXCEPT ![r] = wrote[r] \cup {p}]
    /\ partners'[p] # NoRow /\ partners'[p].by = r
    /\ \A x \in PartnerIds \ {p} : partners'[x] = partners[x]
    /\ UNCHANGED <<activities, req, settled>>

LEMMA InsertWrites ==
    ASSUME ReadInv, NEW r \in Calls, NEW p \in FreshIds, NEW tier \in Tiers \cup {""},
           NEW status \in Statuses, InsertRow(r, p, tier, status), pc[r] \in {"insert", "row"},
           UNCHANGED <<activities, req, settled>>
    PROVE  p \in PartnerIds /\ Writes(r, p)
  <1>1. p \in PartnerIds /\ partners[p] = NoRow /\ p \notin wrote[r]
    BY DEF FreshIds, Present, ReadInv, WrittenInv
  <1>2. /\ partners \in Table /\ NewRow(r, tier, status) \in Row
        /\ partners' = [partners EXCEPT ![p] = NewRow(r, tier, status)]
        /\ wrote' = [wrote EXCEPT ![r] = wrote[r] \cup {p}]
    BY NewRowType DEF InsertRow, ReadInv, IInv, TypeOK
  <1>3. partners'[p] = NewRow(r, tier, status) /\ \A x \in PartnerIds \ {p} : partners'[x] = partners[x]
    BY <1>1, <1>2 DEF Table
  <1>4. NewRow(r, tier, status) # NoRow /\ NewRow(r, tier, status).by = r
    BY <1>2, NoRowAssumption DEF NewRow
  <1> QED
    BY <1>1, <1>2, <1>3, <1>4 DEF Writes

LEMMA UpdateWrites ==
    ASSUME ReadInv, NEW r \in Calls, UpdateRow(r)
    PROVE  UNCHANGED <<partners, wrote>> \/ \E p \in PartnerIds : Writes(r, p)
  <1>p. PICK p : p = req[r].id
    OBVIOUS
  <1>1. CASE p \notin Present
    BY <1>p, <1>1 DEF UpdateRow
  <1>2. CASE p \in Present
    <2>1. p \in PartnerIds /\ partners[p] \in Row /\ partners \in Table
      BY <1>2 DEF ReadInv, IInv, TypeOK, Present, Table
    <2>r. PICK row : row = [partners[p] EXCEPT !.status = statusToText(req[r].status), !.by = r]
      OBVIOUS
    <2>2. row \in Row /\ row.by = r
      BY <2>1, <2>r, TextTypes DEF Row, Writers
    <2>3. /\ partners' = [partners EXCEPT ![p] = row]
          /\ wrote' = [wrote EXCEPT ![r] = wrote[r] \cup {p}]
          /\ pc[r] = "update" /\ UNCHANGED <<activities, req, settled>>
      BY <1>p, <1>2, <2>r DEF UpdateRow
    <2>4. partners'[p] = row /\ \A x \in PartnerIds \ {p} : partners'[x] = partners[x]
      BY <2>1, <2>3 DEF Table
    <2>5. wrote[r] = {}
      BY <2>3 DEF ReadInv, IInv, CallInv
    <2>6. row # NoRow
      BY <2>2, NoRowAssumption
    <2>7. Writes(r, p)
      BY <2>2, <2>3, <2>4, <2>5, <2>6 DEF Writes
    <2> QED
      BY <2>1, <2>7
  <1> QED
    BY <1>1, <1>2

LEMMA TablesStep ==
    ASSUME ReadInv, NEW r \in Calls, Handle(r)
    PROVE  UNCHANGED <<partners, wrote>> \/ \E p \in PartnerIds : Writes(r, p)
  <1>1. CASE ListPartners(r) \/ AgentListPartners(r) \/ GetPartner(r) \/ StatementFails(r)
    BY <1>1 DEF ListPartners, AgentListPartners, GetPartner, ReadPartners, ReadCounts, ReadPartner,
                ReadActivities, StatementFails, tables, log
  <1>2. ASSUME NEW tier \in Tiers \cup {""}, NEW status \in Statuses, InsertPartner(r, tier, status)
        PROVE  \E p \in PartnerIds : Writes(r, p)
    BY <1>2, InsertWrites DEF InsertPartner
  <1>3. ASSUME NEW type, NEW message, Record(r, type, message)
        PROVE  UNCHANGED <<partners, wrote>>
    BY <1>3 DEF Record, log
  <1>4. CASE CreatePartner(r) \/ SubmitOnboarding(r)
    <2>1. ASSUME NEW t, t = tierToText(req[r].rows[1].tier) PROVE t \in Tiers \cup {""}
      BY <2>1, TextTypes
    <2>2. statusToText(1) \in Statuses /\ statusToText(2) \in Statuses /\ "" \in Tiers \cup {""}
      BY TextTypes
    <2> QED
      BY <1>2, <1>3, <1>4, <2>1, <2>2 DEF CreatePartner, SubmitOnboarding
  <1>5. CASE UpdatePartnerStatus(r)
    BY <1>3, <1>5, UpdateWrites DEF UpdatePartnerStatus
  <1>6. CASE BulkImportPartners(r)
    <2>1. CASE SaveRow(r)
      BY <2>1, InsertWrites, TextTypes DEF SaveRow, AtRow
    <2>2. CASE RejectRow(r) \/ SaveRowFails(r) \/ ImportEnds(r)
      BY <2>2 DEF RejectRow, SaveRowFails, ImportEnds, tables, log
    <2> QED
      BY <1>6, <2>1, <2>2 DEF BulkImportPartners
  <1> QED
    BY <1>1, <1>4, <1>5, <1>6 DEF Handle

\* A statement that logs appends the entry its call owes.
Logs(r) ==
    /\ pc[r] = "record" /\ Audited(r)
    /\ activities' = Append(activities, Owes(r))
    /\ UNCHANGED <<partners, log>>

LEMMA LogStep ==
    ASSUME NEW r \in Calls, Handle(r)
    PROVE  activities' = activities \/ Logs(r)
  <1>1. CASE ListPartners(r) \/ AgentListPartners(r) \/ GetPartner(r) \/ StatementFails(r)
    BY <1>1 DEF ListPartners, AgentListPartners, GetPartner, ReadPartners, ReadCounts, ReadPartner,
                ReadActivities, StatementFails, tables
  <1>2. ASSUME NEW type, NEW message, Record(r, type, message),
               activities' = Append(activities, Owes(r)), req[r].op \in AuditedOps
        PROVE  Logs(r)
    BY <1>2 DEF Record, Logs, Audited
  <1>3. CASE CreatePartner(r)
    <2>1. req[r].op = "CreatePartner" /\ req[r].op \in AuditedOps
      BY <1>3 DEF CreatePartner, AuditedOps, EntryOps
    <2> QED
      BY <1>2, <1>3, <2>1, InsertedEntry DEF CreatePartner, InsertPartner
  <1>4. CASE SubmitOnboarding(r)
    <2>1. req[r].op = "SubmitOnboarding" /\ req[r].op \in AuditedOps
      BY <1>4 DEF SubmitOnboarding, AuditedOps, EntryOps
    <2> QED
      BY <1>2, <1>4, <2>1, InsertedEntry DEF SubmitOnboarding, InsertPartner
  <1>5. CASE UpdatePartnerStatus(r)
    <2>1. req[r].op = "UpdatePartnerStatus" /\ req[r].op \in AuditedOps
      BY <1>5 DEF UpdatePartnerStatus, AuditedOps
    <2> QED
      BY <1>2, <1>5, <2>1, InsertedEntry DEF UpdatePartnerStatus, UpdateRow
  <1>6. CASE BulkImportPartners(r)
    BY <1>6 DEF BulkImportPartners, RejectRow, SaveRow, SaveRowFails, ImportEnds, tables
  <1> QED
    BY <1>1, <1>3, <1>4, <1>5, <1>6 DEF Handle

\* What no step takes back: rows, entries, what a call has written, and everything
\* about a call that is over.
Kept ==
    /\ \A r \in Calls : wrote[r] \subseteq wrote'[r]
    /\ \A p \in PartnerIds : partners[p] # NoRow => partners'[p] # NoRow
    /\ \A i \in DOMAIN activities : i \in DOMAIN activities' /\ activities'[i] = activities[i]
    /\ \A r \in Calls : pc[r] = "done" =>
          /\ pc'[r] = "done" /\ code'[r] = code[r] /\ wrote'[r] = wrote[r]
          /\ frame'[r] = frame[r] /\ req'[r] = req[r] /\ settled'[r] = settled[r]
    /\ \A r \in Calls : pc[r] # "waiting" => req'[r] = req[r] /\ settled'[r] = settled[r]

LEMMA StepKeeps ==
    ASSUME ReadInv, [Next]_vars
    PROVE  Kept
  <1> TypeOK
    BY DEF ReadInv, IInv
  <1>1. ASSUME NEW r \in Calls, Handle(r) PROVE Kept
    <2>1. Acts(r) /\ pc[r] # "waiting" /\ pc[r] # "done" /\ req' = req /\ settled' = settled
      BY <1>1, OthersStand, ActorIsUnderWay
    <2>2. /\ wrote[r] \subseteq wrote'[r]
          /\ \A p \in PartnerIds : partners[p] # NoRow => partners'[p] # NoRow
      <3>1. CASE UNCHANGED <<partners, wrote>>
        BY <3>1
      <3>2. ASSUME NEW p \in PartnerIds, Writes(r, p)
            PROVE  /\ wrote[r] \subseteq wrote'[r]
                   /\ \A x \in PartnerIds : partners[x] # NoRow => partners'[x] # NoRow
        BY <3>2 DEF Writes, TypeOK
      <3> QED
        BY <1>1, <3>1, <3>2, TablesStep
    <2>3. \A i \in DOMAIN activities : i \in DOMAIN activities' /\ activities'[i] = activities[i]
      BY <1>1, LogStep, AppendEntry DEF Logs
    <2> QED
      BY <2>1, <2>2, <2>3 DEF Acts, Kept
  <1>2. ASSUME NEW r \in Calls, Receive(r) PROVE Kept
    <2>1. Acts(r) /\ pc[r] = "waiting" /\ UNCHANGED <<tables, frame, wrote>>
      BY <1>2, OthersStand, ActorIsUnderWay DEF Receive
    <2> QED
      BY <2>1 DEF Acts, Kept, tables
  <1>3. CASE Crash
    BY <1>3 DEF Crash, Kept, tables, log, InFlight, Statements
  <1>4. CASE UNCHANGED vars
    BY <1>4 DEF vars, Kept
  <1> QED
    BY <1>1, <1>2, <1>3, <1>4 DEF Next, Finished

-----------------------------------------------------------------------------
(* ReadInv is an invariant.                                                *)

LEMMA SettledStep ==
    ASSUME ReadInv, [Next]_vars
    PROVE  SettledInv'
  <1> TypeOK /\ Kept
    BY StepKeeps DEF ReadInv, IInv
  <1>1. ASSUME NEW r \in Calls, Receive(r) PROVE SettledInv'
    <2>1. settled'[r] = {o \in Calls : pc[o] = "done"} /\ Acts(r)
      BY <1>1, OthersStand DEF Receive, TypeOK
    <2> QED
      BY <2>1 DEF ReadInv, SettledInv, Kept, Acts, TypeOK
  <1>2. CASE settled' = settled
    BY <1>2 DEF ReadInv, SettledInv, Kept, TypeOK
  <1>3. \A r \in Calls : Handle(r) => settled' = settled
    BY ActorIsUnderWay
  <1> QED
    BY <1>1, <1>2, <1>3 DEF Next, Finished, Crash, vars, log

LEMMA WrittenStep ==
    ASSUME ReadInv, [Next]_vars
    PROVE  WrittenInv'
  <1> TypeOK
    BY DEF ReadInv, IInv
  <1>1. CASE UNCHANGED <<partners, wrote>>
    BY <1>1 DEF ReadInv, WrittenInv
  <1>2. ASSUME NEW r \in Calls, NEW p \in PartnerIds, Writes(r, p) PROVE WrittenInv'
    <2>1. r # Seed
      BY SeedAssumption
    <2>2. \A s \in Calls : wrote[s] \subseteq PartnerIds /\ wrote'[s] \subseteq wrote[s] \cup {p}
      BY <1>2 DEF Writes, TypeOK
    <2>3. ASSUME NEW s \in Calls, NEW x \in wrote'[s]
          PROVE  partners'[x] # NoRow /\ partners'[x].by # Seed
      <3>1. CASE x = p
        BY <1>2, <2>1, <3>1 DEF Writes
      <3>2. CASE x # p
        <4>1. x \in wrote[s] /\ x \in PartnerIds
          BY <2>2, <2>3, <3>2
        <4>2. partners'[x] = partners[x]
          BY <1>2, <3>2, <4>1 DEF Writes
        <4> QED
          BY <4>1, <4>2 DEF ReadInv, WrittenInv
      <3> QED
        BY <3>1, <3>2
    <2> QED
      BY <2>3 DEF WrittenInv
  <1>3. \A r \in Calls : Handle(r) => UNCHANGED <<partners, wrote>> \/ \E p \in PartnerIds : Writes(r, p)
    BY TablesStep
  <1>4. \A r \in Calls : Receive(r) => UNCHANGED <<partners, wrote>>
    BY DEF Receive, tables
  <1>5. Crash \/ UNCHANGED vars => UNCHANGED <<partners, wrote>>
    BY DEF Crash, vars, tables, log
  <1> QED
    BY <1>1, <1>2, <1>3, <1>4, <1>5 DEF Next, Finished

LEMMA WaitingStep ==
    ASSUME ReadInv, [Next]_vars
    PROVE  WaitingInv'
  <1> TypeOK
    BY DEF ReadInv, IInv
  <1>1. ASSUME NEW r \in Calls, Receive(r) PROVE WaitingInv'
    BY <1>1 DEF Receive, ReadInv, WaitingInv, Goto, Answer, TypeOK, FirstStatement
  <1>2. ASSUME NEW r \in Calls, Handle(r) PROVE WaitingInv'
    <2>1. Acts(r) /\ pc[r] # "waiting"
      BY <1>2, OthersStand, ActorIsUnderWay
    <2>2. pc'[r] # "waiting"
      <3>1. CASE ListPartners(r) \/ AgentListPartners(r)
        BY <3>1, PcEffects DEF ListPartners, AgentListPartners, ReadPartners, ReadCounts
      <3>2. CASE GetPartner(r)
        BY <3>2, PcEffects DEF GetPartner, ReadPartner, ReadActivities
      <3>3. CASE CreatePartner(r) \/ SubmitOnboarding(r) \/ UpdatePartnerStatus(r)
        <4>1. \A tier, status : InsertPartner(r, tier, status) => pc'[r] \in {"record", "done"}
          BY PcEffects DEF InsertPartner
        <4>2. \A type, message : Record(r, type, message) => pc'[r] = "done"
          BY PcEffects DEF Record
        <4>3. UpdateRow(r) => pc'[r] \in {"record", "done"}
          BY PcEffects DEF UpdateRow
        <4> QED
          BY <3>3, <4>1, <4>2, <4>3 DEF CreatePartner, SubmitOnboarding, UpdatePartnerStatus
      <3>4. CASE BulkImportPartners(r)
        <4>1. ImportEnds(r) => pc'[r] = "done"
          BY PcEffects DEF ImportEnds
        <4>2. RejectRow(r) \/ SaveRow(r) \/ SaveRowFails(r) => pc' = pc
          BY DEF RejectRow, SaveRow, SaveRowFails
        <4> QED
          BY <2>1, <3>4, <4>1, <4>2 DEF BulkImportPartners
      <3>5. CASE StatementFails(r)
        BY <3>5, PcEffects DEF StatementFails
      <3> QED
        BY <1>2, <3>1, <3>2, <3>3, <3>4, <3>5 DEF Handle
    <2> QED
      BY <2>1, <2>2 DEF Acts, ReadInv, WaitingInv
  <1>3. CASE Crash
    BY <1>3 DEF Crash, ReadInv, WaitingInv
  <1>4. CASE UNCHANGED vars
    BY <1>4 DEF vars, ReadInv, WaitingInv
  <1> QED
    BY <1>1, <1>2, <1>3, <1>4 DEF Next, Finished

\* A step that leaves the rows a call has read alone, and does not answer a read.
LEMMA QuietReader ==
    ASSUME ReadInv, Kept, NEW r \in Calls, frame'[r].shown = frame[r].shown,
           \/ pc'[r] = pc[r] /\ code'[r] = code[r] /\ frame'[r] = frame[r] /\ req'[r] = req[r]
                 /\ settled'[r] = settled[r]
           \/ pc'[r] \notin {"count", "activities"} /\ code'[r] # "ok"
           \/ pc'[r] # "activities" /\ req'[r].op \notin ListOps \cup {"GetPartner"}
    PROVE  ShownInv(r)' /\ ReaderInv(r)'
  <1> TypeOK /\ ShownInv(r) /\ ReaderInv(r)
    BY DEF ReadInv, IInv
  <1>1. \A p \in PartnerIds : frame[r].shown[p] # NoRow => frame[r].shown[p].by \in Writers
    <2>1. frame[r] \in Frame
      BY DEF TypeOK
    <2>2. frame[r].shown \in Table
      BY <2>1 DEF Frame
    <2> QED
      BY <2>2 DEF Table, Row
  <1>2. ShownInv(r)'
    BY <1>1 DEF ShownInv, Kept, Writers
  <1>3. \A w \in settled[r] : /\ w \in Calls /\ pc[w] = "done" /\ code'[w] = code[w]
                              /\ wrote'[w] = wrote[w] /\ req'[w] = req[w]
    BY DEF ReadInv, SettledInv, Kept, TypeOK
  <1>4. CASE pc'[r] = pc[r] /\ code'[r] = code[r] /\ frame'[r] = frame[r] /\ req'[r] = req[r]
                /\ settled'[r] = settled[r]
    <2>1. req[r].op \in ListOps /\ (pc[r] = "count" \/ code[r] = "ok") =>
             \A w \in settled[r] : \A p \in wrote'[w] : frame[r].shown[p] # NoRow
      BY <1>3 DEF ReaderInv
    <2>2. req[r].op = "GetPartner" /\ code[r] = "ok" =>
             \A w \in settled[r] : code'[w] = "ok" /\ Audited(w)' /\ req[r].id \in wrote'[w] =>
                \E i \in frame[r].acts : i \in DOMAIN activities' /\ activities'[i].by = w
      BY <1>3 DEF ReaderInv, Audited, Kept
    <2> QED
      BY <1>2, <1>4, <2>1, <2>2 DEF ReaderInv
  <1>5. CASE \/ pc'[r] \notin {"count", "activities"} /\ code'[r] # "ok"
             \/ pc'[r] # "activities" /\ req'[r].op \notin ListOps \cup {"GetPartner"}
    BY <1>2, <1>5 DEF ReaderInv
  <1> QED
    BY <1>4, <1>5

\* The list that ListPartners and AgentListPartners read has every row there is.
LEMMA ListReader ==
    ASSUME ReadInv, Kept, NEW r \in Calls, ReadPartners(r) \/ ReadCounts(r), req[r].op \in ListOps
    PROVE  ShownInv(r)' /\ ReaderInv(r)'
  <1>1. TypeOK /\ ShownInv(r) /\ ReaderInv(r) /\ UNCHANGED <<partners, activities, req, wrote, settled>>
    BY DEF ReadInv, IInv, ReadPartners, ReadCounts, tables, log
  <1>2. req[r].op # "GetPartner" /\ settled[r] \subseteq Calls
    BY <1>1 DEF ListOps, TypeOK
  <1>3. CASE ReadPartners(r)
    <2>1. frame'[r].shown = partners /\ pc'[r] = "count"
      <3>1. frame \in [Calls -> Frame] /\ frame' = [frame EXCEPT ![r].shown = partners]
        BY <1>1, <1>3 DEF ReadPartners, TypeOK
      <3>2. frame'[r] = [frame[r] EXCEPT !.shown = partners] /\ frame[r] \in Frame
        BY <3>1
      <3>3. frame'[r].shown = partners
        BY <3>2 DEF Frame
      <3>4. TypeOK /\ Goto(r, "count")
        BY <1>1, <1>3 DEF ReadPartners
      <3>5. pc'[r] = "count"
        BY <3>4, PcEffects
      <3> QED
        BY <3>3, <3>5
    <2>2. ShownInv(r)'
      BY <1>1, <2>1 DEF ShownInv, ReadInv, IInv, RowInv
    <2>3. \A w \in Calls : \A p \in wrote[w] : partners[p] # NoRow
      BY DEF ReadInv, WrittenInv
    <2> QED
      BY <1>1, <1>2, <2>1, <2>2, <2>3 DEF ReaderInv
  <1>4. CASE ReadCounts(r)
    <2>1. frame'[r].shown = frame[r].shown /\ pc'[r] = "done" /\ pc[r] = "count"
      <3>1. PICK n, m : frame'[r] = [frame[r] EXCEPT !.active = n, !.pending = m]
        BY <1>1, <1>4 DEF ReadCounts, TypeOK
      <3>2. frame[r] \in Frame
        BY <1>1 DEF TypeOK
      <3>3. frame'[r].shown = frame[r].shown
        BY <3>1, <3>2 DEF Frame
      <3> QED
        BY <1>1, <1>4, <3>3, PcEffects DEF ReadCounts
    <2>2. ShownInv(r)'
      BY <1>1, <2>1 DEF ShownInv
    <2>3. \A w \in settled[r] : \A p \in wrote[w] : frame[r].shown[p] # NoRow
      BY <1>1, <2>1 DEF ReaderInv
    <2> QED
      BY <1>1, <1>2, <2>1, <2>2, <2>3 DEF ReaderInv
  <1> QED
    BY <1>3, <1>4

\* GetPartner reads the row that was asked for, and then every entry about it.
LEMMA PartnerReader ==
    ASSUME ReadInv, Kept, NEW r \in Calls, GetPartner(r)
    PROVE  ShownInv(r)' /\ ReaderInv(r)'
  <1>1. TypeOK /\ ShownInv(r) /\ ReaderInv(r) /\ UNCHANGED <<partners, activities, req, wrote, settled>>
    BY DEF ReadInv, IInv, GetPartner, ReadPartner, ReadActivities, tables, log
  <1>2. req[r].op = "GetPartner" /\ req[r].op \notin ListOps /\ settled[r] \subseteq Calls
    BY <1>1 DEF ListOps, GetPartner, TypeOK
  <1>p. PICK id : id = req[r].id
    OBVIOUS
  <1>3. CASE ReadPartner(r) /\ id \in Present
    <2>1. /\ id \in PartnerIds /\ partners[id] # NoRow /\ frame[r] \in Frame /\ frame[r].shown \in Table
      BY <1>1, <1>3 DEF Present, TypeOK, Frame
    <2>2. /\ frame'[r] = [frame[r] EXCEPT !.id = id, !.shown[id] = partners[id]]
          /\ Goto(r, "activities")
      BY <1>1, <1>p, <1>3 DEF ReadPartner, TypeOK
    <2>3. /\ frame'[r].id = id /\ frame'[r].shown[id] = partners[id]
          /\ \A p \in PartnerIds \ {id} : frame'[r].shown[p] = frame[r].shown[p]
      BY <2>1, <2>2 DEF Frame, Table
    <2>4. pc'[r] = "activities" /\ code'[r] # "ok"
      <3>1. pc[r] # "done" /\ code[r] # "ok"
        BY <1>3 DEF ReadPartner, ReadInv, IInv, CallInv
      <3> QED
        BY <1>1, <2>2, <3>1, PcEffects
    <2>5. RowInv(id)
      BY <2>1 DEF ReadInv, IInv
    <2>6. ShownInv(r)'
      BY <1>1, <2>1, <2>3, <2>5 DEF ShownInv, RowInv
    <2> QED
      BY <1>1, <1>2, <1>p, <2>1, <2>3, <2>4, <2>6 DEF ReaderInv
  <1>4. CASE ReadPartner(r) /\ id \notin Present
    <2>1. Answer(r, "not_found") /\ frame' = frame
      BY <1>p, <1>4 DEF ReadPartner
    <2>2. pc'[r] = "done" /\ code'[r] = "not_found"
      BY <1>1, <2>1, PcEffects
    <2> QED
      BY <2>1, <2>2, QuietReader
  <1>5. CASE ReadActivities(r)
    <2>1. /\ frame'[r].shown = frame[r].shown /\ frame'[r].id = frame[r].id
          /\ frame'[r].acts = {i \in DOMAIN activities : activities[i].partner = frame[r].id}
      BY <1>1, <1>5 DEF ReadActivities, TypeOK, Frame
    <2>2. pc[r] = "activities" /\ pc'[r] = "done"
      BY <1>1, <1>5, PcEffects DEF ReadActivities
    <2>3. frame[r].id = id /\ id \in PartnerIds /\ frame[r].shown[id] # NoRow
      BY <1>1, <1>2, <1>p, <2>2 DEF ReaderInv
    <2>4. ShownInv(r)'
      BY <1>1, <2>1 DEF ShownInv
    <2>5. ASSUME NEW w \in settled[r], code'[w] = "ok", Audited(w)', id \in wrote[w]
          PROVE  \E i \in frame'[r].acts : i \in DOMAIN activities /\ activities[i].by = w
      <3>1. w \in Calls /\ code[w] = "ok" /\ Audited(w)
        BY <1>1, <1>2, <2>5 DEF ReadInv, SettledInv, Kept, Audited
      <3>2. PICK p \in PartnerIds : wrote[w] = {p} /\ OneEntryOf(w, p)
        BY <3>1 DEF ReadInv, IInv, CallInv
      <3>3. p = id
        BY <2>5, <3>2
      <3> QED
        BY <2>1, <2>3, <3>2, <3>3 DEF OneEntryOf
    <2> QED
      BY <1>1, <1>2, <1>p, <2>1, <2>2, <2>3, <2>4, <2>5 DEF ReaderInv
  <1> QED
    BY <1>3, <1>4, <1>5 DEF GetPartner

\* The handlers that write read nothing.
LEMMA WriterReadsNothing ==
    ASSUME ReadInv, Kept, NEW r \in Calls,
           \/ CreatePartner(r) \/ SubmitOnboarding(r) \/ UpdatePartnerStatus(r)
           \/ BulkImportPartners(r) \/ StatementFails(r)
    PROVE  ShownInv(r)' /\ ReaderInv(r)'
  <1>1. TypeOK /\ frame[r] \in Frame
    BY DEF ReadInv, IInv, TypeOK
  <1>2. CASE StatementFails(r)
    <2>1. frame' = frame /\ pc'[r] = "done" /\ code'[r] = "internal"
      BY <1>1, <1>2, PcEffects DEF StatementFails
    <2> QED
      BY <2>1, QuietReader
  <1>3. CASE CreatePartner(r) \/ SubmitOnboarding(r) \/ UpdatePartnerStatus(r)
    <2>1. /\ \A tier, status : InsertPartner(r, tier, status) =>
                pc'[r] \in {"record", "done"} /\ frame'[r].shown = frame[r].shown
          /\ \A type, message : Record(r, type, message) =>
                pc'[r] \in {"record", "done"} /\ frame'[r].shown = frame[r].shown
      <3>1. ASSUME NEW tier, NEW status, InsertPartner(r, tier, status)
            PROVE  pc'[r] \in {"record", "done"} /\ frame'[r].shown = frame[r].shown
        <4>1. PICK p \in FreshIds :
                 /\ InsertRow(r, p, tier, status)
                 /\ \/ Goto(r, "record") /\ frame' = [frame EXCEPT ![r].id = p]
                    \/ Answer(r, "internal") /\ UNCHANGED frame
          BY <3>1 DEF InsertPartner
        <4>2. frame' = [frame EXCEPT ![r].id = p] => frame'[r].shown = frame[r].shown
          BY <1>1 DEF TypeOK, Frame
        <4> QED
          BY <1>1, <4>1, <4>2, PcEffects
      <3>2. ASSUME NEW type, NEW message, Record(r, type, message)
            PROVE  pc'[r] \in {"record", "done"} /\ frame'[r].shown = frame[r].shown
        BY <1>1, <3>2, PcEffects DEF Record
      <3> QED
        BY <3>1, <3>2
    <2>2. UpdateRow(r) => pc'[r] \in {"record", "done"} /\ frame'[r].shown = frame[r].shown
      <3>p. PICK p : p = req[r].id
        OBVIOUS
      <3>1. frame' = [frame EXCEPT ![r].id = p] => frame'[r].shown = frame[r].shown
        BY <1>1 DEF TypeOK, Frame
      <3>2. UpdateRow(r) => \/ Goto(r, "record") /\ frame' = [frame EXCEPT ![r].id = p]
                            \/ Answer(r, "internal") /\ frame' = frame
                            \/ Answer(r, "not_found") /\ frame' = frame
        BY <3>p DEF UpdateRow
      <3> QED
        BY <1>1, <3>1, <3>2, PcEffects
    <2>3. req[r].op \in {"CreatePartner", "SubmitOnboarding", "UpdatePartnerStatus"} /\ req' = req
      BY <1>3, ActorIsUnderWay DEF CreatePartner, SubmitOnboarding, UpdatePartnerStatus, Handle
    <2>4. pc'[r] \in {"record", "done"} /\ frame'[r].shown = frame[r].shown
      BY <1>3, <2>1, <2>2 DEF CreatePartner, SubmitOnboarding, UpdatePartnerStatus
    <2>5. pc'[r] # "activities" /\ req'[r].op \notin ListOps \cup {"GetPartner"}
      BY <2>3, <2>4 DEF ListOps
    <2> QED
      BY <2>4, <2>5, QuietReader
  <1>4. CASE BulkImportPartners(r)
    <2>1. req[r].op = "BulkImportPartners" /\ req' = req
      BY <1>4, ActorIsUnderWay DEF BulkImportPartners, RejectRow, SaveRow, SaveRowFails, ImportEnds,
                                   AtRow, Handle
    <2>2. ImportEnds(r) => pc'[r] = "done" /\ frame'[r].shown = frame[r].shown
      BY <1>1, PcEffects DEF ImportEnds
    <2>3. \A message : RowRejected(r, message) => frame'[r].shown = frame[r].shown
      BY <1>1 DEF RowRejected, TypeOK, Frame
    <2>4. RowImported(r) => frame'[r].shown = frame[r].shown
      BY <1>1 DEF RowImported, TypeOK, Frame
    <2>5. RejectRow(r) \/ SaveRow(r) \/ SaveRowFails(r) =>
             pc[r] = "row" /\ pc' = pc /\ frame'[r].shown = frame[r].shown
      BY <2>3, <2>4 DEF RejectRow, SaveRow, SaveRowFails, AtRow
    <2>6. pc'[r] # "activities" /\ frame'[r].shown = frame[r].shown
      BY <1>4, <2>2, <2>5 DEF BulkImportPartners
    <2>7. req'[r].op \notin ListOps \cup {"GetPartner"}
      BY <2>1 DEF ListOps
    <2> QED
      BY <2>6, <2>7, QuietReader
  <1> QED
    BY <1>2, <1>3, <1>4

LEMMA ReaderStep ==
    ASSUME ReadInv, [Next]_vars, NEW s \in Calls
    PROVE  ShownInv(s)' /\ ReaderInv(s)'
  <1> TypeOK /\ Kept
    BY StepKeeps DEF ReadInv, IInv
  <1>1. CASE pc'[s] = pc[s] /\ code'[s] = code[s] /\ frame'[s] = frame[s] /\ req'[s] = req[s]
                /\ settled'[s] = settled[s]
    BY <1>1, QuietReader
  <1>2. CASE Handle(s)
    <2>1. ListPartners(s) \/ AgentListPartners(s) => ShownInv(s)' /\ ReaderInv(s)'
      BY ListReader DEF ListPartners, AgentListPartners, ListOps
    <2> QED
      BY <1>2, <2>1, PartnerReader, WriterReadsNothing DEF Handle
  <1>3. CASE Receive(s)
    <2>1. PICK q \in Requests : IF Malformed(q) THEN Answer(s, "invalid_argument")
                                ELSE Goto(s, FirstStatement(q.op))
      BY <1>3 DEF Receive
    <2>2. frame' = frame /\ pc[s] = "waiting"
      BY <1>3 DEF Receive
    <2>3. code[s] # "ok"
      BY <2>2 DEF ReadInv, IInv, CallInv
    <2>4. FirstStatement(q.op) \notin {"count", "activities"}
      BY DEF FirstStatement
    <2>5. pc'[s] \notin {"count", "activities"} /\ code'[s] # "ok"
      BY <2>1, <2>3, <2>4, PcEffects
    <2> QED
      BY <2>2, <2>5, QuietReader
  <1>4. CASE Crash
    <2>1. CASE InFlight(s)
      <3>1. frame' = frame /\ pc'[s] = "done" /\ code'[s] = "lost"
        BY <1>4, <2>1 DEF Crash
      <3> QED
        BY <3>1, QuietReader
    <2>2. CASE ~InFlight(s)
      BY <1>1, <1>4, <2>2 DEF Crash, log
    <2> QED
      BY <2>1, <2>2
  <1>5. CASE UNCHANGED vars
    BY <1>1, <1>5 DEF vars
  <1>6. ASSUME NEW r \in Calls, r # s, Receive(r) \/ Handle(r)
        PROVE  ShownInv(s)' /\ ReaderInv(s)'
    BY <1>1, <1>6, OthersStand DEF Acts
  <1> QED
    BY <1>2, <1>3, <1>4, <1>5, <1>6 DEF Next, Finished

LEMMA ReadInit == Init => ReadInv
  <1> SUFFICES ASSUME Init PROVE ReadInv
    OBVIOUS
  <1>1. IInv /\ SettledInv /\ WrittenInv /\ WaitingInv
    BY InitInv DEF Init, SettledInv, WrittenInv, WaitingInv
  <1>2. ASSUME NEW r \in Calls PROVE ShownInv(r) /\ ReaderInv(r)
    <2>1. frame[r].shown = NoTable /\ code[r] = "none" /\ pc[r] = "waiting"
      BY DEF Init, NoFrame
    <2> QED
      BY <2>1 DEF ShownInv, ReaderInv, NoTable
  <1> QED
    BY <1>1, <1>2 DEF ReadInv

LEMMA ReadNext == ReadInv /\ [Next]_vars => ReadInv'
  <1> SUFFICES ASSUME ReadInv, [Next]_vars PROVE ReadInv'
    OBVIOUS
  <1>1. IInv'
    BY NextInv DEF ReadInv
  <1> QED
    BY <1>1, SettledStep, WrittenStep, WaitingStep, ReaderStep DEF ReadInv

\* What the calls of a list or of a partner rest on stays true while they read.
THEOREM ReadInvariance == Spec => []ReadInv
  <1> QED
    BY ReadInit, ReadNext, PTL DEF Spec

-----------------------------------------------------------------------------
(* What reads show.                                                        *)

\* ListPartners and AgentListPartners list every row that was written by a call
\* answered ok before them, and GetPartner shows the row and the entry about it.
THEOREM ReadsSeeAcks == Spec => []AckedWritesAreRead
  <1>1. ReadInv => AckedWritesAreRead
    BY DEF ReadInv, IInv, TypeOK, ReaderInv, AckedWritesAreRead, Reads, ListOps
  <1> QED
    BY <1>1, ReadInvariance, PTL

\* Only the second read of GetPartner answers it ok.
LEMMA OkAnswersRead ==
    ASSUME TypeOK, [Next]_vars, NEW r \in Calls, req[r].op = "GetPartner", code[r] # "ok", code'[r] = "ok"
    PROVE  ReadActivities(r)
  <1>1. CASE Receive(r)
    <2>1. PICK q \in Requests : IF Malformed(q) THEN Answer(r, "invalid_argument")
                                ELSE Goto(r, FirstStatement(q.op))
      BY <1>1 DEF Receive
    <2> QED
      BY <2>1, PcEffects
  <1>2. CASE Handle(r)
    <2>1. ~ReadPartner(r) /\ ~StatementFails(r)
      BY PcEffects DEF ReadPartner, StatementFails
    <2> QED
      BY <1>2, <2>1 DEF Handle, GetPartner, ListPartners, AgentListPartners, CreatePartner,
           SubmitOnboarding, UpdatePartnerStatus, BulkImportPartners, RejectRow, SaveRow, SaveRowFails,
           ImportEnds, AtRow
  <1>3. ~Crash
    BY DEF Crash
  <1>4. ~UNCHANGED vars
    BY DEF vars
  <1>5. \A s \in Calls \ {r} : ~Receive(s) /\ ~Handle(s)
    BY OthersStand DEF Acts
  <1> QED
    BY <1>1, <1>2, <1>3, <1>4, <1>5 DEF Next, Finished

\* GetPartner reads the row first and the activities second: a status whose
\* change has been answered ok is shown together with the entry about it.
THEOREM StatusComesWithItsEntry == Spec => ShownStatusIsExplained
  <1> DEFINE Explained ==
        \A r \in Calls :
          req[r].op = "GetPartner" /\ code[r] # "ok" /\ code'[r] = "ok" =>
             LET w == frame'[r].shown[req[r].id].by IN
             w \in Calls /\ code[w] = "ok" /\ Audited(w) =>
                \E i \in frame'[r].acts : activities[i].by = w
  <1>1. ASSUME ReadInv, [Next]_vars PROVE Explained
    <2> TypeOK
      BY <1>1 DEF ReadInv, IInv
    <2>1. ASSUME NEW r \in Calls, NEW id, id = req[r].id, NEW w \in Calls, w = frame'[r].shown[id].by,
                 req[r].op = "GetPartner", code[r] # "ok", code'[r] = "ok", code[w] = "ok", Audited(w)
          PROVE  \E i \in frame'[r].acts : activities[i].by = w
      <3>1. ReadActivities(r)
        BY <1>1, <2>1, OkAnswersRead
      <3>2. /\ frame'[r].shown = frame[r].shown /\ pc[r] = "activities"
            /\ frame'[r].acts = {i \in DOMAIN activities : activities[i].partner = frame[r].id}
        BY <3>1 DEF ReadActivities, TypeOK, Frame
      <3>3. ShownInv(r) /\ ReaderInv(r) /\ CallInv(w)
        BY <1>1 DEF ReadInv, IInv
      <3>4. frame[r].id = id /\ id \in PartnerIds /\ frame[r].shown[id] # NoRow
        BY <2>1, <3>2, <3>3 DEF ReaderInv
      <3>5. id \in wrote[w]
        BY <2>1, <3>2, <3>3, <3>4, SeedAssumption DEF ShownInv
      <3>6. PICK p \in PartnerIds : wrote[w] = {p} /\ OneEntryOf(w, p)
        BY <2>1, <3>3 DEF CallInv
      <3>7. p = id
        BY <3>5, <3>6
      <3> QED
        BY <3>2, <3>4, <3>6, <3>7 DEF OneEntryOf
    <2> QED
      BY <2>1
  <1>2. ReadInv /\ [Next]_vars => [Explained]_vars
    BY <1>1
  <1>3. Spec => [][Explained]_vars
    BY <1>2, ReadInvariance, PTL DEF Spec
  <1> QED
    BY <1>3 DEF ShownStatusIsExplained

-----------------------------------------------------------------------------
(* OrderInv is an invariant.                                               *)

\* Who wrote a row or logged an entry has arrived, and asks what it asked.
LEMMA WritersArrived ==
    ASSUME ReadInv, Kept
    PROVE  /\ \A i \in DOMAIN activities :
                 LET w == activities[i].by IN
                 w \in Calls /\ req'[w] = req[w] /\ settled'[w] = settled[w]
           /\ \A s \in Calls : wrote[s] # {} => settled'[s] = settled[s]
  <1> TypeOK
    BY DEF ReadInv, IInv
  <1>1. ASSUME NEW i \in DOMAIN activities
        PROVE  LET w == activities[i].by IN
               w \in Calls /\ req'[w] = req[w] /\ settled'[w] = settled[w]
    <2>p. PICK w : w = activities[i].by
      OBVIOUS
    <2>1. w \in Calls
      BY <2>p, EntryTypes
    <2>2. pc[w] # "waiting" \/ pc[w] = "done"
      BY <2>p, <2>1 DEF ReadInv, IInv, CallInv, EntriesInv
    <2> QED
      BY <2>p, <2>1, <2>2 DEF Kept
  <1>2. ASSUME NEW s \in Calls, wrote[s] # {} PROVE settled'[s] = settled[s]
    <2>1. CallInv(s)
      BY DEF ReadInv, IInv
    <2>2. pc[s] # "waiting"
      BY <1>2, <2>1 DEF CallInv
    <2> QED
      BY <2>2 DEF Kept
  <1> QED
    BY <1>1, <1>2

\* The entry that a call logs tells what the call asked for.
LEMMA OwedText ==
    ASSUME NEW r \in Calls, Audited(r)
    PROVE  /\ Owes(r).by = r
           /\ \/ req[r].op = "CreatePartner" /\ Owes(r).type = "created"
              \/ req[r].op = "SubmitOnboarding" /\ Owes(r).type = "submitted"
              \/ /\ req[r].op = "UpdatePartnerStatus" /\ Owes(r).type = "status_changed"
                 /\ Owes(r).message = statusLabel(req[r].status)
  BY DEF Audited, AuditedOps, EntryOps, Owes

\* How the log and the table move in one step.
LEMMA LogMoves ==
    ASSUME TypeOK, [Next]_vars
    PROVE  activities' = activities \/ \E r \in Calls : Logs(r)
  <1>1. \A r \in Calls : Receive(r) => activities' = activities
    BY DEF Receive, tables
  <1>2. Crash \/ UNCHANGED vars => activities' = activities
    BY DEF Crash, vars, tables
  <1> QED
    BY <1>1, <1>2, LogStep DEF Next, Finished

LEMMA TableMoves ==
    ASSUME ReadInv, [Next]_vars
    PROVE  UNCHANGED <<partners, wrote>> \/ \E r \in Calls, p \in PartnerIds : Writes(r, p)
  <1>1. \A r \in Calls : Receive(r) => UNCHANGED <<partners, wrote>>
    BY DEF Receive, tables
  <1>2. Crash \/ UNCHANGED vars => UNCHANGED <<partners, wrote>>
    BY DEF Crash, vars, tables, log
  <1> QED
    BY <1>1, <1>2, TablesStep DEF Next, Finished

LEMMA EntriesStep ==
    ASSUME OrderInv, [Next]_vars
    PROVE  EntryTexts' /\ EntryOrder'
  <1> TypeOK /\ ReadInv /\ Kept
    BY StepKeeps DEF OrderInv, ReadInv, IInv
  <1>1. CASE activities' = activities
    BY <1>1, WritersArrived DEF OrderInv, EntryTexts, EntryOrder
  <1>2. ASSUME NEW r \in Calls, Logs(r) PROVE EntryTexts' /\ EntryOrder'
    <2>n. PICK n : n = Len(activities) + 1
      OBVIOUS
    <2>e. PICK e : e = Owes(r)
      OBVIOUS
    <2>1. /\ DOMAIN activities' = DOMAIN activities \cup {n} /\ n \notin DOMAIN activities
          /\ activities'[n] = e /\ \A i \in DOMAIN activities : activities'[i] = activities[i]
      BY <1>2, <2>n, <2>e, AppendEntry DEF Logs
    <2>2. /\ e.by = r
          /\ \/ req[r].op = "CreatePartner" /\ e.type = "created"
             \/ req[r].op = "SubmitOnboarding" /\ e.type = "submitted"
             \/ /\ req[r].op = "UpdatePartnerStatus" /\ e.type = "status_changed"
                /\ e.message = statusLabel(req[r].status)
      BY <1>2, <2>e, OwedText DEF Logs
    <2>3. req' = req /\ settled' = settled /\ pc[r] # "done"
      BY <1>2 DEF Logs, log
    <2>4. EntryTexts'
      BY <2>1, <2>2, <2>3 DEF OrderInv, EntryTexts
    <2>5. \A s \in Calls : r \notin settled[s]
      BY <2>3 DEF ReadInv, SettledInv
    <2>6. \A i \in DOMAIN activities : i < n
      BY <2>n DEF TypeOK
    <2>7. \A i \in DOMAIN activities : activities[i].by \in Calls
      BY EntryTypes
    <2>8. ASSUME NEW i \in DOMAIN activities', NEW j \in DOMAIN activities',
                 activities'[j].by \in settled[activities'[i].by]
          PROVE  j < i
      <3>1. j # n
        BY <2>1, <2>2, <2>5, <2>7, <2>8
      <3>2. CASE i = n
        BY <2>1, <2>6, <3>1, <3>2
      <3>3. CASE i # n
        BY <2>1, <2>8, <3>1, <3>3 DEF OrderInv, EntryOrder
      <3> QED
        BY <3>2, <3>3
    <2>9. EntryOrder'
      BY <2>3, <2>8 DEF EntryOrder
    <2> QED
      BY <2>4, <2>9
  <1> QED
    BY <1>1, <1>2, LogMoves

LEMMA LastWritersStep ==
    ASSUME OrderInv, [Next]_vars
    PROVE  LastWriters'
  <1> TypeOK /\ ReadInv /\ Kept
    BY StepKeeps DEF OrderInv, ReadInv, IInv
  <1>1. CASE UNCHANGED <<partners, wrote>>
    BY <1>1, WritersArrived DEF OrderInv, LastWriters
  <1>2. ASSUME NEW r \in Calls, NEW p \in PartnerIds, Writes(r, p) PROVE LastWriters'
    <2>1. pc[r] # "done" /\ settled' = settled /\ partners'[p].by = r
      BY <1>2 DEF Writes
    <2>2. \A s \in Calls : r \notin settled[s]
      BY <2>1 DEF ReadInv, SettledInv
    <2>3. ASSUME NEW s \in Calls, NEW x \in wrote'[s] PROVE partners'[x].by \notin settled[s]
      <3>1. CASE x = p
        BY <2>1, <2>2, <3>1
      <3>2. CASE x # p
        <4>1. x \in wrote[s] /\ x \in PartnerIds
          BY <1>2, <2>3, <3>2 DEF Writes, TypeOK
        <4>2. partners'[x] = partners[x]
          BY <1>2, <3>2, <4>1 DEF Writes
        <4> QED
          BY <4>1, <4>2 DEF OrderInv, LastWriters
      <3> QED
        BY <3>1, <3>2
    <2> QED
      BY <2>1, <2>3 DEF LastWriters
  <1> QED
    BY <1>1, <1>2, TableMoves

\* Entries stand in the order in which their calls answered.
THEOREM OrderInvariance == Spec => []OrderInv
  <1>1. Init => OrderInv
    BY ReadInit DEF Init, OrderInv, EntryTexts, EntryOrder, LastWriters
  <1>2. OrderInv /\ [Next]_vars => OrderInv'
    BY ReadNext, EntriesStep, LastWritersStep DEF OrderInv
  <1> QED
    BY <1>1, <1>2, PTL DEF Spec

\* When the last change of a partner's status was answered ok, an activity names
\* the status, and newer ones come from calls that overlapped the change only,
\* although UpdatePartnerStatus commits row and activity one by one: the entry is
\* that of the row's last writer, and entries stand in the order of calls that did
\* not overlap.
THEOREM LogAgreesInSequence == Spec => []NewestEntryNamesStatus
  <1>1. ASSUME OrderInv, NEW p \in Present, partners[p].by # Seed,
               code[partners[p].by] = "ok", Audited(partners[p].by)
        PROVE  \E i \in {k \in DOMAIN activities : activities[k].partner = p} :
                  /\ StatusTold(activities[i]) = statusLabel(textToStatus(partners[p].status))
                  /\ \A j \in {k \in DOMAIN activities : activities[k].partner = p} :
                        j <= i \/ Overlap(activities[j].by, partners[p].by)
    <2> TypeOK /\ ReadInv /\ IInv
      BY <1>1 DEF OrderInv, ReadInv, IInv
    <2>1. p \in PartnerIds /\ partners[p] # NoRow /\ partners[p] \in Row
      BY DEF Present, TypeOK, Table
    <2>w. PICK w : w = partners[p].by
      OBVIOUS
    <2>2. w \in Calls
      BY <1>1, <2>1, <2>w DEF Row, Writers
    <2>3. p \in wrote[w] /\ partners[p].status = StatusWrittenBy(req[w])
      BY <2>1, <2>2, <2>w, SeedAssumption DEF IInv, RowInv
    <2>5. PICK x \in PartnerIds : wrote[w] = {x} /\ OneEntryOf(w, x)
      BY <1>1, <2>2, <2>w DEF IInv, CallInv
    <2>6. x = p
      BY <2>3, <2>5
    <2>7. PICK i \in DOMAIN activities :
             /\ activities[i].by = w /\ activities[i].partner = p
             /\ \A j \in DOMAIN activities : activities[j].by = w => j = i
      BY <2>5, <2>6 DEF OneEntryOf
    <2>8. ASSUME NEW j \in DOMAIN activities, activities[j].partner = p
          PROVE  j <= i \/ Overlap(activities[j].by, w)
      <3>1. PICK s : s = activities[j].by
        OBVIOUS
      <3>2. s \in Calls /\ p \in wrote[s]
        BY <2>8, <3>1, EntryTypes DEF IInv, EntriesInv
      <3>3. i \in Nat /\ j \in Nat
        BY DEF TypeOK
      <3>4. CASE s = w
        <4>1. j = i
          BY <2>7, <3>1, <3>4
        <4> QED
          BY <3>3, <4>1
      <3>5. CASE s # w
        <4>1. w \notin settled[s]
          BY <1>1, <2>w, <3>2 DEF OrderInv, LastWriters
        <4>2. s \in settled[w] => j < i
          BY <1>1, <2>7, <3>1 DEF OrderInv, EntryOrder
        <4>3. s \notin settled[w] => Overlap(s, w)
          BY <3>5, <4>1 DEF Overlap
        <4> QED
          BY <3>1, <3>3, <4>2, <4>3
      <3> QED
        BY <3>4, <3>5
    <2>9. StatusTold(activities[i]) = statusLabel(textToStatus(partners[p].status))
      <3>1. \/ req[w].op = "CreatePartner" /\ activities[i].type = "created"
            \/ req[w].op = "SubmitOnboarding" /\ activities[i].type = "submitted"
            \/ /\ req[w].op = "UpdatePartnerStatus" /\ activities[i].type = "status_changed"
               /\ activities[i].message = statusLabel(req[w].status)
        BY <1>1, <2>7 DEF OrderInv, EntryTexts
      <3>2. CASE req[w].op = "CreatePartner"
        BY <2>3, <3>1, <3>2 DEF StatusWrittenBy, StatusTold, statusLabel, textToStatus
      <3>3. CASE req[w].op = "SubmitOnboarding"
        BY <2>3, <3>1, <3>3 DEF StatusWrittenBy, StatusTold, statusLabel, textToStatus
      <3>4. CASE req[w].op = "UpdatePartnerStatus"
        <4>1. PICK n \in Nat : n = req[w].status
          BY <2>2, RequestTypes DEF TypeOK, NoRequest
        <4>2. partners[p].status = statusToText(n) /\ StatusTold(activities[i]) = statusLabel(n)
          BY <2>3, <3>1, <3>4, <4>1 DEF StatusWrittenBy, StatusTold
        <4>3. statusLabel(textToStatus(statusToText(n))) = statusLabel(n)
          <5>1. /\ textToStatus("pending") = 1 /\ textToStatus("active") = 2
                /\ textToStatus("churned") = 3 /\ textToStatus("") = 0
            BY DEF textToStatus
          <5>2. /\ statusLabel(1) = "Pending" /\ statusLabel(2) = "Active"
                /\ statusLabel(3) = "Churned" /\ statusLabel(0) = "Unknown"
            BY DEF statusLabel
          <5> QED
            BY <5>1, <5>2, LabelTexts
        <4> QED
          BY <4>2, <4>3
      <3> QED
        BY <3>1, <3>2, <3>3, <3>4
    <2> QED
      BY <2>7, <2>8, <2>9, <2>w
  <1>2. OrderInv => NewestEntryNamesStatus
    BY <1>1 DEF NewestEntryNamesStatus
  <1> QED
    BY <1>2, OrderInvariance, PTL

-----------------------------------------------------------------------------
(* The loop of a bulk import.                                              *)

Errors == Seq([row: Nat, message: RowErrors])

SaveFailed(e)   == e.message = "failed to save row"
Unsaved(errors) == {k \in DOMAIN errors : SaveFailed(errors[k])}

\* What the rows before the current one have come to: each was imported or
\* reported, in order, and only a row reported as not saved may have been written.
RowsSeen(row, imported, errors, rows, written) ==
    /\ 1 .. (row - 1) \subseteq DOMAIN rows
    /\ imported + Len(errors) = row - 1
    /\ \A k \in DOMAIN errors : errors[k].row \in 1 .. (row - 1)
    /\ \A j, k \in DOMAIN errors : j < k => errors[j].row < errors[k].row
    /\ \A i \in 1 .. (row - 1) : ~ValidInput(rows[i]) => \E k \in DOMAIN errors : errors[k].row = i
    /\ imported <= Cardinality(written)
    /\ Cardinality(written) <= imported + Cardinality(Unsaved(errors))

ImportInv(r) ==
    req[r].op = "BulkImportPartners" =>
        /\ pc[r] \in {"waiting", "row", "done"}
        /\ pc[r] # "waiting" =>
              /\ frame[r].row # 0
              /\ RowsSeen(frame[r].row, frame[r].imported, frame[r].errors, req[r].rows, wrote[r])
        /\ code[r] = "ok" => \A i \in DOMAIN req[r].rows : i < frame[r].row

ImportsInv == ReadInv /\ \A r \in Calls : ImportInv(r)

\* The rows of a bulk import are numbered from one.
LEMMA BulkRows ==
    ASSUME TypeOK, NEW r \in Calls, req[r].op = "BulkImportPartners"
    PROVE  \E n \in Nat : DOMAIN req[r].rows = 1 .. n
  <1>1. req[r] \in Requests
    BY DEF TypeOK, NoRequest
  <1>2. req[r].rows \in Batches
    BY <1>1 DEF Requests, Ask, EntryOps
  <1> QED
    BY <1>2 DEF Batches

\* The errors after one more has been appended.
LEMMA AppendError ==
    ASSUME NEW errors \in Errors, NEW e \in [row: Nat, message: RowErrors],
           NEW longer, longer = Append(errors, e)
    PROVE  /\ Len(longer) = Len(errors) + 1 /\ Len(errors) \in Nat
           /\ DOMAIN longer = 1 .. (Len(errors) + 1) /\ DOMAIN errors = 1 .. Len(errors)
           /\ longer[Len(errors) + 1] = e
           /\ \A k \in DOMAIN errors : longer[k] = errors[k]
           /\ IsFiniteSet(Unsaved(errors)) /\ Cardinality(Unsaved(errors)) \in Nat
           /\ Cardinality(Unsaved(longer)) >= Cardinality(Unsaved(errors))
           /\ SaveFailed(e) =>
                 Cardinality(Unsaved(longer)) = Cardinality(Unsaved(errors)) + 1
  <1>n. PICK n : n = Len(errors) + 1
    OBVIOUS
  <1>1. /\ Len(longer) = n /\ Len(errors) \in Nat
        /\ DOMAIN longer = 1 .. n /\ DOMAIN errors = 1 .. Len(errors) /\ longer[n] = e
        /\ \A k \in DOMAIN errors : longer[k] = errors[k]
    BY <1>n
  <1>2. IsFiniteSet(DOMAIN errors)
    BY <1>1, FS_Interval
  <1>3. IsFiniteSet(Unsaved(errors))
    BY <1>2, FS_Subset DEF Unsaved
  <1>4. Cardinality(Unsaved(errors)) \in Nat
    BY <1>3, FS_CardinalityType
  <1>5. DOMAIN longer = DOMAIN errors \cup {n} /\ n \notin DOMAIN errors
    BY <1>n, <1>1
  <1>6. CASE SaveFailed(e)
    <2>1. Unsaved(longer) = Unsaved(errors) \cup {n} /\ n \notin Unsaved(errors)
      BY <1>1, <1>5, <1>6 DEF Unsaved
    <2>2. Cardinality(Unsaved(longer)) = Cardinality(Unsaved(errors)) + 1
      BY <1>3, <2>1, FS_AddElement
    <2> QED
      BY <1>n, <1>1, <1>3, <1>4, <2>2
  <1>7. CASE ~SaveFailed(e)
    <2>1. Unsaved(longer) = Unsaved(errors)
      BY <1>1, <1>5, <1>7 DEF Unsaved
    <2> QED
      BY <1>n, <1>1, <1>3, <1>4, <1>7, <2>1
  <1> QED
    BY <1>6, <1>7

\* A row is reported: one that is not valid, or one whose save failed for the
\* handler and may have been committed.
LEMMA RejectedRow ==
    ASSUME NEW row \in Nat \ {0}, NEW imported \in Nat, NEW errors \in Errors, NEW longer,
           NEW rows, NEW written, IsFiniteSet(written), NEW after,
           NEW e \in [row: Nat, message: RowErrors], e.row = row,
           RowsSeen(row, imported, errors, rows, written), row \in DOMAIN rows,
           \/ after = written
           \/ SaveFailed(e) /\ \E p : p \notin written /\ after = written \cup {p},
           longer = Append(errors, e)
    PROVE  RowsSeen(row + 1, imported, longer, rows, after)
  <1>n. PICK n : n = Len(errors) + 1
    OBVIOUS
  <1>1. Len(errors) \in Nat /\ n \in Nat /\ n - 1 = Len(errors)
    BY <1>n DEF Errors
  <1>2. /\ Len(longer) = n /\ DOMAIN longer = 1 .. n /\ DOMAIN errors = 1 .. (n - 1) /\ longer[n] = e
        /\ \A k \in 1 .. (n - 1) : longer[k] = errors[k]
    BY <1>1, <1>n, AppendError
  <1>3. /\ imported + (n - 1) = row - 1
        /\ \A k \in 1 .. (n - 1) : errors[k].row \in 1 .. (row - 1)
        /\ \A j, k \in 1 .. (n - 1) : j < k => errors[j].row < errors[k].row
        /\ \A i \in 1 .. (row - 1) : ~ValidInput(rows[i]) => \E k \in 1 .. (n - 1) : errors[k].row = i
        /\ 1 .. (row - 1) \subseteq DOMAIN rows
    BY <1>1, <1>2 DEF RowsSeen
  <1>4. (row + 1) - 1 = row /\ 1 .. row \subseteq DOMAIN rows
    BY <1>3
  <1>5. imported + n = row
    BY <1>1, <1>3
  <1>6. \A k \in 1 .. n : longer[k].row \in 1 .. row
    <2>1. ASSUME NEW k \in 1 .. (n - 1) PROVE longer[k].row \in 1 .. row
      BY <1>2, <1>3
    <2>2. longer[n].row \in 1 .. row
      BY <1>2
    <2> QED
      BY <1>1, <2>1, <2>2
  <1>7. ASSUME NEW j \in 1 .. n, NEW k \in 1 .. n, j < k PROVE longer[j].row < longer[k].row
    <2>1. j \in 1 .. (n - 1)
      BY <1>1, <1>7
    <2>2. CASE k = n
      <3>1. longer[j].row \in 1 .. (row - 1) /\ longer[k].row = row
        BY <1>2, <1>3, <2>1, <2>2
      <3>2. \A x \in 1 .. (row - 1) : x < row
        OBVIOUS
      <3> QED
        BY <3>1, <3>2
    <2>3. CASE k # n
      <3>1. k \in 1 .. (n - 1)
        BY <1>1, <2>3
      <3> QED
        BY <1>2, <1>3, <1>7, <2>1, <3>1
    <2> QED
      BY <2>2, <2>3
  <1>8. ASSUME NEW i \in 1 .. row, ~ValidInput(rows[i]) PROVE \E k \in 1 .. n : longer[k].row = i
    <2>1. CASE i = row
      BY <1>1, <1>2, <1>n, <2>1
    <2>2. CASE i # row
      <3>1. i \in 1 .. (row - 1)
        BY <2>2
      <3>2. PICK k \in 1 .. (n - 1) : errors[k].row = i
        BY <1>3, <1>8, <3>1
      <3>3. k \in 1 .. n /\ longer[k] = errors[k]
        BY <1>1, <1>2
      <3> QED
        BY <3>2, <3>3
    <2> QED
      BY <2>1, <2>2
  <1>9. imported <= Cardinality(after) /\ Cardinality(after) <= imported + Cardinality(Unsaved(longer))
    <2>1. /\ imported <= Cardinality(written)
          /\ Cardinality(written) <= imported + Cardinality(Unsaved(errors))
          /\ Cardinality(written) \in Nat
      BY FS_CardinalityType DEF RowsSeen
    <2>2. /\ Cardinality(Unsaved(errors)) \in Nat
          /\ Cardinality(Unsaved(longer)) >= Cardinality(Unsaved(errors))
          /\ SaveFailed(e) =>
                Cardinality(Unsaved(longer)) = Cardinality(Unsaved(errors)) + 1
      BY AppendError
    <2>3. Cardinality(Unsaved(longer)) \in Nat
      <3>1. Unsaved(longer) \subseteq 1 .. n /\ IsFiniteSet(1 .. n)
        BY <1>1, <1>2, FS_Interval DEF Unsaved
      <3> QED
        BY <3>1, FS_Subset, FS_CardinalityType
    <2>4. CASE after = written
      BY <2>1, <2>2, <2>3, <2>4
    <2>5. ASSUME NEW p, SaveFailed(e), p \notin written, after = written \cup {p}
          PROVE  imported <= Cardinality(after) /\ Cardinality(after) <= imported + Cardinality(Unsaved(longer))
      <3>1. Cardinality(after) = Cardinality(written) + 1
        BY <2>5, FS_AddElement
      <3> QED
        BY <2>1, <2>2, <2>5, <3>1
    <2> QED
      BY <2>4, <2>5
  <1> QED
    BY <1>2, <1>4, <1>5, <1>6, <1>7, <1>8, <1>9 DEF RowsSeen

\* A valid row is written and counted.
LEMMA ImportedRow ==
    ASSUME NEW row \in Nat \ {0}, NEW imported \in Nat, NEW errors \in Errors, NEW rows,
           NEW written, IsFiniteSet(written), NEW p, p \notin written,
           RowsSeen(row, imported, errors, rows, written), row \in DOMAIN rows, ValidInput(rows[row])
    PROVE  RowsSeen(row + 1, imported + 1, errors, rows, written \cup {p})
  <1>1. Len(errors) \in Nat /\ DOMAIN errors = 1 .. Len(errors)
    BY DEF Errors
  <1>2. Cardinality(written \cup {p}) = Cardinality(written) + 1 /\ Cardinality(written) \in Nat
    BY FS_AddElement, FS_CardinalityType
  <1>3. Cardinality(Unsaved(errors)) \in Nat
    <2>1. Unsaved(errors) \subseteq 1 .. Len(errors) /\ IsFiniteSet(1 .. Len(errors))
      BY <1>1, FS_Interval DEF Unsaved
    <2> QED
      BY <2>1, FS_Subset, FS_CardinalityType
  <1>4. /\ imported + Len(errors) = row - 1
        /\ \A k \in DOMAIN errors : errors[k].row \in 1 .. (row - 1)
        /\ \A j, k \in DOMAIN errors : j < k => errors[j].row < errors[k].row
        /\ \A i \in 1 .. (row - 1) : ~ValidInput(rows[i]) => \E k \in DOMAIN errors : errors[k].row = i
        /\ 1 .. (row - 1) \subseteq DOMAIN rows
        /\ imported <= Cardinality(written)
        /\ Cardinality(written) <= imported + Cardinality(Unsaved(errors))
    BY DEF RowsSeen
  <1>5. (row + 1) - 1 = row /\ 1 .. row \subseteq DOMAIN rows
    BY <1>4
  <1>6. (imported + 1) + Len(errors) = row
    BY <1>1, <1>4
  <1>7. \A k \in DOMAIN errors : errors[k].row \in 1 .. row
    BY <1>4
  <1>8. \A i \in 1 .. row : ~ValidInput(rows[i]) => \E k \in DOMAIN errors : errors[k].row = i
    <2>1. \A i \in 1 .. row : i = row \/ i \in 1 .. (row - 1)
      OBVIOUS
    <2> QED
      BY <1>4, <2>1
  <1>9. /\ imported + 1 <= Cardinality(written \cup {p})
        /\ Cardinality(written \cup {p}) <= (imported + 1) + Cardinality(Unsaved(errors))
    BY <1>2, <1>3, <1>4
  <1> QED
    BY <1>4, <1>5, <1>6, <1>7, <1>8, <1>9 DEF RowsSeen

LEMMA ImportStep ==
    ASSUME ImportsInv, [Next]_vars, NEW r \in Calls
    PROVE  ImportInv(r)'
  <1> TypeOK /\ TypeOK' /\ ReadInv /\ Kept /\ ImportInv(r)
    BY StepKeeps, ReadNext DEF ImportsInv, ReadInv, IInv
  <1>1. CASE /\ pc'[r] = pc[r] /\ code'[r] = code[r] /\ frame'[r] = frame[r] /\ req'[r] = req[r]
             /\ wrote'[r] = wrote[r]
    BY <1>1 DEF ImportInv
  <1>2. CASE Receive(r)
    <2>1. PICK q \in Requests :
             /\ req' = [req EXCEPT ![r] = q]
             /\ IF Malformed(q) THEN Answer(r, "invalid_argument") ELSE Goto(r, FirstStatement(q.op))
      BY <1>2 DEF Receive
    <2>2. /\ frame'[r] = NoFrame /\ wrote'[r] = {} /\ code[r] # "ok" /\ req'[r] = q
      <3>1. pc[r] = "waiting" /\ UNCHANGED <<frame, wrote>>
        BY <1>2 DEF Receive
      <3> QED
        BY <2>1, <3>1 DEF ReadInv, IInv, CallInv, WaitingInv, TypeOK
    <2>3. q.op = "BulkImportPartners" => FirstStatement(q.op) = "row"
      BY DEF FirstStatement, EntryOps
    <2>4. code'[r] # "ok" /\ (q.op = "BulkImportPartners" => pc'[r] \in {"row", "done"})
      BY <2>1, <2>2, <2>3, PcEffects
    <2>5. RowsSeen(1, 0, <<>>, q.rows, {})
      <3>1. Unsaved(<<>>) = {}
        BY DEF Unsaved
      <3> QED
        BY <3>1, FS_EmptySet DEF RowsSeen
    <2>6. frame'[r].row = 1 /\ frame'[r].imported = 0 /\ frame'[r].errors = <<>>
      BY <2>2 DEF NoFrame
    <2> QED
      BY <2>2, <2>4, <2>5, <2>6 DEF ImportInv
  <1>3. CASE Handle(r) /\ req[r].op = "BulkImportPartners"
    <2>f. PICK f : f = frame[r]
      OBVIOUS
    <2>1. pc[r] = "row" /\ BulkImportPartners(r) /\ req' = req /\ wrote[r] \subseteq PartnerIds
      <3>1. pc[r] = "row"
        BY <1>3, ActorIsUnderWay DEF ImportInv
      <3>2. BulkImportPartners(r)
        BY <1>3, <3>1 DEF Handle, ListPartners, AgentListPartners, GetPartner, CreatePartner,
             SubmitOnboarding, UpdatePartnerStatus, StatementFails
      <3> QED
        BY <1>3, <3>1, <3>2, ActorIsUnderWay DEF TypeOK
    <2>2. /\ f.row \in Nat \ {0} /\ f.imported \in Nat /\ f.errors \in Errors
          /\ RowsSeen(f.row, f.imported, f.errors, req[r].rows, wrote[r]) /\ IsFiniteSet(wrote[r])
      <3>1. f \in Frame
        BY <2>f DEF TypeOK
      <3>2. f.row # 0 /\ RowsSeen(f.row, f.imported, f.errors, req[r].rows, wrote[r])
        BY <1>3, <2>f, <2>1 DEF ImportInv
      <3>3. IsFiniteSet(wrote[r])
        BY <2>1, IdAssumption, FS_Subset
      <3> QED
        BY <3>1, <3>2, <3>3 DEF Frame, Errors
    <2>3. code[r] # "ok"
      BY <2>1 DEF ReadInv, IInv, CallInv
    <2>4. CASE ImportEnds(r)
      <3>1. pc'[r] = "done" /\ frame' = frame /\ wrote' = wrote
        BY <2>4, PcEffects DEF ImportEnds, log
      <3>2. f.row \notin DOMAIN req[r].rows
        BY <2>f, <2>4 DEF ImportEnds
      <3>3. PICK n \in Nat : DOMAIN req[r].rows = 1 .. n
        BY <1>3, BulkRows
      <3>4. \A i \in DOMAIN req[r].rows : i < f.row
        BY <2>2, <3>2, <3>3
      <3> QED
        BY <2>1, <2>2, <2>f, <3>1, <3>4 DEF ImportInv
    <2>5. ASSUME AtRow(r), NEW message \in RowErrors, RowRejected(r, message), pc' = pc, code' = code,
                 \/ wrote'[r] = wrote[r]
                 \/ message = "failed to save row" /\ \E p : p \notin wrote[r] /\ wrote'[r] = wrote[r] \cup {p}
          PROVE  ImportInv(r)'
      <3>e. PICK e : e = [row |-> f.row, message |-> message]
        OBVIOUS
      <3>1. /\ e \in [row: Nat, message: RowErrors] /\ e.row = f.row
            /\ message = "failed to save row" => SaveFailed(e)
        BY <2>2, <3>e DEF SaveFailed
      <3>2. frame'[r] = [f EXCEPT !.row = f.row + 1, !.errors = Append(f.errors, e)]
        BY <2>f, <2>5, <3>e DEF RowRejected, TypeOK
      <3>3. f \in Frame
        BY <2>f DEF TypeOK
      <3>4. /\ frame'[r].row = f.row + 1 /\ frame'[r].imported = f.imported
            /\ frame'[r].errors = Append(f.errors, e)
        BY <3>2, <3>3 DEF Frame
      <3>5. f.row \in DOMAIN req[r].rows
        BY <2>f, <2>5 DEF AtRow
      <3>6. \/ wrote'[r] = wrote[r]
            \/ SaveFailed(e) /\ \E p : p \notin wrote[r] /\ wrote'[r] = wrote[r] \cup {p}
        BY <2>5, <3>1
      <3>7. RowsSeen(f.row + 1, f.imported, Append(f.errors, e), req[r].rows, wrote'[r])
        BY <2>2, <3>1, <3>5, <3>6, RejectedRow
      <3> QED
        <4>1. PICK longer : longer = Append(f.errors, e)
          OBVIOUS
        <4>2. /\ frame'[r].row # 0
              /\ RowsSeen(frame'[r].row, frame'[r].imported, longer, req[r].rows, wrote'[r])
              /\ frame'[r].errors = longer
          BY <2>2, <3>4, <3>7, <4>1
        <4> QED
          BY <2>1, <2>3, <2>5, <4>2 DEF ImportInv
    <2>6. ASSUME AtRow(r), ValidInput(CurrentRow(r)), RowImported(r), pc' = pc, code' = code,
                 NEW p, p \notin wrote[r], wrote'[r] = wrote[r] \cup {p}
          PROVE  ImportInv(r)'
      <3>2. frame'[r] = [f EXCEPT !.row = f.row + 1, !.imported = f.imported + 1]
        BY <2>f, <2>6 DEF RowImported, TypeOK
      <3>3. f \in Frame
        BY <2>f DEF TypeOK
      <3>4. /\ frame'[r].row = f.row + 1 /\ frame'[r].imported = f.imported + 1
            /\ frame'[r].errors = f.errors
        BY <3>2, <3>3 DEF Frame
      <3>5. f.row \in DOMAIN req[r].rows /\ ValidInput(req[r].rows[f.row])
        BY <2>f, <2>6 DEF AtRow, CurrentRow
      <3>7. RowsSeen(f.row + 1, f.imported + 1, f.errors, req[r].rows, wrote'[r])
        BY <2>2, <2>6, <3>5, ImportedRow
      <3> QED
        BY <2>1, <2>2, <2>3, <2>6, <3>4, <3>7 DEF ImportInv
    <2>7. "failed to save row" \in RowErrors
      BY DEF RowErrors
    <2>8. CASE RejectRow(r)
      <3>1. validatePartnerInput(CurrentRow(r)) \in RowErrors
        BY <2>8, ValidationTypes, CurrentRowType DEF RejectRow
      <3> QED
        BY <2>5, <2>8, <3>1 DEF RejectRow, log
    <2>9. CASE SaveRowFails(r)
      BY <2>5, <2>7, <2>9 DEF SaveRowFails, log
    <2>10. CASE SaveRow(r)
      <3>1. PICK p \in FreshIds : InsertRow(r, p, tierToText(CurrentRow(r).tier), statusToText(2))
        BY <2>10 DEF SaveRow
      <3>2. p \notin wrote[r]
        BY DEF ReadInv, WrittenInv, FreshIds, Present
      <3>3. wrote'[r] = wrote[r] \cup {p}
        BY <3>1 DEF InsertRow, TypeOK
      <3> QED
        BY <2>5, <2>6, <2>7, <2>10, <3>2, <3>3 DEF SaveRow
    <2> QED
      BY <2>1, <2>4, <2>8, <2>9, <2>10 DEF BulkImportPartners
  <1>4. CASE Handle(r) /\ req[r].op # "BulkImportPartners"
    BY <1>4, ActorIsUnderWay DEF ImportInv
  <1>5. CASE Crash
    <2>1. UNCHANGED <<frame, req, wrote>>
      BY <1>5 DEF Crash, log
    <2>2. CASE InFlight(r)
      <3>1. pc[r] # "waiting" /\ pc'[r] = "done" /\ code'[r] = "lost"
        BY <1>5, <2>2 DEF Crash, InFlight, Statements
      <3> QED
        BY <2>1, <3>1 DEF ImportInv
    <2>3. CASE ~InFlight(r)
      BY <1>1, <1>5, <2>1, <2>3 DEF Crash
    <2> QED
      BY <2>2, <2>3
  <1>6. CASE UNCHANGED vars
    BY <1>1, <1>6 DEF vars
  <1>7. ASSUME NEW s \in Calls, s # r, Receive(s) \/ Handle(s)
        PROVE  ImportInv(r)'
    BY <1>1, <1>7, OthersStand DEF Acts
  <1> QED
    BY <1>2, <1>3, <1>4, <1>5, <1>6, <1>7 DEF Next, Finished

\* The loop of an import has accounted for the rows it has seen.
THEOREM ImportInvariance == Spec => []ImportsInv
  <1>1. Init => ImportsInv
    <2> SUFFICES ASSUME Init PROVE ImportsInv
      OBVIOUS
    <2>1. \A r \in Calls : req[r].op = "none"
      BY DEF Init, NoRequest
    <2> QED
      BY <2>1, ReadInit DEF ImportsInv, ImportInv
  <1>2. ImportsInv /\ [Next]_vars => ImportsInv'
    BY ReadNext, ImportStep DEF ImportsInv
  <1> QED
    BY <1>1, <1>2, PTL DEF Spec

\* BulkImportPartners answers for each row once and in order: imported and
\* reported rows add up to the rows seen, every invalid row is reported, and
\* the rows in the table are those imported and some of those reported as not
\* saved; an ok answer has seen them all.
THEOREM ImportsAccountForRows == Spec => []BulkAccountsForEveryRow
  <1>1. ASSUME ImportsInv, NEW r \in Calls, req[r].op = "BulkImportPartners", pc[r] \in {"row", "done"}
        PROVE  LET f == frame[r]
                   seen == {i \in DOMAIN req[r].rows : i < f.row}
                   reported == {f.errors[k].row : k \in DOMAIN f.errors}
                   unsaved == {k \in DOMAIN f.errors : f.errors[k].message = "failed to save row"}
                   bad == {i \in seen : ~ValidInput(req[r].rows[i])}
               IN  /\ f.imported + Len(f.errors) = Cardinality(seen)
                   /\ \A j, k \in DOMAIN f.errors : j < k => f.errors[j].row < f.errors[k].row
                   /\ bad \subseteq reported /\ reported \subseteq seen
                   /\ f.imported <= Cardinality(wrote[r])
                   /\ Cardinality(wrote[r]) <= f.imported + Cardinality(unsaved)
                   /\ code[r] = "ok" => seen = DOMAIN req[r].rows
    <2> DEFINE f == frame[r]
    <2> DEFINE rows == req[r].rows
    <2> DEFINE seen == {i \in DOMAIN rows : i < f.row}
    <2> DEFINE reported == {f.errors[k].row : k \in DOMAIN f.errors}
    <2> DEFINE unsaved == {k \in DOMAIN f.errors : f.errors[k].message = "failed to save row"}
    <2> DEFINE bad == {i \in seen : ~ValidInput(rows[i])}
    <2> TypeOK
      BY <1>1 DEF ImportsInv, ReadInv, IInv
    <2>1. /\ f.row # 0 /\ RowsSeen(f.row, f.imported, f.errors, rows, wrote[r])
          /\ code[r] = "ok" => \A i \in DOMAIN rows : i < f.row
      BY <1>1 DEF ImportsInv, ImportInv
    <2>2. f.row \in Nat \ {0}
      BY <2>1 DEF TypeOK, Frame
    <2>3. PICK n \in Nat : DOMAIN rows = 1 .. n
      BY <1>1, BulkRows
    <2>e. unsaved = Unsaved(f.errors)
      BY DEF Unsaved, SaveFailed
    <2> HIDE DEF f, rows
    <2>4. seen = 1 .. (f.row - 1)
      BY <2>1, <2>2, <2>3 DEF RowsSeen
    <2>5. Cardinality(seen) = f.row - 1
      <3>1. PICK m \in Nat : m = f.row - 1
        BY <2>2
      <3>2. Cardinality(1 .. m) = m
        BY FS_Interval
      <3> QED
        BY <2>4, <3>1, <3>2
    <2>6. code[r] = "ok" => seen = DOMAIN rows
      BY <2>1
    <2>7. bad \subseteq reported /\ reported \subseteq seen
      BY <2>1, <2>4 DEF RowsSeen
    <2> HIDE DEF seen, reported, bad, unsaved
    <2>8. /\ f.imported + Len(f.errors) = Cardinality(seen)
          /\ \A j, k \in DOMAIN f.errors : j < k => f.errors[j].row < f.errors[k].row
          /\ bad \subseteq reported /\ reported \subseteq seen
          /\ f.imported <= Cardinality(wrote[r])
          /\ Cardinality(wrote[r]) <= f.imported + Cardinality(unsaved)
          /\ code[r] = "ok" => seen = DOMAIN rows
      BY <2>1, <2>5, <2>6, <2>7, <2>e DEF RowsSeen
    <2> QED
      BY <2>8 DEF f, rows, seen, reported, bad, unsaved
  <1>2. ImportsInv => BulkAccountsForEveryRow
    BY <1>1 DEF BulkAccountsForEveryRow
  <1> QED
    BY <1>2, ImportInvariance, PTL

-----------------------------------------------------------------------------
(* The summary of a list.                                                  *)

\* The partners that calls not over when r arrived have written.
Touched(r) == {p \in PartnerIds : \E x \in Calls \ settled[r] : p \in wrote[x]}

RowWrites == {x \in Calls \X PartnerIds : x[2] \in wrote[x[1]]}

\* Between the two reads of a list only touched rows change, so that the counts
\* differ from the rows listed by no more than the touched partners.
DriftInv(r) ==
    req[r].op \in ListOps =>
        /\ pc[r] = "count" => \A p \in PartnerIds \ Touched(r) : partners[p] = frame[r].shown[p]
        /\ code[r] = "ok" =>
              /\ Gap(frame[r].active, ShownWith(r, "active")) <= Cardinality(Touched(r))
              /\ Gap(frame[r].pending, ShownWith(r, "pending")) <= Cardinality(Touched(r))

SummaryInv == ReadInv /\ IsFiniteSet(RowWrites) /\ \A r \in Calls : DriftInv(r)

\* Sets that agree outside a third differ in size by no more than its size.
LEMMA GapBound ==
    ASSUME NEW A, NEW B, NEW T, IsFiniteSet(A), IsFiniteSet(B), IsFiniteSet(T),
           A \subseteq B \cup T, B \subseteq A \cup T
    PROVE  Gap(Cardinality(A), Cardinality(B)) <= Cardinality(T)
  <1>1. \A X, Y : IsFiniteSet(X) /\ IsFiniteSet(Y) /\ X \subseteq Y \cup T =>
                     /\ Cardinality(X) \in Nat /\ Cardinality(Y) \in Nat
                     /\ Cardinality(X) <= Cardinality(Y) + Cardinality(T)
    <2>1. ASSUME NEW X, NEW Y, IsFiniteSet(X), IsFiniteSet(Y), X \subseteq Y \cup T
          PROVE  /\ Cardinality(X) \in Nat /\ Cardinality(Y) \in Nat
                 /\ Cardinality(X) <= Cardinality(Y) + Cardinality(T)
      <3>1. IsFiniteSet(Y \cup T) /\ IsFiniteSet(Y \cap T)
        BY <2>1, FS_Union, FS_Subset
      <3>2. Cardinality(Y \cup T) = Cardinality(Y) + Cardinality(T) - Cardinality(Y \cap T)
        BY <2>1, FS_Union
      <3>3. /\ Cardinality(X) \in Nat /\ Cardinality(Y) \in Nat /\ Cardinality(T) \in Nat
            /\ Cardinality(Y \cup T) \in Nat /\ Cardinality(Y \cap T) \in Nat
        BY <2>1, <3>1, FS_CardinalityType
      <3>4. Cardinality(X) <= Cardinality(Y \cup T)
        BY <2>1, <3>1, FS_Subset
      <3> QED
        BY <3>2, <3>3, <3>4
    <2> QED
      BY <2>1
  <1>2. /\ Cardinality(A) \in Nat /\ Cardinality(B) \in Nat
        /\ Cardinality(A) <= Cardinality(B) + Cardinality(T)
        /\ Cardinality(B) <= Cardinality(A) + Cardinality(T)
    BY <1>1
  <1>3. Cardinality(T) \in Nat
    BY FS_CardinalityType
  <1> QED
    BY <1>2, <1>3 DEF Gap

\* A row changes only by a write that is counted, and a write stays counted.
LEMMA TouchedGrows ==
    ASSUME ReadInv, [Next]_vars, NEW s \in Calls, settled'[s] = settled[s]
    PROVE  /\ Touched(s) \subseteq Touched(s)'
           /\ \A p \in PartnerIds : p \notin Touched(s)' => partners'[p] = partners[p]
  <1> TypeOK /\ Kept
    BY StepKeeps DEF ReadInv, IInv
  <1>1. Touched(s) \subseteq Touched(s)'
    BY DEF Touched, Kept
  <1>2. ASSUME NEW r \in Calls, NEW p \in PartnerIds, Writes(r, p)
        PROVE  \A x \in PartnerIds : x \notin Touched(s)' => partners'[x] = partners[x]
    <2>1. r \notin settled[s] /\ p \in wrote'[r]
      BY <1>2 DEF Writes, ReadInv, SettledInv, TypeOK
    <2>2. p \in Touched(s)'
      BY <2>1 DEF Touched
    <2> QED
      BY <1>2, <2>2 DEF Writes
  <1> QED
    BY <1>1, <1>2, TableMoves

LEMMA FiniteStep ==
    ASSUME ReadInv, IsFiniteSet(RowWrites), [Next]_vars
    PROVE  IsFiniteSet(RowWrites')
  <1>1. CASE UNCHANGED <<partners, wrote>>
    BY <1>1 DEF RowWrites
  <1>2. ASSUME NEW r \in Calls, NEW p \in PartnerIds, Writes(r, p)
        PROVE  IsFiniteSet(RowWrites')
    <2>1. wrote'[r] = wrote[r] \cup {p} /\ \A s \in Calls \ {r} : wrote'[s] = wrote[s]
      BY <1>2 DEF Writes, ReadInv, IInv, TypeOK
    <2>2. RowWrites' = RowWrites \cup {<<r, p>>}
      BY <2>1 DEF RowWrites
    <2> QED
      BY <2>2, FS_AddElement
  <1> QED
    BY <1>1, <1>2, TableMoves

LEMMA DriftStep ==
    ASSUME SummaryInv, [Next]_vars, NEW s \in Calls
    PROVE  DriftInv(s)'
  <1> TypeOK /\ TypeOK' /\ ReadInv /\ Kept /\ DriftInv(s)
    BY StepKeeps, ReadNext DEF SummaryInv, ReadInv, IInv
  <1>1. Touched(s) \subseteq PartnerIds /\ IsFiniteSet(Touched(s)) /\ IsFiniteSet(Touched(s)')
    BY IdAssumption, FS_Subset DEF Touched
  <1>2. CASE /\ pc'[s] = pc[s] /\ code'[s] = code[s] /\ frame'[s] = frame[s] /\ req'[s] = req[s]
             /\ settled'[s] = settled[s]
    <2>1. /\ Touched(s) \subseteq Touched(s)'
          /\ \A p \in PartnerIds : p \notin Touched(s)' => partners'[p] = partners[p]
      BY <1>2, TouchedGrows
    <2>2. req[s].op \in ListOps /\ pc[s] = "count" =>
             \A p \in PartnerIds \ Touched(s)' : partners'[p] = frame[s].shown[p]
      BY <2>1 DEF DriftInv
    <2>3. /\ Cardinality(Touched(s)) \in Nat /\ Cardinality(Touched(s)') \in Nat
          /\ Cardinality(Touched(s)) <= Cardinality(Touched(s)')
      BY <1>1, <2>1, FS_Subset, FS_CardinalityType
    <2>4. \A status : ShownWith(s, status)' = ShownWith(s, status) /\ ShownWith(s, status) \in Nat
      <3>1. ASSUME NEW status PROVE ShownWith(s, status)' = ShownWith(s, status) /\ ShownWith(s, status) \in Nat
        <4>1. {p \in PartnerIds : frame[s].shown[p] # NoRow /\ frame[s].shown[p].status = status}
                 \subseteq PartnerIds
          OBVIOUS
        <4> QED
          BY <1>2, <4>1, IdAssumption, FS_Subset, FS_CardinalityType DEF ShownWith
      <3> QED
        BY <3>1
    <2>5. frame[s].active \in Nat /\ frame[s].pending \in Nat
      BY DEF TypeOK, Frame
    <2>6. \A m, n \in Nat : Gap(m, n) \in Nat
      BY DEF Gap
    <2>7. req[s].op \in ListOps /\ code[s] = "ok" =>
             /\ Gap(frame[s].active, ShownWith(s, "active")) <= Cardinality(Touched(s)')
             /\ Gap(frame[s].pending, ShownWith(s, "pending")) <= Cardinality(Touched(s)')
      <3>1. /\ Gap(frame[s].active, ShownWith(s, "active")) \in Nat
            /\ Gap(frame[s].pending, ShownWith(s, "pending")) \in Nat
        BY <2>4, <2>5, <2>6
      <3> QED
        BY <2>3, <3>1 DEF DriftInv
    <2> QED
      BY <1>2, <2>2, <2>4, <2>7 DEF DriftInv
  <1>3. CASE \/ pc'[s] # "count" /\ code'[s] # "ok"
             \/ req'[s].op \notin ListOps
    BY <1>3 DEF DriftInv
  <1>4. CASE ReadPartners(s)
    <2>1. frame'[s].shown = partners /\ UNCHANGED <<partners, req>> /\ pc'[s] = "count"
      BY <1>4, PcEffects DEF ReadPartners, tables, log, TypeOK, Frame
    <2>2. code'[s] # "ok"
      BY <1>4, PcEffects DEF ReadPartners, ReadInv, IInv, CallInv
    <2> QED
      BY <2>1, <2>2 DEF DriftInv
  <1>5. CASE ReadCounts(s) /\ req[s].op \in ListOps
    <2>1. /\ frame'[s].shown = frame[s].shown /\ frame'[s].active = CountByStatus("active")
          /\ frame'[s].pending = CountByStatus("pending")
      <3>1. PICK n, m : /\ n = CountByStatus("active") /\ m = CountByStatus("pending")
                        /\ frame'[s] = [frame[s] EXCEPT !.active = n, !.pending = m]
        BY <1>5 DEF ReadCounts, TypeOK
      <3>2. frame[s] \in Frame
        BY DEF TypeOK
      <3> QED
        BY <3>1, <3>2 DEF Frame
    <2>2. pc[s] = "count" /\ pc'[s] = "done" /\ UNCHANGED <<partners, req, wrote, settled>>
      BY <1>5, PcEffects DEF ReadCounts, tables, log
    <2>3. Touched(s)' = Touched(s)
      BY <2>2 DEF Touched
    <2>4. \A p \in PartnerIds \ Touched(s) : partners[p] = frame[s].shown[p]
      BY <1>5, <2>2 DEF DriftInv
    <2>5. ASSUME NEW status PROVE Gap(CountByStatus(status), ShownWith(s, status)') <= Cardinality(Touched(s))
      <3> DEFINE A == {p \in Present : partners[p].status = status}
      <3> DEFINE B == {p \in PartnerIds : frame[s].shown[p] # NoRow /\ frame[s].shown[p].status = status}
      <3>1. A \subseteq B \cup Touched(s) /\ B \subseteq A \cup Touched(s)
        BY <2>4 DEF Present
      <3>2. A \subseteq PartnerIds /\ B \subseteq PartnerIds
        BY DEF Present
      <3>3. IsFiniteSet(A) /\ IsFiniteSet(B)
        BY <3>2, IdAssumption, FS_Subset
      <3>4. Gap(Cardinality(A), Cardinality(B)) <= Cardinality(Touched(s))
        BY <1>1, <3>1, <3>3, GapBound
      <3>5. ShownWith(s, status)' = Cardinality(B)
        BY <2>1 DEF ShownWith
      <3> QED
        BY <3>4, <3>5 DEF CountByStatus
    <2> QED
      BY <2>1, <2>2, <2>3, <2>5 DEF DriftInv
  <1>6. CASE Handle(s)
    <2>1. req' = req
      BY <1>6, ActorIsUnderWay
    <2>2. CASE StatementFails(s)
      <3>1. pc'[s] = "done" /\ code'[s] = "internal"
        BY <2>2, PcEffects DEF StatementFails
      <3> QED
        BY <1>3, <3>1
    <2>3. CASE ListPartners(s) \/ AgentListPartners(s)
      BY <1>4, <1>5, <2>3 DEF ListPartners, AgentListPartners, ListOps
    <2>4. CASE req[s].op \notin ListOps
      BY <1>3, <2>1, <2>4
    <2> QED
      BY <1>6, <2>2, <2>3, <2>4 DEF Handle, GetPartner, CreatePartner, SubmitOnboarding,
         UpdatePartnerStatus, BulkImportPartners, RejectRow, SaveRow, SaveRowFails, ImportEnds, AtRow,
         ListOps
  <1>7. CASE Receive(s)
    <2>1. PICK q \in Requests : IF Malformed(q) THEN Answer(s, "invalid_argument")
                                ELSE Goto(s, FirstStatement(q.op))
      BY <1>7 DEF Receive
    <2>2. code[s] # "ok"
      BY <1>7 DEF Receive, ReadInv, IInv, CallInv
    <2>3. FirstStatement(q.op) # "count"
      BY DEF FirstStatement
    <2>4. pc'[s] # "count" /\ code'[s] # "ok"
      BY <2>1, <2>2, <2>3, PcEffects
    <2> QED
      BY <1>3, <2>4
  <1>8. CASE Crash
    <2>1. CASE InFlight(s)
      <3>1. pc'[s] = "done" /\ code'[s] = "lost"
        BY <1>8, <2>1 DEF Crash
      <3> QED
        BY <1>3, <3>1
    <2>2. CASE ~InFlight(s)
      BY <1>2, <1>8, <2>2 DEF Crash, log
    <2> QED
      BY <2>1, <2>2
  <1>9. CASE UNCHANGED vars
    BY <1>2, <1>9 DEF vars
  <1>10. ASSUME NEW r \in Calls, r # s, Receive(r) \/ Handle(r)
         PROVE  DriftInv(s)'
    BY <1>2, <1>10, OthersStand DEF Acts
  <1> QED
    BY <1>6, <1>7, <1>8, <1>9, <1>10 DEF Next, Finished

\* A list and its counts differ by writes that ran beside the call.
THEOREM SummaryInvariance == Spec => []SummaryInv
  <1>1. Init => SummaryInv
    <2> SUFFICES ASSUME Init PROVE SummaryInv
      OBVIOUS
    <2>1. RowWrites = {}
      BY DEF Init, RowWrites
    <2>2. \A r \in Calls : pc[r] = "waiting" /\ code[r] = "none"
      BY DEF Init
    <2> QED
      BY <2>1, <2>2, ReadInit, FS_EmptySet DEF SummaryInv, DriftInv
  <1>2. SummaryInv /\ [Next]_vars => SummaryInv'
    BY ReadNext, FiniteStep, DriftStep DEF SummaryInv
  <1> QED
    BY <1>1, <1>2, PTL DEF Spec

\* Each touched partner has a write of its own among those beside the call.
LEMMA TouchedByWrites ==
    ASSUME TypeOK, IsFiniteSet(RowWrites), NEW r \in Calls
    PROVE  /\ Cardinality(Touched(r)) \in Nat /\ WritesBeside(r) \in Nat
           /\ Cardinality(Touched(r)) <= WritesBeside(r)
  <1> DEFINE beside == {x \in Calls \X PartnerIds : x[1] \notin settled[r] /\ x[2] \in wrote[x[1]]}
  <1> DEFINE pick == [p \in Touched(r) |-> <<CHOOSE x \in Calls \ settled[r] : p \in wrote[x], p>>]
  <1>1. IsFiniteSet(beside) /\ WritesBeside(r) = Cardinality(beside)
    <2>1. beside \subseteq RowWrites
      BY DEF RowWrites
    <2> QED
      BY <2>1, FS_Subset DEF WritesBeside
  <1>2. ASSUME NEW p \in Touched(r) PROVE pick[p] \in beside /\ pick[p][2] = p
    <2>1. PICK w : w = CHOOSE x \in Calls \ settled[r] : p \in wrote[x]
      OBVIOUS
    <2>2. w \in Calls \ settled[r] /\ p \in wrote[w] /\ p \in PartnerIds
      BY <2>1 DEF Touched
    <2>3. pick[p] = <<w, p>>
      BY <2>1
    <2> QED
      BY <2>2, <2>3
  <1> HIDE DEF pick, beside
  <1>3. pick \in [Touched(r) -> beside]
    BY <1>2 DEF pick
  <1>4. \A p, q \in Touched(r) : pick[p] = pick[q] => p = q
    BY <1>2
  <1>5. pick \in Injection(Touched(r), beside)
    BY <1>3, <1>4 DEF Injection, IsInjective
  <1>6. Cardinality(Touched(r)) <= Cardinality(beside) /\ IsFiniteSet(Touched(r))
    BY <1>1, <1>5, FS_Injection
  <1> QED
    BY <1>1, <1>6, FS_CardinalityType

\* The rows and the counts of a list are read one after the other, but they
\* differ by at most one partner per write that was not over when it arrived.
THEOREM SummariesDriftLittle == Spec => []SummaryDriftIsBounded
  <1>1. ASSUME SummaryInv, NEW r \in Calls, Reads(r, {"ListPartners", "AgentListPartners"})
        PROVE  /\ Gap(frame[r].active, ShownWith(r, "active")) <= WritesBeside(r)
               /\ Gap(frame[r].pending, ShownWith(r, "pending")) <= WritesBeside(r)
    <2>1. TypeOK /\ DriftInv(r) /\ IsFiniteSet(RowWrites)
      BY <1>1 DEF SummaryInv, ReadInv, IInv
    <2>2. /\ Cardinality(Touched(r)) \in Nat /\ WritesBeside(r) \in Nat
          /\ Cardinality(Touched(r)) <= WritesBeside(r)
      BY <2>1, TouchedByWrites
    <2>3. \A status : ShownWith(r, status) \in Nat
      <3>1. ASSUME NEW status PROVE ShownWith(r, status) \in Nat
        <4>1. {p \in PartnerIds : frame[r].shown[p] # NoRow /\ frame[r].shown[p].status = status}
                 \subseteq PartnerIds
          OBVIOUS
        <4> QED
          BY <4>1, IdAssumption, FS_Subset, FS_CardinalityType DEF ShownWith
      <3> QED
        BY <3>1
    <2>4. /\ Gap(frame[r].active, ShownWith(r, "active")) \in Nat
          /\ Gap(frame[r].pending, ShownWith(r, "pending")) \in Nat
      BY <2>1, <2>3 DEF TypeOK, Frame, Gap
    <2>5. /\ Gap(frame[r].active, ShownWith(r, "active")) <= Cardinality(Touched(r))
          /\ Gap(frame[r].pending, ShownWith(r, "pending")) <= Cardinality(Touched(r))
      BY <1>1, <2>1 DEF DriftInv, Reads, ListOps
    <2> QED
      BY <2>2, <2>4, <2>5
  <1>2. SummaryInv => SummaryDriftIsBounded
    BY <1>1 DEF SummaryDriftIsBounded
  <1> QED
    BY <1>2, SummaryInvariance, PTL
=============================================================================
