---------------------------- MODULE PartnerLedger ----------------------------
(***************************************************************************)
(* What the partner API promises to a reader of its two tables, without    *)
(* requests, statements or failures: partners are added and never removed, *)
(* their status changes, and the log grows by entries that are owed for    *)
(* such a change.  An addition or a change owes at most one entry; what is *)
(* owed may be forgotten (a failure, a crash), but nothing else is logged, *)
(* nothing is logged twice and the log is never rewritten.                 *)
(***************************************************************************)
EXTENDS Naturals, Sequences

CONSTANTS
    PartnerIds,  \* the ids a partner can have
    Calls        \* who adds and changes partners

VARIABLES
    status,  \* status[p]: "absent", or the text in p's status column
    log,     \* the entries logged, in order
    owed     \* the entries that are owed

ledger == <<status, log, owed>>

Added(p)  == status[p] # "absent"

\* The status text after a change, by the label of its entry.
Texts == [Pending |-> "pending", Active |-> "active", Churned |-> "churned", Unknown |-> ""]

Entry(p, type, message, r) == [partner |-> p, type |-> type, message |-> message, by |-> r]

Init ==
    /\ status \in [PartnerIds -> {"absent", "pending", "active", "churned"}]
    /\ log = <<>>
    /\ owed = {}

Owe(entry) == owed' = owed \cup {entry} \/ UNCHANGED owed

\* An administrator creates or imports an active partner, or the public form
\* submits a pending one.
Add(p, r) ==
    /\ ~Added(p)
    /\ \/ /\ status' = [status EXCEPT ![p] = "active"]
          /\ Owe(Entry(p, "created", "Partner created", r))
       \/ /\ status' = [status EXCEPT ![p] = "pending"]
          /\ Owe(Entry(p, "submitted", "Submitted via public onboarding form", r))
    /\ UNCHANGED log

Change(p, r) ==
    /\ Added(p)
    /\ \E label \in DOMAIN Texts :
          /\ status' = [status EXCEPT ![p] = Texts[label]]
          /\ Owe(Entry(p, "status_changed", label, r))
    /\ UNCHANGED log

Log ==
    /\ \E entry \in owed : log' = Append(log, entry) /\ owed' = owed \ {entry}
    /\ UNCHANGED status

Forget ==
    /\ owed' \in SUBSET owed
    /\ UNCHANGED <<status, log>>

Next ==
    \/ \E p \in PartnerIds, r \in Calls : Add(p, r) \/ Change(p, r)
    \/ Log
    \/ Forget

Spec == Init /\ [][Next]_ledger
=============================================================================
