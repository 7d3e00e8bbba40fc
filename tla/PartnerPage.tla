---------------------------- MODULE PartnerPage ----------------------------
(***************************************************************************)
(* The partner page of the web client (web/src/routes/PartnerDetail.tsx):  *)
(* what one browser tab shows of a partner, while its requests are under   *)
(* way and other administrators change partners.  The API is abstracted to *)
(* one status per partner, with the number of changes made to it; what     *)
(* PartnerApi shows of GetPartner and UpdatePartnerStatus justifies that a *)
(* request is served in one step, and that a failed change may be stored.  *)
(*                                                                         *)
(* A link leads to the page and away from it, and mounts it anew.  A jump  *)
(* in the browser's history can lead from one partner straight to another: *)
(* the route is the same, so the page stays mounted and keeps its state.   *)
(***************************************************************************)
EXTENDS Naturals, Sequences, FiniteSets

CONSTANTS
    Partners,     \* the partners that have a page
    None,         \* no partner
    Statuses,     \* the statuses that have a button
    MaxRequests,  \* bound: the requests that are sent
    MaxEdits      \* bound: the changes that other administrators make

ASSUME PageAssumption ==
    /\ None \notin Partners
    /\ 1 \in Statuses /\ Statuses \subseteq 1..3
    /\ MaxRequests \in Nat
    /\ MaxEdits \in Nat

VARIABLES
    stored,   \* stored[p]: the status of p in the database, and its revision
    edits,    \* the changes that other administrators have made
    route,    \* the partner whose page is mounted, from the URL
    visit,    \* the number of times the page was mounted
    jumped,   \* history: this visit has changed partners
    partner,  \* state of the page: the partner shown
    error,    \* state of the page: an error is shown
    busy,     \* state of the page: the status buttons are disabled
    requests  \* the requests sent, in order

page == <<partner, error, busy>>
vars == <<stored, edits, route, visit, jumped, page, requests>>

\* What GetPartner and UpdatePartnerStatus return of a partner.
Snapshot == [id: Partners, status: Statuses, revision: Nat]
NoPartner == [id |-> None, status |-> 0, revision |-> 0]

\* A load fetches the partner; a reload is the load at the end of a change.
Request == [kind: {"load", "update", "reload"}, visit: Nat, id: Partners, status: 0..3,
            stage: {"sent", "ok", "failed", "over"}, answer: Snapshot \cup {NoPartner}]

Init ==
    /\ stored = [p \in Partners |-> [status |-> 1, revision |-> 0]]
    /\ edits = 0
    /\ route = None
    /\ visit = 0
    /\ jumped = FALSE
    /\ partner = NoPartner
    /\ error = FALSE
    /\ busy = FALSE
    /\ requests = <<>>

Mounted == route # None

\* A request whose page is still mounted; React ignores the others' results.
Current(n) == Mounted /\ requests[n].visit = visit

Sent(kind, v, p, status) ==
    [kind |-> kind, visit |-> v, id |-> p, status |-> status, stage |-> "sent", answer |-> NoPartner]

Send(request) ==
    /\ Len(requests) < MaxRequests
    /\ requests' = Append(requests, request)

-----------------------------------------------------------------------------
(* The user.                                                               *)

\* Fault: the effect of a new page still has the id of the last one.
Open_StaleId(p) ==
    /\ ~Mounted
    /\ route' = p
    /\ visit' = visit + 1
    /\ jumped' = FALSE
    /\ Send(Sent("load", visit + 1, route, 0))
    /\ UNCHANGED <<stored, edits, page>>

\* A link mounts the page with its initial state, and its effect loads p.
Open(p) ==
    /\ ~Mounted
    /\ route' = p
    /\ visit' = visit + 1
    /\ jumped' = FALSE
    /\ Send(Sent("load", visit + 1, p, 0))
    /\ UNCHANGED <<stored, edits, page>>

\* The identity of `load' depends on the id, so the effect runs again.
Jump(p) ==
    /\ Mounted /\ p # route
    /\ route' = p
    /\ jumped' = TRUE
    /\ Send(Sent("load", visit, p, 0))
    /\ UNCHANGED <<stored, edits, visit, page>>

Leave ==
    /\ Mounted
    /\ route' = None
    /\ partner' = NoPartner /\ error' = FALSE /\ busy' = FALSE
    /\ UNCHANGED <<stored, edits, visit, jumped, requests>>

\* Fault: the buttons stay enabled during a change.
changeStatus_NotBusy(status) ==
    /\ Mounted /\ partner # NoPartner
    /\ status # partner.status
    /\ error' = FALSE
    /\ Send(Sent("update", visit, route, status))
    /\ UNCHANGED <<stored, edits, route, visit, jumped, partner, busy>>

\* A status button is pressed: the change is made to the partner of the URL.
changeStatus(status) ==
    /\ Mounted /\ partner # NoPartner
    /\ ~busy /\ status # partner.status
    /\ busy' = TRUE
    /\ error' = FALSE
    /\ Send(Sent("update", visit, route, status))
    /\ UNCHANGED <<stored, edits, route, visit, jumped, partner>>

-----------------------------------------------------------------------------
(* The API.                                                                *)

Stage(n, stage, answer) ==
    requests' = [requests EXCEPT ![n] = [requests[n] EXCEPT !.stage = stage, !.answer = answer]]

Changed(p, status) == [status |-> status, revision |-> stored[p].revision + 1]

ServeGetPartner(n) ==
    /\ requests[n].stage = "sent" /\ requests[n].kind # "update"
    /\ LET p == requests[n].id
       IN  Stage(n, "ok", [id |-> p, status |-> stored[p].status, revision |-> stored[p].revision])
    /\ UNCHANGED <<stored, edits, route, visit, jumped, page>>

\* The row is written; the answer may be an error all the same.
ServeUpdatePartnerStatus(n) ==
    /\ requests[n].stage = "sent" /\ requests[n].kind = "update"
    /\ LET p == requests[n].id
           row == Changed(p, requests[n].status)
       IN  /\ stored' = [stored EXCEPT ![p] = row]
           /\ \/ Stage(n, "ok", [id |-> p, status |-> row.status, revision |-> row.revision])
              \/ Stage(n, "failed", NoPartner)
    /\ UNCHANGED <<edits, route, visit, jumped, page>>

FailRequest(n) ==
    /\ requests[n].stage = "sent"
    /\ Stage(n, "failed", NoPartner)
    /\ UNCHANGED <<stored, edits, route, visit, jumped, page>>

\* Another administrator changes p.
Edit(p, status) ==
    /\ edits < MaxEdits
    /\ edits' = edits + 1
    /\ stored' = [stored EXCEPT ![p] = Changed(p, status)]
    /\ UNCHANGED <<route, visit, jumped, page, requests>>

-----------------------------------------------------------------------------
(* Continuations, in the page of the closure that sent the request.        *)

\* What a change was told is kept as history.
Over(n) ==
    [requests EXCEPT ![n] = [requests[n] EXCEPT
        !.stage = "over",
        !.answer = IF requests[n].kind = "update" THEN requests[n].answer ELSE NoPartner]]

\* Fault: a load that succeeds takes the error of a change away.
Show_ClearsError(n) ==
    IF Current(n)
    THEN IF requests[n].stage = "ok" THEN partner' = requests[n].answer /\ error' = FALSE
                                     ELSE error' = TRUE /\ UNCHANGED partner
    ELSE UNCHANGED <<partner, error>>

\* The rest of load: the partner is shown, or the error.
Show(n) ==
    IF Current(n)
    THEN IF requests[n].stage = "ok" THEN partner' = requests[n].answer /\ UNCHANGED error
                                     ELSE error' = TRUE /\ UNCHANGED partner
    ELSE UNCHANGED <<partner, error>>

LoadReturns(n) ==
    /\ requests[n].kind = "load" /\ requests[n].stage \in {"ok", "failed"}
    /\ Show(n)
    /\ requests' = Over(n)
    /\ UNCHANGED <<stored, edits, route, visit, jumped, busy>>

NoLongerBusy(n) == busy' = IF Current(n) THEN FALSE ELSE busy

\* Fault: the page keeps what it showed before the change.
UpdateSucceeds_NoReload(n) ==
    /\ requests[n].kind = "update" /\ requests[n].stage = "ok"
    /\ requests' = Over(n)
    /\ NoLongerBusy(n)
    /\ UNCHANGED <<stored, edits, route, visit, jumped, partner, error>>

\* The page is reloaded when its change was answered.
UpdateSucceeds(n) ==
    /\ requests[n].kind = "update" /\ requests[n].stage = "ok"
    /\ requests' = Append(Over(n), Sent("reload", requests[n].visit, requests[n].id, 0))
    /\ UNCHANGED <<stored, edits, route, visit, jumped, page>>

\* Fault: the error path does not enable the buttons again.
UpdateFails_StaysBusy(n) ==
    /\ requests[n].kind = "update" /\ requests[n].stage = "failed"
    /\ error' = (error \/ Current(n))
    /\ requests' = Over(n)
    /\ UNCHANGED <<stored, edits, route, visit, jumped, partner, busy>>

UpdateFails(n) ==
    /\ requests[n].kind = "update" /\ requests[n].stage = "failed"
    /\ error' = (error \/ Current(n))
    /\ NoLongerBusy(n)
    /\ requests' = Over(n)
    /\ UNCHANGED <<stored, edits, route, visit, jumped, partner>>

\* Fault: the reload does not wait for its answer.
ReloadReturns_NotAwaited(n) ==
    /\ requests[n].kind = "reload"
    /\ \/ /\ requests[n].stage = "sent" /\ busy
          /\ NoLongerBusy(n)
          /\ UNCHANGED <<partner, error, requests>>
       \/ /\ requests[n].stage \in {"ok", "failed"}
          /\ Show(n)
          /\ requests' = Over(n)
          /\ UNCHANGED busy
    /\ UNCHANGED <<stored, edits, route, visit, jumped>>

\* changeStatus awaits load, and its finally enables the buttons.
ReloadReturns(n) ==
    /\ requests[n].kind = "reload" /\ requests[n].stage \in {"ok", "failed"}
    /\ Show(n)
    /\ NoLongerBusy(n)
    /\ requests' = Over(n)
    /\ UNCHANGED <<stored, edits, route, visit, jumped>>

\* Nothing is under way, and the user does nothing.
Rest ==
    /\ \A n \in DOMAIN requests : requests[n].stage = "over"
    /\ UNCHANGED vars

Proceed(n) ==
    \/ ServeGetPartner(n) \/ ServeUpdatePartnerStatus(n) \/ FailRequest(n)
    \/ LoadReturns(n) \/ UpdateSucceeds(n) \/ UpdateFails(n) \/ ReloadReturns(n)

Next ==
    \/ \E p \in Partners : Open(p) \/ Jump(p)
    \/ Leave
    \/ \E status \in Statuses : changeStatus(status)
    \/ \E p \in Partners, status \in Statuses : Edit(p, status)
    \/ \E n \in DOMAIN requests : Proceed(n)
    \/ Rest

Spec == Init /\ [][Next]_vars

\* A request is answered, or fails, and its continuation runs.
FairSpec == Spec /\ \A n \in 1..(2 * MaxRequests) : WF_vars(n \in DOMAIN requests /\ Proceed(n))

-----------------------------------------------------------------------------
(* Properties.                                                             *)

\* Every variable has the type its comment gives.
TypeOK ==
    /\ stored \in [Partners -> [status: Statuses, revision: Nat]]
    /\ edits \in 0..MaxEdits
    /\ route \in Partners \cup {None}
    /\ visit \in Nat
    /\ jumped \in BOOLEAN
    /\ partner \in Snapshot \cup {NoPartner}
    /\ error \in BOOLEAN
    /\ busy \in BOOLEAN
    /\ requests \in Seq(Request)

UnderWay(n) == requests[n].stage # "over"

\* The buttons are disabled exactly while a change of this visit, or the reload
\* that follows it, is under way, also when the page has moved to another
\* partner meanwhile; and there is never a second one (PartnerDetail.tsx:31-41).
BusyMeansChanging ==
    LET changes == {n \in DOMAIN requests :
                       Current(n) /\ UnderWay(n) /\ requests[n].kind # "load"}
    IN  /\ Cardinality(changes) <= 1
        /\ busy <=> changes # {}

\* A page that was reached by links shows only its own partner, and never goes
\* back to an older state of it: its loads do not overlap.
ShownOnlyAdvances ==
    [][visit' = visit /\ Mounted /\ route' # None /\ ~jumped' /\ partner # NoPartner =>
          partner'.id = route' /\ partner'.revision >= partner.revision]_vars

\* A page reached by links that waits for nothing and shows no error shows its
\* partner as it was after the last change this visit was told had succeeded.
SettledPageIsCurrent ==
    Mounted /\ ~jumped /\ ~error /\ (\A n \in DOMAIN requests : Current(n) => ~UnderWay(n)) =>
        /\ partner.id = route
        /\ \A n \in DOMAIN requests :
              Current(n) /\ requests[n].kind = "update" =>
                 partner.revision >= requests[n].answer.revision

\* The history keeps the answer of a change; one that failed has none.
ChangeFailed(n) ==
    requests[n].kind = "update" /\ requests[n].stage = "over" /\ requests[n].answer = NoPartner

\* A change that failed, perhaps after it was stored, is said to have failed until
\* the next change is begun: no load that returns meanwhile, of this partner or of
\* another the visit has moved to, takes the error away (PartnerDetail.tsx:16-42).
FailuresAreSaid ==
    \A n \in DOMAIN requests : Current(n) /\ ChangeFailed(n) =>
        \/ error
        \/ \E m \in DOMAIN requests : m > n /\ Current(m) /\ requests[m].kind = "update"

\* The buttons become enabled again.
BusyEnds == busy ~> ~busy

\* PRD.md:48: the page shows a partner's profile and the actions that change its
\* status, so a change is made to the partner that the page shows.
ChangesTheShownPartner ==
    [][\A n \in DOMAIN requests' \ DOMAIN requests :
          requests'[n].kind = "update" => partner.id = requests'[n].id]_vars
=============================================================================
