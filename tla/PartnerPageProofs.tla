-------------------------- MODULE PartnerPageProofs --------------------------
(***************************************************************************)
(* Proofs about PartnerPage, for any number of partners, requests and      *)
(* edits of others: the buttons, and what a page reached by links shows.   *)
(***************************************************************************)
EXTENDS PartnerPage, FiniteSetTheorems, TLAPS

-----------------------------------------------------------------------------
(* The inductive invariant.                                                *)

\* The requests that the mounted page waits for, and those of a change.
Awaited(n)  == Current(n) /\ UnderWay(n)
Changing(n) == Awaited(n) /\ requests[n].kind # "load"

VisitsPast == \A n \in DOMAIN requests : requests[n].visit <= visit

\* A page that is not mounted has the state it will be mounted with.
FreshWhenUnmounted == ~Mounted => ~busy /\ partner = NoPartner

UpdatesHaveStatus ==
    \A n \in DOMAIN requests : requests[n].kind = "update" => requests[n].status \in Statuses

\* An answer is a state that its partner was in.
AnswersAreTrue ==
    \A n \in DOMAIN requests :
        /\ requests[n].stage = "ok" => requests[n].answer # NoPartner
        /\ requests[n].stage \in {"sent", "failed"} => requests[n].answer = NoPartner
        /\ requests[n].answer # NoPartner =>
              /\ requests[n].answer.id = requests[n].id
              /\ requests[n].answer.revision <= stored[requests[n].id].revision

OneChange ==
    /\ busy <=> \E n \in DOMAIN requests : Changing(n)
    /\ \A m, n \in DOMAIN requests : Changing(m) /\ Changing(n) => m = n

\* The page was reached by a link and has not changed partners.
ByLink == Mounted /\ ~jumped

OwnPartner ==
    ByLink =>
        /\ \A n \in DOMAIN requests : Current(n) => requests[n].id = route
        /\ partner # NoPartner => partner.id = route /\ partner.revision <= stored[route].revision

\* Its requests follow one another, the first load before anything is shown.
OneAtATime ==
    ByLink =>
        /\ \A m, n \in DOMAIN requests : Awaited(m) /\ Awaited(n) => m = n
        /\ \A n \in DOMAIN requests : Awaited(n) /\ requests[n].kind = "load" => partner = NoPartner

\* What a load of it has fetched is as new as what is shown, and as what its
\* changes were told.
LoadsAreNewer ==
    ByLink =>
        \A n \in DOMAIN requests : Current(n) /\ requests[n].stage = "ok" /\ requests[n].kind # "update" =>
            /\ requests[n].answer.revision >= partner.revision
            /\ \A m \in DOMAIN requests : Current(m) /\ requests[m].kind = "update" =>
                  requests[n].answer.revision >= requests[m].answer.revision

\* Without an error, what is shown is missing or outdated only until a request ends.
OutdatedOnlyWhileWaiting ==
    ByLink /\ ~error =>
        /\ partner = NoPartner => \E n \in DOMAIN requests : Awaited(n)
        /\ \A n \in DOMAIN requests : Current(n) /\ requests[n].kind = "update" =>
              partner.revision >= requests[n].answer.revision \/ \E m \in DOMAIN requests : Changing(m)

IInv ==
    /\ TypeOK /\ VisitsPast /\ FreshWhenUnmounted /\ UpdatesHaveStatus /\ AnswersAreTrue /\ OneChange
    /\ OwnPartner /\ OneAtATime /\ LoadsAreNewer /\ OutdatedOnlyWhileWaiting

-----------------------------------------------------------------------------
(* Requests.                                                               *)

LEMMA NoPartnerFacts ==
    /\ NoPartner.id = None /\ NoPartner.revision = 0 /\ NoPartner \notin Snapshot
    /\ \A a \in Snapshot : a.id \in Partners /\ a.revision \in Nat /\ a # NoPartner
  BY PageAssumption DEF NoPartner, Snapshot

LEMMA SentFacts ==
    ASSUME NEW kind \in {"load", "update", "reload"}, NEW v \in Nat, NEW p \in Partners,
           NEW status \in 0 .. 3
    PROVE  LET r == Sent(kind, v, p, status)
           IN  /\ r \in Request
               /\ r.kind = kind /\ r.visit = v /\ r.id = p /\ r.status = status
               /\ r.stage = "sent" /\ r.answer = NoPartner
  BY DEF Sent, Request

LEMMA AppendFacts ==
    ASSUME NEW s \in Seq(Request), NEW r \in Request
    PROVE  /\ Append(s, r) \in Seq(Request)
           /\ Len(s) + 1 \notin DOMAIN s
           /\ DOMAIN Append(s, r) = DOMAIN s \cup {Len(s) + 1}
           /\ Append(s, r)[Len(s) + 1] = r
           /\ \A m \in DOMAIN s : Append(s, r)[m] = s[m]
  <1>1. /\ Len(s) \in Nat /\ DOMAIN s = 1 .. Len(s)
        /\ Append(s, r) \in Seq(Request)
        /\ Len(Append(s, r)) = Len(s) + 1
        /\ DOMAIN Append(s, r) = 1 .. Len(s) + 1
    OBVIOUS
  <1>2. Append(s, r)[Len(s) + 1] = r /\ \A m \in 1 .. Len(s) : Append(s, r)[m] = s[m]
    OBVIOUS
  <1> QED
    BY <1>1, <1>2

\* One request replaced by another.
LEMMA ReplaceFacts ==
    ASSUME NEW s \in Seq(Request), NEW n \in DOMAIN s, NEW r \in Request
    PROVE  LET t == [s EXCEPT ![n] = r]
           IN  /\ t \in Seq(Request) /\ Len(t) = Len(s) /\ DOMAIN t = DOMAIN s
               /\ t[n] = r
               /\ \A m \in DOMAIN s \ {n} : t[m] = s[m]
  OBVIOUS

LEMMA RequestFacts ==
    ASSUME TypeOK, NEW n \in DOMAIN requests
    PROVE  /\ requests[n] \in Request
           /\ requests[n].kind \in {"load", "update", "reload"} /\ requests[n].visit \in Nat
           /\ requests[n].id \in Partners /\ requests[n].status \in 0 .. 3
           /\ requests[n].stage \in {"sent", "ok", "failed", "over"}
           /\ requests[n].answer \in Snapshot \cup {NoPartner}
           /\ requests[n].answer.revision \in Nat
  <1>1. requests[n] \in Request
    BY DEF TypeOK
  <1> QED
    BY <1>1, NoPartnerFacts DEF Request

LEMMA StageFacts ==
    ASSUME TypeOK, NEW n \in DOMAIN requests, NEW stage \in {"ok", "failed"},
           NEW answer \in Snapshot \cup {NoPartner}, Stage(n, stage, answer)
    PROVE  /\ requests' \in Seq(Request) /\ DOMAIN requests' = DOMAIN requests
           /\ \A m \in DOMAIN requests :
                 /\ requests'[m].kind = requests[m].kind /\ requests'[m].visit = requests[m].visit
                 /\ requests'[m].id = requests[m].id /\ requests'[m].status = requests[m].status
           /\ requests'[n].stage = stage /\ requests'[n].answer = answer
           /\ \A m \in DOMAIN requests \ {n} : requests'[m] = requests[m]
  <1> DEFINE r == [requests[n] EXCEPT !.stage = stage, !.answer = answer]
  <1>1. requests[n] \in Request /\ requests \in Seq(Request)
    BY RequestFacts DEF TypeOK
  <1>2. /\ r \in Request /\ r.kind = requests[n].kind /\ r.visit = requests[n].visit
        /\ r.id = requests[n].id /\ r.status = requests[n].status
        /\ r.stage = stage /\ r.answer = answer
    BY <1>1 DEF Request
  <1>3. requests' = [requests EXCEPT ![n] = r]
    BY DEF Stage
  <1> HIDE DEF r
  <1> QED
    BY <1>1, <1>2, <1>3, ReplaceFacts

LEMMA OverFacts ==
    ASSUME TypeOK, NEW n \in DOMAIN requests
    PROVE  /\ Over(n) \in Seq(Request) /\ DOMAIN Over(n) = DOMAIN requests
           /\ Len(Over(n)) = Len(requests)
           /\ \A m \in DOMAIN requests :
                 /\ Over(n)[m].kind = requests[m].kind /\ Over(n)[m].visit = requests[m].visit
                 /\ Over(n)[m].id = requests[m].id /\ Over(n)[m].status = requests[m].status
           /\ Over(n)[n].stage = "over"
           /\ Over(n)[n].answer = IF requests[n].kind = "update" THEN requests[n].answer ELSE NoPartner
           /\ \A m \in DOMAIN requests \ {n} : Over(n)[m] = requests[m]
  <1> DEFINE a == IF requests[n].kind = "update" THEN requests[n].answer ELSE NoPartner
             r == [requests[n] EXCEPT !.stage = "over", !.answer = a]
  <1>1. requests[n] \in Request /\ requests \in Seq(Request) /\ a \in Snapshot \cup {NoPartner}
    BY RequestFacts DEF TypeOK
  <1>2. /\ r \in Request /\ r.kind = requests[n].kind /\ r.visit = requests[n].visit
        /\ r.id = requests[n].id /\ r.status = requests[n].status
        /\ r.stage = "over" /\ r.answer = a
    <2> HIDE DEF a
    <2> QED
      BY <1>1 DEF Request
  <1>3. Over(n) = [requests EXCEPT ![n] = r]
    BY DEF Over
  <1> HIDE DEF r
  <1> QED
    BY <1>1, <1>2, <1>3, ReplaceFacts

-----------------------------------------------------------------------------
(* The API answers a request.                                              *)

LEMMA AnsweredStep ==
    ASSUME IInv, NEW n \in DOMAIN requests, requests[n].stage = "sent",
           NEW stage \in {"ok", "failed"}, NEW answer \in Snapshot \cup {NoPartner},
           Stage(n, stage, answer),
           stored' \in [Partners -> [status: Statuses, revision: Nat]],
           \A p \in Partners : stored'[p].revision >= stored[p].revision,
           stage = "failed" => answer = NoPartner,
           stage = "ok" => /\ answer # NoPartner /\ answer.id = requests[n].id
                           /\ answer.revision = stored'[requests[n].id].revision,
           requests[n].kind # "update" => stored' = stored,
           UNCHANGED <<edits, route, visit, jumped, page>>
    PROVE  IInv'
  <1> TypeOK
    BY DEF IInv
  <1>1. /\ requests' \in Seq(Request) /\ DOMAIN requests' = DOMAIN requests
        /\ \A m \in DOMAIN requests :
              /\ requests'[m].kind = requests[m].kind /\ requests'[m].visit = requests[m].visit
              /\ requests'[m].id = requests[m].id /\ requests'[m].status = requests[m].status
        /\ requests'[n].stage = stage /\ requests'[n].answer = answer
        /\ \A m \in DOMAIN requests \ {n} : requests'[m] = requests[m]
    BY StageFacts
  <1>2. /\ route' = route /\ visit' = visit /\ jumped' = jumped /\ edits' = edits
        /\ partner' = partner /\ error' = error /\ busy' = busy
    BY DEF page
  <1>3. \A m \in DOMAIN requests :
           /\ Current(m)' <=> Current(m)
           /\ UnderWay(m)' <=> UnderWay(m)
           /\ Awaited(m)' <=> Awaited(m)
           /\ Changing(m)' <=> Changing(m)
    BY <1>1, <1>2 DEF Current, Mounted, UnderWay, Awaited, Changing
  <1>4. (Mounted' <=> Mounted) /\ (ByLink' <=> ByLink)
    BY <1>2 DEF Mounted, ByLink
  <1>5. \A p \in Partners : stored[p].revision \in Nat /\ stored'[p].revision \in Nat
    BY DEF TypeOK
  <1>6. /\ requests[n].id \in Partners /\ answer.revision \in Nat
        /\ \A m \in DOMAIN requests : requests[m].id \in Partners /\ requests[m].answer.revision \in Nat
    BY RequestFacts, NoPartnerFacts
  <1>7. partner.revision \in Nat /\ NoPartner.revision = 0 /\ (route # None => route \in Partners)
    BY NoPartnerFacts DEF TypeOK
  <1>8. TypeOK'
    BY <1>1, <1>2 DEF TypeOK
  <1>9. VisitsPast'
    BY <1>1, <1>2 DEF IInv, VisitsPast
  <1>10. FreshWhenUnmounted'
    BY <1>2, <1>4 DEF IInv, FreshWhenUnmounted
  <1>11. UpdatesHaveStatus'
    BY <1>1 DEF IInv, UpdatesHaveStatus
  <1>12. AnswersAreTrue'
    <2>1. \A m \in DOMAIN requests \ {n} :
             /\ requests'[m].stage = "ok" => requests'[m].answer # NoPartner
             /\ requests'[m].stage \in {"sent", "failed"} => requests'[m].answer = NoPartner
             /\ requests'[m].answer # NoPartner =>
                   /\ requests'[m].answer.id = requests'[m].id
                   /\ requests'[m].answer.revision <= stored'[requests'[m].id].revision
      BY <1>1, <1>5, <1>6 DEF IInv, AnswersAreTrue
    <2>2. /\ stage = "ok" => answer # NoPartner
          /\ stage \in {"sent", "failed"} => answer = NoPartner
          /\ answer # NoPartner =>
                answer.id = requests[n].id /\ answer.revision <= stored'[requests[n].id].revision
      BY <1>5, <1>6
    <2> QED
      BY <1>1, <2>1, <2>2 DEF AnswersAreTrue
  <1>13. OneChange'
    BY <1>1, <1>2, <1>3 DEF IInv, OneChange
  <1>14. OwnPartner'
    <2> SUFFICES ASSUME ByLink
                 PROVE  /\ \A m \in DOMAIN requests : Current(m) => requests[m].id = route
                        /\ partner # NoPartner =>
                              partner.id = route /\ partner.revision <= stored'[route].revision
      BY <1>1, <1>2, <1>3, <1>4 DEF OwnPartner
    <2>1. route \in Partners
      BY <1>7 DEF ByLink, Mounted
    <2> QED
      BY <1>5, <1>7, <2>1 DEF IInv, OwnPartner
  <1>15. OneAtATime'
    BY <1>1, <1>2, <1>3, <1>4 DEF IInv, OneAtATime
  <1>16. LoadsAreNewer'
    <2> SUFFICES ASSUME ByLink, NEW m \in DOMAIN requests, Current(m),
                        requests'[m].stage = "ok", requests[m].kind # "update"
                 PROVE  /\ requests'[m].answer.revision >= partner.revision
                        /\ \A k \in DOMAIN requests : Current(k) /\ requests[k].kind = "update" =>
                              requests'[m].answer.revision >= requests'[k].answer.revision
      BY <1>1, <1>2, <1>3, <1>4 DEF LoadsAreNewer
    <2>1. CASE m = n
      <3>1. /\ requests'[m].answer = answer /\ stored' = stored /\ answer # NoPartner
            /\ requests[n].id = route
            /\ answer.revision = stored[route].revision
        BY <1>1, <2>1 DEF IInv, OwnPartner
      <3>2. answer.revision >= partner.revision
        BY <1>5, <1>6, <1>7, <3>1 DEF IInv, OwnPartner
      <3>3. ASSUME NEW k \in DOMAIN requests, Current(k), requests[k].kind = "update"
            PROVE  answer.revision >= requests'[k].answer.revision
        <4>1. k # n /\ requests'[k] = requests[k] /\ requests[k].id = route
          BY <1>1, <2>1, <3>3 DEF IInv, OwnPartner
        <4>2. requests[k].answer # NoPartner => requests[k].answer.revision <= stored[route].revision
          BY <4>1 DEF IInv, AnswersAreTrue
        <4> QED
          BY <1>6, <1>7, <3>1, <4>1, <4>2
      <3> QED
        BY <3>1, <3>2, <3>3
    <2>2. CASE m # n
      <3>1. requests'[m] = requests[m] /\ Awaited(m) /\ ~Awaited(n) /\ ~Current(n)
        BY <1>1, <2>2 DEF IInv, OneAtATime, Awaited, UnderWay
      <3>2. \A k \in DOMAIN requests : Current(k) => requests'[k] = requests[k]
        BY <1>1, <3>1
      <3> QED
        BY <3>1, <3>2 DEF IInv, LoadsAreNewer
    <2> QED
      BY <2>1, <2>2
  <1>17. OutdatedOnlyWhileWaiting'
    <2> SUFFICES ASSUME ByLink, ~error
                 PROVE  /\ partner = NoPartner => \E m \in DOMAIN requests : Awaited(m)
                        /\ \A k \in DOMAIN requests : Current(k) /\ requests[k].kind = "update" =>
                              partner.revision >= requests'[k].answer.revision
                                 \/ \E m \in DOMAIN requests : Changing(m)
      BY <1>1, <1>2, <1>3, <1>4 DEF OutdatedOnlyWhileWaiting
    <2>1. ASSUME NEW k \in DOMAIN requests, Current(k), requests[k].kind = "update"
          PROVE  partner.revision >= requests'[k].answer.revision \/ \E m \in DOMAIN requests : Changing(m)
      <3>1. CASE k = n
        BY <2>1, <3>1 DEF Changing, Awaited, UnderWay
      <3>2. CASE k # n
        BY <1>1, <2>1, <3>2 DEF IInv, OutdatedOnlyWhileWaiting
      <3> QED
        BY <3>1, <3>2
    <2> QED
      BY <2>1 DEF IInv, OutdatedOnlyWhileWaiting
  <1> QED
    BY <1>8, <1>9, <1>10, <1>11, <1>12, <1>13, <1>14, <1>15, <1>16, <1>17 DEF IInv

LEMMA ServeInv ==
    ASSUME IInv, NEW n \in DOMAIN requests,
           ServeGetPartner(n) \/ ServeUpdatePartnerStatus(n) \/ FailRequest(n)
    PROVE  IInv'
  <1> TypeOK
    BY DEF IInv
  <1> DEFINE p == requests[n].id
  <1>1. /\ p \in Partners /\ stored[p].status \in Statuses /\ stored[p].revision \in Nat
        /\ NoPartner \in Snapshot \cup {NoPartner}
    BY RequestFacts DEF TypeOK
  <1>2. CASE ServeGetPartner(n)
    <2>1. PICK a : a = [id |-> p, status |-> stored[p].status, revision |-> stored[p].revision]
      OBVIOUS
    <2>2. a \in Snapshot /\ a.id = p /\ a.revision = stored[p].revision /\ a # NoPartner
      <3>1. a \in Snapshot /\ a.id = p /\ a.revision = stored[p].revision
        BY <1>1, <2>1 DEF Snapshot
      <3> QED
        BY <3>1, NoPartnerFacts
    <2>3. requests[n].stage = "sent" /\ Stage(n, "ok", a) /\ stored' = stored
      BY <1>2, <2>1 DEF ServeGetPartner
    <2>4. /\ stored' \in [Partners -> [status: Statuses, revision: Nat]]
          /\ \A q \in Partners : stored'[q].revision >= stored[q].revision
      BY <2>3 DEF TypeOK
    <2> HIDE DEF p
    <2> QED
      BY <1>2, <2>2, <2>3, <2>4, AnsweredStep DEF ServeGetPartner, p
  <1>3. CASE ServeUpdatePartnerStatus(n)
    <2>1. PICK row : row = Changed(p, requests[n].status)
      OBVIOUS
    <2>2. /\ row \in [status: Statuses, revision: Nat] /\ row.revision = stored[p].revision + 1
          /\ row.status \in Statuses
      <3>1. requests[n].status \in Statuses
        BY <1>3 DEF ServeUpdatePartnerStatus, IInv, UpdatesHaveStatus
      <3> QED
        BY <1>1, <2>1, <3>1 DEF Changed
    <2>3. PICK a : a = [id |-> p, status |-> row.status, revision |-> row.revision]
      OBVIOUS
    <2>4. a \in Snapshot /\ a.id = p /\ a.revision = row.revision /\ a # NoPartner
      <3>1. a \in Snapshot /\ a.id = p /\ a.revision = row.revision
        BY <1>1, <2>2, <2>3 DEF Snapshot
      <3> QED
        BY <3>1, NoPartnerFacts
    <2>5. /\ requests[n].stage = "sent" /\ requests[n].kind = "update"
          /\ stored' = [stored EXCEPT ![p] = row]
          /\ Stage(n, "ok", a) \/ Stage(n, "failed", NoPartner)
          /\ UNCHANGED <<edits, route, visit, jumped, page>>
      BY <1>3, <2>1, <2>3 DEF ServeUpdatePartnerStatus
    <2> HIDE DEF p
    <2>6. /\ stored' \in [Partners -> [status: Statuses, revision: Nat]]
          /\ stored'[p] = row
          /\ \A q \in Partners : stored'[q].revision >= stored[q].revision
      <3>1. stored \in [Partners -> [status: Statuses, revision: Nat]]
        BY DEF TypeOK
      <3> QED
        BY <1>1, <2>2, <2>5, <3>1
    <2>7. CASE Stage(n, "ok", a)
      BY <2>4, <2>5, <2>6, <2>7, AnsweredStep DEF p
    <2>8. CASE Stage(n, "failed", NoPartner)
      BY <1>1, <2>5, <2>6, <2>8, AnsweredStep
    <2> QED
      BY <2>5, <2>7, <2>8
  <1>4. CASE FailRequest(n)
    <2>1. /\ stored' \in [Partners -> [status: Statuses, revision: Nat]]
          /\ \A q \in Partners : stored'[q].revision >= stored[q].revision
      BY <1>4 DEF TypeOK, FailRequest
    <2> QED
      BY <1>1, <1>4, <2>1, AnsweredStep DEF FailRequest
  <1> QED
    BY <1>2, <1>3, <1>4

-----------------------------------------------------------------------------
(* The page learns the answer.                                             *)

\* A load, or a change with its reload, is over.
LEMMA FinishedStep ==
    ASSUME IInv, NEW n \in DOMAIN requests, requests[n].stage \in {"ok", "failed"},
           requests[n].kind = "update" => requests[n].stage = "failed",
           requests' = Over(n),
           partner' = IF Current(n) /\ requests[n].stage = "ok" THEN requests[n].answer ELSE partner,
           error' = (error \/ (Current(n) /\ requests[n].stage = "failed")),
           busy' = IF Current(n) /\ requests[n].kind # "load" THEN FALSE ELSE busy,
           UNCHANGED <<stored, edits, route, visit, jumped>>
    PROVE  IInv'
  <1> TypeOK
    BY DEF IInv
  <1>1. /\ requests' \in Seq(Request) /\ DOMAIN requests' = DOMAIN requests
        /\ \A m \in DOMAIN requests :
              /\ requests'[m].kind = requests[m].kind /\ requests'[m].visit = requests[m].visit
              /\ requests'[m].id = requests[m].id /\ requests'[m].status = requests[m].status
        /\ requests'[n].stage = "over"
        /\ requests'[n].answer = IF requests[n].kind = "update" THEN requests[n].answer ELSE NoPartner
        /\ \A m \in DOMAIN requests \ {n} : requests'[m] = requests[m]
    BY OverFacts
  <1>2. /\ \A m \in DOMAIN requests : Current(m)' <=> Current(m)
        /\ \A m \in DOMAIN requests \ {n} :
              /\ UnderWay(m)' <=> UnderWay(m)
              /\ Awaited(m)' <=> Awaited(m)
              /\ Changing(m)' <=> Changing(m)
        /\ ~Awaited(n)' /\ ~Changing(n)'
    BY <1>1 DEF Current, Mounted, UnderWay, Awaited, Changing
  <1>3. /\ Awaited(n) <=> Current(n)
        /\ Changing(n) <=> Current(n) /\ requests[n].kind # "load"
    BY DEF Awaited, Changing, UnderWay
  <1>4. (Mounted' <=> Mounted) /\ (ByLink' <=> ByLink)
    BY DEF Mounted, ByLink
  <1>5. /\ requests[n].id \in Partners /\ requests[n].answer \in Snapshot \cup {NoPartner}
        /\ requests[n].stage = "ok" => requests[n].answer # NoPartner
    BY RequestFacts DEF IInv, AnswersAreTrue
  <1>6. Current(n) => Mounted
    BY DEF Current
  <1>7. TypeOK'
    BY <1>1, <1>5 DEF TypeOK
  <1>8. VisitsPast'
    BY <1>1 DEF IInv, VisitsPast
  <1>9. FreshWhenUnmounted'
    BY <1>4, <1>6 DEF IInv, FreshWhenUnmounted
  <1>10. UpdatesHaveStatus'
    BY <1>1 DEF IInv, UpdatesHaveStatus
  <1>11. AnswersAreTrue'
    <2>1. \A m \in DOMAIN requests \ {n} :
             /\ requests'[m].stage = "ok" => requests'[m].answer # NoPartner
             /\ requests'[m].stage \in {"sent", "failed"} => requests'[m].answer = NoPartner
             /\ requests'[m].answer # NoPartner =>
                   /\ requests'[m].answer.id = requests'[m].id
                   /\ requests'[m].answer.revision <= stored'[requests'[m].id].revision
      BY <1>1 DEF IInv, AnswersAreTrue
    <2>2. requests'[n].answer # NoPartner => requests'[n].answer = requests[n].answer
      BY <1>1
    <2>3. requests[n].answer # NoPartner =>
             /\ requests[n].answer.id = requests[n].id
             /\ requests[n].answer.revision <= stored[requests[n].id].revision
      BY DEF IInv, AnswersAreTrue
    <2>4. requests'[n].answer # NoPartner =>
             /\ requests'[n].answer.id = requests'[n].id
             /\ requests'[n].answer.revision <= stored'[requests'[n].id].revision
      BY <1>1, <2>2, <2>3
    <2> QED
      BY <1>1, <2>1, <2>4 DEF AnswersAreTrue
  <1>12. OneChange'
    <2>1. CASE Current(n) /\ requests[n].kind # "load"
      <3>1. \A m \in DOMAIN requests : ~Changing(m)'
        BY <1>2, <1>3, <2>1 DEF IInv, OneChange
      <3> QED
        BY <1>1, <2>1, <3>1 DEF OneChange
    <2>2. CASE ~(Current(n) /\ requests[n].kind # "load")
      <3>1. \A m \in DOMAIN requests : Changing(m)' <=> Changing(m)
        BY <1>2, <1>3, <2>2
      <3>2. busy' <=> busy
        BY <2>2
      <3>3. /\ busy <=> \E m \in DOMAIN requests : Changing(m)
            /\ \A m, k \in DOMAIN requests : Changing(m) /\ Changing(k) => m = k
        BY DEF IInv, OneChange
      <3>4. /\ busy' <=> \E m \in DOMAIN requests : Changing(m)'
            /\ \A m, k \in DOMAIN requests : Changing(m)' /\ Changing(k)' => m = k
        BY <3>1, <3>2, <3>3
      <3> QED
        BY <1>1, <3>4 DEF OneChange
    <2> QED
      BY <2>1, <2>2
  <1>13. OwnPartner'
    <2> SUFFICES ASSUME ByLink
                 PROVE  /\ \A m \in DOMAIN requests : Current(m) => requests[m].id = route
                        /\ partner' # NoPartner =>
                              partner'.id = route /\ partner'.revision <= stored[route].revision
      BY <1>1, <1>2, <1>4 DEF OwnPartner
    <2>1. CASE Current(n) /\ requests[n].stage = "ok"
      <3>1. partner' = requests[n].answer /\ requests[n].id = route
        BY <2>1 DEF IInv, OwnPartner
      <3> QED
        BY <1>5, <2>1, <3>1 DEF IInv, OwnPartner, AnswersAreTrue
    <2>2. CASE ~(Current(n) /\ requests[n].stage = "ok")
      BY <2>2 DEF IInv, OwnPartner
    <2> QED
      BY <2>1, <2>2
  <1>14. ASSUME ByLink, Current(n), NEW m \in DOMAIN requests
         PROVE  ~Awaited(m)'
    BY <1>2, <1>3, <1>14 DEF IInv, OneAtATime
  <1>15. OneAtATime'
    <2>1. ASSUME ByLink, NEW m \in DOMAIN requests, Awaited(m)'
          PROVE  Awaited(m) /\ partner' = partner
      BY <1>2, <1>14, <2>1
    <2> QED
      BY <1>1, <1>4, <2>1 DEF IInv, OneAtATime
  <1>16. LoadsAreNewer'
    <2> SUFFICES ASSUME ByLink, NEW m \in DOMAIN requests, Current(m),
                        requests'[m].stage = "ok", requests[m].kind # "update"
                 PROVE  /\ requests'[m].answer.revision >= partner'.revision
                        /\ \A k \in DOMAIN requests : Current(k) /\ requests[k].kind = "update" =>
                              requests'[m].answer.revision >= requests'[k].answer.revision
      BY <1>1, <1>2, <1>4 DEF LoadsAreNewer
    <2>1. m # n /\ Awaited(m)'
      BY <1>1, <1>2 DEF Awaited, UnderWay
    <2>2. ~Current(n)
      BY <1>14, <2>1
    <2>3. partner' = partner /\ \A k \in DOMAIN requests : Current(k) => requests'[k] = requests[k]
      BY <1>1, <2>2
    <2> QED
      BY <2>3 DEF IInv, LoadsAreNewer
  <1>17. OutdatedOnlyWhileWaiting'
    <2> SUFFICES ASSUME ByLink, ~error'
                 PROVE  /\ partner' = NoPartner => \E m \in DOMAIN requests : Awaited(m)'
                        /\ \A k \in DOMAIN requests : Current(k) /\ requests[k].kind = "update" =>
                              partner'.revision >= requests'[k].answer.revision
                                 \/ \E m \in DOMAIN requests : Changing(m)'
      BY <1>1, <1>2, <1>4 DEF OutdatedOnlyWhileWaiting
    <2>0. ~error
      OBVIOUS
    <2>1. CASE Current(n)
      <3>1. requests[n].stage = "ok" /\ partner' = requests[n].answer /\ requests[n].kind # "update"
        BY <2>1
      <3>2. ASSUME NEW k \in DOMAIN requests, Current(k), requests[k].kind = "update"
            PROVE  partner'.revision >= requests'[k].answer.revision
        <4>1. k # n /\ requests'[k] = requests[k]
          BY <1>1, <3>1, <3>2
        <4> QED
          BY <2>1, <3>1, <3>2, <4>1 DEF IInv, LoadsAreNewer
      <3> QED
        BY <1>5, <3>1, <3>2
    <2>2. CASE ~Current(n)
      <3>1. /\ partner' = partner
            /\ \A k \in DOMAIN requests :
                  /\ Current(k) => requests'[k] = requests[k]
                  /\ Awaited(k)' <=> Awaited(k)
                  /\ Changing(k)' <=> Changing(k)
        BY <1>1, <1>2, <1>3, <2>2
      <3> QED
        BY <2>0, <3>1 DEF IInv, OutdatedOnlyWhileWaiting
    <2> QED
      BY <2>1, <2>2
  <1> QED
    BY <1>7, <1>8, <1>9, <1>10, <1>11, <1>12, <1>13, <1>15, <1>16, <1>17 DEF IInv

LEMMA ReturnInv ==
    ASSUME IInv, NEW n \in DOMAIN requests, LoadReturns(n) \/ UpdateFails(n) \/ ReloadReturns(n)
    PROVE  IInv'
  <1>1. error \in BOOLEAN
    BY DEF IInv, TypeOK
  <1>2. CASE LoadReturns(n)
    <2>1. /\ requests[n].stage \in {"ok", "failed"} /\ requests[n].kind = "load" /\ requests' = Over(n)
          /\ UNCHANGED <<stored, edits, route, visit, jumped, busy>>
      BY <1>2 DEF LoadReturns
    <2>2. /\ partner' = IF Current(n) /\ requests[n].stage = "ok" THEN requests[n].answer ELSE partner
          /\ error' = (error \/ (Current(n) /\ requests[n].stage = "failed"))
      BY <1>1, <1>2, <2>1 DEF LoadReturns, Show
    <2>3. busy' = IF Current(n) /\ requests[n].kind # "load" THEN FALSE ELSE busy
      BY <2>1
    <2> QED
      BY <2>1, <2>2, <2>3, FinishedStep
  <1>3. CASE UpdateFails(n)
    <2>1. /\ requests[n].stage = "failed" /\ requests[n].kind = "update" /\ requests' = Over(n)
          /\ partner' = partner /\ error' = (error \/ Current(n))
          /\ busy' = IF Current(n) THEN FALSE ELSE busy
          /\ UNCHANGED <<stored, edits, route, visit, jumped>>
      BY <1>3 DEF UpdateFails, NoLongerBusy
    <2> QED
      BY <2>1, FinishedStep
  <1>4. CASE ReloadReturns(n)
    <2>1. /\ requests[n].stage \in {"ok", "failed"} /\ requests[n].kind = "reload" /\ requests' = Over(n)
          /\ busy' = IF Current(n) THEN FALSE ELSE busy
          /\ UNCHANGED <<stored, edits, route, visit, jumped>>
      BY <1>4 DEF ReloadReturns, NoLongerBusy
    <2>2. /\ partner' = IF Current(n) /\ requests[n].stage = "ok" THEN requests[n].answer ELSE partner
          /\ error' = (error \/ (Current(n) /\ requests[n].stage = "failed"))
      BY <1>1, <1>4, <2>1 DEF ReloadReturns, Show
    <2> QED
      BY <2>1, <2>2, FinishedStep
  <1> QED
    BY <1>2, <1>3, <1>4

\* A change succeeded: its reload takes its place.
LEMMA UpdateSucceedsInv ==
    ASSUME IInv, NEW n \in DOMAIN requests, UpdateSucceeds(n)
    PROVE  IInv'
  <1> TypeOK
    BY DEF IInv
  <1>k. PICK k : k = Len(requests) + 1
    OBVIOUS
  <1>0. PICK q : q = Sent("reload", requests[n].visit, requests[n].id, 0)
    OBVIOUS
  <1>1. /\ requests[n].kind = "update" /\ requests[n].stage = "ok"
        /\ requests' = Append(Over(n), q)
        /\ stored' = stored /\ edits' = edits /\ route' = route /\ visit' = visit /\ jumped' = jumped
        /\ partner' = partner /\ error' = error /\ busy' = busy
    BY <1>0 DEF UpdateSucceeds, page
  <1>2. /\ q \in Request /\ q.kind = "reload" /\ q.visit = requests[n].visit /\ q.id = requests[n].id
        /\ q.stage = "sent" /\ q.answer = NoPartner
    BY <1>0, RequestFacts, SentFacts
  <1>3. /\ requests' \in Seq(Request)
        /\ k \notin DOMAIN requests /\ DOMAIN requests' = DOMAIN requests \cup {k}
        /\ requests'[k] = q
        /\ \A m \in DOMAIN requests : requests'[m] = Over(n)[m]
    BY <1>k, <1>1, <1>2, OverFacts, AppendFacts
  <1>4. /\ \A m \in DOMAIN requests :
              /\ requests'[m].kind = requests[m].kind /\ requests'[m].visit = requests[m].visit
              /\ requests'[m].id = requests[m].id /\ requests'[m].status = requests[m].status
        /\ requests'[n].stage = "over"
        /\ requests'[n].answer = requests[n].answer
        /\ \A m \in DOMAIN requests \ {n} : requests'[m] = requests[m]
    BY <1>1, <1>3, OverFacts
  <1>5. /\ \A m \in DOMAIN requests : Current(m)' <=> Current(m)
        /\ \A m \in DOMAIN requests \ {n} :
              /\ Awaited(m)' <=> Awaited(m)
              /\ Changing(m)' <=> Changing(m)
        /\ ~Awaited(n)' /\ ~Changing(n)'
        /\ Current(k)' <=> Current(n)
        /\ Awaited(k)' <=> Current(n)
        /\ Changing(k)' <=> Current(n)
    BY <1>1, <1>2, <1>3, <1>4 DEF Current, Mounted, UnderWay, Awaited, Changing
  <1>6. (Awaited(n) <=> Current(n)) /\ (Changing(n) <=> Current(n))
    BY <1>1 DEF Awaited, Changing, UnderWay
  <1>7. (Mounted' <=> Mounted) /\ (ByLink' <=> ByLink)
    BY <1>1 DEF Mounted, ByLink
  <1>8. TypeOK'
    BY <1>1, <1>3 DEF TypeOK
  <1>9. VisitsPast'
    BY <1>1, <1>2, <1>3, <1>4 DEF IInv, VisitsPast
  <1>10. FreshWhenUnmounted'
    BY <1>1, <1>7 DEF IInv, FreshWhenUnmounted
  <1>11. UpdatesHaveStatus'
    BY <1>2, <1>3, <1>4 DEF IInv, UpdatesHaveStatus
  <1>12. AnswersAreTrue'
    <2>1. ASSUME NEW m \in DOMAIN requests
          PROVE  /\ requests'[m].stage = "ok" => requests'[m].answer # NoPartner
                 /\ requests'[m].stage \in {"sent", "failed"} => requests'[m].answer = NoPartner
                 /\ requests'[m].answer # NoPartner =>
                       /\ requests'[m].answer.id = requests'[m].id
                       /\ requests'[m].answer.revision <= stored'[requests'[m].id].revision
      <3>1. CASE m = n
        BY <1>1, <1>4, <3>1 DEF IInv, AnswersAreTrue
      <3>2. CASE m # n
        <4>1. requests'[m] = requests[m] /\ stored' = stored
          BY <1>1, <1>4, <3>2
        <4> QED
          BY <4>1 DEF IInv, AnswersAreTrue
      <3> QED
        BY <3>1, <3>2
    <2>2. requests'[k].stage = "sent" /\ requests'[k].answer = NoPartner
      BY <1>2, <1>3
    <2> QED
      BY <1>3, <2>1, <2>2 DEF AnswersAreTrue
  <1>13. OneChange'
    <2>1. /\ busy <=> \E m \in DOMAIN requests : Changing(m)
          /\ \A m, o \in DOMAIN requests : Changing(m) /\ Changing(o) => m = o
      BY DEF IInv, OneChange
    <2>2. CASE Current(n)
      <3>1. \A m \in DOMAIN requests' : Changing(m)' <=> m = k
        BY <1>3, <1>5, <1>6, <2>1, <2>2
      <3>2. busy'
        BY <1>1, <1>6, <2>1, <2>2
      <3> QED
        BY <1>3, <3>1, <3>2 DEF OneChange
    <2>3. CASE ~Current(n)
      <3>1. /\ \A m \in DOMAIN requests : Changing(m)' <=> Changing(m)
            /\ ~Changing(k)'
        BY <1>5, <1>6, <2>3
      <3>2. /\ busy <=> \E m \in DOMAIN requests' : Changing(m)'
            /\ \A m, o \in DOMAIN requests' : Changing(m)' /\ Changing(o)' => m = o
        BY <1>3, <2>1, <3>1
      <3>3. busy' <=> busy
        BY <1>1
      <3> QED
        BY <3>2, <3>3 DEF OneChange
    <2> QED
      BY <2>2, <2>3
  <1>14. OwnPartner'
    BY <1>1, <1>2, <1>3, <1>4, <1>5, <1>7 DEF IInv, OwnPartner
  <1>15. ASSUME ByLink, Current(n), NEW m \in DOMAIN requests'
         PROVE  Awaited(m)' <=> m = k
    BY <1>3, <1>5, <1>6, <1>15 DEF IInv, OneAtATime
  <1>16. ~Current(n) => ~Awaited(k)' /\ \A m \in DOMAIN requests : Awaited(m)' <=> Awaited(m)
    BY <1>5, <1>6
  <1>17. OneAtATime'
    <2>1. CASE Current(n)
      <3>1. requests'[k].kind # "load"
        BY <1>2, <1>3
      <3> QED
        BY <1>7, <1>15, <2>1, <3>1 DEF OneAtATime
    <2>2. CASE ~Current(n)
      BY <1>1, <1>3, <1>4, <1>7, <1>16, <2>2 DEF IInv, OneAtATime
    <2> QED
      BY <2>1, <2>2
  <1>18. LoadsAreNewer'
    <2> SUFFICES ASSUME ByLink, NEW m \in DOMAIN requests', Current(m)',
                        requests'[m].stage = "ok", requests'[m].kind # "update"
                 PROVE  /\ requests'[m].answer.revision >= partner'.revision
                        /\ \A o \in DOMAIN requests' : Current(o)' /\ requests'[o].kind = "update" =>
                              requests'[m].answer.revision >= requests'[o].answer.revision
      BY <1>7 DEF LoadsAreNewer
    <2>1. m # k /\ m # n /\ m \in DOMAIN requests /\ requests'[m] = requests[m] /\ Current(m)
      BY <1>2, <1>3, <1>4, <1>5
    <2>2. \A o \in DOMAIN requests' : Current(o)' /\ requests'[o].kind = "update" =>
             o \in DOMAIN requests /\ Current(o) /\ requests[o].kind = "update"
                /\ requests'[o].answer = requests[o].answer
      BY <1>2, <1>3, <1>4, <1>5
    <2> QED
      BY <1>1, <2>1, <2>2 DEF IInv, LoadsAreNewer
  <1>19. OutdatedOnlyWhileWaiting'
    <2> SUFFICES ASSUME ByLink, ~error
                 PROVE  /\ partner = NoPartner => \E m \in DOMAIN requests' : Awaited(m)'
                        /\ \A o \in DOMAIN requests' : Current(o)' /\ requests'[o].kind = "update" =>
                              partner.revision >= requests'[o].answer.revision
                                 \/ \E m \in DOMAIN requests' : Changing(m)'
      BY <1>1, <1>7 DEF OutdatedOnlyWhileWaiting
    <2>1. CASE Current(n)
      BY <1>3, <1>5, <2>1
    <2>2. CASE ~Current(n)
      <3>1. /\ \A m \in DOMAIN requests : Awaited(m)' <=> Awaited(m)
            /\ \A m \in DOMAIN requests : Changing(m)' <=> Changing(m)
            /\ \A o \in DOMAIN requests' : Current(o)' =>
                  o \in DOMAIN requests /\ Current(o) /\ requests'[o] = requests[o]
        BY <1>3, <1>4, <1>5, <1>6, <2>2
      <3> QED
        BY <1>3, <3>1 DEF IInv, OutdatedOnlyWhileWaiting
    <2> QED
      BY <2>1, <2>2
  <1> QED
    BY <1>8, <1>9, <1>10, <1>11, <1>12, <1>13, <1>14, <1>17, <1>18, <1>19 DEF IInv

-----------------------------------------------------------------------------
(* The user, and others.                                                   *)

\* What sending a request adds.
LEMMA SendFacts ==
    ASSUME IInv, NEW q \in Request, Send(q), q.stage = "sent", q.answer = NoPartner,
           q.kind = "update" => q.status \in Statuses,
           visit' \in Nat, visit <= visit', q.visit <= visit', UNCHANGED stored
    PROVE  LET k == Len(requests) + 1
           IN  /\ requests' \in Seq(Request)
               /\ k \notin DOMAIN requests /\ DOMAIN requests' = DOMAIN requests \cup {k}
               /\ \A m \in DOMAIN requests : requests'[m] = requests[m]
               /\ requests'[k] = q
               /\ VisitsPast' /\ UpdatesHaveStatus' /\ AnswersAreTrue'
  <1>k. PICK k : k = Len(requests) + 1
    OBVIOUS
  <1>1. requests' = Append(requests, q) /\ requests \in Seq(Request) /\ visit \in Nat
    BY DEF Send, IInv, TypeOK
  <1>2. /\ requests' \in Seq(Request)
        /\ k \notin DOMAIN requests /\ DOMAIN requests' = DOMAIN requests \cup {k}
        /\ requests'[k] = q
        /\ \A m \in DOMAIN requests : requests'[m] = requests[m]
    BY <1>k, <1>1, AppendFacts
  <1>3. \A m \in DOMAIN requests : requests[m].visit \in Nat
    BY RequestFacts DEF IInv
  <1>4. VisitsPast'
    BY <1>1, <1>2, <1>3 DEF IInv, VisitsPast
  <1>5. UpdatesHaveStatus'
    BY <1>2 DEF IInv, UpdatesHaveStatus
  <1>6. AnswersAreTrue'
    BY <1>2 DEF IInv, AnswersAreTrue
  <1> QED
    BY <1>k, <1>2, <1>4, <1>5, <1>6

LEMMA OpenInv ==
    ASSUME IInv, NEW p \in Partners, Open(p)
    PROVE  IInv'
  <1>k. PICK k : k = Len(requests) + 1
    OBVIOUS
  <1>q. PICK q : q = Sent("load", visit + 1, p, 0)
    OBVIOUS
  <1>1. /\ ~Mounted /\ route' = p /\ visit' = visit + 1 /\ jumped' = FALSE
        /\ Send(q)
        /\ stored' = stored /\ edits' = edits /\ partner' = partner /\ error' = error /\ busy' = busy
    BY <1>q DEF Open, page
  <1>2. visit \in Nat /\ TypeOK /\ p # None /\ 0 \in 0 .. 3
    BY PageAssumption DEF IInv, TypeOK
  <1>r. /\ q \in Request /\ q.kind = "load" /\ q.visit = visit + 1 /\ q.id = p
        /\ q.stage = "sent" /\ q.answer = NoPartner
    BY <1>q, <1>2, SentFacts
  <1>3. /\ requests' \in Seq(Request)
        /\ k \notin DOMAIN requests /\ DOMAIN requests' = DOMAIN requests \cup {k}
        /\ \A m \in DOMAIN requests : requests'[m] = requests[m]
        /\ requests'[k].kind = "load" /\ requests'[k].visit = visit + 1 /\ requests'[k].id = p
        /\ requests'[k].stage = "sent" /\ requests'[k].answer = NoPartner
        /\ VisitsPast' /\ UpdatesHaveStatus' /\ AnswersAreTrue'
    <2>1. /\ visit' \in Nat /\ visit <= visit' /\ q.visit <= visit' /\ UNCHANGED stored
          /\ q.kind = "update" => q.status \in Statuses
      BY <1>1, <1>2, <1>r
    <2>2. /\ requests' \in Seq(Request)
          /\ k \notin DOMAIN requests /\ DOMAIN requests' = DOMAIN requests \cup {k}
          /\ \A m \in DOMAIN requests : requests'[m] = requests[m]
          /\ requests'[k] = q
          /\ VisitsPast' /\ UpdatesHaveStatus' /\ AnswersAreTrue'
      BY <1>k, <1>1, <1>r, <2>1, SendFacts
    <2> QED
      BY <1>r, <2>2
  <1>4. \A m \in DOMAIN requests' : Current(m)' <=> m = k
    <2>1. \A m \in DOMAIN requests : requests[m].visit \in Nat /\ requests[m].visit <= visit
      BY <1>2, RequestFacts DEF IInv, VisitsPast
    <2>2. \A m \in DOMAIN requests : requests'[m].visit # visit + 1
      BY <1>2, <1>3, <2>1
    <2> QED
      BY <1>1, <1>2, <1>3, <2>2 DEF Current, Mounted
  <1>5. \A m \in DOMAIN requests' : (Awaited(m)' <=> m = k) /\ ~Changing(m)'
    BY <1>3, <1>4 DEF Awaited, Changing, UnderWay
  <1>6. Mounted' /\ ByLink' /\ partner' = NoPartner /\ ~busy'
    BY <1>1, <1>2 DEF Mounted, ByLink, IInv, FreshWhenUnmounted
  <1>7. TypeOK'
    <2>1. requests' \in Seq(Request) /\ visit' \in Nat
      BY <1>1, <1>2, <1>3
    <2> QED
      BY <1>1, <1>2, <2>1 DEF TypeOK
  <1>8. FreshWhenUnmounted' /\ OneChange'
    BY <1>5, <1>6 DEF FreshWhenUnmounted, OneChange
  <1>9. OwnPartner' /\ OneAtATime'
    BY <1>1, <1>3, <1>4, <1>5, <1>6 DEF OwnPartner, OneAtATime
  <1>10. LoadsAreNewer'
    BY <1>3, <1>4 DEF LoadsAreNewer
  <1>11. OutdatedOnlyWhileWaiting'
    BY <1>3, <1>4, <1>5 DEF OutdatedOnlyWhileWaiting
  <1> QED
    BY <1>3, <1>7, <1>8, <1>9, <1>10, <1>11 DEF IInv

LEMMA JumpInv ==
    ASSUME IInv, NEW p \in Partners, Jump(p)
    PROVE  IInv'
  <1>k. PICK k : k = Len(requests) + 1
    OBVIOUS
  <1>q. PICK q : q = Sent("load", visit, p, 0)
    OBVIOUS
  <1>1. /\ Mounted /\ route' = p /\ visit' = visit /\ jumped' = TRUE
        /\ Send(q)
        /\ stored' = stored /\ edits' = edits /\ partner' = partner /\ error' = error /\ busy' = busy
    BY <1>q DEF Jump, page
  <1>2. visit \in Nat /\ TypeOK /\ p # None /\ 0 \in 0 .. 3
    BY PageAssumption DEF IInv, TypeOK
  <1>r. /\ q \in Request /\ q.kind = "load" /\ q.visit = visit /\ q.id = p
        /\ q.stage = "sent" /\ q.answer = NoPartner
    BY <1>q, <1>2, SentFacts
  <1>3. /\ requests' \in Seq(Request)
        /\ k \notin DOMAIN requests /\ DOMAIN requests' = DOMAIN requests \cup {k}
        /\ \A m \in DOMAIN requests : requests'[m] = requests[m]
        /\ requests'[k].kind = "load"
        /\ VisitsPast' /\ UpdatesHaveStatus' /\ AnswersAreTrue'
    <2>1. /\ visit' \in Nat /\ visit <= visit' /\ q.visit <= visit' /\ UNCHANGED stored
          /\ q.kind = "update" => q.status \in Statuses
      BY <1>1, <1>2, <1>r
    <2>2. /\ requests' \in Seq(Request)
          /\ k \notin DOMAIN requests /\ DOMAIN requests' = DOMAIN requests \cup {k}
          /\ \A m \in DOMAIN requests : requests'[m] = requests[m]
          /\ requests'[k] = q
          /\ VisitsPast' /\ UpdatesHaveStatus' /\ AnswersAreTrue'
      BY <1>k, <1>1, <1>r, <2>1, SendFacts
    <2> QED
      BY <1>r, <2>2
  <1>4. Mounted' /\ ~ByLink'
    BY <1>1, <1>2 DEF Mounted, ByLink
  <1>5. ~Changing(k)' /\ \A m \in DOMAIN requests : Changing(m)' <=> Changing(m)
    BY <1>1, <1>3, <1>4 DEF Changing, Awaited, Current, UnderWay
  <1>6. TypeOK'
    BY <1>1, <1>2, <1>3 DEF TypeOK
  <1>7. OneChange'
    <2>1. /\ busy <=> \E m \in DOMAIN requests : Changing(m)
          /\ \A m, o \in DOMAIN requests : Changing(m) /\ Changing(o) => m = o
      BY DEF IInv, OneChange
    <2>2. /\ busy <=> \E m \in DOMAIN requests' : Changing(m)'
          /\ \A m, o \in DOMAIN requests' : Changing(m)' /\ Changing(o)' => m = o
      BY <1>3, <1>5, <2>1
    <2>3. busy' <=> busy
      BY <1>1
    <2> QED
      BY <2>2, <2>3 DEF OneChange
  <1>8. FreshWhenUnmounted' /\ OwnPartner' /\ OneAtATime' /\ LoadsAreNewer' /\ OutdatedOnlyWhileWaiting'
    BY <1>4 DEF FreshWhenUnmounted, OwnPartner, OneAtATime, LoadsAreNewer, OutdatedOnlyWhileWaiting
  <1> QED
    BY <1>3, <1>6, <1>7, <1>8 DEF IInv

LEMMA LeaveInv ==
    ASSUME IInv, Leave
    PROVE  IInv'
  <1>1. ~Mounted' /\ ~ByLink' /\ \A m \in DOMAIN requests : ~Changing(m)'
    BY DEF Leave, Mounted, ByLink, Changing, Awaited, Current
  <1>2. TypeOK' /\ VisitsPast' /\ UpdatesHaveStatus' /\ AnswersAreTrue'
    BY DEF Leave, IInv, TypeOK, VisitsPast, UpdatesHaveStatus, AnswersAreTrue
  <1>3. FreshWhenUnmounted' /\ OneChange'
    BY <1>1 DEF Leave, FreshWhenUnmounted, OneChange
  <1>4. OwnPartner' /\ OneAtATime' /\ LoadsAreNewer' /\ OutdatedOnlyWhileWaiting'
    BY <1>1 DEF OwnPartner, OneAtATime, LoadsAreNewer, OutdatedOnlyWhileWaiting
  <1> QED
    BY <1>2, <1>3, <1>4 DEF IInv

LEMMA ChangeStatusInv ==
    ASSUME IInv, NEW status \in Statuses, changeStatus(status)
    PROVE  IInv'
  <1>k. PICK k : k = Len(requests) + 1
    OBVIOUS
  <1>q. PICK q : q = Sent("update", visit, route, status)
    OBVIOUS
  <1>1. /\ Mounted /\ partner # NoPartner /\ ~busy
        /\ Send(q)
        /\ busy' = TRUE /\ error' = FALSE
        /\ stored' = stored /\ edits' = edits /\ route' = route /\ visit' = visit /\ jumped' = jumped
        /\ partner' = partner
    BY <1>q DEF changeStatus
  <1>2. visit \in Nat /\ TypeOK /\ route \in Partners /\ status \in 0 .. 3
    BY <1>1, PageAssumption DEF IInv, TypeOK, Mounted
  <1>r. /\ q \in Request /\ q.kind = "update" /\ q.visit = visit /\ q.id = route /\ q.status = status
        /\ q.stage = "sent" /\ q.answer = NoPartner
    BY <1>q, <1>2, SentFacts
  <1>3. /\ requests' \in Seq(Request)
        /\ k \notin DOMAIN requests /\ DOMAIN requests' = DOMAIN requests \cup {k}
        /\ \A m \in DOMAIN requests : requests'[m] = requests[m]
        /\ requests'[k] = q
        /\ VisitsPast' /\ UpdatesHaveStatus' /\ AnswersAreTrue'
    <2>1. /\ visit' \in Nat /\ visit <= visit' /\ q.visit <= visit' /\ UNCHANGED stored
          /\ q.kind = "update" => q.status \in Statuses
      BY <1>1, <1>2, <1>r
    <2> QED
      BY <1>k, <1>1, <1>r, <2>1, SendFacts
  <1>4. (Mounted' <=> Mounted) /\ (ByLink' <=> ByLink)
    BY <1>1 DEF Mounted, ByLink
  <1>5. /\ \A m \in DOMAIN requests : Current(m)' <=> Current(m)
        /\ \A m \in DOMAIN requests : Awaited(m)' <=> Awaited(m)
        /\ \A m \in DOMAIN requests : Changing(m)' <=> Changing(m)
        /\ Current(k)' /\ Awaited(k)' /\ Changing(k)'
    BY <1>1, <1>3, <1>4, <1>r DEF Current, Awaited, Changing, UnderWay
  <1>6. \A m \in DOMAIN requests : ~Changing(m)
    BY <1>1 DEF IInv, OneChange
  <1>7. ByLink => \A m \in DOMAIN requests : ~Awaited(m)
    BY <1>1, <1>6 DEF IInv, OneAtATime, Changing
  <1>8. TypeOK'
    <2>1. requests' \in Seq(Request)
      BY <1>3
    <2> QED
      BY <1>1, <1>2, <2>1 DEF TypeOK
  <1>9. FreshWhenUnmounted'
    BY <1>1, <1>4 DEF FreshWhenUnmounted
  <1>10. OneChange'
    BY <1>1, <1>3, <1>5, <1>6 DEF OneChange
  <1>11. OwnPartner'
    BY <1>1, <1>3, <1>4, <1>5, <1>r DEF IInv, OwnPartner
  <1>12. OneAtATime'
    BY <1>3, <1>4, <1>5, <1>7, <1>r DEF OneAtATime
  <1>13. LoadsAreNewer'
    <2>1. ASSUME ByLink, NEW m \in DOMAIN requests', Current(m)', requests'[m].stage = "ok"
          PROVE  FALSE
      <3>1. m # k
        BY <1>3, <1>r, <2>1
      <3>2. m \in DOMAIN requests /\ Current(m) /\ requests[m].stage = "ok"
        BY <1>3, <1>5, <2>1, <3>1
      <3> QED
        BY <1>7, <2>1, <3>2 DEF Awaited, UnderWay
    <2> QED
      BY <1>4, <2>1 DEF LoadsAreNewer
  <1>14. OutdatedOnlyWhileWaiting'
    BY <1>3, <1>5 DEF OutdatedOnlyWhileWaiting
  <1> QED
    BY <1>3, <1>8, <1>9, <1>10, <1>11, <1>12, <1>13, <1>14 DEF IInv

LEMMA EditInv ==
    ASSUME IInv, NEW p \in Partners, NEW status \in Statuses, Edit(p, status)
    PROVE  IInv'
  <1> TypeOK
    BY DEF IInv
  <1>0. PICK row : row = Changed(p, status)
    OBVIOUS
  <1>1. /\ edits < MaxEdits /\ edits' = edits + 1 /\ stored' = [stored EXCEPT ![p] = row]
        /\ route' = route /\ visit' = visit /\ jumped' = jumped /\ requests' = requests
        /\ partner' = partner /\ error' = error /\ busy' = busy
    BY <1>0 DEF Edit, page
  <1>2. /\ stored[p].revision \in Nat
        /\ row \in [status: Statuses, revision: Nat] /\ row.revision = stored[p].revision + 1
    <2>1. stored[p].revision \in Nat
      BY DEF TypeOK
    <2> QED
      BY <1>0, <2>1 DEF Changed
  <1>3. /\ stored' \in [Partners -> [status: Statuses, revision: Nat]]
        /\ \A q \in Partners : /\ stored[q].revision \in Nat /\ stored'[q].revision \in Nat
                               /\ stored'[q].revision >= stored[q].revision
    <2>1. stored \in [Partners -> [status: Statuses, revision: Nat]]
      BY DEF TypeOK
    <2> QED
      BY <1>1, <1>2, <2>1
  <1>4. edits' \in 0 .. MaxEdits
    BY <1>1, PageAssumption DEF TypeOK
  <1>5. /\ \A m \in DOMAIN requests : requests[m].id \in Partners /\ requests[m].answer.revision \in Nat
        /\ partner.revision \in Nat /\ (Mounted => route \in Partners)
    BY RequestFacts, NoPartnerFacts DEF TypeOK, Mounted
  <1>6. TypeOK'
    BY <1>1, <1>3, <1>4 DEF TypeOK
  <1>7. AnswersAreTrue'
    BY <1>1, <1>3, <1>5 DEF IInv, AnswersAreTrue
  <1>8. OwnPartner'
    BY <1>1, <1>3, <1>5 DEF IInv, OwnPartner, ByLink, Mounted, Current
  <1>9. VisitsPast' /\ FreshWhenUnmounted' /\ UpdatesHaveStatus'
    BY <1>1 DEF IInv, VisitsPast, FreshWhenUnmounted, UpdatesHaveStatus, Mounted
  <1>10. OneChange' /\ OneAtATime'
    BY <1>1 DEF IInv, OneChange, OneAtATime, ByLink, Mounted, Changing, Awaited, Current, UnderWay
  <1>11. LoadsAreNewer' /\ OutdatedOnlyWhileWaiting'
    BY <1>1 DEF IInv, LoadsAreNewer, OutdatedOnlyWhileWaiting, ByLink, Mounted, Changing, Awaited,
                Current, UnderWay
  <1> QED
    BY <1>6, <1>7, <1>8, <1>9, <1>10, <1>11 DEF IInv

-----------------------------------------------------------------------------
(* Any step, and what the invariant says.                                  *)

LEMMA InitInv ==
    ASSUME Init
    PROVE  IInv
  <1>1. /\ DOMAIN requests = {} /\ requests \in Seq(Request) /\ 0 \in 0 .. MaxEdits
        /\ ~Mounted
    BY PageAssumption DEF Init, Mounted
  <1>2. stored \in [Partners -> [status: Statuses, revision: Nat]]
    BY PageAssumption DEF Init
  <1>3. TypeOK
    BY <1>1, <1>2 DEF Init, TypeOK
  <1>4. ~ByLink
    BY <1>1 DEF ByLink
  <1> QED
    BY <1>1, <1>3, <1>4 DEF Init, IInv, VisitsPast, FreshWhenUnmounted, UpdatesHaveStatus,
        AnswersAreTrue, OneChange, OwnPartner, OneAtATime, LoadsAreNewer, OutdatedOnlyWhileWaiting

LEMMA SameInv ==
    ASSUME IInv, UNCHANGED vars
    PROVE  IInv'
  <1>1. /\ stored' = stored /\ edits' = edits /\ route' = route /\ visit' = visit /\ jumped' = jumped
        /\ partner' = partner /\ error' = error /\ busy' = busy /\ requests' = requests
    BY DEF vars, page
  <1>2. TypeOK' /\ VisitsPast' /\ FreshWhenUnmounted' /\ UpdatesHaveStatus' /\ AnswersAreTrue'
    BY <1>1 DEF IInv, TypeOK, VisitsPast, FreshWhenUnmounted, UpdatesHaveStatus, AnswersAreTrue, Mounted
  <1>3. OneChange' /\ OneAtATime' /\ OwnPartner'
    BY <1>1 DEF IInv, OneChange, OneAtATime, OwnPartner, ByLink, Mounted, Changing, Awaited, Current,
                UnderWay
  <1>4. LoadsAreNewer' /\ OutdatedOnlyWhileWaiting'
    BY <1>1 DEF IInv, LoadsAreNewer, OutdatedOnlyWhileWaiting, ByLink, Mounted, Changing, Awaited,
                Current, UnderWay
  <1> QED
    BY <1>2, <1>3, <1>4 DEF IInv

LEMMA NextInv == IInv /\ [Next]_vars => IInv'
  <1> SUFFICES ASSUME IInv, [Next]_vars PROVE IInv'
    OBVIOUS
  <1>1. ASSUME NEW p \in Partners, Open(p) \/ Jump(p) PROVE IInv'
    BY <1>1, OpenInv, JumpInv
  <1>2. ASSUME NEW status \in Statuses, changeStatus(status) PROVE IInv'
    BY <1>2, ChangeStatusInv
  <1>3. ASSUME NEW p \in Partners, NEW status \in Statuses, Edit(p, status) PROVE IInv'
    BY <1>3, EditInv
  <1>4. ASSUME NEW n \in DOMAIN requests, Proceed(n) PROVE IInv'
    BY <1>4, ServeInv, ReturnInv, UpdateSucceedsInv DEF Proceed
  <1>5. CASE Leave
    BY <1>5, LeaveInv
  <1>6. CASE UNCHANGED vars
    BY <1>6, SameInv
  <1> QED
    BY <1>1, <1>2, <1>3, <1>4, <1>5, <1>6 DEF Next, Rest

LEMMA Invariance == Spec => []IInv
  <1> QED
    BY InitInv, NextInv, PTL DEF Spec

\* Every variable of the page, and every request, keeps its type.
THEOREM PageTypes == Spec => []TypeOK
  <1>1. IInv => TypeOK
    BY DEF IInv
  <1> QED
    BY <1>1, Invariance, PTL

\* However the user moves between partners by links and through the history, and
\* whatever is answered late or not at all, the buttons are disabled while a
\* change of this visit or its reload is under way and at no other time, and no
\* second one can begin (PartnerDetail.tsx:30-42).
THEOREM ButtonsTellOfChanges == Spec => []BusyMeansChanging
  <1>1. IInv => BusyMeansChanging
    <2> SUFFICES ASSUME IInv PROVE BusyMeansChanging
      OBVIOUS
    <2> DEFINE changes == {n \in DOMAIN requests :
                              Current(n) /\ UnderWay(n) /\ requests[n].kind # "load"}
    <2>1. changes = {n \in DOMAIN requests : Changing(n)}
      BY DEF Changing, Awaited
    <2>2. (busy <=> changes # {}) /\ \A m, n \in changes : m = n
      BY <2>1 DEF IInv, OneChange
    <2> HIDE DEF changes
    <2>3. Cardinality(changes) <= 1
      <3>1. CASE changes = {}
        BY <3>1, FS_EmptySet
      <3>2. ASSUME NEW n \in changes PROVE Cardinality(changes) <= 1
        <4>1. changes = {n}
          BY <2>2
        <4> QED
          BY <4>1, FS_Singleton
      <3> QED
        BY <3>1, <3>2
    <2> QED
      BY <2>2, <2>3 DEF BusyMeansChanging, changes
  <1> QED
    BY <1>1, Invariance, PTL

\* Whatever other administrators change meanwhile, and whichever requests fail, a
\* page that was reached by links and waits for nothing shows its own partner, no
\* older than the last change this visit was told of, or an error: the reload
\* that changeStatus awaits is what this rests on (PartnerDetail.tsx:30-42).
THEOREM SettledPages == Spec => []SettledPageIsCurrent
  <1>1. IInv => SettledPageIsCurrent
    <2> SUFFICES ASSUME IInv, Mounted, ~jumped, ~error,
                        \A n \in DOMAIN requests : Current(n) => ~UnderWay(n)
                 PROVE  /\ partner.id = route
                        /\ \A n \in DOMAIN requests :
                              Current(n) /\ requests[n].kind = "update" =>
                                 partner.revision >= requests[n].answer.revision
      BY DEF SettledPageIsCurrent
    <2>1. ByLink /\ \A n \in DOMAIN requests : ~Awaited(n) /\ ~Changing(n)
      BY DEF ByLink, Awaited, Changing
    <2> QED
      BY <2>1 DEF IInv, OwnPartner, OutdatedOnlyWhileWaiting
  <1> QED
    BY <1>1, Invariance, PTL

\* A page that was reached by links shows no other partner, and never an older
\* state of its own than it has shown: its loads do not overlap
\* (PartnerDetail.tsx:16-28).
THEOREM PageNeverGoesBack == Spec => ShownOnlyAdvances
  <1> DEFINE A == visit' = visit /\ Mounted /\ route' # None /\ ~jumped' /\ partner # NoPartner =>
                     partner'.id = route' /\ partner'.revision >= partner.revision
  <1>1. IInv /\ [Next]_vars => [A]_vars
    <2> SUFFICES ASSUME IInv, Next, visit' = visit, Mounted, route' # None, ~jumped', partner # NoPartner
                 PROVE  partner'.id = route' /\ partner'.revision >= partner.revision
      BY DEF vars
    <2>1. visit \in Nat /\ partner.revision \in Nat
      BY NoPartnerFacts DEF IInv, TypeOK
    <2>2. /\ jumped' = jumped /\ route' = route /\ ByLink
          /\ \/ partner' = partner
             \/ \E n \in DOMAIN requests : (LoadReturns(n) \/ ReloadReturns(n)) /\ Show(n)
      <3>1. ASSUME NEW p \in Partners PROVE ~Open(p) /\ ~Jump(p)
        BY <2>1 DEF Open, Jump
      <3>2. ~Leave
        BY DEF Leave
      <3>3. ASSUME NEW status \in Statuses, changeStatus(status)
            PROVE  jumped' = jumped /\ route' = route /\ partner' = partner
        BY <3>3 DEF changeStatus
      <3>4. ASSUME NEW p \in Partners, NEW status \in Statuses, Edit(p, status)
            PROVE  jumped' = jumped /\ route' = route /\ partner' = partner
        BY <3>4 DEF Edit, page
      <3>5. ASSUME NEW n \in DOMAIN requests, Proceed(n)
            PROVE  /\ jumped' = jumped /\ route' = route
                   /\ partner' = partner \/ ((LoadReturns(n) \/ ReloadReturns(n)) /\ Show(n))
        BY <3>5 DEF Proceed, ServeGetPartner, ServeUpdatePartnerStatus, FailRequest, LoadReturns,
            UpdateSucceeds, UpdateFails, ReloadReturns, page
      <3>6. ASSUME Rest
            PROVE  jumped' = jumped /\ route' = route /\ partner' = partner
        BY <3>6 DEF Rest, vars, page
      <3>7. /\ jumped' = jumped /\ route' = route
            /\ \/ partner' = partner
               \/ \E n \in DOMAIN requests : (LoadReturns(n) \/ ReloadReturns(n)) /\ Show(n)
        BY <3>1, <3>2, <3>3, <3>4, <3>5, <3>6 DEF Next
      <3> QED
        BY <3>7 DEF ByLink
    <2>3. CASE partner' = partner
      BY <2>1, <2>2, <2>3 DEF IInv, OwnPartner
    <2>4. ASSUME NEW n \in DOMAIN requests, LoadReturns(n) \/ ReloadReturns(n), Show(n)
          PROVE  partner' = partner \/
                    (Current(n) /\ requests[n].stage = "ok" /\ requests[n].kind # "update"
                        /\ partner' = requests[n].answer)
      BY <2>4 DEF Show, LoadReturns, ReloadReturns
    <2>5. ASSUME NEW n \in DOMAIN requests, Current(n), requests[n].stage = "ok",
                 requests[n].kind # "update", partner' = requests[n].answer
          PROVE  partner'.id = route' /\ partner'.revision >= partner.revision
      BY <2>2, <2>5 DEF IInv, OwnPartner, AnswersAreTrue, LoadsAreNewer
    <2> QED
      BY <2>2, <2>3, <2>4, <2>5
  <1> QED
    BY <1>1, Invariance, PTL DEF Spec, ShownOnlyAdvances

-----------------------------------------------------------------------------
(* Failed changes.                                                         *)

\* What FailuresAreSaid rests on, step by step: requests keep their kind and their
\* visit, a change fails at the end of its request, and then the error is shown.
LEMMA SaidStays ==
    ASSUME IInv, FailuresAreSaid, visit' = visit, route' = route \/ route' # None, Mounted,
           error => error',
           DOMAIN requests \subseteq DOMAIN requests',
           \A m \in DOMAIN requests :
              requests'[m].kind = requests[m].kind /\ requests'[m].visit = requests[m].visit,
           \A m \in DOMAIN requests' : ChangeFailed(m)' =>
              m \in DOMAIN requests /\ (ChangeFailed(m) \/ ~Current(m) \/ error')
    PROVE  FailuresAreSaid'
  <1>1. \A m \in DOMAIN requests : Current(m)' = Current(m)
    BY DEF Current, Mounted
  <1> QED
    BY <1>1 DEF FailuresAreSaid

\* The steps of the API answer one request.
LEMMA AnswerOfStep ==
    ASSUME IInv, NEW n \in DOMAIN requests, Proceed(n), requests[n].stage = "sent"
    PROVE  \E stage \in {"ok", "failed"}, answer \in Snapshot \cup {NoPartner} :
              Stage(n, stage, answer)
  <1>1. \A p \in Partners : \A status \in Statuses : \A revision \in Nat :
           [id |-> p, status |-> status, revision |-> revision] \in Snapshot
    BY DEF Snapshot
  <1>2. /\ requests[n].id \in Partners
        /\ stored[requests[n].id].status \in Statuses /\ stored[requests[n].id].revision \in Nat
        /\ requests[n].kind = "update" => requests[n].status \in Statuses
    BY RequestFacts DEF IInv, TypeOK, UpdatesHaveStatus
  <1>3. CASE ServeGetPartner(n)
    BY <1>1, <1>2, <1>3 DEF ServeGetPartner
  <1>4. CASE ServeUpdatePartnerStatus(n)
    BY <1>1, <1>2, <1>4 DEF ServeUpdatePartnerStatus, Changed
  <1>5. CASE FailRequest(n)
    BY <1>5 DEF FailRequest
  <1> QED
    BY <1>3, <1>4, <1>5
       DEF Proceed, LoadReturns, UpdateSucceeds, UpdateFails, ReloadReturns

LEMMA SaidNext == IInv /\ FailuresAreSaid /\ [Next]_vars => FailuresAreSaid'
  <1> SUFFICES ASSUME IInv, FailuresAreSaid, [Next]_vars PROVE FailuresAreSaid'
    OBVIOUS
  <1> TypeOK
    BY DEF IInv
  <1> visit \in Nat
    BY DEF TypeOK
  <1>k. PICK k : k = Len(requests) + 1
    OBVIOUS
  <1>s. k \in Nat /\ \A m \in DOMAIN requests : m \in Nat /\ m < k
    BY <1>k DEF TypeOK
  <1>1. ASSUME NEW p \in Partners, Open(p) PROVE FailuresAreSaid'
    <2>q. PICK q : q = Sent("load", visit + 1, p, 0)
      OBVIOUS
    <2>1. q \in Request /\ q.kind = "load"
      BY <2>q, SentFacts
    <2>2. visit' = visit + 1 /\ requests' = Append(requests, q)
      BY <1>1, <2>q DEF Open, Send
    <2>3. /\ DOMAIN requests' = DOMAIN requests \cup {k} /\ requests'[k] = q
          /\ \A m \in DOMAIN requests : requests'[m] = requests[m]
      BY <1>k, <2>1, <2>2, AppendFacts DEF TypeOK
    <2>4. \A m \in DOMAIN requests : requests[m].visit # visit'
      BY <2>2, RequestFacts DEF IInv, VisitsPast
    <2> QED
      BY <2>1, <2>3, <2>4 DEF FailuresAreSaid, Current, ChangeFailed
  <1>2. ASSUME NEW p \in Partners, Jump(p) PROVE FailuresAreSaid'
    <2>q. PICK q : q = Sent("load", visit, p, 0)
      OBVIOUS
    <2>1. q \in Request /\ q.kind = "load"
      BY <2>q, SentFacts
    <2>2. /\ visit' = visit /\ requests' = Append(requests, q) /\ Mounted /\ route' # None
          /\ error' = error
      BY <1>2, <2>q, PageAssumption DEF Jump, Send, page
    <2>3. /\ DOMAIN requests' = DOMAIN requests \cup {k} /\ requests'[k] = q
          /\ \A m \in DOMAIN requests : requests'[m] = requests[m]
      BY <1>k, <2>1, <2>2, AppendFacts DEF TypeOK
    <2>4. \A m \in DOMAIN requests' : ChangeFailed(m)' => m \in DOMAIN requests /\ ChangeFailed(m)
      BY <2>1, <2>3 DEF ChangeFailed
    <2> QED
      BY <2>2, <2>3, <2>4, SaidStays
  <1>3. CASE Leave
    BY <1>3 DEF Leave, FailuresAreSaid, Current, Mounted
  <1>4. ASSUME NEW status \in Statuses, changeStatus(status) PROVE FailuresAreSaid'
    <2>q. PICK q : q = Sent("update", visit, route, status)
      OBVIOUS
    <2>1. q \in Request /\ q.kind = "update" /\ q.visit = visit /\ q.stage = "sent"
      <3>1. route \in Partners /\ status \in 0 .. 3
        BY <1>4, PageAssumption DEF changeStatus, Mounted, TypeOK
      <3> QED
        BY <2>q, <3>1, SentFacts
    <2>2. /\ visit' = visit /\ requests' = Append(requests, q) /\ Mounted /\ route' = route
      BY <1>4, <2>q DEF changeStatus, Send
    <2>3. /\ DOMAIN requests' = DOMAIN requests \cup {k} /\ requests'[k] = q
      BY <1>k, <2>1, <2>2, AppendFacts DEF TypeOK
    <2>4. k \in DOMAIN requests' /\ Current(k)' /\ requests'[k].kind = "update" /\ ~ChangeFailed(k)'
      BY <2>1, <2>2, <2>3 DEF Current, Mounted, ChangeFailed
    <2>5. \A m \in DOMAIN requests' : m # k => m < k
      BY <1>s, <2>3
    <2> QED
      BY <1>s, <2>4, <2>5 DEF FailuresAreSaid
  <1>5. ASSUME NEW p \in Partners, NEW status \in Statuses, Edit(p, status) PROVE FailuresAreSaid'
    BY <1>5 DEF Edit, page, FailuresAreSaid, ChangeFailed, Current, Mounted
  <1>6. CASE UNCHANGED vars
    BY <1>6 DEF vars, page, FailuresAreSaid, ChangeFailed, Current, Mounted
  <1>7. ASSUME NEW n \in DOMAIN requests, Proceed(n) PROVE FailuresAreSaid'
    <2>1. CASE Mounted
      <3>1. visit' = visit /\ route' = route /\ (error => error')
        BY <1>7 DEF Proceed, ServeGetPartner, ServeUpdatePartnerStatus, FailRequest, LoadReturns,
                    UpdateSucceeds, UpdateFails, ReloadReturns, Show, page
      <3>2. CASE requests[n].stage = "sent"
        <4>1. PICK stage \in {"ok", "failed"}, answer \in Snapshot \cup {NoPartner} :
                 Stage(n, stage, answer)
          BY <1>7, <3>2, AnswerOfStep
        <4>2. /\ DOMAIN requests' = DOMAIN requests /\ requests'[n].stage = stage
              /\ \A m \in DOMAIN requests :
                    requests'[m].kind = requests[m].kind /\ requests'[m].visit = requests[m].visit
              /\ \A m \in DOMAIN requests \ {n} : requests'[m] = requests[m]
          BY <4>1, StageFacts
        <4>3. \A m \in DOMAIN requests' : ChangeFailed(m)' => m \in DOMAIN requests /\ ChangeFailed(m)
          BY <4>2 DEF ChangeFailed
        <4> QED
          BY <2>1, <3>1, <4>2, <4>3, SaidStays
      <3>3. CASE LoadReturns(n) \/ ReloadReturns(n) \/ UpdateFails(n)
        <4>1. requests' = Over(n)
          BY <3>3 DEF LoadReturns, ReloadReturns, UpdateFails
        <4>2. /\ DOMAIN requests' = DOMAIN requests
              /\ \A m \in DOMAIN requests :
                    requests'[m].kind = requests[m].kind /\ requests'[m].visit = requests[m].visit
              /\ \A m \in DOMAIN requests \ {n} : requests'[m] = requests[m]
          BY <4>1, OverFacts
        <4>3. requests[n].kind = "update" /\ Current(n) => error'
          BY <3>3 DEF LoadReturns, ReloadReturns, UpdateFails
        <4>4. \A m \in DOMAIN requests' : ChangeFailed(m)' =>
                 m \in DOMAIN requests /\ (ChangeFailed(m) \/ ~Current(m) \/ error')
          BY <4>2, <4>3 DEF ChangeFailed
        <4> QED
          BY <2>1, <3>1, <4>2, <4>4, SaidStays
      <3>4. CASE UpdateSucceeds(n)
        <4>q. PICK q : q = Sent("reload", requests[n].visit, requests[n].id, 0)
          OBVIOUS
        <4>1. q \in Request /\ q.kind = "reload"
          BY <4>q, RequestFacts, SentFacts
        <4>2. requests' = Append(Over(n), q) /\ requests[n].stage = "ok" /\ requests[n].kind = "update"
          BY <3>4, <4>q DEF UpdateSucceeds
        <4>3. /\ DOMAIN requests' = DOMAIN requests \cup {k} /\ requests'[k] = q
              /\ \A m \in DOMAIN requests : requests'[m] = Over(n)[m]
          BY <1>k, <4>1, <4>2, OverFacts, AppendFacts
        <4>4. /\ \A m \in DOMAIN requests :
                    requests'[m].kind = requests[m].kind /\ requests'[m].visit = requests[m].visit
              /\ \A m \in DOMAIN requests \ {n} : requests'[m] = requests[m]
              /\ requests'[n].answer = requests[n].answer /\ requests[n].answer # NoPartner
          BY <4>2, <4>3, OverFacts DEF IInv, AnswersAreTrue
        <4>5. \A m \in DOMAIN requests' : ChangeFailed(m)' => m \in DOMAIN requests /\ ChangeFailed(m)
          BY <4>1, <4>3, <4>4 DEF ChangeFailed
        <4> QED
          BY <2>1, <3>1, <4>3, <4>4, <4>5, SaidStays
      <3> QED
        BY <1>7, <3>2, <3>3, <3>4 DEF Proceed, ServeGetPartner, ServeUpdatePartnerStatus, FailRequest
    <2>2. CASE ~Mounted
      <3>1. route' = route
        BY <1>7 DEF Proceed, ServeGetPartner, ServeUpdatePartnerStatus, FailRequest, LoadReturns,
                    UpdateSucceeds, UpdateFails, ReloadReturns
      <3> QED
        BY <2>2, <3>1 DEF FailuresAreSaid, Current, Mounted
    <2> QED
      BY <2>1, <2>2
  <1> QED
    BY <1>1, <1>2, <1>3, <1>4, <1>5, <1>6, <1>7 DEF Next, Rest

\* Whatever loads return meanwhile and wherever the visit moves, a change that
\* failed is said to have failed until the next one is begun
\* (PartnerDetail.tsx:16-42).
THEOREM FailedChangesAreSaid == Spec => []FailuresAreSaid
  <1>1. Init => FailuresAreSaid
    BY DEF Init, FailuresAreSaid
  <1> QED
    BY <1>1, SaidNext, Invariance, PTL DEF Spec
=============================================================================
