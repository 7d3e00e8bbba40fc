--------------------------- MODULE WebSessionProofs ---------------------------
(***************************************************************************)
(* Proofs about Access and WebSession, for any browsers, identities, calls *)
(* and life of a token.                                                    *)
(***************************************************************************)
EXTENDS WebSession, TLAPS

-----------------------------------------------------------------------------
(* The inductive invariant.                                                *)

Before == {"idle", "token", "gateway", "mcp", "api"}
OnTheWay == {"gateway", "mcp", "api", "answered"}

\* What a call k carries and what became of it, by where it is: nothing has run
\* before it is answered, a tool call gets to the API with a tool only, and what
\* ran of a protected service ran for a minted token in its life.
CallOK(k) ==
    /\ k.pc = "idle" => k.by = None
    /\ k.pc = "token" => k.by \in Jars
    /\ k.pc \in Before => k.ran = None /\ k.code = "none"
    /\ k.token \in tokens \cup {None}
    /\ k.by # None /\ k.pc \in OnTheWay => k.token \in tokens
    /\ k.tool /\ k.pc = "api" => k.path \in Tools
    /\ k.ran # None /\ k.ran[1] \in Protected => k.token \in tokens /\ k.at < k.token.exp
    /\ k.tool /\ k.ran # None => k.ran[1] = "AgentQueryService"
    /\ k.code = "unauthenticated" => k.path[1] \notin {"OnboardingService", "AgentQueryService"}

\* The user row that a token was minted for.
HasRow(t) == \E u \in RowsOf(t.as) : u.id = t.sub

Awaited(j) == {c \in Calls : calls[c].by = j /\ calls[c].pc # "done"}

\* A page waits for one call at most, and only while it shows that it checks the
\* session; a logout is under way on authenticated pages only.
PageInv(j) ==
    /\ Awaited(j) # {} => state[j] = "loading"
    /\ \A c, d \in Awaited(j) : c = d
    /\ leaving[j] => state[j] = "authenticated"

IInv ==
    /\ WebTypeOK
    /\ \A c \in Calls : CallOK(calls[c])
    /\ \A t \in tokens : HasRow(t)
    /\ \A j \in Jars : PageInv(j)

\* The assumption on None, unfolded.
LEMMA NoneDiffers == /\ \A j \in Jars : j # None
                     /\ \A id \in UserIds : id # None
  BY AccessAssumption

LEMMA IdleType == Idle \in Call
  <1>1. 0 \in 0 .. MaxTime
    BY AccessAssumption
  <1> QED
    BY <1>1 DEF Idle, Call

LEMMA InitInv == Init => IInv
  <1> SUFFICES ASSUME Init PROVE IInv
    OBVIOUS
  <1>1. Idle \in Call
    BY IdleType
  <1>2. \A c \in Calls : calls[c] = Idle
    BY DEF Init, AccessInit
  <1>3. WebTypeOK
    BY <1>1, AccessAssumption DEF Init, AccessInit, WebTypeOK, TypeOK
  <1>4. \A c \in Calls : CallOK(calls[c])
    BY <1>2 DEF Idle, CallOK, Before, OnTheWay
  <1>5. \A j \in Jars : Awaited(j) = {}
    BY <1>2, NoneDiffers DEF Awaited, Idle
  <1>6. \A j \in Jars : PageInv(j)
    BY <1>5 DEF PageInv, Init
  <1> QED
    BY <1>3, <1>4, <1>6 DEF IInv, Init, AccessInit

-----------------------------------------------------------------------------
(* Steps of one call.                                                      *)

LEMMA CallEffect ==
    ASSUME WebTypeOK, NEW c \in Calls, NEW k \in Call, calls' = [calls EXCEPT ![c] = k]
    PROVE  /\ calls' \in [Calls -> Call]
           /\ calls'[c] = k
           /\ \A d \in Calls \ {c} : calls'[d] = calls[d]
  BY DEF WebTypeOK, TypeOK

\* The other calls stay as they should be, when tokens are only added.
LEMMA CallsKeep ==
    ASSUME IInv, NEW c \in Calls, NEW k \in Call, calls' = [calls EXCEPT ![c] = k],
           tokens \subseteq tokens', CallOK(k)'
    PROVE  \A d \in Calls : CallOK(calls[d])'
  <1>1. /\ calls'[c] = k
        /\ \A d \in Calls \ {c} : calls'[d] = calls[d]
    BY CallEffect DEF IInv
  <1>2. ASSUME NEW d \in Calls, d # c
        PROVE  CallOK(calls[d])'
    <2>1. CallOK(calls[d])
      BY DEF IInv
    <2> QED
      BY <1>1, <1>2, <2>1 DEF CallOK
  <1>3. CallOK(calls[c])'
    BY <1>1 DEF CallOK
  <1> QED
    BY <1>2, <1>3

\* What pages wait for, after a step of a call that was under way.
LEMMA AwaitedStep ==
    ASSUME IInv, NEW c \in Calls, NEW k \in Call, calls' = [calls EXCEPT ![c] = k],
           calls[c].pc # "done", k.by \in {calls[c].by, None}
    PROVE  /\ \A j \in Jars : Awaited(j)' \subseteq Awaited(j)
           /\ \A j \in Jars : k.pc = "done" /\ j = k.by => c \in Awaited(j) /\ c \notin Awaited(j)'
  <1>1. /\ calls'[c] = k
        /\ \A d \in Calls \ {c} : calls'[d] = calls[d]
    BY CallEffect DEF IInv
  <1> QED
    BY <1>1, NoneDiffers DEF Awaited

LEMMA CallStep ==
    ASSUME IInv, NEW c \in Calls, NEW k \in Call, calls' = [calls EXCEPT ![c] = k],
           CallOK(k), calls[c].pc # "done", k.by \in {calls[c].by, None},
           UNCHANGED <<now, app_users, auth_sessions, tokens, web>>
    PROVE  IInv'
  <1>1. CallOK(k)'
    BY DEF CallOK
  <1>2. \A d \in Calls : CallOK(calls[d])'
    BY <1>1, CallsKeep
  <1>3. \A j \in Jars : PageInv(j)'
    BY AwaitedStep DEF IInv, PageInv, web
  <1>4. WebTypeOK'
    BY CallEffect DEF IInv, WebTypeOK, TypeOK, web
  <1>5. \A t \in tokens : HasRow(t)'
    BY DEF IInv, HasRow, RowsOf
  <1> QED
    BY <1>2, <1>3, <1>4, <1>5 DEF IInv

\* The fields of a call.
LEMMA CallFields ==
    ASSUME NEW k \in Call
    PROVE  /\ k.pc \in {"idle", "token", "rejected", "gateway", "mcp", "api", "answered", "done"}
           /\ k.by \in Jars \cup {None}
           /\ k.tool \in BOOLEAN
           /\ k.token \in Token \cup {None}
           /\ \A l \in {"idle", "token", "rejected", "gateway", "mcp", "api", "answered", "done"} :
                 [k EXCEPT !.pc = l] \in Call
           /\ \A m \in {"none", "ok", "unauthenticated", "not_found", "spa", "failed"} :
                 [k EXCEPT !.pc = "answered", !.code = m] \in Call
  BY DEF Call

\* A call under way moves on, or is answered.
LEMMA GotoStep ==
    ASSUME IInv, NEW c \in Calls, NEW l \in {"gateway", "mcp", "api"}, Goto(c, l),
           calls[c].pc \in {"gateway", "mcp"}, l = "api" /\ calls[c].tool => calls[c].path \in Tools,
           UNCHANGED <<now, app_users, auth_sessions, tokens, web>>
    PROVE  IInv'
  <1> DEFINE k == [calls[c] EXCEPT !.pc = l]
  <1>1. calls[c] \in Call /\ CallOK(calls[c])
    BY DEF IInv, WebTypeOK, TypeOK
  <1>2. k \in Call
    BY <1>1, CallFields
  <1>3. calls' = [calls EXCEPT ![c] = k]
    BY DEF Goto
  <1>4. /\ k.pc = l /\ k.by = calls[c].by /\ k.tool = calls[c].tool /\ k.path = calls[c].path
        /\ k.token = calls[c].token /\ k.ran = calls[c].ran /\ k.at = calls[c].at /\ k.code = calls[c].code
    BY <1>1 DEF Call
  <1>5. CallOK(k)
    BY <1>1, <1>4 DEF CallOK, Before, OnTheWay
  <1> HIDE DEF k
  <1> QED
    BY <1>2, <1>3, <1>4, <1>5, CallStep

LEMMA AnswerStep ==
    ASSUME IInv, NEW c \in Calls,
           NEW m \in {"not_found", "spa", "failed", "unauthenticated"}, Answer(c, m),
           calls[c].pc \in {"gateway", "mcp", "api"},
           m = "unauthenticated" => calls[c].path[1] \notin {"OnboardingService", "AgentQueryService"},
           UNCHANGED <<now, app_users, auth_sessions, tokens, web>>
    PROVE  IInv'
  <1> DEFINE k == [calls[c] EXCEPT !.pc = "answered", !.code = m]
  <1>1. calls[c] \in Call /\ CallOK(calls[c])
    BY DEF IInv, WebTypeOK, TypeOK
  <1>2. k \in Call
    BY <1>1, CallFields
  <1>3. calls' = [calls EXCEPT ![c] = k]
    BY DEF Answer
  <1>4. /\ k.pc = "answered" /\ k.by = calls[c].by /\ k.tool = calls[c].tool /\ k.path = calls[c].path
        /\ k.token = calls[c].token /\ k.ran = calls[c].ran /\ k.at = calls[c].at /\ k.code = m
    BY <1>1 DEF Call
  <1>5. CallOK(k)
    BY <1>1, <1>4 DEF CallOK, Before, OnTheWay
  <1> HIDE DEF k
  <1> QED
    BY <1>2, <1>3, <1>4, <1>5, CallStep

LEMMA SendInv ==
    ASSUME IInv, NEW c \in Calls, NEW path \in Paths, NEW t \in tokens \cup {None},
           NEW tool \in BOOLEAN, NEW outside \in BOOLEAN, Send(c, path, t, tool, outside), UNCHANGED web
    PROVE  IInv'
  <1> DEFINE l == IF outside THEN "gateway" ELSE IF tool THEN "mcp" ELSE "api"
             k == [Idle EXCEPT !.pc = l, !.path = path, !.token = t, !.tool = tool]
  <1>1. tokens \subseteq Token /\ calls[c].pc = "idle"
    BY DEF IInv, WebTypeOK, TypeOK, Send, At
  <1>2. l \in {"gateway", "mcp", "api"} /\ (tool => l # "api")
    <2>1. CASE outside
      BY <2>1
    <2>2. CASE ~outside
      BY <2>2
    <2> QED
      BY <2>1, <2>2
  <1> HIDE DEF l
  <1>3. /\ k.pc = l /\ k.by = None /\ k.tool = tool /\ k.path = path
        /\ k.token = t /\ k.ran = None /\ k.at = 0 /\ k.code = "none"
    BY DEF Idle
  <1>4. k \in Call
    <2>1. path \in Paths \cup {GetSession, None} /\ t \in Token \cup {None} /\ 0 \in 0 .. MaxTime
      BY <1>1, AccessAssumption
    <2> QED
      BY <1>2, <2>1 DEF Idle, Call
  <1>5. calls' = [calls EXCEPT ![c] = k]
    BY DEF Send, l
  <1> HIDE DEF k
  <1>6. CallOK(k)
    <2>1. k.tool /\ k.pc = "api" => FALSE
      BY <1>2, <1>3
    <2>2. k.pc \notin {"idle", "token"}
      BY <1>2, <1>3
    <2> QED
      BY <1>3, <2>1, <2>2 DEF CallOK
  <1> QED
    BY <1>1, <1>3, <1>4, <1>5, <1>6, CallStep DEF Send

LEMMA GatewayInv ==
    ASSUME IInv, NEW c \in Calls, Gateway(c), UNCHANGED web
    PROVE  IInv'
  <1> DEFINE route == IF calls[c].tool THEN "/mcp" ELSE calls[c].path[1]
  <1>1. calls[c].pc = "gateway" /\ UNCHANGED <<now, app_users, auth_sessions, tokens>>
    BY DEF Gateway, At
  <1>2. CASE route \notin Routes
    <2>1. Answer(c, "spa")
      BY <1>2 DEF Gateway
    <2> QED
      BY <1>1, <2>1, AnswerStep
  <1>3. CASE route \in Routes /\ (route \in PublicRoutes \/ Valid(calls[c].token))
    <2>1. Goto(c, IF calls[c].tool THEN "mcp" ELSE "api")
      BY <1>3 DEF Gateway
    <2>2. CASE calls[c].tool
      BY <1>1, <2>1, <2>2, GotoStep
    <2>3. CASE ~calls[c].tool
      BY <1>1, <2>1, <2>3, GotoStep
    <2> QED
      BY <2>2, <2>3
  <1>4. CASE route \in Routes /\ ~(route \in PublicRoutes \/ Valid(calls[c].token))
    <2>1. Answer(c, "unauthenticated")
      BY <1>4 DEF Gateway
    <2>2. ~calls[c].tool /\ calls[c].path[1] \notin {"OnboardingService", "AgentQueryService"}
      BY <1>4 DEF Routes, PublicRoutes
    <2> QED
      BY <1>1, <2>1, <2>2, AnswerStep
  <1> QED
    BY <1>2, <1>3, <1>4

LEMMA CallToolInv ==
    ASSUME IInv, NEW c \in Calls, CallTool(c), UNCHANGED web
    PROVE  IInv'
  BY GotoStep, AnswerStep DEF CallTool, At

LEMMA CallFailsInv ==
    ASSUME IInv, NEW c \in Calls, CallFails(c), UNCHANGED web
    PROVE  IInv'
  BY AnswerStep DEF CallFails

\* What has run ran for a user, if it is protected, and for an agent it is a tool.
LEMMA ServeCallInv ==
    ASSUME IInv, NEW c \in Calls, ServeCall(c), UNCHANGED web
    PROVE  IInv'
  <1> DEFINE path == calls[c].path
  <1>1. calls[c].pc = "api" /\ UNCHANGED <<now, app_users, auth_sessions, tokens>>
    BY DEF ServeCall, At
  <1>2. CASE path \notin Procedures
    <2>1. Answer(c, "not_found")
      BY <1>2 DEF ServeCall
    <2> QED
      BY <1>1, <2>1, AnswerStep
  <1>3. CASE path \in Procedures /\ path[1] \in Protected /\ ~Valid(calls[c].token)
    <2>1. Answer(c, "unauthenticated")
      BY <1>3 DEF ServeCall
    <2>2. path[1] \notin {"OnboardingService", "AgentQueryService"}
      BY <1>3 DEF Protected
    <2> QED
      BY <1>1, <2>1, <2>2, AnswerStep
  <1>4. CASE path \in Procedures /\ ~(path[1] \in Protected /\ ~Valid(calls[c].token))
    <2>1. PICK m \in Outcomes(path) :
             calls' = [calls EXCEPT ![c].pc = "answered", ![c].code = m, ![c].ran = path, ![c].at = now]
      BY <1>4 DEF ServeCall
    <2> DEFINE k == [calls[c] EXCEPT !.pc = "answered", !.code = m, !.ran = path, !.at = now]
    <2>2. m \in {"ok", "failed"}
      BY DEF Outcomes
    <2>3. calls[c] \in Call /\ CallOK(calls[c]) /\ now \in 0 .. MaxTime
      BY DEF IInv, WebTypeOK, TypeOK
    <2>4. k \in Call
      BY <1>4, <2>2, <2>3 DEF Call
    <2>5. calls' = [calls EXCEPT ![c] = k]
      BY <2>1
    <2>6. /\ k.pc = "answered" /\ k.by = calls[c].by /\ k.tool = calls[c].tool /\ k.path = path
          /\ k.token = calls[c].token /\ k.ran = path /\ k.at = now /\ k.code = m
      BY <2>3 DEF Call
    <2> HIDE DEF k
    <2>7. CallOK(k)
      <3>1. k.ran[1] \in Protected => k.token \in tokens /\ k.at < k.token.exp
        BY <1>4, <2>3, <2>6 DEF Valid, CallOK
      <3>2. k.tool => k.ran[1] = "AgentQueryService"
        BY <1>1, <2>3, <2>6 DEF CallOK, Tools
      <3> QED
        BY <1>1, <2>2, <2>3, <2>6, <3>1, <3>2 DEF CallOK, Before, OnTheWay
    <2> QED
      BY <1>1, <2>4, <2>5, <2>6, <2>7, CallStep
  <1> QED
    BY <1>2, <1>3, <1>4

LEMMA ProgressInv ==
    ASSUME IInv, NEW c \in Calls, Progress(c), UNCHANGED web
    PROVE  IInv'
  BY GatewayInv, CallToolInv, ServeCallInv, CallFailsInv DEF Progress

-----------------------------------------------------------------------------
(* Sign-in and tokens.                                                     *)

\* An authorized identity has a row with the id returned, and the key stays unique.
LEMMA AuthorizedRow ==
    ASSUME TypeOK, NEW i \in Identities, NEW id \in UserIds, Authorize(i, id)
    PROVE  /\ app_users \subseteq app_users' /\ app_users' \subseteq User
           /\ \A u, v \in app_users' :
                 u.id = v.id \/ <<u.issuer, u.subject>> = <<v.issuer, v.subject>> => u = v
           /\ \A u \in app_users' : Empty \notin {u.issuer, u.subject}
           /\ \E u \in app_users' : <<u.issuer, u.subject>> = Trimmed(i) /\ u.id = id
  <1>1. PICK x, y : Trimmed(i) = <<x, y>> /\ x = TrimSpace[i[1]] /\ y = TrimSpace[i[2]]
    BY DEF Trimmed
  <1>2. x \in Texts /\ y \in Texts
    BY <1>1, AccessAssumption
  <1> DEFINE row == [issuer |-> x, subject |-> y, id |-> id]
  <1>3. row \in User /\ row.issuer = x /\ row.subject = y /\ row.id = id
    BY <1>2 DEF User
  <1>4. Empty \notin {x, y} /\ UpsertUser(<<x, y>>, id)
    BY <1>1 DEF Authorize
  <1>5. CASE RowsOf(<<x, y>>) = {}
    <2>1. id \notin {u.id : u \in app_users} /\ app_users' = app_users \cup {row}
      BY <1>4, <1>5 DEF UpsertUser
    <2>2. \A u \in app_users : <<u.issuer, u.subject>> # <<x, y>> /\ u.id # id
      BY <1>5, <2>1 DEF RowsOf
    <2> HIDE DEF row
    <2> QED
      BY <1>1, <1>3, <1>4, <2>1, <2>2 DEF TypeOK
  <1>6. CASE RowsOf(<<x, y>>) # {}
    <2>1. id \in {u.id : u \in RowsOf(<<x, y>>)} /\ UNCHANGED app_users
      BY <1>4, <1>6 DEF UpsertUser
    <2>2. PICK u \in app_users : <<u.issuer, u.subject>> = <<x, y>> /\ u.id = id
      BY <2>1 DEF RowsOf
    <2> QED
      BY <1>1, <2>1, <2>2 DEF TypeOK
  <1> QED
    BY <1>5, <1>6

\* What the token issuer signs.
LEMMA AppTokenType ==
    ASSUME TypeOK, NEW p \in People, NEW id \in UserIds
    PROVE  AppToken(p, id) \in Token /\ AppToken(p, id).as = p /\ AppToken(p, id).sub = id
  <1>1. now + TTL \in 1 .. MaxTime + TTL
    BY AccessAssumption DEF TypeOK
  <1> QED
    BY <1>1 DEF AppToken, Token

\* More users and more tokens leave calls and pages as they should be.
LEMMA GrowthStep ==
    ASSUME IInv, TypeOK', app_users \subseteq app_users', tokens \subseteq tokens',
           \A t \in tokens' \ tokens : HasRow(t)', UNCHANGED <<calls, web>>
    PROVE  IInv'
  <1>1. WebTypeOK'
    BY DEF IInv, WebTypeOK, web
  <1>2. \A c \in Calls : CallOK(calls[c])'
    BY DEF IInv, CallOK
  <1>3. \A t \in tokens : HasRow(t)'
    BY DEF IInv, HasRow, RowsOf
  <1>4. \A j \in Jars : PageInv(j)'
    BY DEF IInv, PageInv, Awaited, web
  <1> QED
    BY <1>1, <1>2, <1>3, <1>4 DEF IInv

LEMMA TickInv ==
    ASSUME IInv, Tick, UNCHANGED web
    PROVE  IInv'
  <1>1. TypeOK'
    BY AccessAssumption DEF IInv, WebTypeOK, TypeOK, Tick
  <1> QED
    BY <1>1, GrowthStep DEF Tick

LEMMA ExchangeCredentialInv ==
    ASSUME IInv, NEW i \in Identities, ExchangeCredential(i), UNCHANGED web
    PROVE  IInv'
  <1>1. TypeOK
    BY DEF IInv, WebTypeOK
  <1>p. PICK p \in People : p = Trimmed(i)
    BY DEF People
  <1>2. PICK id \in UserIds : Authorize(i, id) /\ tokens' = tokens \cup {AppToken(p, id)}
    BY <1>p DEF ExchangeCredential
  <1>3. AppToken(p, id) \in Token /\ AppToken(p, id).as = p /\ AppToken(p, id).sub = id
    BY <1>1, AppTokenType
  <1>4. HasRow(AppToken(p, id))'
    <2>1. \E u \in app_users' : <<u.issuer, u.subject>> = p /\ u.id = id
      BY <1>1, <1>2, <1>p, AuthorizedRow
    <2>2. AppToken(p, id)' = AppToken(p, id)
      BY DEF AppToken, ExchangeCredential
    <2> QED
      BY <1>3, <2>1, <2>2 DEF HasRow, RowsOf
  <1>5. TypeOK'
    BY <1>1, <1>2, <1>3, AuthorizedRow DEF TypeOK, ExchangeCredential
  <1> QED
    BY <1>1, <1>2, <1>4, <1>5, AuthorizedRow, GrowthStep DEF ExchangeCredential, AppToken

LEMMA SignInInv ==
    ASSUME IInv, NEW j \in Jars, NEW i \in Identities, SignIn(j, i)
    PROVE  IInv'
  <1>1. TypeOK /\ Callback(j, i) /\ UNCHANGED web
    BY DEF IInv, WebTypeOK, SignIn
  <1>2. PICK id \in UserIds : Authorize(i, id)
    BY <1>1 DEF Callback
  <1>3. auth_sessions' \in [Jars -> People \cup {None}]
    BY <1>1 DEF TypeOK, Callback, People
  <1>4. TypeOK'
    BY <1>1, <1>2, <1>3, AuthorizedRow DEF TypeOK, Callback
  <1> QED
    BY <1>1, <1>2, <1>4, AuthorizedRow, GrowthStep DEF Callback

LEMMA AccessNextInv ==
    ASSUME IInv, AccessNext, UNCHANGED web
    PROVE  IInv'
  BY TickInv, ExchangeCredentialInv, SendInv, ProgressInv DEF AccessNext

-----------------------------------------------------------------------------
(* Pages.                                                                  *)

\* What a page shows keeps its type.
LEMMA ShowType ==
    ASSUME WebTypeOK, NEW j \in Jars, NEW s \in {"loading", "anonymous", "authenticated", "error"},
           NEW u \in UserIds \cup {None}, Show(j, s, u), u # None <=> s = "authenticated"
    PROVE  /\ state' \in [Jars -> {"loading", "anonymous", "authenticated", "error"}]
           /\ user' \in [Jars -> UserIds \cup {None}]
           /\ \A i \in Jars : user'[i] # None <=> state'[i] = "authenticated"
           /\ state'[j] = s
           /\ \A i \in Jars \ {j} : state'[i] = state[i]
  <1>1. state' = [state EXCEPT ![j] = s] /\ user' = [user EXCEPT ![j] = u]
    BY DEF Show
  <1>2. /\ state \in [Jars -> {"loading", "anonymous", "authenticated", "error"}]
        /\ user \in [Jars -> UserIds \cup {None}]
        /\ \A i \in Jars : user[i] # None <=> state[i] = "authenticated"
    BY DEF WebTypeOK
  <1>3. state'[j] = s /\ user'[j] = u
    BY <1>1, <1>2
  <1>4. \A i \in Jars \ {j} : state'[i] = state[i] /\ user'[i] = user[i]
    BY <1>1, <1>2
  <1>5. \A i \in Jars : user'[i] # None <=> state'[i] = "authenticated"
    BY <1>2, <1>3, <1>4
  <1> QED
    BY <1>1, <1>2, <1>3, <1>4, <1>5

\* A refresh begins one call and gives up others, of the same page, or none.
LEMMA RefreshEffect ==
    ASSUME IInv, NEW j \in Jars, NEW c \in Unused, NEW unheard \in BOOLEAN,
           calls' = Refreshing(j, {c}, unheard), UNCHANGED tokens
    PROVE  /\ calls' \in [Calls -> Call]
           /\ \A d \in Calls : CallOK(calls[d])'
           /\ \A i \in Jars \ {j} : Awaited(i)' = Awaited(i)
           /\ unheard \/ Awaited(j) = {} => Awaited(j)' = {c}
  <1> DEFINE begun == [Idle EXCEPT !.pc = "token", !.by = j]
             given(k) == [k EXCEPT !.by = None, !.pc = IF k.pc = "token" THEN "done" ELSE k.pc]
  <1>1. c \in Calls /\ calls[c].pc = "idle" /\ calls[c].by = None
    BY DEF Unused, At, IInv, CallOK
  <1>2. /\ begun \in Call
        /\ begun.pc = "token" /\ begun.by = j /\ CallOK(begun)
    <2>1. begun \in Call
      BY IdleType DEF Call
    <2>2. /\ begun.pc = "token" /\ begun.by = j /\ begun.tool = FALSE /\ begun.token = None
          /\ begun.ran = None /\ begun.code = "none"
      BY DEF Idle
    <2> QED
      BY <2>1, <2>2 DEF CallOK, OnTheWay
  <1>3. ASSUME NEW d \in Calls
        PROVE  /\ given(calls[d]) \in Call /\ CallOK(given(calls[d])) /\ given(calls[d]).by = None
    <2> DEFINE k == calls[d]
               g == given(k)
    <2>1. k \in Call /\ CallOK(k)
      BY DEF IInv, WebTypeOK, TypeOK
    <2>2. g \in Call
      <3>1. CASE k.pc = "token"
        BY <2>1, <3>1 DEF Call
      <3>2. CASE k.pc # "token"
        BY <2>1, <3>2 DEF Call
      <3> QED
        BY <3>1, <3>2
    <2>3. /\ g.by = None /\ g.tool = k.tool /\ g.path = k.path /\ g.token = k.token
          /\ g.ran = k.ran /\ g.at = k.at /\ g.code = k.code
          /\ g.pc = IF k.pc = "token" THEN "done" ELSE k.pc
      BY <2>1 DEF Call
    <2> HIDE DEF g
    <2>4. CallOK(g)
      BY <2>1, <2>3 DEF CallOK, Before, OnTheWay
    <2> QED
      BY <2>2, <2>3, <2>4 DEF g
  <1>4. /\ DOMAIN calls' = Calls /\ calls'[c] = begun
        /\ \A d \in Calls \ {c} : unheard /\ calls[d].by = j => calls'[d] = given(calls[d])
        /\ \A d \in Calls \ {c} : ~(unheard /\ calls[d].by = j) => calls'[d] = calls[d]
        /\ calls' = [d \in Calls |-> calls'[d]]
    BY <1>1 DEF Refreshing
  <1> HIDE DEF begun, given
  <1>5. \A d \in Calls : calls[d] \in Call /\ CallOK(calls[d])
    BY DEF IInv, WebTypeOK, TypeOK
  <1>6. \A d \in Calls : calls'[d] \in Call /\ CallOK(calls'[d])
    BY <1>2, <1>3, <1>4, <1>5
  <1>7. \A d \in Calls : CallOK(calls[d])'
    BY <1>6 DEF CallOK
  <1>8. ASSUME NEW i \in Jars, i # j
        PROVE  Awaited(i)' = Awaited(i)
    <2>1. ASSUME NEW d \in Calls, calls'[d].by = i
          PROVE  d # c /\ calls'[d] = calls[d]
      <3>1. d # c /\ i # None
        BY <1>2, <1>4, <1>8, <2>1, NoneDiffers
      <3>2. calls'[d] # given(calls[d])
        BY <1>3, <2>1, <3>1
      <3> QED
        BY <1>4, <3>1, <3>2
    <2>2. \A d \in Calls : calls[d].by = i => d # c /\ calls'[d] = calls[d]
      BY <1>1, <1>4, <1>8, NoneDiffers
    <2> QED
      BY <2>1, <2>2 DEF Awaited
  <1>9. ASSUME unheard \/ Awaited(j) = {}
        PROVE  Awaited(j)' = {c}
    <2>1. c \in Awaited(j)'
      BY <1>1, <1>2, <1>4 DEF Awaited
    <2>2. ASSUME NEW d \in Calls \ {c}
          PROVE  d \notin Awaited(j)'
      <3>1. CASE unheard /\ calls[d].by = j
        <4>1. calls'[d].by = None
          BY <1>3, <1>4, <3>1
        <4> QED
          BY <4>1, NoneDiffers DEF Awaited
      <3>2. CASE ~unheard /\ calls[d].by = j
        BY <1>4, <1>9, <3>2 DEF Awaited
      <3>3. CASE calls[d].by # j
        BY <1>4, <3>3 DEF Awaited
      <3> QED
        BY <3>1, <3>2, <3>3
    <2> QED
      BY <2>1, <2>2 DEF Awaited
  <1> QED
    BY <1>4, <1>6, <1>7, <1>8, <1>9

LEMMA LoadPageInv ==
    ASSUME IInv, NEW j \in Jars, LoadPage(j)
    PROVE  IInv'
  <1>1. UNCHANGED <<now, app_users, auth_sessions, tokens>> /\ Show(j, "loading", None)
    BY DEF LoadPage, Mount
  <1>2. PICK c \in Unused : calls' = Refreshing(j, {c}, TRUE)
    BY DEF LoadPage, Mount
  <1>3. /\ calls' \in [Calls -> Call] /\ \A d \in Calls : CallOK(calls[d])'
        /\ \A i \in Jars \ {j} : Awaited(i)' = Awaited(i)
        /\ Awaited(j)' = {c}
    BY <1>1, <1>2, RefreshEffect
  <1>4. /\ held' \in [Jars -> tokens \cup {None}] /\ leaving' \in [Jars -> BOOLEAN]
        /\ leaving'[j] = FALSE /\ \A i \in Jars \ {j} : leaving'[i] = leaving[i]
    BY DEF LoadPage, Mount, IInv, WebTypeOK
  <1>5. /\ state' \in [Jars -> {"loading", "anonymous", "authenticated", "error"}]
        /\ user' \in [Jars -> UserIds \cup {None}]
        /\ \A i \in Jars : user'[i] # None <=> state'[i] = "authenticated"
        /\ state'[j] = "loading" /\ \A i \in Jars \ {j} : state'[i] = state[i]
    BY <1>1, ShowType DEF IInv
  <1>6. WebTypeOK'
    BY <1>1, <1>3, <1>4, <1>5 DEF IInv, WebTypeOK, TypeOK
  <1>7. \A i \in Jars : PageInv(i)'
    BY <1>3, <1>4, <1>5 DEF IInv, PageInv
  <1> QED
    BY <1>1, <1>3, <1>6, <1>7 DEF IInv, HasRow, RowsOf

LEMMA RetryInv ==
    ASSUME IInv, NEW j \in Jars, Retry(j)
    PROVE  IInv'
  <1>1. UNCHANGED <<now, app_users, auth_sessions, tokens, held, leaving>> /\ Show(j, "loading", None)
    BY DEF Retry
  <1>2. PICK c \in Unused : calls' = Refreshing(j, {c}, FALSE)
    BY DEF Retry
  <1>3. Awaited(j) = {} /\ ~leaving[j]
    BY DEF IInv, WebTypeOK, PageInv, Retry
  <1>4. /\ calls' \in [Calls -> Call] /\ \A d \in Calls : CallOK(calls[d])'
        /\ \A i \in Jars \ {j} : Awaited(i)' = Awaited(i)
        /\ Awaited(j)' = {c}
    BY <1>1, <1>2, <1>3, RefreshEffect
  <1>5. /\ state' \in [Jars -> {"loading", "anonymous", "authenticated", "error"}]
        /\ user' \in [Jars -> UserIds \cup {None}]
        /\ \A i \in Jars : user'[i] # None <=> state'[i] = "authenticated"
        /\ state'[j] = "loading" /\ \A i \in Jars \ {j} : state'[i] = state[i]
    BY <1>1, ShowType DEF IInv
  <1>6. WebTypeOK'
    BY <1>1, <1>4, <1>5 DEF IInv, WebTypeOK, TypeOK
  <1>7. \A i \in Jars : PageInv(i)'
    BY <1>1, <1>3, <1>4, <1>5 DEF IInv, PageInv
  <1> QED
    BY <1>1, <1>4, <1>6, <1>7 DEF IInv, HasRow, RowsOf

\* GetSession is sent with a token that was minted.
LEMMA SentCall ==
    ASSUME IInv, NEW c \in Calls, NEW t \in Token, t \in tokens', calls[c].pc = "token",
           NEW k, k = [calls[c] EXCEPT !.pc = "gateway", !.token = t, !.path = GetSession]
    PROVE  k \in Call /\ k.by = calls[c].by /\ k.pc # "done" /\ CallOK(k)'
  <1>1. calls[c] \in Call /\ CallOK(calls[c])
    BY DEF IInv, WebTypeOK, TypeOK
  <1>2. k \in Call
    BY <1>1 DEF Call
  <1>3. /\ k.pc = "gateway" /\ k.by = calls[c].by /\ k.tool = calls[c].tool /\ k.path = GetSession
        /\ k.token = t /\ k.ran = calls[c].ran /\ k.at = calls[c].at /\ k.code = calls[c].code
    BY <1>1 DEF Call
  <1>4. k.ran = None /\ k.code = "none"
    BY <1>1, <1>3 DEF CallOK, Before
  <1>5. CallOK(k)'
    BY <1>3, <1>4 DEF CallOK, Before, OnTheWay
  <1> QED
    BY <1>2, <1>3, <1>5

LEMMA TokenFromMemoryInv ==
    ASSUME IInv, NEW c \in Calls, TokenFromMemory(c)
    PROVE  IInv'
  <1>1. calls[c].pc = "token" /\ calls[c].by \in Jars
    BY DEF TokenFromMemory, At, IInv, CallOK
  <1>2. PICK t : t = held[calls[c].by]
    OBVIOUS
  <1>3. t \in tokens /\ t \in Token
    BY <1>1, <1>2 DEF TokenFromMemory, Valid, IInv, WebTypeOK, TypeOK
  <1>k. PICK k : k = [calls[c] EXCEPT !.pc = "gateway", !.token = t, !.path = GetSession]
    OBVIOUS
  <1>4. UNCHANGED <<now, app_users, auth_sessions, tokens, web>>
    BY DEF TokenFromMemory
  <1>5. k \in Call /\ k.by = calls[c].by /\ k.pc # "done" /\ CallOK(k)'
    BY <1>1, <1>3, <1>4, <1>k, SentCall
  <1>6. calls' = [calls EXCEPT ![c] = k]
    BY <1>2, <1>k DEF TokenFromMemory, CallGetSession
  <1>7. CallOK(k)
    BY <1>4, <1>5 DEF CallOK
  <1> QED
    BY <1>1, <1>4, <1>5, <1>6, <1>7, CallStep

\* The token that is minted for the session of a page.
LEMMA MintedToken ==
    ASSUME IInv, NEW j \in Jars, auth_sessions[j] # None, NEW u \in RowsOf(auth_sessions[j]),
           NEW t, t = AppToken(auth_sessions[j], u.id), tokens' = tokens \cup {t}, UNCHANGED app_users
    PROVE  /\ t \in Token
           /\ \A s \in tokens' : HasRow(s)'
  <1>1. PICK p \in People : p = auth_sessions[j]
    BY DEF IInv, WebTypeOK, TypeOK
  <1>2. u \in app_users /\ u.id \in UserIds
    BY DEF RowsOf, IInv, WebTypeOK, TypeOK, User
  <1>3. t \in Token /\ t.as = p /\ t.sub = u.id
    BY <1>1, <1>2, AppTokenType DEF IInv, WebTypeOK
  <1>4. HasRow(t)
    BY <1>1, <1>3 DEF HasRow
  <1>5. \A s \in tokens' : HasRow(s)
    BY <1>4 DEF IInv
  <1> QED
    BY <1>3, <1>5 DEF HasRow, RowsOf

LEMMA TokenMintedInv ==
    ASSUME IInv, NEW c \in Calls, TokenMinted(c)
    PROVE  IInv'
  <1>1. PICK j : j = calls[c].by
    OBVIOUS
  <1>2. calls[c].pc = "token" /\ j \in Jars
    BY <1>1 DEF TokenMinted, At, IInv, CallOK
  <1>3. auth_sessions[j] # None /\ UNCHANGED <<now, app_users, auth_sessions, state, user, leaving>>
    BY <1>1 DEF TokenMinted
  <1>u. PICK u \in RowsOf(auth_sessions[j]) :
           LET t == AppToken(auth_sessions[j], u.id) IN
           /\ tokens' = tokens \cup {t}
           /\ held' = [held EXCEPT ![j] = t]
           /\ CallGetSession(c, t)
    BY <1>1 DEF TokenMinted
  <1>4. PICK t :
           /\ t = AppToken(auth_sessions[j], u.id)
           /\ tokens' = tokens \cup {t}
           /\ held' = [held EXCEPT ![j] = t]
           /\ CallGetSession(c, t)
    BY <1>u
  <1>5. t \in Token /\ \A s \in tokens' : HasRow(s)'
    BY <1>2, <1>3, <1>4, MintedToken
  <1>k. PICK k : k = [calls[c] EXCEPT !.pc = "gateway", !.token = t, !.path = GetSession]
    OBVIOUS
  <1>6. calls' = [calls EXCEPT ![c] = k]
    BY <1>4, <1>k DEF CallGetSession
  <1>7. k \in Call /\ k.by = calls[c].by /\ k.pc # "done" /\ CallOK(k)'
    BY <1>2, <1>4, <1>5, <1>k, SentCall
  <1>8. \A d \in Calls : CallOK(calls[d])'
    BY <1>4, <1>6, <1>7, CallsKeep
  <1>9. WebTypeOK'
    <2>1. calls' \in [Calls -> Call]
      BY <1>6, <1>7, CallEffect DEF IInv
    <2>2. held' \in [Jars -> tokens' \cup {None}]
      BY <1>4 DEF IInv, WebTypeOK
    <2> QED
      BY <1>3, <1>4, <1>5, <2>1, <2>2 DEF IInv, WebTypeOK, TypeOK
  <1>10. \A p \in Jars : PageInv(p)'
    BY <1>2, <1>3, <1>6, <1>7, AwaitedStep DEF IInv, PageInv
  <1> QED
    BY <1>5, <1>8, <1>9, <1>10 DEF IInv

\* A rejected getToken leaves its page waiting, with one more token or not.
LEMMA TokenFailsInv ==
    ASSUME IInv, NEW c \in Calls, TokenFails(c)
    PROVE  IInv'
  <1>1. PICK j : j = calls[c].by
    OBVIOUS
  <1>2. calls[c].pc = "token" /\ j \in Jars
    BY <1>1 DEF TokenFails, At, IInv, CallOK
  <1>3. UNCHANGED <<now, app_users, auth_sessions, web>>
    BY DEF TokenFails
  <1>4. tokens \subseteq tokens' /\ tokens' \subseteq Token /\ \A s \in tokens' : HasRow(s)'
    <2>1. CASE UNCHANGED tokens
      BY <1>3, <2>1 DEF IInv, WebTypeOK, TypeOK, HasRow, RowsOf
    <2>2. CASE /\ auth_sessions[j] # None
               /\ \E u \in RowsOf(auth_sessions[j]) :
                     tokens' = tokens \cup {AppToken(auth_sessions[j], u.id)}
      <3>u. PICK u \in RowsOf(auth_sessions[j]) : tokens' = tokens \cup {AppToken(auth_sessions[j], u.id)}
        BY <2>2
      <3>1. PICK t : t = AppToken(auth_sessions[j], u.id) /\ tokens' = tokens \cup {t}
        BY <3>u
      <3>2. t \in Token /\ \A s \in tokens' : HasRow(s)'
        BY <1>2, <1>3, <2>2, <3>1, MintedToken
      <3> QED
        BY <3>1, <3>2 DEF IInv, WebTypeOK, TypeOK
    <2> QED
      BY <1>1, <2>1, <2>2 DEF TokenFails
  <1>k. PICK k : k = [calls[c] EXCEPT !.pc = "rejected"]
    OBVIOUS
  <1>5. calls[c] \in Call /\ CallOK(calls[c])
    BY DEF IInv, WebTypeOK, TypeOK
  <1>6. k \in Call
    BY <1>5, <1>k, CallFields
  <1>7. /\ k.pc = "rejected" /\ k.by = calls[c].by /\ k.tool = calls[c].tool /\ k.path = calls[c].path
        /\ k.token = calls[c].token /\ k.ran = calls[c].ran /\ k.at = calls[c].at /\ k.code = calls[c].code
    BY <1>5, <1>k DEF Call
  <1>8. CallOK(k)'
    BY <1>4, <1>5, <1>7 DEF CallOK, Before, OnTheWay
  <1>9. calls' = [calls EXCEPT ![c] = k]
    BY <1>k DEF TokenFails, Goto
  <1>10. \A d \in Calls : CallOK(calls[d])'
    BY <1>4, <1>6, <1>8, <1>9, CallsKeep
  <1>11. WebTypeOK'
    <2>1. calls' \in [Calls -> Call]
      BY <1>6, <1>9, CallEffect DEF IInv
    <2> QED
      BY <1>3, <1>4, <2>1 DEF IInv, WebTypeOK, TypeOK, web
  <1>12. \A p \in Jars : PageInv(p)'
    <2>1. \A p \in Jars : Awaited(p)' \subseteq Awaited(p)
      BY <1>2, <1>6, <1>7, <1>9, AwaitedStep
    <2>2. state' = state /\ leaving' = leaving
      BY <1>3 DEF web
    <2> QED
      BY <2>1, <2>2 DEF IInv, PageInv
  <1> QED
    BY <1>4, <1>10, <1>11, <1>12 DEF IInv

\* The answer that a page waits for makes it show something, and it waits no more.
LEMMA DoneStep ==
    ASSUME IInv, NEW c \in Calls, calls[c].pc # "done", Goto(c, "done"), calls[c].by \in Jars,
           NEW s \in {"anonymous", "authenticated", "error"}, NEW u \in UserIds \cup {None},
           Show(calls[c].by, s, u), u # None <=> s = "authenticated",
           UNCHANGED <<now, app_users, auth_sessions, tokens, held, leaving>>
    PROVE  IInv'
  <1>k. PICK k : k = [calls[c] EXCEPT !.pc = "done"]
    OBVIOUS
  <1>1. calls[c] \in Call /\ CallOK(calls[c])
    BY DEF IInv, WebTypeOK, TypeOK
  <1>2. k \in Call
    BY <1>1, <1>k, CallFields
  <1>3. calls' = [calls EXCEPT ![c] = k]
    BY <1>k DEF Goto
  <1>4. /\ k.pc = "done" /\ k.by = calls[c].by /\ k.tool = calls[c].tool /\ k.path = calls[c].path
        /\ k.token = calls[c].token /\ k.ran = calls[c].ran /\ k.at = calls[c].at /\ k.code = calls[c].code
    BY <1>1, <1>k DEF Call
  <1>5. CallOK(k)'
    BY <1>1, <1>4 DEF CallOK, Before, OnTheWay
  <1>6. \A d \in Calls : CallOK(calls[d])'
    BY <1>2, <1>3, <1>5, CallsKeep
  <1>7. PICK j \in Jars : j = calls[c].by
    OBVIOUS
  <1>8. /\ \A i \in Jars : Awaited(i)' \subseteq Awaited(i)
        /\ c \in Awaited(j) /\ c \notin Awaited(j)'
    BY <1>2, <1>3, <1>4, <1>7, AwaitedStep
  <1>9. Awaited(j)' = {} /\ state[j] = "loading" /\ ~leaving[j]
    BY <1>8 DEF IInv, PageInv, WebTypeOK
  <1>10. /\ state' \in [Jars -> {"loading", "anonymous", "authenticated", "error"}]
         /\ user' \in [Jars -> UserIds \cup {None}]
         /\ \A i \in Jars : user'[i] # None <=> state'[i] = "authenticated"
         /\ state'[j] = s /\ \A i \in Jars \ {j} : state'[i] = state[i]
    BY <1>7, ShowType DEF IInv
  <1>11. \A i \in Jars : PageInv(i)'
    BY <1>8, <1>9, <1>10 DEF IInv, PageInv
  <1>12. calls' \in [Calls -> Call]
    BY <1>2, <1>3, CallEffect DEF IInv
  <1>13. WebTypeOK'
    BY <1>10, <1>12 DEF IInv, WebTypeOK, TypeOK
  <1> QED
    BY <1>6, <1>11, <1>13 DEF IInv, HasRow, RowsOf

LEMMA NoTokenInv ==
    ASSUME IInv, NEW c \in Calls, NoToken(c)
    PROVE  IInv'
  <1>1. calls[c].pc = "token" /\ calls[c].by \in Jars
    BY DEF NoToken, At, IInv, CallOK
  <1> QED
    BY <1>1, DoneStep DEF NoToken

LEMMA SettleInv ==
    ASSUME IInv, NEW c \in Calls, Settle(c)
    PROVE  IInv'
  <1>1. calls[c].pc = "answered" /\ calls[c].by \in Jars
    BY CallFields DEF Settle, At, IInv, WebTypeOK, TypeOK
  <1>2. calls[c].token.sub \in UserIds
    BY <1>1, NoneDiffers DEF IInv, CallOK, OnTheWay, WebTypeOK, TypeOK, Token
  <1>3. CASE calls[c].code = "ok"
    BY <1>1, <1>2, <1>3, NoneDiffers, DoneStep DEF Settle
  <1>4. CASE calls[c].code # "ok"
    BY <1>1, <1>4, DoneStep DEF Settle
  <1> QED
    BY <1>3, <1>4

LEMMA LogoutInv ==
    ASSUME IInv, NEW j \in Jars, Logout(j)
    PROVE  IInv'
  <1>1. /\ state[j] = "authenticated" /\ leaving' = [leaving EXCEPT ![j] = TRUE]
        /\ UNCHANGED <<now, app_users, auth_sessions, tokens, calls, state, user, held>>
    BY DEF Logout
  <1>2. WebTypeOK'
    BY <1>1 DEF IInv, WebTypeOK, TypeOK
  <1>3. \A i \in Jars : PageInv(i)'
    BY <1>1 DEF IInv, WebTypeOK, PageInv, Awaited
  <1>4. \A c \in Calls : CallOK(calls[c])'
    BY <1>1 DEF IInv, CallOK
  <1> QED
    BY <1>1, <1>2, <1>3, <1>4 DEF IInv, HasRow, RowsOf

LEMMA LogoutReturnsInv ==
    ASSUME IInv, NEW j \in Jars, LogoutReturns(j)
    PROVE  IInv'
  <1>1. leaving[j] /\ leaving' = [leaving EXCEPT ![j] = FALSE] /\ UNCHANGED <<now, app_users, tokens, calls>>
    BY DEF LogoutReturns
  <1>2. /\ auth_sessions' \in [Jars -> People \cup {None}]
        /\ held' \in [Jars -> tokens' \cup {None}]
        /\ leaving' \in [Jars -> BOOLEAN]
    BY <1>1 DEF LogoutReturns, IInv, WebTypeOK, TypeOK
  <1>3. /\ state' \in [Jars -> {"loading", "anonymous", "authenticated", "error"}]
        /\ user' \in [Jars -> UserIds \cup {None}]
        /\ \A i \in Jars : user'[i] # None <=> state'[i] = "authenticated"
        /\ \A i \in Jars \ {j} : state'[i] = state[i]
    <2>1. CASE Show(j, "anonymous", None)
      BY <2>1, ShowType DEF IInv
    <2>2. CASE UNCHANGED <<held, state, user>>
      BY <2>2 DEF IInv, WebTypeOK
    <2> QED
      BY <2>1, <2>2 DEF LogoutReturns
  <1>4. WebTypeOK'
    BY <1>1, <1>2, <1>3 DEF IInv, WebTypeOK, TypeOK
  <1>5. Awaited(j) = {} /\ \A i \in Jars : Awaited(i)' = Awaited(i)
    BY <1>1 DEF IInv, PageInv, Awaited
  <1>6. ~leaving'[j] /\ \A i \in Jars \ {j} : leaving'[i] = leaving[i]
    BY <1>1 DEF IInv, WebTypeOK
  <1>7. \A i \in Jars : PageInv(i)'
    BY <1>3, <1>5, <1>6 DEF IInv, PageInv
  <1>8. \A c \in Calls : CallOK(calls[c])'
    BY <1>1 DEF IInv, CallOK
  <1> QED
    BY <1>1, <1>4, <1>7, <1>8 DEF IInv, HasRow, RowsOf

LEMMA NextInv == IInv /\ [Next]_vars => IInv'
  <1> SUFFICES ASSUME IInv, [Next]_vars PROVE IInv'
    OBVIOUS
  <1>1. CASE UNCHANGED vars
    BY <1>1 DEF vars, web, IInv, WebTypeOK, TypeOK, CallOK, HasRow, RowsOf, PageInv, Awaited
  <1>2. ASSUME NEW j \in Jars,
               \/ LoadPage(j) \/ Retry(j) \/ Logout(j) \/ LogoutReturns(j)
               \/ \E i \in Identities : SignIn(j, i)
        PROVE  IInv'
    BY <1>2, LoadPageInv, RetryInv, LogoutInv, LogoutReturnsInv, SignInInv
  <1>3. ASSUME NEW c \in Calls, GetToken(c) \/ Settle(c)
        PROVE  IInv'
    BY <1>3, TokenFromMemoryInv, TokenMintedInv, TokenFailsInv, NoTokenInv, SettleInv DEF GetToken
  <1> QED
    BY <1>1, <1>2, <1>3, AccessNextInv DEF Next

\* Users, tokens, calls and sessions keep the invariant.
THEOREM Invariance == Spec => []IInv
  <1> QED
    BY InitInv, NextInv, PTL DEF Spec

-----------------------------------------------------------------------------
(* The results.                                                            *)

\* Every variable keeps its type, the key of app_users stays unique, and a page
\* shows a user exactly when it is authenticated (session.ts, setState).
THEOREM SessionTypes == Spec => []WebTypeOK
  <1>1. IInv => WebTypeOK
    BY DEF IInv
  <1> QED
    BY <1>1, Invariance, PTL

\* What the interceptor of app.go lets run on SampleService and PartnerService ran
\* for a token that was minted for a user's row and had not expired, whether the
\* call came through the gateway or not.
THEOREM ProtectedMethods == Spec => []ProtectedRunsForUsers
  <1>1. ASSUME IInv PROVE ProtectedRunsForUsers
    <2> SUFFICES ASSUME NEW c \in Calls, calls[c].ran # None,
                        calls[c].ran[1] \in {"SampleService", "PartnerService"}
                 PROVE  /\ calls[c].token \in tokens /\ calls[c].at < calls[c].token.exp
                        /\ \E u \in RowsOf(calls[c].token.as) : u.id = calls[c].token.sub
      BY DEF ProtectedRunsForUsers
    <2>1. calls[c].token \in tokens /\ calls[c].at < calls[c].token.exp
      BY <1>1 DEF IInv, CallOK, Protected
    <2> QED
      BY <1>1, <2>1 DEF IInv, HasRow, RowsOf
  <1>2. IInv => ProtectedRunsForUsers
    BY <1>1
  <1> QED
    BY <1>2, Invariance, PTL

\* The public form and the agents' tools are never asked for a token, neither by
\* the gateway nor by the API.
THEOREM PublicMethods == Spec => []PublicNeedsNoToken
  <1>1. IInv => PublicNeedsNoToken
    BY DEF IInv, CallOK, PublicNeedsNoToken
  <1> QED
    BY <1>1, Invariance, PTL

\* A tool call to /mcp runs a method of AgentQueryService or nothing.
THEOREM AgentTools == Spec => []AgentsOnlyQuery
  <1>1. IInv => AgentsOnlyQuery
    BY DEF IInv, CallOK, AgentsOnlyQuery
  <1> QED
    BY <1>1, Invariance, PTL

\* The upsert of dbAuthorizer gives an identity, however it is written with spaces
\* around its parts, one user, however many sign-ins and token exchanges interleave,
\* and no two identities that differ in more than that share one.
THEOREM IdentitiesAreUsers == Spec => []OneUserPerIdentity
  <1>1. ASSUME IInv PROVE OneUserPerIdentity
    <2> SUFFICES ASSUME NEW s \in tokens, NEW t \in tokens
                 PROVE  s.sub = t.sub <=> s.as = t.as
      BY DEF OneUserPerIdentity
    <2>1. PICK u \in app_users : <<u.issuer, u.subject>> = s.as /\ u.id = s.sub
      BY <1>1 DEF IInv, HasRow, RowsOf
    <2>2. PICK v \in app_users : <<v.issuer, v.subject>> = t.as /\ v.id = t.sub
      BY <1>1 DEF IInv, HasRow, RowsOf
    <2>3. u.id = v.id \/ <<u.issuer, u.subject>> = <<v.issuer, v.subject>> => u = v
      BY <1>1 DEF IInv, WebTypeOK, TypeOK
    <2> QED
      BY <2>1, <2>2, <2>3
  <1>2. IInv => OneUserPerIdentity
    BY <1>1
  <1> QED
    BY <1>2, Invariance, PTL

\* Whatever a refresh still waits for when the user signs out, the page stays
\* signed out until it is loaded again: only one call is ever awaited, and only
\* by a page that shows "Checking session..." (session.ts).
THEOREM LogoutStands == Spec => LogoutIsFinal
  <1> DEFINE Stays == \A j \in Jars : state[j] = "anonymous" => state'[j] \in {"anonymous", "loading"}
  <1>1. ASSUME IInv, [Next]_vars, NEW j \in Jars, state[j] = "anonymous"
        PROVE  state'[j] \in {"anonymous", "loading"}
    <2>1. WebTypeOK /\ ~leaving[j] /\ Awaited(j) = {}
      BY <1>1 DEF IInv, PageInv
    <2>2. \A i \in Jars : \A s, u : Show(i, s, u) => state'[j] = IF i = j THEN s ELSE state[j]
      BY <2>1 DEF Show, WebTypeOK
    <2>3. CASE UNCHANGED state
      BY <1>1, <2>3
    <2>4. ASSUME NEW i \in Jars, LoadPage(i) \/ Retry(i)
          PROVE  state'[j] \in {"anonymous", "loading"}
      <3>1. Show(i, "loading", None)
        BY <2>4 DEF LoadPage, Mount, Retry
      <3> QED
        BY <1>1, <2>2, <3>1
    <2>5. ASSUME NEW i \in Jars, LogoutReturns(i)
          PROVE  state'[j] \in {"anonymous", "loading"}
      BY <1>1, <2>2, <2>5 DEF LogoutReturns
    <2>6. ASSUME NEW c \in Calls, NoToken(c) \/ Settle(c)
          PROVE  state'[j] \in {"anonymous", "loading"}
      <3>1. calls[c].pc # "done" /\ calls[c].by \in Jars
        BY <1>1, <2>6, CallFields DEF IInv, CallOK, WebTypeOK, TypeOK, NoToken, Settle, At
      <3>2. calls[c].by # j
        BY <2>1, <3>1 DEF Awaited
      <3> QED
        BY <1>1, <2>2, <2>6, <3>1, <3>2 DEF NoToken, Settle
    <2> QED
      BY <1>1, <2>3, <2>4, <2>5, <2>6
      DEF Next, SignIn, Logout, GetToken, TokenFromMemory, TokenMinted, TokenFails, web, vars
  <1>2. IInv /\ [Next]_vars => [Stays]_vars
    BY <1>1
  <1> QED
    BY <1>2, Invariance, PTL DEF Spec, LogoutIsFinal
=============================================================================
