------------------------------- MODULE Access -------------------------------
(***************************************************************************)
(* Who may call what.  Sign-in turns an identity of the OIDC provider into *)
(* a row of app_users (internal/auth/authorization.go, db/users.go) and a  *)
(* session; the session, or a provider's token, is exchanged for an app    *)
(* token of limited life (internal/auth/browser.go, service.go).  A call   *)
(* passes the routes of the gateway (services/gateway/gateway.json), or    *)
(* comes from inside the cluster, then the services of the API with their  *)
(* interceptors (internal/api/app.go) and the switch of the generated      *)
(* handler.  A call to /mcp becomes a call of the API to itself.           *)
(***************************************************************************)
EXTENDS Protos

CONSTANTS
    Jars,       \* cookie jars: one for each browser
    Texts,      \* issuers and subjects as a provider sends them, or without spaces around
    TrimSpace,  \* TrimSpace[x]: text x without the spaces around it
    Empty,      \* the empty text
    Identities, \* external identities, pairs of an issuer and a subject
    UserIds,    \* the ids that Postgres may generate
    Calls,      \* ids of calls, each used once
    Paths,      \* procedures that are called, existing or not
    TTL,        \* life of an app token
    MaxTime,    \* bound of the clock
    None        \* no session, token or user

ASSUME AccessAssumption ==
    /\ TTL \in Nat \ {0} /\ MaxTime \in Nat
    /\ TrimSpace \in [Texts -> Texts]
    /\ Identities \subseteq Texts \X Texts
    /\ None \notin Jars \cup UserIds \cup Paths

VARIABLES
    now,           \* the clock of all processes
    app_users,     \* the table of users
    auth_sessions, \* auth_sessions[j]: who is signed in with jar j, or None
    tokens,        \* all app tokens minted so far
    calls          \* calls[c]: where call c is, and what became of it

\* Who an identity of the provider is to this program.
Trimmed(i) == <<TrimSpace[i[1]], TrimSpace[i[2]]>>
People     == {Trimmed(i) : i \in Identities}

User  == [issuer : Texts, subject : Texts, id : UserIds]
GetSession == <<"SampleService", "GetSession">>

\* as: history, who the token was minted for
Token == [sub : UserIds, scopes : {{"sample:user"}}, exp : 1 .. MaxTime + TTL, as : People]
Call  == [pc : {"idle", "token", "rejected", "gateway", "mcp", "api", "answered", "done"},
          by    : Jars \cup {None},   \* the browser whose page waits for the answer
          tool  : BOOLEAN,            \* a tool call to /mcp
          path  : Paths \cup {GetSession, None},
          token : Token \cup {None},
          ran   : Procedures \cup {None}, at : 0 .. MaxTime, \* history: what ran, when
          code  : {"none", "ok", "unauthenticated", "not_found", "spa", "failed"}]

\* Every variable has the type its comment gives, and app_users has a row of
\* the key (external_issuer, external_subject) at most once, none of it empty.
TypeOK ==
    /\ now \in 0 .. MaxTime
    /\ app_users \subseteq User
    /\ \A u, v \in app_users : u.id = v.id \/ <<u.issuer, u.subject>> = <<v.issuer, v.subject>> => u = v
    /\ \A u \in app_users : Empty \notin {u.issuer, u.subject}
    /\ auth_sessions \in [Jars -> People \cup {None}]
    /\ tokens \subseteq Token
    /\ calls \in [Calls -> Call]

Idle == [pc |-> "idle", by |-> None, tool |-> FALSE, path |-> None, token |-> None,
         ran |-> None, at |-> 0, code |-> "none"]

AccessInit ==
    /\ now = 0
    /\ app_users = {}
    /\ auth_sessions = [j \in Jars |-> None]
    /\ tokens = {}
    /\ calls = [c \in Calls |-> Idle]

Tick ==
    /\ now < MaxTime
    /\ now' = now + 1
    /\ UNCHANGED <<app_users, auth_sessions, tokens, calls>>

-----------------------------------------------------------------------------
(* Sign-in.                                                                *)

RowsOf(key) == {u \in app_users : <<u.issuer, u.subject>> = key}

\* Insert a row with a new id, or on conflict update it and return its id.
UpsertUser(key, id) ==
    IF RowsOf(key) = {}
    THEN /\ id \notin {u.id : u \in app_users}
         /\ app_users' = app_users \cup {[issuer |-> key[1], subject |-> key[2], id |-> id]}
    ELSE /\ id \in {u.id : u \in RowsOf(key)}
         /\ UNCHANGED app_users

\* Fault: an identity is refused only if all of it is blank.
Authorize_OnePart(i, id) ==
    /\ Trimmed(i) # <<Empty, Empty>>
    /\ UpsertUser(Trimmed(i), id)

\* Fault: what is stored is not what was checked.
Authorize_Untrimmed(i, id) ==
    /\ Empty \notin {Trimmed(i)[1], Trimmed(i)[2]}
    /\ UpsertUser(i, id)

\* dbAuthorizer.Authorize; it refuses an identity with a blank part, and spaces
\* around a part make no difference.
Authorize(i, id) ==
    /\ Empty \notin {Trimmed(i)[1], Trimmed(i)[2]}
    /\ UpsertUser(Trimmed(i), id)

\* The provider's callback with jar j; the statement may commit and its reply be
\* lost, and then there is no session.
Callback(j, i) ==
    /\ \E id \in UserIds : Authorize(i, id)
    /\ \/ auth_sessions' = [auth_sessions EXCEPT ![j] = Trimmed(i)]
       \/ UNCHANGED auth_sessions
    /\ UNCHANGED <<now, tokens, calls>>

\* tokenIssuer: what is signed for person p, whose row has that id.
AppToken(p, id) == [sub |-> id, scopes |-> {"sample:user"}, exp |-> now + TTL, as |-> p]

\* adiom.auth.v1.AuthService: a provider's token for an app token.
ExchangeCredential(i) ==
    /\ \E id \in UserIds : /\ Authorize(i, id)
                           /\ tokens' = tokens \cup {AppToken(Trimmed(i), id)}
    /\ UNCHANGED <<now, auth_sessions, calls>>

-----------------------------------------------------------------------------
(* A call on its way.                                                      *)

At(c, label) == calls[c].pc = label
Goto(c, label)  == calls' = [calls EXCEPT ![c].pc = label]
Answer(c, code) == calls' = [calls EXCEPT ![c].pc = "answered", ![c].code = code]

Valid(t) == t # None /\ now < t.exp /\ "sample:user" \in t.scopes

\* The prefixes that the gateway forwards, and those that need no token.
Routes       == {"SampleService", "PartnerService", "OnboardingService", "/mcp"}
PublicRoutes == {"OnboardingService", "/mcp"}

\* Fault: one service is registered without the interceptor.
Protected_SampleOnly == {"SampleService"}

\* Fault: onboarding is registered like the other services.
Protected_Onboarding == {"SampleService", "PartnerService", "OnboardingService"}

\* The services that app.go registers with tokenissuer.ConnectAuth.
Protected == {"SampleService", "PartnerService"}

\* Fault: no service is named, so all of the descriptors' services are offered.
Tools_Unfiltered ==
    LET compiled == UNION {FileServices[f] : f \in {"agentquery"} \cup ToSet(Imports["agentquery"])}
    IN  {p \in Procedures : p[1] \in compiled}

\* grpcmcp.NewServer: the services of the descriptors that Services names.
Tools ==
    LET compiled == UNION {FileServices[f] : f \in {"agentquery"} \cup ToSet(Imports["agentquery"])}
    IN  {p \in Procedures : p[1] \in compiled \cap {"AgentQueryService"}}

\* A client makes a call, with any token it may have come by, from outside
\* (through the gateway) or from inside the cluster.  The clients of the public
\* services and the agents send none.
Send(c, path, t, tool, outside) ==
    /\ At(c, "idle")
    /\ t # None => ~tool /\ path[1] \in Protected
    /\ calls' = [calls EXCEPT ![c] =
                    [Idle EXCEPT !.pc = IF outside THEN "gateway" ELSE IF tool THEN "mcp" ELSE "api",
                                 !.path = path, !.token = t, !.tool = tool]]
    /\ UNCHANGED <<now, app_users, auth_sessions, tokens>>

\* What has no route belongs to the web client's files.
Gateway(c) ==
    /\ At(c, "gateway")
    /\ LET route == IF calls[c].tool THEN "/mcp" ELSE calls[c].path[1]
       IN  CASE route \notin Routes -> Answer(c, "spa")
             [] route \in Routes /\ (route \in PublicRoutes \/ Valid(calls[c].token)) ->
                    Goto(c, IF calls[c].tool THEN "mcp" ELSE "api")
             [] OTHER -> Answer(c, "unauthenticated")
    /\ UNCHANGED <<now, app_users, auth_sessions, tokens>>

\* The MCP server has the tool and dials the API, without credentials, or not.
CallTool(c) ==
    /\ At(c, "mcp")
    /\ IF calls[c].path \in Tools THEN Goto(c, "api") ELSE Answer(c, "not_found")
    /\ UNCHANGED <<now, app_users, auth_sessions, tokens>>

\* GetSession has no error of its own: it reports a failing ping in its answer.
Outcomes(path) == IF path = GetSession THEN {"ok"} ELSE {"ok", "failed"}

\* The mux finds the service, the generated switch the method, the interceptor
\* checks the token; then the method runs, and may fail.
ServeCall(c) ==
    /\ At(c, "api")
    /\ LET path == calls[c].path IN
       CASE path \notin Procedures -> Answer(c, "not_found")
         [] path \in Procedures /\ path[1] \in Protected /\ ~Valid(calls[c].token) ->
                Answer(c, "unauthenticated")
         [] OTHER ->
                \E code \in Outcomes(path) :
                    calls' = [calls EXCEPT ![c].pc = "answered", ![c].code = code,
                                           ![c].ran = path, ![c].at = now]
    /\ UNCHANGED <<now, app_users, auth_sessions, tokens>>

\* The network fails, or a process dies.
CallFails(c) ==
    /\ calls[c].pc \in {"gateway", "mcp", "api"}
    /\ Answer(c, "failed")
    /\ UNCHANGED <<now, app_users, auth_sessions, tokens>>

Progress(c) == Gateway(c) \/ CallTool(c) \/ ServeCall(c) \/ CallFails(c)

AccessNext ==
    \/ Tick
    \/ \E i \in Identities : ExchangeCredential(i)
    \/ \E c \in Calls :
          \/ \E path \in Paths, t \in tokens \cup {None}, tool, outside \in BOOLEAN :
                Send(c, path, t, tool, outside)
          \/ Progress(c)

-----------------------------------------------------------------------------
(* Properties.                                                             *)

\* INV-3, INV-4, INV-11: a protected method runs only for a token that had not
\* expired at that moment, whose subject is the user row of the identity that
\* signed in; also for calls that do not come through the gateway.
ProtectedRunsForUsers ==
    \A c \in Calls :
        LET t == calls[c].token IN
        calls[c].ran # None /\ calls[c].ran[1] \in {"SampleService", "PartnerService"} =>
            /\ t \in tokens /\ calls[c].at < t.exp
            /\ \E u \in RowsOf(t.as) : u.id = t.sub

\* INV-4: nobody is asked for a token on a public path, an agent's tool included.
PublicNeedsNoToken ==
    \A c \in Calls : calls[c].code = "unauthenticated" =>
        calls[c].path[1] \notin {"OnboardingService", "AgentQueryService"}

\* INV-4b: whatever enters at /mcp runs only methods of AgentQueryService.
AgentsOnlyQuery ==
    \A c \in Calls : calls[c].tool /\ calls[c].ran # None => calls[c].ran[1] = "AgentQueryService"

\* docs/data-flows.md, flow 1: the external identity determines the subject of
\* its tokens, and the subject the identity, however many sign-ins run at once.
\* Spaces around an issuer or a subject do not make another identity
\* (authorization.go:22-23).
OneUserPerIdentity == \A s, t \in tokens : s.sub = t.sub <=> s.as = t.as
=============================================================================
