----------------------------- MODULE ApiProcess -----------------------------
(***************************************************************************)
(* The life of one API process: its start (cmd/api/main.go, api.Run in     *)
(* internal/api/app.go), the /mcp endpoint it serves, whose handler is     *)
(* built on the first request and cached under a mutex                     *)
(* (internal/api/agentmcp.go), its death and its restart by the kubelet.   *)
(***************************************************************************)
EXTENDS Naturals, FiniteSets

CONSTANTS
    Requests,  \* the requests to /mcp that may be made; each is made once
    None       \* no request, no handler

ASSUME NoneAssumption == None \notin Requests

\* env: the required environment variables are set; host: PGHOST is not blank;
\* auth: the signing keys and the OIDC provider are usable.
Configs == [env: BOOLEAN, host: BOOLEAN, auth: BOOLEAN]

VARIABLES
    config,   \* what the process is started with
    stage,    \* how far the process has come
    why,      \* history: why it last exited
    db,       \* the database handle of Run
    mu,       \* h.mu: the request that holds it
    handler,  \* h.handler: nil, or the handler that a request built
    pc,       \* pc[r]: where request r is
    got,      \* got[r]: what ensure returned to r
    served    \* history: the requests that this process has given a handler

startup  == <<config, stage, why, db>>
endpoint == <<mu, handler, pc, got, served>>
vars     == <<startup, endpoint>>

Init ==
    /\ config \in Configs
    /\ stage = "env"
    /\ why = "none"
    /\ db = "nil"
    /\ mu = None
    /\ handler = None
    /\ pc = [r \in Requests |-> "waiting"]
    /\ got = [r \in Requests |-> None]
    /\ served = {}

-----------------------------------------------------------------------------
(* Start.  main and Run return the first error, and the process exits.     *)

Exit == stage' = "exited" /\ why' = "error"

\* env.Parse in configFromEnv
ParseEnv ==
    /\ stage = "env"
    /\ IF config.env THEN stage' = "open" /\ UNCHANGED why ELSE Exit
    /\ UNCHANGED <<config, db, endpoint>>

\* Fault: the handle that Open returns beside an error is used.
OpenDatabase_KeepsZeroHandle ==
    /\ stage = "open"
    /\ db' = IF config.host THEN "handle" ELSE "zero"
    /\ stage' = "auth"
    /\ UNCHANGED <<config, why, endpoint>>

\* apidb.Open refuses a blank host and dials nothing; its error is only logged.
OpenDatabase ==
    /\ stage = "open"
    /\ db' = IF config.host THEN "handle" ELSE "nil"
    /\ stage' = "auth"
    /\ UNCHANGED <<config, why, endpoint>>

\* Fault: browser auth is configured without looking at the handle.
ConfigureAuth_NilAllowed ==
    /\ stage = "auth"
    /\ IF config.auth THEN stage' = "serving" /\ UNCHANGED why ELSE Exit
    /\ UNCHANGED <<config, db, endpoint>>

\* appauth.New; browserAuthHandler refuses a nil handle before anything else.
ConfigureAuth ==
    /\ stage = "auth"
    /\ IF config.auth /\ db # "nil" THEN stage' = "serving" /\ UNCHANGED why ELSE Exit
    /\ UNCHANGED <<config, db, endpoint>>

InService(r) == pc[r] \in {"lock", "check", "build", "forward"}

\* The process dies with the requests it serves, and with its cached handler.
Crash ==
    /\ stage = "serving"
    /\ stage' = "exited" /\ why' = "crash"
    /\ pc' = [r \in Requests |-> IF InService(r) THEN "lost" ELSE pc[r]]
    /\ mu' = None /\ handler' = None /\ served' = {}
    /\ UNCHANGED <<config, db, got>>

Restart ==
    /\ stage = "exited"
    /\ stage' = "env"
    /\ db' = "nil"
    /\ UNCHANGED <<config, why, endpoint>>

-----------------------------------------------------------------------------
(* ServeHTTP and ensure.                                                   *)

Goto(r, label) == pc' = [pc EXCEPT ![r] = label]

Arrive(r) ==
    /\ stage = "serving"
    /\ pc[r] = "waiting"
    /\ Goto(r, "lock")
    /\ UNCHANGED <<startup, mu, handler, got, served>>

\* Fault: the lock does not keep a second request out.
Lock_NotExclusive(r) ==
    /\ pc[r] = "lock"
    /\ mu' = r
    /\ Goto(r, "check")
    /\ UNCHANGED <<startup, handler, got, served>>

Lock(r) ==
    /\ pc[r] = "lock"
    /\ mu = None
    /\ mu' = r
    /\ Goto(r, "check")
    /\ UNCHANGED <<startup, handler, got, served>>

\* ensure returns handler h; the deferred Unlock runs.
Return(r, h) ==
    /\ got' = [got EXCEPT ![r] = h]
    /\ served' = served \cup {r}
    /\ mu' = None
    /\ Goto(r, "forward")

\* Fault: a failed build is remembered, as by a sync.Once, and not tried again.
CheckCached_RemembersFailure(r) ==
    /\ pc[r] = "check"
    /\ IF handler # None THEN Return(r, handler)
       ELSE IF \E o \in Requests : pc[o] = "unavailable"
       THEN Goto(r, "unavailable") /\ mu' = None /\ UNCHANGED <<got, served>>
       ELSE Goto(r, "build") /\ UNCHANGED <<mu, got, served>>
    /\ UNCHANGED <<startup, handler>>

CheckCached(r) ==
    /\ pc[r] = "check"
    /\ IF handler # None THEN Return(r, handler)
                         ELSE Goto(r, "build") /\ UNCHANGED <<mu, got, served>>
    /\ UNCHANGED <<startup, handler>>

BuildSucceeds(r) ==
    /\ pc[r] = "build"
    /\ handler' = r
    /\ Return(r, r)
    /\ UNCHANGED startup

\* Fault: the error return leaves the mutex locked.
BuildFails_StaysLocked(r) ==
    /\ pc[r] = "build"
    /\ Goto(r, "unavailable")
    /\ UNCHANGED <<startup, mu, handler, got, served>>

\* grpcmcp.NewServer fails: 503, and nothing is cached.
BuildFails(r) ==
    /\ pc[r] = "build"
    /\ mu' = None
    /\ Goto(r, "unavailable")
    /\ UNCHANGED <<startup, handler, got, served>>

\* handler.ServeHTTP, outside the lock: it dials this process again.
Forward(r) ==
    /\ pc[r] = "forward"
    /\ Goto(r, "served")
    /\ UNCHANGED <<startup, mu, handler, got, served>>

Serve(r) == Lock(r) \/ CheckCached(r) \/ BuildSucceeds(r) \/ BuildFails(r) \/ Forward(r)

Next ==
    \/ ParseEnv \/ OpenDatabase \/ ConfigureAuth
    \/ Crash \/ Restart
    \/ \E r \in Requests : Arrive(r) \/ Serve(r)

Spec == Init /\ [][Next]_vars

\* A goroutine that can run does run.
FairSpec == Spec /\ \A r \in Requests : WF_vars(Serve(r))

-----------------------------------------------------------------------------
\* Every variable has the type its comment gives.
TypeOK ==
    /\ config \in Configs
    /\ stage \in {"env", "open", "auth", "serving", "exited"}
    /\ why \in {"none", "error", "crash"}
    /\ db \in {"nil", "handle"}
    /\ mu \in Requests \cup {None}
    /\ handler \in Requests \cup {None}
    /\ pc \in [Requests -> {"waiting", "lock", "check", "build", "forward",
                            "served", "unavailable", "lost"}]
    /\ got \in [Requests -> Requests \cup {None}]
    /\ served \in SUBSET Requests

\* At most one request is between Lock and Unlock, and it is the holder.
HolderIsInside ==
    \A r \in Requests : pc[r] \in {"check", "build"} => mu = r

\* All requests of a process get one and the same handler, the cached one:
\* ensure never replaces a handler that a request may be using.
OneHandlerPerProcess == \A r \in served : got[r] = handler /\ handler # None

\* A request is told 503 only after a build of its own, made while no handler was
\* cached and no other request could build: a failed build is not remembered, so
\* each later request tries again, and none is refused once a build has succeeded
\* (agentmcp.go:50-69).
RefusedByOwnBuild ==
    [][\A r \in Requests : pc[r] # "unavailable" /\ pc'[r] = "unavailable" =>
          pc[r] = "build" /\ mu = r /\ handler = None]_vars

\* A process that serves has a database handle (app.go:45-56, browser.go:27), so
\* the `s.db == nil' answers of the handlers are never given, and requests are
\* in progress only in a process that serves.
ServingHasDatabase ==
    /\ stage = "serving" => db = "handle"
    /\ (\E r \in Requests : InService(r)) => stage = "serving"

\* A request to /mcp is answered, or dies with its process.
EveryRequestAnswered ==
    \A r \in Requests : InService(r) ~> pc[r] \in {"served", "unavailable", "lost"}
=============================================================================
