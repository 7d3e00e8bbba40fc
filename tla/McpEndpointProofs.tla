------------------------- MODULE McpEndpointProofs --------------------------
(* Proofs about ApiProcess, for any set of requests, and about McpEndpoint, *)
(* for any set of proto files whose imports have no cycle.                  *)
EXTENDS McpEndpoint, TLAPS

-----------------------------------------------------------------------------
(* The process and its handler.                                             *)

\* A request that builds holds the mutex and found no handler, so none can have
\* been handed out.
BuilderFoundNone == \A r \in Requests : pc[r] = "build" => handler = None

IInv ==
    /\ TypeOK
    /\ HolderIsInside
    /\ BuilderFoundNone
    /\ OneHandlerPerProcess
    /\ ServingHasDatabase

LEMMA InitInv == Init => IInv
  BY DEF Init, IInv, TypeOK, HolderIsInside, BuilderFoundNone, OneHandlerPerProcess,
         ServingHasDatabase, InService

\* The start of a process touches no request, and ends with a handle.
LEMMA StartInv ==
    ASSUME IInv, ParseEnv \/ OpenDatabase \/ ConfigureAuth
    PROVE  IInv'
  <1>1. TypeOK'
    BY DEF IInv, TypeOK, ParseEnv, OpenDatabase, ConfigureAuth, Exit, endpoint
  <1>2. UNCHANGED endpoint /\ stage # "serving"
    BY DEF ParseEnv, OpenDatabase, ConfigureAuth
  <1>3. HolderIsInside' /\ BuilderFoundNone' /\ OneHandlerPerProcess'
    BY <1>2 DEF IInv, endpoint, HolderIsInside, BuilderFoundNone, OneHandlerPerProcess
  <1>4. stage' = "serving" => db' = "handle"
    BY DEF IInv, TypeOK, ParseEnv, OpenDatabase, ConfigureAuth, Exit
  <1>5. ~\E r \in Requests : InService(r)'
    BY <1>2 DEF IInv, ServingHasDatabase, InService, endpoint
  <1> QED
    BY <1>1, <1>3, <1>4, <1>5 DEF IInv, ServingHasDatabase

LEMMA CrashInv ==
    ASSUME IInv, Crash
    PROVE  IInv'
  <1>1. TypeOK'
    BY DEF IInv, TypeOK, Crash
  <1>2. \A r \in Requests : pc'[r] \notin {"lock", "check", "build", "forward"}
    BY DEF Crash, InService
  <1> QED
    BY <1>1, <1>2 DEF IInv, Crash, HolderIsInside, BuilderFoundNone, OneHandlerPerProcess,
                      ServingHasDatabase, InService

LEMMA RestartInv ==
    ASSUME IInv, Restart
    PROVE  IInv'
  BY DEF IInv, TypeOK, Restart, endpoint, HolderIsInside, BuilderFoundNone, OneHandlerPerProcess,
         ServingHasDatabase, InService

\* A step of a request: the process serves, and goes on doing so.
LEMMA RequestInv ==
    ASSUME IInv, NEW r \in Requests, Arrive(r) \/ Serve(r)
    PROVE  IInv'
  <1>1. TypeOK'
    BY DEF IInv, TypeOK, Arrive, Serve, Lock, CheckCached, BuildSucceeds, BuildFails, Forward,
           Return, Goto, startup
  <1>2. UNCHANGED startup /\ stage = "serving"
    BY DEF IInv, ServingHasDatabase, InService, Arrive, Serve, Lock, CheckCached, BuildSucceeds,
           BuildFails, Forward, Return, startup
  <1>3. ServingHasDatabase'
    BY <1>2 DEF IInv, ServingHasDatabase, startup
  <1>4. \A o \in Requests \ {r} : pc'[o] = pc[o] /\ got'[o] = got[o]
    BY DEF IInv, TypeOK, Arrive, Serve, Lock, CheckCached, BuildSucceeds, BuildFails, Forward,
           Return, Goto
  <1>5. CASE Arrive(r) \/ Forward(r)
    <2>1. pc'[r] \in {"lock", "served"} /\ UNCHANGED <<mu, handler, got, served>>
      BY <1>5 DEF IInv, TypeOK, Arrive, Forward, Goto
    <2> QED
      BY <1>1, <1>3, <1>4, <2>1 DEF IInv, HolderIsInside, BuilderFoundNone, OneHandlerPerProcess
  <1>6. CASE Lock(r)
    <2>1. /\ pc'[r] = "check" /\ mu = None /\ mu' = r
          /\ UNCHANGED <<handler, got, served>>
      BY <1>6 DEF IInv, TypeOK, Lock, Goto
    <2>2. \A o \in Requests : pc[o] \notin {"check", "build"}
      BY <2>1, NoneAssumption DEF IInv, HolderIsInside
    <2> QED
      BY <1>1, <1>3, <1>4, <2>1, <2>2
         DEF IInv, HolderIsInside, BuilderFoundNone, OneHandlerPerProcess
  <1>7. ASSUME pc[r] \in {"check", "build"}
        PROVE  \A o \in Requests \ {r} : pc[o] \notin {"check", "build"}
    BY <1>7 DEF IInv, HolderIsInside
  <1>8. CASE CheckCached(r)
    <2>1. CASE handler # None
      <3>1. /\ pc'[r] = "forward" /\ got'[r] = handler /\ handler' = handler
            /\ served' = served \cup {r}
        BY <1>8, <2>1 DEF IInv, TypeOK, CheckCached, Return, Goto
      <3> QED
        BY <1>1, <1>3, <1>4, <1>7, <1>8, <2>1, <3>1
           DEF IInv, TypeOK, CheckCached, HolderIsInside, BuilderFoundNone, OneHandlerPerProcess
    <2>2. CASE handler = None
      <3>1. pc'[r] = "build" /\ UNCHANGED <<mu, handler, got, served>> /\ mu = r
        BY <1>8, <2>2 DEF IInv, TypeOK, CheckCached, Goto, HolderIsInside
      <3> QED
        BY <1>1, <1>3, <1>4, <2>2, <3>1
           DEF IInv, HolderIsInside, BuilderFoundNone, OneHandlerPerProcess
    <2> QED
      BY <2>1, <2>2
  <1>9. CASE BuildSucceeds(r)
    <2>1. /\ pc[r] = "build" /\ pc'[r] = "forward" /\ got'[r] = r /\ handler' = r
          /\ served' = served \cup {r}
      BY <1>9 DEF IInv, TypeOK, BuildSucceeds, Return, Goto
    <2>2. served = {}
      BY <2>1 DEF IInv, TypeOK, BuilderFoundNone, OneHandlerPerProcess
    <2> QED
      BY <1>1, <1>3, <1>4, <1>7, <2>1, <2>2, NoneAssumption
         DEF IInv, HolderIsInside, BuilderFoundNone, OneHandlerPerProcess
  <1>10. CASE BuildFails(r)
    <2>1. pc[r] = "build" /\ pc'[r] = "unavailable" /\ UNCHANGED <<handler, got, served>>
      BY <1>10 DEF IInv, TypeOK, BuildFails, Goto
    <2> QED
      BY <1>1, <1>3, <1>4, <1>7, <2>1
         DEF IInv, HolderIsInside, BuilderFoundNone, OneHandlerPerProcess
  <1> QED
    BY <1>5, <1>6, <1>8, <1>9, <1>10 DEF Serve

LEMMA NextInv == IInv /\ [Next]_vars => IInv'
  <1> SUFFICES ASSUME IInv, [Next]_vars PROVE IInv'
    OBVIOUS
  <1>1. CASE UNCHANGED vars
    BY <1>1 DEF vars, startup, endpoint, IInv, TypeOK, HolderIsInside, BuilderFoundNone,
                OneHandlerPerProcess, ServingHasDatabase, InService
  <1> QED
    BY <1>1, StartInv, CrashInv, RestartInv, RequestInv DEF Next

\* The process of ApiProcess keeps its invariant.
THEOREM Invariance == Spec => []IInv
  <1> QED
    BY InitInv, NextInv, PTL DEF Spec

\* All requests that one process serves use one handler, whatever builds fail
\* and however the requests interleave (agentmcp.go:50-69).
THEOREM OneHandler == Spec => []OneHandlerPerProcess
  <1>1. IInv => OneHandlerPerProcess
    BY DEF IInv
  <1> QED
    BY <1>1, Invariance, PTL

\* A process that serves has a database handle: the nil checks of the RPC
\* handlers are never taken (app.go:45-56, browser.go:27-29).
THEOREM HandleWhileServing == Spec => []ServingHasDatabase
  <1>1. IInv => ServingHasDatabase
    BY DEF IInv
  <1> QED
    BY <1>1, Invariance, PTL

\* A request is told 503 only by a failed build of its own, made under the mutex
\* while no handler was cached, whatever builds of others have failed
\* (agentmcp.go:50-69).
THEOREM RefusalsAreOwn == Spec => RefusedByOwnBuild
  <1> DEFINE Step == \A r \in Requests :
                        pc[r] # "unavailable" /\ pc'[r] = "unavailable" =>
                           pc[r] = "build" /\ mu = r /\ handler = None
  <1>1. ASSUME IInv, [Next]_vars PROVE Step
    <2>1. SUFFICES ASSUME NEW r \in Requests, pc[r] # "unavailable", pc'[r] = "unavailable"
                   PROVE  pc[r] = "build" /\ mu = r /\ handler = None
      OBVIOUS
    <2>2. pc[r] = "build"
      BY <1>1, <2>1
         DEF Next, vars, startup, endpoint, IInv, TypeOK, ParseEnv, OpenDatabase, ConfigureAuth,
             Crash, Restart, Arrive, Serve, Lock, CheckCached, BuildSucceeds, BuildFails, Forward,
             Return, Goto
    <2> QED
      BY <1>1, <2>2 DEF IInv, BuilderFoundNone, HolderIsInside
  <1>2. IInv /\ [Next]_vars => [Step]_vars
    BY <1>1
  <1> QED
    BY <1>2, Invariance, PTL DEF Spec, RefusedByOwnBuild

-----------------------------------------------------------------------------
(* A walk over the imports: files are listed after their imports.          *)

CallsOfWalk == [file : Paths, next : Nat \ {0}]

Ranks(graph) ==
    {rank \in [Paths -> 0 .. Cardinality(Paths)] :
        \A f \in Paths : \A g \in ToSet(graph[f]) : rank[g] < rank[f]}

Imports(graph, f) == ToSet(graph[f])

LEMMA RankIsNumber ==
    ASSUME NEW graph, NEW rank \in Ranks(graph)
    PROVE  \A p \in Paths : rank[p] \in Nat
  <1>1. rank \in [Paths -> 0 .. Cardinality(Paths)]
    BY DEF Ranks
  <1> QED
    BY <1>1

\* The files of a list, all different, each after the files it imports.
Listing(files, graph) ==
    /\ \A i \in DOMAIN files : Imports(graph, files[i]) \subseteq {files[j] : j \in 1 .. (i - 1)}
    /\ IsInjective(files)

\* A file on the stack is not yet listed; the imports it has visited are, but
\* for the one that is being visited.  The stack descends in the graph, so that
\* no file is on it twice.
Descent(st, files, graph) ==
    /\ \A i \in DOMAIN st : st[i].file \notin ToSet(files)
    /\ \A i \in DOMAIN st : st[i].next <= Len(graph[st[i].file]) + 1
    /\ \A i \in DOMAIN st : \A j \in 1 .. (st[i].next - 1) :
          \/ graph[st[i].file][j] \in ToSet(files)
          \/ i + 1 \in DOMAIN st /\ st[i + 1].file = graph[st[i].file][j]
    /\ \A rank \in Ranks(graph) : \A i, j \in DOMAIN st : i < j => rank[st[j].file] < rank[st[i].file]

FilesOf(st) == {st[i].file : i \in DOMAIN st}

AdvancedTo(st, moved, n) ==
    /\ n \in Nat \ {0} /\ n \in DOMAIN st /\ DOMAIN st = 1 .. n
    /\ moved \in Seq(CallsOfWalk) /\ DOMAIN moved = DOMAIN st /\ Len(moved) = n
    /\ \A i \in DOMAIN st : moved[i].file = st[i].file
    /\ \A i \in DOMAIN st : i # n => moved[i].next = st[i].next
    /\ moved[n].next = st[n].next + 1
    /\ \A i \in DOMAIN st : st[i].file \in Paths /\ st[i].next \in Nat \ {0}

\* A stack after its last element went on to the next import.
LEMMA AdvancedStack ==
    ASSUME NEW st \in Seq(CallsOfWalk), st # <<>>, NEW n, n = Len(st),
           NEW moved, moved = [st EXCEPT ![n].next = @ + 1]
    PROVE  AdvancedTo(st, moved, n)
  <1>1. n \in Nat \ {0} /\ n \in DOMAIN st /\ DOMAIN st = 1 .. n
    OBVIOUS
  <1>2. \A i \in DOMAIN st : st[i] \in CallsOfWalk
    OBVIOUS
  <1>3. moved = [st EXCEPT ![n] = [st[n] EXCEPT !.next = st[n].next + 1]]
    OBVIOUS
  <1>e. PICK e : e = [st[n] EXCEPT !.next = st[n].next + 1]
    OBVIOUS
  <1>4. e \in CallsOfWalk /\ e.file = st[n].file /\ e.next = st[n].next + 1
    BY <1>1, <1>2, <1>e DEF CallsOfWalk
  <1>5. DOMAIN moved = DOMAIN st /\ moved[n] = e /\ \A i \in DOMAIN st : i # n => moved[i] = st[i]
    BY <1>1, <1>3, <1>e
  <1>6. moved \in Seq(CallsOfWalk) /\ Len(moved) = n
    BY <1>1, <1>3, <1>4, <1>e
  <1>7. \A i \in DOMAIN st : st[i].file \in Paths /\ st[i].next \in Nat \ {0}
    BY <1>2 DEF CallsOfWalk
  <1>8. \A i \in DOMAIN st : moved[i].file = st[i].file
    BY <1>4, <1>5
  <1>9. \A i \in DOMAIN st : i # n => moved[i].next = st[i].next
    BY <1>5
  <1> QED
    BY <1>1, <1>4, <1>5, <1>6, <1>7, <1>8, <1>9 DEF AdvancedTo

\* An import that is listed is passed over.
LEMMA PassedOver ==
    ASSUME NEW graph \in [Paths -> Seq(Paths)], NEW files \in Seq(Paths),
           NEW st \in Seq(CallsOfWalk), NEW n, NEW moved, AdvancedTo(st, moved, n),
           Descent(st, files, graph),
           st[n].next <= Len(graph[st[n].file]), graph[st[n].file][st[n].next] \in ToSet(files)
    PROVE  moved \in Seq(CallsOfWalk) /\ Descent(moved, files, graph)
  <1>1. /\ n \in DOMAIN st /\ moved \in Seq(CallsOfWalk) /\ DOMAIN moved = DOMAIN st
        /\ \A i \in DOMAIN st : moved[i].file = st[i].file
        /\ \A i \in DOMAIN st : i # n => moved[i].next = st[i].next
        /\ moved[n].next = st[n].next + 1
        /\ \A i \in DOMAIN st : st[i].file \in Paths /\ st[i].next \in Nat \ {0}
    BY DEF AdvancedTo
  <1>2. ASSUME NEW i \in DOMAIN st
        PROVE  /\ moved[i].next <= Len(graph[st[i].file]) + 1
               /\ \A j \in 1 .. (moved[i].next - 1) :
                     \/ graph[st[i].file][j] \in ToSet(files)
                     \/ i + 1 \in DOMAIN st /\ st[i + 1].file = graph[st[i].file][j]
    <2>1. CASE i = n
      <3>1. Len(graph[st[n].file]) \in Nat
        BY <1>1
      <3>2. moved[n].next <= Len(graph[st[n].file]) + 1
        BY <1>1, <3>1
      <3>3. \A j \in 1 .. (moved[n].next - 1) : j = st[n].next \/ j \in 1 .. (st[n].next - 1)
        BY <1>1
      <3> QED
        BY <1>1, <2>1, <3>2, <3>3 DEF Descent
    <2>2. CASE i # n
      BY <1>1, <2>2 DEF Descent
    <2> QED
      BY <2>1, <2>2
  <1>4. \A i \in DOMAIN moved : moved[i].file \notin ToSet(files)
    BY <1>1 DEF Descent
  <1>5. \A i \in DOMAIN moved : moved[i].next <= Len(graph[moved[i].file]) + 1
    BY <1>1, <1>2
  <1>6. \A i \in DOMAIN moved : \A j \in 1 .. (moved[i].next - 1) :
           \/ graph[moved[i].file][j] \in ToSet(files)
           \/ i + 1 \in DOMAIN moved /\ moved[i + 1].file = graph[moved[i].file][j]
    <2>1. SUFFICES ASSUME NEW i \in DOMAIN moved, NEW j \in 1 .. (moved[i].next - 1)
                   PROVE  \/ graph[moved[i].file][j] \in ToSet(files)
                          \/ i + 1 \in DOMAIN moved /\ moved[i + 1].file = graph[moved[i].file][j]
      OBVIOUS
    <2>2. i \in DOMAIN st /\ i \in DOMAIN moved /\ moved[i].file = st[i].file
      BY <1>1
    <2>3. \/ graph[st[i].file][j] \in ToSet(files)
          \/ i + 1 \in DOMAIN st /\ st[i + 1].file = graph[st[i].file][j]
      BY <1>2, <2>2
    <2>4. i + 1 \in DOMAIN st => i + 1 \in DOMAIN moved /\ moved[i + 1].file = st[i + 1].file
      BY <1>1
    <2> QED
      BY <2>2, <2>3, <2>4
  <1>7. \A rank \in Ranks(graph) : \A i, j \in DOMAIN moved :
           i < j => rank[moved[j].file] < rank[moved[i].file]
    BY <1>1 DEF Descent
  <1> QED
    BY <1>1, <1>4, <1>5, <1>6, <1>7 DEF Descent

Deepened(st, f, deeper, files, graph) ==
    /\ deeper \in Seq(CallsOfWalk) /\ Descent(deeper, files, graph)
    /\ FilesOf(deeper) = FilesOf(st) \cup {f}

\* An import that is not listed is entered.
LEMMA Entered ==
    ASSUME NEW graph \in [Paths -> Seq(Paths)], NEW files \in Seq(Paths),
           NEW st \in Seq(CallsOfWalk), NEW n, NEW moved, AdvancedTo(st, moved, n),
           Descent(st, files, graph),
           st[n].next <= Len(graph[st[n].file]),
           NEW f, f = graph[st[n].file][st[n].next], f \notin ToSet(files),
           NEW deeper, deeper = Append(moved, [file |-> f, next |-> 1])
    PROVE  Deepened(st, f, deeper, files, graph)
  <1>1. /\ n \in Nat \ {0} /\ n \in DOMAIN st /\ DOMAIN st = 1 .. n
        /\ moved \in Seq(CallsOfWalk) /\ DOMAIN moved = DOMAIN st /\ Len(moved) = n
        /\ \A i \in DOMAIN st : moved[i].file = st[i].file
        /\ \A i \in DOMAIN st : i # n => moved[i].next = st[i].next
        /\ moved[n].next = st[n].next + 1
        /\ \A i \in DOMAIN st : st[i].file \in Paths /\ st[i].next \in Nat \ {0}
    BY DEF AdvancedTo
  <1>2. f \in Paths /\ f \in Imports(graph, st[n].file)
    <2>1. graph[st[n].file] \in Seq(Paths) /\ st[n].next \in DOMAIN graph[st[n].file]
      BY <1>1
    <2> QED
      BY <2>1 DEF Imports, ToSet
  <1>e. PICK e : e = [file |-> f, next |-> 1]
    OBVIOUS
  <1>3. e \in CallsOfWalk /\ e.file = f /\ e.next = 1
    BY <1>2, <1>e DEF CallsOfWalk
  <1>4. /\ deeper \in Seq(CallsOfWalk) /\ DOMAIN deeper = 1 .. (n + 1) /\ deeper[n + 1] = e
        /\ \A i \in 1 .. n : deeper[i] = moved[i]
    BY <1>1, <1>3, <1>e
  <1>5. /\ DOMAIN deeper = DOMAIN st \cup {n + 1} /\ deeper[n + 1].file = f /\ deeper[n + 1].next = 1
        /\ \A i \in DOMAIN st : deeper[i].file = st[i].file /\ deeper[i].next = moved[i].next
    BY <1>1, <1>3, <1>4
  <1>6. \A i \in DOMAIN deeper : deeper[i].file \notin ToSet(files)
    BY <1>5 DEF Descent
  <1>7. ASSUME NEW i \in DOMAIN deeper
        PROVE  /\ deeper[i].next <= Len(graph[deeper[i].file]) + 1
               /\ \A j \in 1 .. (deeper[i].next - 1) :
                     \/ graph[deeper[i].file][j] \in ToSet(files)
                     \/ i + 1 \in DOMAIN deeper /\ deeper[i + 1].file = graph[deeper[i].file][j]
    <2>0. \A p \in Paths : Len(graph[p]) \in Nat
      OBVIOUS
    <2>1. CASE i = n + 1
      <3>1. PICK len : len = Len(graph[f])
        OBVIOUS
      <3>0. len \in Nat
        BY <1>2, <2>0, <3>1, Zenon
      <3>2. 1 <= len + 1
        BY <3>0
      <3>3. deeper[i].file = f /\ deeper[i].next = 1
        BY <1>5, <2>1
      <3>4. deeper[i].next <= Len(graph[deeper[i].file]) + 1
        BY <3>1, <3>2, <3>3
      <3>5. 1 .. (deeper[i].next - 1) = {}
        BY <3>3
      <3> QED
        BY <3>4, <3>5
    <2>2. CASE i = n
      <3>1. deeper[n].next = st[n].next + 1 /\ deeper[n].file = st[n].file
        BY <1>1, <1>5
      <3>2. deeper[n].next <= Len(graph[deeper[n].file]) + 1
        BY <1>1, <2>0, <3>1
      <3>3. \A j \in 1 .. (deeper[n].next - 1) : j = st[n].next \/ j \in 1 .. (st[n].next - 1)
        <4>1. PICK next : next = st[n].next
          OBVIOUS
        <4>2. next \in Nat /\ deeper[n].next = next + 1
          BY <1>1, <3>1, <4>1
        <4>3. \A j \in 1 .. ((next + 1) - 1) : j = next \/ j \in 1 .. (next - 1)
          BY <4>2
        <4> QED
          BY <4>1, <4>2, <4>3
      <3>4. n + 1 \in DOMAIN deeper /\ n + 1 \notin DOMAIN st
        BY <1>1, <1>5
      <3>5. \A j \in 1 .. (st[n].next - 1) : graph[st[n].file][j] \in ToSet(files)
        BY <1>1, <3>4 DEF Descent
      <3>6. graph[st[n].file][st[n].next] = f
        OBVIOUS
      <3> QED
        BY <1>5, <2>2, <3>1, <3>2, <3>3, <3>4, <3>5, <3>6
    <2>3. CASE i # n + 1 /\ i # n
      <3>1. i \in DOMAIN st /\ deeper[i].file = st[i].file /\ deeper[i].next = st[i].next
        BY <1>1, <1>5, <2>3
      <3>2. \A k \in DOMAIN st : k \in DOMAIN deeper /\ deeper[k].file = st[k].file
        BY <1>5
      <3> QED
        BY <3>1, <3>2 DEF Descent
    <2> QED
      BY <2>1, <2>2, <2>3
  <1>8. ASSUME NEW rank \in Ranks(graph), NEW i \in DOMAIN deeper, NEW j \in DOMAIN deeper, i < j
        PROVE  rank[deeper[j].file] < rank[deeper[i].file]
    <2>1. i \in DOMAIN st /\ (j \in DOMAIN st \/ j = n + 1)
      BY <1>1, <1>5, <1>8
    <2>2. CASE j \in DOMAIN st
      BY <1>5, <1>8, <2>1, <2>2 DEF Descent
    <2>3. CASE j = n + 1
      <3>1. rank[f] < rank[st[n].file]
        BY <1>1, <1>2 DEF Ranks, Imports
      <3>2. i = n \/ (i < n /\ rank[st[n].file] < rank[st[i].file])
        <4>1. i \in 1 .. n
          BY <1>1, <2>1
        <4>2. i = n \/ i < n
          BY <1>1, <4>1
        <4>3. i < n => rank[st[n].file] < rank[st[i].file]
          BY <1>1, <2>1 DEF Descent
        <4> QED
          BY <4>2, <4>3
      <3>3. rank[f] \in Nat /\ rank[st[n].file] \in Nat /\ rank[st[i].file] \in Nat
        <4>1. f \in Paths /\ st[n].file \in Paths /\ st[i].file \in Paths
          BY <1>1, <1>2, <2>1
        <4> QED
          BY <4>1, RankIsNumber
      <3>4. rank[f] < rank[st[i].file]
        BY <3>1, <3>2, <3>3
      <3> QED
        BY <1>5, <2>1, <2>3, <3>4
    <2> QED
      BY <2>1, <2>2, <2>3
  <1>9. Descent(deeper, files, graph)
    <2>1. \A i \in DOMAIN deeper : deeper[i].next <= Len(graph[deeper[i].file]) + 1
      BY <1>7
    <2>2. \A i \in DOMAIN deeper : \A j \in 1 .. (deeper[i].next - 1) :
             \/ graph[deeper[i].file][j] \in ToSet(files)
             \/ i + 1 \in DOMAIN deeper /\ deeper[i + 1].file = graph[deeper[i].file][j]
      BY <1>7
    <2>3. \A rank \in Ranks(graph) : \A i, j \in DOMAIN deeper :
             i < j => rank[deeper[j].file] < rank[deeper[i].file]
      BY <1>8
    <2> QED
      BY <1>6, <2>1, <2>2, <2>3 DEF Descent
  <1>10. FilesOf(deeper) = FilesOf(st) \cup {f}
    <2>1. PICK last : last = n + 1
      OBVIOUS
    <2>2. /\ DOMAIN deeper = DOMAIN st \cup {last} /\ deeper[last].file = f
          /\ \A i \in DOMAIN st : deeper[i].file = st[i].file
      BY <1>5, <2>1
    <2>3. FilesOf(deeper) \subseteq FilesOf(st) \cup {f}
      BY <2>2 DEF FilesOf
    <2>4. FilesOf(st) \cup {f} \subseteq FilesOf(deeper)
      BY <2>2 DEF FilesOf
    <2> QED
      BY <2>3, <2>4
  <1> QED
    BY <1>4, <1>9, <1>10 DEF Deepened

Progress(st, n, files, rest, longer, graph) ==
    /\ longer \in Seq(Paths) /\ rest \in Seq(CallsOfWalk)
    /\ ToSet(longer) = ToSet(files) \cup {st[n].file}
    /\ DOMAIN rest = DOMAIN st \ {n} /\ \A i \in DOMAIN rest : rest[i] = st[i]
    /\ Listing(longer, graph) /\ Descent(rest, longer, graph)

\* A file whose imports have been visited is listed and left.
LEMMA Finished ==
    ASSUME NEW graph \in [Paths -> Seq(Paths)], NEW files \in Seq(Paths), Listing(files, graph),
           NEW st \in Seq(CallsOfWalk), st # <<>>, NEW n, n = Len(st), Ranks(graph) # {},
           Descent(st, files, graph), ~(st[n].next <= Len(graph[st[n].file])),
           NEW longer, longer = Append(files, st[n].file), NEW rest, rest = Front(st)
    PROVE  Progress(st, n, files, rest, longer, graph)
  <1>r. PICK rank : rank \in Ranks(graph)
    OBVIOUS
  <1>1. /\ n \in Nat \ {0} /\ n \in DOMAIN st /\ DOMAIN st = 1 .. n
        /\ \A i \in DOMAIN st : st[i].file \in Paths /\ st[i].next \in Nat \ {0}
    BY AdvancedStack DEF AdvancedTo
  <1>f. PICK f : f = st[n].file
    OBVIOUS
  <1>m. PICK m : m = Len(files) + 1
    OBVIOUS
  <1>2. /\ m \in Nat /\ longer \in Seq(Paths) /\ DOMAIN longer = 1 .. m /\ longer[m] = f
        /\ DOMAIN files = 1 .. (m - 1) /\ \A i \in 1 .. (m - 1) : longer[i] = files[i]
    BY <1>1, <1>f, <1>m
  <1>3. ToSet(longer) = ToSet(files) \cup {f}
    <2>1. 1 .. m = (1 .. (m - 1)) \cup {m} /\ m \in 1 .. m
      BY <1>2, <1>m
    <2> QED
      BY <1>2, <2>1 DEF ToSet
  <1>4. rest \in Seq(CallsOfWalk) /\ DOMAIN rest = 1 .. (n - 1) /\ \A i \in 1 .. (n - 1) : rest[i] = st[i]
    <2>1. rest = SubSeq(st, 1, n - 1)
      BY DEF Front
    <2> QED
      BY <1>1, <2>1
  <1>5. DOMAIN rest = DOMAIN st \ {n} /\ \A i \in DOMAIN rest : rest[i] = st[i] /\ i \in DOMAIN st /\ i < n
    BY <1>1, <1>4
  <1>6. f \notin ToSet(files) /\ Imports(graph, f) \subseteq ToSet(files)
    <2>1. graph[f] \in Seq(Paths) /\ Len(graph[f]) \in Nat /\ DOMAIN graph[f] = 1 .. Len(graph[f])
      BY <1>1, <1>f
    <2>2. /\ \A j \in 1 .. Len(graph[f]) : j \in 1 .. (st[n].next - 1)
          /\ n + 1 \notin DOMAIN st
      <3>1. PICK next, len : next = st[n].next /\ len = Len(graph[f])
        OBVIOUS
      <3>2. next \in Nat /\ len \in Nat /\ ~(next <= len)
        BY <1>1, <1>f, <2>1, <3>1
      <3>3. \A j \in 1 .. len : j \in 1 .. (next - 1)
        BY <3>2
      <3>4. n + 1 \notin DOMAIN st
        BY <1>1
      <3> QED
        BY <3>1, <3>3, <3>4
    <2>3. \A j \in DOMAIN graph[f] : graph[f][j] \in ToSet(files)
      BY <1>1, <1>f, <2>1, <2>2 DEF Descent
    <2>4. f \notin ToSet(files)
      BY <1>1, <1>f DEF Descent
    <2> QED
      BY <2>3, <2>4 DEF Imports, ToSet
  <1>7. Listing(longer, graph)
    <2>1. ToSet(files) = {longer[j] : j \in 1 .. (m - 1)}
      BY <1>2 DEF ToSet
    <2>2. \A i \in 1 .. (m - 1) : {files[j] : j \in 1 .. (i - 1)} = {longer[j] : j \in 1 .. (i - 1)}
      BY <1>2
    <2>3. \A i \in DOMAIN longer : Imports(graph, longer[i]) \subseteq {longer[j] : j \in 1 .. (i - 1)}
      <3>1. ASSUME NEW i \in DOMAIN longer
            PROVE  Imports(graph, longer[i]) \subseteq {longer[j] : j \in 1 .. (i - 1)}
        <4>1. CASE i = m
          BY <1>2, <1>6, <2>1, <4>1
        <4>2. CASE i # m
          <5>1. i \in 1 .. (m - 1) /\ longer[i] = files[i]
            BY <1>2, <4>2
          <5> QED
            BY <1>2, <2>2, <5>1 DEF Listing
        <4> QED
          BY <4>1, <4>2
      <3> QED
        BY <3>1
    <2>4. \A i \in 1 .. (m - 1) : files[i] # f
      BY <1>2, <1>6 DEF ToSet
    <2>5. ASSUME NEW a \in DOMAIN longer, NEW b \in DOMAIN longer, longer[a] = longer[b]
          PROVE  a = b
      <3>1. (a = m \/ a \in 1 .. (m - 1)) /\ (b = m \/ b \in 1 .. (m - 1))
        BY <1>2
      <3>2. a \in 1 .. (m - 1) /\ b \in 1 .. (m - 1) => a = b
        BY <1>2, <2>5 DEF Listing, IsInjective
      <3> QED
        BY <1>2, <2>4, <2>5, <3>1, <3>2
    <2> QED
      BY <2>3, <2>5 DEF Listing, IsInjective
  <1>8. Descent(rest, longer, graph)
    <2>1. ASSUME NEW i \in DOMAIN rest PROVE rest[i].file \notin ToSet(longer)
      <3>1. rank[f] < rank[st[i].file] /\ rank[f] \in Nat
        <4>1. i \in DOMAIN st /\ i < n
          BY <1>5, <2>1
        <4>2. rank[f] < rank[st[i].file]
          BY <1>1, <1>f, <1>r, <4>1 DEF Descent
        <4>3. rank[f] \in Nat
          BY <1>1, <1>f, <1>r, RankIsNumber
        <4> QED
          BY <4>2, <4>3
      <3>2. st[i].file # f
        BY <3>1
      <3> QED
        BY <1>3, <1>5, <3>2 DEF Descent
    <2>2. ASSUME NEW i \in DOMAIN rest, NEW j \in 1 .. (rest[i].next - 1)
          PROVE  \/ graph[rest[i].file][j] \in ToSet(longer)
                 \/ i + 1 \in DOMAIN rest /\ rest[i + 1].file = graph[rest[i].file][j]
      <3>1. \/ graph[st[i].file][j] \in ToSet(files)
            \/ i + 1 \in DOMAIN st /\ st[i + 1].file = graph[st[i].file][j]
        BY <1>5, <2>2 DEF Descent
      <3>2. CASE i + 1 = n
        BY <1>3, <1>5, <1>f, <3>1, <3>2
      <3>3. CASE i + 1 # n
        BY <1>3, <1>5, <3>1, <3>3
      <3> QED
        BY <3>2, <3>3
    <2>3. \A i \in DOMAIN rest : rest[i].next <= Len(graph[rest[i].file]) + 1
      BY <1>5 DEF Descent
    <2>4. \A k \in Ranks(graph) : \A i, j \in DOMAIN rest : i < j => k[rest[j].file] < k[rest[i].file]
      BY <1>5 DEF Descent
    <2> QED
      BY <2>1, <2>2, <2>3, <2>4 DEF Descent
  <1> QED
    BY <1>2, <1>3, <1>4, <1>5, <1>7, <1>8, <1>f DEF Progress

LEMMA EmptyWalk ==
    ASSUME NEW graph, NEW files
    PROVE  /\ Listing(<<>>, graph) /\ Descent(<<>>, files, graph)
           /\ ToSet(<<>>) = {} /\ FilesOf(<<>>) = {}
  BY DEF Listing, Descent, ToSet, FilesOf, IsInjective

LEMMA FirstCall ==
    ASSUME NEW graph \in [Paths -> Seq(Paths)], NEW files, NEW f \in Paths, f \notin ToSet(files),
           NEW st, st = Append(<<>>, [file |-> f, next |-> 1])
    PROVE  /\ st \in Seq(CallsOfWalk) /\ FilesOf(st) = {f} /\ Descent(st, files, graph)
  <1>e. PICK e : e = [file |-> f, next |-> 1]
    OBVIOUS
  <1>1. e \in CallsOfWalk /\ e.file = f /\ e.next = 1
    BY <1>e DEF CallsOfWalk
  <1>2. st \in Seq(CallsOfWalk) /\ DOMAIN st = 1 .. 1 /\ st[1] = e
    BY <1>1, <1>e
  <1>3. \A i \in DOMAIN st : i = 1 /\ st[i].file = f /\ st[i].next = 1
    BY <1>1, <1>2
  <1>4. \A i \in DOMAIN st : st[i].next <= Len(graph[st[i].file]) + 1
    <2>1. PICK len : len = Len(graph[f])
      OBVIOUS
    <2>2. len \in Nat /\ 1 <= len + 1
      BY <2>1
    <2> QED
      BY <1>3, <2>1, <2>2
  <1>5. \A i \in DOMAIN st : 1 .. (st[i].next - 1) = {}
    BY <1>3
  <1>6. \A i, j \in DOMAIN st : ~(i < j)
    BY <1>3
  <1>7. FilesOf(st) = {f}
    <2>1. 1 \in DOMAIN st
      BY <1>2
    <2> QED
      BY <1>3, <2>1 DEF FilesOf
  <1>8. \A i \in DOMAIN st : st[i].file \notin ToSet(files)
    BY <1>3
  <1>9. Descent(st, files, graph)
    BY <1>4, <1>5, <1>6, <1>8 DEF Descent
  <1> QED
    BY <1>2, <1>7, <1>9

\* A file that is not listed can be on the stack only below the file that is
\* being visited, and that one does not import it.
LEMMA NotBelow ==
    ASSUME NEW graph \in [Paths -> Seq(Paths)], NEW files,
           NEW st \in Seq(CallsOfWalk), st # <<>>, NEW n, n = Len(st), NEW rank \in Ranks(graph),
           Descent(st, files, graph), NEW f \in Imports(graph, st[n].file)
    PROVE  f \notin FilesOf(st)
  <1>1. /\ n \in Nat \ {0} /\ n \in DOMAIN st /\ DOMAIN st = 1 .. n
        /\ \A i \in DOMAIN st : st[i].file \in Paths
    BY AdvancedStack DEF AdvancedTo
  <1>2. rank[f] < rank[st[n].file]
    BY <1>1 DEF Ranks, Imports
  <1>3. f \in Paths
    BY <1>1 DEF Imports, ToSet
  <1>4. ASSUME NEW i \in DOMAIN st, st[i].file = f PROVE FALSE
    <2>1. rank[f] \in Nat /\ rank[st[n].file] \in Nat
      BY <1>1, <1>3, RankIsNumber
    <2>2. i # n
      BY <1>2, <1>4, <2>1
    <2>3. i < n
      BY <1>1, <2>2
    <2>4. rank[st[n].file] < rank[f]
      BY <1>1, <1>4, <2>3 DEF Descent
    <2> QED
      BY <1>2, <2>1, <2>4
  <1> QED
    BY <1>4 DEF FilesOf

-----------------------------------------------------------------------------
(* The two walks of a process.                                              *)

\* Before main, a walk over the files that are registered; then, in the request
\* that builds the handler, one over the files that are listed.  What is seen is
\* listed or being listed, and needed.
WalkInv ==
    /\ Listing(registered, imports)
    /\ ~AllRegistered => /\ stage = "env" /\ seen = {} /\ out = <<>>
                         /\ Descent(stack, registered, imports)
    /\ AllRegistered => /\ Listing(out, imports) /\ Descent(stack, out, imports)
                        /\ seen = ToSet(out) \cup FilesOf(stack)
                        /\ seen \subseteq Reachable
                        /\ stage # "serving" => stack = <<>> /\ out = <<>>

\* What the assumption on the import graphs gives for the graph of a behaviour.
LEMMA GraphFacts ==
    ASSUME DescriptorsTypeOK
    PROVE  /\ imports \in [Paths -> Seq(Paths)] /\ \E rank : rank \in Ranks(imports)
           /\ \A f \in Paths : Imports(imports, f) \subseteq Paths
           /\ stack \in Seq(CallsOfWalk) /\ registered \in Seq(Paths) /\ out \in Seq(Paths)
           /\ \A files \in Seq(Paths) : ToSet(files) \subseteq Paths
  <1>1. imports \in [Paths -> Seq(Paths)] /\ Acyclic(imports)
    BY GraphsAssumption DEF DescriptorsTypeOK
  <1>2. \E rank : rank \in Ranks(imports)
    BY <1>1 DEF Acyclic, Ranks
  <1>3. \A f \in Paths : Imports(imports, f) \subseteq Paths
    BY <1>1 DEF Imports, ToSet
  <1>4. \A files \in Seq(Paths) : ToSet(files) \subseteq Paths
    BY DEF ToSet
  <1> QED
    BY <1>1, <1>2, <1>3, <1>4 DEF DescriptorsTypeOK, CallsOfWalk

\* The walk's operators, for a stack of n calls.
LEMMA TopOfStack ==
    ASSUME DescriptorsTypeOK, stack # <<>>, NEW n, n = Len(stack)
    PROVE  /\ n \in DOMAIN stack /\ Caller = stack[n].file /\ Caller \in Paths
           /\ Pending <=> stack[n].next <= Len(imports[stack[n].file])
           /\ Import = imports[stack[n].file][stack[n].next]
           /\ Pending => Import \in Imports(imports, stack[n].file)
           /\ Advanced = [stack EXCEPT ![n].next = @ + 1]
           /\ AdvancedTo(stack, Advanced, n)
  <1>1. stack \in Seq(CallsOfWalk) /\ imports \in [Paths -> Seq(Paths)]
    BY GraphFacts
  <1>2. Advanced = [stack EXCEPT ![n].next = @ + 1]
    BY DEF Advanced
  <1>3. AdvancedTo(stack, Advanced, n)
    BY <1>1, <1>2, AdvancedStack
  <1>4. n \in DOMAIN stack /\ stack[n].file \in Paths /\ stack[n].next \in Nat \ {0}
    BY <1>3 DEF AdvancedTo
  <1>5. Last(stack) = stack[n]
    BY DEF Last
  <1>6. /\ Caller = stack[n].file /\ Import = imports[stack[n].file][stack[n].next]
        /\ Pending <=> stack[n].next <= Len(imports[stack[n].file])
    BY <1>5 DEF Caller, Import, Pending
  <1>7. Pending => Import \in Imports(imports, stack[n].file)
    <2>1. SUFFICES ASSUME Pending PROVE Import \in Imports(imports, stack[n].file)
      OBVIOUS
    <2>2. stack[n].next \in DOMAIN imports[stack[n].file]
      BY <1>1, <1>4, <1>6, <2>1
    <2> QED
      BY <1>6, <2>2 DEF Imports, ToSet
  <1> QED
    BY <1>2, <1>3, <1>4, <1>6, <1>7

\* Root is needed, and with a file its imports.
LEMMA NeededFiles ==
    ASSUME DescriptorsTypeOK
    PROVE  /\ Root \in Reachable
           /\ \A f \in Reachable : Imports(imports, f) \subseteq Reachable
  <1>1. Root \in Reachable
    BY GraphsAssumption DEF Reachable
  <1>2. ASSUME NEW f \in Reachable, NEW g \in Imports(imports, f) PROVE g \in Reachable
    <2>1. f \in Paths /\ g \in Paths
      BY <1>2, GraphFacts DEF Reachable
    <2>2. ASSUME NEW S \in SUBSET Paths, Root \in S, \A h \in S : ToSet(imports[h]) \subseteq S
          PROVE  g \in S
      <3>1. f \in S
        BY <2>2 DEF Reachable
      <3> QED
        BY <1>2, <2>2, <3>1 DEF Imports
    <2> QED
      BY <2>1, <2>2 DEF Reachable
  <1> QED
    BY <1>1, <1>2

\* A process registers its files; when all are registered no call is left.
LEMMA PackageWalk ==
    ASSUME DescriptorsTypeOK, WalkInv, InitPackage
    PROVE  DescriptorsTypeOK' /\ WalkInv'
  <1>1. /\ ~AllRegistered /\ stage = "env" /\ PackageInit /\ seen = {} /\ out = <<>>
        /\ Listing(registered, imports) /\ Descent(stack, registered, imports)
    BY DEF InitPackage, WalkInv
  <1>2. UNCHANGED <<imports, stage, seen, out>>
    BY <1>1 DEF InitPackage, PackageInit, RunInit, InitImport, Build, vars, startup
  <1>3. /\ imports \in [Paths -> Seq(Paths)] /\ stack \in Seq(CallsOfWalk) /\ registered \in Seq(Paths)
        /\ \A f \in Paths : Imports(imports, f) \subseteq Paths
    BY GraphFacts
  <1>4. /\ registered' \in Seq(Paths) /\ stack' \in Seq(CallsOfWalk)
        /\ Listing(registered', imports) /\ Descent(stack', registered', imports)
        /\ AllRegistered' => stack' = <<>>
    <2>1. ASSUME NEW f \in Paths, RunInit(f)
          PROVE  /\ UNCHANGED registered
                 /\ stack' \in Seq(CallsOfWalk) /\ Descent(stack', registered, imports)
      <3>1. /\ registered' = registered /\ f \notin ToSet(registered)
            /\ stack' = Append(<<>>, [file |-> f, next |-> 1])
        BY <2>1 DEF RunInit, Call
      <3> QED
        BY <1>3, <3>1, FirstCall
    <2>2. ASSUME InitImport
          PROVE  /\ UNCHANGED registered
                 /\ stack' \in Seq(CallsOfWalk) /\ Descent(stack', registered, imports)
      <3>n. PICK n : n = Len(stack)
        OBVIOUS
      <3>1. registered' = registered /\ stack # <<>> /\ Pending
        BY <2>2 DEF InitImport
      <3>2. /\ AdvancedTo(stack, Advanced, n) /\ stack[n].next <= Len(imports[stack[n].file])
            /\ Import = imports[stack[n].file][stack[n].next]
        BY <3>n, <3>1, TopOfStack
      <3>3. CASE Import \in ToSet(registered)
        <4>1. stack' = Advanced
          BY <2>2, <3>3 DEF InitImport
        <4> QED
          BY <1>1, <1>3, <3>1, <3>2, <3>3, <4>1, PassedOver
      <3>4. CASE Import \notin ToSet(registered)
        <4>1. stack' = Append(Advanced, [file |-> Import, next |-> 1])
          BY <2>2, <3>4 DEF InitImport
        <4> QED
          <5>1. Deepened(stack, Import, stack', registered, imports)
            BY <1>1, <1>3, <3>1, <3>2, <3>4, <4>1, Entered
          <5> QED
            BY <3>1, <5>1 DEF Deepened
      <3> QED
        BY <3>3, <3>4
    <2>3. CASE Build
      <3>n. PICK n : n = Len(stack)
        OBVIOUS
      <3>r. PICK rank : rank \in Ranks(imports)
        BY GraphFacts
      <3>1. stack # <<>> /\ ~Pending
        BY <2>3 DEF Build
      <3>2. /\ n \in DOMAIN stack /\ ~(stack[n].next <= Len(imports[stack[n].file]))
            /\ Caller = stack[n].file
        BY <3>n, <3>1, TopOfStack
      <3>3. registered' = Append(registered, stack[n].file) /\ stack' = Front(stack)
        BY <2>3, <3>2 DEF Build
      <3>4. /\ registered' \in Seq(Paths) /\ stack' \in Seq(CallsOfWalk)
            /\ Listing(registered', imports) /\ Descent(stack', registered', imports)
        <4>l. PICK longer, rest : longer = Append(registered, stack[n].file) /\ rest = Front(stack)
          OBVIOUS
        <4>1. /\ longer \in Seq(Paths) /\ rest \in Seq(CallsOfWalk)
              /\ Listing(longer, imports) /\ Descent(rest, longer, imports)
          <5>1. /\ imports \in [Paths -> Seq(Paths)] /\ registered \in Seq(Paths)
                /\ stack \in Seq(CallsOfWalk) /\ stack # <<>> /\ n = Len(stack)
                /\ Ranks(imports) # {} /\ Listing(registered, imports)
                /\ Descent(stack, registered, imports)
                /\ ~(stack[n].next <= Len(imports[stack[n].file]))
            BY <1>1, <1>3, <3>n, <3>r, <3>1, <3>2
          <5> QED
            <6>1. Progress(stack, n, registered, rest, longer, imports)
              BY <5>1, <4>l, Finished
            <6> QED
              BY <6>1 DEF Progress
        <4> QED
          BY <3>3, <4>l, <4>1
      <3>5. AllRegistered' => stack' = <<>>
        <4>1. SUFFICES ASSUME Paths \subseteq ToSet(registered') PROVE stack' = <<>>
          BY DEF AllRegistered
        <4>2. \A i \in DOMAIN stack' : stack'[i].file \notin ToSet(registered')
          BY <3>4 DEF Descent
        <4>3. \A i \in DOMAIN stack' : stack'[i].file \in Paths
          <5>1. \A i \in DOMAIN stack' : stack'[i] \in CallsOfWalk
            BY <3>4
          <5> QED
            BY <5>1 DEF CallsOfWalk
        <4> QED
          BY <3>4, <4>1, <4>2, <4>3
      <3> QED
        BY <3>4, <3>5
    <2>4. UNCHANGED registered => ~AllRegistered'
      BY <1>1 DEF AllRegistered
    <2> QED
      BY <1>1, <1>3, <2>1, <2>2, <2>3, <2>4 DEF PackageInit
  <1>5. DescriptorsTypeOK'
    BY <1>2, <1>4 DEF DescriptorsTypeOK, CallsOfWalk
  <1>6. AllRegistered' => /\ Listing(out', imports') /\ Descent(stack', out', imports')
                          /\ seen' = ToSet(out') \cup FilesOf(stack')
                          /\ seen' \subseteq Reachable'
                          /\ stage' # "serving" => stack' = <<>> /\ out' = <<>>
    BY <1>1, <1>2, <1>4, EmptyWalk
  <1>7. Listing(registered', imports') /\ Descent(stack', registered', imports')
    BY <1>2, <1>4
  <1> QED
    BY <1>1, <1>2, <1>5, <1>6, <1>7 DEF WalkInv

\* The request that builds lists the files that are needed.
LEMMA ListWalk ==
    ASSUME DescriptorsTypeOK, WalkInv, AllRegistered, stage = "serving",
           ListDescriptors, UNCHANGED stage
    PROVE  DescriptorsTypeOK' /\ WalkInv'
  <1>1. /\ Listing(registered, imports) /\ Listing(out, imports) /\ Descent(stack, out, imports)
        /\ seen = ToSet(out) \cup FilesOf(stack) /\ seen \subseteq Reachable
    BY DEF WalkInv
  <1>2. UNCHANGED <<imports, registered>> /\ stage' = "serving"
    BY DEF ListDescriptors, AddRoot, AddImport, ListFile
  <1>3. /\ imports \in [Paths -> Seq(Paths)] /\ stack \in Seq(CallsOfWalk) /\ out \in Seq(Paths)
        /\ Root \in Paths /\ Reachable \subseteq Paths
    BY GraphFacts, GraphsAssumption DEF Reachable
  <1>4. AllRegistered' /\ Reachable' = Reachable
    BY <1>2 DEF AllRegistered, Reachable
  <1>5. /\ stack' \in Seq(CallsOfWalk) /\ out' \in Seq(Paths)
        /\ Listing(out', imports) /\ Descent(stack', out', imports)
        /\ seen' = ToSet(out') \cup FilesOf(stack') /\ seen' \subseteq Reachable
    <2>1. CASE AddRoot
      <3>1. /\ out' = out /\ Root \notin ToSet(out) /\ seen' = seen \cup {Root} /\ stack = <<>>
            /\ stack' = Append(<<>>, [file |-> Root, next |-> 1])
        BY <1>1, <2>1 DEF AddRoot, Call
      <3>2. /\ stack' \in Seq(CallsOfWalk) /\ FilesOf(stack') = {Root}
            /\ Descent(stack', out, imports)
        BY <1>3, <3>1, FirstCall
      <3>3. seen = ToSet(out)
        BY <1>1, <3>1, EmptyWalk
      <3> QED
        BY <1>1, <1>3, <3>1, <3>2, <3>3, NeededFiles
    <2>2. CASE AddImport
      <3>n. PICK n : n = Len(stack)
        OBVIOUS
      <3>r. PICK rank : rank \in Ranks(imports)
        BY GraphFacts
      <3>1. /\ out' = out /\ stack # <<>> /\ Pending /\ seen' = seen \cup {Import}
        BY <2>2 DEF AddImport
      <3>2. /\ AdvancedTo(stack, Advanced, n) /\ stack[n].next <= Len(imports[stack[n].file])
            /\ Import = imports[stack[n].file][stack[n].next]
            /\ n \in DOMAIN stack /\ Import \in Imports(imports, stack[n].file)
        BY <3>n, <3>1, TopOfStack
      <3>3. stack[n].file \in Reachable /\ Import \in Reachable
        BY <1>1, <3>2, NeededFiles DEF FilesOf
      <3>4. CASE Import \in seen
        <4>1. stack' = Advanced /\ seen' = seen
          BY <2>2, <3>1, <3>4 DEF AddImport
        <4>2. Import \in ToSet(out)
          <5>1. Import \notin FilesOf(stack)
            BY <1>1, <1>3, <3>n, <3>r, <3>1, <3>2, NotBelow
          <5> QED
            BY <1>1, <3>4, <5>1
        <4>3. stack' \in Seq(CallsOfWalk) /\ Descent(stack', out, imports)
          BY <1>1, <1>3, <3>2, <4>1, <4>2, PassedOver
        <4>4. FilesOf(stack') = FilesOf(stack)
          BY <3>2, <4>1 DEF AdvancedTo, FilesOf
        <4> QED
          BY <1>1, <1>3, <3>1, <4>1, <4>3, <4>4
      <3>5. CASE Import \notin seen
        <4>1. stack' = Append(Advanced, [file |-> Import, next |-> 1])
          BY <2>2, <3>5 DEF AddImport
        <4>2. Import \notin ToSet(out)
          BY <1>1, <3>5
        <4>3. Deepened(stack, Import, stack', out, imports)
          BY <1>1, <1>3, <3>2, <4>1, <4>2, Entered
        <4> QED
          BY <1>1, <1>3, <3>1, <3>3, <4>3 DEF Deepened
      <3> QED
        BY <3>4, <3>5
    <2>3. CASE ListFile
      <3>n. PICK n : n = Len(stack)
        OBVIOUS
      <3>1. stack # <<>> /\ ~Pending /\ seen' = seen
        BY <2>3 DEF ListFile
      <3>2. /\ n \in DOMAIN stack /\ ~(stack[n].next <= Len(imports[stack[n].file]))
            /\ Caller = stack[n].file
        BY <3>n, <3>1, TopOfStack
      <3>3. out' = Append(out, stack[n].file) /\ stack' = Front(stack)
        BY <2>3, <3>2 DEF ListFile
      <3>l. PICK longer, rest : longer = Append(out, stack[n].file) /\ rest = Front(stack)
        OBVIOUS
      <3>4. /\ imports \in [Paths -> Seq(Paths)] /\ out \in Seq(Paths)
            /\ stack \in Seq(CallsOfWalk) /\ stack # <<>> /\ n = Len(stack)
            /\ Ranks(imports) # {} /\ Listing(out, imports)
            /\ Descent(stack, out, imports)
            /\ ~(stack[n].next <= Len(imports[stack[n].file]))
        BY <1>1, <1>3, <3>n, <3>1, <3>2, GraphFacts
      <3>5. Progress(stack, n, out, rest, longer, imports)
        BY <3>l, <3>4, Finished
      <3>6. /\ longer \in Seq(Paths) /\ rest \in Seq(CallsOfWalk)
            /\ Listing(longer, imports) /\ Descent(rest, longer, imports)
        BY <3>5 DEF Progress
      <3>7. ToSet(longer) \cup FilesOf(rest) = ToSet(out) \cup FilesOf(stack)
        <4>1. /\ ToSet(longer) = ToSet(out) \cup {stack[n].file}
              /\ DOMAIN rest = DOMAIN stack \ {n} /\ \A i \in DOMAIN rest : rest[i] = stack[i]
          BY <3>5 DEF Progress
        <4>2. FilesOf(stack) = FilesOf(rest) \cup {stack[n].file}
          BY <3>2, <4>1 DEF FilesOf
        <4> QED
          BY <4>1, <4>2
      <3> QED
        BY <1>1, <3>1, <3>3, <3>l, <3>6, <3>7
    <2> QED
      BY <2>1, <2>2, <2>3 DEF ListDescriptors
  <1>6. DescriptorsTypeOK'
    <2>1. seen' \in SUBSET Paths
      BY <1>3, <1>5
    <2> QED
      BY <1>2, <1>5, <2>1 DEF DescriptorsTypeOK, CallsOfWalk
  <1>7. Listing(registered', imports') /\ Listing(out', imports') /\ Descent(stack', out', imports')
    BY <1>1, <1>2, <1>5
  <1> QED
    BY <1>2, <1>4, <1>5, <1>6, <1>7 DEF WalkInv

-----------------------------------------------------------------------------
(* The endpoint.                                                            *)

EInv == IInv /\ DescriptorsTypeOK /\ WalkInv

LEMMA InitEInv == InitEndpoint => EInv
  <1> SUFFICES ASSUME InitEndpoint PROVE EInv
    OBVIOUS
  <1>1. IInv
    BY InitInv DEF InitEndpoint
  <1>2. /\ stack = <<>> /\ registered = <<>> /\ seen = {} /\ out = <<>> /\ imports \in Graphs
        /\ stage = "env"
    BY DEF InitEndpoint, Init, InitDescriptors
  <1>3. DescriptorsTypeOK
    BY <1>2 DEF DescriptorsTypeOK
  <1>4. ~AllRegistered
    BY <1>2, EmptyWalk, GraphsAssumption DEF AllRegistered
  <1>5. Listing(registered, imports) /\ Descent(stack, registered, imports)
    BY <1>2, EmptyWalk
  <1> QED
    BY <1>1, <1>2, <1>3, <1>4, <1>5 DEF EInv, WalkInv

\* A process that has got past its environment has registered its files.
LEMMA RegisteredFirst ==
    ASSUME WalkInv, stage # "env"
    PROVE  AllRegistered
  BY DEF WalkInv

\* A step that leaves both walks alone, or forgets the second.
LEMMA OtherSteps ==
    ASSUME DescriptorsTypeOK, WalkInv, AllRegistered,
           \/ UNCHANGED walks /\ (stage = "serving" => stage' = "serving")
           \/ Forget
    PROVE  DescriptorsTypeOK' /\ WalkInv'
  <1>1. UNCHANGED <<imports, registered>>
    BY DEF walks, Forget
  <1>2. AllRegistered' /\ Reachable' = Reachable /\ Listing(registered', imports')
    BY <1>1 DEF AllRegistered, Reachable, WalkInv
  <1>3. CASE Forget
    <2>1. stack' = <<>> /\ seen' = {} /\ out' = <<>>
      BY <1>3 DEF Forget
    <2>2. DescriptorsTypeOK'
      BY <1>1, <2>1 DEF DescriptorsTypeOK
    <2>3. /\ Listing(out', imports') /\ Descent(stack', out', imports')
          /\ seen' = ToSet(out') \cup FilesOf(stack')
      BY <2>1, EmptyWalk
    <2> QED
      BY <1>2, <2>1, <2>2, <2>3 DEF WalkInv
  <1>4. CASE UNCHANGED walks /\ (stage = "serving" => stage' = "serving")
    <2>1. UNCHANGED <<stack, seen, out>>
      BY <1>4 DEF walks
    <2>2. DescriptorsTypeOK'
      BY <1>1, <2>1 DEF DescriptorsTypeOK
    <2>3. /\ Listing(out', imports') /\ Descent(stack', out', imports')
          /\ seen' = ToSet(out') \cup FilesOf(stack') /\ seen' \subseteq Reachable'
          /\ stage' # "serving" => stack' = <<>> /\ out' = <<>>
      BY <1>1, <1>2, <1>4, <2>1 DEF WalkInv
    <2> QED
      BY <1>2, <2>2, <2>3 DEF WalkInv
  <1> QED
    BY <1>3, <1>4

\* A new process begins to register.
LEMMA RestartWalk ==
    ASSUME DescriptorsTypeOK, WalkInv, RestartEndpoint
    PROVE  DescriptorsTypeOK' /\ WalkInv'
  <1>1. /\ stage = "exited" /\ stage' = "env" /\ registered' = <<>>
        /\ UNCHANGED <<imports, stack, seen, out>>
    BY DEF RestartEndpoint, Restart
  <1>2. AllRegistered
    BY <1>1, RegisteredFirst
  <1>3. stack = <<>> /\ out = <<>> /\ seen = ToSet(out) \cup FilesOf(stack)
    BY <1>1, <1>2 DEF WalkInv
  <1>4. seen = {}
    BY <1>3, EmptyWalk
  <1>5. ~AllRegistered'
    BY <1>1, EmptyWalk, GraphsAssumption DEF AllRegistered
  <1>6. DescriptorsTypeOK'
    BY <1>1 DEF DescriptorsTypeOK
  <1>7. Listing(registered', imports') /\ Descent(stack', registered', imports')
    BY <1>1, <1>3, EmptyWalk
  <1> QED
    BY <1>1, <1>3, <1>4, <1>5, <1>6, <1>7 DEF WalkInv

LEMMA EndpointStep == [NextEndpoint]_endpointVars => [Next]_vars
  BY DEF NextEndpoint, endpointVars, InitPackage, Main, CrashEndpoint, RestartEndpoint,
         ServeEndpoint, WalkImports, NewServer, Next, Serve

LEMMA NextEInv == EInv /\ [NextEndpoint]_endpointVars => EInv'
  <1> SUFFICES ASSUME EInv, [NextEndpoint]_endpointVars PROVE EInv'
    OBVIOUS
  <1>t. IInv /\ DescriptorsTypeOK /\ WalkInv
    BY DEF EInv
  <1>1. IInv'
    BY <1>t, EndpointStep, NextInv
  <1>2. CASE InitPackage
    BY <1>t, <1>1, <1>2, PackageWalk DEF EInv
  <1>3. CASE Main
    <2>1. AllRegistered /\ UNCHANGED walks /\ stage # "serving"
      BY <1>3 DEF Main, ParseEnv, OpenDatabase, ConfigureAuth
    <2> QED
      BY <1>t, <1>1, <2>1, OtherSteps DEF EInv
  <1>4. CASE CrashEndpoint
    <2>1. stage = "serving" /\ Forget
      BY <1>4 DEF CrashEndpoint, Crash
    <2>2. AllRegistered
      BY <1>t, <2>1, RegisteredFirst
    <2> QED
      BY <1>t, <1>1, <2>1, <2>2, OtherSteps DEF EInv
  <1>5. CASE RestartEndpoint
    BY <1>t, <1>1, <1>5, RestartWalk DEF EInv
  <1>6. ASSUME NEW r \in Requests, (Arrive(r) /\ UNCHANGED walks) \/ ServeEndpoint(r)
        PROVE  EInv'
    <2>1. stage = "serving"
      BY <1>t, <1>6
         DEF IInv, ServingHasDatabase, InService, Arrive, ServeEndpoint, Lock, CheckCached, Forward,
             WalkImports, NewServer, BuildSucceeds, BuildFails
    <2>2. stage' = stage
      BY <1>6
         DEF Arrive, ServeEndpoint, Lock, CheckCached, Forward, WalkImports, NewServer,
             BuildSucceeds, BuildFails, startup, vars
    <2>3. AllRegistered
      BY <1>t, <2>1, RegisteredFirst
    <2>4. CASE WalkImports(r)
      BY <1>t, <1>1, <2>1, <2>2, <2>3, <2>4, ListWalk DEF WalkImports, EInv
    <2>5. CASE UNCHANGED walks \/ Forget
      BY <1>t, <1>1, <2>1, <2>2, <2>3, <2>5, OtherSteps DEF EInv
    <2> QED
      BY <1>6, <2>4, <2>5 DEF ServeEndpoint, NewServer
  <1>7. CASE UNCHANGED endpointVars
    <2>1. UNCHANGED walks /\ stage' = stage
      BY <1>7 DEF endpointVars, vars, startup
    <2>2. DescriptorsTypeOK'
      BY <1>t, <2>1 DEF walks, DescriptorsTypeOK
    <2>3. WalkInv'
      BY <1>t, <2>1 DEF walks, WalkInv, AllRegistered, Reachable
    <2> QED
      BY <1>1, <2>2, <2>3 DEF EInv
  <1> QED
    BY <1>2, <1>3, <1>4, <1>5, <1>6, <1>7 DEF NextEndpoint

\* The invariant of the endpoint with its walks.
THEOREM EndpointInvariance == FairEndpoint => []EInv
  <1> QED
    BY InitEInv, NextEInv, PTL DEF FairEndpoint

\* The walks keep files and positions in the graph, the process and its requests
\* the values that the comments at their variables give (app.go, agentmcp.go).
THEOREM EndpointTypes == FairEndpoint => []EndpointTypeOK
  <1>1. EInv => EndpointTypeOK
    BY DEF EInv, IInv, EndpointTypeOK
  <1> QED
    BY <1>1, EndpointInvariance, PTL

\* With the two walks the process still does only what ApiProcess says, so what
\* is proved of that one holds here (app.go, agentmcp.go:50-91).
THEOREM EndpointIsAProcess == FairEndpoint => Spec
  <1>1. InitEndpoint => Init
    BY DEF InitEndpoint
  <1> QED
    BY <1>1, EndpointStep, PTL DEF FairEndpoint, Spec

\* For any graph without a cycle and any order of the init functions, each file
\* is registered once and after its imports; the list that grpcmcp.NewServer
\* gets is the files that Root needs, each once and after its imports
\* (*.pb.go, agentmcp.go:71-91).
THEOREM DescriptorsInOrder == FairEndpoint => []ImportsComeFirst
  <1>1. ASSUME EInv PROVE ImportsComeFirst
    <2>1. DescriptorsTypeOK /\ WalkInv
      BY <1>1 DEF EInv
    <2>2. registered \in Seq(Paths) /\ out \in Seq(Paths) /\ Listing(registered, imports)
      BY <2>1, GraphFacts DEF WalkInv
    <2>3. ASSUME NEW files \in Seq(Paths), Listing(files, imports)
          PROVE  ImportsPrecede(files) /\ IsInjective(files)
      <3>1. DOMAIN files = 1 .. Len(files)
        OBVIOUS
      <3>2. \A i \in 1 .. Len(files) :
               ToSet(imports[files[i]]) \subseteq {files[j] : j \in 1 .. (i - 1)}
        BY <2>3, <3>1 DEF Listing, Imports
      <3> QED
        BY <2>3, <3>2 DEF Listing, ImportsPrecede
    <2>4. Listing(out, imports)
      BY <2>1, EmptyWalk DEF WalkInv
    <2>5. ASSUME Listed PROVE ToSet(out) = Reachable
      <3>1. stack = <<>> /\ Root \in seen
        BY <2>5 DEF Listed
      <3>2. AllRegistered
        BY <2>1, <3>1 DEF WalkInv
      <3>3. seen = ToSet(out) /\ seen \subseteq Reachable
        BY <2>1, <3>1, <3>2, EmptyWalk DEF WalkInv
      <3>4. ToSet(out) \in SUBSET Paths
        BY <2>2 DEF ToSet
      <3>5. \A f \in ToSet(out) : ToSet(imports[f]) \subseteq ToSet(out)
        <4>1. SUFFICES ASSUME NEW i \in DOMAIN out PROVE ToSet(imports[out[i]]) \subseteq ToSet(out)
          BY DEF ToSet
        <4>2. ToSet(imports[out[i]]) \subseteq {out[j] : j \in 1 .. (i - 1)}
          BY <2>4 DEF Listing, Imports
        <4>3. i \in 1 .. Len(out) /\ \A j \in 1 .. (i - 1) : j \in DOMAIN out
          BY <2>2
        <4>4. {out[j] : j \in 1 .. (i - 1)} \subseteq ToSet(out)
          BY <4>3 DEF ToSet
        <4> QED
          BY <4>2, <4>4
      <3>6. Reachable \subseteq ToSet(out)
        BY <3>1, <3>3, <3>4, <3>5 DEF Reachable
      <3> QED
        BY <3>3, <3>6
    <2> QED
      BY <2>2, <2>3, <2>4, <2>5 DEF ImportsComeFirst, RegisteredAfterImports, DescriptorsResolve
  <1>2. EInv => ImportsComeFirst
    BY <1>1
  <1> QED
    BY <1>2, EndpointInvariance, PTL
=============================================================================
