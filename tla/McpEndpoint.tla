----------------------------- MODULE McpEndpoint -----------------------------
(***************************************************************************)
(* The /mcp endpoint with what its handler is built from: the process of   *)
(* ApiProcess registers the proto files before main runs, and the request  *)
(* that builds the handler, the mutex held, lists their descriptors.       *)
(***************************************************************************)
EXTENDS ApiProcess, Descriptors

endpointVars == <<vars, walks>>

InitEndpoint == Init /\ InitDescriptors

\* Package initialisation comes before main.
InitPackage ==
    /\ stage = "env" /\ ~AllRegistered
    /\ PackageInit
    /\ UNCHANGED vars

Main ==
    /\ AllRegistered /\ (ParseEnv \/ OpenDatabase \/ ConfigureAuth)
    /\ UNCHANGED walks

CrashEndpoint == Crash /\ Forget

\* A new process: nothing is registered.
RestartEndpoint ==
    /\ Restart
    /\ registered' = <<>>
    /\ UNCHANGED <<imports, stack, seen, out>>

\* The request that holds the mutex and found no handler calls agentMCPDescriptors.
WalkImports(r) ==
    /\ pc[r] = "build" /\ ~Listed
    /\ ListDescriptors
    /\ UNCHANGED vars

\* grpcmcp.NewServer takes a list it can resolve in order; it may fail for
\* another reason.
Resolved == ImportsPrecede(out)

NewServer(r) ==
    /\ Listed
    /\ (Resolved /\ BuildSucceeds(r)) \/ BuildFails(r)
    /\ Forget

ServeEndpoint(r) ==
    \/ (Lock(r) \/ CheckCached(r) \/ Forward(r)) /\ UNCHANGED walks
    \/ WalkImports(r)
    \/ NewServer(r)

NextEndpoint ==
    \/ InitPackage \/ Main
    \/ CrashEndpoint \/ RestartEndpoint
    \/ \E r \in Requests : (Arrive(r) /\ UNCHANGED walks) \/ ServeEndpoint(r)

\* A goroutine that can run does run.
FairEndpoint ==
    /\ InitEndpoint /\ [][NextEndpoint]_endpointVars
    /\ \A r \in Requests : WF_endpointVars(ServeEndpoint(r))

-----------------------------------------------------------------------------
\* Every variable has the type its comment gives.
EndpointTypeOK == TypeOK /\ DescriptorsTypeOK
=============================================================================
