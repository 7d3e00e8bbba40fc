---------------------------- MODULE DatabaseSetup ----------------------------
(***************************************************************************)
(* The Job that creates the application's role and database                *)
(* (deploy/migrations/setup-job.yaml).  Its script looks for each with one *)
(* psql command and creates it with another, and `set -e' ends it at the   *)
(* first error; the container is started again until it exits with 0 or    *)
(* backoffLimit is used up.  Two pods run when a node is lost, and when    *)
(* the bundle is applied anew by force while an old pod still runs.        *)
(***************************************************************************)
EXTENDS Naturals, FiniteSets

CONSTANTS
    SetupPods,   \* the pods that run the script
    SetupLimit,  \* backoffLimit
    MaxFaults    \* bound: errors that no other pod is the reason of

ASSUME SetupAssumption ==
    /\ IsFiniteSet(SetupPods) /\ SetupPods # {}
    /\ SetupLimit \in Nat /\ MaxFaults \in Nat

VARIABLES
    role,           \* the role exists
    database,       \* the database exists
    step,           \* step[d]: what the script of pod d does next
    setupFailures,  \* containers that exited with an error
    faults          \* history: those whose error had no other pod as its reason

setup == <<role, database, step, setupFailures, faults>>

SetupSteps == {"wait", "checkDatabase", "checkRole", "createRole", "createDatabase"}

\* A cluster of CloudNativePG has the role already (deploy/infra).
InitSetup ==
    /\ role \in BOOLEAN
    /\ database = FALSE
    /\ step = [d \in SetupPods |-> "wait"]
    /\ setupFailures = 0
    /\ faults = 0

ScriptGoto(d, label) == step' = [step EXCEPT ![d] = label]

ScriptFails(d) ==
    /\ ScriptGoto(d, "failed")
    /\ setupFailures' = setupFailures + 1

Fault(d) == ScriptFails(d) /\ faults < MaxFaults /\ faults' = faults + 1

\* until psql -c "select 1"
WaitForPostgres(d) ==
    /\ step[d] = "wait"
    /\ ScriptGoto(d, "checkDatabase")
    /\ UNCHANGED <<role, database, setupFailures, faults>>

CheckDatabase(d) ==
    /\ step[d] = "checkDatabase"
    /\ ScriptGoto(d, IF database THEN "done" ELSE "checkRole")
    /\ UNCHANGED <<role, database, setupFailures, faults>>

\* Fault: the role is created without looking for it.
CheckRole_Skipped(d) ==
    /\ step[d] = "checkRole"
    /\ ScriptGoto(d, "createRole")
    /\ UNCHANGED <<role, database, setupFailures, faults>>

CheckRole(d) ==
    /\ step[d] = "checkRole"
    /\ ScriptGoto(d, IF role THEN "createDatabase" ELSE "createRole")
    /\ UNCHANGED <<role, database, setupFailures, faults>>

\* Postgres refuses a second one; the command may fail after it has committed.
CreateRole(d) ==
    /\ step[d] = "createRole"
    /\ role' = TRUE
    /\ IF role THEN ScriptFails(d) /\ UNCHANGED faults
       ELSE \/ ScriptGoto(d, "createDatabase") /\ UNCHANGED <<setupFailures, faults>>
            \/ Fault(d)
    /\ UNCHANGED database

CreateDatabase(d) ==
    /\ step[d] = "createDatabase"
    /\ database' = TRUE
    /\ IF database THEN ScriptFails(d) /\ UNCHANGED faults
       ELSE \/ ScriptGoto(d, "done") /\ UNCHANGED <<setupFailures, faults>>
            \/ Fault(d)
    /\ UNCHANGED role

\* Postgres does not come up in time, a command fails, the container is killed.
SetupFault(d) ==
    /\ step[d] \in SetupSteps
    /\ Fault(d)
    /\ UNCHANGED <<role, database>>

RestartSetup(d) ==
    /\ step[d] = "failed" /\ setupFailures <= SetupLimit
    /\ ScriptGoto(d, "wait")
    /\ UNCHANGED <<role, database, setupFailures, faults>>

Script(d) ==
    \/ WaitForPostgres(d) \/ CheckDatabase(d) \/ CheckRole(d)
    \/ CreateRole(d) \/ CreateDatabase(d)
    \/ RestartSetup(d)

NextSetup == \E d \in SetupPods : Script(d) \/ SetupFault(d)

-----------------------------------------------------------------------------
SetupTypeOK ==
    /\ {role, database} \subseteq BOOLEAN
    /\ step \in [SetupPods -> SetupSteps \cup {"failed", "done"}]
    /\ setupFailures \in Nat
    /\ faults \in 0 .. MaxFaults

\* Pods that race each other waste at most one attempt of each of the others
\* per object that is created (setup-job.yaml:40-63): the checks before the two
\* creates keep the Job far from its backoffLimit.
RacesCostLittle ==
    setupFailures <= faults + 2 * (Cardinality(SetupPods) - 1)
=============================================================================
