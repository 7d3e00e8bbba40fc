----------------------------- MODULE Deployment -----------------------------
(***************************************************************************)
(* The Jobs of a preview, in the order in which they need each other       *)
(* (docs/operations.md): the setup Job creates the database, the migration *)
(* creates the tables in it, and the seed Job, which waits for neither,    *)
(* fails and is started again until both are there.                        *)
(***************************************************************************)
EXTENDS Seeder, DatabaseSetup

InitDeployment == Init /\ InitSetup

\* A connection to the application's database needs the database.
SeedJob(d) ==
    /\ Attempt(d) \/ Restart(d)
    /\ pc[d] = "ping" /\ pc'[d] = "list" => database
    /\ UNCHANGED setup

MigrationJob == database /\ Migrate /\ UNCHANGED setup

SetupJob(d) == (Script(d) \/ SetupFault(d)) /\ UNCHANGED vars

AllOver ==
    /\ Over
    /\ \A d \in SetupPods : step[d] = "done" \/ (step[d] = "failed" /\ setupFailures > SetupLimit)
    /\ UNCHANGED setup

NextDeployment ==
    \/ \E d \in SetupPods : SetupJob(d)
    \/ MigrationJob
    \/ \E d \in Pods : SeedJob(d)
    \/ CreateForeign /\ UNCHANGED setup
    \/ AllOver

\* Containers run until they exit, and the kubelet starts them again.
FairDeployment ==
    /\ InitDeployment /\ [][NextDeployment]_<<vars, setup>>
    /\ \A d \in Pods : WF_<<vars, setup>>(SeedJob(d))
    /\ \A d \in SetupPods : WF_<<vars, setup>>(SetupJob(d))

-----------------------------------------------------------------------------
\* Every variable has the type its comment gives.
DeploymentTypeOK == TypeOK /\ SetupTypeOK
=============================================================================
