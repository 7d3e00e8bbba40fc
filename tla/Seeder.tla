------------------------------- MODULE Seeder -------------------------------
(***************************************************************************)
(* The demo seeder (cmd/seed/main.go) under the Kubernetes Job that runs   *)
(* it (deploy/seed/seed-job.yaml).  An attempt pings the database, skips   *)
(* if any partner exists, and otherwise inserts the seeds in order, each   *)
(* followed by its activities; the first error ends the process, and the   *)
(* container is started again until it exits with 0 or backoffLimit is     *)
(* used up.  Statements commit one by one and may commit although their    *)
(* reply is lost; the migration that creates the tables runs beside the    *)
(* Job, and so does the API, which may create a partner of its own.        *)
(***************************************************************************)
EXTENDS Naturals, FiniteSets

CONSTANTS
    Pods,          \* the pods the Job controller starts; more than one may run
    SeedCount,     \* the length of seedPartners()
    Noted,         \* the seeds with an extra activity
    BackoffLimit   \* failures after which containers are not started again

ASSUME SeederAssumption ==
    /\ SeedCount \in Nat \ {0}
    /\ Noted \subseteq 1..SeedCount
    /\ BackoffLimit \in Nat

VARIABLES
    migrated,   \* the partners and activities tables exist
    foreign,    \* the API has created a partner
    rows,       \* the seed rows of `partners', with the attempt that inserted each
    entries,    \* the activities of those rows
    pc,         \* pc[d]: what the container of pod d does next
    attempt,    \* attempt[d]: the starts of pod d's container
    seed,       \* seed[d]: the seed that attempt works on
    failures    \* containers that exited with an error

vars == <<migrated, foreign, rows, entries, pc, attempt, seed, failures>>

SeedRows == [seed: 1..SeedCount, pod: Pods, attempt: Nat]
Entries  == [row: SeedRows, type: {"created", "note"}]
Working  == {"ping", "list", "create", "log", "note"}

Init ==
    /\ migrated = FALSE
    /\ foreign = FALSE
    /\ rows = {}
    /\ entries = {}
    /\ pc = [d \in Pods |-> "ping"]
    /\ attempt = [d \in Pods |-> 1]
    /\ seed = [d \in Pods |-> 1]
    /\ failures = 0

TableEmpty == rows = {} /\ ~foreign

\* The row the attempt of pod d has inserted, or would insert, for its seed.
CurrentRow(d) == [seed |-> seed[d], pod |-> d, attempt |-> attempt[d]]

Goto(d, label) == pc' = [pc EXCEPT ![d] = label]

\* run() returns an error: the process exits with 1.
Exit1(d) ==
    /\ Goto(d, "failed")
    /\ failures' = failures + 1

Ping(d) ==
    /\ pc[d] = "ping"
    /\ Goto(d, "list")
    /\ UNCHANGED <<migrated, foreign, rows, entries, attempt, seed, failures>>

\* Fault: the seeds are inserted whatever the table holds.
ListExisting_NoCheck(d) ==
    /\ pc[d] = "list"
    /\ migrated
    /\ Goto(d, "create")
    /\ UNCHANGED <<migrated, foreign, rows, entries, attempt, seed, failures>>

\* The check that makes the seeder idempotent.
ListExisting(d) ==
    /\ pc[d] = "list"
    /\ migrated
    /\ Goto(d, IF TableEmpty THEN "create" ELSE "exited")
    /\ UNCHANGED <<migrated, foreign, rows, entries, attempt, seed, failures>>

\* The insert commits; without its reply the attempt fails.
CreateSeed(d) ==
    /\ pc[d] = "create"
    /\ rows' = rows \cup {CurrentRow(d)}
    /\ \/ Goto(d, "log") /\ UNCHANGED failures
       \/ Exit1(d)
    /\ UNCHANGED <<migrated, foreign, entries, attempt, seed>>

\* Fault: the loop runs past the last seed.
NextSeed_OffByOne(d) ==
    IF seed[d] <= SeedCount
    THEN Goto(d, "create") /\ seed' = [seed EXCEPT ![d] = @ + 1]
    ELSE Goto(d, "exited") /\ UNCHANGED seed

\* The end of the loop body: the next seed, or "seed complete".
NextSeed(d) ==
    IF seed[d] < SeedCount
    THEN Goto(d, "create") /\ seed' = [seed EXCEPT ![d] = @ + 1]
    ELSE Goto(d, "exited") /\ UNCHANGED seed

LogCreated(d) ==
    /\ pc[d] = "log"
    /\ entries' = entries \cup {[row |-> CurrentRow(d), type |-> "created"]}
    /\ \/ /\ IF seed[d] \in Noted THEN Goto(d, "note") /\ UNCHANGED seed ELSE NextSeed(d)
          /\ UNCHANGED failures
       \/ Exit1(d) /\ UNCHANGED seed
    /\ UNCHANGED <<migrated, foreign, rows, attempt>>

LogNote(d) ==
    /\ pc[d] = "note"
    /\ entries' = entries \cup {[row |-> CurrentRow(d), type |-> "note"]}
    /\ \/ NextSeed(d) /\ UNCHANGED failures
       \/ Exit1(d) /\ UNCHANGED seed
    /\ UNCHANGED <<migrated, foreign, rows, attempt>>

\* Fault: a seed that cannot be inserted is left out and the loop goes on.
Fail_SkipsSeed(d) ==
    /\ pc[d] \in Working
    /\ IF pc[d] = "create" THEN NextSeed(d) /\ UNCHANGED failures
                           ELSE Exit1(d) /\ UNCHANGED seed
    /\ UNCHANGED <<migrated, foreign, rows, entries, attempt>>

\* A statement fails without effect, or the container is killed.
Fail(d) ==
    /\ pc[d] \in Working
    /\ Exit1(d)
    /\ UNCHANGED <<migrated, foreign, rows, entries, attempt, seed>>

\* Fault: failures are not held against the limit.
Restart_NoLimit(d) ==
    /\ pc[d] = "failed"
    /\ Goto(d, "ping")
    /\ seed' = [seed EXCEPT ![d] = 1]
    /\ failures' = 0
    /\ UNCHANGED <<migrated, foreign, rows, entries, attempt>>

\* restartPolicy: OnFailure, within backoffLimit.
Restart(d) ==
    /\ pc[d] = "failed"
    /\ failures <= BackoffLimit
    /\ Goto(d, "ping")
    /\ attempt' = [attempt EXCEPT ![d] = @ + 1]
    /\ seed' = [seed EXCEPT ![d] = 1]
    /\ UNCHANGED <<migrated, foreign, rows, entries, failures>>

\* The migration Job creates the tables.
Migrate ==
    /\ ~migrated
    /\ migrated' = TRUE
    /\ UNCHANGED <<foreign, rows, entries, pc, attempt, seed, failures>>

\* A partner is created through the API.
CreateForeign ==
    /\ migrated /\ ~foreign
    /\ foreign' = TRUE
    /\ UNCHANGED <<migrated, rows, entries, pc, attempt, seed, failures>>

GivenUp  == failures > BackoffLimit
PodOver(d) == pc[d] = "exited" \/ (pc[d] = "failed" /\ GivenUp)

Over ==
    /\ \A d \in Pods : PodOver(d)
    /\ UNCHANGED vars

Attempt(d) ==
    Ping(d) \/ ListExisting(d) \/ CreateSeed(d) \/ LogCreated(d) \/ LogNote(d) \/ Fail(d)

Next ==
    \/ \E d \in Pods : Attempt(d) \/ Restart(d)
    \/ Migrate
    \/ CreateForeign
    \/ Over

Spec == Init /\ [][Next]_vars

\* A process runs until it exits, and the kubelet starts it again.
FairSpec == Spec /\ \A d \in Pods : WF_vars(Attempt(d) \/ Restart(d))

-----------------------------------------------------------------------------
\* Every variable has the type its comment gives.
TypeOK ==
    /\ migrated \in BOOLEAN
    /\ foreign \in BOOLEAN
    /\ rows \subseteq SeedRows
    /\ entries \subseteq Entries
    /\ pc \in [Pods -> Working \cup {"exited", "failed"}]
    /\ attempt \in [Pods -> Nat \ {0}]
    /\ seed \in [Pods -> 1..SeedCount]
    /\ failures \in Nat

RowsOf(d) == {x \in rows : x.pod = d}

\* Whatever fails and however often a container is started again, a pod seeds in
\* one attempt only (main.go:67-74), and so inserts no seed twice.
OneAttemptSeeds ==
    \A d \in Pods : \A x, y \in RowsOf(d) : x.attempt = y.attempt

LoggedFully(x) ==
    /\ [row |-> x, type |-> "created"] \in entries
    /\ x.seed \in Noted => [row |-> x, type |-> "note"] \in entries

\* What a pod leaves behind is a prefix of the seeds, of which only the last can
\* lack activities: each error ends the loop where it happens (main.go:88-98).
PodLeavesAPrefix ==
    \A d \in Pods : \A x \in RowsOf(d) :
        /\ \A s \in 1..x.seed : \E y \in RowsOf(d) : y.seed = s
        /\ (\E y \in RowsOf(d) : y.seed > x.seed) => LoggedFully(x)
        /\ \A e \in entries : e.row \in rows

\* The Job comes to an end: each pod succeeds or is given up.
JobEnds == <>(\A d \in Pods : PodOver(d))

\* seed-job.yaml:10-11: the seeder is idempotent "so retries ... are safe": once a
\* pod has exited with 0 and nobody else created partners, all seeds are there.
RetriesComplete ==
    (\E d \in Pods : pc[d] = "exited") /\ ~foreign =>
        \A s \in 1..SeedCount : \E x \in rows : x.seed = s

\* seed-job.yaml:10-11: "The seeder is idempotent (skips if any partners already
\* exist), so retries and re-reconciles are safe": whichever attempts run, of one
\* pod or of two, no seed is in the table twice.
SeededOnce == \A x, y \in rows : x.seed = y.seed => x = y
=============================================================================
