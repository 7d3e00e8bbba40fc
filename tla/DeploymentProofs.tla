--------------------------- MODULE DeploymentProofs ---------------------------
(***************************************************************************)
(* Proofs about Seeder, for any number of pods, seeds and failures, and    *)
(* about Deployment: what is proved of the seed Job alone holds in a       *)
(* preview too, and races between the pods of the setup Job cost little,   *)
(* for any number of pods and of faults.                                   *)
(***************************************************************************)
EXTENDS Deployment, FiniteSetTheorems, TLAPS

-----------------------------------------------------------------------------
(* The seed Job.                                                           *)

\* While an attempt inserts, all rows of its pod are its own: it began on an
\* empty table.
OwnRowsOnly ==
    \A d \in Pods : pc[d] \in {"create", "log", "note"} =>
        \A x \in RowsOf(d) : x.attempt = attempt[d]

IInv == TypeOK /\ OwnRowsOnly /\ OneAttemptSeeds

LEMMA InitInv ==
    ASSUME Init
    PROVE  IInv
  <1>1. 1 \in 1..SeedCount /\ 0 \in Nat /\ 1 \in Nat \ {0}
    BY SeederAssumption
  <1>2. TypeOK
    BY <1>1 DEF Init, TypeOK, Working
  <1>3. OwnRowsOnly
    BY DEF Init, OwnRowsOnly
  <1>4. OneAttemptSeeds
    BY DEF Init, OneAttemptSeeds, RowsOf
  <1> QED
    BY <1>2, <1>3, <1>4 DEF IInv

\* The row of the current attempt is a seed row.
LEMMA CurrentRowType ==
    ASSUME TypeOK, NEW d \in Pods
    PROVE  CurrentRow(d) \in SeedRows
  BY DEF TypeOK, CurrentRow, SeedRows

LEMMA NextSeedType ==
    ASSUME TypeOK, NEW d \in Pods, NextSeed(d)
    PROVE  /\ pc' \in [Pods -> Working \cup {"exited", "failed"}]
           /\ seed' \in [Pods -> 1..SeedCount]
  <1>1. seed[d] \in 1..SeedCount /\ SeedCount \in Nat
    BY SeederAssumption DEF TypeOK
  <1>2. seed[d] < SeedCount => seed[d] + 1 \in 1..SeedCount
    BY <1>1
  <1>3. pc' \in [Pods -> Working \cup {"exited", "failed"}]
    BY DEF TypeOK, NextSeed, Goto, Working
  <1>4. CASE seed[d] < SeedCount
    BY <1>2, <1>3, <1>4 DEF TypeOK, NextSeed
  <1>5. CASE ~(seed[d] < SeedCount)
    BY <1>3, <1>5 DEF TypeOK, NextSeed
  <1> QED
    BY <1>4, <1>5

LEMMA Exit1Type ==
    ASSUME TypeOK, NEW d \in Pods, Exit1(d)
    PROVE  pc' \in [Pods -> Working \cup {"exited", "failed"}] /\ failures' \in Nat
  BY DEF TypeOK, Exit1, Goto, Working

\* Steps of a pod that insert no row and start no inserting.
LEMMA QuietStep ==
    ASSUME IInv, TypeOK', NEW d \in Pods, UNCHANGED <<rows, attempt>>,
           \A o \in Pods \ {d} : pc'[o] = pc[o],
           pc'[d] \in {"create", "log", "note"} => pc[d] \in {"create", "log", "note"} \/ rows = {}
    PROVE  IInv'
  <1>1. OneAttemptSeeds'
    BY DEF IInv, OneAttemptSeeds, RowsOf
  <1>2. OwnRowsOnly'
    BY DEF IInv, OwnRowsOnly, RowsOf
  <1> QED
    BY <1>1, <1>2 DEF IInv

LEMMA CreateSeedInv ==
    ASSUME IInv, NEW d \in Pods, CreateSeed(d)
    PROVE  IInv'
  <1>1. TypeOK
    BY DEF IInv
  <1>2. rows' = rows \cup {CurrentRow(d)} /\ attempt' = attempt /\ pc[d] = "create"
    BY DEF CreateSeed
  <1>3. pc' \in [Pods -> Working \cup {"exited", "failed"}] /\ failures' \in Nat
    BY <1>1, Exit1Type DEF CreateSeed, Goto, TypeOK, Working
  <1>4. TypeOK'
    BY <1>1, <1>2, <1>3, CurrentRowType DEF CreateSeed, TypeOK
  <1>5. CurrentRow(d).pod = d /\ CurrentRow(d).attempt = attempt[d]
    BY DEF CurrentRow
  <1>6. \A o \in Pods \ {d} : pc'[o] = pc[o] /\ RowsOf(o)' = RowsOf(o)
    BY <1>1, <1>2, <1>5 DEF CreateSeed, Goto, Exit1, RowsOf, TypeOK
  <1>7. \A x \in RowsOf(d)' : x.attempt = attempt[d]
    BY <1>2, <1>5 DEF IInv, OwnRowsOnly, RowsOf
  <1>8. OwnRowsOnly'
    BY <1>2, <1>6, <1>7 DEF IInv, OwnRowsOnly
  <1>9. OneAttemptSeeds'
    BY <1>6, <1>7 DEF IInv, OneAttemptSeeds
  <1> QED
    BY <1>4, <1>8, <1>9 DEF IInv

LEMMA AttemptInv ==
    ASSUME IInv, NEW d \in Pods, Attempt(d)
    PROVE  IInv'
  <1>1. TypeOK
    BY DEF IInv
  <1>2. CASE Ping(d)
    <2>1. TypeOK'
      BY <1>1, <1>2 DEF Ping, TypeOK, Goto, Working
    <2>2. pc'[d] = "list" /\ \A o \in Pods \ {d} : pc'[o] = pc[o]
      BY <1>1, <1>2 DEF Ping, TypeOK, Goto
    <2> QED
      BY <1>2, <2>1, <2>2, QuietStep DEF Ping
  <1>3. CASE ListExisting(d)
    <2>1. TypeOK'
      BY <1>1, <1>3 DEF ListExisting, TypeOK, Goto, Working
    <2>2. /\ pc'[d] = (IF TableEmpty THEN "create" ELSE "exited")
          /\ \A o \in Pods \ {d} : pc'[o] = pc[o]
      BY <1>1, <1>3 DEF ListExisting, TypeOK, Goto
    <2> QED
      BY <1>3, <2>1, <2>2, QuietStep DEF ListExisting, TableEmpty
  <1>4. CASE CreateSeed(d)
    BY <1>4, CreateSeedInv
  <1>5. CASE LogCreated(d) \/ LogNote(d)
    <2>1. entries' \subseteq Entries
      BY <1>1, <1>5, CurrentRowType DEF LogCreated, LogNote, TypeOK, Entries
    <2>2. /\ pc' \in [Pods -> Working \cup {"exited", "failed"}]
          /\ seed' \in [Pods -> 1..SeedCount] /\ failures' \in Nat
      BY <1>1, <1>5, NextSeedType, Exit1Type DEF LogCreated, LogNote, TypeOK, Goto, Working
    <2>3. TypeOK'
      BY <1>1, <1>5, <2>1, <2>2 DEF LogCreated, LogNote, TypeOK
    <2>4. pc[d] \in {"log", "note"} /\ \A o \in Pods \ {d} : pc'[o] = pc[o]
      BY <1>1, <1>5 DEF LogCreated, LogNote, NextSeed, Exit1, Goto, TypeOK
    <2> QED
      BY <1>5, <2>3, <2>4, QuietStep DEF LogCreated, LogNote
  <1>6. CASE Fail(d)
    <2>1. TypeOK'
      BY <1>1, <1>6, Exit1Type DEF Fail, TypeOK
    <2>2. pc'[d] = "failed" /\ \A o \in Pods \ {d} : pc'[o] = pc[o]
      BY <1>1, <1>6 DEF Fail, Exit1, Goto, TypeOK
    <2> QED
      BY <1>6, <2>1, <2>2, QuietStep DEF Fail
  <1> QED
    BY <1>2, <1>3, <1>4, <1>5, <1>6 DEF Attempt

LEMMA RestartInv ==
    ASSUME IInv, NEW d \in Pods, Restart(d)
    PROVE  IInv'
  <1>1. TypeOK'
    BY SeederAssumption DEF IInv, Restart, TypeOK, Goto, Working
  <1>2. /\ pc'[d] = "ping"
        /\ \A o \in Pods \ {d} : pc'[o] = pc[o] /\ attempt'[o] = attempt[o]
        /\ rows' = rows
    BY DEF IInv, Restart, TypeOK, Goto
  <1>3. OwnRowsOnly'
    BY <1>2 DEF IInv, OwnRowsOnly, RowsOf
  <1>4. OneAttemptSeeds'
    BY <1>2 DEF IInv, OneAttemptSeeds, RowsOf
  <1> QED
    BY <1>1, <1>3, <1>4 DEF IInv

LEMMA NextInv == IInv /\ [Next]_vars => IInv'
  <1> SUFFICES ASSUME IInv, [Next]_vars PROVE IInv'
    OBVIOUS
  <1>1. ASSUME NEW d \in Pods, Attempt(d) \/ Restart(d)
        PROVE  IInv'
    BY <1>1, AttemptInv, RestartInv
  <1>2. CASE Migrate \/ CreateForeign
    BY <1>2 DEF Migrate, CreateForeign, IInv, TypeOK, OwnRowsOnly, OneAttemptSeeds, RowsOf
  <1>3. CASE UNCHANGED vars
    BY <1>3 DEF vars, IInv, TypeOK, OwnRowsOnly, OneAttemptSeeds, RowsOf
  <1> QED
    BY <1>1, <1>2, <1>3 DEF Next, Over

\* However many pods run and however often their containers are started again,
\* the rows of a pod come from one attempt: the check at main.go:67-74 stops the
\* attempts after one that inserted something.
THEOREM SeedsOncePerPod == Spec => []OneAttemptSeeds
  <1>1. IInv => OneAttemptSeeds
    BY DEF IInv
  <1> QED
    BY <1>1, InitInv, NextInv, PTL DEF Spec

-----------------------------------------------------------------------------
(* What a pod leaves behind.                                               *)

\* The rows of pod d are those of the first n seeds, and those before the m-th
\* have their activities.
Prefix(d, n, m) ==
    /\ \A x \in RowsOf(d) : x.seed <= n
    /\ \A s \in 1 .. n : \E x \in RowsOf(d) : x.seed = s
    /\ \A x \in RowsOf(d) : x.seed < m => LoggedFully(x)

\* Where the attempt of a pod is in the loop over the seeds, and what it has
\* inserted by then.
PodInv(d) ==
    /\ pc[d] \in {"ping", "list"} => seed[d] = 1
    /\ pc[d] = "create" => Prefix(d, seed[d] - 1, seed[d])
    /\ pc[d] \in {"log", "note"} => Prefix(d, seed[d], seed[d]) /\ CurrentRow(d) \in rows
    /\ pc[d] = "note" => [row |-> CurrentRow(d), type |-> "created"] \in entries
    /\ \E n \in 0 .. SeedCount : Prefix(d, n, n)

EntriesHaveRows == \A e \in entries : e.row \in rows

PrefixInv == IInv /\ EntriesHaveRows /\ \A d \in Pods : PodInv(d)

\* Steps after which no row of the pod is gone or added keep its prefix.
LEMMA PrefixKeeps ==
    ASSUME NEW d \in Pods, NEW n \in Nat, NEW m \in Nat, Prefix(d, n, m),
           RowsOf(d)' = RowsOf(d), entries \subseteq entries'
    PROVE  Prefix(d, n, m)'
  BY DEF Prefix, LoggedFully

LEMMA OtherPods ==
    ASSUME PrefixInv, TypeOK, NEW o \in Pods, pc'[o] = pc[o], seed'[o] = seed[o], attempt'[o] = attempt[o],
           RowsOf(o)' = RowsOf(o), rows \subseteq rows', entries \subseteq entries'
    PROVE  PodInv(o)'
  <1>1. seed[o] \in Nat /\ seed[o] - 1 \in Nat /\ SeedCount \in Nat
    BY SeederAssumption DEF TypeOK
  <1>2. CurrentRow(o)' = CurrentRow(o)
    BY DEF CurrentRow
  <1>3. PodInv(o)
    BY DEF PrefixInv
  <1>4. \A n, m \in Nat : Prefix(o, n, m) => Prefix(o, n, m)'
    BY PrefixKeeps
  <1>5. PICK n \in 0 .. SeedCount : Prefix(o, n, n)
    BY <1>3 DEF PodInv
  <1>6. Prefix(o, n, n)'
    BY <1>1, <1>4, <1>5
  <1>7. pc[o] = "create" => Prefix(o, seed[o] - 1, seed[o])'
    BY <1>1, <1>3, <1>4 DEF PodInv
  <1>8. pc[o] \in {"log", "note"} => Prefix(o, seed[o], seed[o])'
    BY <1>1, <1>3, <1>4 DEF PodInv
  <1> QED
    BY <1>2, <1>3, <1>6, <1>7, <1>8 DEF PodInv

\* A pod that inserts no row keeps what it has left behind.
LEMMA SomePrefix ==
    ASSUME PrefixInv, NEW d \in Pods, RowsOf(d)' = RowsOf(d), entries \subseteq entries'
    PROVE  \E n \in 0 .. SeedCount : Prefix(d, n, n)'
  <1>1. SeedCount \in Nat
    BY SeederAssumption
  <1>2. PICK n \in 0 .. SeedCount : Prefix(d, n, n)
    BY DEF PrefixInv, PodInv
  <1>3. Prefix(d, n, n)'
    BY <1>1, <1>2, PrefixKeeps
  <1> QED
    BY <1>3

LEMMA StopPrefix ==
    ASSUME PrefixInv, NEW d \in Pods, pc'[d] \in {"exited", "failed"},
           RowsOf(d)' = RowsOf(d), entries \subseteq entries'
    PROVE  PodInv(d)'
  <1>1. \E n \in 0 .. SeedCount : Prefix(d, n, n)'
    BY SomePrefix
  <1> QED
    BY <1>1 DEF PodInv

\* While an attempt inserts, its current row is the only one of its seed.
LEMMA RowOfSeed ==
    ASSUME IInv, NEW d \in Pods, pc[d] \in {"create", "log", "note"},
           NEW x \in RowsOf(d), x.seed = seed[d]
    PROVE  x = CurrentRow(d)
  <1>1. x \in SeedRows /\ x.pod = d /\ x.attempt = attempt[d]
    BY DEF IInv, TypeOK, OwnRowsOnly, RowsOf
  <1> QED
    BY <1>1 DEF SeedRows, CurrentRow

\* Once its row has all activities, the attempt goes on to the next seed, or ends.
LEMMA NextSeedPrefix ==
    ASSUME PrefixInv, NEW d \in Pods, pc[d] \in {"log", "note"}, NextSeed(d),
           UNCHANGED <<rows, attempt>>, entries \subseteq entries',
           NEW row, row = CurrentRow(d), LoggedFully(row)'
    PROVE  PodInv(d)'
  <1>1. TypeOK /\ IInv
    BY DEF PrefixInv, IInv
  <1>2. PICK n : n = seed[d]
    OBVIOUS
  <1>3. n \in 1 .. SeedCount /\ n \in Nat /\ n + 1 \in Nat /\ n \in 0 .. SeedCount /\ SeedCount \in Nat
    BY <1>1, <1>2, SeederAssumption DEF TypeOK
  <1>4. Prefix(d, n, n)
    BY <1>2 DEF PrefixInv, PodInv
  <1>5. RowsOf(d)' = RowsOf(d)
    BY DEF RowsOf
  <1>6. Prefix(d, n, n)'
    BY <1>3, <1>4, <1>5, PrefixKeeps
  <1>7. CASE n < SeedCount
    <2>1. pc'[d] = "create" /\ seed'[d] = n + 1
      BY <1>1, <1>2, <1>7 DEF NextSeed, Goto, TypeOK
    <2>5. \A x \in RowsOf(d) : x.seed < n + 1 => LoggedFully(x)'
      <3> SUFFICES ASSUME NEW x \in RowsOf(d), x.seed < n + 1
                   PROVE  LoggedFully(x)'
        OBVIOUS
      <3>1. x.seed \in Nat
        BY <1>1 DEF RowsOf, TypeOK, SeedRows
      <3>2. CASE x.seed < n
        BY <1>5, <1>6, <3>2 DEF Prefix
      <3>3. CASE x.seed = n
        BY <1>1, <1>2, <3>3, RowOfSeed
      <3> QED
        BY <1>3, <3>1, <3>2, <3>3
    <2>6. Prefix(d, n, n + 1)'
      BY <1>5, <1>6, <2>5 DEF Prefix
    <2>7. seed'[d] - 1 = n
      BY <1>3, <2>1
    <2>8. Prefix(d, seed[d] - 1, seed[d])'
      BY <2>1, <2>6, <2>7
    <2> QED
      BY <1>3, <1>6, <2>1, <2>8 DEF PodInv
  <1>8. CASE ~(n < SeedCount)
    <2>1. pc'[d] = "exited"
      BY <1>1, <1>2, <1>8 DEF NextSeed, Goto, TypeOK
    <2> QED
      BY <1>5, <2>1, StopPrefix
  <1> QED
    BY <1>7, <1>8

LEMMA CreateSeedPrefix ==
    ASSUME PrefixInv, NEW d \in Pods, CreateSeed(d)
    PROVE  PodInv(d)'
  <1>1. TypeOK /\ IInv
    BY DEF PrefixInv, IInv
  <1>2. PICK n : n = seed[d]
    OBVIOUS
  <1>3. n \in Nat /\ n - 1 \in Nat /\ n \in 0 .. SeedCount
    BY <1>1, <1>2, SeederAssumption DEF TypeOK
  <1>4. PICK row : row = CurrentRow(d)
    OBVIOUS
  <1>5. row.pod = d /\ row.seed = n
    BY <1>2, <1>4 DEF CurrentRow
  <1>6. /\ rows' = rows \cup {row} /\ UNCHANGED <<entries, attempt, seed>>
        /\ RowsOf(d)' = RowsOf(d) \cup {row}
    BY <1>4, <1>5 DEF CreateSeed, RowsOf
  <1>7. Prefix(d, n - 1, n)
    BY <1>2 DEF CreateSeed, PrefixInv, PodInv
  <1>8. \A x \in RowsOf(d) : x.seed <= n - 1 /\ x.seed \in Nat /\ LoggedFully(x)'
    <2>1. \A x \in RowsOf(d) : x.seed \in Nat
      BY <1>1 DEF RowsOf, TypeOK, SeedRows
    <2>2. \A x \in RowsOf(d) : LoggedFully(x) => LoggedFully(x)'
      BY <1>6 DEF LoggedFully
    <2> QED
      BY <1>3, <1>7, <2>1, <2>2 DEF Prefix
  <1>9. Prefix(d, n, n)'
    <2>1. \A x \in RowsOf(d)' : x.seed <= n
      BY <1>3, <1>5, <1>6, <1>8
    <2>2. \A s \in 1 .. n : \E x \in RowsOf(d)' : x.seed = s
      <3>1. \A s \in 1 .. (n - 1) : \E x \in RowsOf(d) : x.seed = s
        BY <1>7 DEF Prefix
      <3>2. \A s \in 1 .. n : s = n \/ s \in 1 .. (n - 1)
        BY <1>3
      <3> QED
        BY <1>5, <1>6, <3>1, <3>2
    <2>3. \A x \in RowsOf(d)' : x.seed < n => LoggedFully(x)'
      BY <1>3, <1>5, <1>6, <1>8
    <2> QED
      BY <2>1, <2>2, <2>3 DEF Prefix
  <1>10. pc'[d] \in {"log", "failed"}
    BY <1>1 DEF CreateSeed, Exit1, Goto, TypeOK
  <1>11. CurrentRow(d)' \in rows'
    BY <1>4, <1>6 DEF CurrentRow
  <1> QED
    BY <1>2, <1>3, <1>6, <1>9, <1>10, <1>11 DEF PodInv

LEMMA LogPrefix ==
    ASSUME PrefixInv, NEW d \in Pods, LogCreated(d) \/ LogNote(d)
    PROVE  PodInv(d)' /\ EntriesHaveRows'
  <1>1. TypeOK /\ IInv
    BY DEF PrefixInv, IInv
  <1>2. PICK row : row = CurrentRow(d)
    OBVIOUS
  <1>3. row \in rows /\ row.seed = seed[d] /\ Prefix(d, seed[d], seed[d]) /\ pc[d] \in {"log", "note"}
    BY <1>2 DEF LogCreated, LogNote, PrefixInv, PodInv, CurrentRow
  <1>4. UNCHANGED <<rows, attempt>> /\ entries \subseteq entries' /\ RowsOf(d)' = RowsOf(d)
    BY DEF LogCreated, LogNote, RowsOf
  <1>5. EntriesHaveRows'
    <2>1. PICK type : entries' = entries \cup {[row |-> row, type |-> type]}
      BY <1>2 DEF LogCreated, LogNote
    <2> QED
      BY <1>3, <1>4, <2>1 DEF PrefixInv, EntriesHaveRows
  <1>6. CASE Exit1(d)
    BY <1>1, <1>4, <1>5, <1>6, StopPrefix DEF Exit1, Goto, TypeOK
  <1>7. CASE LogCreated(d) /\ seed[d] \in Noted /\ Goto(d, "note") /\ UNCHANGED seed
    <2>1. pc'[d] = "note"
      BY <1>1, <1>7 DEF Goto, TypeOK
    <2>2. [row |-> CurrentRow(d), type |-> "created"]' \in entries' /\ CurrentRow(d)' \in rows'
      BY <1>2, <1>3, <1>4, <1>7 DEF LogCreated, CurrentRow
    <2>3. seed[d] \in Nat /\ seed[d] \in 0 .. SeedCount
      BY <1>1, SeederAssumption DEF TypeOK
    <2>4. Prefix(d, seed[d], seed[d])'
      BY <1>3, <1>4, <1>7, <2>3, PrefixKeeps
    <2>5. \E n \in 0 .. SeedCount : Prefix(d, n, n)'
      BY <1>4, SomePrefix
    <2>6. Prefix(d, seed[d], seed[d])' /\ seed'[d] = seed[d]
      BY <1>7, <2>4
    <2>7. PodInv(d)'
      BY <2>1, <2>2, <2>5, <2>6 DEF PodInv
    <2> QED
      BY <1>5, <2>7
  <1>8. CASE LogCreated(d) /\ seed[d] \notin Noted /\ NextSeed(d)
    <2>1. LoggedFully(row)'
      BY <1>2, <1>3, <1>8 DEF LogCreated, LoggedFully
    <2> QED
      BY <1>2, <1>3, <1>4, <1>5, <1>8, <2>1, NextSeedPrefix
  <1>9. CASE LogNote(d) /\ NextSeed(d)
    <2>1. [row |-> row, type |-> "created"] \in entries
      BY <1>2, <1>9 DEF LogNote, PrefixInv, PodInv
    <2>2. LoggedFully(row)'
      BY <1>2, <1>4, <1>9, <2>1 DEF LogNote, LoggedFully
    <2> QED
      BY <1>2, <1>3, <1>4, <1>5, <1>9, <2>2, NextSeedPrefix
  <1> QED
    BY <1>5, <1>6, <1>7, <1>8, <1>9 DEF LogCreated, LogNote

LEMMA AttemptPrefix ==
    ASSUME PrefixInv, NEW d \in Pods, Attempt(d) \/ Restart(d)
    PROVE  PrefixInv'
  <1>1. TypeOK /\ IInv /\ IInv'
    BY AttemptInv, RestartInv DEF PrefixInv, IInv
  <1>2. \A o \in Pods \ {d} : pc'[o] = pc[o] /\ seed'[o] = seed[o] /\ attempt'[o] = attempt[o]
    BY <1>1 DEF Attempt, Restart, Ping, ListExisting, CreateSeed, LogCreated, LogNote, Fail, NextSeed,
                Exit1, Goto, TypeOK
  <1>3. rows \subseteq rows' /\ entries \subseteq entries' /\ \A o \in Pods \ {d} : RowsOf(o)' = RowsOf(o)
    BY DEF Attempt, Restart, Ping, ListExisting, CreateSeed, LogCreated, LogNote, Fail, RowsOf, CurrentRow
  <1>4. \A o \in Pods \ {d} : PodInv(o)'
    BY <1>1, <1>2, <1>3, OtherPods
  <1>5. ASSUME UNCHANGED <<rows, entries>> PROVE EntriesHaveRows' /\ RowsOf(d)' = RowsOf(d)
    BY <1>5 DEF PrefixInv, EntriesHaveRows, RowsOf
  <1>6. CASE Ping(d)
    <2>1. pc'[d] = "list" /\ seed'[d] = 1
      BY <1>1, <1>6 DEF Ping, Goto, TypeOK, PrefixInv, PodInv
    <2>2. \E n \in 0 .. SeedCount : Prefix(d, n, n)'
      BY <1>6, <1>5, SomePrefix DEF Ping
    <2>3. PodInv(d)'
      BY <2>1, <2>2 DEF PodInv
    <2> QED
      BY <1>1, <1>4, <1>5, <1>6, <2>3 DEF Ping, PrefixInv
  <1>7. CASE ListExisting(d)
    <2>1. CASE TableEmpty
      <3>1. pc'[d] = "create" /\ seed'[d] = 1 /\ RowsOf(d)' = {}
        BY <1>1, <1>7, <2>1 DEF ListExisting, Goto, TypeOK, PrefixInv, PodInv, TableEmpty, RowsOf
      <3>2. \A m : Prefix(d, 0, m)'
        BY <3>1 DEF Prefix
      <3>3. 0 \in 0 .. SeedCount
        BY SeederAssumption
      <3>4. Prefix(d, seed[d] - 1, seed[d])'
        BY <3>1, <3>2
      <3>5. PodInv(d)'
        BY <3>1, <3>2, <3>3, <3>4 DEF PodInv
      <3> QED
        BY <1>1, <1>4, <1>5, <1>7, <3>5 DEF ListExisting, PrefixInv
    <2>2. CASE ~TableEmpty
      <3>1. pc'[d] = "exited"
        BY <1>1, <1>7, <2>2 DEF ListExisting, Goto, TypeOK
      <3>2. PodInv(d)'
        BY <1>5, <1>7, <3>1, StopPrefix DEF ListExisting
      <3> QED
        BY <1>1, <1>4, <1>5, <1>7, <3>2 DEF ListExisting, PrefixInv
    <2> QED
      BY <2>1, <2>2
  <1>8. CASE CreateSeed(d)
    <2>1. EntriesHaveRows'
      BY <1>3, <1>8 DEF CreateSeed, PrefixInv, EntriesHaveRows
    <2> QED
      BY <1>1, <1>4, <1>8, <2>1, CreateSeedPrefix DEF PrefixInv
  <1>9. CASE LogCreated(d) \/ LogNote(d)
    BY <1>1, <1>4, <1>9, LogPrefix DEF PrefixInv
  <1>10. CASE Fail(d)
    <2>1. pc'[d] = "failed"
      BY <1>1, <1>10 DEF Fail, Exit1, Goto, TypeOK
    <2>2. PodInv(d)'
      BY <1>5, <1>10, <2>1, StopPrefix DEF Fail
    <2> QED
      BY <1>1, <1>4, <1>5, <1>10, <2>2 DEF Fail, PrefixInv
  <1>11. CASE Restart(d)
    <2>1. pc'[d] = "ping" /\ seed'[d] = 1
      BY <1>1, <1>11 DEF Restart, Goto, TypeOK
    <2>2. \E n \in 0 .. SeedCount : Prefix(d, n, n)'
      BY <1>11, <1>5, SomePrefix DEF Restart
    <2>3. PodInv(d)'
      BY <2>1, <2>2 DEF PodInv
    <2> QED
      BY <1>1, <1>4, <1>5, <1>11, <2>3 DEF Restart, PrefixInv
  <1> QED
    BY <1>6, <1>7, <1>8, <1>9, <1>10, <1>11 DEF Attempt

LEMMA InitPrefix ==
    ASSUME Init
    PROVE  PrefixInv
  <1>1. \A d \in Pods : RowsOf(d) = {}
    BY DEF Init, RowsOf
  <1>2. 0 \in 0 .. SeedCount
    BY SeederAssumption
  <1>3. \A d \in Pods : Prefix(d, 0, 0)
    BY <1>1 DEF Prefix
  <1>4. \A d \in Pods : PodInv(d)
    BY <1>2, <1>3 DEF Init, PodInv
  <1> QED
    BY <1>4, InitInv DEF Init, PrefixInv, EntriesHaveRows

LEMMA NextPrefix == PrefixInv /\ [Next]_vars => PrefixInv'
  <1> SUFFICES ASSUME PrefixInv, [Next]_vars PROVE PrefixInv'
    OBVIOUS
  <1>1. IInv' /\ TypeOK
    BY NextInv DEF PrefixInv, IInv
  <1>2. CASE UNCHANGED <<rows, entries, pc, seed, attempt>>
    <2>1. \A d \in Pods : RowsOf(d)' = RowsOf(d)
      BY <1>2 DEF RowsOf
    <2>2. \A d \in Pods : PodInv(d)'
      BY <1>1, <1>2, <2>1, OtherPods
    <2> QED
      BY <1>1, <1>2, <2>2 DEF PrefixInv, EntriesHaveRows
  <1> QED
    BY <1>2, AttemptPrefix DEF Next, Migrate, CreateForeign, Over, vars

LEMMA PrefixResult == PrefixInv => PodLeavesAPrefix
  <1> SUFFICES ASSUME PrefixInv, NEW d \in Pods, NEW x \in RowsOf(d)
               PROVE  /\ \A s \in 1 .. x.seed : \E y \in RowsOf(d) : y.seed = s
                      /\ (\E y \in RowsOf(d) : y.seed > x.seed) => LoggedFully(x)
                      /\ \A e \in entries : e.row \in rows
    BY DEF PodLeavesAPrefix
  <1>1. PICK n \in 0 .. SeedCount : Prefix(d, n, n)
    BY DEF PrefixInv, PodInv
  <1>2. n \in Nat /\ \A y \in RowsOf(d) : y.seed \in Nat /\ y.seed <= n
    BY <1>1, SeederAssumption DEF PrefixInv, IInv, TypeOK, RowsOf, SeedRows, Prefix
  <1>3. \A s \in 1 .. x.seed : s \in 1 .. n
    BY <1>2
  <1>4. (\E y \in RowsOf(d) : y.seed > x.seed) => x.seed < n
    BY <1>2
  <1> QED
    BY <1>1, <1>3, <1>4 DEF Prefix, PrefixInv, EntriesHaveRows

\* Each error ends the loop over the seeds where it happens (main.go:88-98), so
\* that a pod leaves the first seeds, and at most the last of them without all
\* of its activities, whatever the other pods and the API do.
THEOREM PodsLeavePrefixes == Spec => []PodLeavesAPrefix
  <1> QED
    BY InitPrefix, NextPrefix, PrefixResult, PTL DEF Spec

-----------------------------------------------------------------------------
(* The setup Job.                                                          *)

StepsIn(labels) == {d \in SetupPods : step[d] \in labels}

\* The pods that the existence of the role, or of the database, will surprise; as
\* long as it does not exist, the one that creates it is not among them.
RoleRaces     == IF role THEN Cardinality(StepsIn({"createRole"})) ELSE Cardinality(SetupPods) - 1
DatabaseRaces == IF database THEN Cardinality(StepsIn({"checkRole", "createRole", "createDatabase"}))
                             ELSE Cardinality(SetupPods) - 1

\* Each failure was a fault or a race, and each race is lost once by a pod.
SetupInv ==
    /\ SetupTypeOK
    /\ setupFailures + RoleRaces + DatabaseRaces <= faults + 2 * (Cardinality(SetupPods) - 1)

LEMMA PodCount == Cardinality(SetupPods) \in Nat /\ Cardinality(SetupPods) >= 1
  BY SetupAssumption, FS_CardinalityType, FS_EmptySet

\* What one pod's step does to the number of pods at some steps.
LEMMA StepCount ==
    ASSUME SetupTypeOK, NEW d \in SetupPods, NEW l, ScriptGoto(d, l), NEW labels
    PROVE  /\ Cardinality(StepsIn(labels)) \in Nat
           /\ Cardinality(StepsIn(labels)') \in Nat
           /\ l \in labels /\ step[d] \in labels =>
                 Cardinality(StepsIn(labels)') = Cardinality(StepsIn(labels))
           /\ l \notin labels => /\ Cardinality(StepsIn(labels)') <= Cardinality(StepsIn(labels))
                                 /\ Cardinality(StepsIn(labels)') <= Cardinality(SetupPods) - 1
           /\ l \notin labels /\ step[d] \in labels =>
                 Cardinality(StepsIn(labels)') = Cardinality(StepsIn(labels)) - 1
  <1>1. step'[d] = l /\ \A o \in SetupPods \ {d} : step'[o] = step[o]
    BY DEF SetupTypeOK, ScriptGoto
  <1>2. /\ StepsIn(labels) \subseteq SetupPods /\ StepsIn(labels)' \subseteq SetupPods
        /\ IsFiniteSet(StepsIn(labels)) /\ IsFiniteSet(StepsIn(labels)')
        /\ Cardinality(StepsIn(labels)) \in Nat /\ Cardinality(StepsIn(labels)') \in Nat
    <2>1. StepsIn(labels) \subseteq SetupPods /\ StepsIn(labels)' \subseteq SetupPods
      BY DEF StepsIn
    <2> QED
      BY <2>1, SetupAssumption, FS_Subset, FS_CardinalityType
  <1>3. l \in labels /\ step[d] \in labels => StepsIn(labels)' = StepsIn(labels)
    BY <1>1 DEF StepsIn
  <1>4. l \notin labels => StepsIn(labels)' = StepsIn(labels) \ {d}
    BY <1>1 DEF StepsIn
  <1>5. step[d] \in labels => Cardinality(StepsIn(labels) \ {d}) = Cardinality(StepsIn(labels)) - 1
    <2>1. step[d] \in labels => d \in StepsIn(labels)
      BY DEF StepsIn
    <2> QED
      BY <1>2, <2>1, FS_RemoveElement
  <1>6. step[d] \notin labels => StepsIn(labels) \ {d} = StepsIn(labels)
    BY DEF StepsIn
  <1>7. l \notin labels => Cardinality(StepsIn(labels)') <= Cardinality(SetupPods) - 1
    <2>1. /\ IsFiniteSet(SetupPods \ {d})
          /\ Cardinality(SetupPods \ {d}) = Cardinality(SetupPods) - 1
      BY SetupAssumption, FS_RemoveElement
    <2>2. l \notin labels => StepsIn(labels)' \subseteq SetupPods \ {d}
      BY <1>2, <1>4
    <2> QED
      BY <2>1, <2>2, FS_Subset
  <1> QED
    BY <1>2, <1>3, <1>4, <1>5, <1>6, <1>7

Ahead == {"checkRole", "createRole", "createDatabase"}

\* A step of a pod adds no race, and the failure of a race uses one up.
LEMMA RacesStep ==
    ASSUME SetupTypeOK, NEW d \in SetupPods, NEW l, ScriptGoto(d, l),
           role' = role \/ (~role /\ role' = TRUE /\ l # "createRole"),
           database' = database \/ (~database /\ database' = TRUE /\ l \notin Ahead),
           role /\ l = "createRole" => step[d] = "createRole",
           database /\ l \in Ahead => step[d] \in Ahead
    PROVE  /\ RoleRaces \in Int /\ RoleRaces' \in Int /\ DatabaseRaces \in Int /\ DatabaseRaces' \in Int
           /\ RoleRaces' <= RoleRaces /\ DatabaseRaces' <= DatabaseRaces
           /\ role /\ step[d] = "createRole" /\ l # "createRole" => RoleRaces' <= RoleRaces - 1
           /\ database /\ step[d] \in Ahead /\ l \notin Ahead => DatabaseRaces' <= DatabaseRaces - 1
  <1> DEFINE n == Cardinality(SetupPods)
             r == Cardinality(StepsIn({"createRole"}))
             b == Cardinality(StepsIn(Ahead))
  <1>1. n \in Nat /\ role \in BOOLEAN /\ database \in BOOLEAN
    BY PodCount DEF SetupTypeOK
  <1>2. /\ r \in Nat /\ r' \in Nat
        /\ l = "createRole" /\ step[d] = "createRole" => r' = r
        /\ l # "createRole" => r' <= r /\ r' <= n - 1
        /\ l # "createRole" /\ step[d] = "createRole" => r' = r - 1
    BY StepCount
  <1>3. /\ b \in Nat /\ b' \in Nat
        /\ l \in Ahead /\ step[d] \in Ahead => b' = b
        /\ l \notin Ahead => b' <= b /\ b' <= n - 1
        /\ l \notin Ahead /\ step[d] \in Ahead => b' = b - 1
    BY StepCount DEF Ahead
  <1>4. /\ role => RoleRaces = r
        /\ role' => RoleRaces' = r'
        /\ ~role => RoleRaces = n - 1
        /\ ~role' => RoleRaces' = n - 1
    BY DEF RoleRaces
  <1>5. /\ database => DatabaseRaces = b
        /\ database' => DatabaseRaces' = b'
        /\ ~database => DatabaseRaces = n - 1
        /\ ~database' => DatabaseRaces' = n - 1
    BY DEF DatabaseRaces, Ahead
  <1> HIDE DEF n, r, b
  <1>6. /\ RoleRaces \in Int /\ RoleRaces' \in Int /\ RoleRaces' <= RoleRaces
        /\ role /\ step[d] = "createRole" /\ l # "createRole" => RoleRaces' <= RoleRaces - 1
    BY <1>1, <1>2, <1>4
  <1>7. /\ DatabaseRaces \in Int /\ DatabaseRaces' \in Int /\ DatabaseRaces' <= DatabaseRaces
        /\ database /\ step[d] \in Ahead /\ l \notin Ahead => DatabaseRaces' <= DatabaseRaces - 1
    BY <1>1, <1>3, <1>5
  <1> QED
    BY <1>6, <1>7

-----------------------------------------------------------------------------
(* Each step of a pod's script keeps SetupInv.                             *)

LEMMA StepTypes ==
    ASSUME SetupTypeOK, NEW d \in SetupPods,
           NEW l \in SetupSteps \cup {"failed", "done"}, ScriptGoto(d, l)
    PROVE  step' \in [SetupPods -> SetupSteps \cup {"failed", "done"}]
  BY DEF SetupTypeOK, ScriptGoto

\* A step to l without a failure.
LEMMA QuietSetupStep ==
    ASSUME SetupInv, NEW d \in SetupPods,
           NEW l \in SetupSteps \cup {"failed", "done"}, ScriptGoto(d, l),
           role' \in BOOLEAN, database' \in BOOLEAN,
           role' = role \/ (~role /\ role' = TRUE /\ l # "createRole"),
           database' = database \/ (~database /\ database' = TRUE /\ l \notin Ahead),
           role /\ l = "createRole" => step[d] = "createRole",
           database /\ l \in Ahead => step[d] \in Ahead,
           UNCHANGED <<setupFailures, faults>>
    PROVE  SetupInv'
  <1> SetupTypeOK
    BY DEF SetupInv
  <1>1. SetupTypeOK'
    BY StepTypes DEF SetupTypeOK
  <1>2. /\ RoleRaces \in Int /\ RoleRaces' \in Int /\ DatabaseRaces \in Int /\ DatabaseRaces' \in Int
        /\ RoleRaces' <= RoleRaces /\ DatabaseRaces' <= DatabaseRaces
    BY RacesStep
  <1>3. setupFailures \in Nat /\ faults \in Nat /\ Cardinality(SetupPods) \in Nat
    BY PodCount, SetupAssumption DEF SetupTypeOK
  <1>4. setupFailures + RoleRaces + DatabaseRaces <= faults + 2 * (Cardinality(SetupPods) - 1)
    BY DEF SetupInv
  <1>5. setupFailures' + RoleRaces' + DatabaseRaces' <= faults' + 2 * (Cardinality(SetupPods) - 1)
    BY <1>2, <1>3, <1>4
  <1> QED
    BY <1>1, <1>5 DEF SetupInv

\* A step to "failed": a fault, or a race that was lost.
LEMMA FailedSetupStep ==
    ASSUME SetupInv, NEW d \in SetupPods, ScriptFails(d),
           role' \in BOOLEAN, database' \in BOOLEAN,
           role' = role \/ (~role /\ role' = TRUE),
           database' = database \/ (~database /\ database' = TRUE),
           \/ faults < MaxFaults /\ faults' = faults + 1
           \/ /\ faults' = faults
              /\ \/ role /\ step[d] = "createRole"
                 \/ database /\ step[d] = "createDatabase"
    PROVE  SetupInv'
  <1> SetupTypeOK /\ ScriptGoto(d, "failed") /\ setupFailures' = setupFailures + 1
    BY DEF SetupInv, ScriptFails
  <1>1. SetupTypeOK'
    <2>1. step' \in [SetupPods -> SetupSteps \cup {"failed", "done"}]
      BY StepTypes
    <2>2. setupFailures' \in Nat /\ faults' \in 0 .. MaxFaults
      BY SetupAssumption DEF SetupTypeOK
    <2> QED
      BY <2>1, <2>2 DEF SetupTypeOK
  <1>2. /\ RoleRaces \in Int /\ RoleRaces' \in Int /\ DatabaseRaces \in Int /\ DatabaseRaces' \in Int
        /\ RoleRaces' <= RoleRaces /\ DatabaseRaces' <= DatabaseRaces
        /\ role /\ step[d] = "createRole" => RoleRaces' <= RoleRaces - 1
        /\ database /\ step[d] \in Ahead => DatabaseRaces' <= DatabaseRaces - 1
    <2>1. PICK l : l = "failed"
      OBVIOUS
    <2>2. l \notin Ahead /\ l # "createRole" /\ ScriptGoto(d, l)
      BY <2>1 DEF Ahead
    <2>3. /\ role' = role \/ (~role /\ role' = TRUE /\ l # "createRole")
          /\ database' = database \/ (~database /\ database' = TRUE /\ l \notin Ahead)
          /\ role /\ l = "createRole" => step[d] = "createRole"
          /\ database /\ l \in Ahead => step[d] \in Ahead
      BY <2>2
    <2> QED
      BY <2>2, <2>3, RacesStep
  <1>3. setupFailures \in Nat /\ faults \in Nat /\ Cardinality(SetupPods) \in Nat
    BY PodCount, SetupAssumption DEF SetupTypeOK
  <1>4. setupFailures + RoleRaces + DatabaseRaces <= faults + 2 * (Cardinality(SetupPods) - 1)
    BY DEF SetupInv
  <1>5. step[d] = "createDatabase" => step[d] \in Ahead
    BY DEF Ahead
  <1>6. setupFailures' + RoleRaces' + DatabaseRaces' <= faults' + 2 * (Cardinality(SetupPods) - 1)
    BY <1>2, <1>3, <1>4, <1>5
  <1> QED
    BY <1>1, <1>6 DEF SetupInv

LEMMA SetupStepInv ==
    ASSUME SetupInv, NEW d \in SetupPods, Script(d) \/ SetupFault(d)
    PROVE  SetupInv'
  <1>0. role \in BOOLEAN /\ database \in BOOLEAN
    BY DEF SetupInv, SetupTypeOK
  <1>1. CASE WaitForPostgres(d)
    <2>1. "checkDatabase" \in SetupSteps /\ "checkDatabase" \notin Ahead
      BY DEF SetupSteps, Ahead
    <2> QED
      BY <1>0, <1>1, <2>1, QuietSetupStep DEF WaitForPostgres
  <1>2. CASE CheckDatabase(d)
    <2>1. CASE database
      <3>1. ScriptGoto(d, "done") /\ "done" \notin Ahead
        BY <1>2, <2>1 DEF CheckDatabase, Ahead
      <3> QED
        BY <1>0, <1>2, <3>1, QuietSetupStep DEF CheckDatabase
    <2>2. CASE ~database
      <3>1. ScriptGoto(d, "checkRole") /\ "checkRole" \in SetupSteps
        BY <1>2, <2>2 DEF CheckDatabase, SetupSteps
      <3> QED
        BY <1>0, <1>2, <2>2, <3>1, QuietSetupStep DEF CheckDatabase
    <2> QED
      BY <2>1, <2>2
  <1>3. CASE CheckRole(d)
    <2>0. step[d] \in Ahead
      BY <1>3 DEF CheckRole, Ahead
    <2>1. CASE role
      <3>1. ScriptGoto(d, "createDatabase") /\ "createDatabase" \in SetupSteps
        BY <1>3, <2>1 DEF CheckRole, SetupSteps
      <3> QED
        BY <1>0, <1>3, <2>0, <3>1, QuietSetupStep DEF CheckRole
    <2>2. CASE ~role
      <3>1. ScriptGoto(d, "createRole") /\ "createRole" \in SetupSteps
        BY <1>3, <2>2 DEF CheckRole, SetupSteps
      <3> QED
        BY <1>0, <1>3, <2>0, <2>2, <3>1, QuietSetupStep DEF CheckRole
    <2> QED
      BY <2>1, <2>2
  <1>4. CASE CreateRole(d)
    <2>1. CASE ScriptGoto(d, "createDatabase") /\ UNCHANGED <<setupFailures, faults>>
      <3>1. step[d] \in Ahead /\ "createDatabase" \in SetupSteps
        BY <1>4 DEF CreateRole, Ahead, SetupSteps
      <3> QED
        BY <1>0, <1>4, <2>1, <3>1, QuietSetupStep DEF CreateRole
    <2>2. CASE role /\ ScriptFails(d) /\ UNCHANGED faults
      BY <1>0, <1>4, <2>2, FailedSetupStep DEF CreateRole
    <2>3. CASE Fault(d)
      BY <1>0, <1>4, <2>3, FailedSetupStep DEF CreateRole, Fault
    <2> QED
      BY <1>4, <2>1, <2>2, <2>3 DEF CreateRole
  <1>5. CASE CreateDatabase(d)
    <2>1. CASE ScriptGoto(d, "done") /\ UNCHANGED <<setupFailures, faults>>
      <3>1. "done" \notin Ahead
        BY DEF Ahead
      <3> QED
        BY <1>0, <1>5, <2>1, <3>1, QuietSetupStep DEF CreateDatabase
    <2>2. CASE database /\ ScriptFails(d) /\ UNCHANGED faults
      BY <1>0, <1>5, <2>2, FailedSetupStep DEF CreateDatabase
    <2>3. CASE Fault(d)
      BY <1>0, <1>5, <2>3, FailedSetupStep DEF CreateDatabase, Fault
    <2> QED
      BY <1>5, <2>1, <2>2, <2>3 DEF CreateDatabase
  <1>6. CASE SetupFault(d)
    BY <1>0, <1>6, FailedSetupStep DEF SetupFault, Fault
  <1>7. CASE RestartSetup(d)
    <2>1. "wait" \in SetupSteps /\ "wait" \notin Ahead
      BY DEF SetupSteps, Ahead
    <2> QED
      BY <1>0, <1>7, <2>1, QuietSetupStep DEF RestartSetup
  <1> QED
    BY <1>1, <1>2, <1>3, <1>4, <1>5, <1>6, <1>7 DEF Script

LEMMA SameSetup ==
    ASSUME SetupInv, UNCHANGED setup
    PROVE  SetupInv'
  BY DEF SetupInv, SetupTypeOK, RoleRaces, DatabaseRaces, StepsIn, setup

LEMMA SetupStart ==
    ASSUME InitSetup
    PROVE  SetupInv
  <1>1. SetupTypeOK
    <2>1. 0 \in 0 .. MaxFaults /\ "wait" \in SetupSteps
      BY SetupAssumption DEF SetupSteps
    <2> QED
      BY <2>1 DEF InitSetup, SetupTypeOK
  <1>2. StepsIn({"createRole"}) = {}
    BY DEF InitSetup, StepsIn
  <1>3. RoleRaces \in {0, Cardinality(SetupPods) - 1} /\ DatabaseRaces = Cardinality(SetupPods) - 1
    BY <1>2, FS_EmptySet DEF RoleRaces, DatabaseRaces, InitSetup
  <1>4. setupFailures + RoleRaces + DatabaseRaces <= faults + 2 * (Cardinality(SetupPods) - 1)
    BY <1>3, PodCount DEF InitSetup
  <1> QED
    BY <1>1, <1>4 DEF SetupInv

LEMMA SetupResult ==
    ASSUME SetupInv
    PROVE  RacesCostLittle
  <1>1. \A labels : Cardinality(StepsIn(labels)) \in Nat
    <2> TAKE labels
    <2>1. StepsIn(labels) \subseteq SetupPods
      BY DEF StepsIn
    <2> QED
      BY <2>1, SetupAssumption, FS_Subset, FS_CardinalityType
  <1>2. RoleRaces \in Nat /\ DatabaseRaces \in Nat
    BY <1>1, PodCount DEF RoleRaces, DatabaseRaces
  <1>3. setupFailures \in Nat /\ faults \in Nat /\ Cardinality(SetupPods) \in Nat
    BY PodCount, SetupAssumption DEF SetupInv, SetupTypeOK
  <1> QED
    BY <1>2, <1>3 DEF SetupInv, RacesCostLittle

-----------------------------------------------------------------------------
(* The Jobs together.                                                      *)

\* To the seed Job alone, a step of a preview is one of its own or none.
LEMMA SeedersStep ==
    ASSUME [NextDeployment]_<<vars, setup>>
    PROVE  [Next]_vars
  BY DEF NextDeployment, SetupJob, MigrationJob, SeedJob, AllOver, Next, vars

LEMMA SetupsStep ==
    ASSUME SetupInv, [NextDeployment]_<<vars, setup>>
    PROVE  SetupInv'
  <1>1. CASE \E d \in SetupPods : SetupJob(d)
    BY <1>1, SetupStepInv DEF SetupJob
  <1>2. CASE UNCHANGED setup
    BY <1>2, SameSetup
  <1> QED
    BY <1>1, <1>2 DEF NextDeployment, MigrationJob, SeedJob, AllOver

DeploymentInv == PrefixInv /\ SetupInv

LEMMA DeploymentInvariance == FairDeployment => []DeploymentInv
  <1>1. InitDeployment => DeploymentInv
    BY InitPrefix, SetupStart DEF InitDeployment, DeploymentInv
  <1>2. DeploymentInv /\ [NextDeployment]_<<vars, setup>> => DeploymentInv'
    BY SeedersStep, SetupsStep, NextPrefix DEF DeploymentInv
  <1> QED
    BY <1>1, <1>2, PTL DEF FairDeployment

\* However many pods run the setup script side by side (setup-job.yaml:40-63), and
\* whenever one is killed or fails by itself, what they cost each other stays
\* within one failure per other pod for the role and one for the database.
THEOREM RacesAreBounded == FairDeployment => []RacesCostLittle
  <1>1. DeploymentInv => RacesCostLittle
    BY SetupResult DEF DeploymentInv
  <1> QED
    BY <1>1, DeploymentInvariance, PTL

\* Every variable of the three Jobs keeps its type.
THEOREM DeploymentTypes == FairDeployment => []DeploymentTypeOK
  <1>1. DeploymentInv => DeploymentTypeOK
    BY DEF DeploymentInv, PrefixInv, IInv, SetupInv, DeploymentTypeOK
  <1> QED
    BY <1>1, DeploymentInvariance, PTL

\* In a preview, where the seed Job waits for no other (seed-job.yaml:10-17), its pods
\* still seed in one attempt and leave prefixes behind.
THEOREM SeedsInDeployment == FairDeployment => [](OneAttemptSeeds /\ PodLeavesAPrefix)
  <1>1. DeploymentInv => OneAttemptSeeds /\ PodLeavesAPrefix
    BY PrefixResult DEF DeploymentInv, PrefixInv, IInv
  <1> QED
    BY <1>1, DeploymentInvariance, PTL
=============================================================================
