# A verification model of the partner portal

TLA+ modules about the code in `src/`: a Go API that keeps partners and their
activity log in Postgres (`internal/api`, `internal/auth`, `cmd`), the Jobs that
prepare and seed the database (`deploy`, `cmd/seed`), a gateway in front
(`services/gateway`), and a web client (`web/src`).  TLC checks small instances;
TLAPS proves the safety properties for every value of the constants.
Paths below are relative to `src/`.

## 1. Inventory

| Component | State it keeps | Operations | Talks to |
|---|---|---|---|
| Partner, Onboarding and AgentQuery API (`internal/api/partner.go`, `agentquery.go`, `db/partner.go`) | none in the process; the tables `partners` and `activities` | `ListPartners`, `GetPartner`, `CreatePartner`, `UpdatePartnerStatus`, `BulkImportPartners`, `SubmitOnboarding`, the agents' `ListPartners` | Postgres, one autocommitted statement at a time |
| Seeder and its Job (`cmd/seed/main.go`, `deploy/seed/seed-job.yaml`) | the rows it inserts; the Job's count of failures | ping, check, insert, log; restart on failure | the same tables |
| API process (`cmd/api/main.go`, `internal/api/app.go`, `internal/auth/service.go`, `browser.go`, `internal/api/db/db.go`) | configuration, the database handle | parse, open, configure, serve; exit, restart | the environment, Postgres, the OIDC provider |
| MCP endpoint (`internal/api/agentmcp.go`) | a mutex and a cached handler | `ServeHTTP`, `ensure`, `agentMCPDescriptors` | the process itself, over HTTP |
| Generated protocol code (`gen/go/sample/v1`) | the registry of proto files | registration before `main`, dispatch of procedures | every service |
| Sign-in and users (`internal/auth`, `migrations/00001`) | `app_users`; sessions (the framework's) | `Authorize`, `UpsertUser`, token exchange | Postgres, the OIDC provider |
| Session RPC (`internal/api/sample.go`) | none | `GetSession` | Postgres (ping) |
| Gateway (`services/gateway/gateway.json`) | a static route table | routing, bearer verification | the API |
| Web session and routes (`web/src/session.ts`, `App.tsx`) | the session state, the in-memory token | `refresh`, `logout`, guarded routes | auth endpoints, `GetSession` |
| Web pages (`web/src/routes/*.tsx`) | what a page shows, whether it is busy | load, change status, submit, read a file, import | the API |
| CSV and formats (`web/src/lib`) | none | parse, print | |
| Setup and migration Jobs (`deploy/migrations`) | the database, the role, the schema | wait, check, create, migrate | Postgres |

What makes each of them correct, and what is hard about it:

* **API.** No handler opens a transaction, so every handler with two statements
  can be interleaved between them, fail between them, or lose a reply after a
  statement has committed.  Correct means: the answers agree with the tables and
  with the audit log; a public submission stays pending until it is reviewed; a
  read sees what was acknowledged before it; a summary is never further from its
  list than the writes that ran beside it; an import accounts for each row.
* **Seeder.** Check-then-insert without a transaction, killed and restarted
  anywhere, possibly in two pods.  Correct means: no pod seeds twice, what is
  left behind is a prefix, and the Job ends.
* **API process and MCP endpoint.** A nil handle that startup passes on, and an
  object that is built lazily by whichever request comes first.  Correct means:
  a serving process has a handle, one cached handler is used by all, a failed
  build leaves the endpoint usable.
* **Sign-in, gateway and services.** Who may call a method is decided in three
  places: the routes of the gateway, the interceptors of `app.go` and the list
  of tools of the MCP server.  Tokens expire while calls are on their way and
  sign-ins of one identity race.  Correct means: a protected method runs only
  for a token of a user that signed in, public paths ask for none, agents reach
  only the read-only service, and an identity keeps one user id.
* **Web client.** Responses that arrive after the page, the user or the session
  has moved on; retries after an answer that was lost.  Correct means: no page
  stores an entry twice but by a retry after a failure, what is imported is what
  the file says, a logout is final, and a button or a waiting message comes to
  an end.
* **Jobs.** A chain of Jobs that wait for each other by failing, each of which
  may run in two pods.  Correct means: races between pods do not use up the
  failures that the Job may have.

## 2. Modules

| Module | Models | Runs |
|---|---|---|
| `PartnerApi` | the handlers and the two tables | `MCPartnerApi_*.cfg` |
| `PartnerLedger` | the abstract specification that `PartnerApi` implements | `MCPartnerApi_writes.cfg` |
| `PartnerApiProofs` | proofs about `PartnerApi`: types, audit trail, review, and the refinement | |
| `PartnerReadProofs` | proofs about what the callers of `PartnerApi` are shown | |
| `Seeder` | the seeder under its Job | `MCSeeder_*.cfg` |
| `DatabaseSetup` | the script of the setup Job | |
| `Deployment` | `Seeder`, `DatabaseSetup` and the migration together | `MCDeployment_job.cfg` |
| `DeploymentProofs` | proofs about `Seeder`, `DatabaseSetup` and `Deployment` | |
| `ApiProcess` | startup, the `/mcp` handler, crash, restart | |
| `Protos` | the compiled tables: types, dependencies, services, procedures | |
| `Descriptors` | the two walks over the imports of proto files | |
| `McpEndpoint` | `ApiProcess` and `Descriptors` together | `MCMcpEndpoint_mcp.cfg` |
| `McpEndpointProofs` | proofs about `ApiProcess`, `Descriptors` and `McpEndpoint` | |
| `Access` | users, tokens, gateway, services, MCP tools | |
| `WebSession` | the session of the web client on top of `Access` | `MCWebSession_*.cfg` |
| `WebSessionProofs` | proofs about `Access` and `WebSession` | |
| `PartnerPage` | the partner page of a browser tab | `MCPartnerPage_*.cfg` |
| `PartnerPageProofs` | proofs about it | |
| `Csv` | reading and writing CSV | |
| `CsvProofs` | the proof that reading undoes writing | |
| `EntryPages` | the two forms and the import page, with `Csv` | `MCEntryPages_entries.cfg` |
| `EntryPagesProofs` | proofs about `EntryPages` | |

A module without runs of its own is checked through the module that extends it.

The modules of the server and of the web client meet in assumptions, each stated by one and used by another.
`ApiProcess` shows that a serving process has a database handle
(`ServingHasDatabase`), so `PartnerApi` has no counterpart of the
`s.db == nil` returns.  `Seeder` sees the API only as `CreateForeign`: some
partner appears.  The table names, the coalescing inserts and the missing
transactions are the same code, `internal/api/db/partner.go`, in both.
`Access` runs a method as one step, whose statements are `PartnerApi`'s; that a
call may fail after it was stored is what `PartnerPage` and `EntryPages` assume.

### PartnerApi

`partners` is a function from ids to rows (or `NoRow`) and `activities` a
sequence in insertion order.  A call has a request, a place (`pc`, the SQL
statement it executes next), an answer (`code`) and a frame, the local variables
of its handler.  One step is one statement with all that the handler does up to
the next one: `ReadPartners` and `ReadCounts` are the two reads of
`ListPartners`, `ReadPartner` and `ReadActivities` those of `GetPartner`,
`InsertPartner` or `UpdateRow` and `Record` the two writes of the audited
procedures, and `RejectRow`, `SaveRow`, `SaveRowFails` and `ImportEnds` the loop
of `BulkImportPartners`.  `Receive` is the arrival of a call with the early
returns of its handler (`Malformed`).

* A statement may succeed, fail without effect (`StatementFails`: the database
  is down, the client's context is cancelled, the id is no uuid), or commit and
  then fail for the handler because its reply is lost: the second alternative of
  `InsertPartner`, `UpdateRow`, `Record` and `SaveRow`.
* `Crash` ends all calls in progress; the deployment runs one replica
  (`deploy/app/base/api-deployment.yaml`), and a call answered by nobody is
  `"lost"`.
* Proto3 enums are open: `StatusArgs` and the tiers of `Inputs` are numbers, and
  the runs include 9, which has no name.
* `wrote`, `settled`, and the fields `from` and `by` of rows and activities, are
  history.  They are never read by a guard.

What is abstracted: names, companies, regions, notes and messages, except what
validation and the properties tell apart; `billing_status`, which no handler
changes; the order of a list (`created_at desc` is taken as insertion order for
activities, and a list is otherwise a set); the row that a create or an update
returns.  The bearer token is checked before a handler runs and is not modelled.
A statement whose reply is lost takes effect in that step and not later.
The rows in `Seeded` exist at the start with an empty log, as the model says
nothing about activities that the seeder wrote; no property is about them.

### PartnerLedger

The reader's view of the two tables, in five actions: `Add` a partner (active,
or pending), `Change` its status, `Log` an entry that is owed for such a change,
`Forget` some that are owed.  `ImplementsLedger` is `Ledger!Spec` under this
mapping: the status column for `status`, with "absent" for ids without a row;
`activities` for `log`; and for `owed` the entries that the calls standing
between their two statements are about to insert (`Owes`).  A row that is
imported owes nothing.  A failing insert, an early answer or a crash is `Forget`,
and an insert that commits and loses its reply is `Log`.  The refinement says,
for every interleaving at once, that nothing is logged without a change, nothing
twice, and that the log is never rewritten.  That an entry may be forgotten is
the price of two statements without a transaction; PRD.md:80 ("MUST append an
activity record") asks for more.

### Seeder

Each pod has a place, an attempt number and a seed number.  An attempt pings,
lists, and inserts row, "created" entry and note of each seed in turn.  Every
statement may fail before or after it commits, or the container may be killed
(`Fail`, or the second alternative of `CreateSeed`, `LogCreated`, `LogNote`).
`Restart` is `restartPolicy: OnFailure` within `backoffLimit`.  `Migrate` and
`CreateForeign` are the two other writers of the database.  `ListExisting` needs
the tables, so until `Migrate` an attempt can only fail.  Two pods stand for a
node loss or a second reconcile, where Kubernetes can run two.

### DatabaseSetup and Deployment

`DatabaseSetup` has one action for each `psql` command of `setup-job.yaml`.
`set -e` ends the script at the first error (`ScriptFails`), `RestartSetup` is
the restart within `backoffLimit`.  `create role` and `create database` may
commit and then fail for the script.  `faults` counts the errors that no other
pod is the reason of, so that `RacesCostLittle` can bound the others: at most
two for each further pod, one per object.  `Deployment` puts it under `Seeder`:
a pod of the seed Job gets past its ping only when the database exists, and the
migration, one external step, needs it too.  None of the Jobs waits for another;
each fails and is started again.

### ApiProcess

`config` says which parts of the configuration are usable; `ParseEnv`,
`OpenDatabase` and `ConfigureAuth` are the stages of `main` and `Run` up to
serving.  `Open` dials nothing, so it fails only on a blank host.  Requests to
`/mcp` go through `Lock`, `CheckCached`, `BuildSucceeds` or `BuildFails`, and
`Forward`.  A handler is named by the request that built it.  `Crash` loses
requests and the cached handler, `Restart` starts over.

### Protos, Descriptors and McpEndpoint

`Protos` holds the tables of the generated files: the Go types of each file, the
dependency indexes (from 0, as there), how many types a file declares itself,
and the procedures that each generated handler switches on.  From them it
derives the imports of a file.  `Descriptors` has the two recursions over the
imports as explicit stacks of calls: the `init` functions that register files
before `main`, in any order of the files, and `agentMCPDescriptors` with its
`seen` map.  `McpEndpoint` puts them where they run: registration before
`ParseEnv`, the walk in place of a step of the request that holds the mutex and
found no handler.  `NewServer` succeeds only with a list that can be resolved in
order, and may fail for other reasons.

### Access and WebSession

`Access` has the table `app_users`, the sessions of the cookie jars, all app
tokens ever minted, a clock and the calls.  A call passes `Gateway` (unless it
comes from inside the cluster), or `CallTool` when it is a tool call to `/mcp`,
then `ServeCall`: the mux, the generated switch, the interceptor, the method.
Expiry is read when each of them looks, so a token may pass the gateway and be
too old for the API.  `Authorize` trims issuer and subject (`Trimmed`), refuses
a blank one and upserts what is left, which is also who a session and a token
are for (`People`); `Callback` may commit the upsert and lose
its reply.  `ran`, `at` and the identity `as` of
a token are history.  `WebSession` adds the page of each jar: `refresh` up to
`getToken`, the outcomes of `getToken` (a token from memory, a new one, none, or
a rejection), `Settle` after `GetSession`, and the two halves of `logout`.
`TokenFails` is the rejection: the request to `/auth/token` failed, and `refresh`,
which awaits it outside of its `try`, ends without another `setState`, so the
page stays at "loading".  `Mount` is the effect of `useSession`: what an
earlier page of the tab still waits for is no longer heard.

The framework's token manager, cookies and signatures are external and modelled
as `src/` uses them: a token is a value that cannot be made up.  A session lasts
until logout; the expiry of sessions and the refresh of the provider's tokens
are left out.  E-mail and name of a user are left out, as no decision reads them.
docs/invariants.md INV-4b speaks of a public route for `AgentQueryService`;
`gateway.json` has only `/mcp`, and `Gateway` sends such a path to the web
client's files.

### PartnerPage

`partner`, `error` and `busy` are the page's React state (the activities are
shown with the partner and follow it).  `requests` holds every request that was
sent, with its answer once there is one; `LoadReturns`, `UpdateSucceeds`,
`UpdateFails` and `ReloadReturns` are the continuations of the `await`s, which
belong to the visit that sent the request: results for a page that is no longer
mounted change nothing, but a change that is under way still reloads.  `Open`
and `Leave` are links, `Jump` a jump in the browser's history between two
partners, which keeps the page mounted.  The API is abstracted to a status and a
revision per partner; a change may be stored although its answer is an error, as
`PartnerApi` has it.

### Csv and EntryPages

A text is a sequence of tokens: the characters the parser tells apart, the words
of a header in any case, and other characters.  `Parsing` is the loop of
`parseCsv` as a function over the positions of the text: its value at `i` are the
parser's variables after `i` characters, `step` is the body of the loop, and
`skip` stands for `i += 2`.  `AllRows` is what follows the loop, `NonBlank` the
filter.  The files of `EntryPages` are those that a writer makes of a table; a text
with quotes in places where no writer puts them is not among them.
`EntryPages` has one tab.  An entry is a form as it was mounted, or a file as it
was chosen; `copies` counts how often the API stored it.  `ChooseFile` clears
the page and starts to read, `ChooseNone` is a cancelled choice, `FileRead` the
continuation of `file.text()`, in any order; `FileReadFails` is its rejection,
which nothing catches: the page keeps the name and shows nothing.  A call is lost before or after
`Store` (`CallFails`); an answer finds its page mounted or not.  The
administrator's form leads to the new partner also when its page has been left
(`FormDone` calls `navigate` in any case), which no document forbids and which
is therefore modelled and not a property.  Rows may stand under the name of
another file only if that file was chosen while the first was still being read
or imported (`NameFitsUnlessOvertaken`); this is in the code, and no document
forbids it either.

## 3. Runs

| Run | Instance | Question | Result |
|---|---|---|---|
| `partner_writes` | 3 calls of create, submit, change status, read; 1 row present, 3 ids free; statuses 0, 1, 9 | do answers, tables and log agree, and implement the ledger? | holds, about 1.1 million states up to symmetry |
| `partner_reads` | 2 calls of both lists, the profile, submit, change status, import of up to 2 rows | what may a list, a profile and an import report say? does every call end? | holds, about 175 000 states |
| `partner_summary` | 2 calls | does a summary add up? | violated |
| `seeder_job` | 2 setup pods, 1 fault; 2 seed pods, 3 seeds, 2 with a note, backoff limit 1 | what do races cost, what does a pod leave behind, does the Job end? | holds, about 710 000 states |
| `seeder_retry` | 1 pod | are retries safe? | violated |
| `seeder_overlap` | 2 pods, 3 seeds | is it safe that two pods seed? | violated |
| `process_mcp` | 3 requests, any configuration, 7 import graphs of 4 files | is there one handler, never a nil database, and every import before its importer? | holds, about 143 000 states |
| `access` | 1 jar, 4 identities (a subject at 2 issuers, of which one is spelled also with a space behind it; a blank subject), 2 user ids, 2 calls, a clock of 2 times | who runs what, who is asked for a token, what does the session show? | holds, about 850 000 states |
| `access_loading` | as `access` | does checking the session lead to another state? | violated |
| `entry_pages` | 1 tab, 3 forms or files, 2 calls, 17 shapes of the last file | what is stored twice, what is imported, what is shown once a file is read? | holds, about 1.1 million states |
| `page_tab` | 1 tab, 2 partners, 2 statuses, 4 requests and the reload after the last, 1 foreign change | what does the page show, is a failure said, when is the page busy? | holds, about 590 000 states |
| `page_jump` | the same without foreign changes | is the partner that is changed the one shown? | violated |

The violated runs are disagreements between a document and the code:

* **`SummaryAddsUp`.** PRD.md:81 asks for counts consistent with the table.
  `ListPartners` reads rows and counts in two statements; a submission between
  them gives active + pending > total.  `SummaryDriftIsBounded` says how far it
  can go: one partner for each write that was not over when the call arrived.
* **`RetriesComplete`.** seed-job.yaml:10 calls retries safe.  After an attempt
  that died in the middle the next one finds a partner, skips and succeeds.
  `OneAttemptSeeds` and `PodLeavesAPrefix` are what does hold.
* **`SeededOnce`.** The same line, for two pods.  Both list an empty table before
  either inserts, and every seed is there twice.  What holds is said pod by pod.
* **`LoadingLeadsOn`.** docs/workflows.md:44-45 leads from "loading" to
  "anonymous", "authenticated" or "error".  `refresh` awaits `getToken` outside of
  its `try` (session.ts:18), so a request for a token that fails leaves the page
  at "loading", without the retry of the error card, until it is loaded again.
  `CheckingEnds` says that nothing else does.
* **`ChangesTheShownPartner`.** PRD.md:48 describes one partner's profile and its
  status actions.  After a jump from one partner to another the page shows the
  first until the second has loaded, and a button sends the id of the second.
  `ShownOnlyAdvances` and `SettledPageIsCurrent` hold for a page that was reached
  by links; `BusyMeansChanging` holds in any case.

Two more follow from definitions without a run.  A status number without a name,
which only the check for 0 could stop, is stored as the empty text, although
docs/data-model.md:46 lists three values; `NewestEntryNamesStatus` covers what is
logged of it.  And docs/workflows.md:67 and INV-8 say that startup survives a
failed `Open`, but `browserAuthHandler` refuses the nil handle (`ConfigureAuth`),
which is why `ServingHasDatabase` holds.

**Bounds.** Three calls are enough for a reader beside two writers of the same
row, and for two status changes between which a third call settles; two pods are
enough for every check-then-act race between attempts; three requests for one
that builds, one that waits at the lock and one that comes later.  The free ids
are as many as the inserts a run can make, so no insert waits for one.  A third
row in a batch adds no case to the loop.  Four requests and a reload are a load
and two changes in one visit, or a visit that is left and opened again.  Three seeds give a first, a middle and
a last one.  A backoff limit of 1 instead of the Job's 20 still lets a pod fail, be
started again and be given up, beside a second pod; no property depends on the
number.  The setup Job has a limit of 3 instead of 12, not below the errors that the
run can produce.  Four proto files are one more than there are, so that imports
can be shared in two orders; the compiled graph is one of the seven.  In `access`
two calls are two refreshes of the page, or one beside a call of another client or an
agent, and the clock passes the life of a token; a second jar would meet the first
only in `app_users`, where `ExchangeCredential` stands for it.  Two spellings
of one identity meet one of another issuer; a third spelling adds no case.  Three entries are a file that is overtaken by a
second and a third, two calls a failure and its retry; the last file has each
special character alone and in pairs beside a quoted cell, ragged rows and both line ends.

**Symmetry.** `partner_writes` is a safety run, and its calls and free ids are
interchangeable.  The runs with liveness use none.

**Fairness.** `PartnerApi`: weak fairness of each call's handler, which Go runs
until it returns; a call may always end by `StatementFails`, since pings and
statements do not hang for ever in the model.  Nothing forces a call to arrive
or a process to die.  `Seeder`: weak fairness of each pod's attempt or restart,
which is what the kubelet does; nothing forces the migration to run, and the Job
then ends by giving up.  `ApiProcess`: weak fairness of each request's next
step; `Lock` is fair without strong fairness because requests are finite in
number.  The same fairness of a request covers its walk over the imports in
`McpEndpoint`.  No fairness of `Crash`, and none of the start of a process.
`Deployment` adds the pods of the setup Job.  `WebSession`: `getToken` ends, with
a rejection at worst, a call is answered or fails, and the page goes on with the
answer.  `EntryPages`: a call ends, if
only with a timeout of the browser; reading a file is not forced, as no property
needs it.  `PartnerPage`: a request is answered or fails,
and its continuation runs; nothing makes the user act.

**Deadlock** is checked in all runs: `Finished`, `Over` and `Rest` are the states in
which nothing is left to do.

**Mutants.** Next to a definition stands, under the comment "Fault:", what a
plausible mistake would make of it (the activities read before the row, a
missing `continue`, a lock that is not released).  No action uses them; each
shows that a property notices the mistake.

## 4. Proofs

Every safety invariant and action property that a passing run checks is also a
theorem, and so is the refinement of `PartnerLedger`.  The theorems are for any set of calls, ids, inputs, pods,
seeds, requests, tokens, files and import graphs, and for any bound.  They rest
on the named assumptions of the modules only:

* the values standing for "blank", "no row", "none" and "seeder" are none of the
  others (`IdAssumption`, `SeedAssumption`, `NoRowAssumption`, `NoneAssumption`,
  `AccessAssumption`, `PageAssumption`), trimming a text gives a text
  (`AccessAssumption`), and inputs have the shape of a request
  (`ArgAssumption`, `EntryAssumption`);
  a file is the text of a table whose rows have a cell each, since a line without
  one cannot be told from a line with an empty one;
* numbers are numbers, and the pods of the setup Job are finitely many and at
  least one (`SeederAssumption`, `SetupAssumption`);
* the imports of proto files have no cycle (`GraphsAssumption`), which protoc
  refuses.

TLC evaluates each of them in a run, and it checked each inductive invariant
below as an invariant of the run before it was proved.

### PartnerApiProofs

`TypeCorrect`, `AuditTrail` (`AnswersMatchEffects`) and `SubmissionsAreReviewed`
(`OnlyReviewLeavesPending`) follow from one inductive invariant `IInv`.  The
properties speak of finished calls; the invariant must also say where a call
stands.  `CallInv(r)` gives, for each place of the handler, what the call has
written and logged so far (before its first write: nothing; at `"record"`: the
row in its frame, not yet its entry; answered ok: both).  `EntriesInv` says that
each entry belongs to the call that appended it and is its only one.  `RowInv(p)`
relates a row to the requests of its first and its last writer.  Each action has
a lemma for its types and one for `IInv`; `QuietStep` covers the steps that
change no table.

`LedgerImplemented` goes action by action: a statement that writes a row is
`Add` or `Change` under the mapping (`WrittenStatus`), one that logs is `Log`, an
error, an early answer or a crash is `Forget` of the entries that were owed, and
the rest stutters.  `OwedStep` says what a step of one call does to the set of
owed entries; no two calls owe the same one, since an entry names its call
(`OwnersDiffer`), and by `IInv` an entry that is owed has not been logged.

### PartnerReadProofs

Four inductive invariants, each on top of `IInv`.

* `ReadInv`: what a call has read.  The calls that are `settled` for a reader are
  over and stay as they are; rows do not disappear and entries are only appended
  (`Kept`).  So a list holds the rows written before it arrived, and the
  activities of `GetPartner`, read after the row, hold the entries about them.
  This gives `ReadsSeeAcks` and `StatusComesWithItsEntry`.
* `OrderInv` adds that entries stand in the order of calls that did not overlap,
  and that the last writer of a row did not end before another of its writers
  arrived.  So once the last writer of a row is answered ok, its entry names the
  status and those behind it are of calls that overlapped it:
  `LogAgreesInSequence`.
* `ImportsInv`: after each row the imported and the reported rows add up to those
  seen, the reports are in order, and the rows in the table are at least the
  imported and at most those and the unsaved ones (`RowsSeen`), by counting the
  set of written ids.  This gives `ImportsAccountForRows` for batches of any
  length, although the loop is one step per row.
* `SummaryInv`: between the two reads of a list only partners written by calls
  that were not over change (`DriftInv`).  Two sets that agree outside a third
  differ in size by no more than its size (`GapBound`): `SummariesDriftLittle`.

### DeploymentProofs

`SeedsOncePerPod` (`OneAttemptSeeds`) needs `OwnRowsOnly`: while an attempt
inserts, all rows of its pod are its own, because it began on an empty table and
only a new attempt could begin after it.  `PodsLeavePrefixes` adds what has been
inserted and logged at each place of the loop.  Under `Deployment` the steps of the
seed Job are steps of `Seeder`, and both theorems carry over
(`SeedsInDeployment`).  `RacesAreBounded` counts the races that can still be lost:
`RoleRaces` are the pods that are past the check and before the create once the role
exists, or all but one as long as it does not, and likewise `DatabaseRaces`.
Failures and races to come never exceed the faults and two for each further pod.

### McpEndpointProofs

`OneHandler`, `HandleWhileServing` and `RefusalsAreOwn` are about `ApiProcess` and
need that a request inside `ensure` holds the mutex (`HolderIsInside`) and that
one which builds found no handler (`BuilderFoundNone`).  `EndpointIsAProcess`
(`FairEndpoint => Spec`) carries them over to the endpoint with its walks.
`DescriptorsInOrder` is about two recursions with explicit stacks.  Both obey
`Descent`: a file on the stack is not listed yet, the imports it has visited are
listed but for the one that is being visited, and ranks fall along the stack, so
that no file is on it twice.  `PassedOver`, `Entered` and `Finished` are the three
steps of such a walk, proved once and used for both.  `WalkInv` adds that a
process past its environment has registered its files, and that `seen` is what
is listed or on the stack, and needed; an import that was seen but is not on
the stack (`NotBelow`) is therefore listed.

### WebSessionProofs

One invariant for six theorems.  `CallOK` says what a call carries at each place:
nothing has run before it is answered, a tool call reaches the API with a tool
only, what ran of a protected service ran for a minted token in its life.  Every
token was minted for a row that is still there, the one of its identity without
the spaces around its parts (`HasRow`), so that `IdentitiesAreUsers` follows from
the keys of the table.  `PageInv` says that a
page waits for one call at most, and only while it is loading; it is what makes a
logout final.

### PartnerPageProofs

`OneChange` relates `busy` to the one change that the mounted page waits for, and
holds in any case.  For a page that was reached by links its requests follow one
another (`OneAtATime`), and a load has fetched a state no older than what is shown
and than what the changes of the visit were told (`LoadsAreNewer`,
`AnswersAreTrue`): `SettledPages` and `PageNeverGoesBack`.  A jump breaks
`OneAtATime`, which is where `ChangesTheShownPartner` fails.
`FailedChangesAreSaid` needs no such condition: a change that is under way is the
newest of its visit (`OneChange`), so the error of one that failed is taken away
only by a later one.

### CsvProofs

`ReadingUndoesWriting`: for every table, the text that `rowsToCsv` writes, and the
one with CR LF after each row, are read as the rows of the table that are not blank.
Induction is a lemma about sets of numbers (`Induction`, from `SmallestOf`, the
least element of a set), so that each use of it names the set of lengths for which a
claim holds.  It gives what `Parsing` and `FlattenSeq` do at each position
(`ParsingSteps`, `FlattenSteps`), and from there on the parser is treated as a
machine that reads pieces of a text.

`Reads(p, u, q, F)` says that the parser goes from the variables `p` to `q` over
the piece `u`, in any text and at any place of it, as long as the character after
`u` is not in `F`.  The condition is needed for one reason: whether a quote ends a
quoted cell depends on the character behind it.  `ReadsConcat` puts two pieces
together if the second does not begin with a character that the first one
forbids, `ReadsAll` puts together any number of them.  With these, a cell is read
as it was before it was written (`ReadsCell`: plain, or quoted with its quotes
doubled), then a row (`ReadsRow`, whose separators and line ends are never
quotes), then all rows of a table but for the end of the last (`ReadsTable`).
What is left is that end.  A text without a final line end needs `AllRows`, which
adds the last row if it holds anything; the one row it does not add, a single empty
cell, is a row that `NonBlank` drops (`BlankEndIsDropped`).

### EntryPagesProofs

An entry has one live call at most, that is one which did not fail
(`OneLives`).  It is kept because what can be sent from the page, the form or the
rows, has no live call but the running one (`Sendable`), and nothing can be sent while
one runs (`RunningFits`).  The API has stored an entry once for each of its
calls that arrived, at most (`Counted`), and of those all but one failed:
`OnlyRetriesCopy`.  `Names` says that what is being read or imported is the named
file or is overtaken: `NamesFit`.  With it `ReadFileShowsOutcome` is inductive as it
stands, because it also speaks of a page whose import is under way:
`ImportShowsOutcome`.  `RowsAsWritten` adds what an entry's file
is (`RowsInv`): only a choice gives a file to an entry, which is new then and not
being read, so what is read is the chosen file and `ReadingUndoesWriting` says
what comes of it.

### Only model-checked

* Liveness (`EveryCallAnswered`, `JobEnds`, `EveryRequestAnswered`, `BusyEnds`,
  `CheckingEnds`, `SubmittingEnds`): leads-to under fairness is out of the
  prover's reach.
* The violated runs are counterexamples and need no proof.

## 5. Not modelled

Not modelled, and not planned:

* the dashboard (`routes/Dashboard.tsx`): one load, guarded by a flag, and a
  filter on what it returned; the labels and dates of `lib/format.ts`; styles;
* accessors, clients and the wire format of the generated code, and the
  TypeScript client code, which has no state;
* the migration program goose and its lock, the framework's OIDC protocol,
  cookies and signatures, the gateway program and the MCP server library, none
  of which is in this repository;
* build files and the manifests other than the Jobs, which are configuration.
