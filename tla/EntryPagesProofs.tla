-------------------------- MODULE EntryPagesProofs ---------------------------
(***************************************************************************)
(* Proofs about EntryPages, for any number of entries and of calls and for *)
(* any files.                                                              *)
(***************************************************************************)
EXTENDS EntryPages, CsvProofs, FiniteSetTheorems

-----------------------------------------------------------------------------
(* The inductive invariant.                                                *)

\* TypeOK, with a bound on copies left to Counted below.
Types ==
    /\ page \in Pages /\ entry \in 0 .. MaxEntries
    /\ submitting \in BOOLEAN /\ error \in BOOLEAN /\ done \in BOOLEAN
    /\ parseError \in 0 .. MaxEntries
    /\ rows \in 0 .. MaxEntries /\ result \in 0 .. MaxEntries /\ input \in 0 .. MaxEntries
    /\ reading \subseteq Entries /\ overtaken \subseteq Entries /\ unreadable \subseteq Entries
    /\ file = [e \in Entries |-> file[e]]
    /\ \A e \in Entries : file[e] \in FilesFor[e] \cup {NoFile}
    /\ used \in 0 .. MaxEntries
    /\ calls \in Seq(Call) /\ Len(calls) <= MaxCalls
    /\ copies \in [Entries -> Nat]

\* A form is an entry; only the import page deals with files, and it names the
\* file that its input holds.
PageState ==
    /\ page \in Forms => entry # 0
    /\ page # "import" => rows = 0 /\ result = 0 /\ input = 0 /\ reading = {}
    /\ input # 0 => entry = input

Live(n)    == calls[n].stage # "failed"
Running(n) == UnderWay(n) /\ calls[n].mounted

\* A running call belongs to the page, whose button is disabled.
RunningFits ==
    \A n \in DOMAIN calls : Running(n) =>
        /\ submitting
        /\ calls[n].page = page
        /\ page \in Forms => calls[n].entry = entry
        /\ calls[n].entry = entry \/ calls[n].entry \in overtaken

OneRuns == \A n, m \in DOMAIN calls : Running(n) /\ Running(m) => n = m

OneLives ==
    \A n, m \in DOMAIN calls : Live(n) /\ Live(m) /\ calls[n].entry = calls[m].entry => n = m

\* What can be sent from the page was not sent with success: its only live call
\* is the one that runs.
Sendable ==
    \A n \in DOMAIN calls : Live(n) =>
        /\ page \in Forms /\ ~done /\ calls[n].entry = entry => Running(n)
        /\ rows # 0 /\ calls[n].entry = rows => Running(n)

\* Entries are new, and files that are being read have not been sent.
Fresh ==
    /\ \A n \in DOMAIN calls : calls[n].entry <= used /\ calls[n].entry \notin reading
    /\ rows \notin reading
    /\ entry <= used /\ rows <= used /\ \A e \in reading : e <= used

Names ==
    /\ \A e \in reading : e = entry \/ e \in overtaken
    /\ NameFitsUnlessOvertaken

Arrived(e) == {n \in DOMAIN calls : calls[n].entry = e /\ calls[n].stage # "sent"}

Counted == \A e \in Entries : copies[e] <= Cardinality(Arrived(e))

CallsInv == RunningFits /\ OneRuns /\ OneLives /\ Sendable /\ Fresh

PagesInv == Types /\ PageState /\ CallsInv /\ Names /\ ReadFileShowsOutcome /\ Counted

-----------------------------------------------------------------------------
(* What happens to the calls.                                               *)

LEMMA CallFields ==
    ASSUME Types
    PROVE  \A n \in DOMAIN calls :
             /\ calls[n] \in Call /\ calls[n].page \in Forms \cup {"import"}
             /\ calls[n].entry \in Entries /\ calls[n].mounted \in BOOLEAN
             /\ calls[n].stage \in {"sent", "stored", "ok", "failed"}
  <1>1. calls \in Seq(Call)
    BY DEF Types
  <1>2. \A n \in DOMAIN calls : calls[n] \in Call
    BY <1>1
  <1> QED
    BY <1>2 DEF Call

\* The calls after one moved on.
Moves(new, n, stage) ==
    /\ new \in Seq(Call) /\ Len(new) = Len(calls) /\ DOMAIN new = DOMAIN calls
    /\ new[n].stage = stage
    /\ \A m \in DOMAIN calls :
          /\ new[m].entry = calls[m].entry /\ new[m].page = calls[m].page
          /\ new[m].mounted = calls[m].mounted
          /\ m # n => new[m].stage = calls[m].stage

LEMMA MovedCalls ==
    ASSUME Types, NEW n \in DOMAIN calls, NEW stage \in {"sent", "stored", "ok", "failed"}
    PROVE  Moves(Moved(n, stage), n, stage)
  <1>e. PICK e : e = [calls[n] EXCEPT !.stage = stage]
    OBVIOUS
  <1>1. calls[n] \in Call /\ calls \in Seq(Call)
    BY CallFields DEF Types
  <1>2. /\ e \in Call /\ e.stage = stage /\ e.entry = calls[n].entry /\ e.page = calls[n].page
        /\ e.mounted = calls[n].mounted
    BY <1>1, <1>e DEF Call
  <1>n. PICK new : new = [calls EXCEPT ![n] = e]
    OBVIOUS
  <1>3. /\ new \in Seq(Call) /\ Len(new) = Len(calls) /\ DOMAIN new = DOMAIN calls /\ new[n] = e
        /\ \A m \in DOMAIN calls : m # n => new[m] = calls[m]
    BY <1>1, <1>2, <1>n
  <1>4. Moves(new, n, stage)
    BY <1>2, <1>3 DEF Moves
  <1> QED
    BY <1>4, <1>n, <1>e DEF Moved

\* The calls after their page was left; the answer of call n may have been the
\* reason.
Leaves(new, n, stage) ==
    /\ new \in Seq(Call) /\ Len(new) = Len(calls) /\ DOMAIN new = DOMAIN calls
    /\ \A m \in DOMAIN calls :
          /\ new[m].entry = calls[m].entry /\ new[m].mounted = FALSE
          /\ new[m].stage = IF m = n THEN stage ELSE calls[m].stage

LEMMA DetachedCalls ==
    ASSUME Types
    PROVE  /\ Leaves(Detached, 0, "sent")
           /\ \A n \in DOMAIN calls :
                 Leaves([Detached EXCEPT ![n] = [calls[n] EXCEPT !.stage = "ok", !.mounted = FALSE]],
                        n, "ok")
  <1>d. PICK off : off = Detached
    OBVIOUS
  <1>1. calls \in Seq(Call) /\ 0 \notin DOMAIN calls
    BY DEF Types
  <1>2. off = [n \in DOMAIN calls |-> [calls[n] EXCEPT !.mounted = FALSE]]
    BY <1>d DEF Detached
  <1>3. ASSUME NEW m \in DOMAIN calls
        PROVE  /\ off[m] \in Call /\ off[m].entry = calls[m].entry /\ off[m].mounted = FALSE
               /\ off[m].stage = calls[m].stage
    <2>1. calls[m] \in Call
      BY CallFields
    <2>2. off[m] = [calls[m] EXCEPT !.mounted = FALSE]
      BY <1>2
    <2> QED
      BY <2>1, <2>2 DEF Call
  <1>4. off \in Seq(Call) /\ Len(off) = Len(calls) /\ DOMAIN off = DOMAIN calls
    <2>1. DOMAIN off = 1 .. Len(calls) /\ Len(calls) \in Nat
      BY <1>1, <1>2
    <2>2. off \in [1 .. Len(calls) -> Call]
      BY <1>1, <1>2, <1>3, <2>1
    <2> QED
      BY <1>1, <2>1, <2>2
  <1>5. Leaves(off, 0, "sent")
    BY <1>1, <1>3, <1>4 DEF Leaves
  <1>6. ASSUME NEW n \in DOMAIN calls
        PROVE  Leaves([off EXCEPT ![n] = [calls[n] EXCEPT !.stage = "ok", !.mounted = FALSE]], n, "ok")
    <2>e. PICK e : e = [calls[n] EXCEPT !.stage = "ok", !.mounted = FALSE]
      OBVIOUS
    <2>n. PICK new : new = [off EXCEPT ![n] = e]
      OBVIOUS
    <2>1. calls[n] \in Call
      BY CallFields
    <2>2. e \in Call /\ e.stage = "ok" /\ e.mounted = FALSE /\ e.entry = calls[n].entry
      BY <2>1, <2>e DEF Call
    <2>3. /\ new \in Seq(Call) /\ Len(new) = Len(calls) /\ DOMAIN new = DOMAIN calls /\ new[n] = e
          /\ \A m \in DOMAIN calls : m # n => new[m] = off[m]
      BY <1>4, <2>2, <2>n
    <2>4. Leaves(new, n, "ok")
      BY <1>3, <2>2, <2>3 DEF Leaves
    <2> QED
      BY <2>4, <2>n, <2>e
  <1> QED
    BY <1>5, <1>6, <1>d

\* The calls after entry e was sent.
Sends(new, e) ==
    /\ new \in Seq(Call) /\ Len(new) = Len(calls) + 1 /\ Len(calls) + 1 \notin DOMAIN calls
    /\ DOMAIN new = DOMAIN calls \cup {Len(calls) + 1}
    /\ new[Len(calls) + 1] = [page |-> page, entry |-> e, mounted |-> TRUE, stage |-> "sent"]
    /\ \A m \in DOMAIN calls : new[m] = calls[m]

LEMMA SentCalls ==
    ASSUME Types, NEW e \in Entries, page \in Forms \cup {"import"}, Send(e)
    PROVE  Sends(calls', e) /\ Len(calls') <= MaxCalls
  <1>c. PICK c : c = [page |-> page, entry |-> e, mounted |-> TRUE, stage |-> "sent"]
    OBVIOUS
  <1>1. c \in Call
    BY <1>c DEF Call
  <1>2. calls \in Seq(Call) /\ calls' = Append(calls, c) /\ Len(calls) < MaxCalls /\ MaxCalls \in Nat
    BY <1>c, EntryAssumption DEF Types, Send
  <1>3. /\ calls' \in Seq(Call) /\ Len(calls') = Len(calls) + 1 /\ Len(calls) + 1 \notin DOMAIN calls
        /\ DOMAIN calls' = DOMAIN calls \cup {Len(calls) + 1}
        /\ calls'[Len(calls) + 1] = c /\ \A m \in DOMAIN calls : calls'[m] = calls[m]
    BY <1>1, <1>2
  <1>4. Len(calls') <= MaxCalls
    BY <1>2, <1>3
  <1> QED
    BY <1>3, <1>4, <1>c DEF Sends

\* The entries that have arrived stay.
LEMMA ArrivedGrow ==
    ASSUME Types, Types', NEW e,
           \A n \in DOMAIN calls : n \in DOMAIN calls' /\ calls'[n].entry = calls[n].entry
                                   /\ (calls[n].stage # "sent" => calls'[n].stage # "sent")
    PROVE  /\ Arrived(e) \subseteq Arrived(e)'
           /\ IsFiniteSet(Arrived(e)') /\ Cardinality(Arrived(e)) <= Cardinality(Arrived(e)')
           /\ Cardinality(Arrived(e)) \in Nat /\ Cardinality(Arrived(e)') \in Nat
  <1>1. Arrived(e) \subseteq Arrived(e)'
    BY DEF Arrived
  <1>2. calls' \in Seq(Call)
    BY DEF Types
  <1>3. IsFiniteSet(1 .. Len(calls'))
    BY <1>2, FS_Interval
  <1>4. Arrived(e)' \subseteq 1 .. Len(calls')
    BY <1>2 DEF Arrived
  <1>5. IsFiniteSet(Arrived(e)')
    BY <1>3, <1>4, FS_Subset
  <1>6. IsFiniteSet(Arrived(e)) /\ Cardinality(Arrived(e)) <= Cardinality(Arrived(e)')
    BY <1>1, <1>5, FS_Subset
  <1> QED
    BY <1>1, <1>5, <1>6, FS_CardinalityType

LEMMA CountedStays ==
    ASSUME Types, Types', Counted, copies' = copies,
           \A n \in DOMAIN calls : n \in DOMAIN calls' /\ calls'[n].entry = calls[n].entry
                                   /\ (calls[n].stage # "sent" => calls'[n].stage # "sent")
    PROVE  Counted'
  <1>1. ASSUME NEW e \in Entries PROVE copies'[e] <= Cardinality(Arrived(e)')
    <2>1. copies[e] \in Nat
      BY DEF Types
    <2>2. copies[e] <= Cardinality(Arrived(e))
      BY DEF Counted
    <2>3. /\ Cardinality(Arrived(e)) <= Cardinality(Arrived(e)')
          /\ Cardinality(Arrived(e)) \in Nat /\ Cardinality(Arrived(e)') \in Nat
      BY ArrivedGrow
    <2> QED
      BY <2>1, <2>2, <2>3
  <1> QED
    BY <1>1 DEF Counted

-----------------------------------------------------------------------------
(* The actions.                                                             *)

LEMMA InitPages == Init => PagesInv
  <1> SUFFICES ASSUME Init PROVE PagesInv
    OBVIOUS
  <1>1. Types
    <2>1. calls \in Seq(Call) /\ Len(calls) <= MaxCalls
      BY EntryAssumption DEF Init
    <2>2. 0 \in 0 .. MaxEntries
      BY EntryAssumption
    <2>3. copies \in [Entries -> Nat] /\ file = [e \in Entries |-> file[e]]
          /\ \A e \in Entries : file[e] \in FilesFor[e] \cup {NoFile}
      BY DEF Init
    <2> QED
      BY <2>1, <2>2, <2>3 DEF Init, Types, Pages
  <1>2. DOMAIN calls = {}
    BY DEF Init
  <1>3. PageState /\ Names /\ ReadFileShowsOutcome
    BY DEF Init, PageState, Names, NameFitsUnlessOvertaken, Shown, ReadFileShowsOutcome, Forms
  <1>4. CallsInv
    BY <1>2 DEF Init, CallsInv, RunningFits, OneRuns, OneLives, Sendable, Fresh
  <1>5. ASSUME NEW e \in Entries PROVE copies[e] <= Cardinality(Arrived(e))
    <2>1. Arrived(e) = {}
      BY <1>2 DEF Arrived
    <2>2. Cardinality({}) = 0
      BY FS_EmptySet
    <2> QED
      BY <2>1, <2>2 DEF Init
  <1> QED
    BY <1>1, <1>3, <1>4, <1>5 DEF PagesInv, Counted

\* A page is left: no call runs any more, and a form is a new entry.
LEMMA LeavesInv ==
    ASSUME PagesInv, NEW n, NEW stage \in {"sent", "ok"}, Leaves(calls', n, stage),
           n \in DOMAIN calls => calls[n].stage # "failed" /\ stage = "ok",
           NEW p \in Pages, Mount(p),
           p \in Forms => entry' = used + 1 /\ used' = used + 1 /\ used < MaxEntries,
           p \notin Forms => entry' = 0 /\ used' = used,
           UNCHANGED <<file, copies, overtaken, unreadable>>
    PROVE  PagesInv'
  <1>t. Types /\ MaxEntries \in Nat /\ used \in Nat /\ used' \in Nat /\ used <= used'
    BY EntryAssumption DEF PagesInv, Types
  <1>1. Types'
    <2>1. calls' \in Seq(Call) /\ Len(calls') <= MaxCalls
      BY <1>t DEF Leaves, Types
    <2>2. entry' \in 0 .. MaxEntries /\ used' \in 0 .. MaxEntries
      BY <1>t DEF Types
    <2>3. /\ page' \in Pages /\ submitting' \in BOOLEAN /\ error' \in BOOLEAN /\ done' \in BOOLEAN
          /\ parseError' = 0 /\ reading' = {} /\ rows' = 0 /\ result' = 0 /\ input' = 0
      BY DEF Mount
    <2>4. 0 \in 0 .. MaxEntries
      BY <1>t
    <2> QED
      BY <1>t, <2>1, <2>2, <2>3, <2>4 DEF Types
  <1>m. /\ page' = p /\ submitting' = FALSE /\ parseError' = 0 /\ rows' = 0 /\ result' = 0 /\ input' = 0 /\ reading' = {}
    BY DEF Mount
  <1>2. PageState'
    BY <1>m, <1>t DEF PageState
  <1>3. \A m \in DOMAIN calls' : ~Running(m)'
    BY DEF Running, UnderWay, Leaves
  <1>c. \A m \in DOMAIN calls' : /\ m \in DOMAIN calls /\ calls'[m].entry = calls[m].entry
                                 /\ calls'[m].stage # "failed" => calls[m].stage # "failed"
    BY DEF Leaves
  <1>4. RunningFits' /\ OneRuns'
    BY <1>3 DEF RunningFits, OneRuns
  <1>5. OneLives'
    BY <1>c DEF PagesInv, CallsInv, OneLives, Live
  <1>6. \A m \in DOMAIN calls' : calls'[m].entry <= used /\ calls'[m].entry \in Nat /\ calls'[m].entry # 0
    <2>1. \A m \in DOMAIN calls : calls[m].entry <= used /\ calls[m].entry \in Entries
      BY <1>t, CallFields DEF PagesInv, CallsInv, Fresh
    <2> QED
      BY <1>c, <1>t, <2>1 DEF Entries
  <1>7. Fresh'
    <2>1. \A m \in DOMAIN calls' : calls'[m].entry <= used'
      BY <1>6, <1>t
    <2>2. entry' <= used' /\ 0 <= used'
      BY <1>t
    <2> QED
      BY <1>m, <2>1, <2>2 DEF Fresh
  <1>8. Sendable'
    <2>1. p \in Forms => \A m \in DOMAIN calls' : calls'[m].entry # entry'
      BY <1>6, <1>t
    <2> QED
      BY <1>m, <2>1 DEF Sendable
  <1>9. Names' /\ ReadFileShowsOutcome'
    BY <1>m DEF Names, NameFitsUnlessOvertaken, Shown, ReadFileShowsOutcome
  <1>10. Counted'
    <2>1. \A m \in DOMAIN calls : m \in DOMAIN calls' /\ calls'[m].entry = calls[m].entry
                                  /\ (calls[m].stage # "sent" => calls'[m].stage # "sent")
      BY DEF Leaves
    <2> QED
      BY <1>1, <2>1, CountedStays DEF PagesInv
  <1> QED
    BY <1>1, <1>2, <1>4, <1>5, <1>7, <1>8, <1>9, <1>10 DEF PagesInv, CallsInv

LEMMA OpenInv ==
    ASSUME PagesInv, NEW p \in Pages, Open(p)
    PROVE  PagesInv'
  <1>1. Types
    BY DEF PagesInv
  <1>2. Leaves(calls', 0, "sent")
    BY <1>1, DetachedCalls DEF Open
  <1>3. 0 \notin DOMAIN calls
    BY <1>1 DEF Types
  <1> QED
    BY <1>2, <1>3, LeavesInv DEF Open, history

\* The rest of a step that leaves the calls alone.
LEMMA SameCalls ==
    ASSUME PagesInv, Types', UNCHANGED <<calls, copies>>
    PROVE  /\ OneLives' /\ Counted' /\ \A n \in DOMAIN calls : Running(n)' = Running(n) /\ Live(n)' = Live(n)
  <1>1. Counted'
    BY CountedStays DEF PagesInv
  <1>2. \A n \in DOMAIN calls : Running(n)' = Running(n) /\ Live(n)' = Live(n)
    BY DEF Running, UnderWay, Live
  <1> QED
    BY <1>1, <1>2 DEF PagesInv, CallsInv, OneLives, Live

LEMMA SubmitInvalidInv ==
    ASSUME PagesInv, SubmitInvalid
    PROVE  PagesInv'
  <1>1. /\ UNCHANGED <<page, entry, submitting, done, parseError, rows, result, input, reading, file, used,
                       calls, copies, overtaken, unreadable>>
        /\ error' = TRUE
    BY DEF SubmitInvalid, backend, history
  <1>2. Types'
    BY <1>1 DEF PagesInv, Types
  <1>3. OneLives' /\ Counted' /\ \A n \in DOMAIN calls : Running(n)' = Running(n) /\ Live(n)' = Live(n)
    BY <1>1, <1>2, SameCalls
  <1>4. PageState' /\ Names' /\ ReadFileShowsOutcome'
    BY <1>1 DEF PagesInv, PageState, Names, NameFitsUnlessOvertaken, Shown, ReadFileShowsOutcome
  <1>5. RunningFits' /\ OneRuns' /\ Sendable' /\ Fresh'
    BY <1>1, <1>3 DEF PagesInv, CallsInv, RunningFits, OneRuns, Sendable, Fresh
  <1> QED
    BY <1>2, <1>3, <1>4, <1>5 DEF PagesInv, CallsInv

LEMMA ChooseNoneInv ==
    ASSUME PagesInv, ChooseNone
    PROVE  PagesInv'
  <1>1. /\ UNCHANGED <<page, entry, submitting, done, reading, file, used, calls, copies, overtaken, unreadable>>
        /\ input' = 0 /\ result' = 0 /\ error' = FALSE /\ parseError' = 0 /\ rows' = 0
    BY DEF ChooseNone, backend, history
  <1>0. 0 \in 0 .. MaxEntries /\ 0 \notin Entries
    BY EntryAssumption DEF Entries
  <1>2. Types'
    BY <1>0, <1>1 DEF PagesInv, Types
  <1>3. OneLives' /\ Counted' /\ \A n \in DOMAIN calls : Running(n)' = Running(n) /\ Live(n)' = Live(n)
    BY <1>1, <1>2, SameCalls
  <1>4. PageState' /\ Names' /\ ReadFileShowsOutcome'
    BY <1>1 DEF PagesInv, PageState, Names, NameFitsUnlessOvertaken, Shown, ReadFileShowsOutcome
  <1>5. RunningFits' /\ OneRuns' /\ Sendable'
    BY <1>1, <1>3 DEF PagesInv, CallsInv, RunningFits, OneRuns, Sendable
  <1>6. Fresh'
    BY <1>0, <1>1, <1>2 DEF PagesInv, CallsInv, Fresh, Types
  <1> QED
    BY <1>2, <1>3, <1>4, <1>5, <1>6 DEF PagesInv, CallsInv

LEMMA FileReadInv ==
    ASSUME PagesInv, NEW e \in Entries, FileRead(e)
    PROVE  PagesInv'
  <1>1. /\ UNCHANGED <<page, entry, submitting, error, done, result, input, file, used, calls, copies,
                       overtaken, unreadable>>
        /\ e \in reading /\ reading' = reading \ {e}
        /\ (rows' = e /\ parseError' = parseError) \/ (parseError' = e /\ rows' = rows)
    BY DEF FileRead, backend, history
  <1>0. e \in 0 .. MaxEntries /\ e # 0
    BY EntryAssumption DEF Entries
  <1>2. Types'
    BY <1>0, <1>1 DEF PagesInv, Types
  <1>3. OneLives' /\ Counted' /\ \A n \in DOMAIN calls : Running(n)' = Running(n) /\ Live(n)' = Live(n)
    BY <1>1, <1>2, SameCalls
  <1>4. page = "import"
    BY <1>1 DEF PagesInv, PageState
  <1>5. PageState' /\ ReadFileShowsOutcome'
    BY <1>0, <1>1, <1>4 DEF PagesInv, PageState, ReadFileShowsOutcome, Shown, Names, Forms
  <1>6. Names'
    BY <1>1 DEF PagesInv, Names, NameFitsUnlessOvertaken, Shown
  <1>7. RunningFits' /\ OneRuns' /\ Fresh'
    BY <1>1, <1>3 DEF PagesInv, CallsInv, RunningFits, OneRuns, Fresh
  <1>8. Sendable'
    <2>1. \A n \in DOMAIN calls : calls[n].entry # e
      BY <1>1 DEF PagesInv, CallsInv, Fresh
    <2> QED
      BY <1>1, <1>3, <1>4, <2>1 DEF PagesInv, CallsInv, Sendable, Forms
  <1> QED
    BY <1>2, <1>3, <1>5, <1>6, <1>7, <1>8 DEF PagesInv, CallsInv

\* A file that cannot be read leaves the page as it is.
LEMMA FileReadFailsInv ==
    ASSUME PagesInv, NEW e \in Entries, FileReadFails(e)
    PROVE  PagesInv'
  <1>1. /\ UNCHANGED <<page, entry, submitting, error, done, parseError, rows, result, input, file, used,
                       calls, copies, overtaken>>
        /\ e \in reading /\ reading' = reading \ {e} /\ unreadable' = unreadable \cup {e}
    BY DEF FileReadFails, state, backend
  <1>2. Types'
    BY <1>1 DEF PagesInv, Types
  <1>3. OneLives' /\ Counted' /\ \A n \in DOMAIN calls : Running(n)' = Running(n) /\ Live(n)' = Live(n)
    BY <1>1, <1>2, SameCalls
  <1>4. PageState' /\ ReadFileShowsOutcome'
    BY <1>1 DEF PagesInv, PageState, ReadFileShowsOutcome, Shown
  <1>5. Names'
    BY <1>1 DEF PagesInv, Names, NameFitsUnlessOvertaken, Shown
  <1>6. RunningFits' /\ OneRuns' /\ Sendable' /\ Fresh'
    BY <1>1, <1>3 DEF PagesInv, CallsInv, RunningFits, OneRuns, Sendable, Fresh
  <1> QED
    BY <1>2, <1>3, <1>4, <1>5, <1>6 DEF PagesInv, CallsInv

\* What was being read or imported is overtaken.
LEMMA ChooseFileInv ==
    ASSUME PagesInv, NEW e \in Entries, e = used + 1, NEW f \in FilesFor[e], ChooseFile(f)
    PROVE  PagesInv'
  <1>1. /\ UNCHANGED <<page, submitting, done, calls, copies, unreadable>>
        /\ used' = e /\ entry' = e /\ input' = e /\ file' = [file EXCEPT ![e] = f]
        /\ result' = 0 /\ error' = FALSE /\ parseError' = 0 /\ rows' = 0
        /\ reading' = reading \cup {e} /\ overtaken' = overtaken \cup reading \cup Importing
        /\ page = "import"
    BY DEF ChooseFile, backend, history
  <1>0. 0 \in 0 .. MaxEntries /\ 0 \notin Entries /\ e \in 0 .. MaxEntries /\ e # 0
    BY EntryAssumption DEF Entries
  <1>t. Types
    BY DEF PagesInv
  <1>r. \A n \in DOMAIN calls : Running(n) => calls[n].entry \in Importing
    BY DEF Running, Importing
  <1>2. Types'
    <2>1. Importing \subseteq Entries
      BY <1>t, CallFields DEF Importing
    <2>2. file' = [d \in Entries |-> file'[d]] /\ \A d \in Entries : file'[d] \in FilesFor[d] \cup {NoFile}
      BY <1>1, <1>t DEF Types
    <2> QED
      BY <1>0, <1>1, <1>t, <2>1, <2>2 DEF Types
  <1>3. OneLives' /\ Counted' /\ \A n \in DOMAIN calls : Running(n)' = Running(n) /\ Live(n)' = Live(n)
    BY <1>1, <1>2, SameCalls
  <1>4. PageState' /\ ReadFileShowsOutcome'
    BY <1>0, <1>1 DEF PageState, ReadFileShowsOutcome, Shown, Forms
  <1>5. Names'
    BY <1>1 DEF Names, NameFitsUnlessOvertaken, Shown
  <1>6. RunningFits' /\ OneRuns'
    BY <1>1, <1>3, <1>r DEF PagesInv, CallsInv, RunningFits, OneRuns, Forms
  <1>7. Sendable'
    BY <1>1, <1>3 DEF Sendable, Forms
  <1>8. Fresh'
    <2>1. ASSUME NEW n \in DOMAIN calls PROVE calls[n].entry <= e /\ calls[n].entry # e
      <3>1. calls[n].entry <= used /\ calls[n].entry \in Entries
        BY <1>t, CallFields DEF PagesInv, CallsInv, Fresh
      <3> QED
        BY <1>t, <3>1 DEF Types, Entries
    <2>2. 0 \notin reading'
      BY <1>0, <1>2 DEF Types
    <2>3. \A d \in reading' : d <= used'
      <3>1. ASSUME NEW d \in reading PROVE d <= e
        <4>1. d <= used /\ d \in Entries
          BY <1>t DEF PagesInv, CallsInv, Fresh, Types
        <4> QED
          BY <1>t, <4>1 DEF Types, Entries
      <3> QED
        BY <1>1, <3>1 DEF Entries
    <2>4. entry' <= used' /\ rows' <= used'
      BY <1>0, <1>1 DEF Entries
    <2> QED
      BY <1>1, <2>1, <2>2, <2>3, <2>4 DEF PagesInv, CallsInv, Fresh
  <1> QED
    BY <1>2, <1>3, <1>4, <1>5, <1>6, <1>7, <1>8 DEF PagesInv, CallsInv

\* What is sent has no live call: not the form, whose button is enabled, and not
\* the rows.
LEMMA SendInv ==
    ASSUME PagesInv, NEW e \in Entries, Send(e), page \in Forms \cup {"import"},
           page \in Forms => e = entry /\ ~done, page = "import" => e = rows,
           ~submitting, submitting' = TRUE, error' = FALSE,
           UNCHANGED <<page, entry, done, parseError, rows, result, input, reading, file, used, copies,
                       overtaken, unreadable>>
    PROVE  PagesInv'
  <1>t. Types
    BY DEF PagesInv
  <1>n. PICK n : n = Len(calls) + 1
    OBVIOUS
  <1>1. /\ calls' \in Seq(Call) /\ Len(calls') <= MaxCalls
        /\ DOMAIN calls' = DOMAIN calls \cup {n} /\ n \notin DOMAIN calls
        /\ \A m \in DOMAIN calls : calls'[m] = calls[m]
        /\ calls'[n].page = page /\ calls'[n].entry = e /\ calls'[n].mounted = TRUE
        /\ calls'[n].stage = "sent"
    <2>c. PICK c : c = [page |-> page, entry |-> e, mounted |-> TRUE, stage |-> "sent"]
      OBVIOUS
    <2>1. Sends(calls', e) /\ Len(calls') <= MaxCalls
      BY <1>t, SentCalls
    <2>2. /\ calls' \in Seq(Call) /\ DOMAIN calls' = DOMAIN calls \cup {n} /\ n \notin DOMAIN calls
          /\ \A m \in DOMAIN calls : calls'[m] = calls[m]
          /\ calls'[n] = c
      BY <1>n, <2>1, <2>c DEF Sends
    <2>3. c.page = page /\ c.entry = e /\ c.mounted = TRUE /\ c.stage = "sent"
      BY <2>c
    <2> QED
      BY <2>1, <2>2, <2>3
  <1>2. Types'
    BY <1>t, <1>1 DEF Types
  <1>3. ~\E m \in DOMAIN calls : Running(m)
    BY DEF PagesInv, CallsInv, RunningFits
  <1>4. \A m \in DOMAIN calls : Live(m) => calls[m].entry # e
    <2>1. CASE page \in Forms
      BY <1>3, <2>1 DEF PagesInv, CallsInv, Sendable
    <2>2. CASE page = "import"
      <3>1. rows # 0
        BY <2>2 DEF Entries
      <3> QED
        BY <1>3, <2>2, <3>1 DEF PagesInv, CallsInv, Sendable
    <2> QED
      BY <2>1, <2>2
  <1>5. /\ \A m \in DOMAIN calls : Running(m)' = Running(m) /\ Live(m)' = Live(m)
        /\ Running(n)' /\ Live(n)'
    BY <1>1 DEF Running, UnderWay, Live
  <1>6. PageState' /\ Names' /\ ReadFileShowsOutcome'
    BY DEF PagesInv, PageState, Names, NameFitsUnlessOvertaken, Shown, ReadFileShowsOutcome
  <1>7. RunningFits'
    <2>1. \A m \in DOMAIN calls' : Running(m)' => m = n
      BY <1>1, <1>3, <1>5
    <2>2. page \in Forms => e = entry
      OBVIOUS
    <2>3. e = entry \/ e \in overtaken
      <3>1. CASE page = "import"
        BY <3>1 DEF Entries, PagesInv, Names, NameFitsUnlessOvertaken, Shown
      <3> QED
        BY <3>1
    <2> QED
      BY <1>1, <2>1, <2>2, <2>3 DEF RunningFits
  <1>8. OneRuns'
    BY <1>1, <1>3, <1>5 DEF OneRuns
  <1>9. OneLives'
    BY <1>1, <1>4, <1>5 DEF PagesInv, CallsInv, OneLives
  <1>10. Sendable'
    BY <1>1, <1>5 DEF PagesInv, CallsInv, Sendable
  <1>11. Fresh'
    <2>1. e <= used /\ e \notin reading
      <3>1. CASE page \in Forms
        BY <3>1 DEF Forms, PagesInv, PageState, CallsInv, Fresh
      <3>2. CASE page = "import"
        BY <3>2 DEF PagesInv, CallsInv, Fresh
      <3> QED
        BY <3>1, <3>2
    <2> QED
      BY <1>1, <2>1 DEF PagesInv, CallsInv, Fresh
  <1>12. Counted'
    BY <1>1, <1>2, CountedStays DEF PagesInv
  <1> QED
    BY <1>2, <1>6, <1>7, <1>8, <1>9, <1>10, <1>11, <1>12 DEF PagesInv, CallsInv

LEMMA SubmitInv ==
    ASSUME PagesInv, Submit
    PROVE  PagesInv'
  <1>1. entry \in Entries
    BY DEF Submit, FormOpen, PagesInv, Types, PageState, Entries
  <1>2. page # "import"
    BY DEF Submit, FormOpen, Forms
  <1> QED
    BY <1>1, <1>2, SendInv DEF Submit, FormOpen, history

LEMMA ImportInv ==
    ASSUME PagesInv, Import
    PROVE  PagesInv'
  <1>1. rows \in Entries
    BY DEF Import, PagesInv, Types, Entries
  <1>2. page \notin Forms
    BY DEF Import, Forms
  <1> QED
    BY <1>1, <1>2, SendInv DEF Import, history

\* A call that has not ended moves on; the page keeps its entry.
LEMMA MovesInv ==
    ASSUME PagesInv, Types', NEW n \in DOMAIN calls, UnderWay(n),
           NEW stage \in {"stored", "ok", "failed"}, Moves(calls', n, stage),
           UNCHANGED <<page, entry, used, reading, overtaken, unreadable>>,
           submitting' = submitting \/ (stage # "stored" /\ calls[n].mounted),
           done' = done \/ done' = TRUE,
           rows' = rows \/ rows' = 0,
           stage = "ok" /\ rows' # 0 /\ calls[n].page = "import" => ~calls[n].mounted,
           stage = "ok" /\ page \in Forms /\ ~done' => calls[n].page = "import" \/ ~calls[n].mounted
    PROVE  CallsInv'
  <1>t. Types
    BY DEF PagesInv
  <1>1. /\ DOMAIN calls' = DOMAIN calls
        /\ calls'[n].stage = stage
        /\ \A m \in DOMAIN calls :
              /\ calls'[m].entry = calls[m].entry /\ calls'[m].page = calls[m].page
              /\ calls'[m].mounted = calls[m].mounted
              /\ m # n => calls'[m].stage = calls[m].stage
    BY DEF Moves
  <1>2. Live(n)
    BY DEF UnderWay, Live
  <1>3. /\ \A m \in DOMAIN calls : Live(m)' => Live(m)
        /\ \A m \in DOMAIN calls : Running(m)' => Running(m)
        /\ \A m \in DOMAIN calls : m # n => Running(m)' = Running(m)
        /\ stage = "stored" => Running(n)' = Running(n)
        /\ stage # "stored" => ~Running(n)'
        /\ stage = "failed" => ~Live(n)'
    BY <1>1, <1>2 DEF Live, Running, UnderWay
  <1>4. RunningFits'
    <2>1. ASSUME NEW m \in DOMAIN calls, Running(m)' PROVE submitting'
      <3>1. Running(m) /\ submitting
        BY <1>3, <2>1 DEF PagesInv, CallsInv, RunningFits
      <3>2. CASE submitting' = submitting
        BY <3>1, <3>2
      <3>3. CASE stage # "stored" /\ calls[n].mounted
        <4>1. Running(n) /\ ~Running(n)'
          BY <1>3, <3>3 DEF Running
        <4>2. m = n
          BY <3>1, <4>1 DEF PagesInv, CallsInv, OneRuns
        <4> QED
          BY <2>1, <4>1, <4>2
      <3> QED
        BY <3>2, <3>3
    <2> QED
      BY <1>1, <1>3, <2>1 DEF PagesInv, CallsInv, RunningFits
  <1>5. OneRuns' /\ OneLives'
    BY <1>1, <1>3 DEF PagesInv, CallsInv, OneRuns, OneLives
  <1>6. Fresh'
    <2>1. 0 \notin reading /\ 0 <= used
      BY <1>t DEF Types, Entries
    <2>2. \A m \in DOMAIN calls' : calls'[m].entry <= used /\ calls'[m].entry \notin reading
      BY <1>1 DEF PagesInv, CallsInv, Fresh
    <2> QED
      BY <2>1, <2>2 DEF PagesInv, CallsInv, Fresh
  <1>7. Sendable'
    <2>1. ASSUME NEW m \in DOMAIN calls, Live(m)', page \in Forms, ~done', calls[m].entry = entry
          PROVE  Running(m)'
      <3>1. Running(m) /\ calls[m].page = page
        BY <1>3, <2>1 DEF PagesInv, CallsInv, Sendable, RunningFits
      <3>2. m = n => stage = "stored"
        BY <1>3, <2>1, <3>1 DEF Running, Forms
      <3> QED
        BY <1>3, <3>1, <3>2
    <2>2. ASSUME NEW m \in DOMAIN calls, Live(m)', rows' # 0, calls[m].entry = rows'
          PROVE  Running(m)'
      <3>1. rows' = rows
        BY <2>2
      <3>2. Running(m) /\ calls[m].page = "import"
        BY <1>3, <2>2, <3>1 DEF PagesInv, CallsInv, Sendable, RunningFits, PageState
      <3>3. m = n => stage = "stored"
        BY <1>3, <2>2, <3>2 DEF Running
      <3> QED
        BY <1>3, <3>2, <3>3
    <2> QED
      BY <1>1, <2>1, <2>2 DEF Sendable
  <1> QED
    BY <1>4, <1>5, <1>6, <1>7 DEF CallsInv

\* What is counted after a call that had arrived, or fails, moves on.
LEMMA MovesCounted ==
    ASSUME PagesInv, Types', NEW n \in DOMAIN calls,
           NEW stage \in {"stored", "ok", "failed"}, Moves(calls', n, stage), copies' = copies
    PROVE  Counted'
  <1>1. \A m \in DOMAIN calls : m \in DOMAIN calls' /\ calls'[m].entry = calls[m].entry
                                /\ (calls[m].stage # "sent" => calls'[m].stage # "sent")
    BY DEF Moves
  <1> QED
    BY <1>1, CountedStays DEF PagesInv

\* The API stores an entry: one more of its calls has arrived.
LEMMA StoreInv ==
    ASSUME PagesInv, NEW n \in DOMAIN calls, Store(n)
    PROVE  PagesInv'
  <1>t. Types
    BY DEF PagesInv
  <1>e. PICK e : e = calls[n].entry
    OBVIOUS
  <1>1. /\ UNCHANGED <<page, entry, state, input, reading, file, used, overtaken, unreadable>>
        /\ calls[n].stage = "sent" /\ e \in Entries
        /\ copies' = [copies EXCEPT ![e] = copies[e] + 1]
    BY <1>t, <1>e, CallFields DEF Store, history
  <1>2. Moves(calls', n, "stored")
    BY <1>t, MovedCalls DEF Store
  <1>3. Types'
    <2>1. calls' \in Seq(Call) /\ Len(calls') <= MaxCalls
      BY <1>t, <1>2 DEF Moves, Types
    <2>2. copies' \in [Entries -> Nat]
      BY <1>t, <1>1 DEF Types
    <2> QED
      BY <1>t, <1>1, <2>1, <2>2 DEF Types, state
  <1>4. CallsInv'
    <2>1. UnderWay(n)
      BY <1>1 DEF UnderWay
    <2> QED
      BY <1>1, <1>2, <1>3, <2>1, MovesInv DEF state
  <1>5. PageState' /\ Names' /\ ReadFileShowsOutcome'
    BY <1>1 DEF state, PagesInv, PageState, Names, NameFitsUnlessOvertaken, Shown, ReadFileShowsOutcome
  <1>6. ASSUME NEW d \in Entries PROVE copies'[d] <= Cardinality(Arrived(d)')
    <2>1. copies[d] \in Nat /\ copies[d] <= Cardinality(Arrived(d))
      BY <1>t DEF PagesInv, Counted, Types
    <2>2. /\ Arrived(d) \subseteq Arrived(d)' /\ IsFiniteSet(Arrived(d)')
          /\ Cardinality(Arrived(d)) <= Cardinality(Arrived(d)')
          /\ Cardinality(Arrived(d)) \in Nat /\ Cardinality(Arrived(d)') \in Nat
      <3>1. \A m \in DOMAIN calls : m \in DOMAIN calls' /\ calls'[m].entry = calls[m].entry
                                    /\ (calls[m].stage # "sent" => calls'[m].stage # "sent")
        BY <1>2 DEF Moves
      <3> QED
        BY <1>t, <1>3, <3>1, ArrivedGrow
    <2>3. CASE d # e
      <3>1. copies'[d] = copies[d]
        BY <1>t, <1>1, <2>3 DEF Types
      <3> QED
        BY <2>1, <2>2, <3>1
    <2>4. CASE d = e
      <3>1. copies'[d] = copies[d] + 1
        BY <1>t, <1>1, <2>4 DEF Types
      <3>2. n \notin Arrived(d) /\ n \in Arrived(d)'
        BY <1>e, <1>1, <1>2, <2>4 DEF Arrived, Moves
      <3>3. Cardinality(Arrived(d)) < Cardinality(Arrived(d)')
        <4>1. /\ IsFiniteSet(Arrived(d)' \ {n})
              /\ Cardinality(Arrived(d)' \ {n}) = Cardinality(Arrived(d)') - 1
          BY <2>2, <3>2, FS_RemoveElement
        <4>2. Arrived(d) \subseteq Arrived(d)' \ {n}
          BY <2>2, <3>2
        <4>3. Cardinality(Arrived(d)) <= Cardinality(Arrived(d)' \ {n})
          BY <4>1, <4>2, FS_Subset
        <4> QED
          BY <2>2, <4>1, <4>3
      <3> QED
        BY <2>1, <2>2, <3>1, <3>3
    <2> QED
      BY <2>3, <2>4
  <1>7. Counted'
    BY <1>6 DEF Counted
  <1> QED
    BY <1>3, <1>4, <1>5, <1>7 DEF PagesInv

LEMMA FormDoneInv ==
    ASSUME PagesInv, NEW n \in DOMAIN calls, FormDone(n)
    PROVE  PagesInv'
  <1>t. Types
    BY DEF PagesInv
  <1>0. /\ calls[n].stage = "stored" /\ calls[n].page \in Forms /\ UnderWay(n)
        /\ UNCHANGED <<file, used, copies, overtaken, unreadable>>
    BY DEF FormDone, UnderWay, history
  <1>1. CASE calls[n].page = "add"
    <2>1. Mount("elsewhere") /\ entry' = 0 /\ Leaves(calls', n, "ok")
      BY <1>t, <1>1, DetachedCalls DEF FormDone
    <2>2. "elsewhere" \in Pages /\ "elsewhere" \notin Forms
      BY DEF Pages, Forms
    <2> QED
      BY <1>0, <2>1, <2>2, LeavesInv
  <1>2. CASE calls[n].page # "add"
    <2>1. /\ UNCHANGED <<page, entry, submitting, error, parseError, rows, result, input, reading>>
          /\ done' = (done \/ calls[n].mounted) /\ calls' = Moved(n, "ok")
      BY <1>2 DEF FormDone
    <2>2. Moves(calls', n, "ok")
      BY <1>t, <2>1, MovedCalls
    <2>3. calls[n].mounted \in BOOLEAN /\ done \in BOOLEAN
      BY <1>t, CallFields DEF Types
    <2>4. (done' = done \/ done' = TRUE) /\ (~done' => ~calls[n].mounted)
      BY <2>1, <2>3
    <2>5. Types'
      <3>1. calls' \in Seq(Call) /\ Len(calls') <= MaxCalls
        BY <1>t, <2>2 DEF Moves, Types
      <3>2. done' \in BOOLEAN
        BY <2>1, <2>3
      <3> QED
        BY <1>t, <1>0, <2>1, <3>1, <3>2 DEF Types
    <2>6. calls[n].page # "import"
      BY <1>0 DEF Forms
    <2>7. CallsInv'
      BY <1>0, <2>1, <2>2, <2>4, <2>5, <2>6, MovesInv
    <2>8. PageState' /\ Names' /\ ReadFileShowsOutcome'
      BY <1>0, <2>1 DEF PagesInv, PageState, Names, NameFitsUnlessOvertaken, Shown, ReadFileShowsOutcome
    <2>9. Counted'
      BY <1>0, <2>2, <2>5, MovesCounted
    <2> QED
      BY <2>5, <2>7, <2>8, <2>9 DEF PagesInv
  <1> QED
    BY <1>1, <1>2

\* The rows go with the call that imported them.
LEMMA ImportDoneInv ==
    ASSUME PagesInv, NEW n \in DOMAIN calls, ImportDone(n)
    PROVE  PagesInv'
  <1>t. Types
    BY DEF PagesInv
  <1>0. /\ calls[n].stage = "stored" /\ calls[n].page = "import" /\ UnderWay(n)
        /\ UNCHANGED <<page, entry, error, done, parseError, input, reading, file, used, copies, overtaken, unreadable>>
        /\ calls' = Moved(n, "ok")
    BY DEF ImportDone, UnderWay, history
  <1>1. Moves(calls', n, "ok")
    BY <1>t, <1>0, MovedCalls
  <1>e. calls[n].entry \in Entries
    BY <1>t, CallFields
  <1>2. \/ /\ calls[n].mounted /\ result' = calls[n].entry /\ rows' = 0 /\ submitting' = FALSE
        \/ ~calls[n].mounted /\ UNCHANGED <<result, rows, submitting>>
    BY DEF ImportDone
  <1>3. Types'
    <2>1. calls' \in Seq(Call) /\ Len(calls') <= MaxCalls
      BY <1>t, <1>1 DEF Moves, Types
    <2>2. result' \in 0 .. MaxEntries /\ rows' \in 0 .. MaxEntries /\ submitting' \in BOOLEAN
      <3>1. /\ result \in 0 .. MaxEntries /\ rows \in 0 .. MaxEntries /\ submitting \in BOOLEAN
            /\ 0 \in 0 .. MaxEntries /\ calls[n].entry \in 0 .. MaxEntries
        BY <1>t, <1>e, EntryAssumption DEF Types, Entries
      <3> QED
        BY <1>2, <3>1
    <2> QED
      BY <1>t, <1>0, <2>1, <2>2 DEF Types
  <1>4. CallsInv'
    <2>1. rows' # 0 => ~calls[n].mounted
      BY <1>2
    <2>2. /\ submitting' = submitting \/ ("ok" # "stored" /\ calls[n].mounted)
          /\ rows' = rows \/ rows' = 0
      BY <1>2
    <2> QED
      BY <1>0, <1>1, <1>3, <2>1, <2>2, MovesInv
  <1>5. calls[n].mounted => page = "import" /\ (calls[n].entry = entry \/ calls[n].entry \in overtaken)
    BY <1>0 DEF PagesInv, CallsInv, RunningFits, Running
  <1>6. PageState'
    BY <1>0, <1>2, <1>5 DEF PagesInv, PageState
  <1>7. Names' /\ ReadFileShowsOutcome'
    BY <1>0, <1>2, <1>5, <1>e DEF PagesInv, PageState, Names, NameFitsUnlessOvertaken, Shown, ReadFileShowsOutcome, Entries
  <1>8. Counted'
    BY <1>0, <1>1, <1>3, MovesCounted
  <1> QED
    BY <1>3, <1>4, <1>6, <1>7, <1>8 DEF PagesInv

LEMMA CallFailsInv ==
    ASSUME PagesInv, NEW n \in DOMAIN calls, CallFails(n)
    PROVE  PagesInv'
  <1>t. Types
    BY DEF PagesInv
  <1>0. /\ UnderWay(n)
        /\ UNCHANGED <<page, entry, done, parseError, rows, result, input, reading, file, used, copies,
                       overtaken, unreadable>>
        /\ calls' = Moved(n, "failed")
    BY DEF CallFails, history
  <1>1. Moves(calls', n, "failed")
    BY <1>t, <1>0, MovedCalls
  <1>2. \/ calls[n].mounted /\ error' = TRUE /\ submitting' = FALSE
        \/ ~calls[n].mounted /\ UNCHANGED <<error, submitting>>
    BY DEF CallFails
  <1>3. Types'
    <2>1. calls' \in Seq(Call) /\ Len(calls') <= MaxCalls
      BY <1>t, <1>1 DEF Moves, Types
    <2>2. error' \in BOOLEAN /\ submitting' \in BOOLEAN
      BY <1>t, <1>2 DEF Types
    <2> QED
      BY <1>t, <1>0, <2>1, <2>2 DEF Types
  <1>4. CallsInv'
    <2>1. submitting' = submitting \/ ("failed" # "stored" /\ calls[n].mounted)
      BY <1>2
    <2> QED
      BY <1>0, <1>1, <1>3, <2>1, MovesInv
  <1>5. PageState' /\ Names' /\ ReadFileShowsOutcome'
    BY <1>0 DEF PagesInv, PageState, Names, NameFitsUnlessOvertaken, Shown, ReadFileShowsOutcome
  <1>6. Counted'
    BY <1>0, <1>1, <1>3, MovesCounted
  <1> QED
    BY <1>3, <1>4, <1>5, <1>6 DEF PagesInv

LEMMA NextPages == PagesInv /\ [Next]_vars => PagesInv'
  <1> SUFFICES ASSUME PagesInv, [Next]_vars PROVE PagesInv'
    OBVIOUS
  <1>1. CASE UNCHANGED vars
    <2>1. UNCHANGED <<page, entry, submitting, error, done, parseError, rows, result, input, reading,
                      file, used, calls, copies, overtaken, unreadable>>
      BY <1>1 DEF vars, state, backend, history
    <2>2. Types'
      BY <2>1 DEF PagesInv, Types
    <2>3. OneLives' /\ Counted' /\ \A n \in DOMAIN calls : Running(n)' = Running(n) /\ Live(n)' = Live(n)
      BY <2>1, <2>2, SameCalls
    <2>4. PageState' /\ Names' /\ ReadFileShowsOutcome'
      BY <2>1 DEF PagesInv, PageState, Names, NameFitsUnlessOvertaken, Shown, ReadFileShowsOutcome
    <2>5. RunningFits' /\ OneRuns' /\ Sendable' /\ Fresh'
      BY <2>1, <2>3 DEF PagesInv, CallsInv, RunningFits, OneRuns, Sendable, Fresh
    <2> QED
      BY <2>2, <2>3, <2>4, <2>5 DEF PagesInv, CallsInv
  <1>2. CASE \E p \in Pages : Open(p)
    BY <1>2, OpenInv
  <1>3. CASE SubmitInvalid \/ Submit \/ ChooseNone \/ Import
    BY <1>3, SubmitInvalidInv, SubmitInv, ChooseNoneInv, ImportInv
  <1>4. CASE \E e \in Entries : \E f \in FilesFor[e] : e = used + 1 /\ ChooseFile(f)
    BY <1>4, ChooseFileInv
  <1>5. CASE \E e \in Entries : FileRead(e) \/ FileReadFails(e)
    BY <1>5, FileReadInv, FileReadFailsInv
  <1>6. CASE \E n \in DOMAIN calls : Store(n) \/ Ends(n)
    BY <1>6, StoreInv, FormDoneInv, ImportDoneInv, CallFailsInv DEF Ends
  <1> QED
    BY <1>1, <1>2, <1>3, <1>4, <1>5, <1>6 DEF Next

\* The invariant of the pages.
THEOREM PagesInvariance == Spec => []PagesInv
  <1> QED
    BY InitPages, NextPages, PTL DEF Spec

-----------------------------------------------------------------------------
(* The properties.                                                          *)

LEMMA CountBounds ==
    ASSUME PagesInv, NEW e \in Entries
    PROVE  /\ copies[e] \in 0 .. MaxCalls
           /\ copies[e] <= 1 + Cardinality(Failed(e))
  <1>t. Types /\ MaxCalls \in Nat
    BY EntryAssumption DEF PagesInv
  <1>1. copies[e] \in Nat /\ copies[e] <= Cardinality(Arrived(e))
    BY <1>t DEF PagesInv, Types, Counted
  <1>2. calls \in Seq(Call) /\ Len(calls) \in Nat /\ Len(calls) <= MaxCalls /\ DOMAIN calls = 1 .. Len(calls)
    BY <1>t DEF Types
  <1>3. IsFiniteSet(1 .. Len(calls)) /\ Cardinality(1 .. Len(calls)) = Len(calls)
    BY <1>2, FS_Interval
  <1>4. /\ IsFiniteSet(Arrived(e)) /\ Cardinality(Arrived(e)) <= Len(calls)
        /\ IsFiniteSet(Failed(e))
    <2>1. Arrived(e) \subseteq 1 .. Len(calls) /\ Failed(e) \subseteq 1 .. Len(calls)
      BY <1>2 DEF Arrived, Failed
    <2> QED
      BY <1>3, <2>1, FS_Subset
  <1>5. Cardinality(Arrived(e)) \in Nat /\ Cardinality(Failed(e)) \in Nat
    BY <1>4, FS_CardinalityType
  <1>6. copies[e] \in 0 .. MaxCalls
    <2>1. PICK c, a : c = copies[e] /\ a = Cardinality(Arrived(e))
      OBVIOUS
    <2>2. c \in Nat /\ a \in Nat /\ c <= a /\ a <= Len(calls)
      BY <1>1, <1>4, <1>5, <2>1
    <2>3. c <= MaxCalls
      BY <1>t, <1>2, <2>2
    <2> QED
      BY <1>t, <2>1, <2>2, <2>3
  <1>7. Cardinality(Arrived(e)) <= 1 + Cardinality(Failed(e))
    <2>1. CASE Arrived(e) \subseteq Failed(e)
      <3>1. Cardinality(Arrived(e)) <= Cardinality(Failed(e))
        BY <1>4, <2>1, FS_Subset
      <3> QED
        BY <1>5, <3>1
    <2>2. CASE ~(Arrived(e) \subseteq Failed(e))
      <3>1. PICK n \in Arrived(e) : n \notin Failed(e)
        BY <2>2
      <3>2. \A m \in Arrived(e) : m \notin Failed(e) => m = n
        BY <3>1 DEF Arrived, Failed, PagesInv, CallsInv, OneLives, Live
      <3>3. Arrived(e) \subseteq Failed(e) \cup {n}
        BY <3>2
      <3>4. /\ IsFiniteSet(Failed(e) \cup {n})
            /\ Cardinality(Failed(e) \cup {n}) = Cardinality(Failed(e)) + 1
        BY <1>4, <3>1, FS_AddElement
      <3>5. Cardinality(Arrived(e)) <= Cardinality(Failed(e) \cup {n})
        BY <3>3, <3>4, FS_Subset
      <3> QED
        BY <1>5, <3>4, <3>5
    <2> QED
      BY <2>1, <2>2
  <1> QED
    BY <1>1, <1>5, <1>6, <1>7

\* The state of the pages and of the calls is what the comments at the
\* variables say; an entry is stored at most once for each call that is sent.
THEOREM EntryPagesTypes == Spec => []TypeOK
  <1>1. ASSUME PagesInv PROVE TypeOK
    <2>1. Types
      BY <1>1 DEF PagesInv
    <2>2. copies \in [Entries -> 0 .. MaxCalls]
      BY <1>1, <2>1, CountBounds DEF Types
    <2> QED
      BY <2>1, <2>2 DEF Types, TypeOK
  <1>2. PagesInv => TypeOK
    BY <1>1
  <1> QED
    BY <1>2, PagesInvariance, PTL

\* No page sends an entry while a call with it is under way, or after one was
\* answered: a second copy takes a failure (AddPartner.tsx:35-50,
\* PublicOnboarding.tsx:31-45, BulkImport.tsx:43-64).
THEOREM OnlyRetriesCopy == Spec => []CopiesComeFromRetries
  <1>1. PagesInv => CopiesComeFromRetries
    BY CountBounds DEF CopiesComeFromRetries
  <1> QED
    BY <1>1, PagesInvariance, PTL

\* Rows, a report or a refusal under another file's name are those of a file that
\* was still read or imported when the other was chosen (BulkImport.tsx:23-41).
THEOREM NamesFit == Spec => []NameFitsUnlessOvertaken
  <1>1. PagesInv => NameFitsUnlessOvertaken
    BY DEF PagesInv, Names
  <1> QED
    BY <1>1, PagesInvariance, PTL

\* The import page shows the rows, the report or the refusal of the chosen file
\* once it was read, unless it could not be read or an overtaken file's have
\* taken its place (BulkImport.tsx:23-64).
THEOREM ImportShowsOutcome == Spec => []ReadFileShowsOutcome
  <1>1. PagesInv => ReadFileShowsOutcome
    BY DEF PagesInv
  <1> QED
    BY <1>1, PagesInvariance, PTL

-----------------------------------------------------------------------------
(* The rows are those of the file.                                          *)

Readable(f) == csvToPartnerRows(Text(f)).rows # <<>>

\* What is read is a file, and rows that can be imported were read from one: only
\* a choice gives an entry its file, and that entry is new.
RowsInv ==
    /\ \A e \in reading : file[e] \in FilesFor[e]
    /\ rows # 0 => rows \in Entries /\ file[rows] \in FilesFor[rows] /\ Readable(file[rows])

LEMMA RowsStay ==
    ASSUME RowsInv, reading' \subseteq reading, rows' \in {0, rows}, file' = file
    PROVE  RowsInv'
  <1> QED
    BY DEF RowsInv

LEMMA RowsOfFile ==
    ASSUME PagesInv, RowsInv, NEW e \in Entries, FileRead(e)
    PROVE  RowsInv'
  <1>1. /\ e \in reading /\ reading' = reading \ {e} /\ file' = file
        /\ IF Parsed(e).rows # <<>> THEN rows' = e ELSE rows' = rows
    BY DEF FileRead
  <1>2. CASE Parsed(e).rows # <<>>
    <2>1. Readable(file[e]) /\ rows' = e
      BY <1>1, <1>2 DEF Readable, Parsed
    <2> QED
      BY <1>1, <2>1 DEF RowsInv
  <1>3. CASE Parsed(e).rows = <<>>
    BY <1>1, <1>3, RowsStay
  <1> QED
    BY <1>2, <1>3

LEMMA RowsCleared ==
    ASSUME PagesInv, RowsInv, NEW e \in Entries, e = used + 1, NEW f \in FilesFor[e], ChooseFile(f)
    PROVE  RowsInv'
  <1>1. /\ file' = [file EXCEPT ![e] = f] /\ rows' = 0 /\ reading' = reading \cup {e}
    BY DEF ChooseFile
  <1>2. \A d \in reading : d \in Entries /\ d # e
    <2>1. used \in Nat /\ \A d \in reading : d \in Entries /\ d <= used
      BY EntryAssumption DEF PagesInv, Types, CallsInv, Fresh
    <2> QED
      BY <2>1 DEF Entries
  <1>3. file'[e] = f /\ \A d \in reading : file'[d] = file[d]
    <2>1. file = [d \in Entries |-> file[d]]
      BY DEF PagesInv, Types
    <2> QED
      BY <1>1, <1>2, <2>1
  <1> QED
    BY <1>1, <1>3 DEF RowsInv

LEMMA NextRows == PagesInv /\ RowsInv /\ [Next]_vars => RowsInv'
  <1> SUFFICES ASSUME PagesInv, RowsInv, [Next]_vars PROVE RowsInv'
    OBVIOUS
  <1>1. CASE UNCHANGED vars
    BY <1>1, RowsStay DEF vars, state
  <1>2. CASE \E p \in Pages : Open(p)
    <2>1. file' = file /\ reading' = {} /\ rows' = 0
      BY <1>2 DEF Open, Mount
    <2> QED
      BY <2>1, RowsStay
  <1>3. CASE SubmitInvalid \/ Submit \/ ChooseNone \/ Import
    <2>1. file' = file /\ reading' = reading /\ rows' \in {0, rows}
      BY <1>3 DEF SubmitInvalid, Submit, ChooseNone, Import
    <2> QED
      BY <2>1, RowsStay
  <1>4. CASE \E e \in Entries : \E f \in FilesFor[e] : e = used + 1 /\ ChooseFile(f)
    BY <1>4, RowsCleared
  <1>5. CASE \E e \in Entries : FileRead(e) \/ FileReadFails(e)
    <2>1. CASE \E e \in Entries : FileRead(e)
      BY <2>1, RowsOfFile
    <2>2. CASE \E e \in Entries : FileReadFails(e)
      <3>1. file' = file /\ reading' \subseteq reading /\ rows' = rows
        BY <2>2 DEF FileReadFails, state
      <3> QED
        BY <3>1, RowsStay
    <2> QED
      BY <1>5, <2>1, <2>2
  <1>6. CASE \E n \in DOMAIN calls : Store(n) \/ Ends(n)
    <2> SUFFICES ASSUME NEW n \in DOMAIN calls, Store(n) \/ Ends(n)
                 PROVE  file' = file /\ reading' \subseteq reading /\ rows' \in {0, rows}
      BY <1>6, RowsStay
    <2>1. CASE Store(n)
      BY <2>1 DEF Store, state
    <2>2. CASE FormDone(n)
      BY <2>2 DEF FormDone, Mount
    <2>3. CASE ImportDone(n)
      BY <2>3 DEF ImportDone
    <2>4. CASE CallFails(n)
      BY <2>4 DEF CallFails
    <2> QED
      BY <2>1, <2>2, <2>3, <2>4 DEF Ends
  <1> QED
    BY <1>1, <1>2, <1>3, <1>4, <1>5, <1>6 DEF Next

LEMMA FileReadsBack ==
    ASSUME NEW e \in Entries, NEW f \in FilesFor[e]
    PROVE  parseCsv(Text(f)) = NonBlank(f.table)
  <1>1. f \in [table : Seq(Seq(Seq(STRING)) \ {<<>>}), crlf : BOOLEAN]
    BY EntryAssumption DEF Entries
  <1>2. f.table \in Seq(Seq(Seq(STRING)) \ {<<>>})
    BY <1>1
  <1>3. /\ parseCsv(rowsToCsv(f.table)) = NonBlank(f.table)
        /\ parseCsv(Written(f.table, <<CR, LF>>) \o <<CR, LF>>) = NonBlank(f.table)
    BY <1>2, ReadingUndoesWriting
  <1> QED
    BY <1>3 DEF Text, Written

LEMMA RowsAreOfTable == RowsInv => RowsAreThoseWritten
  <1> SUFFICES ASSUME RowsInv, rows # 0
               PROVE  /\ HeaderOk(NonBlank(file[rows].table))
                      /\ Parsed(rows).rows = PartnerRows(NonBlank(file[rows].table))
    BY DEF RowsAreThoseWritten
  <1>1. PICK t : t = NonBlank(file[rows].table)
    OBVIOUS
  <1>2. parseCsv(Text(file[rows])) = t
    BY <1>1, FileReadsBack DEF RowsInv
  <1>3. Parsed(rows) = IF HeaderOk(t) THEN [ok |-> TRUE, rows |-> PartnerRows(t)]
                                      ELSE [ok |-> FALSE, rows |-> <<>>]
    BY <1>2 DEF Parsed, csvToPartnerRows
  <1>4. Parsed(rows).rows # <<>>
    BY DEF RowsInv, Readable, Parsed
  <1>5. HeaderOk(t) /\ Parsed(rows).rows = PartnerRows(t)
    BY <1>3, <1>4
  <1> QED
    BY <1>1, <1>5

\* The rows that can be imported are those of the table the file was written from,
\* blank lines apart, whatever files are chosen, in whatever order they are
\* read, and whatever answers arrive meanwhile (csv.ts:7-68 and 78-91,
\* BulkImport.tsx:23-41).
THEOREM RowsAsWritten == Spec => []RowsAreThoseWritten
  <1>1. Init => RowsInv
    BY DEF Init, RowsInv
  <1> QED
    BY <1>1, NextRows, RowsAreOfTable, PagesInvariance, PTL DEF Spec
=============================================================================
