----------------------------- MODULE EntryPages -----------------------------
(***************************************************************************)
(* The pages of the web client that add partners: the form of an           *)
(* administrator (web/src/routes/AddPartner.tsx), the public form          *)
(* (PublicOnboarding.tsx) and the import of a CSV file (BulkImport.tsx),   *)
(* in one browser tab.  What is sent is an entry: the form as it was       *)
(* mounted, or a file as it was chosen.  A call may be lost on its way,    *)
(* or its answer may be lost after the API has stored the entry.           *)
(***************************************************************************)
EXTENDS Csv, FiniteSets

CONSTANTS
    MaxEntries,  \* bound: the forms that are mounted and the files that are chosen
    MaxCalls,    \* bound: the calls that are sent
    FilesFor,    \* FilesFor[e]: the files that the e-th entry may be
    NoFile       \* the entry is a form

\* A row of a table has a cell: a blank line is a row with an empty one.
ASSUME EntryAssumption ==
    /\ MaxEntries \in Nat /\ MaxCalls \in Nat
    /\ FilesFor \in [1 .. MaxEntries -> SUBSET [table : Seq(Seq(Seq(STRING)) \ {<<>>}), crlf : BOOLEAN]]

Forms   == {"add", "onboarding"}
Pages   == Forms \cup {"import", "elsewhere"}
Entries == 1 .. MaxEntries

VARIABLES
    page,       \* the page mounted
    entry,      \* the form mounted, or the file chosen last and named; 0 for none
    submitting, \* state of the page: its button is disabled
    error,      \* state of the page: an error is shown
    done,       \* state of the page: the form is replaced by a message
    parseError, \* state of the page: the entry whose file is refused
    rows,       \* state of the page: the entry whose rows can be imported
    result,     \* state of the page: the entry whose report is shown
    input,      \* the entry of the file that the file input holds; 0 for none
    reading,    \* the entries whose files are being read for this page
    file,       \* file[e]: the file of entry e
    used,       \* the number of entries so far
    calls,      \* the calls sent, in order
    copies,     \* copies[e]: how often the API has stored entry e
    overtaken,  \* history: the entries that were being read or imported when
                \* another file was chosen
    unreadable  \* history: the entries whose files could not be read

state   == <<submitting, error, done, parseError, rows, result>>
backend == <<calls, copies>>
history == <<overtaken, unreadable>>
vars    == <<page, entry, state, input, reading, file, used, backend, history>>

Call == [page : Forms \cup {"import"}, entry : Entries, mounted : BOOLEAN,
         stage : {"sent", "stored", "ok", "failed"}]

Init ==
    /\ page = "elsewhere" /\ entry = 0
    /\ submitting = FALSE /\ error = FALSE /\ done = FALSE /\ parseError = 0
    /\ rows = 0 /\ result = 0
    /\ input = 0 /\ reading = {}
    /\ file = [e \in Entries |-> NoFile]
    /\ used = 0
    /\ calls = <<>>
    /\ copies = [e \in Entries |-> 0]
    /\ overtaken = {} /\ unreadable = {}

Text(f) ==
    IF f.crlf THEN Join([i \in DOMAIN f.table |-> writeRow(f.table[i])], <<CR, LF>>) \o <<CR, LF>>
              ELSE rowsToCsv(f.table)

Parsed(e) == csvToPartnerRows(Text(file[e]))

UnderWay(n) == calls[n].stage \in {"sent", "stored"}

\* The calls whose continuation still finds its page.
Importing == {calls[n].entry : n \in {m \in DOMAIN calls : UnderWay(m) /\ calls[m].mounted}}

-----------------------------------------------------------------------------
(* Pages are mounted with their initial state; what is under way for the   *)
(* page that was left no longer finds it.                                  *)

Mount(p) ==
    /\ page' = p
    /\ submitting' = FALSE /\ error' = FALSE /\ done' = FALSE /\ parseError' = 0
    /\ rows' = 0 /\ result' = 0
    /\ input' = 0 /\ reading' = {}

Detached == [n \in DOMAIN calls |-> [calls[n] EXCEPT !.mounted = FALSE]]

Open(p) ==
    /\ p # page
    /\ Mount(p)
    /\ IF p \in Forms THEN used < MaxEntries /\ entry' = used + 1 /\ used' = used + 1
                      ELSE entry' = 0 /\ UNCHANGED used
    /\ calls' = Detached
    /\ UNCHANGED <<file, copies, history>>

Send(e) ==
    /\ Len(calls) < MaxCalls
    /\ calls' = Append(calls, [page |-> page, entry |-> e, mounted |-> TRUE, stage |-> "sent"])

-----------------------------------------------------------------------------
(* onSubmit of the forms.                                                  *)

FormOpen == page \in Forms /\ ~submitting /\ ~done

SubmitInvalid ==
    /\ FormOpen
    /\ error' = TRUE
    /\ UNCHANGED <<page, entry, submitting, done, parseError, rows, result, input, reading, file, used,
                   backend, history>>

Submit ==
    /\ FormOpen
    /\ error' = FALSE /\ submitting' = TRUE
    /\ Send(entry)
    /\ UNCHANGED <<page, entry, done, parseError, rows, result, input, reading, file, used, copies, history>>

-----------------------------------------------------------------------------
(* onFile and onImport of the import page.                                 *)

\* Fault: the rows of the last file stay until the new ones are read.
ChooseFile_KeepsRows(f) ==
    /\ page = "import" /\ used < MaxEntries
    /\ f \in FilesFor[used + 1]
    /\ used' = used + 1 /\ entry' = used + 1 /\ input' = used + 1
    /\ file' = [file EXCEPT ![used + 1] = f]
    /\ result' = 0 /\ error' = FALSE /\ parseError' = 0
    /\ reading' = reading \cup {used + 1}
    /\ overtaken' = overtaken \cup reading \cup Importing
    /\ UNCHANGED <<page, submitting, done, rows, backend, unreadable>>

\* Everything is cleared, the file is named, and its text is awaited.  The
\* file input is enabled also while an import is under way.
ChooseFile(f) ==
    /\ page = "import" /\ used < MaxEntries
    /\ f \in FilesFor[used + 1]
    /\ used' = used + 1 /\ entry' = used + 1 /\ input' = used + 1
    /\ file' = [file EXCEPT ![used + 1] = f]
    /\ result' = 0 /\ error' = FALSE /\ parseError' = 0 /\ rows' = 0
    /\ reading' = reading \cup {used + 1}
    /\ overtaken' = overtaken \cup reading \cup Importing
    /\ UNCHANGED <<page, submitting, done, backend, unreadable>>

\* The choice is cancelled and the input emptied: everything is cleared as well,
\* but the name of the last file stays.
ChooseNone ==
    /\ page = "import" /\ input # 0
    /\ input' = 0
    /\ result' = 0 /\ error' = FALSE /\ parseError' = 0 /\ rows' = 0
    /\ UNCHANGED <<page, entry, submitting, done, reading, file, used, backend, history>>

\* file.text() resolves; the files of two choices are read in any order.
FileRead(e) ==
    /\ e \in reading
    /\ reading' = reading \ {e}
    /\ IF Parsed(e).rows # <<>> THEN rows' = e /\ UNCHANGED parseError
                                ELSE parseError' = e /\ UNCHANGED rows
    /\ UNCHANGED <<page, entry, submitting, error, done, result, input, file, used, backend, history>>

\* file.text() is rejected, outside of any try: the name stays and nothing comes.
FileReadFails(e) ==
    /\ e \in reading
    /\ reading' = reading \ {e}
    /\ unreadable' = unreadable \cup {e}
    /\ UNCHANGED <<page, entry, state, input, file, used, backend, overtaken>>

\* Fault: the click is not refused while there are no rows.
Import_Unguarded ==
    /\ page = "import" /\ ~submitting
    /\ submitting' = TRUE /\ error' = FALSE
    /\ Send(rows)
    /\ UNCHANGED <<page, entry, done, parseError, rows, result, input, reading, file, used, copies, history>>

Import ==
    /\ page = "import" /\ rows # 0 /\ ~submitting
    /\ submitting' = TRUE /\ error' = FALSE
    /\ Send(rows)
    /\ UNCHANGED <<page, entry, done, parseError, rows, result, input, reading, file, used, copies, history>>

-----------------------------------------------------------------------------
(* The API and the network.                                                *)

Moved(n, stage) == [calls EXCEPT ![n] = [calls[n] EXCEPT !.stage = stage]]

Store(n) ==
    /\ calls[n].stage = "sent"
    /\ copies' = [copies EXCEPT ![calls[n].entry] = @ + 1]
    /\ calls' = Moved(n, "stored")
    /\ UNCHANGED <<page, entry, state, input, reading, file, used, history>>

\* The answer of a form: the public one shows a message, the administrator's
\* leads to the new partner, also when another page has been mounted since.
FormDone(n) ==
    /\ calls[n].stage = "stored" /\ calls[n].page \in Forms
    /\ IF calls[n].page = "add"
       THEN Mount("elsewhere") /\ entry' = 0
            /\ calls' = [Detached EXCEPT ![n] = [calls[n] EXCEPT !.stage = "ok", !.mounted = FALSE]]
       ELSE /\ done' = (done \/ calls[n].mounted)
            /\ calls' = Moved(n, "ok")
            /\ UNCHANGED <<page, entry, submitting, error, parseError, rows, result, input, reading>>
    /\ UNCHANGED <<file, used, copies, history>>

\* Fault: the rows that were imported stay on the page.
ImportDone_KeepsRows(n) ==
    /\ calls[n].stage = "stored" /\ calls[n].page = "import"
    /\ calls' = Moved(n, "ok")
    /\ IF calls[n].mounted THEN result' = calls[n].entry /\ submitting' = FALSE
                           ELSE UNCHANGED <<result, submitting>>
    /\ UNCHANGED <<page, entry, rows, error, done, parseError, input, reading, file, used, copies, history>>

\* The report is shown and the rows, whichever are shown by now, are removed.
ImportDone(n) ==
    /\ calls[n].stage = "stored" /\ calls[n].page = "import"
    /\ calls' = Moved(n, "ok")
    /\ IF calls[n].mounted THEN result' = calls[n].entry /\ rows' = 0 /\ submitting' = FALSE
                           ELSE UNCHANGED <<result, rows, submitting>>
    /\ UNCHANGED <<page, entry, error, done, parseError, input, reading, file, used, copies, history>>

\* Fault: the rows are removed also when the import failed.
CallFails_RemovesRows(n) ==
    /\ UnderWay(n)
    /\ calls' = Moved(n, "failed")
    /\ IF calls[n].mounted THEN error' = TRUE /\ submitting' = FALSE /\ rows' = 0
                           ELSE UNCHANGED <<error, submitting, rows>>
    /\ UNCHANGED <<page, entry, done, parseError, result, input, reading, file, used, copies, history>>

\* Fault: the button stays disabled after an error.
CallFails_StaysDisabled(n) ==
    /\ UnderWay(n)
    /\ calls' = Moved(n, "failed")
    /\ IF calls[n].mounted THEN error' = TRUE ELSE UNCHANGED error
    /\ UNCHANGED <<page, entry, submitting, done, parseError, rows, result, input, reading, file, used,
                   copies, history>>

\* The call, or its answer, is lost, or the API refuses it.
CallFails(n) ==
    /\ UnderWay(n)
    /\ calls' = Moved(n, "failed")
    /\ IF calls[n].mounted THEN error' = TRUE /\ submitting' = FALSE
                           ELSE UNCHANGED <<error, submitting>>
    /\ UNCHANGED <<page, entry, done, parseError, rows, result, input, reading, file, used, copies, history>>

Ends(n) == FormDone(n) \/ ImportDone(n) \/ CallFails(n)

Next ==
    \/ \E p \in Pages : Open(p)
    \/ SubmitInvalid \/ Submit
    \/ \E e \in Entries : (\E f \in FilesFor[e] : e = used + 1 /\ ChooseFile(f))
                         \/ FileRead(e) \/ FileReadFails(e)
    \/ ChooseNone
    \/ Import
    \/ \E n \in DOMAIN calls : Store(n) \/ Ends(n)

Spec == Init /\ [][Next]_vars

\* Every call ends, if only with a timeout of the browser.
FairSpec == Spec /\ \A n \in 1 .. MaxCalls : WF_vars(n \in DOMAIN calls /\ Ends(n))

-----------------------------------------------------------------------------
\* Every variable has the type its comment gives.
TypeOK ==
    /\ page \in Pages /\ entry \in 0 .. MaxEntries
    /\ {submitting, error, done} \subseteq BOOLEAN
    /\ {rows, result, parseError, input} \subseteq 0 .. MaxEntries
    /\ reading \subseteq Entries /\ overtaken \subseteq Entries /\ unreadable \subseteq Entries
    /\ \A e \in Entries : file[e] \in FilesFor[e] \cup {NoFile}
    /\ used \in 0 .. MaxEntries
    /\ calls \in Seq(Call) /\ Len(calls) <= MaxCalls
    /\ copies \in [Entries -> 0 .. MaxCalls]

Failed(e) == {n \in DOMAIN calls : calls[n].entry = e /\ calls[n].stage = "failed"}

\* An entry is stored twice only by a retry after a failure that stored it
\* (AddPartner.tsx:35-50, PublicOnboarding.tsx:31-45, BulkImport.tsx:43-64): no
\* page sends again what was answered, nor what is still under way.
CopiesComeFromRetries ==
    \A e \in Entries : copies[e] <= 1 + Cardinality(Failed(e))

\* The entries of which the import page shows rows, a report or a refusal.
Shown == {rows, result, parseError} \ {0}

\* Rows, a report or a refusal stand under the name of another file only if their
\* file was still being read or imported when the other one was chosen
\* (BulkImport.tsx:23-41).
NameFitsUnlessOvertaken == \A e \in Shown : e = entry \/ e \in overtaken

\* Once the chosen file is read, the page shows its rows, its report or its
\* refusal, also while an import is under way and after one that failed, so that
\* it can be repeated (BulkImport.tsx:23-64).  Two things only take its place: the
\* file could not be read, or what the page shows is of a file that was overtaken.
ReadFileShowsOutcome ==
    page = "import" /\ input # 0 /\ input \notin reading
        => \/ input \in Shown
           \/ input \in unreadable
           \/ Shown \cap overtaken # {}

\* The rows ready to import are those of the file's table, whatever quotes,
\* commas and line ends its cells hold and however its lines end: reading a
\* file undoes writing it, up to blank lines (csv.ts:7-68 and 78-91).
RowsAreThoseWritten ==
    rows # 0 => /\ HeaderOk(NonBlank(file[rows].table))
                /\ Parsed(rows).rows = PartnerRows(NonBlank(file[rows].table))

\* A button that a submission disabled is enabled again, or its page is gone.
SubmittingEnds == submitting ~> (~submitting \/ done)
=============================================================================
