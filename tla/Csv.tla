--------------------------------- MODULE Csv ---------------------------------
(***************************************************************************)
(* CSV files as the web client writes and reads them                       *)
(* (web/src/lib/csv.ts).  A text, and a cell of a table, is a sequence of  *)
(* tokens: the characters that the code tells apart, the words of a        *)
(* header (whatever their case), and other characters.                     *)
(***************************************************************************)
EXTENDS Naturals, Sequences, SequencesExt, FiniteSetsExt

Quote == "\""
Comma == ","
CR    == "\r"
LF    == "\n"
Space == " "

\* String.trim
Trim(cell) ==
    LET kept == {i \in DOMAIN cell : cell[i] \notin {Space, CR, LF}}
    IN  IF kept = {} THEN <<>> ELSE SubSeq(cell, Min(kept), Max(kept))

Join(texts, separator) ==
    FlattenSeq([i \in DOMAIN texts |-> IF i = 1 THEN texts[i] ELSE separator \o texts[i]])

-----------------------------------------------------------------------------
(* Writing.                                                                *)

writeCell(cell) ==
    IF ToSet(cell) \cap {Quote, Comma, CR, LF} = {} THEN cell
    ELSE <<Quote>> \o FlattenSeq([i \in DOMAIN cell |->
                          IF cell[i] = Quote THEN <<Quote, Quote>> ELSE <<cell[i]>>])
                   \o <<Quote>>

writeRow(row) == Join([i \in DOMAIN row |-> writeCell(row[i])], <<Comma>>)

rowsToCsv(rows) == Join([i \in DOMAIN rows |-> writeRow(rows[i])], <<LF>>)

-----------------------------------------------------------------------------
(* Reading.  The parser's variables after a part of the text; `skip': the  *)
(* next character was consumed together with the one before it.            *)

Start == [rows |-> <<>>, row |-> <<>>, field |-> <<>>, inQuotes |-> FALSE, skip |-> FALSE]

add(p, c)   == [p EXCEPT !.field = Append(p.field, c)]
endField(p) == [p EXCEPT !.row = Append(p.row, p.field), !.field = <<>>]
endRow(p)   == [endField(p) EXCEPT !.rows = Append(p.rows, endField(p).row), !.row = <<>>]

\* Fault: two quotes are not told from the end of the quoted part.
inQuoted_NoEscape(p, c, following) ==
    IF c = Quote THEN [p EXCEPT !.inQuotes = FALSE] ELSE add(p, c)

\* A character in a quoted part: two quotes stand for one.
inQuoted(p, c, following) ==
    IF c # Quote THEN add(p, c)
    ELSE IF following = Quote THEN [add(p, c) EXCEPT !.skip = TRUE]
    ELSE [p EXCEPT !.inQuotes = FALSE]

unquoted(p, c) ==
    CASE c = Quote -> [p EXCEPT !.inQuotes = TRUE]
      [] c = Comma -> endField(p)
      [] c = CR    -> p
      [] c = LF    -> endRow(p)
      [] OTHER     -> add(p, c)

Blank(row) == Len(row) = 1 /\ Trim(row[1]) = <<>>

NonBlank(rows) ==
    FlattenSeq([i \in DOMAIN rows |-> IF Blank(rows[i]) THEN <<>> ELSE <<rows[i]>>])

next(input, i) == IF i < Len(input) THEN input[i + 1] ELSE "end"

step(input, p, i) ==
    IF p.skip THEN [p EXCEPT !.skip = FALSE]
    ELSE IF p.inQuotes THEN inQuoted(p, input[i], next(input, i))
    ELSE unquoted(p, input[i])

\* The parser's variables after the first i characters.
Parsing(input) ==
    LET after[i \in 0 .. Len(input)] == IF i = 0 THEN Start ELSE step(input, after[i - 1], i)
    IN  after

\* A last row without a line end counts if it holds anything.
AllRows(p) == IF p.field # <<>> \/ p.row # <<>> THEN endRow(p).rows ELSE p.rows

parseCsv(input) == NonBlank(AllRows(Parsing(input)[Len(input)]))

-----------------------------------------------------------------------------
(* Rows of partners; region and tier are treated as company is.            *)

HEADER_ALIASES ==
    [name         |-> {<<"name">>},
     contactEmail |-> {<<"contact_email">>, <<"contactemail">>, <<"email">>},
     company      |-> {<<"company">>}]

Keys == DOMAIN HEADER_ALIASES

\* The first column whose header names the key; 0 if there is none.
index(header, key) ==
    LET columns == {i \in DOMAIN header : Trim(header[i]) \in HEADER_ALIASES[key]}
    IN  IF columns = {} THEN 0 ELSE Min(columns)

\* A row may be shorter than the header.
cell(cols, i) == IF i \in DOMAIN cols THEN Trim(cols[i]) ELSE <<>>

HeaderOk(table) ==
    /\ table # <<>>
    /\ index(table[1], "name") # 0
    /\ index(table[1], "contactEmail") # 0

PartnerRows(table) ==
    [n \in 1 .. (Len(table) - 1) |->
        [key \in Keys |-> cell(table[n + 1], index(table[1], key))]]

csvToPartnerRows(input) ==
    LET parsed == parseCsv(input)
    IN  IF HeaderOk(parsed) THEN [ok |-> TRUE, rows |-> PartnerRows(parsed)]
                            ELSE [ok |-> FALSE, rows |-> <<>>]
=============================================================================
