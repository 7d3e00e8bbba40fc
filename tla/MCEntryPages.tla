---------------------------- MODULE MCEntryPages ----------------------------
(* Model checking of EntryPages.  The last entry may be any of many files,  *)
(* so that the parser meets many pairs of cells; those before it of few.   *)
EXTENDS EntryPages

Cells == {<<>>, <<"x">>, <<Space>>, <<Comma>>, <<Quote>>, <<LF>>, <<CR, LF>>, <<Quote, Quote>>,
          <<Quote, Comma, "x">>, <<"x", Space, LF, "y">>}

Header == <<<<"name">>, <<"email">>>>

\* Each cell beside a quote under one header; other headers, ragged rows, blank lines.
Tables ==
    {<<Header, <<c, <<Quote>>>>>> : c \in Cells}
    \cup {<<<<<<"contact_email">>, <<Space, "name">>, <<"status">>>>, <<c>>, <<<<Quote, LF>>, c, <<>>>>>> :
             c \in {<<>>, <<"x">>, <<CR, LF>>, <<Quote, Quote>>}}
    \cup {<<<<<<"company">>, <<"name">>, <<"email">>, <<"name">>>>, <<<<>>>>, <<<<"x">>>>>>,
          <<>>, <<<<<<>>>>>>}

Plain   == [table |-> <<<<<<"name">>, <<"email">>>>, <<<<"x">>, <<"y">>>>>>, crlf |-> FALSE]
Refused == [table |-> <<<<<<"name">>>>>>, crlf |-> FALSE]

FewThenMany ==
    [e \in Entries |-> CASE e = MaxEntries -> [table : Tables, crlf : BOOLEAN]
                         [] e = 1 -> {Plain}
                         [] OTHER -> {Plain, Refused}]
=============================================================================
