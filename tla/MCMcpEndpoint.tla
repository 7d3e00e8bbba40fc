---------------------------- MODULE MCMcpEndpoint ----------------------------
(* Model checking of McpEndpoint: the compiled import graph, and           *)
(* graphs of four files that share imports.                                *)
EXTENDS McpEndpoint

P == INSTANCE Protos

CONSTANTS a, b, c

ThreeRequests == {a, b, c}

FourFiles == P!Files \cup {"common"}

Compiled == [f \in FourFiles |-> IF f = "common" THEN <<>> ELSE P!Imports[f]]

\* Files share imports, and the walks meet them in different orders.
SharedImports ==
    {[common |-> <<>>, sample |-> <<"common">>, partner |-> p, agentquery |-> q] :
        p \in {<<"common", "sample">>, <<"sample", "common">>},
        q \in {<<"sample", "partner">>, <<"partner", "common">>, <<"common", "partner", "sample">>}}

FourGraphs == {Compiled} \cup SharedImports
=============================================================================
