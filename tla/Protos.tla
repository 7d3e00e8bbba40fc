------------------------------- MODULE Protos -------------------------------
(***************************************************************************)
(* The tables compiled into the API, as gen/go/sample/v1 has them: the     *)
(* types that each file declares and refers to, its imports, and the       *)
(* services with the methods that connect serves for them.                 *)
(***************************************************************************)
EXTENDS Naturals, Sequences, SequencesExt

(* The Go types that a file refers to, its own ones first; a dependency is *)
(* an index into them, from 0: types of fields, then inputs of methods,    *)
(* then outputs.                                                           *)
partner_goTypes ==
    << "Tier", "Status", "BillingStatus", "Partner", "Activity",
       "ListPartnersRequest", "ListPartnersResponse",
       "GetPartnerRequest", "GetPartnerResponse",
       "CreatePartnerRequest", "CreatePartnerResponse",
       "UpdatePartnerStatusRequest", "UpdatePartnerStatusResponse",
       "PartnerInput", "RowError",
       "BulkImportPartnersRequest", "BulkImportPartnersResponse",
       "SubmitOnboardingRequest", "SubmitOnboardingResponse" >>

partner_depIdxs ==
    [fields  |-> <<0, 1, 2, 3, 3, 4, 0, 3, 1, 3, 0, 13, 14>>,
     inputs  |-> <<5, 7, 9, 11, 15, 17>>,
     outputs |-> <<6, 8, 10, 12, 16, 18>>]

agentquery_goTypes ==
    <<"AgentQueryServiceListPartnersRequest", "AgentQueryServiceListPartnersResponse", "Partner">>

agentquery_depIdxs == [fields |-> <<2>>, inputs |-> <<0>>, outputs |-> <<1>>]

sample_goTypes == <<"GetSessionRequest", "GetSessionResponse", "User", "Database">>

sample_depIdxs == [fields |-> <<2, 3>>, inputs |-> <<0>>, outputs |-> <<1>>]

\* What Build is given for each file: the first `own' types are declared by it.
Builders ==
    [partner    |-> [types |-> partner_goTypes,    deps |-> partner_depIdxs,    own |-> 19],
     agentquery |-> [types |-> agentquery_goTypes, deps |-> agentquery_depIdxs, own |-> 2],
     sample     |-> [types |-> sample_goTypes,     deps |-> sample_depIdxs,     own |-> 4]]

Declared(f) == {Builders[f].types[i] : i \in 1 .. Builders[f].own}
Needed(f)   == {Builders[f].types[i + 1] :
                  i \in ToSet(Builders[f].deps.fields \o Builders[f].deps.inputs
                                                     \o Builders[f].deps.outputs)}

Files == DOMAIN Builders

\* A file that refers to a type of another file imports that file.
Imports == [f \in Files |-> SetToSeq({g \in Files \ {f} : Needed(f) \cap Declared(g) # {}})]

-----------------------------------------------------------------------------
(* Services.  A procedure is a service and a method.                       *)

\* The procedures that the handler of a service switches on.
NewSampleServiceHandler     == {"GetSession"}
NewPartnerServiceHandler    == {"ListPartners", "GetPartner", "CreatePartner",
                                "UpdatePartnerStatus", "BulkImportPartners"}
NewOnboardingServiceHandler == {"SubmitOnboarding"}
NewAgentQueryServiceHandler == {"ListPartners"}

Handled == [SampleService     |-> NewSampleServiceHandler,
            PartnerService    |-> NewPartnerServiceHandler,
            OnboardingService |-> NewOnboardingServiceHandler,
            AgentQueryService |-> NewAgentQueryServiceHandler]

Services   == DOMAIN Handled
Procedures == UNION {{s} \X Handled[s] : s \in Services}

FileServices == [sample     |-> {"SampleService"},
                 partner    |-> {"PartnerService", "OnboardingService"},
                 agentquery |-> {"AgentQueryService"}]

=============================================================================
