---------------------------- MODULE MCPartnerApi ----------------------------
(* Model checking of PartnerApi: values for its constants and the           *)
(* symmetries of its safety runs.                                           *)
EXTENDS PartnerApi, TLC

CONSTANTS r1, r2, r3, p1, p2, p3, p4, p5

ThreeCalls == {r1, r2, r3}
TwoCalls   == {r1, r2}

\* One good input, and one of each way to be refused.
GoodInput == [name |-> "given", email |-> "good", tier |-> 0]
InputOf(name, email, tier) == [name |-> name, email |-> email, tier |-> tier]

WriterOps    == {"CreatePartner", "SubmitOnboarding", "UpdatePartnerStatus", "GetPartner"}
WriterInputs == {GoodInput, InputOf("given", "malformed", 9)}

ListOps    == {"ListPartners", "AgentListPartners", "GetPartner", "SubmitOnboarding", "UpdatePartnerStatus",
               "BulkImportPartners"}
ListInputs == {GoodInput, InputOf("blank", "good", 2)}

\* Calls are interchangeable, and so are the ids of rows that do not exist yet.
Symmetry == Permutations(ThreeCalls) \cup Permutations(PartnerIds \ Seeded)
=============================================================================
