---------------------------- MODULE MCWebSession ----------------------------
(* Instances of WebSession for TLC. *)
EXTENDS WebSession

\* Issuers and subjects with spaces around them, or of spaces only.
MCTexts == {"iss1", "iss1 ", "iss2", "s", " ", ""}

MCTrimSpace == [x \in MCTexts |-> CASE x = "iss1 " -> "iss1"
                                     [] x = " "     -> ""
                                     [] OTHER       -> x]

\* One person at two issuers, one of which is spelled in two ways, and a person of
\* whom the subject is blank.
MCIdentities == {<<"iss1", "s">>, <<"iss1 ", "s">>, <<"iss2", "s">>, <<"iss1", " ">>}

\* A procedure of each service beside GetSession, and one that does not exist.
MCPaths == {<<"PartnerService", "CreatePartner">>, <<"OnboardingService", "SubmitOnboarding">>,
            <<"AgentQueryService", "ListPartners">>, <<"PartnerService", "Unknown">>}
=============================================================================
