SPECIFICATION FairSpec
CONSTANTS
    Jars = {j1}
    Identities <- MCIdentities
    Texts <- MCTexts
    TrimSpace <- MCTrimSpace
    Empty = ""
    UserIds = {u1, u2}
    Calls = {c1, c2}
    Paths <- MCPaths
    TTL = 1
    MaxTime = 1
    None = None
INVARIANTS
    WebTypeOK
    ProtectedRunsForUsers
    PublicNeedsNoToken
    AgentsOnlyQuery
    OneUserPerIdentity
PROPERTIES
    LogoutIsFinal
    CheckingEnds
