SPECIFICATION Spec
CONSTANTS
    r1 = r1  r2 = r2  r3 = r3
    p1 = p1  p2 = p2  p3 = p3  p4 = p4  p5 = p5
    Calls <- ThreeCalls
    PartnerIds = {p1, p2, p3, p4}
    Seeded = {p1}
    Ops <- WriterOps
    IdArgs = {p1, p2, p3, p4, BlankId, BadId}
    StatusArgs = {0, 1, 9}
    Inputs <- WriterInputs
    MaxRows = 0
    BlankId = BlankId
    BadId = BadId
    NoRow = NoRow
    Seed = Seed
SYMMETRY Symmetry
INVARIANTS TypeOK AnswersMatchEffects OnlyReviewLeavesPending NewestEntryNamesStatus
PROPERTIES ShownStatusIsExplained ImplementsLedger
