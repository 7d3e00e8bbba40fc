SPECIFICATION FairSpec
CONSTANTS
    r1 = r1  r2 = r2  r3 = r3
    p1 = p1  p2 = p2  p3 = p3  p4 = p4  p5 = p5
    Calls <- TwoCalls
    PartnerIds = {p1, p2, p3, p4, p5}
    Seeded = {p1}
    Ops <- ListOps
    IdArgs = {p1, p2}
    StatusArgs = {2}
    Inputs <- ListInputs
    MaxRows = 2
    BlankId = BlankId
    BadId = BadId
    NoRow = NoRow
    Seed = Seed
INVARIANTS AckedWritesAreRead SummaryDriftIsBounded BulkAccountsForEveryRow
PROPERTIES EveryCallAnswered
