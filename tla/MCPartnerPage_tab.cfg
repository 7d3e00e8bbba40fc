SPECIFICATION FairSpec
CONSTANTS
    p1 = p1  p2 = p2
    Partners <- TwoPartners
    None = None
    Statuses = {1, 2}
    MaxRequests = 4
    MaxEdits = 1
INVARIANTS TypeOK BusyMeansChanging SettledPageIsCurrent FailuresAreSaid
PROPERTIES ShownOnlyAdvances BusyEnds

