SPECIFICATION Spec
CONSTANTS
    Pods = {d1}
    SeedCount <- ThreeSeeds
    Noted <- SomeNoted
    BackoffLimit = 3
INVARIANTS RetriesComplete
