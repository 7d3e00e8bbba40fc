SPECIFICATION Spec
CONSTANTS
    Pods = {d1, d2}
    SeedCount <- ThreeSeeds
    Noted <- SomeNoted
    BackoffLimit = 3
INVARIANTS SeededOnce
