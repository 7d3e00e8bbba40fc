SPECIFICATION FairDeployment
CONSTANTS
    Pods = {d1, d2}
    SeedCount <- ThreeSeeds
    Noted <- SomeNoted
    BackoffLimit = 1
    SetupPods = {s1, s2}
    SetupLimit = 3
    MaxFaults = 1
INVARIANTS DeploymentTypeOK RacesCostLittle OneAttemptSeeds PodLeavesAPrefix
PROPERTIES JobEnds
