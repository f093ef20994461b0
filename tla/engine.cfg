\* One worker of either adapter: any directory, an upstream that rolls, two faults.
SPECIFICATION FairSpec
CONSTANTS
    Workers = {"a"}
    Files <- TwoFiles
    FromHub = {"motion"}
    Versions = {"v1", "v2"}
    FirstServed = {"v1", "v2"}
    FirstOnDisk = {"v1", "v2", "cut", "absent"}
    Deployments <- AnyDeployment
    MaxStarts = 2
    MaxRolls = 1
    MaxFaults = 2
CHECK_DEADLOCK FALSE
INVARIANTS
    TypeOK
    OnlyPinnedWeights
    ServesVerifiedFiles
PROPERTIES
    GoodFileKept
    LoadEnds
    BadCacheHeals
