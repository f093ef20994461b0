\* Two LivePortrait workers start together while the upstream rolls.
SPECIFICATION Spec
CONSTANTS
    Workers = {"a", "b"}
    Files <- OneFile
    FromHub = {"appearance"}
    Versions = {"v1", "v2"}
    FirstServed = {"v1"}
    FirstOnDisk = {"absent"}
    Deployments <- TwoWorkersOneVolume
    MaxStarts = 1
    MaxRolls = 1
    MaxFaults = 0
INVARIANT OnlyPinnedWeights
