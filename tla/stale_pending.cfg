\* A worker finishes the job before the submit handler's upsert.
SPECIFICATION Spec
CONSTANTS
    j1 = j1
    NoJob = NoJob
    Jobs = {j1}
    Kind <- TextJobs
    Requests = {r1}
    Workers = {w1}
    ClientReferences = FALSE
    LongRenders = FALSE
    ReclaimCount = 1
    StreamMaxLen = 2
    MaxCrashes = 0
    MaxErrors = 0
    MaxEvictions = 0
INVARIANTS
    ClosedJobReadsTerminal
