\* Fair handlers and one worker, which may be killed twice while a job hash is
\* evicted; pages of one entry, and XTRIM may cut off what is pending.
SPECIFICATION FairSpec
CONSTANTS
    j1 = j1
    NoJob = NoJob
    Jobs = {j1, j2}
    Kind <- RenderJobs
    Requests = {r1, r2}
    Workers = {w1}
    ClientReferences = FALSE
    LongRenders = FALSE
    ReclaimCount = 1
    StreamMaxLen = 1
    MaxCrashes = 2
    MaxErrors = 0
    MaxEvictions = 1
PROPERTIES
    EveryEntryClosed
    OrphansReclaimed
