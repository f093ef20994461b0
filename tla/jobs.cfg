\* Two workers and two requests on uuid job ids; a worker crash and a Redis
\* exception anywhere; XTRIM may keep one entry only.
SPECIFICATION Spec
CONSTANTS
    j1 = j1
    NoJob = NoJob
    Jobs = {j1, j2}
    Kind <- MixedJobs
    Requests = {r1, r2}
    Workers = {w1, w2}
    ClientReferences = FALSE
    LongRenders = FALSE
    ReclaimCount = 1
    StreamMaxLen = 1
    MaxCrashes = 1
    MaxErrors = 1
    MaxEvictions = 0
INVARIANTS
    TypeOK
    CompletedHasResult
    NothingLeftBehind
    DeliveredOnce
    SingleWorkerPerJob
    OwnMarker
    JudgedBeforeClosed
PROPERTIES
    FinishedNotReopened
    ImplementsLedger
SYMMETRY ProcessSymmetry
