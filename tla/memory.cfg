\* Two workers and three requests in one process, on uuid job ids.
SPECIFICATION FairSpec
CONSTANTS
    NoJob = NoJob
    Jobs = {j1, j2}
    Requests = {r1, r2, r3}
    Workers = {w1, w2}
    Backends = {"memory", "null"}
    ClientReferences = FALSE
INVARIANTS
    TypeOK
PROPERTIES
    CancelSticks
    KeepsLedger
    EveryJobSettled
