\* Two workers of different engines and process ids, three jobs, two faults.
SPECIFICATION Spec
CONSTANTS
    Workers = {"a", "b"}
    Pid <- Different
    Engine <- Mixed
    JobKinds = {"compile", "known", "unknown"}
    MaxJobs = 3
    MaxFaults = 2
CHECK_DEADLOCK FALSE
INVARIANTS
    TypeOK
    PackWhole
    ReportsTrue
