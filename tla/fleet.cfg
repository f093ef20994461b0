\* A worker of the API process, alone or beside a remote one, or a remote one
\* started twice.
SPECIFICATION FairSpec
CONSTANTS
    musetalk = musetalk
    liveportrait = liveportrait
    w1 = w1
    w2 = w2
    Workers = {w1, w2}
    Local = {w1}
    Engines = {musetalk, liveportrait}
    Tiers = {"express"}
    Route <- Registry
    SlotsAccepted = TRUE
    SlowRedis = FALSE
    Budgets <- FleetBudgets
INVARIANTS
    TypeOK
    InFlightHonest
PROPERTIES
    CountLostToOldTest
    HeartbeatStopsFirst
    RemoteWorkerVisible
    DegradedNotRouted
