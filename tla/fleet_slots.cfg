\* AppState as it is declared.
SPECIFICATION FairSpec
CONSTANTS
    musetalk = musetalk
    liveportrait = liveportrait
    w1 = w1
    w2 = w2
    Workers = {w1, w2}
    Local = {w1}
    Engines = {musetalk}
    Tiers = {"express"}
    Route <- OneEngine
    SlotsAccepted = FALSE
    SlowRedis = FALSE
    Budgets <- QuietBudget
PROPERTIES
    RemoteWorkerVisible
