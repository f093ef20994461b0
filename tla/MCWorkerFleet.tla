---------------------------- MODULE MCWorkerFleet ----------------------------
(* Constant values for checking WorkerFleet with TLC.                       *)
EXTENDS WorkerFleetProps

CONSTANTS musetalk, liveportrait, w1, w2

\* Two of the tiers of registry/models.yaml (echomimic cannot be loaded).
Registry == [t \in Tiers |-> IF t = "express" THEN <<musetalk, liveportrait>>
                             ELSE <<liveportrait, musetalk>>]

\* Either a worker of the API process next to a remote one, or with a crash; or
\* one that is started again under its id after it raised or the API was
\* killed; or a remote worker that raises, is killed and is started again.
Both(a, b) == [w \in {w1, w2} |-> IF w = w1 THEN a ELSE b]
SideBySide == [starts |-> Both(1, 1), raises |-> 0, crashes |-> 0, errors |-> 0]
ErrorBeside == [starts |-> Both(1, 0), raises |-> 0, crashes |-> 1, errors |-> 1]
LocalAgain == [starts |-> Both(2, 0), raises |-> 1, crashes |-> 1, errors |-> 0]
StartedTwice == [starts |-> Both(0, 2), raises |-> 1, crashes |-> 1, errors |-> 0]
FleetBudgets == {SideBySide, ErrorBeside, LocalAgain, StartedTwice}
QuietBudget == {[starts |-> Both(0, 1), raises |-> 0, crashes |-> 0, errors |-> 0]}

OneEngine == [t \in Tiers |-> <<musetalk>>]
=============================================================================
