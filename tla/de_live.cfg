\* Liveness, with a broker that fails now and then.
SPECIFICATION LiveSpec
CONSTANTS
    t1 = t1
    t2 = t2
    Tickers = {t1}
    SignalSets <- MixedOrHold
    LegCounts = {2}
    MaxPositions = 1
    MaxNew = 2
    MaxRuns = 2
    MaxExecs = 3
    MaxLegs = 100
    FaultSets <- LiveFaults
PROPERTIES
    PendingResolved
    RunPickedUp
