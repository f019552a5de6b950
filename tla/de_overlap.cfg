\* run_once and background_check at the same time.
SPECIFICATION Spec
CONSTANTS
    t1 = t1
    t2 = t2
    Tickers = {t1}
    SignalSets <- EntryOrExit
    LegCounts = {2}
    MaxPositions = 1
    MaxNew = 2
    MaxRuns = 2
    MaxExecs = 2
    MaxLegs = 100
    FaultSets <- OverlapFaults
INVARIANTS
    RunOnce
