\* Two tickers, one job at a time; a broker that may fail at every call, or runs
\* published at any moment.
SPECIFICATION Spec
CONSTANTS
    t1 = t1
    t2 = t2
    Tickers = {t1, t2}
    SignalSets <- Mixed
    LegCounts = {0, 1}
    MaxPositions = 1
    MaxNew = 2
    MaxRuns = 2
    MaxExecs = 2
    MaxLegs = 100
    FaultSets <- MainFaults
SYMMETRY Symmetry
INVARIANTS
    TypeOK
    AtMostOnce
    ExposureBound
    EscalationsStop
    
PROPERTIES
    FreshLegsKept
