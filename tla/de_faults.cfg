\* Crashes in the middle of a save, saves that fail, a broker that fails.
SPECIFICATION Spec
CONSTANTS
    t1 = t1
    t2 = t2
    Tickers = {t1, t2}
    SignalSets <- BothEnter
    LegCounts = {1}
    MaxPositions = 2
    MaxNew = 2
    MaxRuns = 2
    MaxExecs = 1
    MaxLegs = 3
    FaultSets <- SaveFaults
SYMMETRY Symmetry
INVARIANTS
    NoForeignCancel
PROPERTIES
    StampNeverRegresses
