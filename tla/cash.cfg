SPECIFICATION FairSpec
CONSTANTS
    Stocks = {"a", "b", "c", "d"}
    RunSets <- MCRunSets
    Accounts <- MCAccounts
    Threshold = 10000
    MinPosition = 8000
    MinInvest = 100
    MinComposite = 56
    MaxPositions = 3
    MaxNew = 1
    MaxRuns = 3
    FaultSets <- MCFaultSets
INVARIANTS TypeOK NoOverdraft LiquidationFits
PROPERTIES CapKept BestSelected CashInvested
