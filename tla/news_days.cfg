SPECIFICATION Spec
CONSTANTS
    e1 = e1  e2 = e2  e3 = e3
    A = A  B = B
    Events = {e1, e2, e3}
    Wire = {e3}
    NoEvent = NoEvent
    Tickers = {A, B}
    TickerOf <- MCTickerOf
    Lot = 2
    Levels <- MCLevels
    MaxDrawdown = 15
    Ledgers <- MCNoRows
    FaultSets <- MCDayFaults
    MaxCycles = 1
    MaxClock = 2
    MaxMishaps = 1
    Shifts = {0, 1}
INVARIANTS TypeOK CyclesPerDay LossBounded LedgerSettled
PROPERTIES BudgetStops
