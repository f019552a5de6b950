SPECIFICATION FairSpec
CONSTANTS
    e1 = e1  e2 = e2  e3 = e3
    A = A  B = B
    Events = {e1, e3}
    Wire = {e3}
    NoEvent = NoEvent
    Tickers = {A}
    TickerOf <- MCTickerOf
    Lot = 2
    Levels <- MCLevels
    MaxDrawdown = 15
    Ledgers <- MCOneRow
    FaultSets <- MCBrokerFaults
    MaxCycles = 2
    MaxClock = 0
    MaxMishaps = 2
    Shifts = {0}
INVARIANTS EventOnce
PROPERTIES DrawdownStops OneTradeInHand TradeEnds NewsTaken
