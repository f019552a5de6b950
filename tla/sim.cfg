\* Half hours as slots, a Thursday to a Monday, summer and winter time.
SPECIFICATION Spec
CONSTANTS
    Days = 5
    Weekend = {2, 3}
    Day = 18
    Opens = {1, 3}
    Session = 13
    Reset = 3
    Regimes <- MCRegimes
    Warmup = 2
    MinHold = 2
    EodClose = 1
    NoEntry = 3
    OpenSkip = 1
    LateEntry = 4
    Tighten = 2
    StopLoss = 2
    TightStop = 1
    Breakeven = 1
    MinProfit = 1
    MaxMove = 2
    Cooldown = 2
    MaxStops = 2
INVARIANTS TypeOK FlatOvernight RedDayLeft
PROPERTIES CooldownKept BreakerKept
CHECK_DEADLOCK FALSE
