\* One ETF, a short session, three sets of faults up to all at once.
SPECIFICATION LiveSpec
CONSTANTS
    qqq = qqq
    spy = spy
    NoEtf = NoEtf
    Torn = Torn
    Etfs = {qqq}
    Lot = 3
    MaxHeld = 3
    Open = 12
    Day = 14
    OpenSkip = 2
    NoEntry = 4
    EodClose = 1
    MinHold = 1
    ForcedCooldown = 2
    StopCooldown = 4
    MaxStops = 2
    FaultSets <- AllFaults
INVARIANTS
    TypeOK
    NoOvernight
    Recorded
PROPERTIES
    CooldownKept
    NoRebuy
    LiquidationNoticed
