\* A stop-loss, then the sync of the same tick.
SPECIFICATION Spec
CONSTANTS
    qqq = qqq
    spy = spy
    NoEtf = NoEtf
    Torn = Torn
    Etfs = {qqq, spy}
    Lot = 3
    MaxHeld = 3
    Open = 12
    Day = 14
    OpenSkip = 2
    NoEntry = 4
    EodClose = 1
    MinHold = 1
    ForcedCooldown = 2
    StopCooldown = 4
    MaxStops = 2
    FaultSets <- OrdinaryFaults
PROPERTIES
    StopLossCooldown
