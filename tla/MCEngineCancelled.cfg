\* A campaign cancelled under a running tick.
CONSTANTS
    j1 = j1
    j2 = j2
    c1 = c1
    a1 = a1
    a2 = a2
    t1 = t1
    t2 = t2
    none = none
    Jobs = {j1}
    Campaigns = {c1}
    Addresses = {a1}
    CampaignOf <- MCOneCampaign
    AddressOf <- MCOwnAddresses
    MaxAttempts = 2
    Policy = "hold"
    Ticks = {t1}
    NoCampaign = none
    Overrun = FALSE
    MaxCrashes = 0
    MaxDecisions = 1
SPECIFICATION EngineSpec
INVARIANTS
    CancelledHasNothingPending
CHECK_DEADLOCK FALSE
