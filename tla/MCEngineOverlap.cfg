\* Two ticks over one job, inside their windows; deaths and people interleave.
CONSTANTS
    j1 = j1
    j2 = j2
    c1 = c1
    a1 = a1
    a2 = a2
    t1 = t1
    t2 = t2
    none = none
    Jobs = {j1}
    Campaigns = {c1}
    Addresses = {a1}
    CampaignOf <- MCOneCampaign
    AddressOf <- MCOwnAddresses
    MaxAttempts = 2
    Policy = "redispatch"
    Ticks = {t1, t2}
    NoCampaign = none
    Overrun = FALSE
    MaxCrashes = 1
    MaxDecisions = 2
SPECIFICATION EngineSpec
INVARIANTS
    ClaimIsExclusive
    ClaimIsRecoverable
PROPERTIES
    TicksImplementTables
CHECK_DEADLOCK FALSE
