\* Overlapping ticks over one job: deaths are recovered from.
CONSTANTS
    j1 = j1
    j2 = j2
    c1 = c1
    a1 = a1
    a2 = a2
    t1 = t1
    t2 = t2
    none = none
    Jobs = {j1}
    Campaigns = {c1}
    Addresses = {a1}
    CampaignOf <- MCOneCampaign
    AddressOf <- MCOwnAddresses
    MaxAttempts = 2
    Policy = "redispatch"
    Ticks = {t1, t2}
    NoCampaign = none
    Overrun = FALSE
    MaxCrashes = 1
    MaxDecisions = 0
SPECIFICATION FairEngineSpec
PROPERTIES
    ClaimsAreSettled
    CampaignsConclude
CHECK_DEADLOCK FALSE
