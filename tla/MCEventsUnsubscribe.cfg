\* An unsubscribe of an address that a person had blocked.
CONSTANTS
    j1 = j1
    j2 = j2
    c1 = c1
    c2 = c2
    a1 = a1
    n1 = n1
    n2 = n2
    Jobs = {j1}
    Campaigns = {c1}
    Addresses = {a1}
    CampaignOf <- MCCampaigns
    AddressOf <- MCAddresses
    MaxAttempts = 1
    Policy = "hold"
    Notices = {n1}
    Kinds = {"send"}
SPECIFICATION EventsSpec
INVARIANTS
    UnsubscribeIsForGood
CHECK_DEADLOCK FALSE
