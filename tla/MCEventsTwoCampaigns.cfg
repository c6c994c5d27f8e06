\* Late and early notifications; another campaign waits to mail the same address.
CONSTANTS
    j1 = j1
    j2 = j2
    c1 = c1
    c2 = c2
    a1 = a1
    n1 = n1
    n2 = n2
    Jobs = {j1, j2}
    Campaigns = {c1, c2}
    Addresses = {a1}
    CampaignOf <- MCCampaigns
    AddressOf <- MCAddresses
    MaxAttempts = 1
    Policy = "hold"
    Notices = {n1}
    Kinds = {"send", "complaint"}
SPECIFICATION FairEventsSpec
PROPERTIES
    DoubtIsResolved
CHECK_DEADLOCK FALSE
