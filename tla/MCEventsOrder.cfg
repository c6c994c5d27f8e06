\* Two notifications of any kind about the messages of one job, in any order.
CONSTANTS
    j1 = j1
    j2 = j2
    c1 = c1
    c2 = c2
    a1 = a1
    n1 = n1
    n2 = n2
    Jobs = {j1}
    Campaigns = {c1}
    Addresses = {a1}
    CampaignOf <- MCCampaigns
    AddressOf <- MCAddresses
    MaxAttempts = 2
    Policy = "redispatch"
    Notices = {n1, n2}
    Kinds = {"send", "delivery", "reject", "permanentBounce", "transientBounce", "complaint"}
SPECIFICATION EventsSpec
SYMMETRY MCNotices
INVARIANTS
    EventTalliesMatchJobs
    UncertainIsUnconfirmed
    ComplaintIsForGood
CHECK_DEADLOCK FALSE
