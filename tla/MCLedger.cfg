\* Two recipients of one campaign, two attempts each, policy redispatch.
CONSTANTS
    j1 = j1
    j2 = j2
    c1 = c1
    a1 = a1
    a2 = a2
    Jobs = {j1, j2}
    Campaigns = {c1}
    Addresses = {a1, a2}
    CampaignOf <- MCOneCampaign
    AddressOf <- MCTwoAddresses
    MaxAttempts = 2
    Policy = "redispatch"
SPECIFICATION Spec
INVARIANTS
    TypeOK
    AtMostOneSend
    RetryOnlyAfterRefusal
    MessageIdMeansSent
    TallyMatchesJobs
    FinishedIsSettled
PROPERTIES
    TransitionsAllowed
    SuppressedNeverClaimed
    ImplementsAtMostOnceSend
CHECK_DEADLOCK FALSE
