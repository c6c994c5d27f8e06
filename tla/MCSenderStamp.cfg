\* Two sessions that add, check and use one domain with one address.
CONSTANTS
    Sessions = {1, 2}
    Senders = {"x"}
    MaxDomainRows = 2
    MaxTasks = 4
    SaysStates = {"verified", "failed"}
    SpfAnswers = {"authorized", "lookup_failed", "missing"}
    DmarcAnswers = {"enforcing"}
SPECIFICATION SenderSpec
INVARIANT StampFollowsDomain
CHECK_DEADLOCK FALSE
