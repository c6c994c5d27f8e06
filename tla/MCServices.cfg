\* The contact book, a sending domain, the budget, claims under the cooldown, the
\* templates, the intake of events, and the rules of messages and decisions.
CONSTANTS
    ContactIds = {1, 2, 3, 4}
    Emails = {"a", "b", "c", "d"}
    StartBook <- MCBook
    Lists = {"l"}
    Stamps = {1, 2}
    PageSize = 1
    MaxCalls = 2
    Sessions = {1, 2}
    Senders = {"x"}
    MaxDomainRows = 2
    MaxTasks = 3
    SaysStates = {"verified", "failed"}
    SpfAnswers = {"authorized", "lookup_failed", "missing"}
    DmarcAnswers = {"enforcing"}
    Ticks = {t1, t2}
    Rates = {2, 3}
    Requests = {1, 3}
    DailyCap = 5
    MinutesPerDay = 10
    LastMinute = 1
    MaxCrashes = 1
    Jobs = {j1, j2}
    CampaignOf <- MCCampaignOf
    AddressOf <- MCAddressOf
    ModeOf <- MCModeOf
    Callers = {k1, k2}
    Nobody = Nobody
    Cooldown = 1
    LastMoment = 1
    MaxHtmlDepth = 2
    Campaigns = {c1, c2}
    Contents = {"k", "l"}
    MaxTemplates = 2
    MaxVersion = 3
    MaxWordBytes = 5
    Missing = Missing
    Odd = Odd
    Notices = {n1, n2}
    Handlers = {r1, r2}
    MaxAge = 0
    MaxSkew = 0
    CacheEntries = 1
    CacheTtl = 1
    CertLife = 1
    RetryWindow = 1
    MaxInstant = 3
    Null = Null
    MinLead = 1
    FarFuture = 4
    MaxAhead = 8
INIT MCInit
NEXT MCNext
SYMMETRY MCServed
INVARIANTS
    AudienceAddsUp
    PagesShowEveryRow
    ReadyIsProved
    NothingIsForgotten
    DayKeepsCap
    ClaimsKeepTheirDistance
    VersionNamesContent
    AnswersAreTrue
    BodiesReadBack
    MessagesAsApproved
    DecisionsHold
\* The inputs never move, and every part is bounded.
CHECK_DEADLOCK FALSE
