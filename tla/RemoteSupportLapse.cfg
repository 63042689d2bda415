SPECIFICATION FairSpec
CONSTANTS
    s1 = s1
    s2 = s2
    r1 = r1
    r2 = r2
    None = None
    Sessions <- TwoSessions
    Requests <- OneRequest
    ConsentWindow = 1
    LaunchTimeout = 1
    MaxDuration = 1
    MaxLaunches = 1
    Traffic <- AllTraffic
    Answers <- ProviderAnswers
PROPERTY PendingIsResolved
