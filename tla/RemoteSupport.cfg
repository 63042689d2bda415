SPECIFICATION Spec
CONSTANTS
    s1 = s1
    s2 = s2
    r1 = r1
    r2 = r2
    None = None
    Sessions <- OneSession
    Requests <- TwoRequests
    ConsentWindow = 1
    LaunchTimeout = 1
    MaxDuration = 1
    MaxLaunches = 2
    Traffic <- AllTraffic
    Answers <- PolledAnswers
INVARIANTS ConsentBeforeSupport ActiveIsTimed
PROPERTIES RevivedOnlyByOverlap SecondLaunchNeedsOverlap HungUpWhenFinished
SYMMETRY Symmetry
