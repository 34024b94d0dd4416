CONSTANTS
    Peers = {"a", "b", "c", "d"}
    PerMinute = 2
    Minute = 3
    MaxBuckets = 2
    MaxTime = 7
SPECIFICATION LimiterSpec
PROPERTY LimitedStayLimited
