SPECIFICATION FairSpec
CONSTANTS
    MaxCode = 1
    MaxValue = 2
    Trades = {t1, t2}
    Subscribers = {s1, s2}
    MaxUnread = 0
    MaxReports = 2
    MaxFaults = 2
INVARIANTS
    TypeOK
PROPERTIES
    ImplementsFeed
    CachesCatchUp
    BrowsersCatchUp
    TradesArrive
