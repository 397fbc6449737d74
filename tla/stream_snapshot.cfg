SPECIFICATION FairSpec
CONSTANTS
    MaxCode = 2
    MaxValue = 1
    Trades = {t1}
    Subscribers = {s1}
    MaxUnread = 1
    MaxReports = 0
    MaxFaults = 0
PROPERTIES
    SnapshotsAreWhole
