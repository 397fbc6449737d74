SPECIFICATION FairSpec
CONSTANTS
    MaxCode = 1
    MaxValue = 1
    Trades = {t1}
    Subscribers = {s1}
    MaxUnread = 1
    MaxReports = 1
    MaxFaults = 0
PROPERTIES
    SoldStocksLeave
