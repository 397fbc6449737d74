SPECIFICATION FairSpec
CONSTANTS
    Conns = {c1}
    Backlog = 1
    MaxLines <- OneHolding
    Platforms = {FALSE}
PROPERTIES
    StopReturns
CHECK_DEADLOCK FALSE
