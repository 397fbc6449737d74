SPECIFICATION FairSpec
CONSTANTS
    Threads = {t1, t2}
    NoThread = NoThread
    Levels = {"INFO", "ERROR"}
    Ansi = TRUE
    Depth = 2
    MaxMessages = 2
    MaxSessions = 2
    MaxTime = 1
INVARIANTS
    TypeOK
    LinesInColour
    LinesInOrder
    ConsoleAndFilesAgree
PROPERTIES
    MutexReturns
CHECK_DEADLOCK FALSE
