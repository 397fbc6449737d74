SPECIFICATION ReconnectingSpec
CONSTANTS
    Conns = {c1, c2}
    Backlog = 2
    MaxLines <- OneHolding
    Platforms = {TRUE, FALSE}
INVARIANTS
    TypeOK
    SocketsAreOwned
    StoppedServerIsDeaf
    AtMostOneLateClient
PROPERTIES
    ImplementsService
    StopReturns
    QueuedAreServed
    ClientsEnd
    DeadClientsEnd
CHECK_DEADLOCK FALSE
