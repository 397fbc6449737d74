SPECIFICATION Spec
CONSTANTS
    Requests = {r1}
    Visitors = {v1, v2, v3}
    MaxDay = 2
    MaxCounted = 4
INVARIANTS
    TotalIsSum
