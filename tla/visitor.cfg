SPECIFICATION Spec
CONSTANTS
    Requests = {r1, r2}
    Visitors = {v1, v2, v3}
    MaxDay = 2
    MaxCounted = 4
SYMMETRY RequestVisitorSymmetry
INVARIANTS
    TypeOK
    NeverOvercounts
    RowsPerDayBounded
    ExactWithoutOverlap
