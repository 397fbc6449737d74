SPECIFICATION Spec
CONSTANTS
    Pages = 2
    MaxPages = 3
    MaxAccountPages = 2
    ConfigAccount = 2
    Framings <- OnWire
    Faults <- NoFaults
    MaxFaults = 0
    Garbage = Garbage
INVARIANTS
    EverythingIsRead
