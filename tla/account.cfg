SPECIFICATION FairSpec
CONSTANTS
    Pages = 3
    MaxPages = 2
    MaxAccountPages = 2
    ConfigAccount = 2
    Framings <- AnyFraming
    Faults <- FaultKinds
    MaxFaults = 2
    Garbage = Garbage
INVARIANTS
    TypeOK
    RequestCarriesToken
    DataOfChosenAccount
    ReissuesBounded
    BootSurvivesOneFault
PROPERTIES
    IntactInquiriesPublishAll
    Recovers
