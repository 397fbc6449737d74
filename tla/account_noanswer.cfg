SPECIFICATION Spec
CONSTANTS
    Pages = 1
    MaxPages = 3
    MaxAccountPages = 2
    ConfigAccount = 2
    Framings <- OnWire
    Faults <- LostAnswers
    MaxFaults = 1
    Garbage = Garbage
PROPERTIES
    FailedInquiryKeepsData
