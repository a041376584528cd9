SPECIFICATION Spec
CONSTANTS
    MaxRevision = 4
    MaxPubs = 2
    MaxSlots = 5
    MaxFaults = 1
    MaxLinks = 1
    MaxPauses = 1
INVARIANTS
    PublicationSafety
    CommittedPublicationSent
PROPERTIES
    SendingSurvivesPreparation
CHECK_DEADLOCK FALSE
