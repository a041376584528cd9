SPECIFICATION Spec
CONSTANTS
    MaxStarts = 3
    MaxSessions = 3
    MaxLosses = 2
    MaxChanges = 3
INVARIANTS
    MicrophoneSafety
    RoomTellsTruth
PROPERTIES
    VoiceSettles
CHECK_DEADLOCK FALSE
