SPECIFICATION AdmittedSpec
CONSTANTS
    first = s1
    second = s2
    Sessions = {s1, s2}
    Endpoints = {a, b}
    Inputs = {k}
    NoSession = NoSession
    MaxFaults = 1
    MaxChanges = 1
INVARIANTS
    InputSafety
PROPERTIES
    OrphansLift
CHECK_DEADLOCK FALSE
