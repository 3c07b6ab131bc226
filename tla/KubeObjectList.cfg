SPECIFICATION Spec
CONSTANTS
    NumObjs = 3
    Limit = 2
    MaxVersion = 3
    MaxFetches = 2
    MaxCloses = 1
    Undef = Undef
INVARIANTS
    TypeOK
    ListIsASnapshot
PROPERTIES
    EventsGoForward
CHECK_DEADLOCK FALSE
