SPECIFICATION Spec
CONSTANTS
    Endpoint = {"connect", "serve"}
    HeartbeatInterval = 1
    CheckInterval = 2
    StaleTimeout = 6
    MaxDelay = 2
INVARIANTS
    GivesUpInTime
    NoFalseAlarm
PROPERTIES
    SilenceNoticed
    Acknowledged
