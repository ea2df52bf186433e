\* Two devices connect for the first time at the same moment.
CONSTANTS
    Nil = Nil
    Target = {t1}
    Device = {d1, d2}
    ConnectSession = {c1, c2}
    ServeSession = {s1}
    NetworkIp = 1
    PrefixSize = 4
    MaxKey = 1
    MaxInFlight = 2
    FaultyDb = FALSE
    Crashes = FALSE
    InitTargets = {t1}
SPECIFICATION Spec
CHECK_DEADLOCK FALSE
INVARIANT DistinctClientIps
