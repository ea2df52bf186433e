\* One set-up at a time: keys change, servers take over, the process dies.
CONSTANTS
    Nil = Nil
    Target = {t1}
    Device = {d1, d2}
    ConnectSession = {c1, c2, c3}
    ServeSession = {s1, s2}
    NetworkIp = 1
    PrefixSize = 4
    MaxKey = 2
    MaxInFlight = 1
    FaultyDb = FALSE
    Crashes = TRUE
    InitTargets = {}
SPECIFICATION Spec
SYMMETRY Symmetry
CHECK_DEADLOCK FALSE
INVARIANTS RecordedClientIp TunnelUsable ServerAgrees
