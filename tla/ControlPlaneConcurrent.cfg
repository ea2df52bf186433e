\* Handlers interleave freely: two devices, three client sessions, one server.
CONSTANTS
    Nil = Nil
    Target = {t1}
    Device = {d1, d2}
    ConnectSession = {c1, c2, c3}
    ServeSession = {s1}
    NetworkIp = 1
    PrefixSize = 4
    MaxKey = 1
    MaxInFlight = 4
    FaultyDb = TRUE
    Crashes = TRUE
    InitTargets = {t1}
SPECIFICATION Spec
SYMMETRY Symmetry
CHECK_DEADLOCK FALSE
INVARIANTS TypeOK OneConnectionPerDevice ServerConnKept AddressInv
PROPERTY LeaseSpec
