\* One device connecting twice and one server, under fairness; no symmetry.
CONSTANTS
    Nil = Nil
    Target = {t1}
    Device = {d1}
    ConnectSession = {c1, c2}
    ServeSession = {s1}
    NetworkIp = 1
    PrefixSize = 4
    MaxKey = 1
    MaxInFlight = 3
    FaultyDb = FALSE
    Crashes = TRUE
    InitTargets = {t1}
SPECIFICATION FairSpec
CHECK_DEADLOCK FALSE
PROPERTY SetupEnds
