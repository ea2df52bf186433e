\* Both platforms; connections to two servers, overlapping and in turn.
SPECIFICATION Spec
CONSTANTS
    Nil = Nil
    Platform = {"darwin", "windows"}
    Session = {j1, j2}
    ServerIp = {ip1, ip2}
    ControlPlaneIp = cp
    Crashes = TRUE
INVARIANTS TypeOK ConnectedIsTunnelled DisconnectedIsClean FatalOnlyOnLeftovers OneServerRouted StoppedIsClean
PROPERTY ShutdownEnds
