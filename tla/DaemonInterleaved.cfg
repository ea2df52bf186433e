\* Commands, requests and signals come at any time.
CONSTANTS
    Nil = Nil
    Session = {j1, j2, j3}
    ServerIp = {ip1}
    ControlPlaneIp = cp
    MaxForward = 3
    Impatient = TRUE
    Crashes = TRUE
SPECIFICATION Spec
SYMMETRY Symmetry
CHECK_DEADLOCK FALSE
INVARIANT DisconnectHasConn
