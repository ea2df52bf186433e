\* One command at a time; the process is stopped, killed and started again.
CONSTANTS
    Nil = Nil
    Session = {j1, j2, j3, j4}
    ServerIp = {ip1, ip2}
    ControlPlaneIp = cp
    MaxForward = 3
    Impatient = FALSE
    Crashes = TRUE
SPECIFICATION Spec
SYMMETRY Symmetry
CHECK_DEADLOCK FALSE
INVARIANTS ConnectedIsRouted ServingForwards DisconnectedIsClean FatalOnlyOnLeftovers StoppedIsClean OneServerRouted
