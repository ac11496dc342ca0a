CONSTANTS
    None = None
    a = a  d1 = d1  r1 = r1  r2 = r2  l1 = l1  x1 = x1
    RemoteHost = RemoteHost
    Names = {a}
    LocalDials = {d1}
    RemoteDials = {}
    Listens = {l1}
    Accepts = {}
    Ports <- PortsNeg
    DialPorts <- PortsNeg
    MaxSock = 4
    EngineFailure = FALSE
SPECIFICATION Spec
INVARIANT OccupiedSlotsWellFormed
CHECK_DEADLOCK FALSE
