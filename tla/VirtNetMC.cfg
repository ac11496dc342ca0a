CONSTANTS
    None = None
    a = a  d1 = d1  r1 = r1  r2 = r2  l1 = l1  x1 = x1
    RemoteHost = RemoteHost
    Names = {a}
    LocalDials = {d1}
    RemoteDials = {r1}
    Listens = {l1}
    Accepts = {x1}
    Ports <- PortsNeg
    DialPorts <- DialPortsNeg
    MaxSock = 4
    EngineFailure = FALSE
SPECIFICATION Spec
VIEW SafetyView
INVARIANT SocketsExclusive
INVARIANT ConnEndsMatch
CHECK_DEADLOCK FALSE
