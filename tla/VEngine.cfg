CONSTANTS
    None = None
    a = a  d1 = d1  r1 = r1  r2 = r2  l1 = l1  x1 = x1
    RemoteHost = RemoteHost
    Names = {a}
    LocalDials = {d1}
    RemoteDials = {}
    Listens = {l1}
    Accepts = {x1}
    Ports <- PortsNat
    DialPorts <- PortsNat
    MaxSock = 4
    EngineFailure = TRUE
SPECIFICATION Spec
INVARIANT ConnEndsMatch
INVARIANT DownErrorNamesCause
PROPERTY ListenerCloseReleasesWaiters
PROPERTY ConnRefines
CHECK_DEADLOCK FALSE
