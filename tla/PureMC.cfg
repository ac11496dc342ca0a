CONSTANTS
    None = None
    MaxLen = 7
    NameChars <- NameAlphabet
    HostChars <- HostAlphabet
    MaxName = 3
    MaxHost = 1
    PortSet <- DialPorts
SPECIFICATION PureSpec
INVARIANT TypeOK
INVARIANT AllocIsLowestFree
INVARIANT HandshakeRoundTrip
