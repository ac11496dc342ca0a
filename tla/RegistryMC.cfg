CONSTANTS
    None = None
    Net = Net
    OtherNet = OtherNet
    c1 = c1  c2 = c2  h1 = h1  h2 = h2
    Clients = {c1, c2}
    Names = {h1, h2}
    MaxConns = 5
    MaxOps = 2
SPECIFICATION Spec
INVARIANT TypeOK
INVARIANT ConnOwnership
PROPERTY NoConnLeak
CHECK_DEADLOCK FALSE
