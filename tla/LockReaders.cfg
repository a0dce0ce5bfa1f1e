SPECIFICATION Spec
CONSTANTS
    c1 = c1
    c2 = c2
    c3 = c3
    a = a
    b = b
    Client = {c1, c2, c3}
    Resource = {a}
    None = None
    Mode = {"shared", "exclusive"}
    OneAtATime = FALSE
    MaxRequests = 4
SYMMETRY Clients
INVARIANT
    WriterIsAlone
CHECK_DEADLOCK FALSE
