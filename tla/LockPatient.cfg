SPECIFICATION PatientSpec
CONSTANTS
    c1 = c1
    c2 = c2
    c3 = c3
    a = a
    b = b
    Client = {c1, c2}
    Resource = {a, b}
    None = None
    Mode = {"exclusive"}
    OneAtATime = TRUE
    MaxRequests = 4
PROPERTIES
    WaitersAreServed
    GrantsLeases
CHECK_DEADLOCK FALSE
