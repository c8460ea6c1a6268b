SPECIFICATION Spec
CONSTANTS
    Request = {r1, r2}
    Key = {k1}
    Payload = {p1, p2}
    NoLink = NoLink
    NoValue = NoValue
    MaxCrashes = 0
SYMMETRY Symmetry
INVARIANTS UrlIsSent
CHECK_DEADLOCK FALSE
