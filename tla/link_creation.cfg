SPECIFICATION Spec
CONSTANTS
    Request = {r1, r2, r3}
    Key = {k1, k2}
    Payload = {p1, p2}
    NoLink = NoLink
    NoValue = NoValue
    MaxCrashes = 1
SYMMETRY Symmetry
INVARIANTS OneCharge UrlIsForThisBody
PROPERTIES PaidIsKept ImplementsCreation
CHECK_DEADLOCK FALSE
