SPECIFICATION Spec
CONSTANTS
    Link = {l1, l2}
    Reference = {r1, r2}
    Event = {e1}
    NoLink = NoLink
    NoReference = NoReference
    NoPayload = NoPayload
    MaxRetries = 1
SYMMETRY Symmetry
INVARIANTS EveryEventSettles
CHECK_DEADLOCK FALSE
