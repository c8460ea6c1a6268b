SPECIFICATION Spec
CONSTANTS
    Worker = {w1}
    Event = {e1, e2, e3}
    AttemptId = {a1, a2}
    l1 = l1
    o1 = o1
    c1 = c1
    Link = {l1}
    OrderId = {o1}
    ChargeId = {c1}
    NoLink = NoLink
    Raises = Raises
    NoId = NoId
    NoAttempt = NoAttempt
    NoWorker = NoWorker
    NoEvent = NoEvent
    Payload <- SerialPayload
SYMMETRY Symmetry
INVARIANTS OneAttemptPerOrder
PROPERTIES PaidNeverRegresses
