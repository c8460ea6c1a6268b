SPECIFICATION RunningSpec
CONSTANTS
    Worker = {w1, w2}
    Event = {e1, e2}
    AttemptId = {a1, a2}
    l1 = l1
    o1 = o1
    c1 = c1
    Link = {l1}
    OrderId = {o1}
    ChargeId = {c1}
    NoLink = NoLink
    Raises = Raises
    NoId = NoId
    NoAttempt = NoAttempt
    NoWorker = NoWorker
    NoEvent = NoEvent
    Payload <- PaymentPayload
INVARIANTS NothingIsForgotten
PROPERTIES EveryEventSettles PaidIsNotified
CHECK_DEADLOCK FALSE
