\* Dashboard and kitchen screens on one counter order: two of each, so that every
\* pair of writers races.
SPECIFICATION Spec
CONSTANTS
    None = None
    Payments = {}
    StatusRequests = {s1, s2}
    PaymentRequests = {u1, u2}
    KitchenRequests = {k1, k2}
    InitRequests = {}
    VerifyRequests = {}
    Copies = 0
    MaxFaults = 0
CHECK_DEADLOCK FALSE
SYMMETRY Interchangeable
INVARIANTS
    PaidOrdersAreWork
    AuditTrailsReplay
    KitchenWorksForMoney
