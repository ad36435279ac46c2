\* A customer's payment-init and payment-verify, two gateway attempts with every
\* event sent twice, and staff deciding the payment, with one fault.
SPECIFICATION FairSpec
CONSTANTS
    None = None
    Payments = {p1, p2}
    StatusRequests = {}
    PaymentRequests = {u1}
    KitchenRequests = {}
    InitRequests = {i1}
    VerifyRequests = {v1}
    Copies = 2
    MaxFaults = 1
CHECK_DEADLOCK FALSE
INVARIANTS
    TypeOK
    SettledAtMostOnce
    OnlyRealMoneySettles
    EventsTellTheTruth
    OneMessagePerPaidOrder
    PaidAnswersHaveMoney
    EveryAttemptFindsItsOrder
PROPERTIES
    LifecycleKeepsPromise
    CapturedMoneyIsSettled
