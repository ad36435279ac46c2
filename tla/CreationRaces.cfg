\* One kiosk, two submissions, two baskets, one coupon, two customers.
SPECIFICATION ServedSpec
CONSTANTS
    None = None
    Requests = {r1, r2}
    Browsers = {b1}
    Baskets = {k1, k2}
    ForAShow = {k1}
    Coupons = {c1}
    Limit = 1
    MaxVisits = 1
CHECK_DEADLOCK FALSE
INVARIANTS
    TypeOK
    OneOpenedOrderPerKey
    RetriesGetTheSameOrder
    AnswersAreTheCustomersOwn
PROPERTIES
    KeyInsertsEnd
