\* A customer walks away during a submission.
SPECIFICATION Spec
CONSTANTS
    None = None
    Requests = {r1, r2}
    Browsers = {b1}
    Baskets = {k1}
    ForAShow = {k1}
    Coupons = {}
    Limit = 1
    MaxVisits = 1
CHECK_DEADLOCK FALSE
INVARIANT PaymentPageIsTheCustomersOwn
