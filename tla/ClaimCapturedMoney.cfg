\* Staff write the payment off and reopen it around the webhook.
SPECIFICATION FairSpec
CONSTANTS
    None = None
    Payments = {p1}
    StatusRequests = {}
    PaymentRequests = {u1, u2}
    KitchenRequests = {}
    InitRequests = {i1}
    VerifyRequests = {}
    Copies = 2
    MaxFaults = 0
CHECK_DEADLOCK FALSE
PROPERTY CapturedMoneyIsSettled
