CONSTANTS
    Orders = {o1, o2}
    Attempts = {a1, a2, a3}
    Calls = {c1, c2}
    Customers <- AnyCustomer
    None = None
SPECIFICATION AnsweringSpec
CHECK_DEADLOCK FALSE
INVARIANTS
    TypeOK
    PayIsSafeUnlessErased
    MoneyIsRememberedUnlessErased
    ConfirmationMeansPaid
PROPERTIES
    ScreenMovesOn
