\* One customer with two orders goes back from a checkout whose answer is slow.
SPECIFICATION Spec
CONSTANTS
    Orders = {o1, o2}
    Attempts = {a1, a2}
    Calls = {c1, c2}
    Customers <- AnyCustomer
    None = None
CHECK_DEADLOCK FALSE
INVARIANT PayIsOfferedOnlyWhenSafe
