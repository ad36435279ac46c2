\* One order, two loads and two transitions outstanding, one disturbance.
SPECIFICATION PollingSpec
CONSTANTS
    None = None
    Orders = {o1}
    Loads = {l1, l2}
    Moves = {m1, m2}
    Filters = {"all", "ready"}
    MaxCalls = 3
    MaxTrouble = 1
CHECK_DEADLOCK FALSE
INVARIANTS
    TypeOK
    NewestLoadAsksTheCurrentQuery
    LockedMeansUnderWay
    OneTransitionPerOrder
PROPERTIES
    LoadsNeverGoBack
    BoardConverges
