CONSTANTS
    Categories <- Menu
    Lists <- MenuLists
    InitialLinks <- AnyCinema
    Saves = {s1, s2}
    Readers = {r1, r2}
    Faults = {"get", "set", "bump", "readback"}
    None = None
SPECIFICATION ExpiringSpec
CHECK_DEADLOCK FALSE
INVARIANTS
    TypeOK
    AnsweredSavesAreSeen
    ShownAsSavedUnlessOverlooked
    PagesTile
PROPERTIES
    FreshInTheEnd
