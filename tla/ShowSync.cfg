\* The first integration of every pass never works.
CONSTANTS
    c1 = c1
    c2 = c2
    h1 = h1
    Cinemas = {c1, c2}
    Integrations <- DeadOneFirst
    Unusable = {c1}
    Shows = {h1, h2}
    Passes = {p1, p2}
    LastDay = 1
    StartDays = {0, 3}
    FirstSchedule <- BothToday
    FirstSessions <- EmptyOrLoaded
    MaxChanges = 2
    None = None
SPECIFICATION ServedSpec
CHECK_DEADLOCK FALSE
INVARIANTS
    TypeOK
PROPERTIES
    ClosesOnlyWhatThePosDropped
    ScheduleIsMirrored
