SPECIFICATION OperatingSpec
CONSTANTS
    Requests = {r1, r2, r3, r4}
    Tabs = {t1, t2}
    Ops = {o1, o2}
    None = None
    DayLength = 2
    MaxTime = 3
    MaxVersion = 3
    MaxFailures = 1
    Day = 4
    Week = 2
    Zones <- ExploredZones
    Locations <- ExploredRecords
    StateTime = 11
    MaxUpdates = 2
SYMMETRY Symmetric
CHECK_DEADLOCK FALSE
INVARIANTS
    OneAlertPerEvent
    ClosuresFollowEvents
    ClosedOnlyTheDayConfirmed
    ToldTruth
    UnresolvedNeverForgotten
    ShownStateHolds
