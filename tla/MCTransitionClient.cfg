SPECIFICATION FairSpec
CONSTANTS
    Tabs = {t1, t2}
    Ops = {o1}
    None = None
    MaxFailures = 1
INVARIANTS UnresolvedNeverForgotten
PROPERTIES MarkersResolve
CHECK_DEADLOCK FALSE
