SPECIFICATION ApiSpec
CONSTANTS
    Locations = {1, 2}
    Numbers = {n1, n2}
    Registries = {r1, r2}
    Fields = {f1, f2}
    None = None
    Limit = 1
    Milli = 2
    Second = 2
    Age = 3
    Skew = 1
    FeedTime = 5
    MaxWrites = 3
    ApiScope <- Scopes
    Client = {c1}
    Token = {1, 2, 3}
    Overlap = 2
    MaxTime = 4
    Ttl = 2
    MaxVersion = 3
    Absent = Absent
    MaxHeld = 1
    MaxSnapshots = 1
SYMMETRY Symmetry
INVARIANTS OverlapEnds SnapshotPagesShareGrants
PROPERTY ReplicaIsRoster
CHECK_DEADLOCK FALSE
