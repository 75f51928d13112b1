SPECIFICATION RequestsSpec
CONSTANTS
    Ids = {r1, r2}
    Stewards = {s1}
    Values = {v1, v2}
    None = None
    MaxCalls = 4
    MaxVersion = 2
    Tabs = {t1, t2}
    Locations = {l1, l2}
    People = {p1}
    Names = {n1, n2}
    Schedules = {h1, h2}
    Templates = {u1}
    Fields = {f1}
    Choices = {c1, c2}
    Done = Done
    Kept = Kept
    MaxEdits = 2
    MaxSaves <- ThreeAndTwo
    MaxFailures = 1
INVARIANTS ToldTruth OneSavedPerIntent NoLostEdit
PROPERTIES DecisionsStand NothingUnasked MetadataKept FormsSaveWhatWasShown
SYMMETRY Symmetric
