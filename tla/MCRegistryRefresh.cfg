SPECIFICATION Spec
CONSTANTS
    Locations = {l}
    Regions = {r}
    Writes = {w1, w2}
    None = None
    MaxVersion = 1
    MaxRefreshes = 1
    MaxFailures = 1
INVARIANTS
    ReadsKeepConfirmedSaves
