SPECIFICATION Spec
CONSTANTS
    x = x
    y = y
    v = v
    w = w
    i = i
    c = c
    adds = adds
    updates = updates
    shares = shares
    Existing = {x, y}
    Created = {c}
    Forms <- SomeForms
    Starts <- SomeStarts
    Editor = {e}
    Numbers <- SomeNumbers
    Values = {v, w}
    Inboxes = {i}
    Csv <- TwoFiles
    Modes = {"add-and-update"}
    Clear = Clear
    None = None
    Ttl = 1
    MaxTime = 1
    MaxPreviews = 1
    MaxCalls = 2
    MaxEdits = 0
INVARIANT NotSavedTruth
CHECK_DEADLOCK FALSE
