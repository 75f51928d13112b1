SPECIFICATION Spec
CONSTANTS
    x = x
    y = y
    v = v
    w = w
    i = i
    c = c
    adds = adds
    updates = updates
    shares = shares
    Existing = {x, y}
    Created = {c}
    Forms <- SomeForms
    Starts <- SomeStarts
    Editor = {e}
    Numbers <- SomeNumbers
    Values = {v, w}
    Inboxes = {i}
    Csv <- AFile
    Modes = {"add-and-update"}
    Clear = Clear
    None = None
    Ttl = 1
    MaxTime = 1
    MaxPreviews = 3
    MaxCalls = 1
    MaxEdits = 0
INVARIANT NewIdsStable
CHECK_DEADLOCK FALSE
