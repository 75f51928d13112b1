SPECIFICATION Spec
CONSTANTS
    Actors = {a1}
    Operations = {o1, o2}
    person = person
    store = store
    assign = assign
    vacate = vacate
    Intents <- MCIntents
    Docs <- MCDocs
    Values = {0, 1}
    Plan <- MCPlan
    TTL = 2
    Skew = 1
    NoReceipt = NoReceipt
    NoReview = NoReview
    MaxTime = 1
    MaxWrites = 1
    MaxReviews = 2
INVARIANTS AppliedExactlyOnce ReceiptsReadable CommittedReviewsDiffer
PROPERTIES RefinesOutcome
CHECK_DEADLOCK FALSE
SYMMETRY Symmetry
