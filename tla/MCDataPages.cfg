SPECIFICATION Spec
CONSTANTS
    Pages <- MCPages
    Filters = {1, 2}
    Changes = {1, 2}
    MaxPages = 2
    MaxPending = 2
    MaxFailures = 1
CHECK_DEADLOCK FALSE
INVARIANTS
    ShownMatchesQuery
    SpinnerHasRequest
    OwnChangeIsShown
PROPERTY
    WatchSettles
