SPECIFICATION Spec
CONSTANTS
    Tabs <- MCTabs
    Pages <- MCPages
    MaxToken = 5
    MaxFaults = 1
INVARIANTS
    TypeOK
    SessionLossHasCause
PROPERTIES
    StaysSignedOut
    RequestsSettle
CHECK_DEADLOCK TRUE
