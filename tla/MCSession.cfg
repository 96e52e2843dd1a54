SPECIFICATION Spec
CONSTANTS
    Users = {ann}
    Tabs = {t1, t2}
    MaxSessions = 2
    MaxTokens = 2
    MaxBusy = 2
    None = None
INVARIANTS
    SessionTypeOK
    OneActivePerFamily
PROPERTIES
    RequestsSettle
CHECK_DEADLOCK FALSE
