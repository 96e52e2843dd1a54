SPECIFICATION Spec
CONSTANTS
    Users = {ann}
    Tabs = {t1, t2}
    MaxSessions = 2
    MaxTokens = 3
    MaxBusy = 2
    None = None
PROPERTIES
    RotationEvictsNobody
CHECK_DEADLOCK FALSE
