CONSTANTS
    Admin = {a1, a2}
    Session = {s1, s2}
    MaxRequests = 2
    MaxCalls = 2
    Validity = 1
    NoAdmin = NoAdmin
SPECIFICATION Spec
CHECK_DEADLOCK FALSE
INVARIANTS OneRequestPerAdmin InTimeIsAccepted UsedOnce KeptForItsAnswer
PROPERTIES RowsGo
