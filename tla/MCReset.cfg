SPECIFICATION Spec
CONSTANTS
    Plain = {}
    LostWipe = {lost}
    Disenroll = {back}
    Compliance = {rules}
    MaxAttempts = 2
    Ttl = 1
    Grace = 0
    MaxClock = 1
    MaxEdits = 3
    MaxLate = 1
INVARIANTS ResetIsForgotten
CHECK_DEADLOCK FALSE
