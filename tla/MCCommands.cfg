SPECIFICATION Spec
CONSTANTS
    Plain = {}
    LostWipe = {lost}
    Disenroll = {back}
    Compliance = {rules}
    MaxAttempts = 2
    Ttl = 1
    Grace = 0
    MaxClock = 1
    MaxEdits = 2
    MaxLate = 1
INVARIANTS TypeOK ErasedOnce ForgottenWasAcked CompliantIsSpared
PROPERTIES FinishedIsFinal
CHECK_DEADLOCK FALSE
