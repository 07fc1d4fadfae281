SPECIFICATION Spec
CONSTANTS
    Session = {s1, s2}
    MaxEdits = 1
PROPERTIES ConfirmedIsEarned
