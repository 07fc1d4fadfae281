SPECIFICATION Spec
CONSTANTS
    Session = {s1, s2}
    MaxEdits = 2
INVARIANTS VersionNamesPayload
