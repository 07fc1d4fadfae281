SPECIFICATION Spec
CONSTANTS
    Device = {d1}
    Policy = {p1}
    Profile = {}
    Growing = {}
    Reserved = breach
    Host = {none}
    NoHost = none
    Build = {b1, b2}
    FirstBuild = b1
    MaxClock = 1
    MaxEdits = 2
    MaxLate = 1
INVARIANTS UnchangedMeansIdentical
