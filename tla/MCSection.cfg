SPECIFICATION Spec
CONSTANTS
    Device = {d1, d2}
    Policy = {p1}
    Profile = {p1}
    Growing = {p1, breach}
    Reserved = breach
    Host = {none}
    NoHost = none
    Build = {b1}
    FirstBuild = b1
    MaxClock = 0
    MaxEdits = 2
    MaxLate = 0
INVARIANTS FreshMeansCurrent
