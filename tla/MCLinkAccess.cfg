SPECIFICATION Spec
CONSTANTS
    Visit = {v1}
    Unlocker = {u1}
    Visibility = {"PUBLIC", "PASSWORD"}
    Editor = {e1, e2}
    Password = {p1, p2}
    NoPassword = NoPassword
    NoSnapshot = NoSnapshot
    MaxVersion = 3
SYMMETRY Symmetry
INVARIANTS
    PasswordWasProved
    StaysShut
PROPERTIES LimitedFollowsPolicy
