CONSTANTS
    Client = {c1, c2, c3}
    Name = {m, n}
    Addr = {a1, a2}
    None = None
    MaxObj = 4
SYMMETRY Symmetry
SPECIFICATION Spec
INVARIANTS
    MapsAgree
    HandleReachesItsObject
CHECK_DEADLOCK FALSE
