CONSTANTS
    Client = {c1, c2}
    Name = {m, n}
    Addr = {a1, a2}
    Size = {1, 2}
    StartId = {1, 3}
    MaxLong = 4
    MaxGen = 2
SYMMETRY Symmetry
SPECIFICATION Spec
INVARIANTS
    DisjointIds
    NoOverflow
    RegistryConsistent
CHECK_DEADLOCK FALSE
