SPECIFICATION Spec
CONSTANTS
    rig1 = rig1
    rig2 = rig2
    k1 = k1
    k2 = k2
    Procs = {rig1, rig2}
    Imsi = {1, 2}
    Cred = {k1, k2}
    NoRow = NoRow
    Destroyed = Destroyed
    MaxCommands = 2
SYMMETRY Interchangeable
CHECK_DEADLOCK FALSE
INVARIANT UnionOfRigs
