SPECIFICATION Spec
CONSTANTS
    rig1 = rig1
    rig2 = rig2
    k1 = k1
    k2 = k2
    Procs = {rig1, rig2}
    Imsi = {1, 2}
    Cred = {k1, k2}
    NoRow = NoRow
    Destroyed = Destroyed
    MaxCommands = 3
SYMMETRY Interchangeable
CHECK_DEADLOCK FALSE
INVARIANTS
    TypeOK
    TornForCause
    ReportedIsStored
PROPERTIES
    AddedIsNew
    NeverOverwritten
    ImplementsAtomicStore
