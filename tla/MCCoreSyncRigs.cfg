SPECIFICATION OSpec
CONSTANTS
    op1 = op1
    op2 = op2
    ue1 = ue1
    ue2 = ue2
    k1 = k1
    k2 = k2
    Procs = {op1, op2}
    Imsi = {ue1, ue2}
    Cred = {k1, k2}
    NoRow = NoRow
    Destroyed = Destroyed
    NoImsi = NoImsi
    MaxRunning = 2
    MaxScripts = 3
    MaxEdits = 1
SYMMETRY Interchangeable
CHECK_DEADLOCK FALSE
PROPERTIES
    LiveUndisturbed
