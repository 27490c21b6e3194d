SPECIFICATION PSpec
CONSTANTS
    NumUplinks = 2
    NumIfaces = 3
    NoUplink = NoUplink
    NoIface = NoIface
    Elsewhere = Elsewhere
    QuickFlap = FALSE
    MaxEvents = 3
INVARIANTS
    TypeOK
    RouteFollowsStatus
    ActiveIsShaped
    RightAfterCalm
PROPERTIES
    Converges
    PassMoves
    ImplementsFailover
