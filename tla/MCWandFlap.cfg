SPECIFICATION PSpec
CONSTANTS
    NumUplinks = 1
    NumIfaces = 1
    NoUplink = NoUplink
    NoIface = NoIface
    Elsewhere = Elsewhere
    QuickFlap = TRUE
    MaxEvents = 2
PROPERTIES
    Converges
