SPECIFICATION BSpec
CONSTANTS
    example1 = example1
    example2 = example2
    example3 = example3
    example4 = example4
    NoKey = NoKey
    NoSig = NoSig
    NoFile = NoFile
    NoPci = NoPci
    Torn = Torn
    Absent = Absent
    Blank = Blank
    ExampleOf <- Examples
    Id = {"lab", "atoll"}
    Body <- Bodies
    Source <- Sources
    LabSource <- TheLab
    MaxCommands = 2
    MaxEdits = 1
    MaxUps = 2
CHECK_DEADLOCK FALSE
INVARIANTS
    IdentityTypeOK
    CheckedKeysMatch
    BootstrapTypeOK
    SecretsAreOwn
PROPERTIES
    WrittenIsSound
    IdentityKept
    FinishedIsAccepted
    RefusedForCause
    UnhealthyForCause
    StartsChecked
