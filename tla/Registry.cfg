CONSTANTS
    first = first
    second = second
    plug = plug
    spare = spare
    pumpName = pumpName
    heaterName = heaterName
    thirdName = thirdName
    NoName = NoName
    NoCall = NoCall
    Entry = {first, second}
    Device = {plug, spare}
    Name = {pumpName, heaterName, thirdName}
    MaxChanges = 3
SPECIFICATION Spec
SYMMETRY Alike
INVARIANTS
    RegistryTypeOK
    DrivesPinned
    RenamesNeverBlock
PROPERTIES
    HintsStick
    BaselineKeepsDevice
