SPECIFICATION Spec
CONSTANTS
    home = home guest = guest
    data = data backup = backup restored = restored
    Dir = {data, backup, restored}
    Node = {home, guest}
    Home = home
    DataDir <- DataDirOf
    Lane = {lane1, lane2}
    None = None
    OperatorWaits = TRUE
    DamageWhileRead = FALSE
    MaxVersion = 1
    MaxKeys = 2
    MaxCommands = 3
    MaxFaults = 1
SYMMETRY LaneSymmetry
INVARIANTS
    BackupsOfOneMoment
    RunningKeyDurable
PROPERTIES
    RestoredWhole
    ExistingNeverOverwritten
CHECK_DEADLOCK FALSE
