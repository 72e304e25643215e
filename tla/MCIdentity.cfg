SPECIFICATION FairSpec
CONSTANTS
    root1 = root1 root2 = root2
    key1 = key1 key2 = key2
    first = first second = second
    town = town
    Root = {root1, root2}
    DeviceKey = {key1, key2}
    Community = {town}
    Lane = {first, second}
    Operation <- AllOperations
    MaxTime = 2
    NoFile = NoFile
    Torn = Torn
    NoKey = NoKey
INVARIANT TypeOK
INVARIANT DeclaredOnce
INVARIANT RevocationsFinal
PROPERTY EstablishedRootKept
PROPERTY EstablishedKeyKept
PROPERTY SharedReleased
CHECK_DEADLOCK FALSE
