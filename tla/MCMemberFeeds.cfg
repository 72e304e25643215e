SPECIFICATION Spec
CONSTANTS
    ana = ana ben = ben
    anaFeed = anaFeed anaSecond = anaSecond benFeed = benFeed
    Member = {ana, ben}
    Feed = {anaFeed, anaSecond, benFeed}
    Holder <- HolderOf
    DeviceKey = {key1}
    ListingId = {listing1}
    ClockForward = FALSE
    MaxTime = 2
    MaxLength = 4
    MaxRecords = 6
    MaxCopies = 1
INVARIANTS
    OnlyTheseBlock
    FinalBlocks
    AuthorsSpeakForThemselves
CHECK_DEADLOCK FALSE
