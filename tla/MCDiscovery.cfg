SPECIFICATION Spec
CONSTANTS
    alice = alice bob = bob node = node
    aliceFeed = aliceFeed bobFeed = bobFeed
    Runtime = {alice, bob}
    Feed = {aliceFeed, bobFeed}
    Owner <- OwnerOf
    Topology <- Direct
    MaxFeeds = 1
    Lifetime = 2
    MaxTime = 2
    OpeningFails = TRUE
INVARIANT CacheBounded
PROPERTY NothingExpiredSent
CHECK_DEADLOCK FALSE
