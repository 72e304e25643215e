SPECIFICATION FairSpec
CONSTANTS
    alice = alice bob = bob node = node
    aliceFeed = aliceFeed bobFeed = bobFeed
    Runtime = {alice, node, bob}
    Feed = {aliceFeed}
    Owner <- OwnerOfOne
    Topology <- ThroughNode
    MaxFeeds = 1
    Lifetime = 2
    MaxTime = 1
    OpeningFails = FALSE
PROPERTY LinkedPeersLearn
PROPERTY RelayingEnds
CHECK_DEADLOCK FALSE
