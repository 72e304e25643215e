SPECIFICATION FairSpec
CONSTANTS
    primary = primary fallback = fallback
    town = town village = village
    Community = {town, village}
    Endpoint = {primary, fallback}
    UrlLists <- ConfiguredOrNot
    Pins = {None, town}
    Own = Own
    None = None
    FetchId = {1, 2}
    SelectionId = {1, 2}
INVARIANT OrderlyStopReleases
PROPERTY ScopeKept
PROPERTY BootstrapKeepsScope
PROPERTY StartSettles
PROPERTY FetchingEnds
CHECK_DEADLOCK FALSE
