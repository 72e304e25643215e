SPECIFICATION Spec
CONSTANTS
    ana = ana
    ben = ben
    offer1 = offer1
    request1 = request1
    first = first
    second = second
    other = other
    Member = {ana, ben}
    Listing = {offer1, request1}
    Proposal = {1}
    Community = "home"
    NoId = NoId
    NoTerms = NoTerms
    MinimumBalance = 0
    MaxMinutes = 1
    Catalogue <- MCCatalogue
    Lane = {first, second, other}
    Slot <- TwoForAna
INVARIANTS
    InProgressExact
    RecheckedAppendsOnce
SYMMETRY LaneSymmetry
CHECK_DEADLOCK FALSE
