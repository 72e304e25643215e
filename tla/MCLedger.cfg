SPECIFICATION FairSpec
CONSTANTS
    Member = {"a", "b", "c"}
    Proposal = {"p1", "p2", "p3", "p4"}
    TransferId <- MCTransferId
    Community = "home"
    NoId = NoId
    MinimumBalance <- MCMinimumBalance
    Candidates <- MCCandidates
INVARIANTS
    TypeOK
    BoundaryHonoured
    CorrectionsFollowOriginals
    EveryTransferDecided
    OutcomeIndependentOfDelivery
    CreditConserved
PROPERTY
    DerivationEnds
CHECK_DEADLOCK FALSE
