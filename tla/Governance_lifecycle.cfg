SPECIFICATION Spec
CONSTANTS
    p1 = p1
    s = s
    t = t
    a = a
    b = b
    Vacant = Vacant
    Proposals = {p1}
    Seats = {s, t}
    Peers = {a, b}
    Reputations = {400, 2000}
    Weight <- SmallWeights
    ActiveCounts = {15}
    Sent <- SmallSent
    Candidates = {a}
    MaxFailures = 1
    MaxTime = 4
    VOTING_PERIOD_MS = 1
    REVIEW_PERIOD_MS = 0
    QUORUM_PERCENTAGE = 10
    APPROVAL_THRESHOLD = 66
    COUNCIL_APPROVAL_REQUIRED = 2
    MIN_REPUTATION_TO_PROPOSE = 2000
    MIN_REPUTATION_TO_VOTE = 500
    DefaultReputation = 500
INVARIANTS
    TypeOK
    CouncilDecides
    PassedTheVote
PROPERTIES
    NothingIsUndone
SYMMETRY Alike
