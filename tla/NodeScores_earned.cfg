\* Every history of one node with few proofs, votes and reports; a window of two
\* valid proofs and gains large enough to reach both ends of the scale.
SPECIFICATION Spec
CHECK_DEADLOCK FALSE

CONSTANTS
    MissedRounds <- FewOrManyMisses
    TimeSteps = {500}
    MaxAge = 1000
    MaxProofs = 7
    MaxVotes = 3
    BASE_REWARD = 10
    Weight <- Weights
    INITIAL_REPUTATION = 1000
    MAX_REPUTATION = 10000
    REPUTATION_GAIN_PER_PROOF = 3000
    REPUTATION_GAIN_PER_VALIDATION = 3
    REPUTATION_LOSS_INVALID_PROOF = 200
    REPUTATION_LOSS_MISSED_ROUND = 10
    MIN_REPUTATION_TO_VALIDATE = 2000
    MAX_STRIKES_BEFORE_BAN = 5
    MAX_CONSECUTIVE_MISSES = 10
    LOYALTY_THRESHOLD_DAYS = 1000
    QUALITY_WINDOW = 2

INVARIANTS
    TypeOK
    ScoresInScale
    FailureNeverPays

PROPERTIES
    GoodStandingPays
