\* The constants of constants.rs; six hours, then steps of one unit of the curve
\* (0.12 hours).
SPECIFICATION Spec
CHECK_DEADLOCK FALSE

CONSTANTS
    MissedRounds <- FewOrManyMisses
    TimeSteps = {432, 21600}
    MaxAge = 24000
    MaxProofs = 1
    MaxVotes = 0
    BASE_REWARD = 10000000
    Weight <- Weights
    INITIAL_REPUTATION = 1000
    MAX_REPUTATION = 10000
    REPUTATION_GAIN_PER_PROOF = 5
    REPUTATION_GAIN_PER_VALIDATION = 3
    REPUTATION_LOSS_INVALID_PROOF = 200
    REPUTATION_LOSS_MISSED_ROUND = 10
    MIN_REPUTATION_TO_VALIDATE = 2000
    MAX_STRIKES_BEFORE_BAN = 5
    MAX_CONSECUTIVE_MISSES = 10
    LOYALTY_THRESHOLD_DAYS = 2592000
    QUALITY_WINDOW = 100

PROPERTIES
    UptimeNeverCosts
