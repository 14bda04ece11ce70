SPECIFICATION NodeSpec
CONSTANTS
    n1 = n1
    n2 = n2
    basic = basic
    MAX_SUPPLY = 100
    U8_MAX = 255
    MIN_PULSE_INTERVAL = 1
    MATURATION_PERIOD = 1
    MATURATION_PROOFS_REQUIRED = 1
    MIN_STAKE = 20
    STAKE_LOCK_PERIOD = 1
    INITIAL_REPUTATION = 3
    MAX_REPUTATION = 6
    REPUTATION_GAIN_PER_PROOF = 1
    REPUTATION_GAIN_PER_VALIDATION = 1
    REPUTATION_LOSS_INVALID_PROOF = 2
    REPUTATION_LOSS_MISSED_ROUND = 1
    MIN_REPUTATION_TO_EARN = 1
    MIN_REPUTATION_TO_VALIDATE = 3
    SLASH_INVALID_PROOF_BPS = 500
    SLASH_COLLUSION_BPS = 5000
    SLASH_SYBIL_BPS = 10000
    MAX_STRIKES_BEFORE_BAN = 2
    BASE_COOLDOWN = 1
    COOLDOWN_MULTIPLIER = 2
    MAX_COOLDOWN = 8
    VALIDATORS_REQUIRED = 1
    VALIDATION_WINDOW = 1
    MAX_CONSECUTIVE_MISSES = 2
    GenesisTime = 1
    MaxTime = 12
    Nodes = {n1, n2}
    Capabilities = {basic}
    RewardOf <- BasicReward
    StakeAmounts = {}
    UnstakeAmounts = {}
    Rounds = {1, 2}
    HeartbeatRounds = {}
    ViolationTypes = {2}
    SupplyCaps = {}
    GenesisBalances = {20}
    me = n1
    StakeTicks = {4, 5}
    OwnerCalls <- MCOwnerCalls
    MATRIX_SIZE = 5
    selectChallengeRows <- MCChallengeRows
    Peers = {1, 2}
    ChallengeIds = {1, 2, 3}
    RequestIds = {1, 2}
    AttestRounds = {1}
    MaxClock = 3
    NoPeer = 0
    NoRequest = 0
    MAX_MESSAGES_PER_PEER_PER_MINUTE = 2
    RateWindow = 2
    AttestationsNeeded = 2
    Supported = {"storage"}
    Workloads <- MCWorkloads
INVARIANTS
    NodeTypeOK
    ChallengeSettledOnce
    RateBounded
    RoundProofsAccepted
    ResumesWhereItStopped
PROPERTIES
    BlockedOnlyHeardOut
    ChallengesSettle
    AttestationsResolve
    RegistersItself
CHECK_DEADLOCK FALSE
