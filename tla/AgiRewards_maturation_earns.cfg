SPECIFICATION Spec
CONSTANTS
    a = a
    b = b
    c = c
    d = d
    e = e
    basic = basic
    full = full
    MAX_SUPPLY = 100
    U8_MAX = 255
    MIN_PULSE_INTERVAL = 1
    MATURATION_PERIOD = 2
    MATURATION_PROOFS_REQUIRED = 1
    MIN_STAKE = 20
    STAKE_LOCK_PERIOD = 2
    INITIAL_REPUTATION = 2
    MAX_REPUTATION = 6
    REPUTATION_GAIN_PER_PROOF = 1
    REPUTATION_GAIN_PER_VALIDATION = 1
    REPUTATION_LOSS_INVALID_PROOF = 2
    REPUTATION_LOSS_MISSED_ROUND = 1
    MIN_REPUTATION_TO_EARN = 1
    MIN_REPUTATION_TO_VALIDATE = 3
    SLASH_INVALID_PROOF_BPS = 500
    SLASH_COLLUSION_BPS = 5000
    SLASH_SYBIL_BPS = 10000
    MAX_STRIKES_BEFORE_BAN = 5
    BASE_COOLDOWN = 1
    COOLDOWN_MULTIPLIER = 2
    MAX_COOLDOWN = 8
    VALIDATORS_REQUIRED = 1
    VALIDATION_WINDOW = 1
    MAX_CONSECUTIVE_MISSES = 2
    GenesisTime = 1
    WarmReputation = 4
    WarmCap = 100
    WarmFailed = {FALSE}
    WarmStaked = 20
    Stakers = {}
    MaxTime = 4
    Nodes = {a, b}
    Capabilities = {basic}
    RewardOf <- BasicReward
    StakeAmounts = {20}
    UnstakeAmounts = {}
    Rounds = {1, 2}
    HeartbeatRounds = {}
    ViolationTypes = {}
    SupplyCaps = {0}
    GenesisBalances = {20}
INVARIANTS
    AcceptedProofsEarn
