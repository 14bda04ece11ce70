---------------------------- MODULE AgiRewards ----------------------------
(***************************************************************************)
(* The Solana program agi_rewards: node registration, staking, pulse       *)
(* proofs, cross-validation, minting, slashing.  One action per            *)
(* instruction handler of lib.rs; a transaction that returns an error or   *)
(* panics (overflow-checks = true) changes nothing and is not a step.      *)
(*                                                                         *)
(* Times are the on-chain clock, in ticks; amounts are token base units.   *)
(* Left out of the node accounts are the fields that no guard of the       *)
(* program reads: the four scores, the counters of rounds, proofs and      *)
(* validations, last_heartbeat, last_failure_at.  The scores only scale    *)
(* the reward, which is a choice from RewardOf here; module NodeScores has *)
(* the scores and the formula.                                             *)
(***************************************************************************)
EXTENDS Integers, FiniteSets, Functions

CONSTANTS
    Nodes,          \* owners of node accounts, each with one token account
    Capabilities,   \* capability masks a node may declare
    RewardOf,       \* RewardOf[c]: rewards calculate_reward may yield under c
    StakeAmounts,   \* inputs of stake
    UnstakeAmounts, \* inputs of request_unstake
    Rounds,         \* round numbers submitted
    HeartbeatRounds, \* round numbers sent with a heartbeat
    ViolationTypes, \* inputs of report_violation (a u8)
    SupplyCaps,     \* inputs of initialize
    GenesisBalances, \* tokens an owner may hold before the program has the mint
    GenesisTime,    \* clock at deployment
    MaxTime         \* bound on the clock

CONSTANTS           \* constants.rs
    MAX_SUPPLY, MIN_PULSE_INTERVAL,
    MATURATION_PERIOD, MATURATION_PROOFS_REQUIRED,
    MIN_STAKE, STAKE_LOCK_PERIOD,
    INITIAL_REPUTATION, MAX_REPUTATION,
    REPUTATION_GAIN_PER_PROOF, REPUTATION_GAIN_PER_VALIDATION,
    REPUTATION_LOSS_INVALID_PROOF, REPUTATION_LOSS_MISSED_ROUND,
    MIN_REPUTATION_TO_EARN, MIN_REPUTATION_TO_VALIDATE,
    SLASH_INVALID_PROOF_BPS, SLASH_COLLUSION_BPS, SLASH_SYBIL_BPS,
    MAX_STRIKES_BEFORE_BAN,
    BASE_COOLDOWN, COOLDOWN_MULTIPLIER, MAX_COOLDOWN,
    VALIDATORS_REQUIRED, VALIDATION_WINDOW, MAX_CONSECUTIVE_MISSES,
    U8_MAX          \* 255: the largest value of the u8 counters

ASSUME NodesAssumption == IsFiniteSet(Nodes)

ASSUME InputAssumption ==
    /\ Capabilities # {}
    /\ RewardOf \in [Capabilities -> SUBSET (Nat \ {0})]
    /\ StakeAmounts \subseteq Nat
    /\ UnstakeAmounts \subseteq Nat
    /\ Rounds \subseteq Nat
    /\ HeartbeatRounds \subseteq Nat
    /\ SupplyCaps \subseteq Nat
    /\ GenesisBalances \subseteq Nat
    /\ GenesisTime \in Nat \ {0}
    /\ MaxTime \in Nat

ASSUME ConstantsAssumption ==
    /\ {MAX_SUPPLY, MIN_PULSE_INTERVAL, MATURATION_PERIOD,
        MATURATION_PROOFS_REQUIRED, STAKE_LOCK_PERIOD, INITIAL_REPUTATION,
        MAX_REPUTATION, REPUTATION_GAIN_PER_PROOF,
        REPUTATION_GAIN_PER_VALIDATION, REPUTATION_LOSS_INVALID_PROOF,
        REPUTATION_LOSS_MISSED_ROUND, MIN_REPUTATION_TO_EARN,
        MIN_REPUTATION_TO_VALIDATE, MAX_COOLDOWN, VALIDATION_WINDOW,
        MAX_CONSECUTIVE_MISSES, VALIDATORS_REQUIRED} \subseteq Nat
    /\ MIN_STAKE \in Nat \ {0}
    /\ U8_MAX \in Nat
    /\ MAX_STRIKES_BEFORE_BAN \in 1 .. U8_MAX
    /\ {SLASH_INVALID_PROOF_BPS, SLASH_COLLUSION_BPS, SLASH_SYBIL_BPS}
          \subseteq 0 .. 10000
    /\ \A k \in 0 .. 10 : BASE_COOLDOWN * COOLDOWN_MULTIPLIER ^ k \in Nat

\* Lockouts do not get shorter, as they do not when COOLDOWN_MULTIPLIER > 0.
ASSUME CooldownAssumption ==
    \A j, k \in 0 .. 10 :
        j <= k => BASE_COOLDOWN * COOLDOWN_MULTIPLIER ^ j
                     <= BASE_COOLDOWN * COOLDOWN_MULTIPLIER ^ k

\* Round numbers are u64.
ASSUME RoundsAssumption == IsFiniteSet(Rounds)

VARIABLES
    now,        \* Clock::get().unix_timestamp
    program,    \* ProgramState
    node,       \* NodeAccount of each owner
    pending,    \* PendingProof PDA of each node and round
    validation, \* validation[t][r][v]: ValidationRecord PDA of v for t's round r
    vault,      \* balance of the stake_vault token account
    wallet,     \* balance of each owner's token account
    genesis     \* those balances at deployment; never changes

vars == <<now, program, node, pending, validation, vault, wallet, genesis>>

(***************************************************************************)
(* Helpers.                                                                *)
(***************************************************************************)
AtMost(x, max) == IF x < max THEN x ELSE max

\* Mutation of SaturatingSub: a plain subtraction.
SaturatingSub_Plain(x, y) == x - y

SaturatingSub(x, y) == IF y < x THEN x - y ELSE 0

slash_amount(stake, bps) == (stake * bps) \div 10000

Cooldown(failures) ==
    AtMost(BASE_COOLDOWN
              * COOLDOWN_MULTIPLIER ^ AtMost(SaturatingSub(failures, 1), 10),
           MAX_COOLDOWN)

GainReputation(rep, gain) == AtMost(rep + gain, MAX_REPUTATION)

NoNode ==
    [registered |-> FALSE, capabilities |-> CHOOSE c \in Capabilities : TRUE,
     registered_at |-> 0, last_claim_at |-> 0, last_claim_round |-> 0,
     total_earned |-> 0, reputation |-> 0,
     is_matured |-> FALSE, is_banned |-> FALSE, maturation_proofs |-> 0,
     strikes |-> 0, consecutive_failures |-> 0, consecutive_misses |-> 0,
     cooldown_until |-> 0, stake_amount |-> 0, stake_locked_until |-> 0,
     pending_unstake |-> 0, unstake_requested_at |-> 0]

NoProof ==
    [exists |-> FALSE, submitted_at |-> 0, reward_amount |-> 0,
     validations_for |-> 0, validations_against |-> 0, is_finalized |-> FALSE]

(***************************************************************************)
(* Deployment.                                                             *)
(***************************************************************************)
Init ==
    /\ now = GenesisTime
    /\ program = [initialized |-> FALSE, supply_cap |-> 0, total_minted |-> 0,
                  total_slashed |-> 0, total_banned |-> 0]
    /\ node = [n \in Nodes |-> NoNode]
    /\ pending = [n \in Nodes |-> [r \in Rounds |-> NoProof]]
    /\ validation = [t \in Nodes |-> [r \in Rounds |-> [v \in Nodes |-> "none"]]]
    /\ vault = 0
    /\ wallet \in [Nodes -> GenesisBalances]
    /\ genesis = wallet

initialize(cap) ==
    /\ ~program.initialized
    /\ program' = [program EXCEPT
                     !.initialized = TRUE,
                     !.supply_cap = IF cap > 0 THEN cap ELSE MAX_SUPPLY]
    /\ UNCHANGED <<now, node, pending, validation, vault, wallet, genesis>>

register_node(n, c) ==
    /\ program.initialized
    /\ ~node[n].registered
    /\ node' = [node EXCEPT ![n] =
                  [NoNode EXCEPT !.registered = TRUE,
                                 !.capabilities = c,
                                 !.registered_at = now,
                                 !.reputation = INITIAL_REPUTATION]]
    /\ UNCHANGED <<now, program, pending, validation, vault, wallet, genesis>>

update_capabilities(n, c) ==
    /\ node[n].registered
    /\ ~node[n].is_banned
    /\ node' = [node EXCEPT ![n].capabilities = c]
    /\ UNCHANGED <<now, program, pending, validation, vault, wallet, genesis>>

(***************************************************************************)
(* Staking.  The vault holds the stakes of all nodes together.             *)
(***************************************************************************)
\* Mutation of stake: without the ban check.
stake_EvenBanned(n, amount) ==
    /\ node[n].registered
    /\ amount >= MIN_STAKE
    /\ amount <= wallet[n]
    /\ wallet' = [wallet EXCEPT ![n] = @ - amount]
    /\ vault' = vault + amount
    /\ node' = [node EXCEPT
                  ![n].stake_amount = @ + amount,
                  ![n].stake_locked_until = now + STAKE_LOCK_PERIOD]
    /\ UNCHANGED <<now, program, pending, validation, genesis>>

stake(n, amount) ==
    /\ node[n].registered
    /\ amount >= MIN_STAKE
    /\ ~node[n].is_banned
    /\ amount <= wallet[n]
    /\ wallet' = [wallet EXCEPT ![n] = @ - amount]
    /\ vault' = vault + amount
    /\ node' = [node EXCEPT
                  ![n].stake_amount = @ + amount,
                  ![n].stake_locked_until = now + STAKE_LOCK_PERIOD]
    /\ UNCHANGED <<now, program, pending, validation, genesis>>

\* Mutation of request_unstake: any part of the stake may be asked for.
request_unstake_AnyPart(n, amount) ==
    /\ node[n].registered
    /\ amount <= node[n].stake_amount
    /\ now >= node[n].stake_locked_until
    /\ node' = [node EXCEPT ![n].pending_unstake = amount,
                            ![n].unstake_requested_at = now]
    /\ UNCHANGED <<now, program, pending, validation, vault, wallet, genesis>>

request_unstake(n, amount) ==
    /\ node[n].registered
    /\ amount <= node[n].stake_amount
    /\ \/ node[n].stake_amount - amount >= MIN_STAKE
       \/ amount = node[n].stake_amount
    /\ now >= node[n].stake_locked_until
    /\ node' = [node EXCEPT ![n].pending_unstake = amount,
                            ![n].unstake_requested_at = now]
    /\ UNCHANGED <<now, program, pending, validation, vault, wallet, genesis>>

\* Mutation of withdraw_unstake: a saturating subtraction from the stake.
withdraw_unstake_Saturating(n) ==
    LET amount == node[n].pending_unstake IN
    /\ node[n].registered
    /\ amount > 0
    /\ now >= node[n].unstake_requested_at + STAKE_LOCK_PERIOD
    /\ amount <= vault
    /\ vault' = vault - amount
    /\ wallet' = [wallet EXCEPT ![n] = @ + amount]
    /\ node' = [node EXCEPT ![n].stake_amount = SaturatingSub(@, amount),
                            ![n].pending_unstake = 0,
                            ![n].unstake_requested_at = 0]
    /\ UNCHANGED <<now, program, pending, validation, genesis>>

\* stake_amount -= amount panics when a slash has taken more than was left.
withdraw_unstake(n) ==
    LET amount == node[n].pending_unstake IN
    /\ node[n].registered
    /\ amount > 0
    /\ now >= node[n].unstake_requested_at + STAKE_LOCK_PERIOD
    /\ amount <= vault
    /\ amount <= node[n].stake_amount
    /\ vault' = vault - amount
    /\ wallet' = [wallet EXCEPT ![n] = @ + amount]
    /\ node' = [node EXCEPT ![n].stake_amount = @ - amount,
                            ![n].pending_unstake = 0,
                            ![n].unstake_requested_at = 0]
    /\ UNCHANGED <<now, program, pending, validation, genesis>>

(***************************************************************************)
(* submit_pulse_proof.  MaySubmit is what the handler requires before it   *)
(* checks the Merkle proofs; valid is the outcome of that check.           *)
(***************************************************************************)
\* Mutation of Matures: the age or the proofs are enough.
Matures_Either(n) ==
    \/ node[n].is_matured
    \/ now - node[n].registered_at >= MATURATION_PERIOD
    \/ node[n].maturation_proofs >= MATURATION_PROOFS_REQUIRED

Matures(n) ==
    \/ node[n].is_matured
    \/ /\ now - node[n].registered_at >= MATURATION_PERIOD
       /\ node[n].maturation_proofs >= MATURATION_PROOFS_REQUIRED

\* Mutation of MaySubmit: a matured node needs no stake.
MaySubmit_Unstaked(n, r) ==
    /\ node[n].registered
    /\ ~pending[n][r].exists
    /\ ~node[n].is_banned
    /\ now >= node[n].cooldown_until
    /\ Matures(n) => node[n].reputation >= MIN_REPUTATION_TO_EARN
    /\ r > node[n].last_claim_round
    /\ node[n].last_claim_at > 0 => now - node[n].last_claim_at >= MIN_PULSE_INTERVAL

\* Mutation of MaySubmit: rounds may follow each other at any pace.
MaySubmit_AnyPace(n, r) ==
    /\ node[n].registered
    /\ ~pending[n][r].exists
    /\ ~node[n].is_banned
    /\ now >= node[n].cooldown_until
    /\ Matures(n) => /\ node[n].stake_amount >= MIN_STAKE
                     /\ node[n].reputation >= MIN_REPUTATION_TO_EARN
    /\ r > node[n].last_claim_round

MaySubmit(n, r) ==
    /\ node[n].registered
    /\ ~pending[n][r].exists
    /\ ~node[n].is_banned
    /\ now >= node[n].cooldown_until
    /\ Matures(n) => /\ node[n].stake_amount >= MIN_STAKE
                     /\ node[n].reputation >= MIN_REPUTATION_TO_EARN
    /\ r > node[n].last_claim_round
    /\ node[n].last_claim_at > 0 => now - node[n].last_claim_at >= MIN_PULSE_INTERVAL

\* Mutation of apply_proof_failure: the cooldown is not limited.
apply_proof_failure_Unlimited(account) ==
    LET failures == account.consecutive_failures + 1
        strikes  == account.strikes + 1
        slash    == slash_amount(account.stake_amount, SLASH_INVALID_PROOF_BPS)
    IN  [account EXCEPT
           !.consecutive_failures = failures,
           !.strikes = strikes,
           !.reputation = SaturatingSub(@, REPUTATION_LOSS_INVALID_PROOF),
           !.cooldown_until = now + BASE_COOLDOWN * COOLDOWN_MULTIPLIER ^ (failures - 1),
           !.stake_amount = SaturatingSub(@, slash),
           !.is_banned = @ \/ strikes >= MAX_STRIKES_BEFORE_BAN]

\* Mutation of apply_proof_failure: one strike more before the ban.
apply_proof_failure_LateBan(account) ==
    LET failures == account.consecutive_failures + 1
        slash    == slash_amount(account.stake_amount, SLASH_INVALID_PROOF_BPS)
    IN  [account EXCEPT
           !.consecutive_failures = failures,
           !.strikes = @ + 1,
           !.reputation = SaturatingSub(@, REPUTATION_LOSS_INVALID_PROOF),
           !.cooldown_until = now + Cooldown(failures),
           !.stake_amount = SaturatingSub(@, slash),
           !.is_banned = @ \/ account.strikes >= MAX_STRIKES_BEFORE_BAN]

\* helpers.rs: the penalties of a failed proof.
apply_proof_failure(account) ==
    LET failures == account.consecutive_failures + 1
        strikes  == account.strikes + 1
        slash    == slash_amount(account.stake_amount, SLASH_INVALID_PROOF_BPS)
    IN  [account EXCEPT
           !.consecutive_failures = failures,
           !.strikes = strikes,
           !.reputation = SaturatingSub(@, REPUTATION_LOSS_INVALID_PROOF),
           !.cooldown_until = now + Cooldown(failures),
           !.stake_amount = SaturatingSub(@, slash),
           !.is_banned = @ \/ strikes >= MAX_STRIKES_BEFORE_BAN]

\* The account of n once a valid proof for round r is accepted.
ProofAccepted(n, r) ==
    [node[n] EXCEPT
       !.is_matured = Matures(n),
       !.consecutive_misses = 0,
       !.last_claim_at = now,
       !.last_claim_round = r,
       !.consecutive_failures = 0,
       !.reputation = GainReputation(@, REPUTATION_GAIN_PER_PROOF)]

PendingRecord(reward, finalized) ==
    [exists |-> TRUE, submitted_at |-> now, reward_amount |-> reward,
     validations_for |-> 0, validations_against |-> 0, is_finalized |-> finalized]

\* total_slashed is computed from the stake that is left after the slash.
SubmitInvalidProof(n, r) ==
    /\ MaySubmit(n, r)
    /\ LET failed == apply_proof_failure([node[n] EXCEPT !.is_matured = Matures(n)])
       IN  /\ node' = [node EXCEPT ![n] = failed]
           /\ program' = [program EXCEPT !.total_slashed =
                            @ + slash_amount(failed.stake_amount,
                                             SLASH_INVALID_PROOF_BPS)]
    /\ pending' = [pending EXCEPT ![n][r] = PendingRecord(0, TRUE)]
    /\ UNCHANGED <<now, validation, vault, wallet, genesis>>

SubmitMaturationProof(n, r) ==
    /\ MaySubmit(n, r)
    /\ ~Matures(n)
    /\ node' = [node EXCEPT ![n] =
                  [ProofAccepted(n, r) EXCEPT !.maturation_proofs = @ + 1]]
    /\ pending' = [pending EXCEPT ![n][r] = PendingRecord(0, TRUE)]
    /\ UNCHANGED <<now, program, validation, vault, wallet, genesis>>

SubmitRewardedProof(n, r, reward) ==
    /\ MaySubmit(n, r)
    /\ Matures(n)
    /\ program.total_minted + reward <= program.supply_cap
    /\ node' = [node EXCEPT ![n] = ProofAccepted(n, r)]
    /\ pending' = [pending EXCEPT ![n][r] = PendingRecord(reward, FALSE)]
    /\ UNCHANGED <<now, program, validation, vault, wallet, genesis>>

submit_pulse_proof(n, r) ==
    \/ SubmitInvalidProof(n, r)
    \/ SubmitMaturationProof(n, r)
    \/ \E reward \in RewardOf[node[n].capabilities] : SubmitRewardedProof(n, r, reward)

(***************************************************************************)
(* validate_peer: v attests to t's proof for round r.  agrees is v's vote, *)
(* roots_match whether the root v computed is the one t reported.  The     *)
(* ValidationRecord is created once, so v speaks once about a proof.       *)
(***************************************************************************)
\* Mutation of MayValidate: init_if_needed, so a validator may vote again.
MayValidate_Again(v, t, r) ==
    /\ node[v].registered
    /\ node[t].registered
    /\ pending[t][r].exists
    /\ node[v].reputation >= MIN_REPUTATION_TO_VALIDATE
    /\ ~node[v].is_banned
    /\ v # t
    /\ node[v].is_matured
    /\ ~pending[t][r].is_finalized
    /\ now <= pending[t][r].submitted_at + VALIDATION_WINDOW

\* Mutation of MayValidate: votes are accepted until the proof is finalized.
MayValidate_AnyTime(v, t, r) ==
    /\ node[v].registered
    /\ node[t].registered
    /\ pending[t][r].exists
    /\ validation[t][r][v] = "none"
    /\ node[v].reputation >= MIN_REPUTATION_TO_VALIDATE
    /\ ~node[v].is_banned
    /\ v # t
    /\ node[v].is_matured
    /\ ~pending[t][r].is_finalized

MayValidate(v, t, r) ==
    /\ node[v].registered
    /\ node[t].registered
    /\ pending[t][r].exists
    /\ validation[t][r][v] = "none"
    /\ node[v].reputation >= MIN_REPUTATION_TO_VALIDATE
    /\ ~node[v].is_banned
    /\ v # t
    /\ node[v].is_matured
    /\ ~pending[t][r].is_finalized
    /\ now <= pending[t][r].submitted_at + VALIDATION_WINDOW

HonestValidator(v) ==
    GainReputation(node[v].reputation, REPUTATION_GAIN_PER_VALIDATION)

ConfirmProof(v, t, r) ==
    /\ MayValidate(v, t, r)
    /\ pending[t][r].validations_for < U8_MAX
    /\ validation' = [validation EXCEPT ![t][r][v] = "confirmed"]
    /\ pending' = [pending EXCEPT ![t][r].validations_for = @ + 1]
    /\ node' = [node EXCEPT ![v].reputation = HonestValidator(v),
                            ![t].reputation = GainReputation(@, 1)]
    /\ UNCHANGED <<now, program, vault, wallet, genesis>>

DisputeProof(v, t, r) ==
    /\ MayValidate(v, t, r)
    /\ pending[t][r].validations_against < U8_MAX
    /\ validation' = [validation EXCEPT ![t][r][v] = "disputed"]
    /\ pending' = [pending EXCEPT ![t][r].validations_against = @ + 1]
    /\ node' = [node EXCEPT
                  ![v].reputation = HonestValidator(v),
                  ![t].reputation =
                     SaturatingSub(@, REPUTATION_LOSS_INVALID_PROOF \div 2)]
    /\ UNCHANGED <<now, program, vault, wallet, genesis>>

\* Mutation of InconsistentVote: penalised, but counted as a confirmation.
InconsistentVote_Counted(v, t, r) ==
    /\ MayValidate(v, t, r)
    /\ validation' = [validation EXCEPT ![t][r][v] = "inconsistent"]
    /\ pending' = [pending EXCEPT ![t][r].validations_for = @ + 1]
    /\ node' = [node EXCEPT
                  ![v].reputation = SaturatingSub(@, REPUTATION_LOSS_INVALID_PROOF),
                  ![v].strikes = @ + 1,
                  ![v].is_banned = node[v].strikes + 1 >= MAX_STRIKES_BEFORE_BAN]
    /\ UNCHANGED <<now, program, vault, wallet, genesis>>

\* A vote that contradicts the validator's own root: recorded, not counted,
\* penalised.  A ban from here does not reach total_banned.
InconsistentVote(v, t, r) ==
    /\ MayValidate(v, t, r)
    /\ validation' = [validation EXCEPT ![t][r][v] = "inconsistent"]
    /\ node' = [node EXCEPT
                  ![v].reputation = SaturatingSub(@, REPUTATION_LOSS_INVALID_PROOF),
                  ![v].strikes = @ + 1,
                  ![v].is_banned = node[v].strikes + 1 >= MAX_STRIKES_BEFORE_BAN]
    /\ UNCHANGED <<now, program, pending, vault, wallet, genesis>>

validate_peer(v, t, r) ==
    \E agrees, roots_match \in BOOLEAN :
        \/ agrees # roots_match /\ InconsistentVote(v, t, r)
        \/ agrees /\ roots_match /\ ConfirmProof(v, t, r)
        \/ ~agrees /\ ~roots_match /\ DisputeProof(v, t, r)

(***************************************************************************)
(* finalize_reward: permissionless, mints to the node's token account.     *)
(***************************************************************************)
WindowClosed(n, r) == now >= pending[n][r].submitted_at + VALIDATION_WINDOW

QuorumReached(n, r) ==
    /\ pending[n][r].validations_for >= VALIDATORS_REQUIRED
    /\ pending[n][r].validations_for > pending[n][r].validations_against

\* Mutation of MayFinalize: the cap is not checked again.
MayFinalize_NoRecheck(n, r) ==
    /\ pending[n][r].exists
    /\ ~pending[n][r].is_finalized
    /\ pending[n][r].reward_amount > 0
    /\ WindowClosed(n, r)
    /\ QuorumReached(n, r)

MayFinalize(n, r) ==
    /\ pending[n][r].exists
    /\ ~pending[n][r].is_finalized
    /\ pending[n][r].reward_amount > 0
    /\ WindowClosed(n, r)
    /\ QuorumReached(n, r)
    /\ program.total_minted + pending[n][r].reward_amount <= program.supply_cap

\* Mutation of finalize_reward: the proof is not marked as finalized.
finalize_reward_Repeatable(n, r) ==
    LET reward == pending[n][r].reward_amount IN
    /\ MayFinalize(n, r)
    /\ wallet' = [wallet EXCEPT ![n] = @ + reward]
    /\ program' = [program EXCEPT !.total_minted = @ + reward]
    /\ node' = [node EXCEPT ![n].total_earned = @ + reward]
    /\ UNCHANGED <<now, pending, validation, vault, genesis>>

finalize_reward(n, r) ==
    LET reward == pending[n][r].reward_amount IN
    /\ MayFinalize(n, r)
    /\ wallet' = [wallet EXCEPT ![n] = @ + reward]
    /\ program' = [program EXCEPT !.total_minted = @ + reward]
    /\ node' = [node EXCEPT ![n].total_earned = @ + reward]
    /\ pending' = [pending EXCEPT ![n][r].is_finalized = TRUE]
    /\ UNCHANGED <<now, validation, vault, genesis>>

(***************************************************************************)
(* report_violation, heartbeat and the clock.                              *)
(***************************************************************************)
SlashBps(type) ==
    CASE type = 0 -> SLASH_INVALID_PROOF_BPS
      [] type = 1 -> SLASH_COLLUSION_BPS
      [] type = 2 -> SLASH_SYBIL_BPS

ReputationLoss(type) ==
    CASE type = 0 -> REPUTATION_LOSS_INVALID_PROOF
      [] type = 1 -> REPUTATION_LOSS_INVALID_PROOF * 3
      [] type = 2 -> MAX_REPUTATION

\* Mutation of report_violation: a banned node may be reported again.
report_violation_Banned(reporter, target, type) ==
    LET slash  == slash_amount(node[target].stake_amount, SlashBps(type))
        banned == \/ node[target].strikes + 1 >= MAX_STRIKES_BEFORE_BAN
                  \/ type = 2
    IN
    /\ node[reporter].registered
    /\ node[target].registered
    /\ node[reporter].reputation >= MIN_REPUTATION_TO_VALIDATE
    /\ reporter # target
    /\ type \in 0 .. 2
    /\ node' = [node EXCEPT
                  ![target].stake_amount = SaturatingSub(@, slash),
                  ![target].strikes = @ + 1,
                  ![target].reputation = SaturatingSub(@, ReputationLoss(type)),
                  ![target].is_banned = banned,
                  ![reporter].reputation =
                     GainReputation(@, REPUTATION_GAIN_PER_VALIDATION * 5)]
    /\ program' = [program EXCEPT
                     !.total_slashed = @ + slash,
                     !.total_banned = IF banned THEN @ + 1 ELSE @]
    /\ UNCHANGED <<now, pending, validation, vault, wallet, genesis>>

report_violation(reporter, target, type) ==
    LET slash  == slash_amount(node[target].stake_amount, SlashBps(type))
        banned == \/ node[target].strikes + 1 >= MAX_STRIKES_BEFORE_BAN
                  \/ type = 2
    IN
    /\ node[reporter].registered
    /\ node[target].registered
    /\ ~node[target].is_banned
    /\ node[reporter].reputation >= MIN_REPUTATION_TO_VALIDATE
    /\ reporter # target
    /\ type \in 0 .. 2
    /\ node' = [node EXCEPT
                  ![target].stake_amount = SaturatingSub(@, slash),
                  ![target].strikes = @ + 1,
                  ![target].reputation = SaturatingSub(@, ReputationLoss(type)),
                  ![target].is_banned = banned,
                  ![reporter].reputation =
                     GainReputation(@, REPUTATION_GAIN_PER_VALIDATION * 5)]
    /\ program' = [program EXCEPT
                     !.total_slashed = @ + slash,
                     !.total_banned = IF banned THEN @ + 1 ELSE @]
    /\ UNCHANGED <<now, pending, validation, vault, wallet, genesis>>

heartbeat(n, r) ==
    LET missed == r - node[n].last_claim_round - 1
        misses == AtMost(node[n].consecutive_misses + AtMost(missed, U8_MAX), U8_MAX)
    IN
    /\ node[n].registered
    /\ ~node[n].is_banned
    /\ missed > 0
    /\ node' = [node EXCEPT
                  ![n].consecutive_misses = misses,
                  ![n].reputation =
                     IF misses >= MAX_CONSECUTIVE_MISSES
                     THEN SaturatingSub(@, REPUTATION_LOSS_MISSED_ROUND * misses)
                     ELSE @]
    /\ UNCHANGED <<now, program, pending, validation, vault, wallet, genesis>>

Tick ==
    /\ now < MaxTime
    /\ now' = now + 1
    /\ UNCHANGED <<program, node, pending, validation, vault, wallet, genesis>>

Next ==
    \/ \E cap \in SupplyCaps : initialize(cap)
    \/ \E n \in Nodes :
         \/ \E c \in Capabilities : register_node(n, c) \/ update_capabilities(n, c)
         \/ \E amount \in StakeAmounts : stake(n, amount)
         \/ \E amount \in UnstakeAmounts : request_unstake(n, amount)
         \/ withdraw_unstake(n)
         \/ \E r \in Rounds : submit_pulse_proof(n, r) \/ finalize_reward(n, r)
         \/ \E r \in HeartbeatRounds : heartbeat(n, r)
    \/ \E n, m \in Nodes :
         \/ \E r \in Rounds : validate_peer(n, m, r)
         \/ \E type \in ViolationTypes : report_violation(n, m, type)
    \/ Tick

Spec == Init /\ [][Next]_vars

-----------------------------------------------------------------------------
(***************************************************************************)
(* Properties.                                                             *)
(***************************************************************************)
NodeAccount ==
    [registered : BOOLEAN, capabilities : Capabilities, registered_at : Nat,
     last_claim_at : Nat, last_claim_round : Nat, total_earned : Nat,
     reputation : Nat, is_matured : BOOLEAN, is_banned : BOOLEAN,
     maturation_proofs : Nat, strikes : Nat, consecutive_failures : Nat,
     consecutive_misses : 0 .. U8_MAX, cooldown_until : Nat,
     stake_amount : Nat, stake_locked_until : Nat, pending_unstake : Nat,
     unstake_requested_at : Nat]

PendingProof ==
    [exists : BOOLEAN, submitted_at : Nat, reward_amount : Nat,
     validations_for : 0 .. U8_MAX, validations_against : 0 .. U8_MAX,
     is_finalized : BOOLEAN]

ProgramState ==
    [initialized : BOOLEAN, supply_cap : Nat, total_minted : Nat,
     total_slashed : Nat, total_banned : Nat]

\* The accounts hold what their Rust types hold.
TypeOK ==
    /\ now \in Nat \ {0}
    /\ program \in ProgramState
    /\ node \in [Nodes -> NodeAccount]
    /\ pending \in [Nodes -> [Rounds -> PendingProof]]
    /\ validation \in [Nodes -> [Rounds -> [Nodes ->
                         {"none", "confirmed", "disputed", "inconsistent"}]]]
    /\ vault \in Nat
    /\ wallet \in [Nodes -> Nat]
    /\ genesis \in [Nodes -> Nat]

\* The program never mints more than the cap, although any number of proofs
\* that each fitted under it at submission may be pending together
\* (the pre-check of submit_pulse_proof, the re-check of finalize_reward).
SupplyWithinCap == program.total_minted <= program.supply_cap

Validators(t, r, vote) == {v \in Nodes : validation[t][r][v] = vote}

Minted(n, r) ==
    pending[n][r].exists /\ pending[n][r].is_finalized /\ pending[n][r].reward_amount > 0

\* Every minted reward was confirmed by VALIDATORS_REQUIRED distinct nodes
\* other than the earner, and by more nodes than disputed it; a vote that was
\* inconsistent or cast twice never counted.
MintedOnlyByQuorum ==
    \A n \in Nodes, r \in Rounds :
        Minted(n, r) =>
            /\ n \notin Validators(n, r, "confirmed")
            /\ Cardinality(Validators(n, r, "confirmed")) >= VALIDATORS_REQUIRED
            /\ Cardinality(Validators(n, r, "confirmed"))
                  > Cardinality(Validators(n, r, "disputed"))

\* The three books of minted tokens agree: ProgramState.total_minted, the
\* earnings of the nodes and the finalized rewards.
MintedBooksAgree ==
    LET paid(n) == SumFunction([r \in Rounds |->
                      IF Minted(n, r) THEN pending[n][r].reward_amount ELSE 0])
    IN  /\ \A n \in Nodes : node[n].total_earned = paid(n)
        /\ program.total_minted = SumFunction([n \in Nodes |-> node[n].total_earned])

TotalStake == SumFunction([n \in Nodes |-> node[n].stake_amount])

\* No instruction creates or loses a token except finalize_reward, and the
\* vault always covers every stake and every slash the program has booked, so
\* that withdraw_unstake of one node is never short because of another's slash.
VaultCoversStake ==
    /\ vault >= TotalStake + program.total_slashed
    /\ vault + SumFunction(wallet) = SumFunction(genesis) + program.total_minted

\* A node reaches the strike limit exactly as it is banned, so the u8 counters
\* of strikes and consecutive failures cannot overflow.
StrikesBounded ==
    \A n \in Nodes :
        /\ node[n].strikes <= MAX_STRIKES_BEFORE_BAN
        /\ node[n].strikes = MAX_STRIKES_BEFORE_BAN => node[n].is_banned
        /\ node[n].consecutive_failures <= node[n].strikes

\* No lockout outlasts the one of the last failure before the ban: the ban
\* comes first, and MAX_COOLDOWN limits what the doubling comes to.
CooldownBounded ==
    \A n \in Nodes : node[n].cooldown_until <= now + Cooldown(MAX_STRIKES_BEFORE_BAN)

\* total_banned never exceeds the number of banned nodes (it misses those
\* that apply_proof_failure and validate_peer ban).
BannedCountIsLowerBound ==
    program.total_banned <= Cardinality({n \in Nodes : node[n].is_banned})

\* Two rewarded proofs of one node are submitted in the order of their rounds
\* and MIN_PULSE_INTERVAL apart, whatever failures lie between: the bound on
\* what a node can earn per unit of time.
RewardsSpaced ==
    \A n \in Nodes : \A r, s \in Rounds :
        (r < s /\ pending[n][r].reward_amount > 0 /\ pending[n][s].reward_amount > 0)
            => pending[n][s].submitted_at - pending[n][r].submitted_at
                  >= MIN_PULSE_INTERVAL

\* A proof carries a reward only when it was submitted after the whole
\* maturation period of its node and all its maturation proofs.
RewardsOnlyMatured ==
    \A n \in Nodes, r \in Rounds :
        pending[n][r].reward_amount > 0 =>
            /\ node[n].is_matured
            /\ node[n].maturation_proofs >= MATURATION_PROOFS_REQUIRED
            /\ pending[n][r].submitted_at - node[n].registered_at >= MATURATION_PERIOD

\* A node that was never struck can always withdraw what it asked for, and
\* is left with nothing or with a full stake, in whatever order it staked,
\* asked and asked again.
UnstruckStakeWhole ==
    \A n \in Nodes :
        LET kept == node[n].stake_amount - node[n].pending_unstake IN
        node[n].strikes = 0 =>
            /\ node[n].stake_amount = 0 \/ node[n].stake_amount >= MIN_STAKE
            /\ kept = 0 \/ kept >= MIN_STAKE

\* Without tokens in circulation before the program holds the mint, no token
\* is ever minted: maturity needs a stake, a stake needs tokens, and tokens
\* need matured validators.
NothingWithoutGenesis ==
    (\A n \in Nodes : genesis[n] = 0) => program.total_minted = 0

\* Once the window is over, a proof that has its quorum stays payable until it
\* is paid: no later vote, slash or ban takes the reward away, only other
\* rewards that exhaust the supply.
QuorumIsStable ==
    [][\A n \in Nodes, r \in Rounds :
         (/\ now > pending[n][r].submitted_at + VALIDATION_WINDOW
          /\ MayFinalize(n, r))
         => \/ Minted(n, r)'
            \/ MayFinalize(n, r)'
            \/ program'.total_minted + pending[n][r].reward_amount > program.supply_cap
      ]_vars

\* A ban is for good: a banned node submits nothing, stakes nothing, speaks
\* on nobody's proof and loses no further strike, although its earlier proofs
\* may still be paid and its stake withdrawn.
BanIsFinal ==
    [][\A n \in Nodes : node[n].is_banned =>
         /\ node'[n].is_banned
         /\ node'[n].strikes = node[n].strikes
         /\ node'[n].stake_amount <= node[n].stake_amount
         /\ \A r \in Rounds : pending'[n][r].exists = pending[n][r].exists
         /\ \A t \in Nodes, r \in Rounds : validation'[t][r][n] = validation[t][r][n]
      ]_vars

\* The program keeps the promise of ProofEscrow: every instruction is one of
\* its steps or leaves the claims, the votes and the minted tokens alone.
Claim(n, r) ==
    CASE ~pending[n][r].exists                -> "none"
      [] Minted(n, r)                         -> "paid"
      [] pending[n][r].exists
         /\ ~pending[n][r].is_finalized       -> "open"
      [] OTHER                                -> "void"

Escrow == INSTANCE ProofEscrow WITH
    Quorum <- VALIDATORS_REQUIRED,
    claim <- [n \in Nodes |-> [r \in Rounds |-> Claim(n, r)]],
    confirmed <- [n \in Nodes |-> [r \in Rounds |-> Validators(n, r, "confirmed")]],
    disputed <- [n \in Nodes |-> [r \in Rounds |-> Validators(n, r, "disputed")]],
    minted <- program.total_minted,
    cap <- program.supply_cap

ImplementsEscrow == Escrow!Spec

-----------------------------------------------------------------------------
(***************************************************************************)
(* What the documents say and the program does not do.                     *)
(***************************************************************************)
\* docs/NODE_REWARDS.md: "New nodes get a 14-day grace period where they can
\* earn rewards without staking".  A node's latest accepted proof earns.
AcceptedProofsEarn ==
    \A n \in Nodes, r \in Rounds :
        (pending[n][r].exists /\ node[n].last_claim_round = r)
            => pending[n][r].reward_amount > 0

\* docs/NODE_REWARDS.md: "After cooldown, tokens return to your ATA".  The
\* withdrawal of a request that is due is not refused: what was asked for is
\* still part of the stake.
DueUnstakeReturns ==
    \A n \in Nodes :
        (/\ node[n].pending_unstake > 0
         /\ now >= node[n].unstake_requested_at + STAKE_LOCK_PERIOD)
            => node[n].pending_unstake <= node[n].stake_amount

=============================================================================
