------------------------- MODULE AgiRewardsProofs -------------------------
(***************************************************************************)
(* Theorems about the reward program, for any set of nodes, any rounds and *)
(* any values of its constants that satisfy the assumptions of AgiRewards. *)
(***************************************************************************)
EXTENDS AgiRewards, FiniteSetTheorems, TLAPS

-----------------------------------------------------------------------------
(***************************************************************************)
(* Assumptions and helpers.                                                *)
(***************************************************************************)
\* What the proofs below use of the assumptions on inputs and constants.
LEMMA InputTypes ==
    /\ \A c \in Capabilities : RewardOf[c] \subseteq Nat \ {0}
    /\ StakeAmounts \subseteq Nat /\ UnstakeAmounts \subseteq Nat
    /\ Rounds \subseteq Nat /\ HeartbeatRounds \subseteq Nat
    /\ SupplyCaps \subseteq Nat
  BY InputAssumption DEF InputAssumption

LEMMA ConstantTypes ==
    /\ MAX_SUPPLY \in Nat /\ STAKE_LOCK_PERIOD \in Nat /\ MIN_STAKE \in Nat
    /\ INITIAL_REPUTATION \in Nat /\ MAX_REPUTATION \in Nat /\ U8_MAX \in Nat
    /\ REPUTATION_GAIN_PER_PROOF \in Nat /\ REPUTATION_GAIN_PER_VALIDATION \in Nat
    /\ REPUTATION_LOSS_INVALID_PROOF \in Nat /\ REPUTATION_LOSS_MISSED_ROUND \in Nat
    /\ MATURATION_PERIOD \in Nat /\ MATURATION_PROOFS_REQUIRED \in Nat
    /\ MIN_PULSE_INTERVAL \in Nat /\ VALIDATION_WINDOW \in Nat
    /\ VALIDATORS_REQUIRED \in Nat /\ MAX_CONSECUTIVE_MISSES \in Nat
    /\ MAX_STRIKES_BEFORE_BAN \in Nat \ {0}
  BY ConstantsAssumption DEF ConstantsAssumption

LEMMA SlashRates ==
    /\ SLASH_INVALID_PROOF_BPS \in Nat
    /\ SLASH_COLLUSION_BPS \in Nat
    /\ SLASH_SYBIL_BPS \in Nat
<1>1. /\ SLASH_INVALID_PROOF_BPS \in 0 .. 10000
      /\ SLASH_COLLUSION_BPS \in 0 .. 10000
      /\ SLASH_SYBIL_BPS \in 0 .. 10000
  BY ConstantsAssumption DEF ConstantsAssumption
<1>2. QED
  BY <1>1

LEMMA HelperTypes ==
    /\ \A x, y \in Nat : SaturatingSub(x, y) \in Nat /\ SaturatingSub(x, y) <= x
    /\ \A x, y \in Nat : AtMost(x, y) \in 0 .. y /\ AtMost(x, y) <= x
  BY DEF SaturatingSub, AtMost

LEMMA GainType == \A x, g \in Nat : GainReputation(x, g) \in Nat
<1> SUFFICES ASSUME NEW x \in Nat, NEW g \in Nat PROVE GainReputation(x, g) \in Nat
  OBVIOUS
<1>1. MAX_REPUTATION \in Nat
  BY ConstantTypes
<1>2. QED
  BY <1>1 DEF GainReputation, AtMost

\* A slash is an amount whatever the stake; saturating_sub does the rest.
LEMMA SlashType == \A s, b \in Nat : slash_amount(s, b) \in Nat
<1> SUFFICES ASSUME NEW s \in Nat, NEW b \in Nat PROVE slash_amount(s, b) \in Nat
  OBVIOUS
<1> DEFINE p == s * b
<1>1. p \in Nat
  OBVIOUS
<1>2. slash_amount(s, b) = p \div 10000
  BY DEF slash_amount
<1> HIDE DEF p
<1>3. QED
  BY <1>1, <1>2

LEMMA SlashTypes ==
    /\ \A s \in Nat : slash_amount(s, SLASH_INVALID_PROOF_BPS) \in Nat
    /\ \A s \in Nat, type \in 0 .. 2 : slash_amount(s, SlashBps(type)) \in Nat
<1>1. ASSUME NEW s \in Nat
      PROVE  slash_amount(s, SLASH_INVALID_PROOF_BPS) \in Nat
  BY SlashRates, SlashType
<1>2. ASSUME NEW s \in Nat, NEW type \in 0 .. 2
      PROVE  slash_amount(s, SlashBps(type)) \in Nat
  <2>1. type = 0 \/ type = 1 \/ type = 2
    OBVIOUS
  <2>2. SlashBps(type) \in Nat
    BY <2>1, SlashRates DEF SlashBps
  <2>3. QED
    BY <2>2, SlashType
<1>3. QED
  BY <1>1, <1>2

LEMMA CooldownType ==
    ASSUME NEW f \in Nat
    PROVE  Cooldown(f) \in Nat
<1> DEFINE k == AtMost(SaturatingSub(f, 1), 10)
<1>1. k \in 0 .. 10
  BY HelperTypes
<1>2. BASE_COOLDOWN * COOLDOWN_MULTIPLIER ^ k \in Nat
  BY <1>1, ConstantsAssumption DEF ConstantsAssumption
<1>3. AtMost(BASE_COOLDOWN * COOLDOWN_MULTIPLIER ^ k, MAX_COOLDOWN) \in Nat
  BY <1>2, HelperTypes, ConstantsAssumption DEF ConstantsAssumption
<1>4. QED
  BY <1>3 DEF Cooldown

-----------------------------------------------------------------------------
(***************************************************************************)
(* Type correctness.                                                       *)
(***************************************************************************)
LEMMA NoNodeType == NoNode \in NodeAccount
<1>1. (CHOOSE c \in Capabilities : TRUE) \in Capabilities
  BY InputAssumption DEF InputAssumption
<1>2. QED
  BY <1>1, ConstantTypes DEF NoNode, NodeAccount

LEMMA AccountFields ==
    ASSUME NEW x \in NodeAccount
    PROVE  /\ x.stake_amount \in Nat /\ x.reputation \in Nat /\ x.strikes \in Nat
           /\ x.consecutive_failures \in Nat /\ x.capabilities \in Capabilities
           /\ x.last_claim_round \in Nat /\ x.total_earned \in Nat
           /\ x.maturation_proofs \in Nat /\ x.pending_unstake \in Nat
           /\ x.consecutive_misses \in 0 .. U8_MAX
           /\ x.is_banned \in BOOLEAN /\ x.is_matured \in BOOLEAN
  BY DEF NodeAccount

\* Each handler's update of an account keeps its type.
LEMMA AccountUpdates ==
    /\ \A x \in NodeAccount, c \in Capabilities :
         [x EXCEPT !.capabilities = c] \in NodeAccount
    /\ \A x \in NodeAccount, i, j \in Nat :
         [x EXCEPT !.stake_amount = i, !.stake_locked_until = j] \in NodeAccount
    /\ \A x \in NodeAccount, i, j \in Nat :
         [x EXCEPT !.pending_unstake = i, !.unstake_requested_at = j] \in NodeAccount
    /\ \A x \in NodeAccount, i \in Nat :
         [x EXCEPT !.stake_amount = i, !.pending_unstake = 0,
                   !.unstake_requested_at = 0] \in NodeAccount
    /\ \A x \in NodeAccount, p \in BOOLEAN :
         [x EXCEPT !.is_matured = p] \in NodeAccount
    /\ \A x \in NodeAccount, p \in BOOLEAN, i, j, k \in Nat :
         [x EXCEPT !.is_matured = p, !.consecutive_misses = 0,
                   !.last_claim_at = i, !.last_claim_round = j,
                   !.consecutive_failures = 0, !.reputation = k] \in NodeAccount
    /\ \A x \in NodeAccount, i \in Nat :
         [x EXCEPT !.maturation_proofs = i] \in NodeAccount
    /\ \A x \in NodeAccount, i \in Nat :
         [x EXCEPT !.total_earned = i] \in NodeAccount
    /\ \A x \in NodeAccount, i \in Nat :
         [x EXCEPT !.reputation = i] \in NodeAccount
    /\ \A x \in NodeAccount, i, j \in Nat, p \in BOOLEAN :
         [x EXCEPT !.reputation = i, !.strikes = j, !.is_banned = p] \in NodeAccount
    /\ \A x \in NodeAccount, k, j, i \in Nat, p \in BOOLEAN :
         [x EXCEPT !.stake_amount = k, !.strikes = j, !.reputation = i,
                   !.is_banned = p] \in NodeAccount
    /\ \A x \in NodeAccount, z \in 0 .. U8_MAX, i \in Nat :
         [x EXCEPT !.consecutive_misses = z, !.reputation = i] \in NodeAccount
<1>1. ASSUME NEW x \in NodeAccount, NEW c \in Capabilities
      PROVE  [x EXCEPT !.capabilities = c] \in NodeAccount
  BY DEF NodeAccount
<1>2. ASSUME NEW x \in NodeAccount, NEW i \in Nat, NEW j \in Nat
      PROVE  [x EXCEPT !.stake_amount = i, !.stake_locked_until = j] \in NodeAccount
  BY DEF NodeAccount
<1>3. ASSUME NEW x \in NodeAccount, NEW i \in Nat, NEW j \in Nat
      PROVE  [x EXCEPT !.pending_unstake = i, !.unstake_requested_at = j] \in NodeAccount
  BY DEF NodeAccount
<1>4. ASSUME NEW x \in NodeAccount, NEW i \in Nat
      PROVE  [x EXCEPT !.stake_amount = i, !.pending_unstake = 0,
                       !.unstake_requested_at = 0] \in NodeAccount
  BY DEF NodeAccount
<1>5. ASSUME NEW x \in NodeAccount, NEW p \in BOOLEAN
      PROVE  [x EXCEPT !.is_matured = p] \in NodeAccount
  BY DEF NodeAccount
<1>6. ASSUME NEW x \in NodeAccount, NEW p \in BOOLEAN,
             NEW i \in Nat, NEW j \in Nat, NEW k \in Nat
      PROVE  [x EXCEPT !.is_matured = p, !.consecutive_misses = 0,
                       !.last_claim_at = i, !.last_claim_round = j,
                       !.consecutive_failures = 0, !.reputation = k] \in NodeAccount
  <2>1. 0 \in 0 .. U8_MAX
    BY ConstantTypes
  <2>2. ASSUME NEW y \in 0 .. U8_MAX, NEW f \in Nat
        PROVE  [x EXCEPT !.is_matured = p, !.consecutive_misses = y,
                         !.last_claim_at = i, !.last_claim_round = j,
                         !.consecutive_failures = f, !.reputation = k] \in NodeAccount
    BY DEF NodeAccount
  <2>3. QED
    BY <2>1, <2>2
<1>7. ASSUME NEW x \in NodeAccount, NEW i \in Nat
      PROVE  [x EXCEPT !.maturation_proofs = i] \in NodeAccount
  BY DEF NodeAccount
<1>8. ASSUME NEW x \in NodeAccount, NEW i \in Nat
      PROVE  [x EXCEPT !.total_earned = i] \in NodeAccount
  BY DEF NodeAccount
<1>9. ASSUME NEW x \in NodeAccount, NEW i \in Nat
      PROVE  [x EXCEPT !.reputation = i] \in NodeAccount
  BY DEF NodeAccount
<1>10. ASSUME NEW x \in NodeAccount, NEW i \in Nat, NEW j \in Nat, NEW p \in BOOLEAN
       PROVE  [x EXCEPT !.reputation = i, !.strikes = j, !.is_banned = p] \in NodeAccount
  BY DEF NodeAccount
<1>11. ASSUME NEW x \in NodeAccount,
              NEW k \in Nat, NEW j \in Nat, NEW i \in Nat, NEW p \in BOOLEAN
       PROVE  [x EXCEPT !.stake_amount = k, !.strikes = j, !.reputation = i,
                       !.is_banned = p] \in NodeAccount
  BY DEF NodeAccount
<1>12. ASSUME NEW x \in NodeAccount, NEW z \in 0 .. U8_MAX, NEW i \in Nat
       PROVE  [x EXCEPT !.consecutive_misses = z, !.reputation = i] \in NodeAccount
  BY DEF NodeAccount
<1>13. QED
  BY <1>1, <1>2, <1>3, <1>4, <1>5, <1>6, <1>7, <1>8, <1>9,
     <1>10, <1>11, <1>12

LEMMA FailureType ==
    ASSUME NEW x \in NodeAccount, now \in Nat
    PROVE  apply_proof_failure(x) \in NodeAccount
<1> DEFINE slash == slash_amount(x.stake_amount, SLASH_INVALID_PROOF_BPS)
           cooldown == Cooldown(x.consecutive_failures + 1)
           stake_left == SaturatingSub(x.stake_amount, slash)
           reputation_left == SaturatingSub(x.reputation, REPUTATION_LOSS_INVALID_PROOF)
           banned == x.is_banned \/ x.strikes + 1 >= MAX_STRIKES_BEFORE_BAN
<1>1. x.consecutive_failures + 1 \in Nat /\ x.strikes + 1 \in Nat
  BY AccountFields
<1>2. slash \in Nat
  <2>1. x.stake_amount \in Nat
    BY AccountFields
  <2>2. QED
    BY <2>1, SlashTypes
<1>3. cooldown \in Nat
  BY <1>1, CooldownType
<1> HIDE DEF slash, cooldown
<1>4. stake_left \in Nat /\ reputation_left \in Nat /\ now + cooldown \in Nat
  <2>1. stake_left \in Nat
    BY <1>2, AccountFields, HelperTypes
  <2>2. reputation_left \in Nat
    BY AccountFields, HelperTypes, ConstantTypes
  <2>3. QED
    BY <1>3, <2>1, <2>2
<1>5. apply_proof_failure(x) =
         [x EXCEPT !.consecutive_failures = x.consecutive_failures + 1,
                   !.strikes = x.strikes + 1,
                   !.reputation = reputation_left,
                   !.cooldown_until = now + cooldown,
                   !.stake_amount = stake_left,
                   !.is_banned = banned]
  BY DEF apply_proof_failure, slash, cooldown
<1> HIDE DEF stake_left, reputation_left
<1>6. ASSUME NEW f \in Nat, NEW s \in Nat, NEW u \in Nat, NEW p \in BOOLEAN
      PROVE  [x EXCEPT !.consecutive_failures = f,
                       !.strikes = s,
                       !.reputation = reputation_left,
                       !.cooldown_until = u,
                       !.stake_amount = stake_left,
                       !.is_banned = p] \in NodeAccount
  BY <1>4 DEF NodeAccount
<1>7. banned \in BOOLEAN
  BY AccountFields
<1> HIDE DEF banned
<1>8. [x EXCEPT !.consecutive_failures = x.consecutive_failures + 1,
                !.strikes = x.strikes + 1,
                !.reputation = reputation_left,
                !.cooldown_until = now + cooldown,
                !.stake_amount = stake_left,
                !.is_banned = banned] \in NodeAccount
  BY <1>1, <1>4, <1>6, <1>7
<1>9. QED
  BY <1>5, <1>8, Zenon

LEMMA AcceptedType ==
    ASSUME NEW n \in Nodes, NEW r \in Rounds, node[n] \in NodeAccount, now \in Nat
    PROVE  ProofAccepted(n, r) \in NodeAccount
<1>1. r \in Nat
  BY InputTypes
<1>2. Matures(n) \in BOOLEAN
  BY AccountFields DEF Matures
<1>3. GainReputation(node[n].reputation, REPUTATION_GAIN_PER_PROOF) \in Nat
  BY AccountFields, GainType, ConstantTypes
<1>4. QED
  BY <1>1, <1>2, <1>3, AccountUpdates DEF ProofAccepted

LEMMA InitTypeOK == Init => TypeOK
<1> SUFFICES ASSUME Init PROVE TypeOK
  OBVIOUS
<1> USE InputAssumption DEF InputAssumption
<1>1. now \in Nat \ {0} /\ vault \in Nat /\ wallet \in [Nodes -> Nat]
         /\ genesis \in [Nodes -> Nat] /\ program \in ProgramState
  BY DEF Init, ProgramState
<1>2. node \in [Nodes -> NodeAccount]
  BY NoNodeType DEF Init
<1>3. pending \in [Nodes -> [Rounds -> PendingProof]]
  BY ConstantTypes DEF Init, NoProof, PendingProof
<1>4. QED
  BY <1>1, <1>2, <1>3 DEF Init, TypeOK

LEMMA NextTypeOK == TypeOK /\ [Next]_vars => TypeOK'
<1> SUFFICES ASSUME TypeOK, [Next]_vars PROVE TypeOK'
  OBVIOUS
<1>a. /\ \A n \in Nodes : node[n] \in NodeAccount
      /\ \A n \in Nodes, r \in Rounds : pending[n][r] \in PendingProof
      /\ now \in Nat /\ vault \in Nat /\ program \in ProgramState
  BY DEF TypeOK
<1>b. \A n \in Nodes :
        /\ node[n].stake_amount \in Nat /\ node[n].reputation \in Nat
        /\ node[n].strikes \in Nat /\ node[n].total_earned \in Nat
        /\ node[n].maturation_proofs \in Nat /\ node[n].pending_unstake \in Nat
  BY <1>a, AccountFields
\* One updated account: the function stays well typed.
<1>c. ASSUME NEW n \in Nodes, NEW x \in NodeAccount, node' = [node EXCEPT ![n] = x]
      PROVE  node' \in [Nodes -> NodeAccount]
  BY <1>c DEF TypeOK
<1>1. ASSUME NEW cap \in SupplyCaps, initialize(cap) PROVE TypeOK'
  <2>1. ASSUME NEW supply_cap \in Nat
        PROVE  [program EXCEPT !.initialized = TRUE, !.supply_cap = supply_cap]
                  \in ProgramState
    BY <1>a DEF ProgramState
  <2>2. program' \in ProgramState
    BY <1>1, <2>1, InputTypes, ConstantTypes DEF initialize
  <2>3. QED
    BY <1>1, <2>2 DEF TypeOK, initialize
<1>2. ASSUME NEW n \in Nodes, NEW c \in Capabilities, register_node(n, c) PROVE TypeOK'
  <2>1. [NoNode EXCEPT !.registered = TRUE, !.capabilities = c,
           !.registered_at = now, !.reputation = INITIAL_REPUTATION] \in NodeAccount
    BY <1>a, NoNodeType, ConstantTypes DEF NoNode, NodeAccount
  <2>2. QED
    BY <1>2, <1>c, <2>1 DEF TypeOK, register_node
<1>3. ASSUME NEW n \in Nodes, NEW c \in Capabilities, update_capabilities(n, c) PROVE TypeOK'
  <2>1. [node[n] EXCEPT !.capabilities = c] \in NodeAccount
    BY <1>a, AccountUpdates
  <2>2. QED
    BY <1>3, <2>1 DEF TypeOK, update_capabilities
<1>4. ASSUME NEW n \in Nodes, NEW amount \in StakeAmounts, stake(n, amount) PROVE TypeOK'
  <2>1. /\ amount \in Nat /\ now + STAKE_LOCK_PERIOD \in Nat
        /\ node[n].stake_amount + amount \in Nat
    BY <1>a, <1>b, InputTypes, ConstantTypes
  <2>2. [node[n] EXCEPT !.stake_amount = node[n].stake_amount + amount,
                        !.stake_locked_until = now + STAKE_LOCK_PERIOD] \in NodeAccount
    BY <1>a, <2>1, AccountUpdates
  <2>3. node' \in [Nodes -> NodeAccount]
    BY <1>4, <2>2 DEF TypeOK, stake
  <2>4. vault' \in Nat /\ wallet' \in [Nodes -> Nat]
    BY <1>4, <2>1 DEF TypeOK, stake
  <2>5. QED
    BY <1>4, <2>3, <2>4 DEF TypeOK, stake
<1>5. ASSUME NEW n \in Nodes, NEW amount \in UnstakeAmounts, request_unstake(n, amount)
      PROVE  TypeOK'
  <2>1. [node[n] EXCEPT !.pending_unstake = amount,
                        !.unstake_requested_at = now] \in NodeAccount
    BY <1>a, InputTypes, AccountUpdates
  <2>2. QED
    BY <1>5, <2>1 DEF TypeOK, request_unstake
<1>6. ASSUME NEW n \in Nodes, withdraw_unstake(n) PROVE TypeOK'
  <2>1. /\ node[n].stake_amount - node[n].pending_unstake \in Nat
        /\ vault - node[n].pending_unstake \in Nat
    BY <1>6, <1>a, <1>b DEF withdraw_unstake
  <2>2. [node[n] EXCEPT !.stake_amount = node[n].stake_amount - node[n].pending_unstake,
                        !.pending_unstake = 0,
                        !.unstake_requested_at = 0] \in NodeAccount
    BY <1>a, <2>1, AccountUpdates
  <2>3. node' \in [Nodes -> NodeAccount]
    BY <1>6, <2>2 DEF TypeOK, withdraw_unstake
  <2>4. vault' \in Nat /\ wallet' \in [Nodes -> Nat]
    BY <1>6, <1>b, <2>1 DEF TypeOK, withdraw_unstake
  <2>5. QED
    BY <1>6, <2>3, <2>4 DEF TypeOK, withdraw_unstake
<1>7. ASSUME NEW n \in Nodes, NEW r \in Rounds, submit_pulse_proof(n, r) PROVE TypeOK'
  <2>1. r \in Nat /\ Matures(n) \in BOOLEAN
    <3>1. node[n].is_matured \in BOOLEAN
      BY <1>a, AccountFields
    <3>2. QED
      BY <3>1, InputTypes DEF Matures
  <2>2. ASSUME NEW reward \in Nat, NEW p \in BOOLEAN
        PROVE  PendingRecord(reward, p) \in PendingProof
    BY <1>a, ConstantTypes DEF PendingRecord, PendingProof
  <2>3. ProofAccepted(n, r) \in NodeAccount
    BY <1>a, AcceptedType
  \* One new record: the function of records stays well typed.
  <2>4. ASSUME NEW x \in PendingProof, pending' = [pending EXCEPT ![n][r] = x]
        PROVE  pending' \in [Nodes -> [Rounds -> PendingProof]]
    BY <2>4 DEF TypeOK
  <2>5. CASE SubmitInvalidProof(n, r)
    <3> DEFINE account == [node[n] EXCEPT !.is_matured = Matures(n)]
               failed == apply_proof_failure(account)
               lost == slash_amount(failed.stake_amount, SLASH_INVALID_PROOF_BPS)
    <3>1. account \in NodeAccount
      BY <1>a, <2>1, AccountUpdates
    <3>2. failed \in NodeAccount
      <4> HIDE DEF account
      <4>1. QED
        BY <1>a, <3>1, FailureType
    <3>3. node' = [node EXCEPT ![n] = failed]
      BY <2>5 DEF SubmitInvalidProof
    <3>4. /\ program' = [program EXCEPT !.total_slashed = program.total_slashed + lost]
          /\ pending' = [pending EXCEPT ![n][r] = PendingRecord(0, TRUE)]
          /\ UNCHANGED <<now, validation, vault, wallet, genesis>>
      BY <2>5 DEF SubmitInvalidProof
    <3> HIDE DEF failed
    <3>5. lost \in Nat
      BY <3>2, AccountFields, SlashTypes
    <3> HIDE DEF lost
    <3>6. program' \in ProgramState
      <4>1. program.total_slashed + lost \in Nat
        BY <1>a, <3>5 DEF ProgramState
      <4>2. ASSUME NEW s \in Nat PROVE [program EXCEPT !.total_slashed = s] \in ProgramState
        BY <1>a DEF ProgramState
      <4>3. QED
        BY <3>4, <4>1, <4>2
    <3>7. /\ node' \in [Nodes -> NodeAccount]
          /\ pending' \in [Nodes -> [Rounds -> PendingProof]]
      BY <1>c, <2>2, <2>4, <3>2, <3>3, <3>4
    <3>8. QED
      BY <3>4, <3>6, <3>7 DEF TypeOK
  <2>6. CASE SubmitMaturationProof(n, r)
    <3>1. ProofAccepted(n, r).maturation_proofs = node[n].maturation_proofs
      BY <1>a DEF ProofAccepted, NodeAccount
    <3>2. [ProofAccepted(n, r) EXCEPT
             !.maturation_proofs = ProofAccepted(n, r).maturation_proofs + 1] \in NodeAccount
      <4>1. ProofAccepted(n, r).maturation_proofs + 1 \in Nat
        BY <1>b, <3>1
      <4>2. QED
        BY <2>3, <4>1, AccountUpdates
    <3>3. node' \in [Nodes -> NodeAccount]
      BY <1>c, <2>6, <3>2 DEF SubmitMaturationProof
    <3>4. pending' \in [Nodes -> [Rounds -> PendingProof]]
      BY <2>2, <2>4, <2>6 DEF SubmitMaturationProof
    <3>5. QED
      BY <2>6, <3>3, <3>4 DEF TypeOK, SubmitMaturationProof
  <2>7. ASSUME NEW reward \in RewardOf[node[n].capabilities], SubmitRewardedProof(n, r, reward)
        PROVE  TypeOK'
    <3>1. reward \in Nat
      BY <1>a, AccountFields, InputTypes
    <3>2. node' \in [Nodes -> NodeAccount]
      BY <1>c, <2>3, <2>7 DEF SubmitRewardedProof
    <3>3. pending' \in [Nodes -> [Rounds -> PendingProof]]
      BY <2>2, <2>4, <2>7, <3>1 DEF SubmitRewardedProof
    <3>4. QED
      BY <2>7, <3>2, <3>3 DEF TypeOK, SubmitRewardedProof
  <2>8. QED
    BY <1>7, <2>5, <2>6, <2>7 DEF submit_pulse_proof
<1>8. ASSUME NEW n \in Nodes, NEW r \in Rounds, finalize_reward(n, r) PROVE TypeOK'
  <2> DEFINE reward == pending[n][r].reward_amount
  <2>1. reward \in Nat
    BY <1>a DEF PendingProof
  <2>2. /\ wallet' = [wallet EXCEPT ![n] = wallet[n] + reward]
        /\ program' = [program EXCEPT !.total_minted = program.total_minted + reward]
        /\ node' = [node EXCEPT ![n] =
                      [node[n] EXCEPT !.total_earned = node[n].total_earned + reward]]
        /\ pending' = [pending EXCEPT ![n][r] =
                         [pending[n][r] EXCEPT !.is_finalized = TRUE]]
        /\ UNCHANGED <<now, validation, vault, genesis>>
    BY <1>8, <1>a DEF finalize_reward, TypeOK
  <2> HIDE DEF reward
  <2>3. node[n].total_earned + reward \in Nat /\ program.total_minted + reward \in Nat
    BY <1>a, <1>b, <2>1 DEF ProgramState
  <2>4. node' \in [Nodes -> NodeAccount]
    <3>1. [node[n] EXCEPT !.total_earned = node[n].total_earned + reward] \in NodeAccount
      BY <1>a, <2>3, AccountUpdates
    <3>2. QED
      BY <1>c, <2>2, <3>1
  <2>5. program' \in ProgramState
    <3>1. ASSUME NEW s \in Nat PROVE [program EXCEPT !.total_minted = s] \in ProgramState
      BY <1>a DEF ProgramState
    <3>2. QED
      BY <2>2, <2>3, <3>1
  <2>6. pending' \in [Nodes -> [Rounds -> PendingProof]]
    <3>1. [pending[n][r] EXCEPT !.is_finalized = TRUE] \in PendingProof
      BY <1>a DEF PendingProof
    <3>2. QED
      BY <2>2, <3>1 DEF TypeOK
  <2>7. wallet' \in [Nodes -> Nat]
    BY <2>1, <2>2 DEF TypeOK
  <2>8. QED
    BY <2>2, <2>4, <2>5, <2>6, <2>7 DEF TypeOK
<1>9. ASSUME NEW n \in Nodes, NEW r \in HeartbeatRounds, heartbeat(n, r) PROVE TypeOK'
  <2> DEFINE missed == r - node[n].last_claim_round - 1
             misses == AtMost(node[n].consecutive_misses + AtMost(missed, U8_MAX), U8_MAX)
             left == IF misses >= MAX_CONSECUTIVE_MISSES
                     THEN SaturatingSub(node[n].reputation,
                                        REPUTATION_LOSS_MISSED_ROUND * misses)
                     ELSE node[n].reputation
  <2>1. missed \in Nat
    BY <1>9, <1>a, InputTypes, AccountFields DEF heartbeat
  <2>2. misses \in 0 .. U8_MAX
    <3> HIDE DEF missed
    <3>1. AtMost(missed, U8_MAX) \in Nat
      BY <2>1, HelperTypes, ConstantTypes
    <3>2. node[n].consecutive_misses + AtMost(missed, U8_MAX) \in Nat
      BY <1>a, <3>1, AccountFields, ConstantTypes
    <3>3. QED
      BY <3>2, HelperTypes, ConstantTypes
  <2>3. node' = [node EXCEPT ![n] = [node[n] EXCEPT !.consecutive_misses = misses,
                                                    !.reputation = left]]
    BY <1>9, <1>a DEF heartbeat, TypeOK
  <2> HIDE DEF misses
  <2>4. left \in Nat
    <3>1. REPUTATION_LOSS_MISSED_ROUND * misses \in Nat
      BY <2>2, ConstantTypes
    <3>2. QED
      BY <1>b, <3>1, HelperTypes
  <2> HIDE DEF left
  <2>5. [node[n] EXCEPT !.consecutive_misses = misses, !.reputation = left] \in NodeAccount
    BY <1>a, <2>2, <2>4, AccountUpdates
  <2>6. QED
    BY <1>9, <1>c, <2>3, <2>5 DEF TypeOK, heartbeat
<1>10. ASSUME NEW v \in Nodes, NEW t \in Nodes, NEW r \in Rounds, validate_peer(v, t, r)
       PROVE  TypeOK'
  \* Two updated reputations.
  <2>1. ASSUME NEW i \in Nat, NEW j \in Nat, v # t,
               node' = [node EXCEPT ![v].reputation = i, ![t].reputation = j]
        PROVE  node' \in [Nodes -> NodeAccount]
    <3>1. /\ [node[v] EXCEPT !.reputation = i] \in NodeAccount
          /\ [node[t] EXCEPT !.reputation = j] \in NodeAccount
      BY <1>a, AccountUpdates
    <3>2. node' = [node EXCEPT ![v] = [node[v] EXCEPT !.reputation = i],
                               ![t] = [node[t] EXCEPT !.reputation = j]]
      BY <2>1 DEF TypeOK
    <3>3. QED
      BY <3>1, <3>2 DEF TypeOK
  <2>2. /\ HonestValidator(v) \in Nat
        /\ GainReputation(node[t].reputation, 1) \in Nat
        /\ SaturatingSub(node[v].reputation, REPUTATION_LOSS_INVALID_PROOF) \in Nat
        /\ SaturatingSub(node[t].reputation, REPUTATION_LOSS_INVALID_PROOF \div 2) \in Nat
    <3>1. REPUTATION_LOSS_INVALID_PROOF \div 2 \in Nat
      BY ConstantTypes
    <3>2. HonestValidator(v) \in Nat /\ GainReputation(node[t].reputation, 1) \in Nat
      BY <1>b, GainType, ConstantTypes DEF HonestValidator
    <3>3. QED
      BY <1>b, <3>1, <3>2, HelperTypes, ConstantTypes
  <2>3. CASE ConfirmProof(v, t, r)
    <3>1. node' \in [Nodes -> NodeAccount]
      BY <2>1, <2>2, <2>3 DEF ConfirmProof, MayValidate
    <3>2. [pending[t][r] EXCEPT !.validations_for = pending[t][r].validations_for + 1]
             \in PendingProof
      <4>1. pending[t][r].validations_for + 1 \in 0 .. U8_MAX
        BY <1>a, <2>3, ConstantTypes DEF ConfirmProof, PendingProof
      <4>2. ASSUME NEW k \in 0 .. U8_MAX
            PROVE  [pending[t][r] EXCEPT !.validations_for = k] \in PendingProof
        BY <1>a DEF PendingProof
      <4>3. QED
        BY <4>1, <4>2
    <3>3. pending' \in [Nodes -> [Rounds -> PendingProof]]
      BY <2>3, <3>2 DEF TypeOK, ConfirmProof
    <3>4. /\ validation' = [validation EXCEPT ![t][r][v] = "confirmed"]
          /\ UNCHANGED <<now, program, vault, wallet, genesis>>
      BY <2>3 DEF ConfirmProof
    <3>5. QED
      BY <3>1, <3>3, <3>4 DEF TypeOK
  <2>4. CASE DisputeProof(v, t, r)
    <3>1. node' \in [Nodes -> NodeAccount]
      BY <2>1, <2>2, <2>4 DEF DisputeProof, MayValidate
    <3>2. [pending[t][r] EXCEPT !.validations_against = pending[t][r].validations_against + 1]
             \in PendingProof
      <4>1. pending[t][r].validations_against + 1 \in 0 .. U8_MAX
        BY <1>a, <2>4, ConstantTypes DEF DisputeProof, PendingProof
      <4>2. ASSUME NEW k \in 0 .. U8_MAX
            PROVE  [pending[t][r] EXCEPT !.validations_against = k] \in PendingProof
        BY <1>a DEF PendingProof
      <4>3. QED
        BY <4>1, <4>2
    <3>3. pending' \in [Nodes -> [Rounds -> PendingProof]]
      BY <2>4, <3>2 DEF TypeOK, DisputeProof
    <3>4. /\ validation' = [validation EXCEPT ![t][r][v] = "disputed"]
          /\ UNCHANGED <<now, program, vault, wallet, genesis>>
      BY <2>4 DEF DisputeProof
    <3>5. QED
      BY <3>1, <3>3, <3>4 DEF TypeOK
  <2>5. CASE InconsistentVote(v, t, r)
    <3> DEFINE banned == node[v].strikes + 1 >= MAX_STRIKES_BEFORE_BAN
               left == SaturatingSub(node[v].reputation, REPUTATION_LOSS_INVALID_PROOF)
    <3>1. /\ node' = [node EXCEPT ![v] = [node[v] EXCEPT
                                            !.reputation = left,
                                            !.strikes = node[v].strikes + 1,
                                            !.is_banned = banned]]
          /\ UNCHANGED <<now, program, pending, vault, wallet, genesis>>
      BY <2>5, <1>a DEF InconsistentVote, TypeOK
    <3>2. left \in Nat /\ node[v].strikes + 1 \in Nat /\ banned \in BOOLEAN
      BY <1>b, <2>2
    <3> HIDE DEF banned, left
    <3>3. node' \in [Nodes -> NodeAccount]
      <4>1. [node[v] EXCEPT !.reputation = left,
                            !.strikes = node[v].strikes + 1,
                            !.is_banned = banned] \in NodeAccount
        BY <1>a, <3>2, AccountUpdates
      <4>2. QED
        BY <1>c, <3>1, <4>1
    <3>4. QED
      BY <2>5, <3>1, <3>3 DEF TypeOK, InconsistentVote
  <2>6. QED
    BY <1>10, <2>3, <2>4, <2>5 DEF validate_peer
<1>11. ASSUME NEW n \in Nodes, NEW m \in Nodes, NEW type \in ViolationTypes,
              report_violation(n, m, type)
       PROVE  TypeOK'
  <2> DEFINE slash == slash_amount(node[m].stake_amount, SlashBps(type))
             banned == \/ node[m].strikes + 1 >= MAX_STRIKES_BEFORE_BAN
                       \/ type = 2
             kept == SaturatingSub(node[m].stake_amount, slash)
             left == SaturatingSub(node[m].reputation, ReputationLoss(type))
             gained == GainReputation(node[n].reputation,
                                      REPUTATION_GAIN_PER_VALIDATION * 5)
  <2>1. type \in 0 .. 2 /\ n # m
    BY <1>11 DEF report_violation
  <2>2. slash \in Nat
    BY <1>b, <2>1, SlashTypes
  <2>3. /\ node' = [node EXCEPT
                      ![m] = [node[m] EXCEPT !.stake_amount = kept,
                                             !.strikes = node[m].strikes + 1,
                                             !.reputation = left,
                                             !.is_banned = banned],
                      ![n] = [node[n] EXCEPT !.reputation = gained]]
        /\ program' = [program EXCEPT
                         !.total_slashed = program.total_slashed + slash,
                         !.total_banned = IF banned THEN program.total_banned + 1
                                                    ELSE program.total_banned]
        /\ UNCHANGED <<now, pending, validation, vault, wallet, genesis>>
    BY <1>11, <1>a, <2>1 DEF report_violation, TypeOK
  <2> HIDE DEF slash
  <2>4. banned \in BOOLEAN /\ node[m].strikes + 1 \in Nat
    BY <1>b
  <2> HIDE DEF banned
  <2>5. kept \in Nat /\ left \in Nat /\ gained \in Nat
    <3>1. ReputationLoss(type) \in Nat
      <4>1. type = 0 \/ type = 1 \/ type = 2
        BY <2>1
      <4>2. QED
        BY <4>1, ConstantTypes DEF ReputationLoss
    <3>2. kept \in Nat /\ left \in Nat
      BY <1>b, <2>2, <3>1, HelperTypes
    <3>3. REPUTATION_GAIN_PER_VALIDATION * 5 \in Nat
      BY ConstantTypes
    <3>4. QED
      BY <1>b, <3>2, <3>3, GainType
  <2> HIDE DEF kept, left, gained
  <2>6. node' \in [Nodes -> NodeAccount]
    <3>1. [node[m] EXCEPT !.stake_amount = kept, !.strikes = node[m].strikes + 1,
                          !.reputation = left, !.is_banned = banned] \in NodeAccount
      BY <1>a, <2>4, <2>5, AccountUpdates
    <3>2. [node[n] EXCEPT !.reputation = gained] \in NodeAccount
      BY <1>a, <2>5, AccountUpdates
    <3>3. QED
      BY <2>3, <3>1, <3>2 DEF TypeOK
  <2>7. program' \in ProgramState
    <3>1. ASSUME NEW i \in Nat, NEW j \in Nat
          PROVE  [program EXCEPT !.total_slashed = i, !.total_banned = j] \in ProgramState
      BY <1>a DEF ProgramState
    <3>2. /\ program.total_slashed + slash \in Nat
          /\ (IF banned THEN program.total_banned + 1 ELSE program.total_banned) \in Nat
      BY <1>a, <2>2 DEF ProgramState
    <3>3. QED
      BY <2>3, <3>1, <3>2
  <2>8. QED
    BY <2>3, <2>6, <2>7 DEF TypeOK
<1>12. CASE Tick
  BY <1>12 DEF TypeOK, Tick
<1>13. CASE UNCHANGED vars
  BY <1>13 DEF TypeOK, vars
<1>14. QED
  BY <1>1, <1>2, <1>3, <1>4, <1>5, <1>6, <1>7, <1>8, <1>9, <1>10, <1>11,
     <1>12, <1>13 DEF Next

\* The accounts always hold values of their Rust types.
THEOREM TypeCorrect == Spec => []TypeOK
  BY InitTypeOK, NextTypeOK, PTL DEF Spec

-----------------------------------------------------------------------------
(***************************************************************************)
(* Effects, one lemma for each instruction: what becomes of the account    *)
(* fields that the invariants below speak of.  The proofs of the           *)
(* invariants use these lemmas and expand no handler.                      *)
(***************************************************************************)
\* The standing of a node: what registration fixes and penalties change.
Standing(x) == <<x.registered, x.registered_at, x.is_matured, x.maturation_proofs,
                 x.is_banned, x.strikes, x.consecutive_failures>>

\* Its latest claim.
Claimed(x) == <<x.last_claim_round, x.last_claim_at>>

\* Its stake.
Staked(x) == <<x.stake_amount, x.pending_unstake>>

LEMMA InitializeEffect ==
    ASSUME TypeOK, NEW cap \in SupplyCaps, initialize(cap)
    PROVE  /\ ~program.initialized
           /\ program'.initialized
           /\ program'.supply_cap \in Nat
           /\ program'.total_minted = program.total_minted
           /\ UNCHANGED <<now, node, pending, validation, vault, wallet, genesis>>
  BY InputTypes, ConstantTypes DEF TypeOK, ProgramState, initialize

LEMMA RegisterEffect ==
    ASSUME TypeOK, NEW n \in Nodes, NEW c \in Capabilities, register_node(n, c)
    PROVE  /\ ~node[n].registered
           /\ Standing(node'[n]) = <<TRUE, now, FALSE, 0, FALSE, 0, 0>>
           /\ Claimed(node'[n]) = <<0, 0>>
           /\ Staked(node'[n]) = <<0, 0>>
           /\ \A k \in Nodes \ {n} : node'[k] = node[k]
           /\ UNCHANGED <<now, program, pending, validation, vault, wallet, genesis>>
  BY DEF TypeOK, register_node, NoNode, Standing, Claimed, Staked

LEMMA CapabilitiesEffect ==
    ASSUME TypeOK, NEW n \in Nodes, NEW c \in Capabilities, update_capabilities(n, c)
    PROVE  /\ \A k \in Nodes : /\ Standing(node'[k]) = Standing(node[k])
                               /\ Claimed(node'[k]) = Claimed(node[k])
                               /\ Staked(node'[k]) = Staked(node[k])
           /\ UNCHANGED <<now, program, pending, validation, vault, wallet, genesis>>
  BY DEF TypeOK, NodeAccount, update_capabilities, Standing, Claimed, Staked

LEMMA StakeEffect ==
    ASSUME TypeOK, NEW n \in Nodes, NEW amount \in StakeAmounts, stake(n, amount)
    PROVE  /\ amount >= MIN_STAKE /\ amount <= wallet[n]
           /\ ~node[n].is_banned
           /\ \A k \in Nodes : /\ Standing(node'[k]) = Standing(node[k])
                               /\ Claimed(node'[k]) = Claimed(node[k])
           /\ \A k \in Nodes \ {n} : Staked(node'[k]) = Staked(node[k])
           /\ Staked(node'[n]) = <<node[n].stake_amount + amount, node[n].pending_unstake>>
           /\ UNCHANGED <<now, program, pending, validation, genesis>>
  BY DEF TypeOK, NodeAccount, stake, Standing, Claimed, Staked

LEMMA RequestUnstakeEffect ==
    ASSUME TypeOK, NEW n \in Nodes, NEW amount \in UnstakeAmounts, request_unstake(n, amount)
    PROVE  /\ \/ node[n].stake_amount - amount >= MIN_STAKE
              \/ amount = node[n].stake_amount
           /\ \A k \in Nodes : /\ Standing(node'[k]) = Standing(node[k])
                               /\ Claimed(node'[k]) = Claimed(node[k])
           /\ \A k \in Nodes \ {n} : Staked(node'[k]) = Staked(node[k])
           /\ Staked(node'[n]) = <<node[n].stake_amount, amount>>
           /\ UNCHANGED <<now, program, pending, validation, vault, wallet, genesis>>
  BY DEF TypeOK, NodeAccount, request_unstake, Standing, Claimed, Staked

LEMMA WithdrawEffect ==
    ASSUME TypeOK, NEW n \in Nodes, withdraw_unstake(n)
    PROVE  /\ node[n].pending_unstake > 0
           /\ node[n].pending_unstake <= node[n].stake_amount
           /\ \A k \in Nodes : /\ Standing(node'[k]) = Standing(node[k])
                               /\ Claimed(node'[k]) = Claimed(node[k])
           /\ \A k \in Nodes \ {n} : Staked(node'[k]) = Staked(node[k])
           /\ Staked(node'[n]) = <<node[n].stake_amount - node[n].pending_unstake, 0>>
           /\ UNCHANGED <<now, program, pending, validation, genesis>>
  BY DEF TypeOK, NodeAccount, withdraw_unstake, Standing, Claimed, Staked

LEMMA FailureEffect ==
    ASSUME NEW x \in NodeAccount
    PROVE  /\ Standing(apply_proof_failure(x)) =
                 <<x.registered, x.registered_at, x.is_matured, x.maturation_proofs,
                   x.is_banned \/ x.strikes + 1 >= MAX_STRIKES_BEFORE_BAN,
                   x.strikes + 1, x.consecutive_failures + 1>>
           /\ Claimed(apply_proof_failure(x)) = Claimed(x)
           /\ apply_proof_failure(x).stake_amount \in 0 .. x.stake_amount
           /\ apply_proof_failure(x).pending_unstake = x.pending_unstake
<1> DEFINE slash == slash_amount(x.stake_amount, SLASH_INVALID_PROOF_BPS)
<1>1. SaturatingSub(x.stake_amount, slash) \in 0 .. x.stake_amount
  <2>1. \A s, l \in Nat : SaturatingSub(s, l) \in 0 .. s
    BY DEF SaturatingSub
  <2>2. x.stake_amount \in Nat
    BY AccountFields
  <2>3. slash \in Nat
    BY <2>2, SlashTypes
  <2> HIDE DEF slash
  <2>4. QED
    BY <2>1, <2>2, <2>3
<1>2. apply_proof_failure(x).stake_amount = SaturatingSub(x.stake_amount, slash)
  BY DEF apply_proof_failure, NodeAccount
<1>3. apply_proof_failure(x).pending_unstake = x.pending_unstake
  BY DEF apply_proof_failure, NodeAccount
<1>4. Claimed(apply_proof_failure(x)) = Claimed(x)
  BY DEF apply_proof_failure, NodeAccount, Claimed
<1>5. Standing(apply_proof_failure(x)) =
         <<x.registered, x.registered_at, x.is_matured, x.maturation_proofs,
           x.is_banned \/ x.strikes + 1 >= MAX_STRIKES_BEFORE_BAN,
           x.strikes + 1, x.consecutive_failures + 1>>
  BY DEF apply_proof_failure, NodeAccount, Standing
<1>6. QED
  BY <1>1, <1>2, <1>3, <1>4, <1>5

LEMMA InvalidProofEffect ==
    ASSUME TypeOK, NEW n \in Nodes, NEW r \in Rounds, SubmitInvalidProof(n, r)
    PROVE  /\ MaySubmit(n, r)
           /\ Standing(node'[n]) =
                 <<node[n].registered, node[n].registered_at, Matures(n),
                   node[n].maturation_proofs,
                   node[n].is_banned \/ node[n].strikes + 1 >= MAX_STRIKES_BEFORE_BAN,
                   node[n].strikes + 1, node[n].consecutive_failures + 1>>
           /\ Claimed(node'[n]) = Claimed(node[n])
           /\ node'[n].stake_amount \in 0 .. node[n].stake_amount
           /\ node'[n].pending_unstake = node[n].pending_unstake
           /\ \A k \in Nodes \ {n} : node'[k] = node[k]
           /\ pending' = [pending EXCEPT ![n][r] = PendingRecord(0, TRUE)]
           /\ program'.initialized = program.initialized
           /\ program'.supply_cap = program.supply_cap
           /\ program'.total_minted = program.total_minted
           /\ UNCHANGED <<now, validation, vault, wallet, genesis>>
<1> DEFINE account == [node[n] EXCEPT !.is_matured = Matures(n)]
           failed == apply_proof_failure(account)
<1>1. /\ MaySubmit(n, r)
      /\ node' = [node EXCEPT ![n] = failed]
      /\ pending' = [pending EXCEPT ![n][r] = PendingRecord(0, TRUE)]
      /\ UNCHANGED <<now, validation, vault, wallet, genesis>>
  BY DEF SubmitInvalidProof
<1>2. /\ program'.initialized = program.initialized
      /\ program'.supply_cap = program.supply_cap
      /\ program'.total_minted = program.total_minted
  BY DEF TypeOK, ProgramState, SubmitInvalidProof
<1>3. /\ node[n] \in NodeAccount
      /\ node'[n] = failed
      /\ \A k \in Nodes \ {n} : node'[k] = node[k]
  BY <1>1 DEF TypeOK
<1>4. Matures(n) \in BOOLEAN
  BY <1>3, AccountFields DEF Matures
<1>5. /\ account \in NodeAccount
      /\ Standing(account) = [Standing(node[n]) EXCEPT ![3] = Matures(n)]
      /\ Claimed(account) = Claimed(node[n])
      /\ Staked(account) = Staked(node[n])
  BY <1>3, <1>4 DEF NodeAccount, Standing, Claimed, Staked
<1> HIDE DEF account
<1>6. QED
  BY <1>1, <1>2, <1>3, <1>5, FailureEffect DEF Standing, Claimed, Staked

LEMMA AcceptedEffect ==
    ASSUME NEW n \in Nodes, NEW r \in Rounds, node[n] \in NodeAccount
    PROVE  /\ Standing(ProofAccepted(n, r)) =
                 <<node[n].registered, node[n].registered_at, Matures(n),
                   node[n].maturation_proofs, node[n].is_banned, node[n].strikes, 0>>
           /\ Claimed(ProofAccepted(n, r)) = <<r, now>>
           /\ Staked(ProofAccepted(n, r)) = Staked(node[n])
  BY DEF ProofAccepted, NodeAccount, Standing, Claimed, Staked

LEMMA MaturationProofEffect ==
    ASSUME TypeOK, NEW n \in Nodes, NEW r \in Rounds, SubmitMaturationProof(n, r)
    PROVE  /\ MaySubmit(n, r) /\ ~Matures(n)
           /\ Standing(node'[n]) =
                 <<node[n].registered, node[n].registered_at, FALSE,
                   node[n].maturation_proofs + 1, node[n].is_banned, node[n].strikes, 0>>
           /\ Claimed(node'[n]) = <<r, now>>
           /\ Staked(node'[n]) = Staked(node[n])
           /\ \A k \in Nodes \ {n} : node'[k] = node[k]
           /\ pending' = [pending EXCEPT ![n][r] = PendingRecord(0, TRUE)]
           /\ UNCHANGED <<now, program, validation, vault, wallet, genesis>>
<1> DEFINE accepted == ProofAccepted(n, r)
<1>1. node[n] \in NodeAccount
  BY DEF TypeOK
<1>2. /\ MaySubmit(n, r) /\ ~Matures(n)
      /\ node'[n] = [accepted EXCEPT !.maturation_proofs = accepted.maturation_proofs + 1]
      /\ \A k \in Nodes \ {n} : node'[k] = node[k]
      /\ pending' = [pending EXCEPT ![n][r] = PendingRecord(0, TRUE)]
      /\ UNCHANGED <<now, program, validation, vault, wallet, genesis>>
  BY DEF TypeOK, SubmitMaturationProof
<1>3. accepted \in NodeAccount
  BY <1>1, AcceptedType DEF TypeOK
<1>4. /\ Standing(accepted) =
            <<node[n].registered, node[n].registered_at, Matures(n),
              node[n].maturation_proofs, node[n].is_banned, node[n].strikes, 0>>
      /\ Claimed(accepted) = <<r, now>>
      /\ Staked(accepted) = Staked(node[n])
  BY <1>1, AcceptedEffect
<1> HIDE DEF accepted
<1>5. ASSUME NEW proofs \in Nat,
             node'[n] = [accepted EXCEPT !.maturation_proofs = proofs]
      PROVE  /\ Standing(node'[n]) =
                   <<accepted.registered, accepted.registered_at, accepted.is_matured,
                     proofs, accepted.is_banned, accepted.strikes,
                     accepted.consecutive_failures>>
             /\ Claimed(node'[n]) = Claimed(accepted)
             /\ Staked(node'[n]) = Staked(accepted)
  BY <1>3, <1>5 DEF NodeAccount, Standing, Claimed, Staked
<1>6. /\ accepted.maturation_proofs = node[n].maturation_proofs
      /\ node[n].maturation_proofs + 1 \in Nat
  BY <1>1, <1>4, AccountFields DEF Standing
<1>7. Matures(n) = FALSE
  BY <1>1, <1>2, AccountFields DEF Matures
<1> DEFINE proofs == node[n].maturation_proofs + 1
<1>8. proofs \in Nat /\ node'[n] = [accepted EXCEPT !.maturation_proofs = proofs]
  BY <1>2, <1>6
<1> HIDE DEF proofs
<1>9. Standing(node'[n]) =
         <<node[n].registered, node[n].registered_at, FALSE,
           proofs, node[n].is_banned, node[n].strikes, 0>>
  <2>1. /\ accepted.registered = node[n].registered
        /\ accepted.registered_at = node[n].registered_at
        /\ accepted.is_matured = FALSE
        /\ accepted.is_banned = node[n].is_banned
        /\ accepted.strikes = node[n].strikes
        /\ accepted.consecutive_failures = 0
    BY <1>4, <1>7 DEF Standing
  <2>2. QED
    BY <1>5, <1>8, <2>1
<1>10. Claimed(node'[n]) = <<r, now>> /\ Staked(node'[n]) = Staked(node[n])
  BY <1>4, <1>5, <1>8
<1> USE DEF proofs
<1>11. QED
  BY <1>2, <1>9, <1>10

LEMMA RewardedProofEffect ==
    ASSUME TypeOK, NEW n \in Nodes, NEW r \in Rounds,
           NEW reward \in RewardOf[node[n].capabilities], SubmitRewardedProof(n, r, reward)
    PROVE  /\ MaySubmit(n, r) /\ Matures(n)
           /\ reward \in Nat \ {0}
           /\ Standing(node'[n]) =
                 <<node[n].registered, node[n].registered_at, TRUE,
                   node[n].maturation_proofs, node[n].is_banned, node[n].strikes, 0>>
           /\ Claimed(node'[n]) = <<r, now>>
           /\ Staked(node'[n]) = Staked(node[n])
           /\ \A k \in Nodes \ {n} : node'[k] = node[k]
           /\ pending' = [pending EXCEPT ![n][r] = PendingRecord(reward, FALSE)]
           /\ UNCHANGED <<now, program, validation, vault, wallet, genesis>>
<1>1. node[n] \in NodeAccount
  BY DEF TypeOK
<1>2. reward \in Nat \ {0}
  BY <1>1, AccountFields, InputTypes
<1>3. /\ MaySubmit(n, r) /\ Matures(n)
      /\ node'[n] = ProofAccepted(n, r)
      /\ \A k \in Nodes \ {n} : node'[k] = node[k]
      /\ pending' = [pending EXCEPT ![n][r] = PendingRecord(reward, FALSE)]
      /\ UNCHANGED <<now, program, validation, vault, wallet, genesis>>
  BY DEF TypeOK, SubmitRewardedProof
<1>4. QED
  BY <1>1, <1>2, <1>3, AcceptedEffect

\* Two reputations and nothing else.
LEMMA ReputationEffect ==
    ASSUME TypeOK, NEW v \in Nodes, NEW t \in Nodes, v # t, NEW i, NEW j,
           node' = [node EXCEPT ![v].reputation = i, ![t].reputation = j]
    PROVE  \A k \in Nodes : /\ Standing(node'[k]) = Standing(node[k])
                            /\ Claimed(node'[k]) = Claimed(node[k])
                            /\ Staked(node'[k]) = Staked(node[k])
<1>1. ASSUME NEW x \in NodeAccount, NEW rep
      PROVE  /\ Standing([x EXCEPT !.reputation = rep]) = Standing(x)
             /\ Claimed([x EXCEPT !.reputation = rep]) = Claimed(x)
             /\ Staked([x EXCEPT !.reputation = rep]) = Staked(x)
  BY DEF NodeAccount, Standing, Claimed, Staked
<1>2. /\ node'[v] = [node[v] EXCEPT !.reputation = i]
      /\ node'[t] = [node[t] EXCEPT !.reputation = j]
      /\ \A k \in Nodes \ {v, t} : node'[k] = node[k]
      /\ \A k \in Nodes : node[k] \in NodeAccount
  BY DEF TypeOK
<1>3. SUFFICES ASSUME NEW k \in Nodes
               PROVE  /\ Standing(node'[k]) = Standing(node[k])
                      /\ Claimed(node'[k]) = Claimed(node[k])
                      /\ Staked(node'[k]) = Staked(node[k])
  OBVIOUS
<1>4. CASE k = v
  BY <1>1, <1>2, <1>4
<1>5. CASE k = t
  BY <1>1, <1>2, <1>5
<1>6. CASE k \notin {v, t}
  BY <1>2, <1>6
<1>7. QED
  BY <1>4, <1>5, <1>6

LEMMA ConfirmEffect ==
    ASSUME TypeOK, NEW v \in Nodes, NEW t \in Nodes, NEW r \in Rounds, ConfirmProof(v, t, r)
    PROVE  /\ MayValidate(v, t, r)
           /\ \A k \in Nodes : /\ Standing(node'[k]) = Standing(node[k])
                               /\ Claimed(node'[k]) = Claimed(node[k])
                               /\ Staked(node'[k]) = Staked(node[k])
           /\ validation' = [validation EXCEPT ![t][r][v] = "confirmed"]
           /\ pending' = [pending EXCEPT ![t][r].validations_for = @ + 1]
           /\ UNCHANGED <<now, program, vault, wallet, genesis>>
<1> DEFINE left == GainReputation(node[t].reputation, 1)
<1>1. v # t /\ node' = [node EXCEPT ![v].reputation = HonestValidator(v),
                                    ![t].reputation = left]
  BY DEF TypeOK, ConfirmProof, MayValidate
<1> HIDE DEF left
<1>2. \A k \in Nodes : /\ Standing(node'[k]) = Standing(node[k])
                       /\ Claimed(node'[k]) = Claimed(node[k])
                       /\ Staked(node'[k]) = Staked(node[k])
  BY <1>1, ReputationEffect
<1>3. QED
  BY <1>2 DEF ConfirmProof

LEMMA DisputeEffect ==
    ASSUME TypeOK, NEW v \in Nodes, NEW t \in Nodes, NEW r \in Rounds, DisputeProof(v, t, r)
    PROVE  /\ MayValidate(v, t, r)
           /\ \A k \in Nodes : /\ Standing(node'[k]) = Standing(node[k])
                               /\ Claimed(node'[k]) = Claimed(node[k])
                               /\ Staked(node'[k]) = Staked(node[k])
           /\ validation' = [validation EXCEPT ![t][r][v] = "disputed"]
           /\ pending' = [pending EXCEPT ![t][r].validations_against = @ + 1]
           /\ UNCHANGED <<now, program, vault, wallet, genesis>>
<1> DEFINE left == SaturatingSub(node[t].reputation, REPUTATION_LOSS_INVALID_PROOF \div 2)
<1>1. v # t /\ node' = [node EXCEPT ![v].reputation = HonestValidator(v),
                                    ![t].reputation = left]
  BY DEF TypeOK, DisputeProof, MayValidate
<1> HIDE DEF left
<1>2. \A k \in Nodes : /\ Standing(node'[k]) = Standing(node[k])
                       /\ Claimed(node'[k]) = Claimed(node[k])
                       /\ Staked(node'[k]) = Staked(node[k])
  BY <1>1, ReputationEffect
<1>3. QED
  BY <1>2 DEF DisputeProof

LEMMA InconsistentEffect ==
    ASSUME TypeOK, NEW v \in Nodes, NEW t \in Nodes, NEW r \in Rounds,
           InconsistentVote(v, t, r)
    PROVE  /\ MayValidate(v, t, r)
           /\ Standing(node'[v]) =
                 <<node[v].registered, node[v].registered_at, node[v].is_matured,
                   node[v].maturation_proofs,
                   node[v].strikes + 1 >= MAX_STRIKES_BEFORE_BAN,
                   node[v].strikes + 1, node[v].consecutive_failures>>
           /\ \A k \in Nodes : /\ Claimed(node'[k]) = Claimed(node[k])
                               /\ Staked(node'[k]) = Staked(node[k])
           /\ \A k \in Nodes \ {v} : node'[k] = node[k]
           /\ validation' = [validation EXCEPT ![t][r][v] = "inconsistent"]
           /\ UNCHANGED <<now, program, pending, vault, wallet, genesis>>
  BY DEF TypeOK, NodeAccount, InconsistentVote, Standing, Claimed, Staked

LEMMA FinalizeEffect ==
    ASSUME TypeOK, NEW n \in Nodes, NEW r \in Rounds, finalize_reward(n, r)
    PROVE  /\ MayFinalize(n, r)
           /\ \A k \in Nodes : /\ Standing(node'[k]) = Standing(node[k])
                               /\ Claimed(node'[k]) = Claimed(node[k])
                               /\ Staked(node'[k]) = Staked(node[k])
           /\ program'.initialized = program.initialized
           /\ program'.supply_cap = program.supply_cap
           /\ program'.total_minted = program.total_minted + pending[n][r].reward_amount
           /\ pending' = [pending EXCEPT ![n][r].is_finalized = TRUE]
           /\ UNCHANGED <<now, validation, vault, genesis>>
<1>1. program'.initialized = program.initialized
      /\ program'.supply_cap = program.supply_cap
      /\ program'.total_minted = program.total_minted + pending[n][r].reward_amount
  BY DEF TypeOK, ProgramState, finalize_reward
<1>2. \A k \in Nodes : /\ Standing(node'[k]) = Standing(node[k])
                       /\ Claimed(node'[k]) = Claimed(node[k])
                       /\ Staked(node'[k]) = Staked(node[k])
  <2> DEFINE earned == node[n].total_earned + pending[n][r].reward_amount
  <2>1. node' = [node EXCEPT ![n].total_earned = earned]
    BY DEF TypeOK, finalize_reward
  <2> HIDE DEF earned
  <2>2. QED
    BY <2>1 DEF TypeOK, NodeAccount, Standing, Claimed, Staked
<1>3. QED
  BY <1>1, <1>2 DEF finalize_reward

LEMMA ReportEffect ==
    ASSUME TypeOK, NEW n \in Nodes, NEW m \in Nodes, NEW type \in ViolationTypes,
           report_violation(n, m, type)
    PROVE  /\ ~node[m].is_banned
           /\ Standing(node'[m]) =
                 <<node[m].registered, node[m].registered_at, node[m].is_matured,
                   node[m].maturation_proofs,
                   node[m].strikes + 1 >= MAX_STRIKES_BEFORE_BAN \/ type = 2,
                   node[m].strikes + 1, node[m].consecutive_failures>>
           /\ \A k \in Nodes \ {m} : /\ Standing(node'[k]) = Standing(node[k])
                                     /\ Staked(node'[k]) = Staked(node[k])
           /\ \A k \in Nodes : Claimed(node'[k]) = Claimed(node[k])
           /\ node'[m].stake_amount \in 0 .. node[m].stake_amount
           /\ node'[m].pending_unstake = node[m].pending_unstake
           /\ program'.initialized = program.initialized
           /\ program'.supply_cap = program.supply_cap
           /\ program'.total_minted = program.total_minted
           /\ UNCHANGED <<now, pending, validation, vault, wallet, genesis>>
<1> DEFINE slash == slash_amount(node[m].stake_amount, SlashBps(type))
           left == SaturatingSub(node[m].reputation, ReputationLoss(type))
           gained == GainReputation(node[n].reputation,
                                    REPUTATION_GAIN_PER_VALIDATION * 5)
<1>1. /\ ~node[m].is_banned /\ n # m /\ type \in 0 .. 2
      /\ node' = [node EXCEPT
                    ![m].stake_amount = SaturatingSub(@, slash),
                    ![m].strikes = @ + 1,
                    ![m].reputation = left,
                    ![m].is_banned = \/ node[m].strikes + 1 >= MAX_STRIKES_BEFORE_BAN
                                     \/ type = 2,
                    ![n].reputation = gained]
      /\ UNCHANGED <<now, pending, validation, vault, wallet, genesis>>
  BY DEF TypeOK, report_violation
<1>2. /\ program'.initialized = program.initialized
      /\ program'.supply_cap = program.supply_cap
      /\ program'.total_minted = program.total_minted
  BY DEF TypeOK, ProgramState, report_violation
<1>3. SaturatingSub(node[m].stake_amount, slash) \in 0 .. node[m].stake_amount
  <2>1. \A s, l \in Nat : SaturatingSub(s, l) \in 0 .. s
    BY DEF SaturatingSub
  <2>2. node[m].stake_amount \in Nat
    BY AccountFields DEF TypeOK
  <2>3. slash \in Nat
    BY <1>1, <2>2, SlashTypes
  <2> HIDE DEF slash
  <2>4. QED
    BY <2>1, <2>2, <2>3
<1> HIDE DEF slash, left, gained
<1>4. /\ Standing(node'[m]) =
            <<node[m].registered, node[m].registered_at, node[m].is_matured,
              node[m].maturation_proofs,
              node[m].strikes + 1 >= MAX_STRIKES_BEFORE_BAN \/ type = 2,
              node[m].strikes + 1, node[m].consecutive_failures>>
      /\ \A k \in Nodes \ {m} : /\ Standing(node'[k]) = Standing(node[k])
                                /\ Staked(node'[k]) = Staked(node[k])
      /\ \A k \in Nodes : Claimed(node'[k]) = Claimed(node[k])
  <2> DEFINE banned == \/ node[m].strikes + 1 >= MAX_STRIKES_BEFORE_BAN
                       \/ type = 2
             strikes == node[m].strikes + 1
             kept == SaturatingSub(node[m].stake_amount, slash)
             x == [node[m] EXCEPT !.stake_amount = kept, !.strikes = strikes,
                                  !.reputation = left, !.is_banned = banned]
             y == [node[n] EXCEPT !.reputation = gained]
  <2>1. node' = [node EXCEPT ![m] = x, ![n] = y]
    BY <1>1 DEF TypeOK
  <2>2. node[m] \in NodeAccount /\ node[n] \in NodeAccount
    BY DEF TypeOK
  <2> HIDE DEF banned, strikes, kept
  <2>3. /\ Standing(x) =
              <<node[m].registered, node[m].registered_at, node[m].is_matured,
                node[m].maturation_proofs, banned, strikes, node[m].consecutive_failures>>
        /\ Claimed(x) = Claimed(node[m])
    BY <2>2 DEF NodeAccount, Standing, Claimed
  <2>4. /\ Standing(y) = Standing(node[n])
        /\ Claimed(y) = Claimed(node[n])
        /\ Staked(y) = Staked(node[n])
    BY <2>2 DEF NodeAccount, Standing, Claimed, Staked
  <2> HIDE DEF x, y
  <2>5. /\ node'[m] = x /\ node'[n] = y
        /\ \A k \in Nodes \ {m, n} : node'[k] = node[k]
    BY <1>1, <2>1 DEF TypeOK
  <2>6. QED
    BY <2>3, <2>4, <2>5 DEF banned, strikes
<1>5. /\ node'[m].stake_amount = SaturatingSub(node[m].stake_amount, slash)
      /\ node'[m].pending_unstake = node[m].pending_unstake
  BY <1>1 DEF TypeOK, NodeAccount
<1>6. QED
  BY <1>1, <1>2, <1>3, <1>4, <1>5

LEMMA HeartbeatEffect ==
    ASSUME TypeOK, NEW n \in Nodes, NEW r \in HeartbeatRounds, heartbeat(n, r)
    PROVE  /\ \A k \in Nodes : /\ Standing(node'[k]) = Standing(node[k])
                               /\ Claimed(node'[k]) = Claimed(node[k])
                               /\ Staked(node'[k]) = Staked(node[k])
           /\ UNCHANGED <<now, program, pending, validation, vault, wallet, genesis>>
<1> DEFINE misses == AtMost(node[n].consecutive_misses
                              + AtMost(r - node[n].last_claim_round - 1, U8_MAX), U8_MAX)
           left == IF misses >= MAX_CONSECUTIVE_MISSES
                   THEN SaturatingSub(node[n].reputation,
                                      REPUTATION_LOSS_MISSED_ROUND * misses)
                   ELSE node[n].reputation
<1>1. /\ node' = [node EXCEPT ![n].consecutive_misses = misses, ![n].reputation = left]
      /\ UNCHANGED <<now, program, pending, validation, vault, wallet, genesis>>
  BY DEF TypeOK, heartbeat
<1> HIDE DEF misses, left
<1>2. QED
  BY <1>1 DEF TypeOK, NodeAccount, Standing, Claimed, Staked

-----------------------------------------------------------------------------
(***************************************************************************)
(* What a step of the program may do to the standing of one node, whoever  *)
(* took it: nothing, register it, fail its proof, accept its proof, or     *)
(* strike it for a vote or on a report.  Only a node that is not banned is *)
(* failed, accepted or struck.                                             *)
(***************************************************************************)
Registered(k) ==
    /\ ~node[k].registered
    /\ Standing(node'[k]) = <<TRUE, now, FALSE, 0, FALSE, 0, 0>>
    /\ Staked(node'[k]) = <<0, 0>>

Failed(k) ==
    /\ node[k].registered /\ ~node[k].is_banned
    /\ Standing(node'[k]) =
          <<node[k].registered, node[k].registered_at, Matures(k),
            node[k].maturation_proofs,
            node[k].is_banned \/ node[k].strikes + 1 >= MAX_STRIKES_BEFORE_BAN,
            node[k].strikes + 1, node[k].consecutive_failures + 1>>

Accepted(k) ==
    /\ node[k].registered /\ ~node[k].is_banned
    /\ \E proofs \in Nat :
         /\ proofs >= node[k].maturation_proofs
         /\ Standing(node'[k]) =
               <<node[k].registered, node[k].registered_at, Matures(k),
                 proofs, node[k].is_banned, node[k].strikes, 0>>

Struck(k) ==
    /\ ~node[k].is_banned
    /\ \E banned \in BOOLEAN :
         /\ node[k].strikes + 1 >= MAX_STRIKES_BEFORE_BAN => banned
         /\ Standing(node'[k]) =
               <<node[k].registered, node[k].registered_at, node[k].is_matured,
                 node[k].maturation_proofs, banned, node[k].strikes + 1,
                 node[k].consecutive_failures>>

StandingStep(k) ==
    \/ Standing(node'[k]) = Standing(node[k])
    \/ Registered(k)
    \/ Failed(k)
    \/ Accepted(k)
    \/ Struck(k)

LEMMA StandingSteps == TypeOK /\ [Next]_vars => \A k \in Nodes : StandingStep(k)
<1> SUFFICES ASSUME TypeOK, [Next]_vars, NEW k \in Nodes PROVE StandingStep(k)
  OBVIOUS
<1> USE DEF StandingStep
<1>a. node[k] \in NodeAccount
  BY DEF TypeOK
<1>1. ASSUME NEW cap \in SupplyCaps, initialize(cap) PROVE StandingStep(k)
  BY <1>1 DEF initialize
<1>2. ASSUME NEW n \in Nodes, NEW c \in Capabilities, register_node(n, c)
      PROVE  StandingStep(k)
  BY <1>2, RegisterEffect DEF Registered
<1>3. ASSUME NEW n \in Nodes, NEW c \in Capabilities, update_capabilities(n, c)
      PROVE  StandingStep(k)
  BY <1>3, CapabilitiesEffect
<1>4. ASSUME NEW n \in Nodes, NEW amount \in StakeAmounts, stake(n, amount)
      PROVE  StandingStep(k)
  BY <1>4, StakeEffect
<1>5. ASSUME NEW n \in Nodes, NEW amount \in UnstakeAmounts, request_unstake(n, amount)
      PROVE  StandingStep(k)
  BY <1>5, RequestUnstakeEffect
<1>6. ASSUME NEW n \in Nodes, withdraw_unstake(n) PROVE StandingStep(k)
  BY <1>6, WithdrawEffect
<1>7. ASSUME NEW n \in Nodes, NEW r \in Rounds, SubmitInvalidProof(n, r)
      PROVE  StandingStep(k)
  BY <1>7, InvalidProofEffect DEF Failed, MaySubmit
<1>8. ASSUME NEW n \in Nodes, NEW r \in Rounds, SubmitMaturationProof(n, r)
      PROVE  StandingStep(k)
  <2>1. node[n] \in NodeAccount /\ node[n].registered /\ ~node[n].is_banned
    BY <1>8, MaturationProofEffect DEF TypeOK, MaySubmit
  <2>2. Matures(n) = FALSE
    BY <1>8, <2>1, MaturationProofEffect, AccountFields DEF Matures
  <2>3. node[n].maturation_proofs + 1 \in Nat
        /\ node[n].maturation_proofs + 1 >= node[n].maturation_proofs
    BY <2>1, AccountFields
  <2>4. Accepted(n)
    BY <1>8, <2>1, <2>2, <2>3, MaturationProofEffect DEF Accepted
  <2>5. QED
    BY <1>8, <2>4, MaturationProofEffect
<1>9. ASSUME NEW n \in Nodes, NEW r \in Rounds,
             NEW reward \in RewardOf[node[n].capabilities], SubmitRewardedProof(n, r, reward)
      PROVE  StandingStep(k)
  <2>1. node[n] \in NodeAccount /\ node[n].registered /\ ~node[n].is_banned
    BY <1>9, RewardedProofEffect DEF TypeOK, MaySubmit
  <2>2. Matures(n) = TRUE
    BY <1>9, <2>1, RewardedProofEffect, AccountFields DEF Matures
  <2>3. node[n].maturation_proofs \in Nat
        /\ node[n].maturation_proofs >= node[n].maturation_proofs
    BY <2>1, AccountFields
  <2>4. Accepted(n)
    BY <1>9, <2>1, <2>2, <2>3, RewardedProofEffect DEF Accepted
  <2>5. QED
    BY <1>9, <2>4, RewardedProofEffect
<1>10. ASSUME NEW n \in Nodes, NEW r \in Rounds, finalize_reward(n, r)
       PROVE  StandingStep(k)
  BY <1>10, FinalizeEffect
<1>11. ASSUME NEW n \in Nodes, NEW r \in HeartbeatRounds, heartbeat(n, r)
       PROVE  StandingStep(k)
  BY <1>11, HeartbeatEffect
<1>12. ASSUME NEW v \in Nodes, NEW t \in Nodes, NEW r \in Rounds, ConfirmProof(v, t, r)
       PROVE  StandingStep(k)
  BY <1>12, ConfirmEffect
<1>13. ASSUME NEW v \in Nodes, NEW t \in Nodes, NEW r \in Rounds, DisputeProof(v, t, r)
       PROVE  StandingStep(k)
  BY <1>13, DisputeEffect
<1>14. ASSUME NEW v \in Nodes, NEW t \in Nodes, NEW r \in Rounds, InconsistentVote(v, t, r)
       PROVE  StandingStep(k)
  <2>1. Struck(v)
    <3> DEFINE banned == node[v].strikes + 1 >= MAX_STRIKES_BEFORE_BAN
    <3>1. /\ Standing(node'[v]) =
                <<node[v].registered, node[v].registered_at, node[v].is_matured,
                  node[v].maturation_proofs, banned, node[v].strikes + 1,
                  node[v].consecutive_failures>>
          /\ ~node[v].is_banned
      BY <1>14, InconsistentEffect DEF MayValidate
    <3>2. /\ banned \in BOOLEAN
          /\ node[v].strikes + 1 >= MAX_STRIKES_BEFORE_BAN => banned
      OBVIOUS
    <3> HIDE DEF banned
    <3>3. QED
      BY <3>1, <3>2 DEF Struck
  <2>2. QED
    BY <1>14, <2>1, InconsistentEffect
<1>15. ASSUME NEW n \in Nodes, NEW m \in Nodes, NEW type \in ViolationTypes,
              report_violation(n, m, type)
       PROVE  StandingStep(k)
  <2>1. Struck(m)
    BY <1>15, ReportEffect DEF Struck
  <2>2. QED
    BY <1>15, <2>1, ReportEffect
<1>16. CASE Tick \/ UNCHANGED vars
  BY <1>16 DEF Tick, vars
<1>17. QED
  BY <1>1, <1>2, <1>3, <1>4, <1>5, <1>6, <1>7, <1>8, <1>9, <1>10, <1>11, <1>12,
     <1>13, <1>14, <1>15, <1>16 DEF Next, submit_pulse_proof, validate_peer

-----------------------------------------------------------------------------
(***************************************************************************)
(* Strikes.                                                                *)
(***************************************************************************)
LEMMA StrikesStep == TypeOK /\ StrikesBounded /\ [Next]_vars => StrikesBounded'
<1> SUFFICES ASSUME TypeOK, StrikesBounded, [Next]_vars, NEW k \in Nodes
             PROVE  /\ node'[k].strikes <= MAX_STRIKES_BEFORE_BAN
                    /\ node'[k].strikes = MAX_STRIKES_BEFORE_BAN => node'[k].is_banned
                    /\ node'[k].consecutive_failures <= node'[k].strikes
  BY DEF StrikesBounded
<1>1. /\ node[k].strikes \in Nat
      /\ node[k].consecutive_failures \in Nat
      /\ node[k].strikes <= MAX_STRIKES_BEFORE_BAN
      /\ node[k].strikes = MAX_STRIKES_BEFORE_BAN => node[k].is_banned
      /\ node[k].consecutive_failures <= node[k].strikes
      /\ MAX_STRIKES_BEFORE_BAN \in Nat \ {0}
  BY AccountFields, ConstantTypes DEF TypeOK, StrikesBounded
<1>2. CASE Standing(node'[k]) = Standing(node[k])
  BY <1>1, <1>2 DEF Standing
<1>3. CASE Registered(k)
  BY <1>1, <1>3 DEF Registered, Standing
<1>4. CASE Failed(k)
  <2>1. /\ node'[k].strikes = node[k].strikes + 1
        /\ node'[k].consecutive_failures = node[k].consecutive_failures + 1
        /\ node[k].strikes + 1 >= MAX_STRIKES_BEFORE_BAN => node'[k].is_banned
        /\ ~node[k].is_banned
    BY <1>4 DEF Failed, Standing
  <2>2. QED
    BY <1>1, <2>1
<1>5. CASE Accepted(k)
  BY <1>1, <1>5 DEF Accepted, Standing
<1>6. CASE Struck(k)
  BY <1>1, <1>6 DEF Struck, Standing
<1>7. QED
  BY <1>2, <1>3, <1>4, <1>5, <1>6, StandingSteps DEF StandingStep

\* The u8 counters of strikes and consecutive failures stop at the strike
\* limit, and a node that reaches it is banned, whatever mixture of failed
\* proofs, inconsistent votes and reports struck it.
THEOREM StrikesTheorem == Spec => []StrikesBounded
<1>1. Init => StrikesBounded
  BY ConstantTypes DEF Init, NoNode, StrikesBounded
<1>2. TypeOK /\ StrikesBounded /\ [Next]_vars => StrikesBounded'
  BY StrikesStep
<1>3. QED
  BY <1>1, <1>2, TypeCorrect, PTL DEF Spec

-----------------------------------------------------------------------------
(***************************************************************************)
(* What a step of the program may do to the terms of one claim and to what *)
(* a node claimed last.                                                    *)
(***************************************************************************)
Terms(p) == <<p.exists, p.submitted_at, p.reward_amount>>

Unrewarded(n, r) ==
    /\ MaySubmit(n, r)
    /\ Terms(pending'[n][r]) = <<TRUE, now, 0>>

Rewarded(n, r) ==
    /\ MaySubmit(n, r)
    /\ Matures(n)
    /\ node'[n].is_matured
    /\ Claimed(node'[n]) = <<r, now>>
    /\ now' = now
    /\ \E reward \in Nat \ {0} : Terms(pending'[n][r]) = <<TRUE, now, reward>>

ClaimStep(n, r) ==
    \/ Terms(pending'[n][r]) = Terms(pending[n][r])
    \/ Unrewarded(n, r)
    \/ Rewarded(n, r)

LastClaimStep(k) ==
    \/ Claimed(node'[k]) = Claimed(node[k])
    \/ ~node[k].registered /\ Claimed(node'[k]) = <<0, 0>>
    \/ \E r \in Rounds : MaySubmit(k, r) /\ Claimed(node'[k]) = <<r, now>>

LEMMA ClockStep == TypeOK /\ [Next]_vars => now' >= now
<1> SUFFICES ASSUME TypeOK, [Next]_vars PROVE now' >= now
  OBVIOUS
<1>1. now \in Nat
  BY DEF TypeOK
<1>2. CASE Tick
  BY <1>1, <1>2 DEF Tick
<1>3. CASE now' = now
  BY <1>1, <1>3
<1>4. ASSUME NEW n \in Nodes, NEW r \in Rounds, submit_pulse_proof(n, r) PROVE now' = now
  BY <1>4 DEF submit_pulse_proof, SubmitInvalidProof, SubmitMaturationProof,
              SubmitRewardedProof
<1>5. ASSUME NEW v \in Nodes, NEW t \in Nodes, NEW r \in Rounds, validate_peer(v, t, r)
      PROVE  now' = now
  BY <1>5 DEF validate_peer, ConfirmProof, DisputeProof, InconsistentVote
<1>6. ASSUME NEW n \in Nodes, NEW c \in Capabilities,
             register_node(n, c) \/ update_capabilities(n, c)
      PROVE  now' = now
  BY <1>6 DEF register_node, update_capabilities
<1>7. ASSUME NEW n \in Nodes, NEW amount, stake(n, amount) \/ request_unstake(n, amount)
      PROVE  now' = now
  BY <1>7 DEF stake, request_unstake
<1>8. ASSUME NEW n \in Nodes, NEW r, heartbeat(n, r) \/ finalize_reward(n, r)
                                       \/ withdraw_unstake(n)
      PROVE  now' = now
  BY <1>8 DEF heartbeat, finalize_reward, withdraw_unstake
<1>9. ASSUME NEW n \in Nodes, NEW m \in Nodes, NEW type, report_violation(n, m, type)
      PROVE  now' = now
  BY <1>9 DEF report_violation
<1>10. ASSUME NEW cap, initialize(cap) PROVE now' = now
  BY <1>10 DEF initialize
<1>11. CASE UNCHANGED vars
  BY <1>3, <1>11 DEF vars
<1>12. QED
  BY <1>2, <1>3, <1>4, <1>5, <1>6, <1>7, <1>8, <1>9, <1>10, <1>11 DEF Next

\* A new record replaces one claim and no other.
Replaces(n, r, x) ==
    /\ pending'[n][r] = x
    /\ \A k \in Nodes, s \in Rounds :
          (k # n \/ s # r) => pending'[k][s] = pending[k][s]

LEMMA OneClaim ==
    ASSUME TypeOK, NEW n \in Nodes, NEW r \in Rounds, NEW x,
           pending' = [pending EXCEPT ![n][r] = x]
    PROVE  Replaces(n, r, x)
<1>1. /\ pending'[n] = [pending[n] EXCEPT ![r] = x]
      /\ \A k \in Nodes \ {n} : pending'[k] = pending[k]
  BY DEF TypeOK
<1>2. pending'[n][r] = x /\ \A s \in Rounds \ {r} : pending'[n][s] = pending[n][s]
  BY <1>1 DEF TypeOK
<1>3. QED
  BY <1>1, <1>2 DEF Replaces

LEMMA NewClaim ==
    ASSUME NEW n \in Nodes, NEW r \in Rounds, NEW reward, NEW f,
           Replaces(n, r, PendingRecord(reward, f))
    PROVE  Terms(pending'[n][r]) = <<TRUE, now, reward>>
  BY DEF Replaces, PendingRecord, Terms

LEMMA ClaimSteps ==
    TypeOK /\ [Next]_vars => \A k \in Nodes, s \in Rounds : ClaimStep(k, s)
<1> SUFFICES ASSUME TypeOK, [Next]_vars, NEW k \in Nodes, NEW s \in Rounds
             PROVE  ClaimStep(k, s)
  OBVIOUS
<1> USE DEF ClaimStep
<1>1. CASE UNCHANGED pending
  BY <1>1
<1>2. ASSUME NEW n \in Nodes, NEW r \in Rounds, SubmitInvalidProof(n, r)
      PROVE  ClaimStep(k, s)
  <2>1. MaySubmit(n, r) /\ Replaces(n, r, PendingRecord(0, TRUE))
    BY <1>2, OneClaim DEF SubmitInvalidProof
  <2>2. Unrewarded(n, r)
    BY <2>1, NewClaim DEF Unrewarded
  <2>3. CASE k = n /\ s = r
    BY <2>2, <2>3
  <2>4. CASE k # n \/ s # r
    <3>1. pending'[k][s] = pending[k][s]
      BY <2>1, <2>4 DEF Replaces
    <3>2. QED
      BY <3>1
  <2>5. QED
    BY <2>3, <2>4
<1>3. ASSUME NEW n \in Nodes, NEW r \in Rounds, SubmitMaturationProof(n, r)
      PROVE  ClaimStep(k, s)
  <2>1. MaySubmit(n, r) /\ Replaces(n, r, PendingRecord(0, TRUE))
    BY <1>3, OneClaim DEF SubmitMaturationProof
  <2>2. Unrewarded(n, r)
    BY <2>1, NewClaim DEF Unrewarded
  <2>3. CASE k = n /\ s = r
    BY <2>2, <2>3
  <2>4. CASE k # n \/ s # r
    <3>1. pending'[k][s] = pending[k][s]
      BY <2>1, <2>4 DEF Replaces
    <3>2. QED
      BY <3>1
  <2>5. QED
    BY <2>3, <2>4
<1>4. ASSUME NEW n \in Nodes, NEW r \in Rounds,
             NEW reward \in RewardOf[node[n].capabilities], SubmitRewardedProof(n, r, reward)
      PROVE  ClaimStep(k, s)
  <2>1. /\ MaySubmit(n, r) /\ Matures(n) /\ now' = now
        /\ reward \in Nat \ {0}
        /\ Claimed(node'[n]) = <<r, now>>
        /\ Replaces(n, r, PendingRecord(reward, FALSE))
    BY <1>4, RewardedProofEffect, OneClaim
  <2>2. node'[n].is_matured
    BY <1>4, RewardedProofEffect DEF Standing
  <2>3. Rewarded(n, r)
    <3>1. Terms(pending'[n][r]) = <<TRUE, now, reward>>
      BY <2>1, NewClaim
    <3>2. QED
      BY <2>1, <2>2, <3>1 DEF Rewarded
  <2>4. CASE k = n /\ s = r
    BY <2>3, <2>4
  <2>5. CASE k # n \/ s # r
    <3>1. pending'[k][s] = pending[k][s]
      BY <2>1, <2>5 DEF Replaces
    <3>2. QED
      BY <3>1
  <2>6. QED
    BY <2>4, <2>5
<1>5. ASSUME NEW n \in Nodes, NEW r \in Rounds, finalize_reward(n, r)
      PROVE  ClaimStep(k, s)
  BY <1>5 DEF finalize_reward, TypeOK, PendingProof, Terms
<1>6. ASSUME NEW v \in Nodes, NEW t \in Nodes, NEW r \in Rounds,
             ConfirmProof(v, t, r) \/ DisputeProof(v, t, r)
      PROVE  ClaimStep(k, s)
  <2>1. ASSUME NEW i, \/ pending' = [pending EXCEPT ![t][r].validations_for = i]
                      \/ pending' = [pending EXCEPT ![t][r].validations_against = i]
        PROVE  Terms(pending'[k][s]) = Terms(pending[k][s])
    <3>1. pending[t][r] \in PendingProof
      BY DEF TypeOK
    <3>2. PICK x : /\ \/ x = [pending[t][r] EXCEPT !.validations_for = i]
                      \/ x = [pending[t][r] EXCEPT !.validations_against = i]
                   /\ Replaces(t, r, x)
      BY <2>1, OneClaim
    <3>3. Terms(x) = Terms(pending[t][r])
      BY <3>1, <3>2 DEF PendingProof, Terms
    <3>4. pending'[t][r] = x /\ (k # t \/ s # r => pending'[k][s] = pending[k][s])
      BY <3>2 DEF Replaces
    <3>5. CASE k = t /\ s = r
      BY <3>3, <3>4, <3>5
    <3>6. CASE k # t \/ s # r
      BY <3>4, <3>6
    <3>7. QED
      BY <3>5, <3>6
  <2>2. QED
    BY <1>6, <2>1 DEF ConfirmProof, DisputeProof
<1>7. ASSUME NEW n \in Nodes, NEW c, NEW amount,
             \/ initialize(c)
             \/ register_node(n, c)
             \/ update_capabilities(n, c)
             \/ stake(n, amount)
             \/ request_unstake(n, amount)
             \/ withdraw_unstake(n)
             \/ heartbeat(n, amount)
      PROVE  UNCHANGED pending
  BY <1>7 DEF initialize, register_node, update_capabilities, stake, request_unstake,
              withdraw_unstake, heartbeat
<1>8. ASSUME NEW v \in Nodes, NEW t \in Nodes, NEW x,
             InconsistentVote(v, t, x) \/ report_violation(v, t, x)
      PROVE  UNCHANGED pending
  BY <1>8 DEF InconsistentVote, report_violation
<1>9. CASE Tick \/ UNCHANGED vars
  BY <1>9 DEF Tick, vars
<1>10. QED
  BY <1>1, <1>2, <1>3, <1>4, <1>5, <1>6, <1>7, <1>8, <1>9
     DEF Next, submit_pulse_proof, validate_peer

LEMMA LastClaimSteps == TypeOK /\ [Next]_vars => \A k \in Nodes : LastClaimStep(k)
<1> SUFFICES ASSUME TypeOK, [Next]_vars, NEW k \in Nodes PROVE LastClaimStep(k)
  OBVIOUS
<1> USE DEF LastClaimStep
<1>1. CASE UNCHANGED node
  BY <1>1
<1>2. ASSUME NEW n \in Nodes, NEW c \in Capabilities,
             register_node(n, c) \/ update_capabilities(n, c)
      PROVE  LastClaimStep(k)
  BY <1>2, RegisterEffect, CapabilitiesEffect
<1>3. ASSUME NEW n \in Nodes, NEW amount \in StakeAmounts, stake(n, amount)
      PROVE  LastClaimStep(k)
  BY <1>3, StakeEffect
<1>4. ASSUME NEW n \in Nodes, NEW amount \in UnstakeAmounts, request_unstake(n, amount)
      PROVE  LastClaimStep(k)
  BY <1>4, RequestUnstakeEffect
<1>5. ASSUME NEW n \in Nodes, withdraw_unstake(n) PROVE LastClaimStep(k)
  BY <1>5, WithdrawEffect
<1>6. ASSUME NEW n \in Nodes, NEW r \in Rounds, submit_pulse_proof(n, r)
      PROVE  LastClaimStep(k)
  BY <1>6, InvalidProofEffect, MaturationProofEffect, RewardedProofEffect
     DEF submit_pulse_proof
<1>7. ASSUME NEW n \in Nodes, NEW r \in Rounds, finalize_reward(n, r)
      PROVE  LastClaimStep(k)
  BY <1>7, FinalizeEffect
<1>8. ASSUME NEW n \in Nodes, NEW r \in HeartbeatRounds, heartbeat(n, r)
      PROVE  LastClaimStep(k)
  BY <1>8, HeartbeatEffect
<1>9. ASSUME NEW v \in Nodes, NEW t \in Nodes, NEW r \in Rounds, validate_peer(v, t, r)
      PROVE  LastClaimStep(k)
  BY <1>9, ConfirmEffect, DisputeEffect, InconsistentEffect DEF validate_peer
<1>10. ASSUME NEW n \in Nodes, NEW m \in Nodes, NEW type \in ViolationTypes,
              report_violation(n, m, type)
       PROVE  LastClaimStep(k)
  BY <1>10, ReportEffect
<1>11. QED
  BY <1>1, <1>2, <1>3, <1>4, <1>5, <1>6, <1>7, <1>8, <1>9, <1>10
     DEF Next, vars, initialize, Tick

-----------------------------------------------------------------------------
(***************************************************************************)
(* Maturity.  RewardsOnlyMatured is not inductive: it needs to know what   *)
(* is_matured itself stands for, at any later time.                        *)
(***************************************************************************)
MaturityMeaning(k) ==
    node[k].is_matured =>
        /\ node[k].registered
        /\ node[k].maturation_proofs >= MATURATION_PROOFS_REQUIRED
        /\ now - node[k].registered_at >= MATURATION_PERIOD

MaturityInv ==
    /\ \A k \in Nodes : MaturityMeaning(k)
    /\ RewardsOnlyMatured

\* What a reward requires of a matured node.
LEMMA MaturesMeaning ==
    ASSUME TypeOK, NEW k \in Nodes, MaturityMeaning(k), Matures(k)
    PROVE  /\ node[k].maturation_proofs >= MATURATION_PROOFS_REQUIRED
           /\ now - node[k].registered_at >= MATURATION_PERIOD
  BY DEF MaturityMeaning, Matures

LEMMA MaturityStep == TypeOK /\ MaturityInv /\ [Next]_vars => MaturityInv'
<1> SUFFICES ASSUME TypeOK, TypeOK', MaturityInv, [Next]_vars PROVE MaturityInv'
  BY NextTypeOK
<1>1. now \in Nat /\ now' \in Nat /\ now' >= now
  BY ClockStep DEF TypeOK
<1>2. ASSUME NEW k \in Nodes
      PROVE  /\ MaturityMeaning(k)'
             /\ node[k].is_matured => /\ node'[k].is_matured
                                      /\ node'[k].registered_at = node[k].registered_at
                                      /\ node'[k].maturation_proofs >= node[k].maturation_proofs
  <2>1. /\ node[k].maturation_proofs \in Nat /\ node[k].registered_at \in Nat
        /\ node[k].is_matured \in BOOLEAN
        /\ MATURATION_PROOFS_REQUIRED \in Nat /\ MATURATION_PERIOD \in Nat
    BY ConstantTypes DEF TypeOK, NodeAccount
  <2>2. MaturityMeaning(k)
    BY DEF MaturityInv
  <2>3. CASE Standing(node'[k]) = Standing(node[k])
    BY <1>1, <2>1, <2>2, <2>3 DEF Standing, MaturityMeaning
  <2>4. CASE Registered(k)
    BY <2>2, <2>4 DEF Registered, Standing, MaturityMeaning
  <2>5. CASE Failed(k)
    <3>1. /\ node'[k].registered
          /\ node'[k].registered_at = node[k].registered_at
          /\ node'[k].is_matured = Matures(k)
          /\ node'[k].maturation_proofs = node[k].maturation_proofs
      BY <2>5 DEF Failed, Standing
    <3>2. QED
      BY <1>1, <2>1, <2>2, <3>1, MaturesMeaning DEF MaturityMeaning, Matures
  <2>6. CASE Accepted(k)
    <3>1. /\ node'[k].registered
          /\ node'[k].registered_at = node[k].registered_at
          /\ node'[k].is_matured = Matures(k)
          /\ node'[k].maturation_proofs \in Nat
          /\ node'[k].maturation_proofs >= node[k].maturation_proofs
      BY <2>6 DEF Accepted, Standing
    <3>2. QED
      BY <1>1, <2>1, <2>2, <3>1, MaturesMeaning DEF MaturityMeaning, Matures
  <2>7. CASE Struck(k)
    <3>1. /\ node'[k].registered = node[k].registered
          /\ node'[k].registered_at = node[k].registered_at
          /\ node'[k].is_matured = node[k].is_matured
          /\ node'[k].maturation_proofs = node[k].maturation_proofs
      BY <2>7 DEF Struck, Standing
    <3>2. QED
      BY <1>1, <2>1, <2>2, <3>1 DEF MaturityMeaning
  <2>8. QED
    BY <2>3, <2>4, <2>5, <2>6, <2>7, StandingSteps DEF StandingStep
<1>3. ASSUME NEW n \in Nodes, NEW r \in Rounds, pending'[n][r].reward_amount > 0
      PROVE  /\ node'[n].is_matured
             /\ node'[n].maturation_proofs >= MATURATION_PROOFS_REQUIRED
             /\ pending'[n][r].submitted_at - node'[n].registered_at >= MATURATION_PERIOD
  <2>1. CASE Terms(pending'[n][r]) = Terms(pending[n][r])
    <3>1. /\ pending'[n][r].submitted_at = pending[n][r].submitted_at
          /\ pending[n][r].reward_amount > 0
      BY <1>3, <2>1 DEF Terms
    <3>2. /\ node[n].is_matured
          /\ pending[n][r].submitted_at - node[n].registered_at >= MATURATION_PERIOD
      BY <3>1 DEF MaturityInv, RewardsOnlyMatured
    <3>3. QED
      BY <1>2, <3>1, <3>2 DEF MaturityMeaning
  <2>2. CASE Unrewarded(n, r)
    BY <1>3, <2>2 DEF Unrewarded, Terms
  <2>3. CASE Rewarded(n, r)
    <3>1. /\ Matures(n) /\ node'[n].is_matured /\ now' = now
          /\ pending'[n][r].submitted_at = now
      BY <2>3 DEF Rewarded, Terms
    <3>2. QED
      BY <1>2, <3>1 DEF MaturityMeaning
  <2>4. QED
    BY <2>1, <2>2, <2>3, ClaimSteps DEF ClaimStep
<1>4. QED
  BY <1>2, <1>3 DEF MaturityInv, RewardsOnlyMatured

\* A claim carries a reward only if it was submitted after the whole
\* maturation period of its node and all its maturation proofs: no order of
\* failures, accepted proofs and penalties shortens the way to maturity.
THEOREM MaturityTheorem == Spec => []RewardsOnlyMatured
<1>1. Init => MaturityInv
  BY DEF Init, NoNode, NoProof, MaturityInv, MaturityMeaning, RewardsOnlyMatured
<1>2. TypeOK /\ MaturityInv /\ [Next]_vars => MaturityInv'
  BY MaturityStep
<1>3. MaturityInv => RewardsOnlyMatured
  BY DEF MaturityInv
<1>4. QED
  BY <1>1, <1>2, <1>3, TypeCorrect, PTL DEF Spec

-----------------------------------------------------------------------------
(***************************************************************************)
(* The spacing of rewards.  A node's rewarded claims lie in its past: none *)
(* is of a later round, or was submitted later, than its last claim.       *)
(***************************************************************************)
ClaimsBehind(n, r) ==
    pending[n][r].reward_amount > 0 =>
        /\ node[n].registered
        /\ r <= node[n].last_claim_round
        /\ pending[n][r].submitted_at <= node[n].last_claim_at
        /\ node[n].last_claim_at > 0

SpacingInv ==
    /\ \A n \in Nodes, r \in Rounds : ClaimsBehind(n, r)
    /\ RewardsSpaced

LEMMA RegisteredStep ==
    TypeOK /\ [Next]_vars => \A k \in Nodes : node[k].registered => node'[k].registered
<1> SUFFICES ASSUME TypeOK, [Next]_vars, NEW k \in Nodes, node[k].registered
             PROVE  node'[k].registered
  OBVIOUS
<1>1. node[k].registered = TRUE
  BY DEF TypeOK, NodeAccount
<1>2. node'[k].registered = TRUE
  BY <1>1, StandingSteps
     DEF StandingStep, Registered, Failed, Accepted, Struck, Standing
<1>3. QED
  BY <1>2

LEMMA SpacingStep == TypeOK /\ SpacingInv /\ [Next]_vars => SpacingInv'
<1> SUFFICES ASSUME TypeOK, SpacingInv, [Next]_vars PROVE SpacingInv'
  OBVIOUS
<1>1. /\ now \in Nat \ {0} /\ MIN_PULSE_INTERVAL \in Nat
      /\ \A r \in Rounds : r \in Nat
      /\ \A n \in Nodes : /\ node[n].last_claim_round \in Nat
                          /\ node[n].last_claim_at \in Nat
      /\ \A n \in Nodes, r \in Rounds : pending[n][r].submitted_at \in Nat
  BY InputTypes, ConstantTypes DEF TypeOK, NodeAccount, PendingProof
\* The last claim of a registered node only moves forward.
<1>2. ASSUME NEW n \in Nodes, node[n].registered, node[n].last_claim_at > 0
      PROVE  \/ Claimed(node'[n]) = Claimed(node[n])
             \/ /\ node'[n].last_claim_round > node[n].last_claim_round
                /\ node'[n].last_claim_at >= node[n].last_claim_at
                /\ node'[n].last_claim_at > 0
  <2>1. CASE Claimed(node'[n]) = Claimed(node[n])
    BY <2>1
  <2>2. CASE \E r \in Rounds : MaySubmit(n, r) /\ Claimed(node'[n]) = <<r, now>>
    <3>1. PICK r \in Rounds : MaySubmit(n, r) /\ Claimed(node'[n]) = <<r, now>>
      BY <2>2
    <3>2. /\ node'[n].last_claim_round = r /\ node'[n].last_claim_at = now
          /\ r > node[n].last_claim_round
          /\ now - node[n].last_claim_at >= MIN_PULSE_INTERVAL
      BY <1>2, <3>1 DEF Claimed, MaySubmit
    <3>3. QED
      BY <1>1, <3>2
  <2>3. QED
    BY <1>2, <2>1, <2>2, LastClaimSteps DEF LastClaimStep
<1>3. ASSUME NEW n \in Nodes, NEW r \in Rounds PROVE ClaimsBehind(n, r)'
  <2>1. SUFFICES ASSUME pending'[n][r].reward_amount > 0
                 PROVE  /\ node'[n].registered
                        /\ r <= node'[n].last_claim_round
                        /\ pending'[n][r].submitted_at <= node'[n].last_claim_at
                        /\ node'[n].last_claim_at > 0
    BY DEF ClaimsBehind
  <2>2. CASE Terms(pending'[n][r]) = Terms(pending[n][r])
    <3>1. /\ pending'[n][r].submitted_at = pending[n][r].submitted_at
          /\ pending[n][r].reward_amount > 0
      BY <2>1, <2>2 DEF Terms
    <3>2. /\ node[n].registered
          /\ r <= node[n].last_claim_round
          /\ pending[n][r].submitted_at <= node[n].last_claim_at
          /\ node[n].last_claim_at > 0
      BY <3>1 DEF SpacingInv, ClaimsBehind
    <3>3. node'[n].registered
      BY <3>2, RegisteredStep
    <3>4. CASE Claimed(node'[n]) = Claimed(node[n])
      BY <3>1, <3>2, <3>3, <3>4 DEF Claimed
    <3>5. CASE /\ node'[n].last_claim_round > node[n].last_claim_round
               /\ node'[n].last_claim_at >= node[n].last_claim_at
               /\ node'[n].last_claim_at > 0
      <4>1. node'[n].last_claim_round \in Nat /\ node'[n].last_claim_at \in Nat
        BY NextTypeOK DEF TypeOK, NodeAccount
      <4>2. QED
        BY <1>1, <3>1, <3>2, <3>3, <3>5, <4>1
    <3>6. QED
      BY <1>2, <3>2, <3>4, <3>5
  <2>3. CASE Unrewarded(n, r)
    BY <2>1, <2>3 DEF Unrewarded, Terms
  <2>4. CASE Rewarded(n, r)
    <3>1. /\ node'[n].last_claim_round = r /\ node'[n].last_claim_at = now
          /\ pending'[n][r].submitted_at = now
          /\ node[n].registered
      BY <2>4 DEF Rewarded, Claimed, Terms, MaySubmit
    <3>2. QED
      BY <1>1, <3>1, RegisteredStep
  <2>5. QED
    BY <2>2, <2>3, <2>4, ClaimSteps DEF ClaimStep
\* A new reward is of a later round than every earlier one, and far enough.
<1>4. ASSUME NEW n \in Nodes, NEW r \in Rounds, NEW s \in Rounds, r < s,
             pending'[n][r].reward_amount > 0, pending'[n][s].reward_amount > 0
      PROVE  pending'[n][s].submitted_at - pending'[n][r].submitted_at >= MIN_PULSE_INTERVAL
  <2>1. CASE /\ Terms(pending'[n][r]) = Terms(pending[n][r])
             /\ Terms(pending'[n][s]) = Terms(pending[n][s])
    BY <1>4, <2>1 DEF Terms, SpacingInv, RewardsSpaced
  <2>2. CASE /\ Terms(pending'[n][r]) = Terms(pending[n][r])
             /\ Rewarded(n, s)
    <3>1. /\ pending'[n][r].submitted_at = pending[n][r].submitted_at
          /\ pending[n][r].reward_amount > 0
          /\ pending'[n][s].submitted_at = now
      BY <1>4, <2>2 DEF Terms, Rewarded
    <3>2. /\ pending[n][r].submitted_at <= node[n].last_claim_at
          /\ node[n].last_claim_at > 0
      BY <3>1 DEF SpacingInv, ClaimsBehind
    <3>3. now - node[n].last_claim_at >= MIN_PULSE_INTERVAL
      BY <2>2, <3>2 DEF Rewarded, MaySubmit
    <3>4. QED
      BY <1>1, <3>1, <3>2, <3>3
  <2>3. CASE Rewarded(n, r) /\ Terms(pending'[n][s]) = Terms(pending[n][s])
    <3>1. s <= node[n].last_claim_round
      BY <1>4, <2>3 DEF Terms, SpacingInv, ClaimsBehind
    <3>2. r > node[n].last_claim_round
      BY <2>3 DEF Rewarded, MaySubmit
    <3>3. QED
      BY <1>1, <1>4, <3>1, <3>2
  <2>4. CASE Rewarded(n, r) /\ Rewarded(n, s)
    <3>1. node'[n].last_claim_round = r /\ node'[n].last_claim_round = s
      BY <2>4 DEF Rewarded, Claimed
    <3>2. QED
      BY <1>1, <1>4, <3>1
  <2>5. CASE Unrewarded(n, r) \/ Unrewarded(n, s)
    <3>1. \/ pending'[n][r].reward_amount = 0
          \/ pending'[n][s].reward_amount = 0
      BY <2>5 DEF Unrewarded, Terms
    <3>2. QED
      BY <1>4, <3>1
  <2>6. QED
    BY <2>1, <2>2, <2>3, <2>4, <2>5, ClaimSteps DEF ClaimStep
<1>5. QED
  BY <1>3, <1>4 DEF SpacingInv, RewardsSpaced

\* Two rewarded claims of a node are in the order of their rounds and at
\* least MIN_PULSE_INTERVAL apart: what bounds a node's earnings in time.
THEOREM SpacingTheorem == Spec => []RewardsSpaced
<1>1. Init => SpacingInv
  BY DEF Init, NoProof, SpacingInv, ClaimsBehind, RewardsSpaced
<1>2. TypeOK /\ SpacingInv /\ [Next]_vars => SpacingInv'
  BY SpacingStep
<1>3. SpacingInv => RewardsSpaced
  BY DEF SpacingInv
<1>4. QED
  BY <1>1, <1>2, <1>3, TypeCorrect, PTL DEF Spec

-----------------------------------------------------------------------------
(***************************************************************************)
(* The supply.  Before initialize the cap is 0, so that nothing can have   *)
(* been minted when initialize sets it.                                    *)
(***************************************************************************)
SupplyInv ==
    /\ SupplyWithinCap
    /\ ~program.initialized => program.supply_cap = 0

Supply(p) == <<p.initialized, p.supply_cap, p.total_minted>>

SupplyStep ==
    \/ Supply(program') = Supply(program)
    \/ /\ ~program.initialized
       /\ program'.initialized
       /\ program'.supply_cap \in Nat
       /\ program'.total_minted = program.total_minted
    \/ \E n \in Nodes, r \in Rounds :
         /\ MayFinalize(n, r)
         /\ Supply(program') = <<program.initialized, program.supply_cap,
                                 program.total_minted + pending[n][r].reward_amount>>

LEMMA SupplySteps == TypeOK /\ [Next]_vars => SupplyStep
<1> SUFFICES ASSUME TypeOK, [Next]_vars PROVE SupplyStep
  OBVIOUS
<1> USE DEF SupplyStep
<1>1. CASE UNCHANGED program
  BY <1>1
<1>2. ASSUME NEW cap \in SupplyCaps, initialize(cap) PROVE SupplyStep
  BY <1>2, InitializeEffect
<1>3. ASSUME NEW n \in Nodes, NEW r \in Rounds, SubmitInvalidProof(n, r) PROVE SupplyStep
  BY <1>3, InvalidProofEffect DEF Supply
<1>4. ASSUME NEW n \in Nodes, NEW r \in Rounds, finalize_reward(n, r) PROVE SupplyStep
  <2>1. /\ MayFinalize(n, r)
        /\ Supply(program') = <<program.initialized, program.supply_cap,
                                program.total_minted + pending[n][r].reward_amount>>
    BY <1>4, FinalizeEffect DEF Supply
  <2>2. QED
    BY <2>1
<1>5. ASSUME NEW n \in Nodes, NEW m \in Nodes, NEW type \in ViolationTypes,
             report_violation(n, m, type)
      PROVE  SupplyStep
  BY <1>5, ReportEffect DEF Supply
<1>6. ASSUME NEW n \in Nodes, NEW x, NEW reward,
             \/ register_node(n, x)
             \/ update_capabilities(n, x)
             \/ stake(n, x)
             \/ request_unstake(n, x)
             \/ withdraw_unstake(n)
             \/ heartbeat(n, x)
             \/ SubmitMaturationProof(n, x)
             \/ SubmitRewardedProof(n, x, reward)
      PROVE  UNCHANGED program
  BY <1>6 DEF register_node, update_capabilities, stake, request_unstake,
              withdraw_unstake, heartbeat, SubmitMaturationProof, SubmitRewardedProof
<1>7. ASSUME NEW v \in Nodes, NEW t \in Nodes, NEW r \in Rounds, validate_peer(v, t, r)
      PROVE  UNCHANGED program
  BY <1>7 DEF validate_peer, ConfirmProof, DisputeProof, InconsistentVote
<1>8. CASE Tick \/ UNCHANGED vars
  BY <1>8 DEF Tick, vars
<1>9. QED
  BY <1>1, <1>2, <1>3, <1>4, <1>5, <1>6, <1>7, <1>8 DEF Next, submit_pulse_proof

LEMMA SupplyAlways == Spec => []SupplyInv
<1>1. Init => SupplyInv
  BY DEF Init, SupplyInv, SupplyWithinCap
<1>2. TypeOK /\ SupplyInv /\ [Next]_vars => SupplyInv'
  <2> SUFFICES ASSUME TypeOK, SupplyInv, [Next]_vars PROVE SupplyInv'
    OBVIOUS
  <2>1. /\ program.total_minted \in Nat /\ program.supply_cap \in Nat
        /\ program.total_minted <= program.supply_cap
        /\ ~program.initialized => program.supply_cap = 0
    BY DEF TypeOK, ProgramState, SupplyInv, SupplyWithinCap
  <2>2. CASE Supply(program') = Supply(program)
    BY <2>1, <2>2 DEF Supply, SupplyInv, SupplyWithinCap
  <2>3. CASE /\ ~program.initialized
             /\ program'.initialized
             /\ program'.supply_cap \in Nat
             /\ program'.total_minted = program.total_minted
    BY <2>1, <2>3 DEF SupplyInv, SupplyWithinCap
  <2>4. ASSUME NEW n \in Nodes, NEW r \in Rounds, MayFinalize(n, r),
               Supply(program') = <<program.initialized, program.supply_cap,
                                    program.total_minted + pending[n][r].reward_amount>>
        PROVE  SupplyInv'
    BY <2>1, <2>4 DEF Supply, MayFinalize, SupplyInv, SupplyWithinCap
  <2>5. QED
    BY <2>2, <2>3, <2>4, SupplySteps DEF SupplyStep
<1>3. QED
  BY <1>1, <1>2, TypeCorrect, PTL DEF Spec

\* The program never mints beyond its cap, although any number of claims that
\* each fitted under it when they were submitted may be pending together.
THEOREM SupplyTheorem == Spec => []SupplyWithinCap
<1>1. SupplyInv => SupplyWithinCap
  BY DEF SupplyInv
<1>2. QED
  BY <1>1, SupplyAlways, PTL

-----------------------------------------------------------------------------
(***************************************************************************)
(* Stakes.                                                                 *)
(***************************************************************************)
StakeStep(k) ==
    \/ Staked(node'[k]) = Staked(node[k])
    \/ Staked(node'[k]) = <<0, 0>>
    \/ \E amount \in Nat :
         /\ ~node[k].is_banned
         /\ amount >= MIN_STAKE /\ amount <= wallet[k]
         /\ Staked(node'[k]) = <<node[k].stake_amount + amount, node[k].pending_unstake>>
    \/ \E amount \in Nat :
         /\ \/ node[k].stake_amount - amount >= MIN_STAKE
            \/ amount = node[k].stake_amount
         /\ Staked(node'[k]) = <<node[k].stake_amount, amount>>
    \/ /\ node[k].pending_unstake > 0
       /\ node[k].pending_unstake <= node[k].stake_amount
       /\ Staked(node'[k]) = <<node[k].stake_amount - node[k].pending_unstake, 0>>
    \/ /\ node'[k].strikes = node[k].strikes + 1
       /\ node'[k].stake_amount \in 0 .. node[k].stake_amount
       /\ node'[k].pending_unstake = node[k].pending_unstake

LEMMA StakeSteps == TypeOK /\ [Next]_vars => \A k \in Nodes : StakeStep(k)
<1> SUFFICES ASSUME TypeOK, [Next]_vars, NEW k \in Nodes PROVE StakeStep(k)
  OBVIOUS
<1> USE DEF StakeStep
<1>1. CASE UNCHANGED node
  BY <1>1
<1>2. ASSUME NEW n \in Nodes, NEW c \in Capabilities,
             register_node(n, c) \/ update_capabilities(n, c)
      PROVE  StakeStep(k)
  BY <1>2, RegisterEffect, CapabilitiesEffect
<1>3. ASSUME NEW n \in Nodes, NEW amount \in StakeAmounts, stake(n, amount)
      PROVE  StakeStep(k)
  <2>1. amount \in Nat
    BY InputTypes
  <2>2. CASE k = n
    BY <1>3, <2>1, <2>2, StakeEffect
  <2>3. CASE k # n
    BY <1>3, <2>3, StakeEffect
  <2>4. QED
    BY <2>2, <2>3
<1>4. ASSUME NEW n \in Nodes, NEW amount \in UnstakeAmounts, request_unstake(n, amount)
      PROVE  StakeStep(k)
  <2>1. amount \in Nat
    BY InputTypes
  <2>2. CASE k = n
    BY <1>4, <2>1, <2>2, RequestUnstakeEffect
  <2>3. CASE k # n
    BY <1>4, <2>3, RequestUnstakeEffect
  <2>4. QED
    BY <2>2, <2>3
<1>5. ASSUME NEW n \in Nodes, withdraw_unstake(n) PROVE StakeStep(k)
  BY <1>5, WithdrawEffect
<1>6. ASSUME NEW n \in Nodes, NEW r \in Rounds, SubmitInvalidProof(n, r)
      PROVE  StakeStep(k)
  BY <1>6, InvalidProofEffect DEF Standing
<1>7. ASSUME NEW n \in Nodes, NEW r \in Rounds, SubmitMaturationProof(n, r)
      PROVE  StakeStep(k)
  BY <1>7, MaturationProofEffect
<1>8. ASSUME NEW n \in Nodes, NEW r \in Rounds,
             NEW reward \in RewardOf[node[n].capabilities], SubmitRewardedProof(n, r, reward)
      PROVE  StakeStep(k)
  BY <1>8, RewardedProofEffect
<1>9. ASSUME NEW n \in Nodes, NEW r \in Rounds, finalize_reward(n, r)
      PROVE  StakeStep(k)
  BY <1>9, FinalizeEffect
<1>10. ASSUME NEW n \in Nodes, NEW r \in HeartbeatRounds, heartbeat(n, r)
       PROVE  StakeStep(k)
  BY <1>10, HeartbeatEffect
<1>11. ASSUME NEW v \in Nodes, NEW t \in Nodes, NEW r \in Rounds, validate_peer(v, t, r)
       PROVE  StakeStep(k)
  BY <1>11, ConfirmEffect, DisputeEffect, InconsistentEffect DEF validate_peer
<1>12. ASSUME NEW n \in Nodes, NEW m \in Nodes, NEW type \in ViolationTypes,
              report_violation(n, m, type)
       PROVE  StakeStep(k)
  BY <1>12, ReportEffect DEF Standing
<1>13. QED
  BY <1>1, <1>2, <1>3, <1>4, <1>5, <1>6, <1>7, <1>8, <1>9, <1>10, <1>11, <1>12
     DEF Next, vars, initialize, Tick, submit_pulse_proof

LEMMA UnstruckStep == TypeOK /\ UnstruckStakeWhole /\ [Next]_vars => UnstruckStakeWhole'
<1> SUFFICES ASSUME TypeOK, TypeOK', UnstruckStakeWhole, [Next]_vars,
                    NEW k \in Nodes, node'[k].strikes = 0
             PROVE  LET kept == node'[k].stake_amount - node'[k].pending_unstake IN
                    /\ node'[k].stake_amount = 0 \/ node'[k].stake_amount >= MIN_STAKE
                    /\ kept = 0 \/ kept >= MIN_STAKE
  BY NextTypeOK DEF UnstruckStakeWhole
<1>1. /\ node[k].stake_amount \in Nat /\ node[k].pending_unstake \in Nat
      /\ node[k].strikes \in Nat
      /\ MIN_STAKE \in Nat
  BY AccountFields, ConstantTypes DEF TypeOK
\* Whoever is without a strike now was without one before, or is new.
<1>2. node[k].strikes = 0 \/ Registered(k)
  <2>1. node'[k].strikes \in {node[k].strikes, node[k].strikes + 1} \/ Registered(k)
    BY StandingSteps DEF StandingStep, Failed, Accepted, Struck, Standing
  <2>2. QED
    BY <1>1, <2>1
<1>3. CASE node[k].strikes = 0
  <2>1. /\ node[k].stake_amount = 0 \/ node[k].stake_amount >= MIN_STAKE
        /\ \/ node[k].stake_amount - node[k].pending_unstake = 0
           \/ node[k].stake_amount - node[k].pending_unstake >= MIN_STAKE
    BY <1>3 DEF UnstruckStakeWhole
  <2>2. CASE Staked(node'[k]) = Staked(node[k])
    BY <2>1, <2>2 DEF Staked
  <2>3. CASE Staked(node'[k]) = <<0, 0>>
    BY <2>3 DEF Staked
  <2>4. ASSUME NEW amount \in Nat, amount >= MIN_STAKE,
               Staked(node'[k]) = <<node[k].stake_amount + amount, node[k].pending_unstake>>
        PROVE  LET kept == node'[k].stake_amount - node'[k].pending_unstake IN
               /\ node'[k].stake_amount = 0 \/ node'[k].stake_amount >= MIN_STAKE
               /\ kept = 0 \/ kept >= MIN_STAKE
    <3>1. /\ node'[k].stake_amount = node[k].stake_amount + amount
          /\ node'[k].pending_unstake = node[k].pending_unstake
      BY <2>4 DEF Staked
    <3>2. QED
      BY <1>1, <2>1, <2>4, <3>1
  <2>5. ASSUME NEW amount \in Nat,
               \/ node[k].stake_amount - amount >= MIN_STAKE
               \/ amount = node[k].stake_amount,
               Staked(node'[k]) = <<node[k].stake_amount, amount>>
        PROVE  LET kept == node'[k].stake_amount - node'[k].pending_unstake IN
               /\ node'[k].stake_amount = 0 \/ node'[k].stake_amount >= MIN_STAKE
               /\ kept = 0 \/ kept >= MIN_STAKE
    <3>1. /\ node'[k].stake_amount = node[k].stake_amount
          /\ node'[k].pending_unstake = amount
      BY <2>5 DEF Staked
    <3>2. QED
      BY <1>1, <2>1, <2>5, <3>1
  <2>6. CASE Staked(node'[k]) = <<node[k].stake_amount - node[k].pending_unstake, 0>>
    <3>1. /\ node'[k].stake_amount = node[k].stake_amount - node[k].pending_unstake
          /\ node'[k].pending_unstake = 0
      BY <2>6 DEF Staked
    <3>2. QED
      BY <1>1, <2>1, <3>1
  <2>7. CASE node'[k].strikes = node[k].strikes + 1
    BY <1>3, <2>7
  <2>8. QED
    BY <2>2, <2>3, <2>4, <2>5, <2>6, <2>7, StakeSteps DEF StakeStep
<1>4. CASE Registered(k)
  BY <1>4 DEF Registered, Staked
<1>5. QED
  BY <1>2, <1>3, <1>4

\* A node that was never struck keeps nothing or a full stake, also after the
\* unstake it asked for, in whatever order it staked, asked and asked again:
\* its withdrawal never fails.
THEOREM UnstruckTheorem == Spec => []UnstruckStakeWhole
<1>1. Init => UnstruckStakeWhole
  BY DEF Init, NoNode, UnstruckStakeWhole
<1>2. TypeOK /\ UnstruckStakeWhole /\ [Next]_vars => UnstruckStakeWhole'
  BY UnstruckStep
<1>3. QED
  BY <1>1, <1>2, TypeCorrect, PTL DEF Spec

-----------------------------------------------------------------------------
(***************************************************************************)
(* Genesis.  Without tokens nothing is staked; without a stake no claim    *)
(* carries a reward, so that nothing is minted and no tokens appear.       *)
(***************************************************************************)
NoGenesis == \A n \in Nodes : genesis[n] = 0

Nothing ==
    /\ \A n \in Nodes : wallet[n] = 0 /\ node[n].stake_amount = 0
    /\ \A n \in Nodes, r \in Rounds : pending[n][r].reward_amount = 0
    /\ program.total_minted = 0

GenesisInv == NoGenesis => Nothing

\* The steps that may move tokens of a wallet.
WalletMoves ==
    \/ \E n \in Nodes, amount \in StakeAmounts : stake(n, amount)
    \/ \E n \in Nodes : withdraw_unstake(n)
    \/ \E n \in Nodes, r \in Rounds : MayFinalize(n, r)

LEMMA WalletSteps ==
    TypeOK /\ [Next]_vars => genesis' = genesis /\ (wallet' = wallet \/ WalletMoves)
<1> SUFFICES ASSUME TypeOK, [Next]_vars
             PROVE  genesis' = genesis /\ (wallet' = wallet \/ WalletMoves)
  OBVIOUS
<1>1. ASSUME NEW n \in Nodes, NEW amount \in StakeAmounts, stake(n, amount)
      PROVE  genesis' = genesis /\ WalletMoves
  BY <1>1 DEF stake, WalletMoves
<1>2. ASSUME NEW n \in Nodes, withdraw_unstake(n)
      PROVE  genesis' = genesis /\ WalletMoves
  BY <1>2 DEF withdraw_unstake, WalletMoves
<1>3. ASSUME NEW n \in Nodes, NEW r \in Rounds, finalize_reward(n, r)
      PROVE  genesis' = genesis /\ WalletMoves
  BY <1>3 DEF finalize_reward, WalletMoves
<1>4. ASSUME NEW n \in Nodes, NEW x, NEW reward,
             \/ register_node(n, x)
             \/ update_capabilities(n, x)
             \/ request_unstake(n, x)
             \/ heartbeat(n, x)
             \/ SubmitInvalidProof(n, x)
             \/ SubmitMaturationProof(n, x)
             \/ SubmitRewardedProof(n, x, reward)
      PROVE  UNCHANGED <<wallet, genesis>>
  BY <1>4 DEF register_node, update_capabilities, request_unstake, heartbeat,
              SubmitInvalidProof, SubmitMaturationProof, SubmitRewardedProof
<1>5. ASSUME NEW v \in Nodes, NEW t \in Nodes, NEW x,
             validate_peer(v, t, x) \/ report_violation(v, t, x)
      PROVE  UNCHANGED <<wallet, genesis>>
  BY <1>5 DEF validate_peer, ConfirmProof, DisputeProof, InconsistentVote, report_violation
<1>6. CASE Tick \/ UNCHANGED vars
  BY <1>6 DEF Tick, vars
<1>7. CASE \E cap \in SupplyCaps : initialize(cap)
  <2>1. PICK cap \in SupplyCaps : initialize(cap)
    BY <1>7
  <2>2. QED
    BY <2>1 DEF initialize
<1>8. QED
  BY <1>1, <1>2, <1>3, <1>4, <1>5, <1>6, <1>7 DEF Next, submit_pulse_proof

LEMMA GenesisStep == TypeOK /\ GenesisInv /\ [Next]_vars => GenesisInv'
<1> SUFFICES ASSUME TypeOK, GenesisInv, [Next]_vars, NoGenesis PROVE Nothing'
  BY WalletSteps DEF GenesisInv, NoGenesis
<1>1. /\ \A n \in Nodes : wallet[n] = 0 /\ node[n].stake_amount = 0
      /\ \A n \in Nodes, r \in Rounds : pending[n][r].reward_amount = 0
      /\ program.total_minted = 0
  BY DEF GenesisInv, Nothing
<1>2. MIN_STAKE \in Nat \ {0}
  BY ConstantsAssumption DEF ConstantsAssumption
<1>3. \A n \in Nodes, r \in Rounds : ~MayFinalize(n, r)
  BY <1>1 DEF MayFinalize
<1>4. \A n \in Nodes, amount \in StakeAmounts : ~stake(n, amount)
  <2> SUFFICES ASSUME NEW n \in Nodes, NEW amount \in StakeAmounts, stake(n, amount)
               PROVE  FALSE
    OBVIOUS
  <2>1. amount \in Nat /\ amount >= MIN_STAKE /\ amount <= wallet[n]
    BY InputTypes DEF stake
  <2>2. QED
    BY <1>1, <1>2, <2>1
<1>5. \A n \in Nodes : ~withdraw_unstake(n)
  <2> SUFFICES ASSUME NEW n \in Nodes, withdraw_unstake(n) PROVE FALSE
    OBVIOUS
  <2>1. node[n].pending_unstake > 0 /\ node[n].pending_unstake <= node[n].stake_amount
    BY WithdrawEffect
  <2>2. QED
    BY <1>1, <2>1 DEF TypeOK, NodeAccount
<1>6. \A n \in Nodes : wallet'[n] = 0
  BY <1>1, <1>3, <1>4, <1>5, WalletSteps DEF WalletMoves
<1>7. \A n \in Nodes : node'[n].stake_amount = 0
  <2> SUFFICES ASSUME NEW k \in Nodes PROVE node'[k].stake_amount = 0
    OBVIOUS
  <2>1. ~\E amount \in Nat : amount >= MIN_STAKE /\ amount <= wallet[k]
    BY <1>1, <1>2
  <2>2. ~(/\ node[k].pending_unstake > 0
          /\ node[k].pending_unstake <= node[k].stake_amount)
    BY <1>1 DEF TypeOK, NodeAccount
  <2>3. StakeStep(k) /\ node[k].stake_amount = 0
    BY <1>1, StakeSteps
  <2>4. CASE \/ Staked(node'[k]) = Staked(node[k])
             \/ Staked(node'[k]) = <<0, 0>>
             \/ \E amount \in Nat : Staked(node'[k]) = <<node[k].stake_amount, amount>>
    BY <2>3, <2>4 DEF Staked
  <2>5. CASE node'[k].stake_amount \in 0 .. node[k].stake_amount
    BY <2>3, <2>5
  <2>6. QED
    BY <2>1, <2>2, <2>3, <2>4, <2>5 DEF StakeStep
<1>8. \A n \in Nodes, r \in Rounds : pending'[n][r].reward_amount = 0
  <2> SUFFICES ASSUME NEW n \in Nodes, NEW r \in Rounds PROVE pending'[n][r].reward_amount = 0
    OBVIOUS
  <2>1. ~Rewarded(n, r)
    <3>1. Rewarded(n, r) => node[n].stake_amount >= MIN_STAKE
      BY DEF Rewarded, MaySubmit
    <3>2. ~(node[n].stake_amount >= MIN_STAKE)
      BY <1>1, <1>2
    <3>3. QED
      BY <3>1, <3>2
  <2>2. QED
    BY <1>1, <2>1, ClaimSteps DEF ClaimStep, Unrewarded, Terms
<1>9. program'.total_minted = 0
  BY <1>1, <1>3, SupplySteps DEF SupplyStep, Supply
<1>10. QED
  BY <1>6, <1>7, <1>8, <1>9 DEF Nothing

\* If no token circulates when the program takes over the mint, none ever
\* will: earning needs a stake, a stake needs tokens, and maturation proofs
\* earn none.
THEOREM GenesisTheorem == Spec => []NothingWithoutGenesis
<1>1. Init => GenesisInv
  <2> SUFFICES ASSUME Init, NoGenesis PROVE Nothing
    BY DEF GenesisInv
  <2>1. \A n \in Nodes : wallet[n] = 0
    BY DEF Init, NoGenesis
  <2>2. \A n \in Nodes : node[n].stake_amount = 0
    BY DEF Init, NoNode
  <2>3. \A n \in Nodes, r \in Rounds : pending[n][r].reward_amount = 0
    BY DEF Init, NoProof
  <2>4. QED
    BY <2>1, <2>2, <2>3 DEF Nothing, Init
<1>2. TypeOK /\ GenesisInv /\ [Next]_vars => GenesisInv'
  BY GenesisStep
<1>3. GenesisInv => NothingWithoutGenesis
  BY DEF GenesisInv, NoGenesis, Nothing, NothingWithoutGenesis
<1>4. QED
  BY <1>1, <1>2, <1>3, TypeCorrect, PTL DEF Spec

=============================================================================
