--------------------------- MODULE AgiRewardsMC ---------------------------
(***************************************************************************)
(* Instances of AgiRewards for TLC.  "Cold" runs start from the deployment *)
(* of the program; "warm" ones start later, from accounts that a longer    *)
(* run of the program has brought to maturity, so that a short one reaches *)
(* votes, slashes and bans.                                                *)
(***************************************************************************)
EXTENDS AgiRewards, FiniteSetsExt, TLC

CONSTANTS a, b, c, d, e

\* Capability masks and the rewards they may yield.
CONSTANTS basic, full

BasicReward == [m \in Capabilities |-> {2}]
TwoRewards == [m \in Capabilities |-> IF m = basic THEN {2} ELSE {3}]

(***************************************************************************)
(* Warm start.  Every node registered at deployment and submitted its      *)
(* maturation proofs in rounds before those of Rounds; it had or was given *)
(* tokens, staked WarmStaked and matured with a rewarded proof that nobody *)
(* validated; its reputation has since grown to WarmReputation.  Nodes     *)
(* outside Stakers took their stake back and gave the tokens away: they    *)
(* validate and report, and submit nothing.                                *)
(***************************************************************************)
CONSTANTS WarmReputation, WarmStaked, WarmCap, Stakers
CONSTANT WarmFailed   \* the stakers may (TRUE), or may not (FALSE), have failed since

WarmTime == GenesisTime + MATURATION_PERIOD + 2 * STAKE_LOCK_PERIOD

WarmStake(n) == IF n \in Stakers THEN WarmStaked ELSE 0

WarmNode(n) ==
    [NoNode EXCEPT !.registered = TRUE,
                   !.capabilities = basic,
                   !.registered_at = GenesisTime,
                   !.last_claim_at = WarmTime - STAKE_LOCK_PERIOD,
                   !.last_claim_round = 8,
                   !.is_matured = TRUE,
                   !.maturation_proofs = MATURATION_PROOFS_REQUIRED,
                   !.reputation = WarmReputation,
                   !.stake_amount = WarmStake(n),
                   !.stake_locked_until = WarmTime - STAKE_LOCK_PERIOD]

\* A proof of round 9 fails at WarmTime: the steps of SubmitInvalidProof.
FailedNode(n) == IF n \in Stakers THEN apply_proof_failure(WarmNode(n)) ELSE WarmNode(n)

FailedSlashes ==
    MapThenSumSet(LAMBDA n : slash_amount(FailedNode(n).stake_amount, SLASH_INVALID_PROOF_BPS),
                  Stakers)

WarmInit ==
    /\ now = WarmTime
    /\ \E failed \in WarmFailed :
          /\ node = [n \in Nodes |-> IF failed THEN FailedNode(n) ELSE WarmNode(n)]
          /\ program = [initialized |-> TRUE, supply_cap |-> WarmCap, total_minted |-> 0,
                        total_slashed |-> IF failed THEN FailedSlashes ELSE 0,
                        total_banned |-> 0]
    /\ pending = [n \in Nodes |-> [r \in Rounds |-> NoProof]]
    /\ validation = [t \in Nodes |-> [r \in Rounds |-> [v \in Nodes |-> "none"]]]
    /\ vault = WarmStaked * Cardinality(Stakers)
    /\ genesis \in [Nodes -> GenesisBalances]
    /\ \A n \in Nodes : genesis[n] > 0 <=> n \in Stakers
    /\ wallet = [n \in Nodes |-> genesis[n] - WarmStake(n)]

WarmSpec == WarmInit /\ [][Next]_vars

\* Nodes that start alike may be permuted in the runs of safety properties.
Alike == Permutations(Nodes)
AlikeByStake == {p @@ q : p \in Permutations(Stakers), q \in Permutations(Nodes \ Stakers)}

=============================================================================
