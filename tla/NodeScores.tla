------------------------------ MODULE NodeScores ------------------------------
(***************************************************************************)
(* The part of a node account of agi_rewards that scales its rewards:      *)
(* reputation, the four scores and the counters they are computed from     *)
(* (helpers.rs), under every instruction of lib.rs that writes them.  It   *)
(* completes module AgiRewards, which leaves the scores out.               *)
(*                                                                         *)
(* One node is seen alone.  The guards on stake, cooldown, spacing and     *)
(* maturity are left to AgiRewards: the module allows every sequence of    *)
(* instructions that the program allows, and more.  u32 and u64 arithmetic *)
(* panics on overflow (overflow-checks = true) and is plain here.          *)
(***************************************************************************)
EXTENDS Integers, FiniteSets

CONSTANTS
    MissedRounds,   \* rounds a heartbeat may find missed (never 0)
    TimeSteps,      \* seconds that may pass at once
    MaxAge,         \* bound on the age of the node, in seconds
    MaxProofs,      \* bound on the proofs submitted
    MaxVotes        \* bound on votes, reports and heartbeats

CONSTANTS           \* constants.rs
    BASE_REWARD,
    Weight,         \* Weight[c]: WEIGHT_* of capability c, in basis points
    INITIAL_REPUTATION, MAX_REPUTATION,
    REPUTATION_GAIN_PER_PROOF, REPUTATION_GAIN_PER_VALIDATION,
    REPUTATION_LOSS_INVALID_PROOF, REPUTATION_LOSS_MISSED_ROUND,
    MIN_REPUTATION_TO_VALIDATE, MAX_STRIKES_BEFORE_BAN,
    MAX_CONSECUTIVE_MISSES, LOYALTY_THRESHOLD_DAYS, QUALITY_WINDOW

CapabilityNames ==
    {"inference", "research", "proxy", "storage", "embedding", "memory",
     "orchestration", "validation", "relay"}

ASSUME InputAssumption ==
    /\ MissedRounds \subseteq Nat \ {0}
    /\ TimeSteps \subseteq Nat
    /\ MaxAge \in Nat /\ MaxProofs \in Nat /\ MaxVotes \in Nat

ASSUME ConstantsAssumption ==
    /\ {REPUTATION_GAIN_PER_PROOF, REPUTATION_GAIN_PER_VALIDATION,
        REPUTATION_LOSS_INVALID_PROOF, REPUTATION_LOSS_MISSED_ROUND,
        MIN_REPUTATION_TO_VALIDATE, MAX_STRIKES_BEFORE_BAN,
        MAX_CONSECUTIVE_MISSES} \subseteq Nat
    /\ MAX_REPUTATION \in 0 .. 10000
    /\ INITIAL_REPUTATION \in 0 .. MAX_REPUTATION
    /\ LOYALTY_THRESHOLD_DAYS \in Nat \ {0}
    /\ QUALITY_WINDOW \in Nat \ {0}
    /\ BASE_REWARD \in Nat
    /\ Weight \in [CapabilityNames -> Nat]

VARIABLES
    account,    \* the scores and counters of the node account
    age,        \* now - registered_at
    votes       \* steps of the environment so far; bounds the instances

vars == <<account, age, votes>>

(***************************************************************************)
(* helpers.rs.                                                             *)
(***************************************************************************)
AtMost(x, max) == IF x < max THEN x ELSE max

AtLeast(x, min) == IF x < min THEN min ELSE x

\* Mutation of SaturatingSub: a plain subtraction.
SaturatingSub_Plain(x, y) == x - y

SaturatingSub(x, y) == IF y < x THEN x - y ELSE 0

\* Mutation of update_honesty: the share of the invalid proofs.
update_honesty_Swapped(a) ==
    IF a.valid + a.invalid = 0 THEN 5000
    ELSE (a.invalid * 10000) \div (a.valid + a.invalid)

update_honesty(a) ==
    IF a.valid + a.invalid = 0 THEN 5000
    ELSE (a.valid * 10000) \div (a.valid + a.invalid)

update_loyalty(active_duration) ==
    IF active_duration <= 0 THEN 0
    ELSE AtMost((active_duration * 10000) \div LOYALTY_THRESHOLD_DAYS, 10000)

\* Mutation of update_quality: the window starts afresh when it is full.
update_quality_Ring(a) ==
    LET recent_valid == a.valid % QUALITY_WINDOW
        total        == recent_valid + a.invalid
    IN  IF total = 0 THEN 5000
        ELSE SaturatingSub((recent_valid * 10000) \div total, a.failures * 500)

update_quality(a) ==
    LET recent_valid == AtMost(a.valid, QUALITY_WINDOW)
        total        == recent_valid + a.invalid
    IN  IF total = 0 THEN 5000
        ELSE SaturatingSub((recent_valid * 10000) \div total, a.failures * 500)

update_consistency(a) ==
    IF a.rounds = 0 THEN 5000 ELSE SaturatingSub(10000, a.misses * 200)

composite(a) ==
    (a.honesty * 3000 + a.loyalty * 2000 + a.quality * 3000 + a.consistency * 2000)
        \div 10000

\* Mutation of reputation_reward_multiplier: without the floor.
reputation_reward_multiplier_NoFloor(a) == (a.reputation * composite(a)) \div 10000

reputation_reward_multiplier(a) ==
    AtLeast((a.reputation * composite(a)) \div 10000, 1000)

\* ln(1 + x / 100) in units of 1 / 10000, piecewise linear.
ln_x10000(x) ==
    CASE x <= 50               -> x * 100
      [] x > 50 /\ x <= 100    -> 4055 + (x - 50) * 57
      [] x > 100 /\ x <= 200   -> 6930 + (x - 100) * 41
      [] x > 200 /\ x <= 500   -> 10990 + (x - 200) * 23
      [] x > 500 /\ x <= 1000  -> 17920 + (x - 500) * 12
      [] OTHER                 -> 23980 + AtMost(x - 1000, 2000) * 6

uptime_bonus_fixed(uptime_hours_x100) ==
    10000 + (ln_x10000(uptime_hours_x100 \div 12) * 2000) \div 10000

UptimeBonus(uptime_seconds) == uptime_bonus_fixed((uptime_seconds * 100) \div 3600)

capability_bonus_fixed(capabilities) ==
    LET weight(c) == IF c \in capabilities THEN Weight[c] ELSE 0
    IN  10000 + weight("inference") + weight("research") + weight("proxy")
              + weight("storage") + weight("embedding") + weight("memory")
              + weight("orchestration") + weight("validation") + weight("relay")

calculate_reward(capabilities, uptime_seconds) ==
    LET product == BASE_REWARD * UptimeBonus(uptime_seconds)
                               * capability_bonus_fixed(capabilities)
    IN  (product \div 10000) \div 10000

\* The reward of submit_pulse_proof for the account a.
adjusted_reward(a, capabilities, uptime_seconds) ==
    (calculate_reward(capabilities, uptime_seconds)
        * reputation_reward_multiplier(a)) \div 10000

(***************************************************************************)
(* What the instructions do to the scores of an account.                   *)
(***************************************************************************)
GainReputation(rep, gain) == AtMost(rep + gain, MAX_REPUTATION)

\* The accepted branch of submit_pulse_proof at uptime t: the misses and the
\* consecutive failures are reset before the scores are computed.
AcceptProof(a, t) ==
    LET counted == [a EXCEPT !.misses = 0,
                             !.rounds = @ + 1,
                             !.valid = @ + 1,
                             !.failures = 0,
                             !.reputation = GainReputation(@, REPUTATION_GAIN_PER_PROOF)]
    IN  [counted EXCEPT !.honesty = update_honesty(counted),
                        !.loyalty = update_loyalty(t),
                        !.quality = update_quality(counted),
                        !.consistency = update_consistency(counted)]

Struck(a, loss) ==
    [a EXCEPT !.strikes = @ + 1,
              !.reputation = SaturatingSub(@, loss),
              !.is_banned = @ \/ a.strikes + 1 >= MAX_STRIKES_BEFORE_BAN]

FailProof(a) ==
    [Struck(a, REPUTATION_LOSS_INVALID_PROOF) EXCEPT
        !.failures = @ + 1,
        !.invalid = @ + 1,
        !.honesty = SaturatingSub(@, 1000)]

(***************************************************************************)
(* The instructions.                                                       *)
(***************************************************************************)
\* register_node.
Init ==
    /\ account = [reputation |-> INITIAL_REPUTATION, honesty |-> 5000, loyalty |-> 0,
                  quality |-> 5000, consistency |-> 5000,
                  valid |-> 0, invalid |-> 0, rounds |-> 0,
                  strikes |-> 0, failures |-> 0, misses |-> 0, is_banned |-> FALSE]
    /\ age = 0
    /\ votes = 0

SubmitValidProof ==
    /\ ~account.is_banned
    /\ account.valid + account.invalid < MaxProofs
    /\ account' = AcceptProof(account, age)
    /\ UNCHANGED <<age, votes>>

SubmitInvalidProof ==
    /\ ~account.is_banned
    /\ account.valid + account.invalid < MaxProofs
    /\ account' = FailProof(account)
    /\ UNCHANGED <<age, votes>>

\* A step that counts against the bound of the instance.
Counted ==
    /\ votes < MaxVotes
    /\ votes' = votes + 1
    /\ age' = age

\* validate_peer with the node as target; it may be banned.
Confirmed ==
    /\ Counted
    /\ account' = [account EXCEPT !.reputation = GainReputation(@, 1)]

Disputed ==
    /\ Counted
    /\ account' = [account EXCEPT
          !.reputation = SaturatingSub(@, REPUTATION_LOSS_INVALID_PROOF \div 2),
          !.honesty = SaturatingSub(@, 500)]

\* validate_peer with the node as validator.
Vote(consistent) ==
    /\ Counted
    /\ account.reputation >= MIN_REPUTATION_TO_VALIDATE
    /\ ~account.is_banned
    /\ account' = IF consistent
                  THEN [account EXCEPT !.reputation =
                          GainReputation(@, REPUTATION_GAIN_PER_VALIDATION)]
                  ELSE Struck(account, REPUTATION_LOSS_INVALID_PROOF)

\* report_violation with the node as target, and as reporter.
Reported(type) ==
    /\ Counted
    /\ ~account.is_banned
    /\ account' = CASE type = 0 -> Struck(account, REPUTATION_LOSS_INVALID_PROOF)
                    [] type = 1 -> Struck(account, REPUTATION_LOSS_INVALID_PROOF * 3)
                    [] type = 2 -> [Struck(account, MAX_REPUTATION) EXCEPT
                                      !.is_banned = TRUE]

Reports ==
    /\ Counted
    /\ account.reputation >= MIN_REPUTATION_TO_VALIDATE
    /\ account' = [account EXCEPT !.reputation =
                      GainReputation(@, REPUTATION_GAIN_PER_VALIDATION * 5)]

\* heartbeat, when rounds were missed since the last accepted proof.
Heartbeat(missed) ==
    LET misses == AtMost(account.misses + AtMost(missed, 255), 255) IN
    /\ Counted
    /\ ~account.is_banned
    /\ account' = IF misses >= MAX_CONSECUTIVE_MISSES
                  THEN [account EXCEPT
                          !.misses = misses,
                          !.reputation =
                             SaturatingSub(@, REPUTATION_LOSS_MISSED_ROUND * misses),
                          !.consistency = SaturatingSub(@, 200)]
                  ELSE [account EXCEPT !.misses = misses]

Elapse(seconds) ==
    /\ age + seconds <= MaxAge
    /\ age' = age + seconds
    /\ UNCHANGED <<account, votes>>

Next ==
    \/ SubmitValidProof
    \/ SubmitInvalidProof
    \/ Confirmed
    \/ Disputed
    \/ \E consistent \in BOOLEAN : Vote(consistent)
    \/ \E type \in 0 .. 2 : Reported(type)
    \/ Reports
    \/ \E missed \in MissedRounds : Heartbeat(missed)
    \/ \E seconds \in TimeSteps : Elapse(seconds)

Spec == Init /\ [][Next]_vars

-----------------------------------------------------------------------------
(***************************************************************************)
(* Properties.                                                             *)
(***************************************************************************)
U8 == 0 .. 255

Account ==
    [reputation : Nat, honesty : Nat, loyalty : Nat, quality : Nat, consistency : Nat,
     valid : Nat, invalid : Nat, rounds : Nat,
     strikes : Nat, failures : Nat, misses : U8, is_banned : BOOLEAN]

\* The account holds what its Rust type holds.
TypeOK ==
    /\ account \in Account
    /\ age \in Nat
    /\ votes \in Nat

Score == 0 .. 10000

\* The scores and the multiplier stay on the scale their comments state
\* ("Scale: 0-10000", "Floor at 1000 (0.1x)"), whatever mixture of valid and
\* invalid proofs, penalties and resets the node went through.
ScoresInScale ==
    /\ {account.reputation, account.honesty, account.loyalty, account.quality,
        account.consistency} \subseteq Score
    /\ reputation_reward_multiplier(account) \in 1000 .. 10000

\* The multiplier a proof would earn if it were accepted now.
NextMultiplier(a, t) == reputation_reward_multiplier(AcceptProof(a, t))

\* A failed proof never pays: whatever the history, the next accepted proof
\* earns no more after another failure than without it, although an accepted
\* proof resets the failures and recomputes the scores that were cut.
FailureNeverPays ==
    NextMultiplier(FailProof(account), age) <= NextMultiplier(account, age)

\* Only a fault lowers what the next proof earns: no accepted proof, passing
\* time, consistent vote or report of another does, and a full window of valid
\* proofs is never worse than a shorter one (update_quality).
Fault ==
    \/ SubmitInvalidProof
    \/ Disputed
    \/ Vote(FALSE)
    \/ \E type \in 0 .. 2 : Reported(type)
    \/ \E missed \in MissedRounds : Heartbeat(missed)

GoodStandingPays ==
    [][NextMultiplier(account', age') >= NextMultiplier(account, age) \/ Fault]_vars

-----------------------------------------------------------------------------
(***************************************************************************)
(* What the documents and the tests say and the program does not do.       *)
(***************************************************************************)
\* The test uptime_bonus_monotonically_increasing of helpers.rs: "uptime bonus
\* should not decrease".
UptimeNeverCosts == [][UptimeBonus(age') >= UptimeBonus(age)]_vars

=============================================================================
