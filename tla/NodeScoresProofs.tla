--------------------------- MODULE NodeScoresProofs ---------------------------
(***************************************************************************)
(* Theorems about NodeScores, for every value of its constants: types,     *)
(* the scale of the scores and of the multiplier, the bounds of a reward,  *)
(* and that a failed proof never pays.                                     *)
(***************************************************************************)
EXTENDS NodeScores, TLAPS

(***************************************************************************)
(* Arithmetic.                                                             *)
(***************************************************************************)
LEMMA ConstantTypes ==
    /\ MAX_REPUTATION \in Nat /\ MAX_REPUTATION <= 10000
    /\ INITIAL_REPUTATION \in Nat /\ INITIAL_REPUTATION <= MAX_REPUTATION
    /\ LOYALTY_THRESHOLD_DAYS \in Nat /\ LOYALTY_THRESHOLD_DAYS > 0
    /\ QUALITY_WINDOW \in Nat /\ BASE_REWARD \in Nat
    /\ REPUTATION_GAIN_PER_PROOF \in Nat /\ REPUTATION_GAIN_PER_VALIDATION \in Nat
    /\ REPUTATION_LOSS_INVALID_PROOF \in Nat /\ REPUTATION_LOSS_MISSED_ROUND \in Nat
    /\ MAX_STRIKES_BEFORE_BAN \in Nat /\ MAX_CONSECUTIVE_MISSES \in Nat
  BY ConstantsAssumption DEF ConstantsAssumption

LEMMA SaturatingType ==
    \A x, y \in Nat : SaturatingSub(x, y) \in Nat /\ SaturatingSub(x, y) <= x
  BY DEF SaturatingSub

LEMMA DivIsNat ==
    ASSUME NEW x \in Nat, NEW d \in Nat, d > 0
    PROVE  x \div d \in Nat /\ d * (x \div d) <= x /\ x < d * (x \div d) + d
  OBVIOUS

\* A quotient is the largest number whose product with the divisor fits.
LEMMA DivIsLargest ==
    ASSUME NEW x \in Nat, NEW d \in Nat, d > 0, NEW q \in Nat, d * q <= x
    PROVE  q <= x \div d
<1> DEFINE p == x \div d
<1>1. p \in Nat /\ x < d * p + d
  BY DivIsNat
<1> HIDE DEF p
<1>2. d * q < d * (p + 1)
  BY <1>1
<1>3. q < p + 1
  <2>1. SUFFICES ASSUME q >= p + 1 PROVE FALSE
    BY <1>1
  <2>2. d * q >= d * (p + 1)
    BY <1>1, <2>1
  <2>3. QED
    BY <1>1, <1>2, <2>2
<1>4. QED
  BY <1>1, <1>3 DEF p

LEMMA DivAtMost ==
    ASSUME NEW x \in Nat, NEW d \in Nat, d > 0, NEW m \in Nat, x <= d * m
    PROVE  x \div d <= m
<1> DEFINE p == x \div d
<1>1. p \in Nat /\ d * p <= x
  BY DivIsNat
<1> HIDE DEF p
<1>2. SUFFICES ASSUME p >= m + 1 PROVE FALSE
  BY <1>1 DEF p
<1>3. d * p >= d * (m + 1)
  BY <1>1, <1>2
<1>4. d * (m + 1) = d * m + d
  OBVIOUS
<1>5. QED
  BY <1>1, <1>3, <1>4

\* A quotient grows with the dividend and shrinks with the divisor.
LEMMA DivMonotone ==
    ASSUME NEW x \in Nat, NEW y \in Nat, x <= y,
           NEW d \in Nat, NEW e \in Nat, 0 < d, d <= e
    PROVE  x \div e <= y \div d
<1> DEFINE q == x \div e
<1>1. q \in Nat /\ e * q <= x
  BY DivIsNat
<1> HIDE DEF q
<1>2. d * q <= e * q
  BY <1>1
<1>3. d * q <= y
  BY <1>1, <1>2
<1>4. QED
  BY <1>1, <1>3, DivIsLargest DEF q

-----------------------------------------------------------------------------
(***************************************************************************)
(* The helpers.                                                            *)
(***************************************************************************)
LEMMA GainType ==
    \A rep, gain \in Nat :
        GainReputation(rep, gain) \in Nat /\ GainReputation(rep, gain) <= MAX_REPUTATION
<1>1. MAX_REPUTATION \in Nat
  BY ConstantTypes
<1>2. QED
  BY <1>1 DEF GainReputation, AtMost

LEMMA ShareInScale ==
    ASSUME NEW v \in Nat, NEW i \in Nat, v + i > 0
    PROVE  (v * 10000) \div (v + i) \in Nat /\ (v * 10000) \div (v + i) <= 10000
<1>1. v * 10000 \in Nat /\ v * 10000 <= (v + i) * 10000
  OBVIOUS
<1>2. QED
  BY <1>1, DivIsNat, DivAtMost

LEMMA HonestyType ==
    ASSUME NEW a \in Account
    PROVE  update_honesty(a) \in Nat /\ update_honesty(a) <= 10000
<1>1. a.valid \in Nat /\ a.invalid \in Nat
  BY DEF Account
<1>2. CASE a.valid + a.invalid = 0
  BY <1>2 DEF update_honesty
<1>3. CASE a.valid + a.invalid > 0
  BY <1>1, <1>3, ShareInScale DEF update_honesty
<1>4. QED
  BY <1>1, <1>2, <1>3

LEMMA LoyaltyType ==
    ASSUME NEW t \in Nat
    PROVE  update_loyalty(t) \in Nat /\ update_loyalty(t) <= 10000
<1>1. t * 10000 \in Nat
  OBVIOUS
<1>2. (t * 10000) \div LOYALTY_THRESHOLD_DAYS \in Nat
  BY <1>1, DivIsNat, ConstantTypes
<1>3. QED
  BY <1>2 DEF update_loyalty, AtMost

LEMMA QualityType ==
    ASSUME NEW a \in Account
    PROVE  update_quality(a) \in Nat /\ update_quality(a) <= 10000
<1> DEFINE recent == AtMost(a.valid, QUALITY_WINDOW)
<1> DEFINE share == (recent * 10000) \div (recent + a.invalid)
<1> DEFINE penalty == a.failures * 500
<1>1. recent \in Nat /\ a.invalid \in Nat /\ penalty \in Nat
  BY ConstantTypes DEF Account, AtMost
<1>2. update_quality(a) = IF recent + a.invalid = 0 THEN 5000
                          ELSE SaturatingSub(share, penalty)
  BY DEF update_quality
<1> HIDE DEF recent, penalty
<1>3. CASE recent + a.invalid = 0
  BY <1>2, <1>3
<1>4. CASE recent + a.invalid > 0
  <2>1. share \in Nat /\ share <= 10000
    BY <1>1, <1>4, ShareInScale
  <2> HIDE DEF share
  <2>2. SaturatingSub(share, penalty) \in Nat /\ SaturatingSub(share, penalty) <= share
    BY <1>1, <2>1, SaturatingType
  <2>3. QED
    BY <1>2, <1>4, <2>1, <2>2
<1>5. QED
  BY <1>1, <1>3, <1>4

LEMMA ConsistencyType ==
    ASSUME NEW a \in Account
    PROVE  update_consistency(a) \in Nat /\ update_consistency(a) <= 10000
  BY DEF update_consistency, SaturatingSub, Account, U8

-----------------------------------------------------------------------------
(***************************************************************************)
(* The scale.  Every step leaves a well-typed account whose scores are on  *)
(* the scale.                                                              *)
(***************************************************************************)
Reputation == 0 .. MAX_REPUTATION

ScaledAccount ==
    [reputation : Reputation, honesty : Score, loyalty : Score, quality : Score,
     consistency : Score, valid : Nat, invalid : Nat, rounds : Nat,
     strikes : Nat, failures : Nat, misses : U8, is_banned : BOOLEAN]

LEMMA ScoreTypes ==
    /\ \A a \in Account : update_honesty(a) \in Score
    /\ \A a \in Account : update_quality(a) \in Score
    /\ \A a \in Account : update_consistency(a) \in Score
    /\ \A t \in Nat : update_loyalty(t) \in Score
<1>1. \A x \in Nat : x <= 10000 => x \in Score
  BY DEF Score
<1>2. ASSUME NEW a \in Account PROVE update_honesty(a) \in Score
  BY <1>1, HonestyType
<1>3. ASSUME NEW a \in Account PROVE update_quality(a) \in Score
  BY <1>1, QualityType
<1>4. ASSUME NEW a \in Account PROVE update_consistency(a) \in Score
  BY <1>1, ConsistencyType
<1>5. ASSUME NEW t \in Nat PROVE update_loyalty(t) \in Score
  BY <1>1, LoyaltyType
<1>6. QED
  BY <1>2, <1>3, <1>4, <1>5

LEMMA ReputationType ==
    \A rep, gain \in Nat : GainReputation(rep, gain) \in Reputation
<1>1. MAX_REPUTATION \in Nat
  BY ConstantTypes
<1>2. QED
  BY <1>1 DEF GainReputation, AtMost, Reputation

LEMMA ScaledIsAccount ==
    ASSUME NEW a
    PROVE  a \in ScaledAccount
              <=> /\ a \in Account
                  /\ a.reputation \in Reputation
                  /\ a.honesty \in Score /\ a.loyalty \in Score
                  /\ a.quality \in Score /\ a.consistency \in Score
<1>1. Reputation \subseteq Nat /\ Score \subseteq Nat
  BY ConstantTypes DEF Reputation, Score
<1>2. QED
  BY <1>1 DEF ScaledAccount, Account

LEMMA AccountFields ==
    ASSUME NEW a \in Account
    PROVE  /\ a.reputation \in Nat /\ a.honesty \in Nat /\ a.loyalty \in Nat
           /\ a.quality \in Nat /\ a.consistency \in Nat
           /\ a.valid \in Nat /\ a.invalid \in Nat /\ a.rounds \in Nat
           /\ a.strikes \in Nat /\ a.failures \in Nat /\ a.misses \in U8
           /\ a.is_banned \in BOOLEAN
  BY DEF Account

\* The account after an accepted proof, before its scores are computed; rep is
\* its new reputation, i and j its new counts of rounds and valid proofs,
\* z those of misses and failures.
CountProof(a, z, i, j, rep) ==
    [a EXCEPT !.misses = z, !.rounds = i, !.valid = j, !.failures = z,
              !.reputation = rep]

WithScores(a, h, l, q, k) ==
    [a EXCEPT !.honesty = h, !.loyalty = l, !.quality = q, !.consistency = k]

CountedProof(a) ==
    CountProof(a, 0, a.rounds + 1, a.valid + 1,
               GainReputation(a.reputation, REPUTATION_GAIN_PER_PROOF))

LEMMA CountedProofFields ==
    ASSUME NEW a \in Account
    PROVE  /\ CountedProof(a) \in Account
           /\ CountedProof(a).reputation
                 = GainReputation(a.reputation, REPUTATION_GAIN_PER_PROOF)
           /\ CountedProof(a).valid = a.valid + 1
           /\ CountedProof(a).invalid = a.invalid
           /\ CountedProof(a).rounds = a.rounds + 1
           /\ CountedProof(a).failures = 0
           /\ CountedProof(a).misses = 0
<1> DEFINE rep == GainReputation(a.reputation, REPUTATION_GAIN_PER_PROOF)
<1> DEFINE z == 0
<1> DEFINE i == a.rounds + 1
<1> DEFINE j == a.valid + 1
<1>1. a.reputation \in Nat /\ i \in Nat /\ j \in Nat /\ z \in Nat /\ z \in U8
  BY AccountFields DEF U8
<1>2. REPUTATION_GAIN_PER_PROOF \in Nat
  BY ConstantTypes
<1>3. rep \in Nat
  BY <1>1, <1>2, GainType
<1>4. CountedProof(a) = CountProof(a, z, i, j, rep)
  BY DEF CountedProof
<1> HIDE DEF rep, z, i, j
<1>5. /\ CountedProof(a) \in Account
      /\ CountedProof(a).reputation = rep
      /\ CountedProof(a).valid = j
      /\ CountedProof(a).invalid = a.invalid
      /\ CountedProof(a).rounds = i
      /\ CountedProof(a).failures = z
      /\ CountedProof(a).misses = z
  BY <1>1, <1>3, <1>4 DEF CountProof, Account
<1>6. QED
  BY <1>5 DEF rep, z, i, j

LEMMA AcceptProofFields ==
    ASSUME NEW a \in Account, NEW t \in Nat
    PROVE  /\ AcceptProof(a, t) \in Account
           /\ AcceptProof(a, t).reputation
                 = GainReputation(a.reputation, REPUTATION_GAIN_PER_PROOF)
           /\ AcceptProof(a, t).honesty = update_honesty(CountedProof(a))
           /\ AcceptProof(a, t).loyalty = update_loyalty(t)
           /\ AcceptProof(a, t).quality = update_quality(CountedProof(a))
           /\ AcceptProof(a, t).consistency = update_consistency(CountedProof(a))
<1> DEFINE c == CountedProof(a)
<1> DEFINE h == update_honesty(c)
<1> DEFINE l == update_loyalty(t)
<1> DEFINE q == update_quality(c)
<1> DEFINE k == update_consistency(c)
<1>1. AcceptProof(a, t) = WithScores(c, h, l, q, k)
  BY DEF AcceptProof, CountedProof, CountProof, WithScores
<1>2. /\ c \in Account
      /\ c.reputation = GainReputation(a.reputation, REPUTATION_GAIN_PER_PROOF)
  BY CountedProofFields
<1> HIDE DEF c
<1>3. h \in Nat /\ q \in Nat
  BY <1>2, HonestyType, QualityType
<1>4. l \in Nat /\ k \in Nat
  BY <1>2, LoyaltyType, ConsistencyType
<1> HIDE DEF h, l, q, k
<1>5. /\ AcceptProof(a, t) \in Account
      /\ AcceptProof(a, t).reputation = c.reputation
      /\ AcceptProof(a, t).honesty = h
      /\ AcceptProof(a, t).loyalty = l
      /\ AcceptProof(a, t).quality = q
      /\ AcceptProof(a, t).consistency = k
  BY <1>1, <1>2, <1>3, <1>4 DEF WithScores, Account
<1>6. QED
  BY <1>2, <1>5 DEF c, h, l, q, k

LEMMA AcceptInScale ==
    ASSUME NEW a \in ScaledAccount, NEW t \in Nat
    PROVE  AcceptProof(a, t) \in ScaledAccount
<1> DEFINE accepted == AcceptProof(a, t)
<1> DEFINE c == CountedProof(a)
<1>1. a \in Account
  BY ScaledIsAccount
<1>2. a.reputation \in Nat /\ REPUTATION_GAIN_PER_PROOF \in Nat
  BY <1>1, ConstantTypes, AccountFields
<1>3. c \in Account
  BY <1>1, CountedProofFields
<1>4. accepted.reputation \in Reputation
  <2>1. accepted.reputation = GainReputation(a.reputation, REPUTATION_GAIN_PER_PROOF)
    BY <1>1, AcceptProofFields
  <2>2. QED
    BY <1>1, <1>2, <2>1, ReputationType
<1>5. accepted.honesty \in Score /\ accepted.quality \in Score
  <2>1. accepted.honesty = update_honesty(c) /\ accepted.quality = update_quality(c)
    BY <1>1, AcceptProofFields
  <2> HIDE DEF c
  <2>2. QED
    BY <1>3, <2>1, ScoreTypes
<1>6. accepted.loyalty \in Score /\ accepted.consistency \in Score
  <2>1. /\ accepted.loyalty = update_loyalty(t)
        /\ accepted.consistency = update_consistency(c)
    BY <1>1, AcceptProofFields
  <2> HIDE DEF c
  <2>2. QED
    BY <1>3, <2>1, ScoreTypes
<1>7. accepted \in Account
  BY <1>1, AcceptProofFields
<1> HIDE DEF accepted
<1>8. accepted \in ScaledAccount
  BY <1>4, <1>5, <1>6, <1>7, ScaledIsAccount
<1>9. QED
  BY <1>8 DEF accepted

\* The updates of the other instructions.
LEMMA ScaledUpdates ==
    ASSUME NEW a \in ScaledAccount
    PROVE  /\ \A rep \in Reputation : [a EXCEPT !.reputation = rep] \in ScaledAccount
           /\ \A rep \in Reputation, h \in Score :
                [a EXCEPT !.reputation = rep, !.honesty = h] \in ScaledAccount
           /\ \A i \in Nat, rep \in Reputation, p \in BOOLEAN :
                [a EXCEPT !.strikes = i, !.reputation = rep, !.is_banned = p]
                   \in ScaledAccount
           /\ \A i, j \in Nat, h \in Score :
                [a EXCEPT !.failures = i, !.invalid = j, !.honesty = h] \in ScaledAccount
           /\ \A p \in BOOLEAN : [a EXCEPT !.is_banned = p] \in ScaledAccount
           /\ \A m \in U8 : [a EXCEPT !.misses = m] \in ScaledAccount
           /\ \A m \in U8, rep \in Reputation, k \in Score :
                [a EXCEPT !.misses = m, !.reputation = rep, !.consistency = k]
                   \in ScaledAccount
  BY DEF ScaledAccount

\* A loss or a gain leaves a reputation on its scale, a loss a score.
LEMMA LossesAndGains ==
    ASSUME NEW a \in ScaledAccount
    PROVE  /\ \A loss \in Nat : SaturatingSub(a.reputation, loss) \in Reputation
           /\ \A gain \in Nat : GainReputation(a.reputation, gain) \in Reputation
           /\ \A loss \in Nat : SaturatingSub(a.honesty, loss) \in Score
           /\ \A loss \in Nat : SaturatingSub(a.consistency, loss) \in Score
<1>1. /\ a.reputation \in Reputation /\ a.honesty \in Score /\ a.consistency \in Score
  BY DEF ScaledAccount
<1>2. MAX_REPUTATION \in Nat
  BY ConstantTypes
<1>3. \A x \in Reputation, loss \in Nat : SaturatingSub(x, loss) \in Reputation
  BY <1>2 DEF Reputation, SaturatingSub
<1>4. \A x \in Reputation, gain \in Nat : GainReputation(x, gain) \in Reputation
  BY <1>2 DEF Reputation, GainReputation, AtMost
<1>5. ASSUME NEW x \in Score, NEW loss \in Nat PROVE SaturatingSub(x, loss) \in Score
  <2>1. x \in Nat /\ x <= 10000
    BY DEF Score
  <2>2. \A y \in Nat : y <= 10000 => y \in Score
    BY DEF Score
  <2>3. SaturatingSub(x, loss) \in Nat /\ SaturatingSub(x, loss) <= x
    BY <2>1, SaturatingType
  <2>4. QED
    BY <2>1, <2>2, <2>3
<1>6. QED
  BY <1>1, <1>3, <1>4, <1>5

LEMMA StruckInScale ==
    ASSUME NEW a \in ScaledAccount, NEW loss \in Nat
    PROVE  Struck(a, loss) \in ScaledAccount
<1> DEFINE rep == SaturatingSub(a.reputation, loss)
<1> DEFINE strikes == a.strikes + 1
<1> DEFINE banned == a.is_banned \/ strikes >= MAX_STRIKES_BEFORE_BAN
<1>1. rep \in Reputation
  BY LossesAndGains
<1>2. strikes \in Nat /\ banned \in BOOLEAN
  BY DEF ScaledAccount
<1>3. Struck(a, loss) = [a EXCEPT !.strikes = strikes, !.reputation = rep,
                                  !.is_banned = banned]
  BY DEF Struck
<1> HIDE DEF rep, strikes, banned
<1>4. QED
  BY <1>1, <1>2, <1>3 DEF ScaledAccount

LEMMA FailInScale ==
    ASSUME NEW a \in ScaledAccount
    PROVE  FailProof(a) \in ScaledAccount
<1> DEFINE s == Struck(a, REPUTATION_LOSS_INVALID_PROOF)
<1> DEFINE i == s.failures + 1
<1> DEFINE j == s.invalid + 1
<1> DEFINE honesty == SaturatingSub(s.honesty, 1000)
<1>1. s \in ScaledAccount
  BY StruckInScale, ConstantTypes
<1>2. FailProof(a) = [s EXCEPT !.failures = i, !.invalid = j, !.honesty = honesty]
  BY DEF FailProof
<1> HIDE DEF s
<1>3. i \in Nat /\ j \in Nat
  BY <1>1 DEF ScaledAccount
<1>4. honesty \in Score
  BY <1>1, LossesAndGains
<1> HIDE DEF i, j, honesty
<1>5. QED
  BY <1>1, <1>2, <1>3, <1>4 DEF ScaledAccount

-----------------------------------------------------------------------------
(***************************************************************************)
(* The inductive invariant.                                                *)
(***************************************************************************)
ScoresInv ==
    /\ account \in ScaledAccount
    /\ age \in Nat
    /\ votes \in Nat

LEMMA InitScores == Init => ScoresInv
<1> SUFFICES ASSUME Init PROVE ScoresInv
  OBVIOUS
<1>1. INITIAL_REPUTATION \in Reputation
  BY ConstantTypes DEF Reputation
<1>2. 0 \in Score /\ 5000 \in Score /\ 0 \in U8
  BY DEF Score, U8
<1>3. account \in ScaledAccount
  BY <1>1, <1>2 DEF Init, ScaledAccount
<1>4. QED
  BY <1>3 DEF Init, ScoresInv

LEMMA NextScores == ScoresInv /\ [Next]_vars => ScoresInv'
<1> SUFFICES ASSUME ScoresInv, [Next]_vars PROVE ScoresInv'
  OBVIOUS
<1> USE DEF ScoresInv
<1>0. votes + 1 \in Nat
  OBVIOUS
<1>1. CASE SubmitValidProof
  BY <1>1, AcceptInScale DEF SubmitValidProof
<1>2. CASE SubmitInvalidProof
  BY <1>2, FailInScale DEF SubmitInvalidProof
<1>3. CASE Confirmed
  <2>1. GainReputation(account.reputation, 1) \in Reputation
    BY LossesAndGains
  <2>2. account' \in ScaledAccount
    BY <1>3, <2>1, ScaledUpdates DEF Confirmed
  <2>3. QED
    BY <1>0, <1>3, <2>2 DEF Confirmed, Counted
<1>4. CASE Disputed
  <2> DEFINE loss == REPUTATION_LOSS_INVALID_PROOF \div 2
  <2> DEFINE rep == SaturatingSub(account.reputation, loss)
  <2> DEFINE score == SaturatingSub(account.honesty, 500)
  <2>1. loss \in Nat
    BY ConstantTypes, DivIsNat
  <2>2. account' = [account EXCEPT !.reputation = rep, !.honesty = score]
    BY <1>4 DEF Disputed
  <2> HIDE DEF loss
  <2>3. rep \in Reputation /\ score \in Score
    BY <2>1, LossesAndGains
  <2> HIDE DEF rep, score
  <2>4. account' \in ScaledAccount
    BY <2>2, <2>3, ScaledUpdates
  <2>5. QED
    BY <1>0, <1>4, <2>4 DEF Disputed, Counted
<1>5. ASSUME NEW consistent \in BOOLEAN, Vote(consistent) PROVE ScoresInv'
  <2>1. GainReputation(account.reputation, REPUTATION_GAIN_PER_VALIDATION) \in Reputation
    BY LossesAndGains, ConstantTypes
  <2>2. Struck(account, REPUTATION_LOSS_INVALID_PROOF) \in ScaledAccount
    BY StruckInScale, ConstantTypes
  <2>3. account' \in ScaledAccount
    BY <1>5, <2>1, <2>2, ScaledUpdates DEF Vote
  <2>4. QED
    BY <1>0, <1>5, <2>3 DEF Vote, Counted
<1>6. ASSUME NEW type \in 0 .. 2, Reported(type) PROVE ScoresInv'
  <2>1. /\ REPUTATION_LOSS_INVALID_PROOF \in Nat
        /\ REPUTATION_LOSS_INVALID_PROOF * 3 \in Nat
        /\ MAX_REPUTATION \in Nat
    BY ConstantTypes
  <2>2. /\ Struck(account, REPUTATION_LOSS_INVALID_PROOF) \in ScaledAccount
        /\ Struck(account, REPUTATION_LOSS_INVALID_PROOF * 3) \in ScaledAccount
        /\ Struck(account, MAX_REPUTATION) \in ScaledAccount
    BY <2>1, StruckInScale
  <2>3. [Struck(account, MAX_REPUTATION) EXCEPT !.is_banned = TRUE] \in ScaledAccount
    BY <2>2, ScaledUpdates
  <2>4. type = 0 \/ type = 1 \/ type = 2
    OBVIOUS
  <2>5. account' \in ScaledAccount
    BY <1>6, <2>2, <2>3, <2>4 DEF Reported
  <2>6. QED
    BY <1>0, <1>6, <2>5 DEF Reported, Counted
<1>7. CASE Reports
  <2>1. REPUTATION_GAIN_PER_VALIDATION * 5 \in Nat
    BY ConstantTypes
  <2>2. GainReputation(account.reputation, REPUTATION_GAIN_PER_VALIDATION * 5)
           \in Reputation
    BY <2>1, LossesAndGains
  <2>3. account' \in ScaledAccount
    BY <1>7, <2>2, ScaledUpdates DEF Reports
  <2>4. QED
    BY <1>0, <1>7, <2>3 DEF Reports, Counted
<1>8. ASSUME NEW missed \in MissedRounds, Heartbeat(missed) PROVE ScoresInv'
  <2> DEFINE misses == AtMost(account.misses + AtMost(missed, 255), 255)
  <2> DEFINE loss == REPUTATION_LOSS_MISSED_ROUND * misses
  <2> DEFINE rep == SaturatingSub(account.reputation, loss)
  <2> DEFINE score == SaturatingSub(account.consistency, 200)
  <2>1. account.misses \in Nat /\ missed \in Nat
    BY InputAssumption DEF InputAssumption, ScaledAccount, U8
  <2>2. misses \in Nat /\ misses <= 255
    BY <2>1 DEF AtMost
  <2>3. account' = IF misses >= MAX_CONSECUTIVE_MISSES
                   THEN [account EXCEPT !.misses = misses, !.reputation = rep,
                                        !.consistency = score]
                   ELSE [account EXCEPT !.misses = misses]
    BY <1>8 DEF Heartbeat
  <2> HIDE DEF misses
  <2>4. loss \in Nat
    BY <2>2, ConstantTypes
  <2> HIDE DEF loss
  <2>5. rep \in Reputation /\ score \in Score
    BY <2>4, LossesAndGains
  <2>6. misses \in U8
    BY <2>2 DEF U8
  <2> HIDE DEF rep, score
  <2>7. account' \in ScaledAccount
    BY <2>3, <2>5, <2>6, ScaledUpdates
  <2>8. QED
    BY <1>0, <1>8, <2>7 DEF Heartbeat, Counted
<1>9. ASSUME NEW seconds \in TimeSteps, Elapse(seconds) PROVE ScoresInv'
  <2>1. age + seconds \in Nat
    BY InputAssumption DEF InputAssumption
  <2>2. QED
    BY <1>9, <2>1 DEF Elapse
<1>10. CASE UNCHANGED vars
  BY <1>10 DEF vars
<1>11. QED
  BY <1>1, <1>2, <1>3, <1>4, <1>5, <1>6, <1>7, <1>8, <1>9, <1>10 DEF Next

LEMMA ScoresInvariant == Spec => []ScoresInv
<1>1. QED
  BY InitScores, NextScores, PTL DEF Spec

\* The account and the clock keep their types.
THEOREM TypeCorrect == Spec => []TypeOK
<1>1. ScoresInv => TypeOK
  BY ScaledIsAccount DEF ScoresInv, TypeOK
<1>2. QED
  BY <1>1, ScoresInvariant, PTL

-----------------------------------------------------------------------------
(***************************************************************************)
(* The multiplier.                                                         *)
(***************************************************************************)
LEMMA ScaledFields ==
    ASSUME NEW a \in ScaledAccount
    PROVE  /\ a.reputation \in Nat /\ a.reputation <= 10000
           /\ a.honesty \in Nat /\ a.honesty <= 10000
           /\ a.loyalty \in Nat /\ a.loyalty <= 10000
           /\ a.quality \in Nat /\ a.quality <= 10000
           /\ a.consistency \in Nat /\ a.consistency <= 10000
<1>1. \A x \in Score : x \in Nat /\ x <= 10000
  BY DEF Score
<1>2. \A x \in Reputation : x \in Nat /\ x <= 10000
  BY ConstantTypes DEF Reputation
<1>3. /\ a.reputation \in Reputation /\ a.honesty \in Score /\ a.loyalty \in Score
      /\ a.quality \in Score /\ a.consistency \in Score
  BY DEF ScaledAccount
<1>4. QED
  BY <1>1, <1>2, <1>3

LEMMA CompositeInScale ==
    ASSUME NEW a \in ScaledAccount
    PROVE  composite(a) \in Nat /\ composite(a) <= 10000
<1> DEFINE sum == a.honesty * 3000 + a.loyalty * 2000 + a.quality * 3000
                     + a.consistency * 2000
<1>1. sum \in Nat /\ sum <= 10000 * 10000
  BY ScaledFields
<1>2. composite(a) = sum \div 10000
  BY DEF composite
<1> HIDE DEF sum
<1>3. QED
  BY <1>1, <1>2, DivIsNat, DivAtMost

LEMMA ProductMonotone ==
    ASSUME NEW x \in Nat, NEW y \in Nat, NEW v \in Nat, NEW w \in Nat, x <= v, y <= w
    PROVE  x * y \in Nat /\ v * w \in Nat /\ x * y <= v * w
<1>1. x * y <= v * y
  OBVIOUS
<1>2. v * y <= v * w
  OBVIOUS
<1>3. x * y \in Nat /\ v * y \in Nat /\ v * w \in Nat
  OBVIOUS
<1>4. QED
  BY <1>1, <1>2, <1>3

LEMMA MultiplierInScale ==
    ASSUME NEW a \in ScaledAccount
    PROVE  reputation_reward_multiplier(a) \in 1000 .. 10000
<1> DEFINE product == a.reputation * composite(a)
<1>1. a.reputation \in Nat /\ a.reputation <= 10000
  BY ScaledFields
<1>2. product \in Nat /\ product <= 10000 * 10000
  BY <1>1, CompositeInScale, ProductMonotone
<1>3. reputation_reward_multiplier(a) = AtLeast(product \div 10000, 1000)
  BY DEF reputation_reward_multiplier
<1> HIDE DEF product
<1> DEFINE quotient == product \div 10000
<1>4. quotient \in Nat /\ quotient <= 10000
  BY <1>2, DivIsNat, DivAtMost
<1>5. reputation_reward_multiplier(a) = AtLeast(quotient, 1000)
  BY <1>3
<1> HIDE DEF quotient
<1>6. QED
  BY <1>4, <1>5 DEF AtLeast

\* The scores and the multiplier stay on the scale helpers.rs states.
THEOREM ScaleTheorem == Spec => []ScoresInScale
<1>1. ASSUME ScoresInv PROVE ScoresInScale
  <2>1. account \in ScaledAccount
    BY <1>1 DEF ScoresInv
  <2>2. /\ account.reputation \in Score /\ account.honesty \in Score
        /\ account.loyalty \in Score /\ account.quality \in Score
        /\ account.consistency \in Score
    <3>1. \A x \in Nat : x <= 10000 => x \in Score
      BY DEF Score
    <3>2. QED
      BY <2>1, <3>1, ScaledFields
  <2>3. reputation_reward_multiplier(account) \in 1000 .. 10000
    BY <2>1, MultiplierInScale
  <2>4. QED
    BY <2>2, <2>3 DEF ScoresInScale
<1>2. QED
  BY <1>1, ScoresInvariant, PTL

-----------------------------------------------------------------------------
(***************************************************************************)
(* What the next proof earns.  The multiplier is monotone in the           *)
(* reputation and the scores, and the scores of an accepted proof are      *)
(* monotone in the history.                                                *)
(***************************************************************************)
NoBetter(a, b) ==
    /\ a.reputation <= b.reputation
    /\ a.honesty <= b.honesty
    /\ a.loyalty <= b.loyalty
    /\ a.quality <= b.quality
    /\ a.consistency <= b.consistency

LEMMA MultiplierMonotone ==
    ASSUME NEW a \in ScaledAccount, NEW b \in ScaledAccount, NoBetter(a, b)
    PROVE  reputation_reward_multiplier(a) <= reputation_reward_multiplier(b)
<1> DEFINE sum(x) == x.honesty * 3000 + x.loyalty * 2000 + x.quality * 3000
                        + x.consistency * 2000
<1> DEFINE product(x) == x.reputation * composite(x)
<1>1. sum(a) \in Nat /\ sum(b) \in Nat /\ sum(a) <= sum(b)
  BY ScaledFields DEF NoBetter
<1>2. composite(a) = sum(a) \div 10000 /\ composite(b) = sum(b) \div 10000
  BY DEF composite
<1> HIDE DEF sum
<1>3. composite(a) <= composite(b)
  BY <1>1, <1>2, DivMonotone
<1>4. /\ a.reputation \in Nat /\ b.reputation \in Nat /\ a.reputation <= b.reputation
      /\ composite(a) \in Nat /\ composite(b) \in Nat
  BY ScaledFields, CompositeInScale DEF NoBetter
<1>5. product(a) \in Nat /\ product(b) \in Nat /\ product(a) <= product(b)
  BY <1>3, <1>4, ProductMonotone
<1>6. /\ reputation_reward_multiplier(a) = AtLeast(product(a) \div 10000, 1000)
      /\ reputation_reward_multiplier(b) = AtLeast(product(b) \div 10000, 1000)
  BY DEF reputation_reward_multiplier
<1> HIDE DEF product
<1>7. /\ product(a) \div 10000 \in Nat /\ product(b) \div 10000 \in Nat
      /\ product(a) \div 10000 <= product(b) \div 10000
  BY <1>5, DivIsNat, DivMonotone
<1>8. QED
  BY <1>6, <1>7 DEF AtLeast

\* The share of v valid proofs among v + i, in basis points.
Share(v, i) == (v * 10000) \div (v + i)

LEMMA ShareOfMore ==
    ASSUME NEW v \in Nat, NEW i \in Nat, v > 0
    PROVE  /\ Share(v, i) \in Nat
           /\ Share(v, i + 1) <= Share(v, i)
           /\ Share(v, i) <= Share(v + 1, i)
<1>1. v * 10000 \in Nat /\ v + i \in Nat /\ v + i > 0
  OBVIOUS
<1>2. Share(v, i) \in Nat /\ Share(v, i) <= 10000
  BY <1>1, ShareInScale DEF Share
<1>3. Share(v, i + 1) <= Share(v, i)
  <2>1. v + (i + 1) \in Nat /\ v + i <= v + (i + 1)
    OBVIOUS
  <2>2. (v * 10000) \div (v + (i + 1)) <= (v * 10000) \div (v + i)
    BY <1>1, <2>1, DivMonotone
  <2>3. QED
    BY <2>2 DEF Share
<1>4. Share(v, i) <= Share(v + 1, i)
  <2> DEFINE q == Share(v, i)
  <2>1. (v + i) * q <= v * 10000
    BY <1>1, DivIsNat DEF Share
  <2>2. q \in Nat /\ q <= 10000
    BY <1>2
  <2> HIDE DEF q
  <2>3. ((v + 1) + i) * q = (v + i) * q + q
    BY <2>2
  <2>4. ((v + 1) + i) * q <= (v + 1) * 10000
    BY <2>1, <2>2, <2>3
  <2>5. (v + 1) * 10000 \in Nat /\ (v + 1) + i \in Nat /\ (v + 1) + i > 0
    OBVIOUS
  <2>6. q <= ((v + 1) * 10000) \div ((v + 1) + i)
    BY <2>2, <2>4, <2>5, DivIsLargest
  <2>7. QED
    BY <2>6 DEF q, Share
<1>5. QED
  BY <1>2, <1>3, <1>4

LEMMA LoyaltyGrows ==
    ASSUME NEW t \in Nat, NEW u \in Nat, t <= u
    PROVE  update_loyalty(t) <= update_loyalty(u)
<1> DEFINE d == LOYALTY_THRESHOLD_DAYS
<1>1. d \in Nat /\ d > 0 /\ t * 10000 \in Nat /\ u * 10000 \in Nat /\ t * 10000 <= u * 10000
  BY ConstantTypes
<1>2. /\ (t * 10000) \div d \in Nat /\ (u * 10000) \div d \in Nat
      /\ (t * 10000) \div d <= (u * 10000) \div d
  BY <1>1, DivIsNat, DivMonotone
<1> DEFINE p == (t * 10000) \div d
<1> DEFINE q == (u * 10000) \div d
<1>3. /\ update_loyalty(t) = IF t <= 0 THEN 0 ELSE AtMost(p, 10000)
      /\ update_loyalty(u) = IF u <= 0 THEN 0 ELSE AtMost(q, 10000)
  BY DEF update_loyalty
<1>4. p \in Nat /\ q \in Nat /\ p <= q
  BY <1>2
<1> HIDE DEF p, q
<1>5. QED
  BY <1>3, <1>4 DEF AtMost

\* The scores of the next accepted proof, from the counts of the account.
LEMMA NextScoresOf ==
    ASSUME NEW a \in Account, NEW t \in Nat
    PROVE  /\ AcceptProof(a, t).reputation
                 = GainReputation(a.reputation, REPUTATION_GAIN_PER_PROOF)
           /\ AcceptProof(a, t).honesty = Share(a.valid + 1, a.invalid)
           /\ AcceptProof(a, t).loyalty = update_loyalty(t)
           /\ AcceptProof(a, t).quality
                 = Share(AtMost(a.valid + 1, QUALITY_WINDOW), a.invalid)
           /\ AcceptProof(a, t).consistency = 10000
<1> DEFINE c == CountedProof(a)
<1> DEFINE r == AtMost(a.valid + 1, QUALITY_WINDOW)
<1>1. /\ c \in Account /\ c.valid = a.valid + 1 /\ c.invalid = a.invalid
      /\ c.rounds = a.rounds + 1 /\ c.failures = 0 /\ c.misses = 0
  BY CountedProofFields
<1>2. a.valid \in Nat /\ a.invalid \in Nat /\ a.rounds \in Nat
  BY AccountFields
<1>3. r \in Nat /\ r > 0
  <2>1. QUALITY_WINDOW \in Nat /\ QUALITY_WINDOW > 0
    BY ConstantsAssumption DEF ConstantsAssumption
  <2>2. QED
    BY <1>2, <2>1 DEF AtMost
<1> HIDE DEF c
<1>4. update_honesty(c) = Share(a.valid + 1, a.invalid)
  <2>1. c.valid + c.invalid # 0
    BY <1>1, <1>2
  <2>2. QED
    BY <1>1, <2>1 DEF update_honesty, Share
<1>5. update_quality(c) = Share(r, a.invalid)
  <2> DEFINE share == Share(r, a.invalid)
  <2>1. update_quality(c) = IF r + a.invalid = 0 THEN 5000
                            ELSE SaturatingSub(share, c.failures * 500)
    BY <1>1 DEF update_quality, Share
  <2>2. share \in Nat
    BY <1>2, <1>3, ShareOfMore
  <2> HIDE DEF share, r
  <2>3. r + a.invalid # 0 /\ c.failures * 500 = 0
    BY <1>1, <1>2, <1>3
  <2>4. SaturatingSub(share, 0) = share
    BY <2>2 DEF SaturatingSub
  <2>5. QED
    BY <2>1, <2>3, <2>4 DEF share
<1>6. update_consistency(c) = 10000
  <2>1. c.rounds # 0 /\ c.misses * 200 = 0
    BY <1>1, <1>2
  <2>2. QED
    BY <2>1 DEF update_consistency, SaturatingSub
<1>7. QED
  BY <1>4, <1>5, <1>6, AcceptProofFields DEF c

LEMMA GainGrows ==
    \A x, y \in Nat : x <= y =>
        GainReputation(x, REPUTATION_GAIN_PER_PROOF)
           <= GainReputation(y, REPUTATION_GAIN_PER_PROOF)
<1>1. MAX_REPUTATION \in Nat /\ REPUTATION_GAIN_PER_PROOF \in Nat
  BY ConstantTypes
<1>2. QED
  BY <1>1 DEF GainReputation, AtMost

\* One account earns at most what another does with the next proof if its
\* reputation and the shares its next proof makes are no larger.
LEMMA NextMonotone ==
    ASSUME NEW a \in ScaledAccount, NEW b \in ScaledAccount,
           NEW t \in Nat, NEW u \in Nat, t <= u,
           a.reputation <= b.reputation,
           Share(a.valid + 1, a.invalid) <= Share(b.valid + 1, b.invalid),
           Share(AtMost(a.valid + 1, QUALITY_WINDOW), a.invalid)
              <= Share(AtMost(b.valid + 1, QUALITY_WINDOW), b.invalid)
    PROVE  NextMultiplier(a, t) <= NextMultiplier(b, u)
<1> DEFINE x == AcceptProof(a, t)
<1> DEFINE y == AcceptProof(b, u)
<1>1. x \in ScaledAccount /\ y \in ScaledAccount
  BY AcceptInScale
<1>2. a \in Account /\ b \in Account
  BY ScaledIsAccount
<1>3. /\ x.reputation = GainReputation(a.reputation, REPUTATION_GAIN_PER_PROOF)
      /\ x.honesty = Share(a.valid + 1, a.invalid)
      /\ x.loyalty = update_loyalty(t)
      /\ x.quality = Share(AtMost(a.valid + 1, QUALITY_WINDOW), a.invalid)
      /\ x.consistency = 10000
  BY <1>2, NextScoresOf
<1>4. /\ y.reputation = GainReputation(b.reputation, REPUTATION_GAIN_PER_PROOF)
      /\ y.honesty = Share(b.valid + 1, b.invalid)
      /\ y.loyalty = update_loyalty(u)
      /\ y.quality = Share(AtMost(b.valid + 1, QUALITY_WINDOW), b.invalid)
      /\ y.consistency = 10000
  BY <1>2, NextScoresOf
<1> HIDE DEF x, y
<1>5. x.reputation <= y.reputation
  <2>1. a.reputation \in Nat /\ b.reputation \in Nat
    BY <1>2, AccountFields
  <2>2. QED
    BY <1>3, <1>4, <2>1, GainGrows
<1>6. x.loyalty <= y.loyalty
  BY <1>3, <1>4, LoyaltyGrows
<1>7. x.honesty <= y.honesty /\ x.quality <= y.quality /\ x.consistency <= y.consistency
  <2>1. 10000 <= 10000
    OBVIOUS
  <2>2. QED
    BY <1>3, <1>4, <2>1
<1>8. NoBetter(x, y)
  BY <1>5, <1>6, <1>7 DEF NoBetter
<1>9. QED
  BY <1>1, <1>8, MultiplierMonotone DEF x, y, NextMultiplier

\* The case of two accounts with the same counts.
LEMMA NextOfSameCounts ==
    ASSUME NEW a \in ScaledAccount, NEW b \in ScaledAccount,
           NEW t \in Nat, NEW u \in Nat, t <= u,
           a.reputation <= b.reputation, a.valid = b.valid, a.invalid = b.invalid
    PROVE  NextMultiplier(a, t) <= NextMultiplier(b, u)
<1> DEFINE r == AtMost(a.valid + 1, QUALITY_WINDOW)
<1>1. a.valid + 1 \in Nat /\ a.valid + 1 > 0 /\ a.invalid \in Nat
  BY DEF ScaledAccount
<1>2. r \in Nat /\ r > 0
  <2>1. QUALITY_WINDOW \in Nat /\ QUALITY_WINDOW > 0
    BY ConstantsAssumption DEF ConstantsAssumption
  <2>2. QED
    BY <1>1, <2>1 DEF AtMost
<1>3. Share(a.valid + 1, a.invalid) \in Nat /\ Share(r, a.invalid) \in Nat
  BY <1>1, <1>2, ShareOfMore
<1>4. \A x \in Nat : x <= x
  OBVIOUS
<1>5. /\ Share(a.valid + 1, a.invalid) <= Share(b.valid + 1, b.invalid)
      /\ Share(r, a.invalid) <= Share(AtMost(b.valid + 1, QUALITY_WINDOW), b.invalid)
  BY <1>3, <1>4
<1>6. QED
  BY <1>5, NextMonotone

LEMMA FailProofFields ==
    ASSUME NEW a \in ScaledAccount
    PROVE  /\ FailProof(a) \in ScaledAccount
           /\ FailProof(a).reputation <= a.reputation
           /\ FailProof(a).valid = a.valid
           /\ FailProof(a).invalid = a.invalid + 1
<1> DEFINE s == Struck(a, REPUTATION_LOSS_INVALID_PROOF)
<1> DEFINE rep == SaturatingSub(a.reputation, REPUTATION_LOSS_INVALID_PROOF)
<1>1. a.reputation \in Nat /\ REPUTATION_LOSS_INVALID_PROOF \in Nat
  BY ScaledFields, ConstantTypes
<1>2. rep <= a.reputation
  BY <1>1, SaturatingType
<1> HIDE DEF rep
<1>3. s \in ScaledAccount
  BY <1>1, StruckInScale
<1>4. s.reputation = rep /\ s.valid = a.valid /\ s.invalid = a.invalid
  BY DEF Struck, ScaledAccount, rep
<1> HIDE DEF s
<1> DEFINE i == s.failures + 1
<1> DEFINE j == s.invalid + 1
<1> DEFINE h == SaturatingSub(s.honesty, 1000)
<1>5. FailProof(a) = [s EXCEPT !.failures = i, !.invalid = j, !.honesty = h]
  BY DEF FailProof, s
<1> HIDE DEF i, j, h
<1>6. /\ FailProof(a).reputation = s.reputation
      /\ FailProof(a).valid = s.valid
      /\ FailProof(a).invalid = j
  BY <1>3, <1>5 DEF ScaledAccount
<1>7. FailProof(a) \in ScaledAccount
  BY FailInScale
<1>8. QED
  BY <1>2, <1>4, <1>6, <1>7 DEF j

\* A failed proof never pays, for every history and every age of the node.
THEOREM FailureTheorem == Spec => []FailureNeverPays
<1>1. ASSUME ScoresInv PROVE FailureNeverPays
  <2> DEFINE b == account
  <2> DEFINE a == FailProof(b)
  <2> DEFINE v == b.valid + 1
  <2> DEFINE r == AtMost(v, QUALITY_WINDOW)
  <2>1. b \in ScaledAccount /\ age \in Nat
    BY <1>1 DEF ScoresInv
  <2>2. /\ a \in ScaledAccount /\ a.reputation <= b.reputation
        /\ a.valid = b.valid /\ a.invalid = b.invalid + 1
    BY <2>1, FailProofFields
  <2>3. v \in Nat /\ v > 0 /\ b.invalid \in Nat /\ r \in Nat /\ r > 0
    <3>1. QUALITY_WINDOW \in Nat /\ QUALITY_WINDOW > 0
      BY ConstantsAssumption DEF ConstantsAssumption
    <3>2. v \in Nat /\ v > 0 /\ b.invalid \in Nat
      BY <2>1 DEF ScaledAccount
    <3>3. QED
      BY <3>1, <3>2 DEF AtMost
  <2>4. /\ Share(v, b.invalid + 1) <= Share(v, b.invalid)
        /\ Share(r, b.invalid + 1) <= Share(r, b.invalid)
    BY <2>3, ShareOfMore
  <2>5. /\ Share(a.valid + 1, a.invalid) <= Share(b.valid + 1, b.invalid)
        /\ Share(AtMost(a.valid + 1, QUALITY_WINDOW), a.invalid)
              <= Share(AtMost(b.valid + 1, QUALITY_WINDOW), b.invalid)
    BY <2>2, <2>4
  <2> HIDE DEF a
  <2>6. NextMultiplier(a, age) <= NextMultiplier(b, age)
    <3>1. age <= age
      BY <2>1
    <3>2. QED
      BY <2>1, <2>2, <2>5, <3>1, NextMonotone
  <2>7. QED
    BY <2>6 DEF a, FailureNeverPays
<1>2. QED
  BY <1>1, ScoresInvariant, PTL

\* An accepted proof raises the shares that the next one makes, also where the
\* window of update_quality is full.
LEMMA AcceptedSharesGrow ==
    ASSUME NEW v \in Nat, NEW i \in Nat, v > 0
    PROVE  /\ Share(v, i) <= Share(v + 1, i)
           /\ Share(AtMost(v, QUALITY_WINDOW), i)
                 <= Share(AtMost(v + 1, QUALITY_WINDOW), i)
<1> DEFINE w == QUALITY_WINDOW
<1>1. w \in Nat /\ w > 0
  BY ConstantsAssumption DEF ConstantsAssumption
<1>2. Share(v, i) <= Share(v + 1, i)
  BY ShareOfMore
<1>3. CASE v < w
  <2>1. AtMost(v, w) = v /\ AtMost(v + 1, w) = v + 1
    BY <1>1, <1>3 DEF AtMost
  <2>2. QED
    BY <1>2, <2>1
<1>4. CASE v >= w
  <2>1. AtMost(v, w) = w /\ AtMost(v + 1, w) = w
    BY <1>1, <1>4 DEF AtMost
  <2>2. Share(w, i) \in Nat
    BY <1>1, ShareOfMore
  <2>3. Share(w, i) <= Share(w, i)
    BY <2>2
  <2>4. QED
    BY <1>2, <2>1, <2>3
<1>5. QED
  BY <1>1, <1>3, <1>4

\* The gain of reputation never lowers it on its scale.
LEMMA GainRaises ==
    ASSUME NEW a \in ScaledAccount, NEW gain \in Nat
    PROVE  /\ GainReputation(a.reputation, gain) \in Reputation
           /\ a.reputation <= GainReputation(a.reputation, gain)
<1>1. MAX_REPUTATION \in Nat
  BY ConstantTypes
<1>2. a.reputation \in Nat /\ a.reputation <= MAX_REPUTATION
  BY <1>1 DEF ScaledAccount, Reputation
<1>3. a.reputation <= GainReputation(a.reputation, gain)
  BY <1>1, <1>2 DEF GainReputation, AtMost
<1>4. QED
  BY <1>3, LossesAndGains

LEMMA NextAfterGain ==
    ASSUME NEW a \in ScaledAccount, NEW b, NEW gain \in Nat, NEW t \in Nat,
           b = [a EXCEPT !.reputation = GainReputation(@, gain)]
    PROVE  NextMultiplier(a, t) <= NextMultiplier(b, t)
<1> DEFINE rep == GainReputation(a.reputation, gain)
<1>1. rep \in Reputation /\ a.reputation <= rep
  BY GainRaises
<1>2. b = [a EXCEPT !.reputation = rep]
  OBVIOUS
<1> HIDE DEF rep
<1>3. /\ b \in ScaledAccount /\ b.reputation = rep
      /\ b.valid = a.valid /\ b.invalid = a.invalid
  BY <1>1, <1>2 DEF ScaledAccount
<1>4. t <= t
  OBVIOUS
<1>5. QED
  BY <1>1, <1>3, <1>4, NextOfSameCounts

LEMMA NextAfterAccept ==
    ASSUME NEW a \in ScaledAccount, NEW t \in Nat
    PROVE  NextMultiplier(a, t) <= NextMultiplier(AcceptProof(a, t), t)
<1> DEFINE b == AcceptProof(a, t)
<1> DEFINE v == a.valid + 1
<1>1. a \in Account
  BY ScaledIsAccount
<1>2. b \in ScaledAccount
  BY AcceptInScale
<1>3. b.reputation = GainReputation(a.reputation, REPUTATION_GAIN_PER_PROOF)
  BY <1>1, AcceptProofFields
<1>4. b.valid = v /\ b.invalid = a.invalid
  <2> DEFINE c == CountedProof(a)
  <2>1. c \in Account /\ c.valid = v /\ c.invalid = a.invalid
    BY <1>1, CountedProofFields
  <2>2. b = WithScores(c, update_honesty(c), update_loyalty(t), update_quality(c),
                       update_consistency(c))
    BY DEF AcceptProof, CountedProof, CountProof, WithScores
  <2> HIDE DEF c, b
  <2>3. QED
    BY <2>1, <2>2 DEF WithScores, Account
<1> HIDE DEF b
<1>5. a.reputation <= b.reputation
  BY <1>3, GainRaises, ConstantTypes
<1>6. v \in Nat /\ v > 0 /\ a.invalid \in Nat
  BY DEF ScaledAccount
<1> HIDE DEF v
<1>7. /\ Share(v, a.invalid) <= Share(v + 1, a.invalid)
      /\ Share(AtMost(v, QUALITY_WINDOW), a.invalid)
            <= Share(AtMost(v + 1, QUALITY_WINDOW), a.invalid)
  BY <1>6, AcceptedSharesGrow
<1>8. /\ Share(a.valid + 1, a.invalid) <= Share(b.valid + 1, b.invalid)
      /\ Share(AtMost(a.valid + 1, QUALITY_WINDOW), a.invalid)
            <= Share(AtMost(b.valid + 1, QUALITY_WINDOW), b.invalid)
  BY <1>4, <1>7 DEF v
<1>9. t <= t
  OBVIOUS
<1>10. QED
  BY <1>2, <1>5, <1>8, <1>9, NextMonotone DEF b

LEMMA NextMultiplierType ==
    ASSUME NEW a \in ScaledAccount, NEW t \in Nat
    PROVE  NextMultiplier(a, t) \in Int
<1> DEFINE m == NextMultiplier(a, t)
<1>1. m \in 1000 .. 10000
  BY AcceptInScale, MultiplierInScale DEF NextMultiplier
<1> HIDE DEF m
<1>2. m \in Int
  BY <1>1
<1>3. QED
  BY <1>2 DEF m

\* Only a fault lowers what the next proof of a node earns.
THEOREM GoodStandingTheorem == Spec => GoodStandingPays
<1> DEFINE Pays == NextMultiplier(account, age) <= NextMultiplier(account', age')
<1>1. ASSUME ScoresInv, [Next]_vars
      PROVE  [NextMultiplier(account', age') >= NextMultiplier(account, age)
                \/ Fault]_vars
  <2>1. account \in ScaledAccount /\ age \in Nat
    BY <1>1 DEF ScoresInv
  <2>2. account' \in ScaledAccount
    BY <1>1, NextScores DEF ScoresInv
  <2>3. SUFFICES ASSUME Next, ~Fault PROVE Pays
    <3>1. \A a \in ScaledAccount, t \in Nat : NextMultiplier(a, t) \in Int
      BY NextMultiplierType
    <3>2. age' \in Nat
      BY <1>1, NextScores DEF ScoresInv
    <3>3. NextMultiplier(account, age) \in Int /\ NextMultiplier(account', age') \in Int
      BY <2>1, <2>2, <3>1, <3>2
    <3>4. Pays <=> NextMultiplier(account', age') >= NextMultiplier(account, age)
      BY <3>3
    <3> HIDE DEF Pays
    <3>5. QED
      BY <1>1, <2>3, <3>4
  <2>4. CASE SubmitValidProof
    BY <2>1, <2>4, NextAfterAccept DEF SubmitValidProof
  <2>5. CASE Confirmed
    <3>1. account' = [account EXCEPT !.reputation = GainReputation(@, 1)] /\ age' = age
      BY <2>5 DEF Confirmed, Counted
    <3>2. 1 \in Nat
      OBVIOUS
    <3>3. QED
      BY <2>1, <3>1, <3>2, NextAfterGain
  <2>6. ASSUME NEW consistent \in BOOLEAN, Vote(consistent) PROVE Pays
    <3>1. consistent = TRUE
      BY <2>3, <2>6 DEF Fault
    <3>2. /\ account' = [account EXCEPT !.reputation =
                            GainReputation(@, REPUTATION_GAIN_PER_VALIDATION)]
          /\ age' = age
      BY <2>6, <3>1 DEF Vote, Counted
    <3>3. REPUTATION_GAIN_PER_VALIDATION \in Nat
      BY ConstantTypes
    <3>4. QED
      BY <2>1, <3>2, <3>3, NextAfterGain
  <2>7. CASE Reports
    <3>1. /\ account' = [account EXCEPT !.reputation =
                            GainReputation(@, REPUTATION_GAIN_PER_VALIDATION * 5)]
          /\ age' = age
      BY <2>7 DEF Reports, Counted
    <3>2. REPUTATION_GAIN_PER_VALIDATION * 5 \in Nat
      BY ConstantTypes
    <3>3. QED
      BY <2>1, <3>1, <3>2, NextAfterGain
  <2>8. ASSUME NEW seconds \in TimeSteps, Elapse(seconds) PROVE Pays
    <3>1. account' = account /\ age' = age + seconds /\ seconds \in Nat
      BY <2>8, InputAssumption DEF Elapse, InputAssumption
    <3>2. age' \in Nat /\ age <= age' /\ account.reputation <= account.reputation
      BY <2>1, <3>1, ScaledFields
    <3>3. QED
      BY <2>1, <3>1, <3>2, NextOfSameCounts
  <2>9. QED
    BY <2>3, <2>4, <2>5, <2>6, <2>7, <2>8 DEF Next, Fault
<1>2. QED
  BY <1>1, ScoresInvariant, PTL DEF Spec, GoodStandingPays

-----------------------------------------------------------------------------
(***************************************************************************)
(* The reward.  Its product exceeds the integers of TLC, so that no run    *)
(* evaluates it.                                                           *)
(***************************************************************************)
LEMMA UptimeBonusType ==
    ASSUME NEW seconds \in Nat
    PROVE  UptimeBonus(seconds) \in Nat /\ UptimeBonus(seconds) >= 10000
<1> DEFINE hours == (seconds * 100) \div 3600
<1> DEFINE x == hours \div 12
<1>1. hours \in Nat
  BY DivIsNat
<1>2. x \in Nat
  BY <1>1, DivIsNat
<1>3. UptimeBonus(seconds) = 10000 + (ln_x10000(x) * 2000) \div 10000
  BY DEF UptimeBonus, uptime_bonus_fixed
<1> HIDE DEF hours, x
<1>4. ln_x10000(x) \in Nat
  BY <1>2 DEF ln_x10000, AtMost
<1> DEFINE bonus == (ln_x10000(x) * 2000) \div 10000
<1>5. bonus \in Nat
  <2>1. ln_x10000(x) * 2000 \in Nat
    BY <1>4
  <2>2. QED
    BY <2>1, DivIsNat
<1>6. UptimeBonus(seconds) = 10000 + bonus
  BY <1>3
<1> HIDE DEF bonus
<1>7. QED
  BY <1>5, <1>6

LEMMA CapabilityBonusType ==
    ASSUME NEW capabilities \in SUBSET CapabilityNames
    PROVE  /\ capability_bonus_fixed(capabilities) \in Nat
           /\ capability_bonus_fixed(capabilities) >= 10000
<1> DEFINE weight(c) == IF c \in capabilities THEN Weight[c] ELSE 0
<1>1. \A c \in CapabilityNames : weight(c) \in Nat
  BY ConstantsAssumption DEF ConstantsAssumption
<1>2. /\ weight("inference") \in Nat /\ weight("research") \in Nat
      /\ weight("proxy") \in Nat /\ weight("storage") \in Nat
      /\ weight("embedding") \in Nat /\ weight("memory") \in Nat
      /\ weight("orchestration") \in Nat /\ weight("validation") \in Nat
      /\ weight("relay") \in Nat
  BY <1>1 DEF CapabilityNames
<1>3. capability_bonus_fixed(capabilities)
         = 10000 + weight("inference") + weight("research") + weight("proxy")
                 + weight("storage") + weight("embedding") + weight("memory")
                 + weight("orchestration") + weight("validation") + weight("relay")
  BY DEF capability_bonus_fixed
<1> HIDE DEF weight
<1>4. QED
  BY <1>2, <1>3

\* A factor of 10000 basis points or more does not shrink what it scales.
LEMMA ScaleUp ==
    ASSUME NEW x \in Nat, NEW f \in Nat, f >= 10000, NEW y \in Nat, x * 10000 <= y
    PROVE  (y * f) \div 10000 \in Nat /\ x * 10000 <= (y * f) \div 10000
<1>1. y * 10000 <= y * f /\ y * f \in Nat
  OBVIOUS
<1>2. 10000 * (x * 10000) <= y * f
  BY <1>1
<1>3. QED
  BY <1>1, <1>2, DivIsNat, DivIsLargest

LEMMA FullReward ==
    ASSUME NEW capabilities \in SUBSET CapabilityNames, NEW seconds \in Nat
    PROVE  /\ calculate_reward(capabilities, seconds) \in Nat
           /\ calculate_reward(capabilities, seconds) >= BASE_REWARD
<1> DEFINE u == UptimeBonus(seconds)
<1> DEFINE c == capability_bonus_fixed(capabilities)
<1> DEFINE y == BASE_REWARD * u
<1> DEFINE z == (y * c) \div 10000
<1>1. u \in Nat /\ u >= 10000 /\ c \in Nat /\ c >= 10000
  BY UptimeBonusType, CapabilityBonusType
<1>2. BASE_REWARD \in Nat
  BY ConstantTypes
<1>3. calculate_reward(capabilities, seconds) = z \div 10000
  BY DEF calculate_reward
<1> HIDE DEF u, c
<1>4. y \in Nat /\ BASE_REWARD * 10000 <= y
  BY <1>1, <1>2
<1> HIDE DEF y
<1>5. z \in Nat /\ BASE_REWARD * 10000 <= z
  BY <1>1, <1>2, <1>4, ScaleUp
<1> HIDE DEF z
<1>6. z \div 10000 \in Nat /\ BASE_REWARD <= z \div 10000
  BY <1>2, <1>5, DivIsNat, DivIsLargest
<1>7. QED
  BY <1>3, <1>6

\* A node on the scale is paid at least a tenth of BASE_REWARD, rounded down,
\* and never more than its uptime and its capabilities earn at full reputation:
\* the reward of submit_pulse_proof is positive, as AgiRewards assumes of
\* RewardOf.
RewardInBounds ==
    \A capabilities \in SUBSET CapabilityNames, seconds \in Nat :
        LET reward == adjusted_reward(account, capabilities, seconds)
        IN  /\ reward \in Nat
            /\ (BASE_REWARD * 1000) \div 10000 <= reward
            /\ reward <= calculate_reward(capabilities, seconds)

THEOREM RewardTheorem == Spec => []RewardInBounds
<1>1. ASSUME ScoresInv, NEW capabilities \in SUBSET CapabilityNames, NEW seconds \in Nat
      PROVE  LET reward == adjusted_reward(account, capabilities, seconds)
             IN  /\ reward \in Nat
                 /\ (BASE_REWARD * 1000) \div 10000 <= reward
                 /\ reward <= calculate_reward(capabilities, seconds)
  <2> DEFINE m == reputation_reward_multiplier(account)
  <2> DEFINE full == calculate_reward(capabilities, seconds)
  <2>1. m \in Nat /\ 1000 <= m /\ m <= 10000
    <3>1. m \in 1000 .. 10000
      BY <1>1, MultiplierInScale DEF ScoresInv
    <3> HIDE DEF m
    <3>2. QED
      BY <3>1
  <2>2. full \in Nat /\ BASE_REWARD <= full /\ BASE_REWARD \in Nat
    BY FullReward, ConstantTypes
  <2>3. adjusted_reward(account, capabilities, seconds) = (full * m) \div 10000
    BY DEF adjusted_reward
  <2> HIDE DEF m, full
  <2>4. /\ BASE_REWARD * 1000 \in Nat /\ full * m \in Nat
        /\ BASE_REWARD * 1000 <= full * m
    BY <2>1, <2>2, ProductMonotone
  <2>5. full * m <= 10000 * full
    <3>1. full * m <= full * 10000
      BY <2>1, <2>2
    <3>2. QED
      BY <2>2, <3>1
  <2>6. /\ (full * m) \div 10000 \in Nat
        /\ (BASE_REWARD * 1000) \div 10000 <= (full * m) \div 10000
        /\ (full * m) \div 10000 <= full
    BY <2>2, <2>4, <2>5, DivIsNat, DivMonotone, DivAtMost
  <2>7. QED
    BY <2>3, <2>6 DEF full
<1>2. ScoresInv => RewardInBounds
  BY <1>1 DEF RewardInBounds
<1>3. QED
  BY <1>2, ScoresInvariant, PTL

=============================================================================
