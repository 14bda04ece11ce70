----------------------- MODULE AgiRewardsLedgerProofs -----------------------
(***************************************************************************)
(* Theorems about the books of the reward program: who may be banned, what *)
(* a vote counts, what a quorum pays, and that the tokens in the vault, in *)
(* the wallets and in the counters add up.                                 *)
(***************************************************************************)
EXTENDS AgiRewardsProofs, SumProofs

-----------------------------------------------------------------------------
(***************************************************************************)
(* Accounts.  An owner who never registered has an empty account and no    *)
(* claim: nobody can vote on it, report it or be paid through it.          *)
(***************************************************************************)
AccountInv ==
    \A k \in Nodes : ~node[k].registered =>
        /\ node[k] = NoNode
        /\ \A r \in Rounds : ~pending[k][r].exists

LEMMA AccountStep == TypeOK /\ AccountInv /\ [Next]_vars => AccountInv'
<1> SUFFICES ASSUME TypeOK, AccountInv, [Next]_vars, NEW k \in Nodes, ~node'[k].registered
             PROVE  node'[k] = NoNode /\ \A r \in Rounds : ~pending'[k][r].exists
  BY DEF AccountInv
<1>1. /\ ~node[k].registered
      /\ node[k] = NoNode
      /\ \A r \in Rounds : ~pending[k][r].exists
  BY RegisteredStep DEF AccountInv
<1>2. SUFFICES node'[k] = node[k] /\ pending'[k] = pending[k]
  BY <1>1
<1>3. ASSUME NEW n \in Nodes, NEW x,
             \/ update_capabilities(n, x)
             \/ stake(n, x)
             \/ request_unstake(n, x)
             \/ withdraw_unstake(n)
             \/ heartbeat(n, x)
      PROVE  node'[k] = node[k] /\ pending'[k] = pending[k]
  BY <1>1, <1>3
     DEF TypeOK, update_capabilities, stake, request_unstake, withdraw_unstake, heartbeat
<1>4. ASSUME NEW n \in Nodes, NEW c \in Capabilities, register_node(n, c)
      PROVE  node'[k] = node[k] /\ pending'[k] = pending[k]
  <2>1. node'[n].registered
    BY <1>4, RegisterEffect DEF Standing
  <2>2. QED
    BY <1>4, <2>1 DEF TypeOK, register_node
<1>5. ASSUME NEW n \in Nodes, NEW r \in Rounds, submit_pulse_proof(n, r)
      PROVE  node'[k] = node[k] /\ pending'[k] = pending[k]
  <2>1. n # k
    BY <1>1, <1>5 DEF submit_pulse_proof, SubmitInvalidProof, SubmitMaturationProof,
                      SubmitRewardedProof, MaySubmit
  <2>2. CASE SubmitInvalidProof(n, r)
    BY <2>1, <2>2 DEF TypeOK, SubmitInvalidProof
  <2>3. CASE SubmitMaturationProof(n, r)
    BY <2>1, <2>3 DEF TypeOK, SubmitMaturationProof
  <2>4. CASE \E reward \in RewardOf[node[n].capabilities] : SubmitRewardedProof(n, r, reward)
    BY <2>1, <2>4 DEF TypeOK, SubmitRewardedProof
  <2>5. QED
    BY <1>5, <2>2, <2>3, <2>4 DEF submit_pulse_proof
<1>6. ASSUME NEW n \in Nodes, NEW r \in Rounds, finalize_reward(n, r)
      PROVE  node'[k] = node[k] /\ pending'[k] = pending[k]
  <2>1. n # k
    BY <1>1, <1>6 DEF finalize_reward, MayFinalize
  <2>2. QED
    BY <1>6, <2>1 DEF TypeOK, finalize_reward
<1>7. ASSUME NEW v \in Nodes, NEW t \in Nodes, NEW r \in Rounds, validate_peer(v, t, r)
      PROVE  node'[k] = node[k] /\ pending'[k] = pending[k]
  <2>1. v # k /\ t # k
    BY <1>1, <1>7 DEF validate_peer, ConfirmProof, DisputeProof, InconsistentVote, MayValidate
  <2>2. CASE ConfirmProof(v, t, r)
    BY <2>1, <2>2 DEF TypeOK, ConfirmProof
  <2>3. CASE DisputeProof(v, t, r)
    BY <2>1, <2>3 DEF TypeOK, DisputeProof
  <2>4. CASE InconsistentVote(v, t, r)
    BY <2>1, <2>4 DEF TypeOK, InconsistentVote
  <2>5. QED
    BY <1>7, <2>2, <2>3, <2>4 DEF validate_peer
<1>8. ASSUME NEW n \in Nodes, NEW m \in Nodes, NEW type, report_violation(n, m, type)
      PROVE  node'[k] = node[k] /\ pending'[k] = pending[k]
  <2>1. n # k /\ m # k
    BY <1>1, <1>8 DEF report_violation
  <2>2. QED
    BY <1>8, <2>1 DEF TypeOK, report_violation
<1>9. CASE Tick \/ UNCHANGED vars
  BY <1>9 DEF Tick, vars
<1>10. ASSUME NEW cap, initialize(cap)
       PROVE  node'[k] = node[k] /\ pending'[k] = pending[k]
  BY <1>10 DEF initialize
<1>11. QED
  BY <1>3, <1>4, <1>5, <1>6, <1>7, <1>8, <1>9, <1>10 DEF Next

\* Nothing ever happens to the account of an owner who did not register.
THEOREM AccountTheorem == Spec => []AccountInv
<1>1. Init => AccountInv
  BY DEF Init, NoProof, AccountInv
<1>2. TypeOK /\ AccountInv /\ [Next]_vars => AccountInv'
  BY AccountStep
<1>3. QED
  BY <1>1, <1>2, TypeCorrect, PTL DEF Spec

-----------------------------------------------------------------------------
(***************************************************************************)
(* The books.  What one step may write in the claims, the votes, the       *)
(* supply and the earnings of the nodes: nothing, the cap, one new claim,  *)
(* one vote on one claim, or the payment of one claim.                     *)
(***************************************************************************)
NothingEarned == \A k \in Nodes : node'[k].total_earned = node[k].total_earned

Untouched ==
    /\ UNCHANGED <<pending, validation>>
    /\ Supply(program') = Supply(program)
    /\ NothingEarned

CapSet ==
    /\ UNCHANGED <<pending, validation>>
    /\ ~program.initialized
    /\ program'.supply_cap \in Nat
    /\ program'.total_minted = program.total_minted
    /\ NothingEarned

Opened(n, r) ==
    /\ MaySubmit(n, r)
    /\ \E reward \in Nat, closed \in BOOLEAN :
         /\ closed <=> reward = 0
         /\ pending' = [pending EXCEPT ![n][r] = PendingRecord(reward, closed)]
    /\ validation' = validation
    /\ Supply(program') = Supply(program)
    /\ NothingEarned

Voted(v, t, r, vote) ==
    /\ MayValidate(v, t, r)
    /\ validation' = [validation EXCEPT ![t][r][v] = vote]
    /\ \/ /\ vote = "confirmed"
          /\ pending' = [pending EXCEPT ![t][r].validations_for = @ + 1]
       \/ /\ vote = "disputed"
          /\ pending' = [pending EXCEPT ![t][r].validations_against = @ + 1]
       \/ /\ vote = "inconsistent"
          /\ pending' = pending
    /\ Supply(program') = Supply(program)
    /\ NothingEarned

Settled(n, r) ==
    LET reward == pending[n][r].reward_amount IN
    /\ MayFinalize(n, r)
    /\ pending' = [pending EXCEPT ![n][r].is_finalized = TRUE]
    /\ validation' = validation
    /\ Supply(program') = <<program.initialized, program.supply_cap,
                            program.total_minted + reward>>
    /\ node'[n].total_earned = node[n].total_earned + reward
    /\ \A k \in Nodes \ {n} : node'[k].total_earned = node[k].total_earned

BookStep ==
    \/ Untouched
    \/ CapSet
    \/ \E n \in Nodes, r \in Rounds : Opened(n, r) \/ Settled(n, r)
    \/ \E v, t \in Nodes, r \in Rounds, vote \in {"confirmed", "disputed", "inconsistent"} :
         Voted(v, t, r, vote)

\* Only finalize_reward pays a node; registration opens an account that has
\* earned nothing, as the owner had before.
LEMMA EarningsStep ==
    ASSUME TypeOK, AccountInv, [Next]_vars
    PROVE  \/ NothingEarned
           \/ \E n \in Nodes, r \in Rounds : finalize_reward(n, r)
<1> USE DEF NothingEarned
<1>1. ASSUME NEW n \in Nodes, NEW c \in Capabilities, register_node(n, c)
      PROVE  NothingEarned
  <2>1. node[n] = NoNode
    BY <1>1 DEF register_node, AccountInv
  <2>2. node[n].total_earned = 0
    BY <2>1 DEF NoNode
  <2>3. node'[n].total_earned = 0
    BY <1>1 DEF TypeOK, register_node, NoNode
  <2>4. QED
    BY <1>1, <2>2, <2>3, RegisterEffect
<1>2. ASSUME NEW n \in Nodes, NEW x,
             \/ update_capabilities(n, x)
             \/ stake(n, x)
             \/ request_unstake(n, x)
             \/ withdraw_unstake(n)
      PROVE  NothingEarned
  <2>1. CASE update_capabilities(n, x)
    BY <2>1 DEF TypeOK, NodeAccount, update_capabilities
  <2>2. CASE stake(n, x)
    BY <2>2 DEF TypeOK, NodeAccount, stake
  <2>3. CASE request_unstake(n, x)
    BY <2>3 DEF TypeOK, NodeAccount, request_unstake
  <2>4. CASE withdraw_unstake(n)
    BY <2>4 DEF TypeOK, NodeAccount, withdraw_unstake
  <2>5. QED
    BY <1>2, <2>1, <2>2, <2>3, <2>4
<1>3. ASSUME NEW n \in Nodes, NEW r \in HeartbeatRounds, heartbeat(n, r)
      PROVE  NothingEarned
  BY <1>3 DEF TypeOK, NodeAccount, heartbeat
<1>4. ASSUME NEW n \in Nodes, NEW r \in Rounds, SubmitInvalidProof(n, r)
      PROVE  NothingEarned
  <2>1. ASSUME NEW x \in NodeAccount
        PROVE  apply_proof_failure(x).total_earned = x.total_earned
    BY DEF NodeAccount, apply_proof_failure
  <2>2. /\ node[n] \in NodeAccount /\ Matures(n) \in BOOLEAN
        /\ node' = [node EXCEPT ![n] =
                      apply_proof_failure([node[n] EXCEPT !.is_matured = Matures(n)])]
    BY <1>4 DEF TypeOK, NodeAccount, Matures, SubmitInvalidProof
  <2>3. /\ [node[n] EXCEPT !.is_matured = Matures(n)] \in NodeAccount
        /\ [node[n] EXCEPT !.is_matured = Matures(n)].total_earned = node[n].total_earned
    BY <2>2 DEF NodeAccount
  <2>4. QED
    BY <2>1, <2>2, <2>3 DEF TypeOK
<1>5. ASSUME NEW n \in Nodes, NEW r \in Rounds, SubmitMaturationProof(n, r)
      PROVE  NothingEarned
  BY <1>5 DEF TypeOK, NodeAccount, SubmitMaturationProof, ProofAccepted
<1>6. ASSUME NEW n \in Nodes, NEW r \in Rounds, NEW reward, SubmitRewardedProof(n, r, reward)
      PROVE  NothingEarned
  BY <1>6 DEF TypeOK, NodeAccount, SubmitRewardedProof, ProofAccepted
<1>7. ASSUME NEW v \in Nodes, NEW t \in Nodes, NEW r \in Rounds, validate_peer(v, t, r)
      PROVE  NothingEarned
  <2>1. CASE ConfirmProof(v, t, r)
    BY <2>1 DEF TypeOK, NodeAccount, ConfirmProof
  <2>2. CASE DisputeProof(v, t, r)
    BY <2>2 DEF TypeOK, NodeAccount, DisputeProof
  <2>3. CASE InconsistentVote(v, t, r)
    BY <2>3 DEF TypeOK, NodeAccount, InconsistentVote
  <2>4. QED
    BY <1>7, <2>1, <2>2, <2>3 DEF validate_peer
<1>8. ASSUME NEW n \in Nodes, NEW m \in Nodes, NEW type, report_violation(n, m, type)
      PROVE  NothingEarned
  BY <1>8 DEF TypeOK, NodeAccount, report_violation
<1>9. CASE Tick \/ UNCHANGED vars
  BY <1>9 DEF Tick, vars
<1>10. ASSUME NEW cap, initialize(cap) PROVE NothingEarned
  BY <1>10 DEF initialize
<1>11. QED
  BY <1>1, <1>2, <1>3, <1>4, <1>5, <1>6, <1>7, <1>8, <1>9, <1>10
     DEF Next, submit_pulse_proof

LEMMA BookSteps == TypeOK /\ AccountInv /\ [Next]_vars => BookStep
<1> SUFFICES ASSUME TypeOK, AccountInv, [Next]_vars PROVE BookStep
  OBVIOUS
<1> USE DEF BookStep
<1>1. ASSUME NEW n \in Nodes, NEW r \in Rounds, finalize_reward(n, r)
      PROVE  BookStep
  <2>1. /\ MayFinalize(n, r)
        /\ pending' = [pending EXCEPT ![n][r].is_finalized = TRUE]
        /\ validation' = validation
        /\ Supply(program') = <<program.initialized, program.supply_cap,
                                program.total_minted + pending[n][r].reward_amount>>
    BY <1>1, FinalizeEffect DEF Supply
  <2>2. /\ node'[n].total_earned = node[n].total_earned + pending[n][r].reward_amount
        /\ \A k \in Nodes \ {n} : node'[k].total_earned = node[k].total_earned
    BY <1>1 DEF TypeOK, NodeAccount, finalize_reward
  <2>3. Settled(n, r)
    BY <2>1, <2>2 DEF Settled
  <2>4. QED
    BY <2>3
<1>2. CASE NothingEarned
  <2>1. ASSUME NEW n \in Nodes, NEW r \in Rounds, SubmitInvalidProof(n, r)
        PROVE  Opened(n, r)
    BY <1>2, <2>1, InvalidProofEffect DEF Opened, Supply
  <2>2. ASSUME NEW n \in Nodes, NEW r \in Rounds, SubmitMaturationProof(n, r)
        PROVE  Opened(n, r)
    BY <1>2, <2>2, MaturationProofEffect DEF Opened, Supply
  <2>3. ASSUME NEW n \in Nodes, NEW r \in Rounds,
               NEW reward \in RewardOf[node[n].capabilities], SubmitRewardedProof(n, r, reward)
        PROVE  Opened(n, r)
    BY <1>2, <2>3, RewardedProofEffect DEF Opened, Supply
  <2>4. ASSUME NEW v \in Nodes, NEW t \in Nodes, NEW r \in Rounds, validate_peer(v, t, r)
        PROVE  \E vote \in {"confirmed", "disputed", "inconsistent"} : Voted(v, t, r, vote)
    <3>1. CASE ConfirmProof(v, t, r)
      <4>1. Voted(v, t, r, "confirmed")
        BY <1>2, <3>1, ConfirmEffect DEF Voted, Supply
      <4>2. QED
        BY <4>1
    <3>2. CASE DisputeProof(v, t, r)
      <4>1. Voted(v, t, r, "disputed")
        BY <1>2, <3>2, DisputeEffect DEF Voted, Supply
      <4>2. QED
        BY <4>1
    <3>3. CASE InconsistentVote(v, t, r)
      <4>1. Voted(v, t, r, "inconsistent")
        BY <1>2, <3>3, InconsistentEffect DEF Voted, Supply
      <4>2. QED
        BY <4>1
    <3>4. QED
      BY <2>4, <3>1, <3>2, <3>3 DEF validate_peer
  <2>5. ASSUME NEW n \in Nodes, NEW m \in Nodes, NEW type \in ViolationTypes,
               report_violation(n, m, type)
        PROVE  Untouched
    BY <1>2, <2>5, ReportEffect DEF Untouched, Supply
  <2>6. ASSUME NEW cap \in SupplyCaps, initialize(cap) PROVE CapSet
    BY <1>2, <2>6, InitializeEffect DEF CapSet
  <2>7. ASSUME NEW n \in Nodes, NEW x,
               \/ register_node(n, x)
               \/ update_capabilities(n, x)
               \/ stake(n, x)
               \/ request_unstake(n, x)
               \/ withdraw_unstake(n)
               \/ heartbeat(n, x)
        PROVE  UNCHANGED <<program, pending, validation>>
    BY <2>7 DEF register_node, update_capabilities, stake, request_unstake,
                withdraw_unstake, heartbeat
  <2>8. CASE UNCHANGED <<program, pending, validation>>
    BY <1>2, <2>8 DEF Untouched, Supply
  <2>9. CASE Tick \/ UNCHANGED vars
    BY <2>8, <2>9 DEF Tick, vars
  <2>10. CASE \E n \in Nodes, r \in Rounds : finalize_reward(n, r)
    BY <1>1, <2>10
  <2>11. QED
    BY <2>1, <2>2, <2>3, <2>4, <2>5, <2>6, <2>7, <2>8, <2>9, <2>10
       DEF Next, submit_pulse_proof
<1>3. QED
  BY <1>1, <1>2, EarningsStep

-----------------------------------------------------------------------------
(***************************************************************************)
(* One claim and its votes in one step.                                    *)
(***************************************************************************)
Ballot(n, r) == <<pending[n][r], validation[n][r]>>

ClaimAfter(n, r) ==
    \/ Ballot(n, r)' = Ballot(n, r)
    \/ /\ MaySubmit(n, r)
       /\ \E reward \in Nat, closed \in BOOLEAN :
            /\ closed <=> reward = 0
            /\ pending'[n][r] = PendingRecord(reward, closed)
       /\ validation'[n][r] = validation[n][r]
    \/ \E v \in Nodes :
         /\ MayValidate(v, n, r)
         /\ \/ /\ validation'[n][r] = [validation[n][r] EXCEPT ![v] = "confirmed"]
               /\ pending'[n][r] = [pending[n][r] EXCEPT !.validations_for = @ + 1]
            \/ /\ validation'[n][r] = [validation[n][r] EXCEPT ![v] = "disputed"]
               /\ pending'[n][r] = [pending[n][r] EXCEPT !.validations_against = @ + 1]
            \/ /\ validation'[n][r] = [validation[n][r] EXCEPT ![v] = "inconsistent"]
               /\ pending'[n][r] = pending[n][r]
    \/ /\ MayFinalize(n, r)
       /\ pending'[n][r] = [pending[n][r] EXCEPT !.is_finalized = TRUE]
       /\ validation'[n][r] = validation[n][r]

\* A vote goes to one claim and no other.
VotesReplaced(n, r, votes) ==
    /\ validation'[n][r] = votes
    /\ \A k \in Nodes, s \in Rounds :
          (k # n \/ s # r) => validation'[k][s] = validation[k][s]

LEMMA OneVote ==
    ASSUME TypeOK, NEW n \in Nodes, NEW r \in Rounds, NEW votes,
           validation' = [validation EXCEPT ![n][r] = votes]
    PROVE  VotesReplaced(n, r, votes)
<1>1. /\ validation'[n] = [validation[n] EXCEPT ![r] = votes]
      /\ \A k \in Nodes \ {n} : validation'[k] = validation[k]
  BY DEF TypeOK
<1>2. /\ validation'[n][r] = votes
      /\ \A s \in Rounds \ {r} : validation'[n][s] = validation[n][s]
  BY <1>1 DEF TypeOK
<1>3. QED
  BY <1>1, <1>2 DEF VotesReplaced

LEMMA ClaimAfters ==
    TypeOK /\ BookStep => \A n \in Nodes, r \in Rounds : ClaimAfter(n, r)
<1> SUFFICES ASSUME TypeOK, BookStep, NEW k \in Nodes, NEW s \in Rounds
             PROVE  ClaimAfter(k, s)
  OBVIOUS
<1> USE DEF ClaimAfter
<1>1. CASE UNCHANGED <<pending, validation>>
  BY <1>1 DEF Ballot
<1>2. ASSUME NEW n \in Nodes, NEW r \in Rounds, Opened(n, r) PROVE ClaimAfter(k, s)
  <2>1. PICK reward \in Nat, closed \in BOOLEAN :
          /\ closed <=> reward = 0
          /\ pending' = [pending EXCEPT ![n][r] = PendingRecord(reward, closed)]
    BY <1>2 DEF Opened
  <2>2. MaySubmit(n, r) /\ validation' = validation
    BY <1>2 DEF Opened
  <2>3. Replaces(n, r, PendingRecord(reward, closed))
    BY <2>1, OneClaim
  <2>4. CASE k = n /\ s = r
    BY <2>1, <2>2, <2>3, <2>4 DEF Replaces
  <2>5. CASE k # n \/ s # r
    BY <2>2, <2>3, <2>5 DEF Replaces, Ballot
  <2>6. QED
    BY <2>4, <2>5
<1>3. ASSUME NEW n \in Nodes, NEW r \in Rounds, Settled(n, r) PROVE ClaimAfter(k, s)
  <2>1. /\ MayFinalize(n, r) /\ validation' = validation
        /\ pending' = [pending EXCEPT ![n][r] = [pending[n][r] EXCEPT !.is_finalized = TRUE]]
    BY <1>3 DEF Settled
  <2>2. Replaces(n, r, [pending[n][r] EXCEPT !.is_finalized = TRUE])
    BY <2>1, OneClaim
  <2>3. CASE k = n /\ s = r
    BY <2>1, <2>2, <2>3 DEF Replaces
  <2>4. CASE k # n \/ s # r
    BY <2>1, <2>2, <2>4 DEF Replaces, Ballot
  <2>5. QED
    BY <2>3, <2>4
<1>4. ASSUME NEW v \in Nodes, NEW n \in Nodes, NEW r \in Rounds, NEW vote,
             Voted(v, n, r, vote)
      PROVE  ClaimAfter(k, s)
  <2> DEFINE x == CASE vote = "confirmed" -> [pending[n][r] EXCEPT !.validations_for = @ + 1]
                    [] vote = "disputed" -> [pending[n][r] EXCEPT !.validations_against = @ + 1]
                    [] vote = "inconsistent" -> pending[n][r]
  <2>1. /\ MayValidate(v, n, r)
        /\ vote \in {"confirmed", "disputed", "inconsistent"}
        /\ validation' = [validation EXCEPT ![n][r][v] = vote]
    BY <1>4 DEF Voted
  <2>2. pending' = [pending EXCEPT ![n][r] = x]
    <3>1. CASE vote = "confirmed"
      BY <1>4, <3>1 DEF Voted
    <3>2. CASE vote = "disputed"
      BY <1>4, <3>2 DEF Voted
    <3>3. CASE vote = "inconsistent"
      BY <1>4, <3>3 DEF Voted, TypeOK
    <3>4. QED
      BY <2>1, <3>1, <3>2, <3>3
  <2>3. /\ vote = "confirmed" => x = [pending[n][r] EXCEPT !.validations_for = @ + 1]
        /\ vote = "disputed" => x = [pending[n][r] EXCEPT !.validations_against = @ + 1]
        /\ vote = "inconsistent" => x = pending[n][r]
    OBVIOUS
  <2> HIDE DEF x
  <2>4. Replaces(n, r, x)
    BY <2>2, OneClaim
  <2>5. /\ validation'[n][r] = [validation[n][r] EXCEPT ![v] = vote]
        /\ (k # n \/ s # r) => validation'[k][s] = validation[k][s]
    <3> DEFINE votes == [validation[n][r] EXCEPT ![v] = vote]
    <3>1. validation' = [validation EXCEPT ![n][r] = votes]
      BY <2>1
    <3> HIDE DEF votes
    <3>2. VotesReplaced(n, r, votes)
      BY <3>1, OneVote
    <3>3. QED
      BY <3>2 DEF VotesReplaced, votes
  <2>6. CASE k = n /\ s = r
    <3>1. pending'[n][r] = x
      BY <2>4 DEF Replaces
    <3>2. \/ /\ validation'[n][r] = [validation[n][r] EXCEPT ![v] = "confirmed"]
             /\ pending'[n][r] = [pending[n][r] EXCEPT !.validations_for = @ + 1]
          \/ /\ validation'[n][r] = [validation[n][r] EXCEPT ![v] = "disputed"]
             /\ pending'[n][r] = [pending[n][r] EXCEPT !.validations_against = @ + 1]
          \/ /\ validation'[n][r] = [validation[n][r] EXCEPT ![v] = "inconsistent"]
             /\ pending'[n][r] = pending[n][r]
      BY <2>1, <2>3, <2>5, <3>1
    <3>3. ClaimAfter(n, r)
      BY <2>1, <3>2, Zenon
    <3>4. QED
      BY <2>6, <3>3, Zenon
  <2>7. CASE k # n \/ s # r
    BY <2>4, <2>5, <2>7 DEF Replaces, Ballot
  <2>8. QED
    BY <2>6, <2>7
<1>5. QED
  BY <1>1, <1>2, <1>3, <1>4 DEF BookStep, Untouched, CapSet

-----------------------------------------------------------------------------
(***************************************************************************)
(* Bans.                                                                   *)
(***************************************************************************)
BanKept(n) ==
    node[n].is_banned =>
      /\ node'[n].is_banned
      /\ node'[n].strikes = node[n].strikes
      /\ node'[n].stake_amount <= node[n].stake_amount
      /\ \A r \in Rounds : pending'[n][r].exists = pending[n][r].exists
      /\ \A t \in Nodes, r \in Rounds : validation'[t][r][n] = validation[t][r][n]

LEMMA BanStep == TypeOK /\ AccountInv /\ [Next]_vars => \A n \in Nodes : BanKept(n)
<1> SUFFICES ASSUME TypeOK, AccountInv, [Next]_vars, NEW n \in Nodes, node[n].is_banned
             PROVE  /\ node'[n].is_banned
                    /\ node'[n].strikes = node[n].strikes
                    /\ node'[n].stake_amount <= node[n].stake_amount
                    /\ \A r \in Rounds : pending'[n][r].exists = pending[n][r].exists
                    /\ \A t \in Nodes, r \in Rounds :
                          validation'[t][r][n] = validation[t][r][n]
  BY DEF BanKept
<1>1. node[n].registered
  <2>1. ~NoNode.is_banned
    BY DEF NoNode
  <2>2. QED
    BY <2>1 DEF AccountInv
<1>2. Standing(node'[n]) = Standing(node[n])
  BY <1>1, StandingSteps DEF StandingStep, Registered, Failed, Accepted, Struck
<1>3. node'[n].is_banned = node[n].is_banned /\ node'[n].strikes = node[n].strikes
  BY <1>2 DEF Standing
<1>4. node'[n].stake_amount <= node[n].stake_amount
  <2>1. /\ node[n].stake_amount \in Nat /\ node[n].pending_unstake \in Nat
        /\ node[n].strikes \in Nat
    BY AccountFields DEF TypeOK
  <2>2. node'[n].strikes # node[n].strikes + 1
    BY <1>3, <2>1
  <2>3. \/ node'[n].stake_amount = node[n].stake_amount
        \/ node'[n].stake_amount = 0
        \/ /\ node[n].pending_unstake <= node[n].stake_amount
           /\ node'[n].stake_amount = node[n].stake_amount - node[n].pending_unstake
    BY <2>2, StakeSteps DEF StakeStep, Staked
  <2>4. QED
    BY <2>1, <2>3
<1>5. ASSUME NEW r \in Rounds PROVE pending'[n][r].exists = pending[n][r].exists
  <2>1. ~MaySubmit(n, r)
    BY DEF MaySubmit
  <2>2. QED
    BY <2>1, ClaimSteps DEF ClaimStep, Unrewarded, Rewarded, Terms
<1>6. ASSUME NEW t \in Nodes, NEW r \in Rounds
      PROVE  validation'[t][r][n] = validation[t][r][n]
  <2>1. ClaimAfter(t, r)
    BY BookSteps, ClaimAfters
  <2>2. ~MayValidate(n, t, r)
    BY DEF MayValidate
  <2>3. CASE validation'[t][r] = validation[t][r]
    BY <2>3
  <2>4. ASSUME NEW v \in Nodes, NEW vote, v # n,
               validation'[t][r] = [validation[t][r] EXCEPT ![v] = vote]
        PROVE  validation'[t][r][n] = validation[t][r][n]
    BY <2>4 DEF TypeOK
  <2>5. QED
    BY <2>1, <2>2, <2>3, <2>4 DEF ClaimAfter, Ballot
<1>7. QED
  BY <1>3, <1>4, <1>5, <1>6

\* A ban is for good, whoever imposed it: no instruction lifts it, and a
\* banned node submits nothing, stakes nothing, votes on nothing and cannot be
\* struck again.
THEOREM BanTheorem == Spec => BanIsFinal
<1>1. TypeOK /\ AccountInv /\ [Next]_vars
         => [\A n \in Nodes : BanKept(n)]_vars
  BY BanStep
<1>2. Spec => [][\A n \in Nodes : BanKept(n)]_vars
  BY <1>1, TypeCorrect, AccountTheorem, PTL DEF Spec
<1>3. QED
  BY <1>2 DEF BanIsFinal, BanKept

-----------------------------------------------------------------------------
(***************************************************************************)
(* The count of bans.                                                      *)
(***************************************************************************)
Banned == {n \in Nodes : node[n].is_banned}

\* The count goes up by one at most, and then some node is newly banned.
CountStep ==
    \/ program'.total_banned = program.total_banned
    \/ \E m \in Nodes : /\ m \notin Banned
                        /\ m \in Banned'
                        /\ program'.total_banned = program.total_banned + 1

LEMMA CountSteps == TypeOK /\ [Next]_vars => CountStep
<1> SUFFICES ASSUME TypeOK, [Next]_vars PROVE CountStep
  OBVIOUS
<1> USE DEF CountStep
<1>1. ASSUME NEW n \in Nodes, NEW m \in Nodes, NEW type \in ViolationTypes,
             report_violation(n, m, type)
      PROVE  CountStep
  <2> DEFINE banned == node[m].strikes + 1 >= MAX_STRIKES_BEFORE_BAN \/ type = 2
  <2>1. program'.total_banned = IF banned THEN program.total_banned + 1
                                          ELSE program.total_banned
    BY <1>1 DEF TypeOK, ProgramState, report_violation
  <2>2. node'[m].is_banned = banned /\ ~node[m].is_banned
    BY <1>1, ReportEffect DEF Standing
  <2> HIDE DEF banned
  <2>3. QED
    BY <2>1, <2>2 DEF Banned
<1>2. ASSUME NEW n \in Nodes, NEW r \in Rounds, SubmitInvalidProof(n, r)
      PROVE  CountStep
  BY <1>2 DEF TypeOK, ProgramState, SubmitInvalidProof
<1>3. ASSUME NEW n \in Nodes, NEW r \in Rounds, finalize_reward(n, r)
      PROVE  CountStep
  BY <1>3 DEF TypeOK, ProgramState, finalize_reward
<1>4. ASSUME NEW cap, initialize(cap) PROVE CountStep
  BY <1>4 DEF TypeOK, ProgramState, initialize
<1>5. ASSUME NEW n \in Nodes, NEW x, NEW reward,
             \/ register_node(n, x)
             \/ update_capabilities(n, x)
             \/ stake(n, x)
             \/ request_unstake(n, x)
             \/ withdraw_unstake(n)
             \/ heartbeat(n, x)
             \/ SubmitMaturationProof(n, x)
             \/ SubmitRewardedProof(n, x, reward)
      PROVE  UNCHANGED program
  BY <1>5 DEF register_node, update_capabilities, stake, request_unstake,
              withdraw_unstake, heartbeat, SubmitMaturationProof, SubmitRewardedProof
<1>6. ASSUME NEW v \in Nodes, NEW t \in Nodes, NEW r \in Rounds, validate_peer(v, t, r)
      PROVE  UNCHANGED program
  BY <1>6 DEF validate_peer, ConfirmProof, DisputeProof, InconsistentVote
<1>7. CASE Tick \/ UNCHANGED vars
  BY <1>7 DEF Tick, vars
<1>8. QED
  BY <1>1, <1>2, <1>3, <1>4, <1>5, <1>6, <1>7 DEF Next, submit_pulse_proof

\* The count of banned nodes never exceeds their number: a report counts a
\* node once, and the bans that it does not count are never lifted.
THEOREM BannedCountTheorem == Spec => []BannedCountIsLowerBound
<1>1. Init => BannedCountIsLowerBound
  <2> SUFFICES ASSUME Init PROVE BannedCountIsLowerBound
    OBVIOUS
  <2>1. {n \in Nodes : node[n].is_banned} = {}
    BY DEF Init, NoNode
  <2>2. Cardinality({n \in Nodes : node[n].is_banned}) = 0
    BY <2>1, FS_EmptySet
  <2>3. QED
    BY <2>2 DEF Init, BannedCountIsLowerBound
<1>2. TypeOK /\ AccountInv /\ BannedCountIsLowerBound /\ [Next]_vars
         => BannedCountIsLowerBound'
  <2> SUFFICES ASSUME TypeOK, AccountInv, BannedCountIsLowerBound, [Next]_vars
               PROVE  BannedCountIsLowerBound'
    OBVIOUS
  <2>1. IsFiniteSet(Banned) /\ IsFiniteSet(Banned')
    BY NodesAssumption, FS_Subset DEF NodesAssumption, Banned
  <2>2. /\ Cardinality(Banned) \in Nat /\ Cardinality(Banned') \in Nat
        /\ program.total_banned \in Nat /\ program.total_banned <= Cardinality(Banned)
    BY <2>1, FS_CardinalityType DEF TypeOK, ProgramState, BannedCountIsLowerBound, Banned
  <2>3. Banned \in SUBSET Banned'
    BY BanStep DEF BanKept, Banned
  <2>4. Cardinality(Banned) <= Cardinality(Banned')
    BY <2>1, <2>3, FS_Subset
  <2>5. ASSUME NEW m \in Nodes, m \notin Banned, m \in Banned'
        PROVE  Cardinality(Banned) + 1 <= Cardinality(Banned')
    <3>1. Banned \cup {m} \in SUBSET Banned'
      BY <2>3, <2>5
    <3>2. Cardinality(Banned \cup {m}) = Cardinality(Banned) + 1
      BY <2>1, <2>5, FS_AddElement
    <3>3. QED
      BY <2>1, <3>1, <3>2, FS_Subset
  <2>6. program'.total_banned <= Cardinality(Banned')
    BY <2>2, <2>4, <2>5, CountSteps DEF CountStep
  <2>7. QED
    BY <2>6 DEF BannedCountIsLowerBound, Banned
<1>3. QED
  BY <1>1, <1>2, TypeCorrect, AccountTheorem, PTL DEF Spec

-----------------------------------------------------------------------------
(***************************************************************************)
(* Lockouts.                                                               *)
(***************************************************************************)
\* A longer row of failures never means a shorter lockout.
LEMMA CooldownGrows ==
    ASSUME NEW f \in Nat, NEW g \in Nat, f <= g
    PROVE  Cooldown(f) <= Cooldown(g)
<1> DEFINE steps(x) == AtMost(SaturatingSub(x, 1), 10)
           length(k) == BASE_COOLDOWN * COOLDOWN_MULTIPLIER ^ k
<1>1. steps(f) \in 0 .. 10 /\ steps(g) \in 0 .. 10 /\ steps(f) <= steps(g)
  BY DEF SaturatingSub, AtMost
<1> HIDE DEF steps
<1>2. /\ length(steps(f)) \in Nat /\ length(steps(g)) \in Nat
      /\ length(steps(f)) <= length(steps(g))
  <2>1. ASSUME NEW k \in 0 .. 10 PROVE length(k) \in Nat
    BY ConstantsAssumption DEF ConstantsAssumption
  <2>2. \A j, k \in 0 .. 10 : j <= k => length(j) <= length(k)
    BY CooldownAssumption, Zenon DEF CooldownAssumption
  <2> HIDE DEF length
  <2>3. QED
    BY <1>1, <2>1, <2>2
<1>3. MAX_COOLDOWN \in Nat
  BY ConstantsAssumption DEF ConstantsAssumption
<1>4. /\ Cooldown(f) = AtMost(length(steps(f)), MAX_COOLDOWN)
      /\ Cooldown(g) = AtMost(length(steps(g)), MAX_COOLDOWN)
  BY DEF Cooldown, steps
<1> HIDE DEF length
<1>5. QED
  BY <1>2, <1>3, <1>4 DEF AtMost

\* Only a failed proof sets a lockout.
LockoutStep(k) ==
    \/ node'[k].cooldown_until = node[k].cooldown_until
    \/ node'[k].cooldown_until = 0
    \/ /\ ~node[k].is_banned
       /\ node'[k].cooldown_until = now + Cooldown(node[k].consecutive_failures + 1)

LEMMA LockoutSteps == TypeOK /\ [Next]_vars => \A k \in Nodes : LockoutStep(k)
<1> SUFFICES ASSUME TypeOK, [Next]_vars, NEW k \in Nodes PROVE LockoutStep(k)
  OBVIOUS
<1> USE DEF LockoutStep
<1>1. ASSUME NEW n \in Nodes, NEW c \in Capabilities, register_node(n, c)
      PROVE  LockoutStep(k)
  BY <1>1 DEF TypeOK, NodeAccount, register_node, NoNode
<1>2. ASSUME NEW n \in Nodes, NEW c \in Capabilities, update_capabilities(n, c)
      PROVE  LockoutStep(k)
  BY <1>2 DEF TypeOK, NodeAccount, update_capabilities
<1>3. ASSUME NEW n \in Nodes, NEW x, stake(n, x)
      PROVE  LockoutStep(k)
  BY <1>3 DEF TypeOK, NodeAccount, stake
<1>4. ASSUME NEW n \in Nodes, NEW x, request_unstake(n, x)
      PROVE  LockoutStep(k)
  BY <1>4 DEF TypeOK, NodeAccount, request_unstake
<1>5. ASSUME NEW n \in Nodes, withdraw_unstake(n)
      PROVE  LockoutStep(k)
  BY <1>5 DEF TypeOK, NodeAccount, withdraw_unstake
<1>6. ASSUME NEW n \in Nodes, NEW r \in HeartbeatRounds, heartbeat(n, r)
      PROVE  LockoutStep(k)
  BY <1>6 DEF TypeOK, NodeAccount, heartbeat
<1>7. ASSUME NEW n \in Nodes, NEW r \in Rounds, SubmitInvalidProof(n, r)
      PROVE  LockoutStep(k)
  <2> DEFINE account == [node[n] EXCEPT !.is_matured = Matures(n)]
  <2>1. /\ node[n] \in NodeAccount /\ Matures(n) \in BOOLEAN /\ ~node[n].is_banned
        /\ node' = [node EXCEPT ![n] = apply_proof_failure(account)]
    BY <1>7 DEF TypeOK, NodeAccount, Matures, MaySubmit, SubmitInvalidProof
  <2>2. /\ account \in NodeAccount
        /\ account.consecutive_failures = node[n].consecutive_failures
    BY <2>1 DEF NodeAccount
  <2>3. ASSUME NEW x \in NodeAccount
        PROVE  apply_proof_failure(x).cooldown_until
                  = now + Cooldown(x.consecutive_failures + 1)
    BY DEF NodeAccount, apply_proof_failure
  <2> HIDE DEF account
  <2>4. node'[n].cooldown_until = now + Cooldown(node[n].consecutive_failures + 1)
    BY <2>1, <2>2, <2>3 DEF TypeOK
  <2>5. QED
    BY <2>1, <2>4 DEF TypeOK
<1>8. ASSUME NEW n \in Nodes, NEW r \in Rounds, SubmitMaturationProof(n, r)
      PROVE  LockoutStep(k)
  BY <1>8 DEF TypeOK, NodeAccount, SubmitMaturationProof, ProofAccepted
<1>9. ASSUME NEW n \in Nodes, NEW r \in Rounds, NEW reward, SubmitRewardedProof(n, r, reward)
      PROVE  LockoutStep(k)
  BY <1>9 DEF TypeOK, NodeAccount, SubmitRewardedProof, ProofAccepted
<1>10. ASSUME NEW n \in Nodes, NEW r \in Rounds, finalize_reward(n, r)
       PROVE  LockoutStep(k)
  BY <1>10 DEF TypeOK, NodeAccount, finalize_reward
<1>11. ASSUME NEW v \in Nodes, NEW t \in Nodes, NEW r \in Rounds, ConfirmProof(v, t, r)
       PROVE  LockoutStep(k)
  BY <1>11 DEF TypeOK, NodeAccount, ConfirmProof
<1>12. ASSUME NEW v \in Nodes, NEW t \in Nodes, NEW r \in Rounds, DisputeProof(v, t, r)
       PROVE  LockoutStep(k)
  BY <1>12 DEF TypeOK, NodeAccount, DisputeProof
<1>13. ASSUME NEW v \in Nodes, NEW t \in Nodes, NEW r \in Rounds, InconsistentVote(v, t, r)
       PROVE  LockoutStep(k)
  BY <1>13 DEF TypeOK, NodeAccount, InconsistentVote
<1>14. ASSUME NEW n \in Nodes, NEW m \in Nodes, NEW type, report_violation(n, m, type)
       PROVE  LockoutStep(k)
  BY <1>14 DEF TypeOK, NodeAccount, report_violation
<1>15. CASE Tick \/ UNCHANGED vars
  BY <1>15 DEF Tick, vars
<1>16. ASSUME NEW cap, initialize(cap) PROVE LockoutStep(k)
  BY <1>16 DEF initialize
<1>17. QED
  BY <1>1, <1>2, <1>3, <1>4, <1>5, <1>6, <1>7, <1>8, <1>9, <1>10, <1>11, <1>12,
     <1>13, <1>14, <1>15, <1>16 DEF Next, submit_pulse_proof, validate_peer

\* No lockout outlasts the one of the last failure before the ban, because a
\* node has at most as many failures in a row as strikes.
THEOREM CooldownTheorem == Spec => []CooldownBounded
<1>1. Init => CooldownBounded
  <2>1. Cooldown(MAX_STRIKES_BEFORE_BAN) \in Nat
    BY CooldownType, ConstantTypes
  <2>2. GenesisTime \in Nat
    BY InputAssumption DEF InputAssumption
  <2>3. QED
    BY <2>1, <2>2 DEF Init, NoNode, CooldownBounded
<1>2. TypeOK /\ StrikesBounded /\ CooldownBounded /\ [Next]_vars => CooldownBounded'
  <2> SUFFICES ASSUME TypeOK, TypeOK', StrikesBounded, CooldownBounded, [Next]_vars,
                      NEW k \in Nodes
               PROVE  node'[k].cooldown_until <= now' + Cooldown(MAX_STRIKES_BEFORE_BAN)
    BY NextTypeOK DEF CooldownBounded
  <2>1. /\ now \in Nat /\ now' \in Nat /\ now' >= now
        /\ MAX_STRIKES_BEFORE_BAN \in Nat \ {0}
        /\ Cooldown(MAX_STRIKES_BEFORE_BAN) \in Nat
    BY ClockStep, CooldownType, ConstantTypes DEF TypeOK
  <2>2. /\ node[k].cooldown_until \in Nat
        /\ node[k].consecutive_failures \in Nat /\ node[k].strikes \in Nat
        /\ node[k].is_banned \in BOOLEAN
        /\ node[k].strikes <= MAX_STRIKES_BEFORE_BAN
        /\ node[k].strikes = MAX_STRIKES_BEFORE_BAN => node[k].is_banned
        /\ node[k].consecutive_failures <= node[k].strikes
        /\ node[k].cooldown_until <= now + Cooldown(MAX_STRIKES_BEFORE_BAN)
    BY DEF TypeOK, NodeAccount, StrikesBounded, CooldownBounded
  <2>3. CASE ~node[k].is_banned
    <3>1. node[k].consecutive_failures + 1 <= MAX_STRIKES_BEFORE_BAN
      BY <2>1, <2>2, <2>3
    <3>2. /\ Cooldown(node[k].consecutive_failures + 1) \in Nat
          /\ Cooldown(node[k].consecutive_failures + 1) <= Cooldown(MAX_STRIKES_BEFORE_BAN)
      BY <2>1, <2>2, <3>1, CooldownGrows, CooldownType
    <3>3. QED
      BY <2>1, <2>2, <3>2, LockoutSteps DEF LockoutStep
  <2>4. CASE node[k].is_banned
    BY <2>1, <2>2, <2>4, LockoutSteps DEF LockoutStep
  <2>5. QED
    BY <2>3, <2>4
<1>3. QED
  BY <1>1, <1>2, TypeCorrect, StrikesTheorem, PTL DEF Spec

-----------------------------------------------------------------------------
(***************************************************************************)
(* Votes.  MintedOnlyByQuorum is not inductive: the program pays what its  *)
(* two counters say, so that the invariant must tie the counters to the    *)
(* records of the validators, and keep a paid claim's quorum.              *)
(***************************************************************************)
BallotInv(n, r) ==
    /\ pending[n][r].validations_for = Cardinality(Validators(n, r, "confirmed"))
    /\ pending[n][r].validations_against = Cardinality(Validators(n, r, "disputed"))
    /\ validation[n][r][n] = "none"
    /\ ~pending[n][r].exists => \A v \in Nodes : validation[n][r][v] = "none"
    /\ pending[n][r].is_finalized => pending[n][r].exists
    /\ Minted(n, r) => QuorumReached(n, r)

Ballots == \A n \in Nodes, r \in Rounds : BallotInv(n, r)

\* The first vote of a validator adds it to those who voted as it does.
LEMMA VoteAdds ==
    ASSUME TypeOK, NEW n \in Nodes, NEW r \in Rounds, NEW v \in Nodes, NEW vote,
           validation[n][r][v] = "none",
           validation'[n][r] = [validation[n][r] EXCEPT ![v] = vote]
    PROVE  \A x \in {"confirmed", "disputed"} :
              /\ vote = x => /\ Validators(n, r, x)' = Validators(n, r, x) \cup {v}
                             /\ v \notin Validators(n, r, x)
              /\ vote # x => Validators(n, r, x)' = Validators(n, r, x)
<1> SUFFICES ASSUME NEW x \in {"confirmed", "disputed"}
             PROVE  /\ vote = x => /\ Validators(n, r, x)' = Validators(n, r, x) \cup {v}
                                   /\ v \notin Validators(n, r, x)
                    /\ vote # x => Validators(n, r, x)' = Validators(n, r, x)
  OBVIOUS
<1>1. /\ validation'[n][r][v] = vote
      /\ \A w \in Nodes \ {v} : validation'[n][r][w] = validation[n][r][w]
      /\ x # "none"
  BY DEF TypeOK
<1>2. QED
  BY <1>1 DEF Validators

LEMMA ValidatorsFinite ==
    ASSUME NEW n \in Nodes, NEW r \in Rounds, NEW vote
    PROVE  /\ IsFiniteSet(Validators(n, r, vote))
           /\ Cardinality(Validators(n, r, vote)) \in Nat
<1>1. IsFiniteSet(Validators(n, r, vote))
  BY NodesAssumption, FS_Subset DEF NodesAssumption, Validators
<1>2. QED
  BY <1>1, FS_CardinalityType

\* The same votes are the same validators.
LEMMA SameVotes ==
    ASSUME NEW n \in Nodes, NEW r \in Rounds, validation'[n][r] = validation[n][r]
    PROVE  \A vote : Validators(n, r, vote)' = Validators(n, r, vote)
  BY DEF Validators

LEMMA BallotStep == TypeOK /\ Ballots /\ BookStep => Ballots'
<1> SUFFICES ASSUME TypeOK, Ballots, BookStep, NEW n \in Nodes, NEW r \in Rounds
             PROVE  BallotInv(n, r)'
  BY DEF Ballots
<1>1. /\ ClaimAfter(n, r)
      /\ pending[n][r] \in PendingProof
      /\ validation[n][r] \in [Nodes -> {"none", "confirmed", "disputed", "inconsistent"}]
  BY ClaimAfters DEF TypeOK
<1>2. /\ pending[n][r].validations_for = Cardinality(Validators(n, r, "confirmed"))
      /\ pending[n][r].validations_against = Cardinality(Validators(n, r, "disputed"))
      /\ validation[n][r][n] = "none"
      /\ ~pending[n][r].exists => \A v \in Nodes : validation[n][r][v] = "none"
      /\ pending[n][r].is_finalized => pending[n][r].exists
      /\ Minted(n, r) => QuorumReached(n, r)
  BY DEF Ballots, BallotInv
<1>3. CASE Ballot(n, r)' = Ballot(n, r)
  <2>1. pending'[n][r] = pending[n][r] /\ validation'[n][r] = validation[n][r]
    BY <1>3 DEF Ballot
  <2>2. \A vote : Validators(n, r, vote)' = Validators(n, r, vote)
    BY <2>1, SameVotes
  <2>3. Minted(n, r)' = Minted(n, r) /\ QuorumReached(n, r)' = QuorumReached(n, r)
    BY <2>1 DEF Minted, QuorumReached
  <2>4. QED
    BY <1>2, <2>1, <2>2, <2>3 DEF BallotInv
<1>4. ASSUME MaySubmit(n, r), NEW reward \in Nat, NEW closed \in BOOLEAN,
             closed <=> reward = 0,
             pending'[n][r] = PendingRecord(reward, closed),
             validation'[n][r] = validation[n][r]
      PROVE  BallotInv(n, r)'
  <2>1. \A v \in Nodes : validation[n][r][v] = "none"
    BY <1>2, <1>4 DEF MaySubmit
  <2>2. Validators(n, r, "confirmed")' = {} /\ Validators(n, r, "disputed")' = {}
    BY <1>4, <2>1 DEF Validators
  <2>3. Cardinality({}) = 0
    BY FS_EmptySet
  <2>4. ~Minted(n, r)'
    BY <1>4 DEF Minted, PendingRecord
  <2>5. /\ pending'[n][r].validations_for = 0 /\ pending'[n][r].validations_against = 0
        /\ pending'[n][r].exists
    BY <1>4 DEF PendingRecord
  <2>6. QED
    BY <1>2, <1>4, <2>2, <2>3, <2>4, <2>5 DEF BallotInv
<1>5. ASSUME NEW v \in Nodes, MayValidate(v, n, r), NEW vote,
             validation'[n][r] = [validation[n][r] EXCEPT ![v] = vote],
             \/ /\ vote = "confirmed"
                /\ pending'[n][r] = [pending[n][r] EXCEPT !.validations_for = @ + 1]
             \/ /\ vote = "disputed"
                /\ pending'[n][r] = [pending[n][r] EXCEPT !.validations_against = @ + 1]
             \/ /\ vote = "inconsistent"
                /\ pending'[n][r] = pending[n][r]
      PROVE  BallotInv(n, r)'
  <2>1. /\ v # n /\ pending[n][r].exists /\ ~pending[n][r].is_finalized
        /\ validation[n][r][v] = "none"
    BY <1>5 DEF MayValidate
  <2>2. /\ pending'[n][r].exists /\ ~pending'[n][r].is_finalized
        /\ pending'[n][r].validations_for
              = pending[n][r].validations_for + (IF vote = "confirmed" THEN 1 ELSE 0)
        /\ pending'[n][r].validations_against
              = pending[n][r].validations_against + (IF vote = "disputed" THEN 1 ELSE 0)
    <3>1. /\ pending[n][r].validations_for \in Nat /\ pending[n][r].validations_against \in Nat
      BY <1>1, ConstantTypes DEF PendingProof
    <3>2. QED
      BY <1>1, <1>5, <2>1, <3>1 DEF PendingProof
  <2>3. \A x \in {"confirmed", "disputed"} :
           /\ vote = x => /\ Validators(n, r, x)' = Validators(n, r, x) \cup {v}
                          /\ v \notin Validators(n, r, x)
           /\ vote # x => Validators(n, r, x)' = Validators(n, r, x)
    BY <1>5, <2>1, VoteAdds
  <2>4. \A x \in {"confirmed", "disputed"} :
           Cardinality(Validators(n, r, x)')
              = Cardinality(Validators(n, r, x)) + (IF vote = x THEN 1 ELSE 0)
    <3> SUFFICES ASSUME NEW x \in {"confirmed", "disputed"}
                 PROVE  Cardinality(Validators(n, r, x)')
                           = Cardinality(Validators(n, r, x)) + (IF vote = x THEN 1 ELSE 0)
      OBVIOUS
    <3>1. /\ IsFiniteSet(Validators(n, r, x)) /\ Cardinality(Validators(n, r, x)) \in Nat
      BY ValidatorsFinite
    <3>2. CASE vote = x
      BY <2>3, <3>1, <3>2, FS_AddElement
    <3>3. CASE vote # x
      BY <2>3, <3>1, <3>3
    <3>4. QED
      BY <3>2, <3>3
  <2>5. validation'[n][r][n] = "none"
    BY <1>1, <1>2, <1>5, <2>1
  <2>6. ~Minted(n, r)'
    BY <2>2 DEF Minted
  <2>7. QED
    BY <1>2, <2>2, <2>4, <2>5, <2>6 DEF BallotInv
<1>6. ASSUME MayFinalize(n, r),
             pending'[n][r] = [pending[n][r] EXCEPT !.is_finalized = TRUE],
             validation'[n][r] = validation[n][r]
      PROVE  BallotInv(n, r)'
  <2>1. /\ pending'[n][r].exists = pending[n][r].exists
        /\ pending'[n][r].validations_for = pending[n][r].validations_for
        /\ pending'[n][r].validations_against = pending[n][r].validations_against
    BY <1>1, <1>6 DEF PendingProof
  <2>2. pending[n][r].exists /\ QuorumReached(n, r)
    BY <1>6 DEF MayFinalize
  <2>3. QuorumReached(n, r)'
    BY <2>1, <2>2 DEF QuorumReached
  <2>4. \A vote : Validators(n, r, vote)' = Validators(n, r, vote)
    BY <1>6, SameVotes
  <2>5. QED
    BY <1>2, <1>6, <2>1, <2>2, <2>3, <2>4 DEF BallotInv
<1>7. ASSUME NEW v \in Nodes, MayValidate(v, n, r),
             \/ /\ validation'[n][r] = [validation[n][r] EXCEPT ![v] = "confirmed"]
                /\ pending'[n][r] = [pending[n][r] EXCEPT !.validations_for = @ + 1]
             \/ /\ validation'[n][r] = [validation[n][r] EXCEPT ![v] = "disputed"]
                /\ pending'[n][r] = [pending[n][r] EXCEPT !.validations_against = @ + 1]
             \/ /\ validation'[n][r] = [validation[n][r] EXCEPT ![v] = "inconsistent"]
                /\ pending'[n][r] = pending[n][r]
      PROVE  BallotInv(n, r)'
  BY <1>5, <1>7
<1>8. QED
  BY <1>1, <1>3, <1>4, <1>6, <1>7 DEF ClaimAfter

LEMMA BallotsAlways == Spec => []Ballots
<1>1. Init => Ballots
  <2> SUFFICES ASSUME Init, NEW n \in Nodes, NEW r \in Rounds PROVE BallotInv(n, r)
    BY DEF Ballots
  <2>1. /\ pending[n][r] = NoProof
        /\ \A v \in Nodes : validation[n][r][v] = "none"
    BY DEF Init
  <2>2. Validators(n, r, "confirmed") = {} /\ Validators(n, r, "disputed") = {}
    BY <2>1 DEF Validators
  <2>3. QED
    BY <2>1, <2>2, FS_EmptySet DEF NoProof, BallotInv, Minted
<1>2. TypeOK /\ AccountInv /\ Ballots /\ [Next]_vars => Ballots'
  BY BallotStep, BookSteps
<1>3. QED
  BY <1>1, <1>2, TypeCorrect, AccountTheorem, PTL DEF Spec

\* Whatever is minted was confirmed by the required number of distinct nodes
\* other than the earner, and by more nodes than disputed it.
THEOREM QuorumTheorem == Spec => []MintedOnlyByQuorum
<1>1. TypeOK /\ Ballots => MintedOnlyByQuorum
  <2> SUFFICES ASSUME TypeOK, Ballots, NEW n \in Nodes, NEW r \in Rounds, Minted(n, r)
               PROVE  /\ n \notin Validators(n, r, "confirmed")
                      /\ Cardinality(Validators(n, r, "confirmed")) >= VALIDATORS_REQUIRED
                      /\ Cardinality(Validators(n, r, "confirmed"))
                            > Cardinality(Validators(n, r, "disputed"))
    BY DEF MintedOnlyByQuorum
  <2>1. BallotInv(n, r)
    BY DEF Ballots
  <2>2. QED
    BY <2>1 DEF BallotInv, QuorumReached, Validators
<1>2. QED
  BY <1>1, BallotsAlways, TypeCorrect, PTL

-----------------------------------------------------------------------------
(***************************************************************************)
(* Stability of a quorum.                                                  *)
(***************************************************************************)
QuorumKept(n, r) ==
    (/\ now > pending[n][r].submitted_at + VALIDATION_WINDOW
     /\ MayFinalize(n, r))
    => \/ Minted(n, r)'
       \/ MayFinalize(n, r)'
       \/ program'.total_minted + pending[n][r].reward_amount > program.supply_cap

LEMMA QuorumStep ==
    TypeOK /\ AccountInv /\ SupplyInv /\ [Next]_vars
       => \A n \in Nodes, r \in Rounds : QuorumKept(n, r)
<1> SUFFICES ASSUME TypeOK, TypeOK', AccountInv, SupplyInv, [Next]_vars,
                    NEW n \in Nodes, NEW r \in Rounds,
                    now > pending[n][r].submitted_at + VALIDATION_WINDOW,
                    MayFinalize(n, r),
                    program'.total_minted + pending[n][r].reward_amount
                       <= program.supply_cap
             PROVE  Minted(n, r)' \/ MayFinalize(n, r)'
  <2>1. TypeOK /\ TypeOK' => \A n \in Nodes, r \in Rounds :
           /\ program'.total_minted + pending[n][r].reward_amount \in Int
           /\ program.supply_cap \in Int
    BY DEF TypeOK, ProgramState, PendingProof
  <2>2. QED
    BY <2>1, NextTypeOK DEF QuorumKept
<1>1. /\ pending[n][r] \in PendingProof
      /\ pending[n][r].exists /\ ~pending[n][r].is_finalized
      /\ pending[n][r].reward_amount > 0 /\ pending[n][r].reward_amount \in Nat
      /\ pending[n][r].submitted_at \in Nat /\ VALIDATION_WINDOW \in Nat
      /\ now \in Nat /\ now' \in Nat /\ now' >= now
  BY ClockStep, ConstantTypes DEF TypeOK, PendingProof, MayFinalize
<1>2. program'.supply_cap = program.supply_cap
  <2>1. /\ program.total_minted \in Nat
        /\ program.total_minted + pending[n][r].reward_amount <= program.supply_cap
    BY DEF TypeOK, ProgramState, MayFinalize
  <2>2. program.initialized
    BY <1>1, <2>1 DEF SupplyInv
  <2>3. QED
    BY <2>2, SupplySteps DEF SupplyStep, Supply
<1>3. ClaimAfter(n, r)
  BY BookSteps, ClaimAfters
<1>4. ~MaySubmit(n, r)
  BY <1>1 DEF MaySubmit
<1>5. \A v \in Nodes : ~MayValidate(v, n, r)
  BY <1>1 DEF MayValidate
<1>6. CASE Ballot(n, r)' = Ballot(n, r)
  <2>1. pending'[n][r] = pending[n][r]
    BY <1>6 DEF Ballot
  <2>2. WindowClosed(n, r)'
    BY <1>1, <2>1 DEF WindowClosed
  <2>3. QuorumReached(n, r)'
    BY <2>1 DEF MayFinalize, QuorumReached
  <2>4. QED
    BY <1>1, <1>2, <2>1, <2>2, <2>3 DEF MayFinalize
<1>7. CASE pending'[n][r] = [pending[n][r] EXCEPT !.is_finalized = TRUE]
  BY <1>1, <1>7 DEF PendingProof, Minted
<1>8. QED
  BY <1>3, <1>4, <1>5, <1>6, <1>7 DEF ClaimAfter

\* A quorum that stands when the window is over is not lost: only the payment
\* itself or a spent supply ends the right to it.
THEOREM StabilityTheorem == Spec => QuorumIsStable
<1>1. TypeOK /\ AccountInv /\ SupplyInv /\ [Next]_vars
         => [\A n \in Nodes, r \in Rounds : QuorumKept(n, r)]_vars
  BY QuorumStep
<1>2. Spec => [][\A n \in Nodes, r \in Rounds : QuorumKept(n, r)]_vars
  BY <1>1, TypeCorrect, AccountTheorem, SupplyAlways, PTL DEF Spec
<1>3. QED
  BY <1>2 DEF QuorumIsStable, QuorumKept

-----------------------------------------------------------------------------
(***************************************************************************)
(* The program implements ProofEscrow.                                     *)
(***************************************************************************)
Claims == [n \in Nodes |-> [r \in Rounds |-> Claim(n, r)]]
Confirmed == [n \in Nodes |-> [r \in Rounds |-> Validators(n, r, "confirmed")]]
Disputed == [n \in Nodes |-> [r \in Rounds |-> Validators(n, r, "disputed")]]

\* Two tables that differ in one entry.
LEMMA OneEntry ==
    ASSUME NEW S, NEW T, NEW f, NEW g, NEW n \in S, NEW r \in T, NEW x,
           f = [k \in S |-> [s \in T |-> f[k][s]]],
           g = [k \in S |-> [s \in T |-> g[k][s]]],
           g[n][r] = x,
           \A k \in S, s \in T : (k # n \/ s # r) => g[k][s] = f[k][s]
    PROVE  g = [f EXCEPT ![n][r] = x]
<1> DEFINE h == [f EXCEPT ![n][r] = x]
<1>1. /\ DOMAIN h = S
      /\ \A k \in S : h[k] = IF k = n THEN [f[n] EXCEPT ![r] = x] ELSE f[k]
      /\ h = [k \in S |-> h[k]]
  OBVIOUS
<1>2. \A k \in S : f[k] = [s \in T |-> f[k][s]] /\ g[k] = [s \in T |-> g[k][s]]
  OBVIOUS
<1>3. [f[n] EXCEPT ![r] = x] = [s \in T |-> IF s = r THEN x ELSE f[n][s]]
  BY <1>2
<1>4. \A k \in S : g[k] = h[k]
  <2> SUFFICES ASSUME NEW k \in S PROVE g[k] = h[k]
    OBVIOUS
  <2>1. CASE k = n
    BY <1>1, <1>2, <1>3, <2>1
  <2>2. CASE k # n
    BY <1>1, <1>2, <2>2
  <2>3. QED
    BY <2>1, <2>2
<1>5. g = [k \in S |-> g[k]]
  OBVIOUS
<1> HIDE DEF h
<1>6. g = h
  BY <1>1, <1>4, <1>5
<1>7. QED
  BY <1>6 DEF h

\* A step that writes one pending proof changes one claim; one that writes the
\* votes on one proof changes the voters of one claim.
LEMMA OneClaimChanges ==
    ASSUME NEW n \in Nodes, NEW r \in Rounds, NEW x, Replaces(n, r, x)
    PROVE  Claims' = [Claims EXCEPT ![n][r] = Claim(n, r)']
<1>1. \A k \in Nodes, s \in Rounds :
         (k # n \/ s # r) => Claims'[k][s] = Claims[k][s]
  BY DEF Replaces, Claims, Claim, Minted
<1>2. /\ Claims = [k \in Nodes |-> [s \in Rounds |-> Claims[k][s]]]
      /\ Claims' = [k \in Nodes |-> [s \in Rounds |-> Claims'[k][s]]]
      /\ Claims'[n][r] = Claim(n, r)'
  BY DEF Claims
<1>3. QED
  BY <1>1, <1>2, OneEntry

LEMMA OneBallotChanges ==
    ASSUME NEW n \in Nodes, NEW r \in Rounds, NEW votes, VotesReplaced(n, r, votes)
    PROVE  /\ Confirmed' = [Confirmed EXCEPT ![n][r] = Validators(n, r, "confirmed")']
           /\ Disputed' = [Disputed EXCEPT ![n][r] = Validators(n, r, "disputed")']
<1>1. \A k \in Nodes, s \in Rounds : (k # n \/ s # r) =>
         /\ Confirmed'[k][s] = Confirmed[k][s]
         /\ Disputed'[k][s] = Disputed[k][s]
  BY DEF VotesReplaced, Confirmed, Disputed, Validators
<1>2. /\ Confirmed = [k \in Nodes |-> [s \in Rounds |-> Confirmed[k][s]]]
      /\ Confirmed' = [k \in Nodes |-> [s \in Rounds |-> Confirmed'[k][s]]]
      /\ Confirmed'[n][r] = Validators(n, r, "confirmed")'
  BY DEF Confirmed
<1>3. /\ Disputed = [k \in Nodes |-> [s \in Rounds |-> Disputed[k][s]]]
      /\ Disputed' = [k \in Nodes |-> [s \in Rounds |-> Disputed'[k][s]]]
      /\ Disputed'[n][r] = Validators(n, r, "disputed")'
  BY DEF Disputed
<1>4. Confirmed' = [Confirmed EXCEPT ![n][r] = Validators(n, r, "confirmed")']
  BY <1>1, <1>2, OneEntry
<1>5. Disputed' = [Disputed EXCEPT ![n][r] = Validators(n, r, "disputed")']
  BY <1>1, <1>3, OneEntry
<1>6. QED
  BY <1>4, <1>5

LEMMA VotesStay ==
    ASSUME validation' = validation
    PROVE  Confirmed' = Confirmed /\ Disputed' = Disputed
BY DEF Confirmed, Disputed, Validators

\* The operators of ProofEscrow over the tables of the refinement mapping.
LEMMA EscrowTables ==
    /\ Escrow!vars = <<Claims, Confirmed, Disputed, program.total_minted, program.supply_cap>>
    /\ Escrow!Init <=>
          /\ Claims = [k \in Nodes |-> [s \in Rounds |-> "none"]]
          /\ Confirmed = [k \in Nodes |-> [s \in Rounds |-> {}]]
          /\ Disputed = [k \in Nodes |-> [s \in Rounds |-> {}]]
          /\ program.total_minted = 0
          /\ program.supply_cap \in Nat
    /\ Escrow!SetCap <=>
          /\ program.total_minted = 0
          /\ program'.supply_cap \in Nat
          /\ Claims' = Claims /\ Confirmed' = Confirmed /\ Disputed' = Disputed
          /\ program'.total_minted = program.total_minted
    /\ UNCHANGED Escrow!vars <=>
          /\ Claims' = Claims /\ Confirmed' = Confirmed /\ Disputed' = Disputed
          /\ program'.total_minted = program.total_minted
          /\ program'.supply_cap = program.supply_cap
    /\ \A n \in Nodes, r \in Rounds :
          /\ Claims[n][r] = Claim(n, r)
          /\ Confirmed[n][r] = Validators(n, r, "confirmed")
          /\ Disputed[n][r] = Validators(n, r, "disputed")
BY DEF Escrow!vars, Escrow!Init, Escrow!SetCap, Claims, Confirmed, Disputed

LEMMA EscrowInit == Init => Escrow!Init
<1> SUFFICES ASSUME Init PROVE Escrow!Init
  OBVIOUS
<1>1. \A k \in Nodes, s \in Rounds :
        /\ Claim(k, s) = "none"
        /\ Validators(k, s, "confirmed") = {}
        /\ Validators(k, s, "disputed") = {}
  <2> SUFFICES ASSUME NEW k \in Nodes, NEW s \in Rounds
               PROVE  /\ Claim(k, s) = "none"
                      /\ Validators(k, s, "confirmed") = {}
                      /\ Validators(k, s, "disputed") = {}
    OBVIOUS
  <2>1. ~pending[k][s].exists /\ \A v \in Nodes : validation[k][s][v] = "none"
    BY DEF Init, NoProof
  <2>2. Claim(k, s) = "none"
    BY <2>1 DEF Claim, Minted
  <2>3. Validators(k, s, "confirmed") = {} /\ Validators(k, s, "disputed") = {}
    BY <2>1 DEF Validators
  <2>4. QED
    BY <2>2, <2>3
<1>2. program.total_minted = 0 /\ program.supply_cap = 0
  BY DEF Init
<1>3. QED
  BY <1>1, <1>2, EscrowTables DEF Claims, Confirmed, Disputed

\* Each kind of book-keeping step is a step of ProofEscrow.
LEMMA EscrowOpened ==
    ASSUME TypeOK, NEW n \in Nodes, NEW r \in Rounds, Opened(n, r)
    PROVE  \E status \in {"void", "open"} : Escrow!Claim(n, r, status)
<1>1. PICK reward \in Nat, closed \in BOOLEAN :
        /\ closed <=> reward = 0
        /\ pending' = [pending EXCEPT ![n][r] = PendingRecord(reward, closed)]
  BY DEF Opened
<1>2. /\ ~pending[n][r].exists
      /\ validation' = validation
      /\ program'.total_minted = program.total_minted
      /\ program'.supply_cap = program.supply_cap
  BY DEF Opened, MaySubmit, Supply
<1>3. Replaces(n, r, PendingRecord(reward, closed))
  BY <1>1, OneClaim
<1>4. Claim(n, r) = "none" /\ Claim(n, r)' \in {"void", "open"}
  BY <1>1, <1>2, <1>3 DEF Replaces, PendingRecord, Claim, Minted
<1>5. Claims' = [Claims EXCEPT ![n][r] = Claim(n, r)']
  BY <1>3, OneClaimChanges
<1>6. Confirmed' = Confirmed /\ Disputed' = Disputed
  BY <1>2, VotesStay
<1>7. Claims[n][r] = "none"
  BY <1>4 DEF Claims
<1>8. QED
  BY <1>2, <1>4, <1>5, <1>6, <1>7 DEF Escrow!Claim, Claims, Confirmed, Disputed

LEMMA EscrowVoted ==
    ASSUME TypeOK, Ballots, NEW v \in Nodes, NEW n \in Nodes, NEW r \in Rounds,
           NEW vote \in {"confirmed", "disputed", "inconsistent"}, Voted(v, n, r, vote)
    PROVE  \/ Escrow!Confirm(v, n, r)
           \/ Escrow!Dispute(v, n, r)
           \/ UNCHANGED Escrow!vars
<1>1. /\ MayValidate(v, n, r)
      /\ validation' = [validation EXCEPT ![n][r][v] = vote]
      /\ program'.total_minted = program.total_minted
      /\ program'.supply_cap = program.supply_cap
  BY DEF Voted, Supply
<1>2. /\ v # n /\ pending[n][r].exists /\ ~pending[n][r].is_finalized
      /\ validation[n][r][v] = "none"
  BY <1>1 DEF MayValidate
<1>3. /\ Claims[n][r] = "open"
      /\ v \notin Confirmed[n][r] \cup Disputed[n][r]
  BY <1>2 DEF Claims, Confirmed, Disputed, Claim, Minted, Validators
<1>4. Claims' = Claims
  <2>1. \A k \in Nodes, s \in Rounds : Claim(k, s)' = Claim(k, s)
    <3> SUFFICES ASSUME NEW k \in Nodes, NEW s \in Rounds PROVE Claim(k, s)' = Claim(k, s)
      OBVIOUS
    <3>1. /\ pending'[k][s].exists = pending[k][s].exists
          /\ pending'[k][s].is_finalized = pending[k][s].is_finalized
          /\ pending'[k][s].reward_amount = pending[k][s].reward_amount
      <4> DEFINE favour == [pending[n][r] EXCEPT !.validations_for = @ + 1]
                 against == [pending[n][r] EXCEPT !.validations_against = @ + 1]
      <4>1. /\ pending[n][r] \in PendingProof
            /\ favour.exists = pending[n][r].exists
            /\ favour.is_finalized = pending[n][r].is_finalized
            /\ favour.reward_amount = pending[n][r].reward_amount
            /\ against.exists = pending[n][r].exists
            /\ against.is_finalized = pending[n][r].is_finalized
            /\ against.reward_amount = pending[n][r].reward_amount
        BY DEF TypeOK, PendingProof
      <4>2. \/ pending' = [pending EXCEPT ![n][r] = favour]
            \/ pending' = [pending EXCEPT ![n][r] = against]
            \/ pending' = pending
        BY DEF Voted
      <4> HIDE DEF favour, against
      <4>3. CASE pending' = [pending EXCEPT ![n][r] = favour]
        BY <4>1, <4>3, OneClaim DEF Replaces
      <4>4. CASE pending' = [pending EXCEPT ![n][r] = against]
        BY <4>1, <4>4, OneClaim DEF Replaces
      <4>5. QED
        BY <4>2, <4>3, <4>4
    <3>2. QED
      BY <3>1 DEF Claim, Minted
  <2>2. QED
    BY <2>1 DEF Claims
<1> DEFINE votes == [validation[n][r] EXCEPT ![v] = vote]
<1>5. validation' = [validation EXCEPT ![n][r] = votes]
  BY <1>1
<1>6. VotesReplaced(n, r, votes)
  <2> HIDE DEF votes
  <2>1. QED
    BY <1>5, OneVote
<1>7. validation'[n][r] = [validation[n][r] EXCEPT ![v] = vote]
  BY <1>6 DEF VotesReplaced
<1>8. /\ Confirmed' = [Confirmed EXCEPT ![n][r] = Validators(n, r, "confirmed")']
      /\ Disputed' = [Disputed EXCEPT ![n][r] = Validators(n, r, "disputed")']
  <2> HIDE DEF votes
  <2>1. QED
    BY <1>6, OneBallotChanges
<1>9. \A x \in {"confirmed", "disputed"} :
         /\ vote = x => Validators(n, r, x)' = Validators(n, r, x) \cup {v}
         /\ vote # x => Validators(n, r, x)' = Validators(n, r, x)
  BY <1>2, <1>7, VoteAdds
<1>10. /\ Confirmed = [Confirmed EXCEPT ![n][r] = Validators(n, r, "confirmed")]
       /\ Disputed = [Disputed EXCEPT ![n][r] = Validators(n, r, "disputed")]
  BY DEF Confirmed, Disputed
<1>11. /\ Confirmed[n][r] = Validators(n, r, "confirmed")
       /\ Disputed[n][r] = Validators(n, r, "disputed")
  BY DEF Confirmed, Disputed
<1>12. CASE vote = "confirmed"
  <2>1. /\ Confirmed' = [Confirmed EXCEPT ![n][r] = Confirmed[n][r] \cup {v}]
        /\ Disputed' = Disputed
    BY <1>8, <1>9, <1>10, <1>11, <1>12
  <2>2. Escrow!Confirm(v, n, r)
    BY <1>1, <1>2, <1>3, <1>4, <2>1
       DEF Escrow!Confirm, Escrow!MayVote, Claims, Confirmed, Disputed
  <2>3. QED
    BY <2>2
<1>13. CASE vote = "disputed"
  <2>1. /\ Disputed' = [Disputed EXCEPT ![n][r] = Disputed[n][r] \cup {v}]
        /\ Confirmed' = Confirmed
    BY <1>8, <1>9, <1>10, <1>11, <1>13
  <2>2. Escrow!Dispute(v, n, r)
    BY <1>1, <1>2, <1>3, <1>4, <2>1
       DEF Escrow!Dispute, Escrow!MayVote, Claims, Confirmed, Disputed
  <2>3. QED
    BY <2>2
<1>14. CASE vote = "inconsistent"
  <2>1. Disputed' = Disputed /\ Confirmed' = Confirmed
    BY <1>8, <1>9, <1>10, <1>14
  <2>2. QED
    BY <1>1, <1>4, <2>1, EscrowTables
<1>15. QED
  BY <1>12, <1>13, <1>14

\* The instance counts as this module does.
LEMMA EscrowCardinality ==
    ASSUME NEW S
    PROVE  Escrow!Cardinality(S) = Cardinality(S)
BY DEF Escrow!Cardinality, Escrow!IsFiniteSet, Cardinality, IsFiniteSet

LEMMA EscrowSettled ==
    ASSUME TypeOK, Ballots, NEW n \in Nodes, NEW r \in Rounds, Settled(n, r)
    PROVE  Escrow!Pay(n, r)
<1> DEFINE paid == [pending[n][r] EXCEPT !.is_finalized = TRUE]
<1>1. /\ MayFinalize(n, r)
      /\ pending' = [pending EXCEPT ![n][r] = paid]
      /\ validation' = validation
      /\ program'.total_minted = program.total_minted + pending[n][r].reward_amount
      /\ program'.supply_cap = program.supply_cap
  BY DEF Settled, Supply
<1>2. /\ pending[n][r] \in PendingProof
      /\ paid.exists /\ paid.is_finalized /\ paid.reward_amount > 0
  BY <1>1 DEF TypeOK, PendingProof, MayFinalize
<1>3. Replaces(n, r, paid)
  <2> HIDE DEF paid
  <2>1. QED
    BY <1>1, OneClaim
<1> HIDE DEF paid
<1>4. Claim(n, r)' = "paid" /\ Claim(n, r) = "open"
  BY <1>1, <1>2, <1>3 DEF Replaces, Claim, Minted, MayFinalize
<1>5. /\ Claims' = [Claims EXCEPT ![n][r] = "paid"]
      /\ Claims[n][r] = "open"
  <2>1. Claims' = [Claims EXCEPT ![n][r] = Claim(n, r)']
    BY <1>3, OneClaimChanges
  <2>2. QED
    BY <1>4, <2>1, EscrowTables
<1>6. Confirmed' = Confirmed /\ Disputed' = Disputed
  BY <1>1, VotesStay
<1>7. /\ Cardinality(Confirmed[n][r]) >= VALIDATORS_REQUIRED
      /\ Cardinality(Confirmed[n][r]) > Cardinality(Disputed[n][r])
  BY <1>1, EscrowTables DEF Ballots, BallotInv, MayFinalize, QuorumReached
<1>8. program'.total_minted \in program.total_minted + 1 .. program.supply_cap
  <2>1. /\ program.total_minted \in Nat /\ program.supply_cap \in Nat
        /\ pending[n][r].reward_amount \in Nat
        /\ pending[n][r].reward_amount > 0
        /\ program.total_minted + pending[n][r].reward_amount <= program.supply_cap
    BY <1>1, <1>2 DEF TypeOK, ProgramState, PendingProof, MayFinalize
  <2>2. program'.total_minted = program.total_minted + pending[n][r].reward_amount
    BY <1>1
  <2>3. QED
    BY <2>1, <2>2
<1>9. /\ Escrow!Cardinality(Confirmed[n][r]) = Cardinality(Confirmed[n][r])
      /\ Escrow!Cardinality(Disputed[n][r]) = Cardinality(Disputed[n][r])
  BY EscrowCardinality
<1>10. QED
  BY <1>1, <1>5, <1>6, <1>7, <1>8, <1>9 DEF Escrow!Pay, Claims, Confirmed, Disputed

LEMMA EscrowStep ==
    TypeOK /\ SupplyInv /\ Ballots /\ BookStep => [Escrow!Next]_(Escrow!vars)
<1> SUFFICES ASSUME TypeOK, SupplyInv, Ballots, BookStep
             PROVE  Escrow!Next \/ UNCHANGED Escrow!vars
  OBVIOUS
<1>1. CASE Untouched
  <2>1. Claims' = Claims /\ Confirmed' = Confirmed /\ Disputed' = Disputed
    BY <1>1 DEF Untouched, Claims, Claim, Minted, Confirmed, Disputed, Validators
  <2>2. /\ program'.total_minted = program.total_minted
        /\ program'.supply_cap = program.supply_cap
    BY <1>1 DEF Untouched, Supply
  <2>3. QED
    BY <2>1, <2>2, EscrowTables
<1>2. CASE CapSet
  <2>1. program.total_minted = 0
    BY <1>2 DEF CapSet, SupplyInv, SupplyWithinCap, TypeOK, ProgramState
  <2>2. Claims' = Claims /\ Confirmed' = Confirmed /\ Disputed' = Disputed
    BY <1>2 DEF CapSet, Claims, Claim, Minted, Confirmed, Disputed, Validators
  <2>3. Escrow!SetCap
    BY <1>2, <2>1, <2>2, EscrowTables DEF CapSet
  <2>4. QED
    BY <2>3 DEF Escrow!Next
<1>3. ASSUME NEW n \in Nodes, NEW r \in Rounds, Opened(n, r) PROVE Escrow!Next
  BY <1>3, EscrowOpened DEF Escrow!Next
<1>4. ASSUME NEW n \in Nodes, NEW r \in Rounds, Settled(n, r) PROVE Escrow!Next
  BY <1>4, EscrowSettled DEF Escrow!Next
<1>5. ASSUME NEW v \in Nodes, NEW n \in Nodes, NEW r \in Rounds,
             NEW vote \in {"confirmed", "disputed", "inconsistent"}, Voted(v, n, r, vote)
      PROVE  Escrow!Next \/ UNCHANGED Escrow!vars
  <2>1. Escrow!Confirm(v, n, r) \/ Escrow!Dispute(v, n, r) \/ UNCHANGED Escrow!vars
    BY <1>5, EscrowVoted
  <2>2. QED
    BY <2>1 DEF Escrow!Next
<1>6. QED
  BY <1>1, <1>2, <1>3, <1>4, <1>5 DEF BookStep

\* The program keeps the promise of ProofEscrow: whatever the instructions do
\* with clocks, stakes, reputations and bans, each of them is one step of the
\* escrow or leaves the claims, the votes and the minted tokens alone.
THEOREM EscrowTheorem == Spec => ImplementsEscrow
<1>1. TypeOK /\ AccountInv /\ SupplyInv /\ Ballots /\ [Next]_vars
         => [Escrow!Next]_(Escrow!vars)
  BY BookSteps, EscrowStep
<1>2. QED
  BY <1>1, EscrowInit, TypeCorrect, AccountTheorem, SupplyAlways, BallotsAlways, PTL
     DEF Spec, ImplementsEscrow, Escrow!Spec

-----------------------------------------------------------------------------
(***************************************************************************)
(* Tokens.  Every step concerns the tokens of at most one node, and then   *)
(* the stake and the slashes it books are covered by what the vault keeps, *)
(* and no token appears except the minted ones.                            *)
(***************************************************************************)
\* A slash takes no more than the stake, and more from a larger stake.
LEMMA SlashBounds ==
    ASSUME NEW b \in Nat, NEW s \in Nat, NEW t \in Nat, t <= s
    PROVE  /\ b <= 10000 => slash_amount(s, b) <= s
           /\ slash_amount(t, b) <= slash_amount(s, b)
<1> DEFINE p == s * b
           q == t * b
           e == (s - t) * b
<1>1. /\ p \in Nat /\ q \in Nat /\ e \in Nat
      /\ p = q + e
  OBVIOUS
<1>2. ASSUME b <= 10000 PROVE p <= s * 10000
  <2>1. (10000 - b) * s \in Nat
    BY <1>2
  <2>2. (10000 - b) * s = s * 10000 - p
    OBVIOUS
  <2>3. QED
    BY <1>1, <2>1, <2>2
<1>3. slash_amount(s, b) = p \div 10000 /\ slash_amount(t, b) = q \div 10000
  BY DEF slash_amount
<1> HIDE DEF p, q, e
<1>4. QED
  BY <1>1, <1>2, <1>3

\* A rate in basis points, at most the whole.
Rate(b) == b \in Nat /\ b <= 10000

LEMMA SlashWithin ==
    ASSUME NEW s \in Nat, NEW b, Rate(b)
    PROVE  slash_amount(s, b) \in 0 .. s
<1>1. s <= s /\ b \in Nat /\ b <= 10000
  BY DEF Rate
<1>2. slash_amount(s, b) <= s
  BY <1>1, SlashBounds
<1>3. slash_amount(s, b) \in Nat
  <2>1. b \in Nat
    BY <1>1
  <2>2. QED
    BY <2>1, SlashType, Zenon
<1>4. QED
  BY <1>2, <1>3

LEMMA RateBounds ==
    /\ Rate(SLASH_INVALID_PROOF_BPS)
    /\ \A type \in 0 .. 2 : Rate(SlashBps(type))
<1>1. /\ SLASH_INVALID_PROOF_BPS \in 0 .. 10000
      /\ SLASH_COLLUSION_BPS \in 0 .. 10000
      /\ SLASH_SYBIL_BPS \in 0 .. 10000
  BY ConstantsAssumption DEF ConstantsAssumption
<1>2. Rate(SLASH_INVALID_PROOF_BPS) /\ Rate(SLASH_COLLUSION_BPS) /\ Rate(SLASH_SYBIL_BPS)
  BY <1>1 DEF Rate
<1>3. \A type \in 0 .. 2 : type = 0 \/ type = 1 \/ type = 2
  OBVIOUS
<1>4. QED
  BY <1>2, <1>3 DEF SlashBps

\* What the program takes at its own rates.
LEMMA SlashTaken ==
    ASSUME NEW s \in Nat
    PROVE  /\ slash_amount(s, SLASH_INVALID_PROOF_BPS) \in 0 .. s
           /\ \A type \in 0 .. 2 : slash_amount(s, SlashBps(type)) \in 0 .. s
<1>1. slash_amount(s, SLASH_INVALID_PROOF_BPS) \in 0 .. s
  BY RateBounds, SlashWithin
<1>2. ASSUME NEW type \in 0 .. 2 PROVE slash_amount(s, SlashBps(type)) \in 0 .. s
  <2>1. Rate(SlashBps(type))
    BY RateBounds
  <2>2. QED
    BY <2>1, SlashWithin
<1>3. QED
  BY <1>1, <1>2

LEMMA SlashBooked ==
    ASSUME NEW s \in Nat, NEW t \in 0 .. s
    PROVE  slash_amount(t, SLASH_INVALID_PROOF_BPS)
              \in 0 .. slash_amount(s, SLASH_INVALID_PROOF_BPS)
<1>1. t \in Nat /\ t <= s
  OBVIOUS
<1>2. SLASH_INVALID_PROOF_BPS \in Nat
  BY SlashRates
<1>3. slash_amount(t, SLASH_INVALID_PROOF_BPS) <= slash_amount(s, SLASH_INVALID_PROOF_BPS)
  BY <1>1, <1>2, SlashBounds
<1>4. /\ slash_amount(t, SLASH_INVALID_PROOF_BPS) \in Nat
      /\ slash_amount(s, SLASH_INVALID_PROOF_BPS) \in Nat
  BY <1>1, <1>2, SlashType
<1>5. QED
  BY <1>3, <1>4

MoneyStays ==
    /\ vault' = vault /\ wallet' = wallet
    /\ program'.total_minted = program.total_minted
    /\ program'.total_slashed = program.total_slashed
    /\ \A k \in Nodes : node'[k].stake_amount = node[k].stake_amount

\* All that a step moves it moves at n.
MoneyMoves(n) ==
    /\ \A k \in Nodes \ {n} : /\ wallet'[k] = wallet[k]
                              /\ node'[k].stake_amount = node[k].stake_amount
    /\ vault' - node'[n].stake_amount - program'.total_slashed
          >= vault - node[n].stake_amount - program.total_slashed
    /\ vault' + wallet'[n] - program'.total_minted
          = vault + wallet[n] - program.total_minted

MoneyStep == MoneyStays \/ \E n \in Nodes : MoneyMoves(n)

LEMMA MoneyTypes ==
    ASSUME TypeOK
    PROVE  /\ vault \in Nat /\ wallet \in [Nodes -> Nat] /\ genesis \in [Nodes -> Nat]
           /\ program.total_minted \in Nat /\ program.total_slashed \in Nat
           /\ \A k \in Nodes : node[k].stake_amount \in Nat /\ node[k].pending_unstake \in Nat
BY DEF TypeOK, ProgramState, NodeAccount

LEMMA StakeMoney ==
    ASSUME TypeOK, NEW n \in Nodes, NEW amount \in StakeAmounts, stake(n, amount)
    PROVE  MoneyMoves(n)
<1>1. /\ amount \in Nat
      /\ wallet' = [wallet EXCEPT ![n] = @ - amount]
      /\ vault' = vault + amount
      /\ program' = program
  BY InputTypes DEF stake
<1>2. /\ node'[n].stake_amount = node[n].stake_amount + amount
      /\ \A k \in Nodes \ {n} : node'[k].stake_amount = node[k].stake_amount
  BY DEF TypeOK, NodeAccount, stake
<1>3. wallet'[n] = wallet[n] - amount /\ \A k \in Nodes \ {n} : wallet'[k] = wallet[k]
  BY <1>1, MoneyTypes
<1>4. /\ vault \in Nat /\ wallet[n] \in Nat /\ program.total_minted \in Nat
      /\ program.total_slashed \in Nat /\ node[n].stake_amount \in Nat
  BY MoneyTypes
<1>5. QED
  BY <1>1, <1>2, <1>3, <1>4 DEF MoneyMoves

LEMMA WithdrawMoney ==
    ASSUME TypeOK, NEW n \in Nodes, withdraw_unstake(n)
    PROVE  MoneyMoves(n)
<1> DEFINE amount == node[n].pending_unstake
<1>1. /\ wallet' = [wallet EXCEPT ![n] = @ + amount]
      /\ vault' = vault - amount
      /\ program' = program
  BY DEF withdraw_unstake
<1>2. /\ node'[n].stake_amount = node[n].stake_amount - amount
      /\ \A k \in Nodes \ {n} : node'[k].stake_amount = node[k].stake_amount
  BY DEF TypeOK, NodeAccount, withdraw_unstake
<1>3. wallet'[n] = wallet[n] + amount /\ \A k \in Nodes \ {n} : wallet'[k] = wallet[k]
  BY <1>1, MoneyTypes
<1>4. /\ vault \in Nat /\ wallet[n] \in Nat /\ program.total_minted \in Nat
      /\ program.total_slashed \in Nat /\ node[n].stake_amount \in Nat /\ amount \in Nat
  BY MoneyTypes
<1> HIDE DEF amount
<1>5. QED
  BY <1>1, <1>2, <1>3, <1>4 DEF MoneyMoves

LEMMA FinalizeMoney ==
    ASSUME TypeOK, NEW n \in Nodes, NEW r \in Rounds, finalize_reward(n, r)
    PROVE  MoneyMoves(n)
<1> DEFINE reward == pending[n][r].reward_amount
<1>1. /\ wallet' = [wallet EXCEPT ![n] = @ + reward]
      /\ vault' = vault
  BY DEF finalize_reward
<1>2. /\ program'.total_minted = program.total_minted + reward
      /\ program'.total_slashed = program.total_slashed
  BY DEF TypeOK, ProgramState, finalize_reward
<1>3. \A k \in Nodes : node'[k].stake_amount = node[k].stake_amount
  BY DEF TypeOK, NodeAccount, finalize_reward
<1>4. wallet'[n] = wallet[n] + reward /\ \A k \in Nodes \ {n} : wallet'[k] = wallet[k]
  BY <1>1, MoneyTypes
<1>5. /\ vault \in Nat /\ wallet[n] \in Nat /\ program.total_minted \in Nat
      /\ program.total_slashed \in Nat /\ node[n].stake_amount \in Nat /\ reward \in Nat
  BY MoneyTypes DEF TypeOK, PendingProof
<1> HIDE DEF reward
<1>6. QED
  BY <1>1, <1>2, <1>3, <1>4, <1>5 DEF MoneyMoves

\* apply_proof_failure books the slash of the stake that is left: less than
\* what it took.
LEMMA InvalidProofMoney ==
    ASSUME TypeOK, NEW n \in Nodes, NEW r \in Rounds, SubmitInvalidProof(n, r)
    PROVE  MoneyMoves(n)
<1> DEFINE account == [node[n] EXCEPT !.is_matured = Matures(n)]
           failed == apply_proof_failure(account)
           before == node[n].stake_amount
           after == failed.stake_amount
           taken == slash_amount(before, SLASH_INVALID_PROOF_BPS)
           booked == slash_amount(after, SLASH_INVALID_PROOF_BPS)
<1>1. account \in NodeAccount /\ account.stake_amount = node[n].stake_amount
  <2>1. node[n] \in NodeAccount
    BY DEF TypeOK
  <2>2. Matures(n) \in BOOLEAN
    BY <2>1, AccountFields DEF Matures
  <2>3. QED
    BY <2>1, <2>2 DEF NodeAccount
<1>2. \A x \in NodeAccount :
         apply_proof_failure(x).stake_amount
            = SaturatingSub(x.stake_amount,
                            slash_amount(x.stake_amount, SLASH_INVALID_PROOF_BPS))
  BY DEF apply_proof_failure, NodeAccount
<1>3. /\ node' = [node EXCEPT ![n] = failed]
      /\ program' = [program EXCEPT !.total_slashed = @ + booked]
      /\ vault' = vault /\ wallet' = wallet
  BY DEF SubmitInvalidProof
<1> HIDE DEF account
<1>4. failed.stake_amount = SaturatingSub(node[n].stake_amount, taken)
  BY <1>1, <1>2
<1> HIDE DEF failed
<1>5. /\ vault \in Nat /\ wallet[n] \in Nat /\ program.total_minted \in Nat
      /\ program.total_slashed \in Nat /\ node[n].stake_amount \in Nat
  BY MoneyTypes
<1>6. taken \in 0 .. before
  <2>1. before \in Nat
    BY <1>5
  <2> HIDE DEF before
  <2>2. QED
    BY <2>1, SlashTaken
<1> HIDE DEF taken
<1>7. after = before - taken
  BY <1>4, <1>5, <1>6 DEF SaturatingSub
<1>8. booked \in 0 .. taken
  <2>1. before \in Nat
    BY <1>5
  <2>2. after \in 0 .. before
    BY <1>6, <1>7, <2>1
  <2> HIDE DEF before, after
  <2>3. QED
    BY <2>1, <2>2, SlashBooked DEF taken
<1> HIDE DEF booked
<1>9. /\ node'[n].stake_amount = node[n].stake_amount - taken
      /\ \A k \in Nodes \ {n} : node'[k].stake_amount = node[k].stake_amount
  BY <1>3, <1>7 DEF TypeOK
<1>10. /\ program'.total_slashed = program.total_slashed + booked
       /\ program'.total_minted = program.total_minted
  BY <1>3 DEF TypeOK, ProgramState
<1>11. QED
  BY <1>3, <1>5, <1>6, <1>8, <1>9, <1>10 DEF MoneyMoves

LEMMA ReportMoney ==
    ASSUME TypeOK, NEW n \in Nodes, NEW m \in Nodes, NEW type, report_violation(n, m, type)
    PROVE  MoneyMoves(m)
<1> DEFINE before == node[m].stake_amount
           slash == slash_amount(before, SlashBps(type))
<1>1. /\ n # m /\ type \in 0 .. 2
      /\ vault' = vault /\ wallet' = wallet
  BY DEF report_violation
<1>2. /\ vault \in Nat /\ wallet[m] \in Nat /\ program.total_minted \in Nat
      /\ program.total_slashed \in Nat /\ node[m].stake_amount \in Nat
  BY MoneyTypes
<1>3. slash \in 0 .. before
  <2>1. before \in Nat
    BY <1>2
  <2> HIDE DEF before
  <2>2. QED
    BY <1>1, <2>1, SlashTaken
<1>4. node'[m].stake_amount = SaturatingSub(node[m].stake_amount, slash)
  BY <1>1 DEF TypeOK, NodeAccount, report_violation
<1>5. \A k \in Nodes \ {m} : node'[k].stake_amount = node[k].stake_amount
  BY <1>1 DEF TypeOK, NodeAccount, report_violation
<1>6. /\ program'.total_slashed = program.total_slashed + slash
      /\ program'.total_minted = program.total_minted
  BY DEF TypeOK, ProgramState, report_violation
<1> HIDE DEF slash
<1>7. node'[m].stake_amount = node[m].stake_amount - slash
  BY <1>2, <1>3, <1>4 DEF SaturatingSub
<1>8. QED
  BY <1>1, <1>2, <1>3, <1>5, <1>6, <1>7 DEF MoneyMoves

LEMMA MoneySteps == TypeOK /\ AccountInv /\ [Next]_vars => MoneyStep
<1> SUFFICES ASSUME TypeOK, AccountInv, [Next]_vars PROVE MoneyStep
  OBVIOUS
<1> USE DEF MoneyStep
<1>1. ASSUME NEW n \in Nodes, NEW amount \in StakeAmounts, stake(n, amount) PROVE MoneyStep
  BY <1>1, StakeMoney
<1>2. ASSUME NEW n \in Nodes, withdraw_unstake(n) PROVE MoneyStep
  BY <1>2, WithdrawMoney
<1>3. ASSUME NEW n \in Nodes, NEW r \in Rounds, finalize_reward(n, r) PROVE MoneyStep
  BY <1>3, FinalizeMoney
<1>4. ASSUME NEW n \in Nodes, NEW r \in Rounds, SubmitInvalidProof(n, r) PROVE MoneyStep
  BY <1>4, InvalidProofMoney
<1>5. ASSUME NEW n \in Nodes, NEW m \in Nodes, NEW type, report_violation(n, m, type)
      PROVE  MoneyStep
  BY <1>5, ReportMoney
<1>6. ASSUME NEW n \in Nodes, NEW c \in Capabilities, register_node(n, c) PROVE MoneyStep
  <2>1. node[n] = NoNode
    BY <1>6 DEF register_node, AccountInv
  <2>2. node[n].stake_amount = 0
    BY <2>1 DEF NoNode
  <2>3. /\ node'[n].stake_amount = 0
        /\ \A k \in Nodes \ {n} : node'[k].stake_amount = node[k].stake_amount
    BY <1>6 DEF TypeOK, register_node, NoNode
  <2>4. UNCHANGED <<vault, wallet, program>>
    BY <1>6 DEF register_node
  <2>5. QED
    BY <2>2, <2>3, <2>4 DEF MoneyStays
<1>7. ASSUME NEW n \in Nodes, NEW x, update_capabilities(n, x) PROVE MoneyStays
  BY <1>7 DEF TypeOK, NodeAccount, MoneyStays, update_capabilities
<1>8. ASSUME NEW n \in Nodes, NEW x, request_unstake(n, x) PROVE MoneyStays
  BY <1>8 DEF TypeOK, NodeAccount, MoneyStays, request_unstake
<1>9. ASSUME NEW n \in Nodes, NEW r \in HeartbeatRounds, heartbeat(n, r) PROVE MoneyStays
  BY <1>9 DEF TypeOK, NodeAccount, MoneyStays, heartbeat
<1>10. ASSUME NEW n \in Nodes, NEW r \in Rounds, SubmitMaturationProof(n, r)
       PROVE  MoneyStays
  BY <1>10 DEF TypeOK, NodeAccount, MoneyStays, SubmitMaturationProof, ProofAccepted
<1>11. ASSUME NEW n \in Nodes, NEW r \in Rounds, NEW reward, SubmitRewardedProof(n, r, reward)
       PROVE  MoneyStays
  BY <1>11 DEF TypeOK, NodeAccount, MoneyStays, SubmitRewardedProof, ProofAccepted
<1>12. ASSUME NEW v \in Nodes, NEW t \in Nodes, NEW r \in Rounds, validate_peer(v, t, r)
       PROVE  MoneyStays
  <2>1. CASE ConfirmProof(v, t, r)
    BY <2>1 DEF TypeOK, NodeAccount, MoneyStays, ConfirmProof
  <2>2. CASE DisputeProof(v, t, r)
    BY <2>2 DEF TypeOK, NodeAccount, MoneyStays, DisputeProof
  <2>3. CASE InconsistentVote(v, t, r)
    BY <2>3 DEF TypeOK, NodeAccount, MoneyStays, InconsistentVote
  <2>4. QED
    BY <1>12, <2>1, <2>2, <2>3 DEF validate_peer
<1>13. CASE Tick \/ UNCHANGED vars
  BY <1>13 DEF Tick, vars, MoneyStays
<1>14. ASSUME NEW cap, initialize(cap) PROVE MoneyStays
  BY <1>14 DEF TypeOK, ProgramState, initialize, MoneyStays
<1>15. QED
  BY <1>1, <1>2, <1>3, <1>4, <1>5, <1>6, <1>7, <1>8, <1>9, <1>10, <1>11, <1>12, <1>13, <1>14
     DEF Next, submit_pulse_proof

LEMMA CoverKept ==
    ASSUME NEW v \in Nat, NEW v1 \in Nat, NEW s \in Nat, NEW s1 \in Nat,
           NEW x \in Nat, NEW x1 \in Nat, NEW l \in Nat, NEW l1 \in Nat,
           v >= s + l, s1 - x1 = s - x, v1 - x1 - l1 >= v - x - l
    PROVE  v1 >= s1 + l1
OBVIOUS

LEMMA VaultStep == TypeOK /\ TypeOK' /\ VaultCoversStake /\ genesis' = genesis /\ MoneyStep
                      => VaultCoversStake'
<1> SUFFICES ASSUME TypeOK, TypeOK', VaultCoversStake, genesis' = genesis, MoneyStep
             PROVE  VaultCoversStake'
  OBVIOUS
<1> DEFINE stakes == [k \in Nodes |-> node[k].stake_amount]
<1>1. /\ vault \in Nat /\ wallet \in [Nodes -> Nat] /\ genesis \in [Nodes -> Nat]
      /\ program.total_minted \in Nat /\ program.total_slashed \in Nat
      /\ \A k \in Nodes : node[k].stake_amount \in Nat
      /\ vault' \in Nat /\ wallet' \in [Nodes -> Nat]
      /\ program'.total_minted \in Nat /\ program'.total_slashed \in Nat
      /\ \A k \in Nodes : node'[k].stake_amount \in Nat
  BY DEF TypeOK, ProgramState, NodeAccount
<1>2. /\ stakes \in [Nodes -> Nat] /\ stakes' \in [Nodes -> Nat]
      /\ \A k \in Nodes : stakes[k] = node[k].stake_amount /\ stakes'[k] = node'[k].stake_amount
      /\ TotalStake = SumFunction(stakes) /\ TotalStake' = SumFunction(stakes')
  BY <1>1 DEF TotalStake
<1> HIDE DEF stakes
<1>3. IsFiniteSet(Nodes)
  BY NodesAssumption DEF NodesAssumption
<1>4. /\ SumFunction(stakes) \in Nat /\ SumFunction(stakes') \in Nat
      /\ SumFunction(wallet) \in Nat /\ SumFunction(wallet') \in Nat
      /\ SumFunction(genesis) \in Nat
  BY <1>1, <1>2, <1>3, SumType
<1>5. /\ vault >= SumFunction(stakes) + program.total_slashed
      /\ vault + SumFunction(wallet) = SumFunction(genesis) + program.total_minted
  BY <1>2 DEF VaultCoversStake
<1>6. SUFFICES /\ vault' >= SumFunction(stakes') + program'.total_slashed
               /\ vault' + SumFunction(wallet') = SumFunction(genesis) + program'.total_minted
  BY <1>2 DEF VaultCoversStake
<1>7. CASE MoneyStays
  <2>1. stakes' = stakes
    BY <1>2, <1>7 DEF MoneyStays
  <2>2. QED
    BY <1>5, <1>7, <2>1 DEF MoneyStays
<1>8. ASSUME NEW n \in Nodes, MoneyMoves(n)
      PROVE  /\ vault' >= SumFunction(stakes') + program'.total_slashed
             /\ vault' + SumFunction(wallet') = SumFunction(genesis) + program'.total_minted
  <2>1. /\ \A k \in Nodes \ {n} : stakes'[k] = stakes[k]
        /\ \A k \in Nodes \ {n} : wallet'[k] = wallet[k]
    BY <1>2, <1>8 DEF MoneyMoves
  <2>2. SumFunction(stakes') - stakes'[n] = SumFunction(stakes) - stakes[n]
    BY <1>2, <1>3, <2>1, SumChange
  <2>3. SumFunction(wallet') - wallet'[n] = SumFunction(wallet) - wallet[n]
    BY <1>1, <1>3, <2>1, SumChange
  <2>4. /\ vault' - stakes'[n] - program'.total_slashed
              >= vault - stakes[n] - program.total_slashed
        /\ vault' + wallet'[n] - program'.total_minted
              = vault + wallet[n] - program.total_minted
    BY <1>2, <1>8 DEF MoneyMoves
  <2>5. /\ stakes[n] \in Nat /\ stakes'[n] \in Nat /\ wallet[n] \in Nat /\ wallet'[n] \in Nat
    BY <1>1, <1>2
  <2> DEFINE s == SumFunction(stakes)
             t == SumFunction(stakes')
             u == SumFunction(wallet)
             w == SumFunction(wallet')
             g == SumFunction(genesis)
             v == vault
             v1 == vault'
             x == wallet[n]
             x1 == wallet'[n]
             m == program.total_minted
             m1 == program'.total_minted
  <2>6. s \in Nat /\ t \in Nat /\ u \in Nat /\ w \in Nat /\ g \in Nat
    BY <1>4
  <2>7. t - stakes'[n] = s - stakes[n] /\ vault >= s + program.total_slashed
    BY <1>5, <2>2
  <2>8. w - wallet'[n] = u - wallet[n] /\ vault + u = g + program.total_minted
    BY <1>5, <2>3
  <2> HIDE DEF s, t, u, w, g
  <2>9. vault' >= t + program'.total_slashed
    BY <1>1, <2>4, <2>5, <2>6, <2>7, CoverKept
  <2>10. v1 + w = g + m1
    <3>1. /\ v \in Nat /\ v1 \in Nat /\ x \in Nat /\ x1 \in Nat /\ m \in Nat /\ m1 \in Nat
          /\ w - x1 = u - x /\ v + u = g + m /\ v1 + x1 - m1 = v + x - m
      BY <1>1, <2>4, <2>5, <2>8
    <3> HIDE DEF v, v1, x, x1, m, m1
    <3>2. QED
      BY <2>6, <3>1
  <2>11. QED
    BY <2>9, <2>10 DEF s, t, u, w, g
<1>9. QED
  BY <1>7, <1>8 DEF MoneyStep

\* The vault always covers every stake and every slash booked, and no token
\* appears or disappears except the minted ones, for any number of nodes and
\* whatever stakes, slashes and rewards follow each other.
THEOREM VaultTheorem == Spec => []VaultCoversStake
<1>1. Init => VaultCoversStake
  <2> SUFFICES ASSUME Init PROVE VaultCoversStake
    OBVIOUS
  <2>1. /\ vault = 0 /\ program.total_minted = 0 /\ program.total_slashed = 0
        /\ genesis = wallet /\ wallet \in [Nodes -> Nat]
    BY InputAssumption DEF Init, InputAssumption
  <2>2. [k \in Nodes |-> node[k].stake_amount] = [k \in Nodes |-> 0]
    BY DEF Init, NoNode
  <2>3. TotalStake = 0
    BY <2>2, NodesAssumption, SumOfZeros DEF TotalStake, NodesAssumption
  <2>4. SumFunction(wallet) \in Nat
    BY <2>1, NodesAssumption, SumType DEF NodesAssumption
  <2>5. QED
    BY <2>1, <2>3, <2>4 DEF VaultCoversStake
<1>2. TypeOK /\ TypeOK' /\ AccountInv /\ VaultCoversStake /\ [Next]_vars => VaultCoversStake'
  BY MoneySteps, WalletSteps, VaultStep
<1>3. QED
  BY <1>1, <1>2, TypeCorrect, AccountTheorem, PTL DEF Spec

-----------------------------------------------------------------------------
(***************************************************************************)
(* The three books of minted tokens.                                       *)
(***************************************************************************)
Payment(n, r) == IF Minted(n, r) THEN pending[n][r].reward_amount ELSE 0

Payments(n) == [r \in Rounds |-> Payment(n, r)]

Earnings == [n \in Nodes |-> node[n].total_earned]

\* A payment is made once, for a claim that has not been paid, and nothing
\* else that happens to a claim is a payment.
LEMMA PaymentStep ==
    ASSUME TypeOK, Ballots, NEW n \in Nodes, NEW r \in Rounds, ClaimAfter(n, r)
    PROVE  \/ Payment(n, r)' = Payment(n, r)
           \/ /\ MayFinalize(n, r)
              /\ Payment(n, r) = 0
              /\ Payment(n, r)' = pending[n][r].reward_amount
<1>1. pending[n][r] \in PendingProof /\ BallotInv(n, r)
  BY DEF TypeOK, Ballots
<1>2. CASE pending'[n][r] = pending[n][r]
  BY <1>2 DEF Payment, Minted
<1>3. ASSUME MaySubmit(n, r), NEW reward \in Nat, NEW closed \in BOOLEAN,
             closed <=> reward = 0, pending'[n][r] = PendingRecord(reward, closed)
      PROVE  Payment(n, r)' = Payment(n, r)
  <2>1. ~Minted(n, r)
    BY <1>3 DEF MaySubmit, Minted
  <2>2. ~Minted(n, r)'
    BY <1>3 DEF PendingRecord, Minted
  <2>3. QED
    BY <2>1, <2>2 DEF Payment
<1>4. CASE \/ pending'[n][r] = [pending[n][r] EXCEPT !.validations_for = @ + 1]
           \/ pending'[n][r] = [pending[n][r] EXCEPT !.validations_against = @ + 1]
  <2>1. /\ pending'[n][r].exists = pending[n][r].exists
        /\ pending'[n][r].is_finalized = pending[n][r].is_finalized
        /\ pending'[n][r].reward_amount = pending[n][r].reward_amount
    BY <1>1, <1>4 DEF PendingProof
  <2>2. QED
    BY <2>1 DEF Payment, Minted
<1>5. CASE /\ MayFinalize(n, r)
           /\ pending'[n][r] = [pending[n][r] EXCEPT !.is_finalized = TRUE]
  <2>1. pending[n][r].exists /\ ~pending[n][r].is_finalized /\ pending[n][r].reward_amount > 0
    BY <1>5 DEF MayFinalize
  <2>2. /\ pending'[n][r].exists /\ pending'[n][r].is_finalized
        /\ pending'[n][r].reward_amount = pending[n][r].reward_amount
    BY <1>1, <1>5, <2>1 DEF PendingProof
  <2>3. QED
    BY <1>5, <2>1, <2>2 DEF Payment, Minted
<1>6. QED
  BY <1>2, <1>3, <1>4, <1>5 DEF ClaimAfter, Ballot

\* The books of one node in one step.
BooksAfter(n) ==
    \/ /\ \A r \in Rounds : Payment(n, r)' = Payment(n, r)
       /\ node'[n].total_earned = node[n].total_earned
    \/ \E r \in Rounds :
         /\ \A s \in Rounds \ {r} : Payment(n, s)' = Payment(n, s)
         /\ Payment(n, r)' - Payment(n, r) = node'[n].total_earned - node[n].total_earned

\* All the books in one step.
BooksStep ==
    /\ \A n \in Nodes : BooksAfter(n)
    /\ \/ /\ \A n \in Nodes : node'[n].total_earned = node[n].total_earned
          /\ program'.total_minted = program.total_minted
       \/ \E n \in Nodes :
            /\ \A k \in Nodes \ {n} : node'[k].total_earned = node[k].total_earned
            /\ program'.total_minted - program.total_minted
                  = node'[n].total_earned - node[n].total_earned

LEMMA BooksSteps == TypeOK /\ Ballots /\ BookStep => BooksStep
<1> SUFFICES ASSUME TypeOK, Ballots, BookStep PROVE BooksStep
  OBVIOUS
<1>1. \A n \in Nodes, r \in Rounds : ClaimAfter(n, r)
  BY ClaimAfters
<1>2. ASSUME NothingEarned, program'.total_minted = program.total_minted,
             \A n \in Nodes, r \in Rounds : Payment(n, r)' = Payment(n, r)
      PROVE  BooksStep
  BY <1>2 DEF NothingEarned, BooksStep, BooksAfter
<1>3. CASE Untouched \/ CapSet
  <2>1. /\ NothingEarned /\ program'.total_minted = program.total_minted
        /\ pending' = pending
    BY <1>3 DEF Untouched, CapSet, Supply
  <2>2. \A n \in Nodes, r \in Rounds : Payment(n, r)' = Payment(n, r)
    BY <2>1 DEF Payment, Minted
  <2>3. QED
    BY <1>2, <2>1, <2>2
<1>4. ASSUME NEW n \in Nodes, NEW r \in Rounds, Opened(n, r) PROVE BooksStep
  <2>1. NothingEarned /\ program'.total_minted = program.total_minted
    BY <1>4 DEF Opened, Supply
  <2>2. PICK reward \in Nat, closed \in BOOLEAN :
          pending' = [pending EXCEPT ![n][r] = PendingRecord(reward, closed)]
    BY <1>4 DEF Opened
  <2>3. Replaces(n, r, PendingRecord(reward, closed))
    BY <2>2, OneClaim
  <2>4. ~MayFinalize(n, r)
    BY <1>4 DEF Opened, MaySubmit, MayFinalize
  <2>5. ASSUME NEW k \in Nodes, NEW s \in Rounds PROVE Payment(k, s)' = Payment(k, s)
    <3>1. CASE k = n /\ s = r
      BY <1>1, <2>4, <3>1, PaymentStep
    <3>2. CASE k # n \/ s # r
      BY <2>3, <3>2 DEF Replaces, Payment, Minted
    <3>3. QED
      BY <3>1, <3>2
  <2>6. QED
    BY <1>2, <2>1, <2>5
<1>5. ASSUME NEW v \in Nodes, NEW n \in Nodes, NEW r \in Rounds, NEW vote, Voted(v, n, r, vote)
      PROVE  BooksStep
  <2>1. /\ NothingEarned /\ program'.total_minted = program.total_minted
        /\ Supply(program') = Supply(program)
    BY <1>5 DEF Voted, Supply
  <2>2. /\ pending[n][r] \in PendingProof
        /\ \/ pending' = [pending EXCEPT ![n][r].validations_for = @ + 1]
           \/ pending' = [pending EXCEPT ![n][r].validations_against = @ + 1]
           \/ pending' = pending
    BY <1>5 DEF Voted, TypeOK
  <2> DEFINE favour == [pending[n][r] EXCEPT !.validations_for = @ + 1]
             against == [pending[n][r] EXCEPT !.validations_against = @ + 1]
  <2>3. ASSUME NEW x \in {favour, against}
        PROVE  /\ x.exists = pending[n][r].exists
               /\ x.is_finalized = pending[n][r].is_finalized
               /\ x.reward_amount = pending[n][r].reward_amount
    BY <2>2 DEF PendingProof
  <2>4. \/ pending' = [pending EXCEPT ![n][r] = favour]
        \/ pending' = [pending EXCEPT ![n][r] = against]
        \/ pending' = pending
    BY <2>2
  <2> HIDE DEF favour, against
  <2>5. ASSUME NEW k \in Nodes, NEW s \in Rounds PROVE Payment(k, s)' = Payment(k, s)
    <3>1. /\ pending'[k][s].exists = pending[k][s].exists
          /\ pending'[k][s].is_finalized = pending[k][s].is_finalized
          /\ pending'[k][s].reward_amount = pending[k][s].reward_amount
      <4>1. CASE pending' = [pending EXCEPT ![n][r] = favour]
        BY <2>3, <4>1, OneClaim DEF Replaces
      <4>2. CASE pending' = [pending EXCEPT ![n][r] = against]
        BY <2>3, <4>2, OneClaim DEF Replaces
      <4>3. QED
        BY <2>4, <4>1, <4>2
    <3>2. QED
      BY <3>1 DEF Payment, Minted
  <2>6. QED
    BY <1>2, <2>1, <2>5
<1>6. ASSUME NEW n \in Nodes, NEW r \in Rounds, Settled(n, r) PROVE BooksStep
  <2> DEFINE paid == [pending[n][r] EXCEPT !.is_finalized = TRUE]
             reward == pending[n][r].reward_amount
  <2>1. /\ MayFinalize(n, r)
        /\ pending' = [pending EXCEPT ![n][r] = paid]
        /\ program'.total_minted = program.total_minted + reward
        /\ node'[n].total_earned = node[n].total_earned + reward
        /\ \A k \in Nodes \ {n} : node'[k].total_earned = node[k].total_earned
    BY <1>6 DEF Settled, Supply
  <2>2. /\ reward \in Nat /\ program.total_minted \in Nat
        /\ node[n].total_earned \in Nat
    BY DEF TypeOK, PendingProof, ProgramState, NodeAccount
  <2>3. /\ paid.exists /\ paid.is_finalized /\ paid.reward_amount = reward
        /\ reward > 0 /\ ~pending[n][r].is_finalized
    BY <2>1 DEF TypeOK, PendingProof, MayFinalize
  <2> HIDE DEF paid
  <2>4. Replaces(n, r, paid)
    BY <2>1, OneClaim
  <2>5. Payment(n, r)' = reward /\ Payment(n, r) = 0
    BY <2>3, <2>4 DEF Replaces, Payment, Minted
  <2>6. \A k \in Nodes, s \in Rounds :
           (k # n \/ s # r) => Payment(k, s)' = Payment(k, s)
    BY <2>4 DEF Replaces, Payment, Minted
  <2> HIDE DEF reward
  <2>7. BooksAfter(n)
    BY <2>1, <2>2, <2>5, <2>6 DEF BooksAfter
  <2>8. \A k \in Nodes \ {n} : BooksAfter(k)
    BY <2>1, <2>6 DEF BooksAfter
  <2>9. program'.total_minted - program.total_minted
           = node'[n].total_earned - node[n].total_earned
    BY <2>1, <2>2
  <2>10. QED
    BY <2>1, <2>7, <2>8, <2>9 DEF BooksStep
<1>7. QED
  BY <1>3, <1>4, <1>5, <1>6 DEF BookStep

LEMMA BooksMeaning ==
    MintedBooksAgree <=>
        /\ \A n \in Nodes : node[n].total_earned = SumFunction(Payments(n))
        /\ program.total_minted = SumFunction(Earnings)
BY DEF MintedBooksAgree, Payments, Payment, Earnings

LEMMA BooksKept ==
    TypeOK /\ TypeOK' /\ MintedBooksAgree /\ BooksStep => MintedBooksAgree'
<1> SUFFICES ASSUME TypeOK, TypeOK', MintedBooksAgree, BooksStep PROVE MintedBooksAgree'
  OBVIOUS
<1>1. IsFiniteSet(Nodes) /\ IsFiniteSet(Rounds)
  BY NodesAssumption, RoundsAssumption DEF NodesAssumption, RoundsAssumption
<1>2. /\ \A n \in Nodes : node[n].total_earned \in Nat /\ node'[n].total_earned \in Nat
      /\ program.total_minted \in Nat /\ program'.total_minted \in Nat
      /\ Earnings \in [Nodes -> Nat] /\ Earnings' \in [Nodes -> Nat]
  BY DEF TypeOK, NodeAccount, ProgramState, Earnings
<1>3. \A n \in Nodes : Payments(n) \in [Rounds -> Nat] /\ Payments(n)' \in [Rounds -> Nat]
  <2> SUFFICES ASSUME NEW n \in Nodes, NEW r \in Rounds
               PROVE  Payment(n, r) \in Nat /\ Payment(n, r)' \in Nat
    BY DEF Payments
  <2>1. pending[n][r].reward_amount \in Nat /\ pending'[n][r].reward_amount \in Nat
    BY DEF TypeOK, PendingProof
  <2>2. QED
    BY <2>1 DEF Payment
<1>4. ASSUME NEW n \in Nodes PROVE node'[n].total_earned = SumFunction(Payments(n)')
  <2>1. node[n].total_earned = SumFunction(Payments(n))
    BY BooksMeaning
  <2>2. CASE /\ \A r \in Rounds : Payment(n, r)' = Payment(n, r)
             /\ node'[n].total_earned = node[n].total_earned
    <3>1. Payments(n)' = Payments(n)
      BY <2>2 DEF Payments
    <3>2. QED
      BY <2>1, <2>2, <3>1
  <2>3. ASSUME NEW r \in Rounds,
               \A s \in Rounds \ {r} : Payment(n, s)' = Payment(n, s),
               Payment(n, r)' - Payment(n, r) = node'[n].total_earned - node[n].total_earned
        PROVE  node'[n].total_earned = SumFunction(Payments(n)')
    <3> DEFINE f == Payments(n)
               g == Payments(n)'
               a == SumFunction(f)
               b == SumFunction(g)
               e == node[n].total_earned
               e1 == node'[n].total_earned
    <3>1. /\ f \in [Rounds -> Nat] /\ g \in [Rounds -> Nat]
          /\ \A s \in Rounds \ {r} : g[s] = f[s]
          /\ f[r] = Payment(n, r) /\ g[r] = Payment(n, r)'
      BY <1>3, <2>3 DEF Payments
    <3> HIDE DEF f, g
    <3>2. b - g[r] = a - f[r] /\ a \in Nat /\ b \in Nat
      BY <1>1, <3>1, SumChange, SumType
    <3>3. g[r] - f[r] = e1 - e /\ e \in Nat /\ e1 \in Nat /\ f[r] \in Nat /\ g[r] \in Nat
      BY <1>2, <2>3, <3>1
    <3>4. a = e
      BY <2>1 DEF f
    <3> HIDE DEF a, b, e, e1
    <3>5. e1 = b
      BY <3>2, <3>3, <3>4
    <3>6. QED
      BY <3>5 DEF e1, b, g
  <2>4. QED
    BY <2>2, <2>3 DEF BooksStep, BooksAfter
<1>5. program'.total_minted = SumFunction(Earnings')
  <2>1. program.total_minted = SumFunction(Earnings)
    BY BooksMeaning
  <2>2. \A n \in Nodes : /\ Earnings[n] = node[n].total_earned
                         /\ Earnings'[n] = node'[n].total_earned
    BY DEF Earnings
  <2>3. CASE /\ \A n \in Nodes : node'[n].total_earned = node[n].total_earned
             /\ program'.total_minted = program.total_minted
    <3>1. Earnings' = Earnings
      BY <2>3 DEF Earnings
    <3>2. QED
      BY <2>1, <2>3, <3>1
  <2>4. ASSUME NEW n \in Nodes,
               \A k \in Nodes \ {n} : node'[k].total_earned = node[k].total_earned,
               program'.total_minted - program.total_minted
                  = node'[n].total_earned - node[n].total_earned
        PROVE  program'.total_minted = SumFunction(Earnings')
    <3> DEFINE a == SumFunction(Earnings)
               b == SumFunction(Earnings')
               x == Earnings[n]
               x1 == Earnings'[n]
               m == program.total_minted
               m1 == program'.total_minted
    <3>1. \A k \in Nodes \ {n} : Earnings'[k] = Earnings[k]
      BY <2>2, <2>4
    <3>2. b - x1 = a - x /\ a \in Nat /\ b \in Nat
      BY <1>1, <1>2, <3>1, SumChange, SumType
    <3>3. m1 - m = x1 - x /\ m = a
      BY <2>1, <2>2, <2>4
    <3>4. x \in Nat /\ x1 \in Nat /\ m \in Nat /\ m1 \in Nat
      BY <1>2
    <3> HIDE DEF a, b, x, x1, m, m1
    <3>5. m1 = b
      BY <3>2, <3>3, <3>4
    <3>6. QED
      BY <3>5 DEF m1, b
  <2>5. QED
    BY <2>3, <2>4 DEF BooksStep
<1>6. QED
  BY <1>4, <1>5 DEF MintedBooksAgree, Payments, Payment, Earnings

\* The three books of minted tokens agree after any sequence of instructions:
\* the counter of the program, the earnings of the nodes and the finalized
\* rewards.
THEOREM BooksTheorem == Spec => []MintedBooksAgree
<1>1. Init => MintedBooksAgree
  <2> SUFFICES ASSUME Init PROVE MintedBooksAgree
    OBVIOUS
  <2>1. \A n \in Nodes, r \in Rounds : Payment(n, r) = 0
    BY DEF Init, NoProof, Payment, Minted
  <2>2. \A n \in Nodes : Payments(n) = [r \in Rounds |-> 0]
    BY <2>1 DEF Payments
  <2>3. /\ \A n \in Nodes : node[n].total_earned = 0
        /\ program.total_minted = 0
    BY DEF Init, NoNode
  <2>4. Earnings = [n \in Nodes |-> 0]
    BY <2>3 DEF Earnings
  <2>5. /\ SumFunction([r \in Rounds |-> 0]) = 0
        /\ SumFunction([n \in Nodes |-> 0]) = 0
    BY NodesAssumption, RoundsAssumption, SumOfZeros DEF NodesAssumption, RoundsAssumption
  <2>6. QED
    BY <2>2, <2>3, <2>4, <2>5, BooksMeaning
<1>2. TypeOK /\ TypeOK' /\ AccountInv /\ Ballots /\ MintedBooksAgree /\ [Next]_vars
         => MintedBooksAgree'
  BY BookSteps, BooksSteps, BooksKept
<1>3. QED
  BY <1>1, <1>2, TypeCorrect, AccountTheorem, BallotsAlways, PTL DEF Spec

=============================================================================
