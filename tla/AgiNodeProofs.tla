--------------------------- MODULE AgiNodeProofs ---------------------------
(***************************************************************************)
(* Theorems about a node, for any workload, any number of restarts, rounds *)
(* and transactions.                                                       *)
(***************************************************************************)
EXTENDS AgiNode, PeerSecurityProofs, SequenceTheorems

-----------------------------------------------------------------------------
(***************************************************************************)
(* The node runs its security layer as PeerSecurity specifies it: every    *)
(* step of the node is one of the layer or leaves it alone.                *)
(***************************************************************************)
ConfigInv == config \in Workloads

LEMMA ConfigStep == ConfigInv /\ [NodeNext]_allVars => ConfigInv'
<1> SUFFICES ASSUME ConfigInv, [NodeNext]_allVars PROVE config' = config
  BY DEF ConfigInv
<1>1. CASE NodeNext
  BY <1>1
  DEF NodeNext, boots, diesWritingIdentity, joins, inferenceStarts, startCapability, goesLive,
      pulse, fails, landing, world, shutdown, stopAll, stakeTick, answers, receives,
      publishes, challenges, attests, timers, minutePasses, exits, dies, Over, nodeVars
<1>2. CASE UNCHANGED allVars
  BY <1>2 DEF allVars, nodeVars
<1>3. QED
  BY <1>1, <1>2

LEMMA SecurityStep == ConfigInv /\ [NodeNext]_allVars => [SecurityNext]_securityVars
<1> SUFFICES ASSUME ConfigInv, [NodeNext]_allVars PROVE [SecurityNext]_securityVars
  OBVIOUS
<1>1. CASE \/ boots \/ diesWritingIdentity \/ joins \/ inferenceStarts
           \/ \E c \in Supported : startCapability(c)
           \/ goesLive(TRUE) \/ goesLive(FALSE)
           \/ pulse \/ fails \/ landing \/ world \/ shutdown \/ stopAll
           \/ \E k \in StakeTicks : stakeTick(k)
           \/ \E i \in CallIds : answers(i)
  BY <1>1
  DEF boots, diesWritingIdentity, joins, inferenceStarts, startCapability, goesLive, pulse,
      fails, landing, world, shutdown, stopAll, stakeTick, answers
<1>2. CASE receives \/ publishes \/ challenges \/ attests \/ timers \/ minutePasses
  <2>1. CASE receives
    BY <2>1 DEF receives, SecurityNext
  <2>2. CASE challenges
    <3>1. PICK c \in ChallengeIds, p \in Peers : sendChallenge(c, p)
      BY <2>2, WorkloadAssumption DEF WorkloadAssumption, ConfigInv, challenges, Drawn
    <3>2. QED
      BY <3>1 DEF SecurityNext
  <2>3. CASE attests
    BY <2>3 DEF attests, Drawn, SecurityNext
  <2>4. CASE timers
    BY <2>4 DEF timers, SecurityNext
  <2>5. CASE minutePasses
    BY <2>5 DEF minutePasses, SecurityNext
  <2>6. CASE publishes
    BY <2>6 DEF publishes, SecurityNext
  <2>7. QED
    BY <1>2, <2>1, <2>2, <2>3, <2>4, <2>5, <2>6
<1>3. CASE exits \/ dies
  BY <1>3 DEF exits, dies, Over, SecurityNext
<1>4. CASE UNCHANGED allVars
  BY <1>4 DEF allVars
<1>5. QED
  BY <1>1, <1>2, <1>3, <1>4 DEF NodeNext

\* Whatever holds of the security layer holds of the layer of a node that
\* boots, lives, dies and is started again.
THEOREM NodeRunsSecurity == NodeSpec => SecuritySpec
<1>1. NodeInit => ConfigInv /\ SecurityInit
  BY DEF NodeInit, ConfigInv
<1>2. ConfigInv /\ [NodeNext]_allVars => ConfigInv'
  BY ConfigStep
<1>3. ConfigInv /\ [NodeNext]_allVars => [SecurityNext]_securityVars
  BY SecurityStep
<1>4. QED
  BY <1>1, <1>2, <1>3, PTL DEF NodeSpec, SecuritySpec

\* ChallengeSettledOnce and BlockedOnlyHeardOut hold of the node.
THEOREM NodeSettlesOnce == NodeSpec => []ChallengeSettledOnce
  BY NodeRunsSecurity, ChallengesSettledOnce, PTL

THEOREM NodeOnlyHearsBlockedOut == NodeSpec => BlockedOnlyHeardOut
  BY NodeRunsSecurity, BlockedPeersOnlyHeardOut, PTL

\* RateBounded holds of the node, with what it lets through since its last start.
THEOREM NodeRateBounded == NodeSpec => []RateBounded
  BY NodeRunsSecurity, RateTheorem, PTL

-----------------------------------------------------------------------------
(***************************************************************************)
(* The node and the on-chain program together: whatever the node and its   *)
(* owner send, in whatever order it lands, the program behaves as          *)
(* AgiRewards specifies it.                                                *)
(***************************************************************************)
\* The program with any number as an input: a node stakes its balance, and no
\* bound of the runs of AgiRewards limits what its owner asks for.
Chain == INSTANCE AgiRewardsLedgerProofs
    WITH StakeAmounts <- Nat, UnstakeAmounts <- Nat, HeartbeatRounds <- Nat,
         SupplyCaps <- Nat, ViolationTypes <- ViolationTypes \cup Nat

-----------------------------------------------------------------------------
(***************************************************************************)
(* The inputs are only where Next takes them from: every instruction is    *)
(* the same one in Chain.                                                  *)
(***************************************************************************)
LEMMA SameState ==
    /\ Chain!vars = vars
    /\ Init => Chain!Init
    /\ Tick => Chain!Tick
  BY DEF vars, Chain!vars, Init, Chain!Init, NoNode, Chain!NoNode, NoProof, Chain!NoProof,
         Tick, Chain!Tick

LEMMA SameAccounts ==
    /\ initialize(0) => Chain!initialize(0)
    /\ \A n, c : register_node(n, c) => Chain!register_node(n, c)
    /\ \A n, c : update_capabilities(n, c) => Chain!update_capabilities(n, c)
    /\ \A n, amount : stake(n, amount) => Chain!stake(n, amount)
    /\ \A n, amount : request_unstake(n, amount) => Chain!request_unstake(n, amount)
    /\ \A n : withdraw_unstake(n) => Chain!withdraw_unstake(n)
<1>1. initialize(0) => Chain!initialize(0)
  BY DEF initialize, Chain!initialize
<1>2. \A n, c : register_node(n, c) => Chain!register_node(n, c)
  BY DEF register_node, Chain!register_node, NoNode, Chain!NoNode
<1>3. \A n, c : update_capabilities(n, c) => Chain!update_capabilities(n, c)
  BY DEF update_capabilities, Chain!update_capabilities
<1>4. \A n, amount : stake(n, amount) => Chain!stake(n, amount)
  BY DEF stake, Chain!stake
<1>5. \A n, amount : request_unstake(n, amount) => Chain!request_unstake(n, amount)
  BY DEF request_unstake, Chain!request_unstake
<1>6. \A n : withdraw_unstake(n) => Chain!withdraw_unstake(n)
  BY DEF withdraw_unstake, Chain!withdraw_unstake
<1>7. QED
  BY <1>1, <1>2, <1>3, <1>4, <1>5, <1>6

LEMMA SamePenalties ==
    /\ \A n, r : heartbeat(n, r) => Chain!heartbeat(n, r)
    /\ \A n, m, type : report_violation(n, m, type) => Chain!report_violation(n, m, type)
<1>1. /\ \A x, y : AtMost(x, y) = Chain!AtMost(x, y)
      /\ \A x, y : SaturatingSub(x, y) = Chain!SaturatingSub(x, y)
      /\ \A x, y : GainReputation(x, y) = Chain!GainReputation(x, y)
      /\ \A type : SlashBps(type) = Chain!SlashBps(type)
      /\ \A type : ReputationLoss(type) = Chain!ReputationLoss(type)
  BY Zenon DEF AtMost, Chain!AtMost, SaturatingSub, Chain!SaturatingSub, GainReputation,
               Chain!GainReputation, SlashBps, Chain!SlashBps, ReputationLoss,
               Chain!ReputationLoss
<1>2. ASSUME NEW x, NEW y PROVE slash_amount(x, y) = Chain!slash_amount(x, y)
  BY SMT DEF slash_amount, Chain!slash_amount
<1>3. \A n, r : heartbeat(n, r) => Chain!heartbeat(n, r)
  BY ZenonT(60) DEF heartbeat, Chain!heartbeat, AtMost, Chain!AtMost,
                    SaturatingSub, Chain!SaturatingSub
<1>4. \A n, m, type : report_violation(n, m, type) => Chain!report_violation(n, m, type)
  <2> SUFFICES ASSUME NEW n, NEW m, NEW type, report_violation(n, m, type)
               PROVE  Chain!report_violation(n, m, type)
    OBVIOUS
  <2> DEFINE slash == slash_amount(node[m].stake_amount, SlashBps(type))
             same == Chain!slash_amount(node[m].stake_amount, Chain!SlashBps(type))
             banned == \/ node[m].strikes + 1 >= MAX_STRIKES_BEFORE_BAN
                       \/ type = 2
  <2>1. /\ node[n].registered
        /\ node[m].registered
        /\ ~node[m].is_banned
        /\ node[n].reputation >= MIN_REPUTATION_TO_VALIDATE
        /\ n # m
        /\ type \in 0 .. 2
        /\ UNCHANGED <<now, pending, validation, vault, wallet, genesis>>
    BY Zenon DEF report_violation
  <2>2. node' = [node EXCEPT
                   ![m].stake_amount = SaturatingSub(@, slash),
                   ![m].strikes = @ + 1,
                   ![m].reputation = SaturatingSub(@, ReputationLoss(type)),
                   ![m].is_banned = banned,
                   ![n].reputation = GainReputation(@, REPUTATION_GAIN_PER_VALIDATION * 5)]
    BY Zenon DEF report_violation
  <2>3. program' = [program EXCEPT
                      !.total_slashed = @ + slash,
                      !.total_banned = IF banned THEN @ + 1 ELSE @]
    BY Zenon DEF report_violation
  <2>4. slash = same
    BY <1>1, <1>2, Zenon
  <2> HIDE DEF slash, same, banned
  <2>5. node' = [node EXCEPT
                   ![m].stake_amount = Chain!SaturatingSub(@, same),
                   ![m].strikes = @ + 1,
                   ![m].reputation = Chain!SaturatingSub(@, Chain!ReputationLoss(type)),
                   ![m].is_banned = banned,
                   ![n].reputation = Chain!GainReputation(@, REPUTATION_GAIN_PER_VALIDATION * 5)]
    BY <1>1, <2>2, <2>4, Zenon
  <2>6. program' = [program EXCEPT
                      !.total_slashed = @ + same,
                      !.total_banned = IF banned THEN @ + 1 ELSE @]
    BY <2>3, <2>4, Zenon
  <2>7. QED
    BY <2>1, <2>5, <2>6, Zenon DEF Chain!report_violation, same, banned
<1>5. QED
  BY <1>3, <1>4

LEMMA SameSubmissions ==
    /\ \A n, r : SubmitMaturationProof(n, r) => Chain!SubmitMaturationProof(n, r)
    /\ \A n, r, reward :
          SubmitRewardedProof(n, r, reward) => Chain!SubmitRewardedProof(n, r, reward)
<1>1. \A n : Matures(n) = Chain!Matures(n)
  BY DEF Matures, Chain!Matures
<1>2. \A n, r : MaySubmit(n, r) = Chain!MaySubmit(n, r)
  BY DEF MaySubmit, Chain!MaySubmit, Matures, Chain!Matures
<1>3. \A n, r : ProofAccepted(n, r) = Chain!ProofAccepted(n, r)
  BY ZenonT(60) DEF ProofAccepted, Chain!ProofAccepted, Matures, Chain!Matures,
         GainReputation, Chain!GainReputation, AtMost, Chain!AtMost
<1>4. \A reward, finalized :
         PendingRecord(reward, finalized) = Chain!PendingRecord(reward, finalized)
  BY DEF PendingRecord, Chain!PendingRecord
<1>5. \A n, r : SubmitMaturationProof(n, r) => Chain!SubmitMaturationProof(n, r)
  BY <1>1, <1>2, <1>3, <1>4, ZenonT(60) DEF SubmitMaturationProof, Chain!SubmitMaturationProof
<1>6. \A n, r, reward :
         SubmitRewardedProof(n, r, reward) => Chain!SubmitRewardedProof(n, r, reward)
  BY <1>1, <1>2, <1>3, <1>4, ZenonT(60) DEF SubmitRewardedProof, Chain!SubmitRewardedProof
<1>7. QED
  BY <1>5, <1>6

-----------------------------------------------------------------------------
RoundSteps ==
    {"program", "account", "proof", "initialize", "register_node", "submit_pulse_proof"}

Calls == [step : Reading \cup Sending \cup {"none", "over"}, sent : BOOLEAN, amount : Nat]

\* Calls of a round and of the auto-stake interval do not get mixed up, and
\* every amount under way is a number.
CallInv ==
    /\ call \in [CallIds -> Calls]
    /\ \A i \in CallIds : call[i].step \in RoundSteps => i \in Rounds
    /\ \A tx \in network :
          /\ tx.amount \in Nat
          /\ tx.kind \in RoundSteps => tx.by \in Rounds

(***************************************************************************)
(* Every step of the node is an instruction of the program, the clock, or  *)
(* leaves the chain alone.                                                 *)
(***************************************************************************)
LEMMA ExecutesChain ==
    ASSUME NEW tx, tx.amount \in Nat, tx.kind \in RoundSteps => tx.by \in Rounds, Executes(tx)
    PROVE  Chain!Next
<1> USE SameAccounts, SamePenalties, SameSubmissions, ClientAssumption DEF ClientAssumption
<1>1. CASE tx.kind = "initialize" /\ initialize(0)
  BY <1>1 DEF Chain!Next
<1>2. CASE tx.kind = "register_node" /\ registerNode
  BY <1>2 DEF Chain!Next, registerNode
<1>3. CASE tx.kind = "submit_pulse_proof" /\ submitPulseProof(tx.by)
  <2>1. tx.by \in Rounds
    BY <1>3 DEF RoundSteps
  <2>2. Chain!submit_pulse_proof(me, tx.by)
    BY <1>3 DEF submitPulseProof, Chain!submit_pulse_proof
  <2>3. QED
    BY <2>1, <2>2 DEF Chain!Next
<1>4. CASE tx.kind = "stake" /\ stake(me, tx.amount)
  BY <1>4 DEF Chain!Next
<1>5. CASE tx.kind = "request_unstake" /\ request_unstake(me, tx.amount)
  BY <1>5 DEF Chain!Next
<1>6. CASE tx.kind = "withdraw_unstake" /\ withdraw_unstake(me)
  BY <1>6 DEF Chain!Next
<1>7. CASE tx.kind = "update_capabilities" /\ updateCapabilities
  BY <1>7 DEF Chain!Next, updateCapabilities
<1>8. CASE tx.kind = "heartbeat" /\ heartbeat(me, tx.amount)
  BY <1>8 DEF Chain!Next
<1>9. CASE tx.kind = "report_violation" /\ reportViolation(tx.amount)
  BY <1>9 DEF Chain!Next, reportViolation
<1>10. QED
  BY <1>1, <1>2, <1>3, <1>4, <1>5, <1>6, <1>7, <1>8, <1>9 DEF Executes

LEMMA OthersChain == othersAct => Chain!Next
<1> SUFFICES ASSUME othersAct PROVE Chain!Next
  OBVIOUS
<1>1. CASE initialize(0)
  BY <1>1, SameAccounts DEF Chain!Next
<1>2. CASE \E n \in Nodes \ {me}, c \in Capabilities : register_node(n, c)
  BY <1>2, SameAccounts DEF Chain!Next
<1>3. CASE \E n \in Nodes \ {me}, type \in ViolationTypes : report_violation(n, me, type)
  BY <1>3, SamePenalties, ClientAssumption DEF Chain!Next, ClientAssumption
<1>4. QED
  BY <1>1, <1>2, <1>3 DEF othersAct

LEMMA ChainStep == CallInv /\ [NodeNext]_allVars => [Chain!Next]_vars
<1> SUFFICES ASSUME CallInv, [NodeNext]_allVars PROVE Chain!Next \/ UNCHANGED vars
  OBVIOUS
<1>1. CASE landing
  <2>1. PICK tx \in network : lands(tx)
    BY <1>1 DEF landing
  <2>2. CASE Executes(tx)
    BY <2>2, ExecutesChain DEF CallInv
  <2>3. CASE UNCHANGED vars
    BY <2>3
  <2>4. QED
    BY <2>1, <2>2, <2>3 DEF lands
<1>2. CASE world
  <2>1. CASE othersAct
    BY <2>1, OthersChain
  <2>2. CASE Tick
    BY <2>2, SameState DEF Chain!Next
  <2>3. CASE \E c \in OwnerCalls : ownerSends(c)
    BY <2>3 DEF ownerSends
  <2>4. QED
    BY <1>2, <2>1, <2>2, <2>3 DEF world
<1>3. CASE pulse
  BY <1>3, SameState DEF pulse, Chain!Next
<1>4. CASE fails \/ (\E i \in CallIds : answers(i)) \/ \E k \in StakeTicks : stakeTick(k)
  BY <1>4 DEF fails, answers, stakeTick, throws, expires, read, send, autoStake
<1>5. CASE \/ boots \/ diesWritingIdentity \/ joins \/ inferenceStarts
           \/ \E c \in Supported : startCapability(c)
           \/ goesLive(TRUE) \/ goesLive(FALSE)
           \/ receives \/ publishes \/ challenges \/ attests \/ timers \/ minutePasses
           \/ shutdown \/ stopAll \/ exits \/ dies
  BY <1>5
  DEF boots, diesWritingIdentity, joins, inferenceStarts, startCapability, goesLive, receives, publishes,
      challenges, attests, timers, minutePasses, shutdown, stopAll, exits, dies, Over
<1>6. CASE UNCHANGED allVars
  BY <1>6 DEF allVars
<1>7. QED
  BY <1>1, <1>2, <1>3, <1>4, <1>5, <1>6 DEF NodeNext

-----------------------------------------------------------------------------
(***************************************************************************)
(* CallInv is kept.  An amount comes from a balance, which is a number as  *)
(* long as the program keeps its types, and Answer and Following keep each *)
(* call on its own way.                                                    *)
(***************************************************************************)
LEMMA ReleasedCalls ==
    ASSUME CallInv, NEW tx \in network, NEW step \in {"account", "proof", "over"},
           step # "over" => tx.by \in Rounds
    PROVE  /\ Released(tx, step) \in [CallIds -> Calls]
           /\ \A i \in CallIds : Released(tx, step)[i].step \in RoundSteps => i \in Rounds
  BY DEF CallInv, Calls, Released, At, Reading, Sending, RoundSteps

LEMMA AnsweredCalls ==
    ASSUME CallInv, wallet[me] \in Nat, NEW i \in CallIds, call[i].step \in Reading
    PROVE  /\ Answer(i) \in Calls
           /\ Answer(i).step \in RoundSteps => i \in Rounds
<1> USE DEF CallInv, Calls, Answer, At, AfterProgram, WorthStaking, RoundSteps, Reading, Sending
<1>1. CASE call[i].step = "program"
  BY <1>1
<1>2. CASE call[i].step = "account"
  BY <1>2
<1>3. CASE call[i].step = "proof"
  BY <1>3
<1>4. CASE call[i].step = "staked"
  BY <1>4
<1>5. CASE call[i].step = "balance"
  BY <1>5
<1>6. QED
  BY <1>1, <1>2, <1>3, <1>4, <1>5

LEMMA CallStep ==
    ASSUME CallInv, wallet[me] \in Nat, [NodeNext]_allVars
    PROVE  CallInv'
<1> USE DEF CallInv
<1>1. CASE landing
  <2>1. PICK tx \in network : lands(tx)
    BY <1>1 DEF landing
  <2>2. /\ Following(tx.kind) \in {"account", "proof", "over"}
        /\ Following(tx.kind) # "over" => tx.by \in Rounds
    BY DEF Following, RoundSteps
  <2>3. call' = Released(tx, Following(tx.kind)) /\ network' \subseteq network
    BY <2>1 DEF lands
  <2>4. QED
    BY <2>2, <2>3, ReleasedCalls
<1>2. CASE fails
  <2>1. ASSUME NEW i \in CallIds, throws(i) PROVE CallInv'
    BY <2>1 DEF throws, At, Calls, RoundSteps
  <2>2. ASSUME NEW tx \in network, expires(tx) PROVE CallInv'
    <3>1. call' = Released(tx, "over") /\ network' \subseteq network
      BY <2>2 DEF expires
    <3>2. QED
      BY <3>1, ReleasedCalls
  <2>3. QED
    BY <1>2, <2>1, <2>2 DEF fails
<1>3. ASSUME NEW i \in CallIds, answers(i) PROVE CallInv'
  <2>1. CASE read(i)
    <3>1. call[i].step \in Reading /\ call' = [call EXCEPT ![i] = Answer(i)]
      BY <2>1 DEF read
    <3>2. UNCHANGED network
      BY <2>1 DEF read
    <3>3. QED
      BY <3>1, <3>2, AnsweredCalls
  <2>2. CASE send(i)
    <3>1. CASE /\ call' = [call EXCEPT ![i].sent = TRUE]
               /\ network' = network \cup {Tx(call[i].step, i, call[i].amount)}
      <4>1. [call[i] EXCEPT !.sent = TRUE] \in Calls
        BY DEF Calls
      <4>2. [call[i] EXCEPT !.sent = TRUE].step = call[i].step
        BY DEF Calls
      <4>3. call' = [call EXCEPT ![i] = [call[i] EXCEPT !.sent = TRUE]]
        BY <3>1
      <4>4. \A tx \in network' : tx \in network
                                 \/ (tx.amount = call[i].amount /\ tx.kind = call[i].step
                                     /\ tx.by = i)
        BY <3>1 DEF Tx
      <4>5. call[i].amount \in Nat
        BY DEF Calls
      <4>6. QED
        BY <4>1, <4>2, <4>3, <4>4, <4>5
    <3>2. CASE call' = [call EXCEPT ![i] = At("over", 0)] /\ UNCHANGED network
      BY <3>2 DEF At, Calls, RoundSteps
    <3>3. QED
      BY <2>2, <3>1, <3>2 DEF send
  <2>3. QED
    BY <1>3, <2>1, <2>2 DEF answers
<1>4. ASSUME NEW k \in StakeTicks, stakeTick(k) PROVE CallInv'
  <2>1. call' = [call EXCEPT ![k] = At("staked", 0)] /\ UNCHANGED network
    BY <1>4 DEF stakeTick, autoStake
  <2>2. At("staked", 0).step \notin RoundSteps
    BY DEF At, RoundSteps
  <2>3. At("staked", 0) \in Calls
    BY DEF At, Reading, Calls
  <2>4. QED
    BY <2>1, <2>2, <2>3
<1>5. ASSUME NEW last, runRound(config.configured, last) PROVE CallInv'
  <2>1. PICK r \in Rounds : \/ call' = [call EXCEPT ![r] = At("program", 0)]
                            \/ call' = [call EXCEPT ![r] = @]
    BY <1>5 DEF runRound
  <2>2. UNCHANGED network
    BY <1>5 DEF runRound
  <2>3. At("program", 0) \in Calls
    BY DEF At, Reading, Calls
  <2>4. QED
    BY <2>1, <2>2, <2>3
<1>6. CASE pulse \/ goesLive(TRUE) \/ goesLive(FALSE)
  <2>1. CASE pulse
    BY <1>5, <2>1 DEF pulse
  <2>2. CASE goesLive(TRUE) \/ goesLive(FALSE)
    BY <1>5, <2>2 DEF goesLive, Runs, clientVars
  <2>3. QED
    BY <1>6, <2>1, <2>2
<1>7. CASE world
  <2>1. CASE \E c \in OwnerCalls : ownerSends(c)
    BY <2>1, OwnerAssumption DEF OwnerAssumption, ownerSends, OwnerTx, RoundSteps
  <2>2. CASE UNCHANGED pulseVars
    BY <2>2 DEF pulseVars, clientVars
  <2>3. QED
    BY <1>7, <2>1, <2>2 DEF world, othersAct
<1>8. CASE \/ boots \/ diesWritingIdentity \/ joins \/ inferenceStarts
           \/ \E c \in Supported : startCapability(c)
           \/ receives \/ publishes \/ challenges \/ attests \/ timers \/ minutePasses
           \/ shutdown \/ stopAll
  BY <1>8
  DEF boots, diesWritingIdentity, joins, inferenceStarts, startCapability, receives, publishes,
      challenges, attests, timers, minutePasses, shutdown, stopAll, pulseVars, clientVars
<1>9. CASE exits \/ dies
  <2>1. call' = [i \in CallIds |-> NoCall] /\ UNCHANGED network
    BY <1>9 DEF exits, dies, Over, ClientStops
  <2>2. NoCall \in Calls /\ NoCall.step \notin RoundSteps
    BY DEF NoCall, At, Calls, RoundSteps
  <2>3. QED
    BY <2>1, <2>2
<1>10. CASE UNCHANGED allVars
  BY <1>10 DEF allVars, pulseVars, clientVars
<1>11. QED
  BY <1>1, <1>2, <1>3, <1>4, <1>6, <1>7, <1>8, <1>9, <1>10 DEF NodeNext

-----------------------------------------------------------------------------
(***************************************************************************)
(* The node and the chain implement AgiRewards, and what is proved of the  *)
(* program by itself holds of it with the node at work.                    *)
(***************************************************************************)
LEMMA ChainAssumptions ==
    /\ Chain!NodesAssumption /\ Chain!InputAssumption /\ Chain!ConstantsAssumption
    /\ Chain!CooldownAssumption /\ Chain!RoundsAssumption
<1>1. Chain!NodesAssumption
  BY NodesAssumption, Zenon
  DEF NodesAssumption, Chain!NodesAssumption, IsFiniteSet, Chain!IsFiniteSet
<1>2. Chain!InputAssumption
  BY InputAssumption DEF InputAssumption, Chain!InputAssumption
<1>3. Chain!ConstantsAssumption
  BY ConstantsAssumption, PTL DEF ConstantsAssumption, Chain!ConstantsAssumption
<1>4. Chain!CooldownAssumption
  BY CooldownAssumption, PTL DEF CooldownAssumption, Chain!CooldownAssumption
<1>5. Chain!RoundsAssumption
  BY RoundsAssumption, Zenon
  DEF RoundsAssumption, Chain!RoundsAssumption, IsFiniteSet, Chain!IsFiniteSet
<1>6. QED
  BY <1>1, <1>2, <1>3, <1>4, <1>5, PTL

LEMMA CallsBegin == NodeInit => CallInv
<1> SUFFICES ASSUME NodeInit PROVE CallInv
  OBVIOUS
<1>1. NoCall \in Calls /\ NoCall.step \notin RoundSteps
  BY DEF NoCall, At, Calls, RoundSteps
<1>2. QED
  BY <1>1 DEF NodeInit, PulseInit, CallInv

LEMMA WalletIsNumber == Chain!TypeOK => wallet[me] \in Nat
  BY ClientAssumption DEF ClientAssumption, Chain!TypeOK

\* Whatever the node, its owner and other nodes send, in whatever order it
\* lands and whatever fails, the program takes the steps of AgiRewards only.
THEOREM NodeImplementsProgram == NodeSpec => Chain!Spec
<1>1. NodeInit => Chain!Init /\ CallInv
  BY SameState, CallsBegin DEF NodeInit
<1>2. Chain!Init => Chain!TypeOK
  BY ChainAssumptions, Chain!InitTypeOK, PTL
  DEF Chain!NodesAssumption, Chain!InputAssumption, Chain!ConstantsAssumption,
      Chain!CooldownAssumption, Chain!RoundsAssumption
<1>3. Chain!TypeOK /\ [Chain!Next]_(Chain!vars) => Chain!TypeOK'
  BY ChainAssumptions, Chain!NextTypeOK, PTL
  DEF Chain!NodesAssumption, Chain!InputAssumption, Chain!ConstantsAssumption,
      Chain!CooldownAssumption, Chain!RoundsAssumption
<1>4. CallInv /\ [NodeNext]_allVars => [Chain!Next]_(Chain!vars)
  BY ChainStep DEF vars, Chain!vars
<1>5. Chain!TypeOK /\ CallInv /\ [NodeNext]_allVars => CallInv'
  BY WalletIsNumber, CallStep
<1>6. QED
  BY <1>1, <1>2, <1>3, <1>4, <1>5, PTL DEF NodeSpec, Chain!Spec

\* Hence the accounts keep their types,
THEOREM NodeTypesCorrect == NodeSpec => []TypeOK
<1>1. Chain!TypeOK => TypeOK
  BY DEF Chain!TypeOK, TypeOK, Chain!NodeAccount, NodeAccount, Chain!ProgramState,
         ProgramState, Chain!PendingProof, PendingProof
<1>2. Chain!Spec => []Chain!TypeOK
  BY ChainAssumptions, Chain!TypeCorrect, PTL
  DEF Chain!NodesAssumption, Chain!InputAssumption, Chain!ConstantsAssumption,
      Chain!CooldownAssumption, Chain!RoundsAssumption
<1>3. QED
  BY <1>1, <1>2, NodeImplementsProgram, PTL

\* and every safety theorem of the program holds of it with the node at work:
\* strikes and ban, the supply, the stake while there are no strikes, when
\* rewards are recorded and how far apart, and what is needed to begin.
THEOREM NodeProgramSafe ==
    NodeSpec => []( /\ StrikesBounded /\ SupplyWithinCap /\ UnstruckStakeWhole
                    /\ RewardsOnlyMatured /\ RewardsSpaced /\ NothingWithoutGenesis)
<1>1. Chain!Spec => []Chain!StrikesBounded
  BY ChainAssumptions, Chain!StrikesTheorem, PTL
  DEF Chain!NodesAssumption, Chain!InputAssumption, Chain!ConstantsAssumption,
      Chain!CooldownAssumption, Chain!RoundsAssumption
<1>2. Chain!Spec => []Chain!SupplyWithinCap
  BY ChainAssumptions, Chain!SupplyTheorem, PTL
  DEF Chain!NodesAssumption, Chain!InputAssumption, Chain!ConstantsAssumption,
      Chain!CooldownAssumption, Chain!RoundsAssumption
<1>3. Chain!Spec => []Chain!UnstruckStakeWhole
  BY ChainAssumptions, Chain!UnstruckTheorem, PTL
  DEF Chain!NodesAssumption, Chain!InputAssumption, Chain!ConstantsAssumption,
      Chain!CooldownAssumption, Chain!RoundsAssumption
<1>4. Chain!Spec => []Chain!RewardsOnlyMatured
  BY ChainAssumptions, Chain!MaturityTheorem, PTL
  DEF Chain!NodesAssumption, Chain!InputAssumption, Chain!ConstantsAssumption,
      Chain!CooldownAssumption, Chain!RoundsAssumption
<1>5. Chain!Spec => []Chain!RewardsSpaced
  BY ChainAssumptions, Chain!SpacingTheorem, PTL
  DEF Chain!NodesAssumption, Chain!InputAssumption, Chain!ConstantsAssumption,
      Chain!CooldownAssumption, Chain!RoundsAssumption
<1>6. Chain!Spec => []Chain!NothingWithoutGenesis
  BY ChainAssumptions, Chain!GenesisTheorem, PTL
  DEF Chain!NodesAssumption, Chain!InputAssumption, Chain!ConstantsAssumption,
      Chain!CooldownAssumption, Chain!RoundsAssumption
<1>7. /\ Chain!StrikesBounded => StrikesBounded
      /\ Chain!SupplyWithinCap => SupplyWithinCap
      /\ Chain!UnstruckStakeWhole => UnstruckStakeWhole
      /\ Chain!RewardsOnlyMatured => RewardsOnlyMatured
      /\ Chain!RewardsSpaced => RewardsSpaced
      /\ Chain!NothingWithoutGenesis => NothingWithoutGenesis
  BY DEF StrikesBounded, Chain!StrikesBounded, SupplyWithinCap, Chain!SupplyWithinCap,
         UnstruckStakeWhole, Chain!UnstruckStakeWhole, RewardsOnlyMatured,
         Chain!RewardsOnlyMatured, RewardsSpaced, Chain!RewardsSpaced,
         NothingWithoutGenesis, Chain!NothingWithoutGenesis
<1>8. QED
  BY <1>1, <1>2, <1>3, <1>4, <1>5, <1>6, <1>7, NodeImplementsProgram, PTL

(***************************************************************************)
(* And so do its books: how a node that a ban ends stays, who paid the     *)
(* rewards, and that the vault and the counters cover what they promise.   *)
(***************************************************************************)
LEMMA SameCardinality == \A S : Cardinality(S) = Chain!Cardinality(S)
  BY Zenon DEF Cardinality, Chain!Cardinality, IsFiniteSet, Chain!IsFiniteSet

LEMMA SameSums == \A f : SumFunction(f) = Chain!SumFunction(f)
  BY Zenon DEF SumFunction, Chain!SumFunction, SumFunctionOnSet, Chain!SumFunctionOnSet,
               FoldFunctionOnSet, Chain!FoldFunctionOnSet, MapThenFoldSet, Chain!MapThenFoldSet

LEMMA SameCooldown == \A k : Cooldown(k) = Chain!Cooldown(k)
  BY Zenon DEF Cooldown, Chain!Cooldown, AtMost, Chain!AtMost, SaturatingSub, Chain!SaturatingSub

LEMMA SameVotes ==
    /\ \A n, r, v : Validators(n, r, v) = Chain!Validators(n, r, v)
    /\ \A n, r : Minted(n, r) = Chain!Minted(n, r)
    /\ \A n, r : MayFinalize(n, r) = Chain!MayFinalize(n, r)
<1>1. \A n, r, v : Validators(n, r, v) = Chain!Validators(n, r, v)
  BY Zenon DEF Validators, Chain!Validators
<1>2. \A n, r : Minted(n, r) = Chain!Minted(n, r)
  BY Zenon DEF Minted, Chain!Minted
<1>3. \A n, r : WindowClosed(n, r) = Chain!WindowClosed(n, r)
  BY Zenon DEF WindowClosed, Chain!WindowClosed
<1>4. \A n, r : QuorumReached(n, r) = Chain!QuorumReached(n, r)
  BY Zenon DEF QuorumReached, Chain!QuorumReached
<1>5. \A n, r : MayFinalize(n, r) = Chain!MayFinalize(n, r)
  BY <1>3, <1>4, Zenon DEF MayFinalize, Chain!MayFinalize
<1>6. QED
  BY <1>1, <1>2, <1>5

LEMMA SameVotesAfter ==
    /\ \A n, r, v : Validators(n, r, v)' = Chain!Validators(n, r, v)'
    /\ \A n, r : Minted(n, r)' = Chain!Minted(n, r)'
    /\ \A n, r : MayFinalize(n, r)' = Chain!MayFinalize(n, r)'
<1>1. \A n, r, v : Validators(n, r, v)' = Chain!Validators(n, r, v)'
  BY Zenon DEF Validators, Chain!Validators
<1>2. \A n, r : Minted(n, r)' = Chain!Minted(n, r)'
  BY Zenon DEF Minted, Chain!Minted
<1>3. \A n, r : WindowClosed(n, r)' = Chain!WindowClosed(n, r)'
  BY Zenon DEF WindowClosed, Chain!WindowClosed
<1>4. \A n, r : QuorumReached(n, r)' = Chain!QuorumReached(n, r)'
  BY Zenon DEF QuorumReached, Chain!QuorumReached
<1>5. \A n, r : MayFinalize(n, r)' = Chain!MayFinalize(n, r)'
  BY <1>3, <1>4, Zenon DEF MayFinalize, Chain!MayFinalize
<1>6. QED
  BY <1>1, <1>2, <1>5

\* The vault backs the stakes and the slashed tokens, the counters of what was
\* minted and banned agree with the accounts, only a quorum of other nodes makes
\* a reward, and no lockout outlasts the longest cooldown.
THEOREM NodeBooksBalance ==
    NodeSpec => []( /\ VaultCoversStake /\ MintedBooksAgree /\ BannedCountIsLowerBound
                    /\ MintedOnlyByQuorum /\ CooldownBounded)
<1>1. Chain!Spec => []Chain!VaultCoversStake
  BY ChainAssumptions, Chain!VaultTheorem, PTL
  DEF Chain!NodesAssumption, Chain!InputAssumption, Chain!ConstantsAssumption,
      Chain!CooldownAssumption, Chain!RoundsAssumption
<1>2. Chain!Spec => []Chain!MintedBooksAgree
  BY ChainAssumptions, Chain!BooksTheorem, PTL
  DEF Chain!NodesAssumption, Chain!InputAssumption, Chain!ConstantsAssumption,
      Chain!CooldownAssumption, Chain!RoundsAssumption
<1>3. Chain!Spec => []Chain!BannedCountIsLowerBound
  BY ChainAssumptions, Chain!BannedCountTheorem, PTL
  DEF Chain!NodesAssumption, Chain!InputAssumption, Chain!ConstantsAssumption,
      Chain!CooldownAssumption, Chain!RoundsAssumption
<1>4. Chain!Spec => []Chain!MintedOnlyByQuorum
  BY ChainAssumptions, Chain!QuorumTheorem, PTL
  DEF Chain!NodesAssumption, Chain!InputAssumption, Chain!ConstantsAssumption,
      Chain!CooldownAssumption, Chain!RoundsAssumption
<1>5. Chain!Spec => []Chain!CooldownBounded
  BY ChainAssumptions, Chain!CooldownTheorem, PTL
  DEF Chain!NodesAssumption, Chain!InputAssumption, Chain!ConstantsAssumption,
      Chain!CooldownAssumption, Chain!RoundsAssumption
<1>6. Chain!VaultCoversStake => VaultCoversStake
  BY SameSums, Zenon DEF VaultCoversStake, Chain!VaultCoversStake, TotalStake, Chain!TotalStake
<1>7. Chain!MintedBooksAgree => MintedBooksAgree
  BY SameSums, SameVotes, Zenon DEF MintedBooksAgree, Chain!MintedBooksAgree, Minted, Chain!Minted
<1>8. Chain!BannedCountIsLowerBound => BannedCountIsLowerBound
  BY SameCardinality, Zenon DEF BannedCountIsLowerBound, Chain!BannedCountIsLowerBound
<1>9. Chain!MintedOnlyByQuorum => MintedOnlyByQuorum
  BY SameCardinality, SameVotes, Zenon DEF MintedOnlyByQuorum, Chain!MintedOnlyByQuorum
<1>10. Chain!CooldownBounded => CooldownBounded
  BY SameCooldown, Zenon DEF CooldownBounded, Chain!CooldownBounded
<1>11. QED
  BY <1>1, <1>2, <1>3, <1>4, <1>5, <1>6, <1>7, <1>8, <1>9, <1>10, NodeImplementsProgram, PTL

\* A ban is final whatever the node sends after it: its strikes stay, its stake
\* never grows, and it neither claims nor votes.
THEOREM NodeBanIsFinal == NodeSpec => BanIsFinal
<1>1. Chain!Spec => Chain!BanIsFinal
  BY ChainAssumptions, Chain!BanTheorem, PTL
  DEF Chain!NodesAssumption, Chain!InputAssumption, Chain!ConstantsAssumption,
      Chain!CooldownAssumption, Chain!RoundsAssumption
<1>2. Chain!BanIsFinal => BanIsFinal
  BY SameState DEF BanIsFinal, Chain!BanIsFinal, vars, Chain!vars
<1>3. QED
  BY <1>1, <1>2, NodeImplementsProgram, PTL

\* A quorum that stands when the window of its claim is over is lost only to a
\* spent supply, whatever a node sends between the vote and the mint.
THEOREM NodeQuorumIsStable == NodeSpec => QuorumIsStable
<1>1. Chain!Spec => Chain!QuorumIsStable
  BY ChainAssumptions, Chain!StabilityTheorem, PTL
  DEF Chain!NodesAssumption, Chain!InputAssumption, Chain!ConstantsAssumption,
      Chain!CooldownAssumption, Chain!RoundsAssumption
<1>2. /\ \A n, r : MayFinalize(n, r) = Chain!MayFinalize(n, r)
      /\ \A n, r : MayFinalize(n, r)' = Chain!MayFinalize(n, r)'
      /\ \A n, r : Minted(n, r)' = Chain!Minted(n, r)'
  BY SameVotes, SameVotesAfter
<1> DEFINE Asked == \A n \in Nodes, r \in Rounds :
             (/\ now > pending[n][r].submitted_at + VALIDATION_WINDOW
              /\ MayFinalize(n, r))
             => \/ Minted(n, r)'
                \/ MayFinalize(n, r)'
                \/ program'.total_minted + pending[n][r].reward_amount > program.supply_cap
           Given == \A n \in Nodes, r \in Rounds :
             (/\ now > pending[n][r].submitted_at + VALIDATION_WINDOW
              /\ Chain!MayFinalize(n, r))
             => \/ Chain!Minted(n, r)'
                \/ Chain!MayFinalize(n, r)'
                \/ program'.total_minted + pending[n][r].reward_amount > program.supply_cap
<1>3. Chain!QuorumIsStable => QuorumIsStable
  <2>1. Given => Asked
    BY <1>2, Zenon
  <2>2. Chain!vars = vars /\ Chain!vars' = vars'
    BY DEF vars, Chain!vars
  <2> HIDE DEF Given, Asked
  <2>3. [Given]_(Chain!vars) => [Asked]_vars
    BY <2>1, <2>2
  <2>4. [][Given]_(Chain!vars) => [][Asked]_vars
    BY <2>3, PTL
  <2>5. QED
    BY <2>4 DEF Given, Asked, QuorumIsStable, Chain!QuorumIsStable
<1>4. QED
  BY <1>1, <1>3, NodeImplementsProgram, PTL

\* The claims and votes of Chain are those of the program, so that its escrow
\* takes the same steps.
LEMMA SameEscrow ==
    /\ Chain!Escrow!Init => Escrow!Init
    /\ [Chain!Escrow!Next]_(Chain!Escrow!vars) => [Escrow!Next]_(Escrow!vars)
<1>1. Chain!Escrow!Init => Escrow!Init
  BY DEF Escrow!Init, Chain!Escrow!Init, Claim, Chain!Claim, Minted, Chain!Minted, Validators,
         Chain!Validators
<1>2. \A n, r, status : Chain!Escrow!Claim(n, r, status) => Escrow!Claim(n, r, status)
  BY Zenon DEF Escrow!Claim, Chain!Escrow!Claim, Claim, Chain!Claim, Minted, Chain!Minted,
               Validators, Chain!Validators
<1>3. \A v, n, r : Chain!Escrow!MayVote(v, n, r) => Escrow!MayVote(v, n, r)
  BY Zenon DEF Escrow!MayVote, Chain!Escrow!MayVote, Claim, Chain!Claim, Minted, Chain!Minted,
               Validators, Chain!Validators
<1>4. \A v, n, r : Chain!Escrow!Confirm(v, n, r) => Escrow!Confirm(v, n, r)
  BY <1>3, Zenon DEF Escrow!Confirm, Chain!Escrow!Confirm, Claim, Chain!Claim, Minted,
                     Chain!Minted, Validators, Chain!Validators
<1>5. \A v, n, r : Chain!Escrow!Dispute(v, n, r) => Escrow!Dispute(v, n, r)
  BY <1>3, Zenon DEF Escrow!Dispute, Chain!Escrow!Dispute, Claim, Chain!Claim, Minted,
                     Chain!Minted, Validators, Chain!Validators
<1>6. \A n, r : Chain!Escrow!Pay(n, r) => Escrow!Pay(n, r)
  BY Zenon DEF Escrow!Pay, Chain!Escrow!Pay, Claim, Chain!Claim, Minted, Chain!Minted,
               Validators, Chain!Validators, Escrow!Cardinality, Chain!Escrow!Cardinality,
               Escrow!IsFiniteSet, Chain!Escrow!IsFiniteSet
<1>7. Chain!Escrow!SetCap => Escrow!SetCap
  BY Zenon DEF Escrow!SetCap, Chain!Escrow!SetCap, Claim, Chain!Claim, Minted, Chain!Minted,
               Validators, Chain!Validators
<1>8. Chain!Escrow!Next => Escrow!Next
  BY <1>2, <1>4, <1>5, <1>6, <1>7, Zenon DEF Escrow!Next, Chain!Escrow!Next
<1>9. UNCHANGED Chain!Escrow!vars => UNCHANGED Escrow!vars
  BY Zenon DEF Escrow!vars, Chain!Escrow!vars, Claim, Chain!Claim, Minted, Chain!Minted,
               Validators, Chain!Validators
<1>10. QED
  BY <1>1, <1>8, <1>9

\* A node with its owner and the other nodes keeps the promises of the escrow: a
\* claim is paid once, by a quorum, within the cap.
THEOREM NodeImplementsEscrow == NodeSpec => ImplementsEscrow
<1>1. Chain!Spec => Chain!ImplementsEscrow
  BY ChainAssumptions, Chain!EscrowTheorem, PTL
  DEF Chain!NodesAssumption, Chain!InputAssumption, Chain!ConstantsAssumption,
      Chain!CooldownAssumption, Chain!RoundsAssumption
<1>2. Chain!ImplementsEscrow => ImplementsEscrow
  BY SameEscrow, PTL DEF ImplementsEscrow, Chain!ImplementsEscrow, Escrow!Spec, Chain!Escrow!Spec
<1>3. QED
  BY <1>1, <1>2, NodeImplementsProgram, PTL

-----------------------------------------------------------------------------
(***************************************************************************)
(* Types of the process.                                                   *)
(***************************************************************************)
PhaseTypeOK ==
    /\ phase \in {"down", "joining", "starting", "fetching", "up", "stopping", "leaving"}
    /\ identity \in {"none", "whole", "torn"}
    /\ connected \in BOOLEAN
    /\ enabled \subseteq Supported
    /\ resumed \in BOOLEAN

LEMMA PhaseStep == ConfigInv /\ PhaseTypeOK /\ [NodeNext]_allVars => PhaseTypeOK'
<1> SUFFICES ASSUME ConfigInv, PhaseTypeOK, [NodeNext]_allVars PROVE PhaseTypeOK'
  OBVIOUS
<1> USE DEF PhaseTypeOK
<1>1. CASE boots \/ diesWritingIdentity \/ inferenceStarts \/ shutdown \/ stopAll
  BY <1>1 DEF boots, diesWritingIdentity, inferenceStarts, shutdown, stopAll
<1>2. CASE joins
  <2>1. config.p2p \subseteq BOOLEAN
    BY WorkloadAssumption DEF WorkloadAssumption, ConfigInv
  <2>2. QED
    BY <1>2, <2>1 DEF joins
<1>3. ASSUME NEW c \in Supported, startCapability(c) PROVE PhaseTypeOK'
  BY <1>3 DEF startCapability
<1>4. CASE goesLive(TRUE) \/ goesLive(FALSE)
  BY <1>4 DEF goesLive
<1>5. CASE landing
  BY <1>5 DEF landing
<1>6. CASE exits \/ dies
  BY <1>6 DEF exits, dies, Over
<1>7. CASE \/ pulse \/ fails \/ world \/ receives \/ publishes \/ challenges \/ attests \/ timers \/ minutePasses
           \/ \E k \in StakeTicks : stakeTick(k)
           \/ \E i \in CallIds : answers(i)
  BY <1>7
  DEF pulse, fails, world, receives, publishes, challenges, attests, timers, minutePasses, stakeTick,
      answers, nodeVars, processVars
<1>8. CASE UNCHANGED allVars
  BY <1>8 DEF allVars, nodeVars, processVars
<1>9. QED
  BY <1>1, <1>2, <1>3, <1>4, <1>5, <1>6, <1>7, <1>8 DEF NodeNext

LEMMA ReleasedTypes ==
    ASSUME CallInv, PulseTypeOK, NEW tx \in network, NEW step \in {"account", "proof", "over"},
           NEW i \in CallIds
    PROVE  /\ Released(tx, step)[i].step \in Reading \cup Sending \cup {"none", "over"}
           /\ Released(tx, step)[i].sent => Released(tx, step)[i].step \in Sending
           /\ Released(tx, step)[i].step \in Reading \cup Sending =>
                 call[i].step \in Reading \cup Sending
  BY DEF CallInv, PulseTypeOK, Calls, Released, At, Reading, Sending

\* A step leaves the call of i where it is, or takes it one step on, and never
\* begins it.
Goes(i) ==
    /\ call'[i].step \in Reading \cup Sending \cup {"none", "over"}
    /\ call'[i].sent => call'[i].step \in Sending
    /\ call'[i].step \in Reading \cup Sending => call[i].step \in Reading \cup Sending

LEMMA CallsGo ==
    ASSUME CallInv, PulseTypeOK, wallet[me] \in Nat, landing \/ fails \/ \E i \in CallIds : answers(i)
    PROVE  \A i \in CallIds : Goes(i)
<1>1. ASSUME NEW j \in CallIds, NEW next \in Calls, call' = [call EXCEPT ![j] = next],
             call[j].step \in Reading \cup Sending, next.sent => next.step \in Sending
      PROVE  \A i \in CallIds : Goes(i)
  BY <1>1 DEF CallInv, Calls, PulseTypeOK, Goes
<1>2. ASSUME NEW tx \in network, NEW step \in {"account", "proof", "over"},
             call' = Released(tx, step)
      PROVE  \A i \in CallIds : Goes(i)
  BY <1>2, ReleasedTypes DEF Goes
<1>3. CASE landing
  <2>1. PICK tx \in network : call' = Released(tx, Following(tx.kind))
    BY <1>3 DEF landing, lands
  <2>2. Following(tx.kind) \in {"account", "proof", "over"}
    BY DEF Following
  <2>3. QED
    BY <1>2, <2>1, <2>2
<1>4. At("over", 0) \in Calls /\ ~At("over", 0).sent
  BY DEF At, Calls
<1>5. CASE fails
  <2>1. ASSUME NEW j \in CallIds, throws(j) PROVE \A i \in CallIds : Goes(i)
    BY <1>1, <1>4, <2>1 DEF throws
  <2>2. ASSUME NEW tx \in network, expires(tx) PROVE \A i \in CallIds : Goes(i)
    BY <1>2, <2>2 DEF expires
  <2>3. QED
    BY <1>5, <2>1, <2>2 DEF fails
<1>6. ASSUME NEW j \in CallIds, answers(j) PROVE \A i \in CallIds : Goes(i)
  <2>1. CASE read(j)
    <3>1. call[j].step \in Reading /\ call' = [call EXCEPT ![j] = Answer(j)]
      BY <2>1 DEF read
    <3>2. Answer(j) \in Calls
      BY <3>1, AnsweredCalls
    <3>3. ~Answer(j).sent
      BY <3>1 DEF Answer, At, Reading
    <3>4. QED
      BY <1>1, <3>1, <3>2, <3>3
  <2>2. CASE send(j)
    <3>1. call[j].step \in Sending /\ call[j] \in Calls
      BY <2>2 DEF send, CallInv
    <3>2. [call[j] EXCEPT !.sent = TRUE] \in Calls
          /\ [call[j] EXCEPT !.sent = TRUE].step = call[j].step
      BY <3>1 DEF Calls
    <3>3. call' = [call EXCEPT ![j] = [call[j] EXCEPT !.sent = TRUE]]
          \/ call' = [call EXCEPT ![j] = At("over", 0)]
      BY <2>2 DEF send
    <3>4. QED
      BY <1>1, <1>4, <3>1, <3>2, <3>3
  <2>3. QED
    BY <1>6, <2>1, <2>2 DEF answers
<1>7. QED
  BY <1>3, <1>5, <1>6

\* What a step does to the runner, to the calls and to the network.
LEMMA RoundBegins ==
    ASSUME CallInv, PulseTypeOK, NEW last \in Nat, runRound(config.configured, last)
    PROVE  /\ roundNumber' = last + 1 /\ roundNumber' \in Nat
           /\ \A p \in proofs' : p.rowIdx \in Matrix
           /\ UNCHANGED <<process, network>>
           /\ \A i \in CallIds :
                 /\ call'[i].step \in Reading \cup Sending \cup {"none", "over"}
                 /\ call'[i].sent => call'[i].step \in Sending
                 /\ i # last + 1 => call'[i] = call[i]
<1>1. last + 1 \in Rounds /\ last + 1 \in CallIds
  BY DEF runRound, CallIds
<1>2. /\ roundNumber' = last + 1
      /\ proofs' = {Proof(i) : i \in selectChallengeRows[last + 1]}
      /\ UNCHANGED <<process, network>>
      /\ \/ call' = [call EXCEPT ![last + 1] = At("program", 0)]
         \/ call' = [call EXCEPT ![last + 1] = @]
  BY DEF runRound
<1>3. \A p \in proofs' : p.rowIdx \in Matrix
  BY <1>1, <1>2, ClientAssumption DEF ClientAssumption, Proof
<1>4. At("program", 0).step \in Reading /\ ~At("program", 0).sent
  BY DEF At, Reading
<1>5. \A i \in CallIds :
         /\ call'[i].step \in Reading \cup Sending \cup {"none", "over"}
         /\ call'[i].sent => call'[i].step \in Sending
         /\ i # last + 1 => call'[i] = call[i]
  BY <1>1, <1>2, <1>4 DEF CallInv, PulseTypeOK
<1>6. QED
  BY <1>2, <1>3, <1>5

LEMMA GoesLiveEffect ==
    ASSUME TypeOK, CallInv, PulseTypeOK, NEW known \in BOOLEAN, goesLive(known)
    PROVE  /\ roundNumber' \in Nat /\ roundNumber' >= IF known THEN LastClaimRound ELSE 0
           /\ \A p \in proofs' : p.rowIdx \in Matrix
           /\ UNCHANGED <<process, network>>
           /\ \A i \in CallIds :
                 /\ call'[i].step \in Reading \cup Sending \cup {"none", "over"}
                 /\ call'[i].sent => call'[i].step \in Sending
                 /\ i = roundNumber' \/ call'[i] = call[i]
<1> DEFINE last == IF known THEN LastClaimRound ELSE 0
           Done == /\ roundNumber' \in Nat /\ roundNumber' >= last
                   /\ \A p \in proofs' : p.rowIdx \in Matrix
                   /\ UNCHANGED <<process, network>>
                   /\ \A i \in CallIds :
                         /\ call'[i].step \in Reading \cup Sending \cup {"none", "over"}
                         /\ call'[i].sent => call'[i].step \in Sending
                         /\ i = roundNumber' \/ call'[i] = call[i]
<1>1. last \in Nat
  <2>1. node[me] \in NodeAccount
    BY ClientAssumption DEF ClientAssumption, TypeOK
  <2>2. LastClaimRound \in Nat
    BY <2>1 DEF LastClaimRound, NodeAccount
  <2>3. QED
    BY <2>2
<1>2. Runs(last)
  BY DEF goesLive
<1> HIDE DEF last
<1>3. ASSUME runRound(config.configured, last) PROVE Done
  BY <1>1, <1>3, RoundBegins
<1>4. ASSUME roundNumber' = last, UNCHANGED <<proofs, clientVars>> PROVE Done
  BY <1>1, <1>4 DEF clientVars, PulseTypeOK
<1>5. Done
  BY <1>2, <1>3, <1>4 DEF Runs
<1>6. QED
  BY <1>5 DEF last

\* Only a call that sends its transaction adds to the network.
LEMMA NetworkGrows ==
    ASSUME CallInv, PulseTypeOK, landing \/ fails \/ \E i \in CallIds : answers(i)
    PROVE  \A tx \in network' :
              \/ tx \in network
              \/ /\ tx.by \in CallIds /\ tx.of = process
                 /\ tx.kind = call[tx.by].step /\ tx.kind \in Sending
<1>1. CASE landing
  BY <1>1 DEF landing, lands
<1>2. CASE fails
  BY <1>2 DEF fails, throws, expires
<1>3. ASSUME NEW i \in CallIds, answers(i)
      PROVE  \A tx \in network' :
                \/ tx \in network
                \/ /\ tx.by \in CallIds /\ tx.of = process
                   /\ tx.kind = call[tx.by].step /\ tx.kind \in Sending
  <2>1. CASE read(i)
    BY <2>1 DEF read
  <2>2. CASE send(i)
    BY <2>2 DEF send, Tx
  <2>3. QED
    BY <1>3, <2>1, <2>2 DEF answers
<1>4. QED
  BY <1>1, <1>2, <1>3

LEMMA PulseTypesStep ==
    ASSUME TypeOK, CallInv, PulseTypeOK, [NodeNext]_allVars
    PROVE  PulseTypeOK'
<1>1. wallet[me] \in Nat
  BY ClientAssumption DEF ClientAssumption, TypeOK
<1>2. ASSUME UNCHANGED pulseVars PROVE PulseTypeOK'
  BY <1>2 DEF PulseTypeOK, pulseVars, runnerVars, clientVars
<1>3. CASE landing \/ fails \/ \E i \in CallIds : answers(i)
  <2>1. UNCHANGED <<runnerVars, process>>
    BY <1>3 DEF landing, lands, fails, throws, expires, answers, read, send
  <2>2. \A i \in CallIds : Goes(i)
    BY <1>1, <1>3, CallsGo
  <2>3. \A tx \in network' : tx \in network \/ (tx.by \in CallIds /\ tx.of = process)
    BY <1>3, NetworkGrows
  <2>4. QED
    BY <2>1, <2>2, <2>3 DEF PulseTypeOK, runnerVars, Goes
<1>4. ASSUME NEW k \in StakeTicks, stakeTick(k) PROVE PulseTypeOK'
  <2>1. /\ call' = [call EXCEPT ![k] = At("staked", 0)]
        /\ UNCHANGED <<runnerVars, process, network>>
    BY <1>4 DEF stakeTick, autoStake
  <2>2. At("staked", 0).step \in Reading /\ ~At("staked", 0).sent
    BY DEF At, Reading
  <2>3. QED
    BY <2>1, <2>2 DEF PulseTypeOK, runnerVars, CallInv
<1>5. CASE pulse
  <2>1. roundNumber \in Nat /\ runRound(config.configured, roundNumber)
    BY <1>5 DEF pulse, PulseTypeOK
  <2>2. QED
    BY <2>1, RoundBegins DEF PulseTypeOK
<1>6. ASSUME NEW known \in BOOLEAN, goesLive(known) PROVE PulseTypeOK'
  BY <1>6, GoesLiveEffect DEF PulseTypeOK
<1>7. CASE world
  <2>1. CASE \E c \in OwnerCalls : ownerSends(c)
    BY <2>1 DEF ownerSends, OwnerTx, PulseTypeOK, runnerVars
  <2>2. CASE UNCHANGED pulseVars
    BY <1>2, <2>2
  <2>3. QED
    BY <1>7, <2>1, <2>2 DEF world, othersAct
<1>8. CASE boots \/ diesWritingIdentity
  <2>1. process' = process + 1 /\ UNCHANGED <<runnerVars, call, network>>
    BY <1>8 DEF boots, diesWritingIdentity
  <2>2. QED
    BY <2>1 DEF PulseTypeOK, runnerVars
<1>9. CASE \/ joins \/ inferenceStarts
           \/ \E c \in Supported : startCapability(c)
           \/ receives \/ publishes \/ challenges \/ attests \/ timers \/ minutePasses
           \/ shutdown \/ stopAll
  BY <1>2, <1>9
  DEF joins, inferenceStarts, startCapability, receives, publishes, challenges, attests, timers,
      minutePasses, shutdown, stopAll
<1>10. CASE exits \/ dies
  <2>1. /\ roundNumber' = 0 /\ proofs' = {} /\ call' = [i \in CallIds |-> NoCall]
        /\ UNCHANGED <<process, network>>
    BY <1>10 DEF exits, dies, Over, ClientStops
  <2>2. NoCall.step = "none" /\ ~NoCall.sent
    BY DEF NoCall, At
  <2>3. QED
    BY <2>1, <2>2 DEF PulseTypeOK
<1>11. CASE UNCHANGED allVars
  BY <1>2, <1>11 DEF allVars
<1>12. QED
  BY <1>3, <1>4, <1>5, <1>6, <1>7, <1>8, <1>9, <1>10, <1>11 DEF NodeNext

\* The chain and the calls keep their types together.
LEMMA NodeAlways == NodeSpec => [](TypeOK /\ ConfigInv /\ CallInv /\ PhaseTypeOK /\ PulseTypeOK)
<1>1. NodeInit => ConfigInv /\ CallInv /\ PhaseTypeOK /\ PulseTypeOK
  <2> SUFFICES ASSUME NodeInit PROVE ConfigInv /\ CallInv /\ PhaseTypeOK /\ PulseTypeOK
    OBVIOUS
  <2>1. NoCall.step = "none" /\ ~NoCall.sent
    BY DEF NoCall, At
  <2>2. PulseTypeOK
    BY <2>1 DEF NodeInit, PulseInit, PulseTypeOK
  <2>3. QED
    BY <2>2, CallsBegin DEF NodeInit, ConfigInv, PhaseTypeOK
<1>2. TypeOK => wallet[me] \in Nat
  BY ClientAssumption DEF ClientAssumption, TypeOK
<1>3. /\ TypeOK /\ ConfigInv /\ CallInv /\ PhaseTypeOK /\ PulseTypeOK
      /\ [NodeNext]_allVars
      => ConfigInv' /\ CallInv' /\ PhaseTypeOK' /\ PulseTypeOK'
  BY <1>2, ConfigStep, CallStep, PhaseStep, PulseTypesStep
<1>4. QED
  BY <1>1, <1>3, NodeTypesCorrect, PTL DEF NodeSpec

\* NodeTypeOK: the node, its chain client, the chain and its security layer.
THEOREM NodeTypes == NodeSpec => []NodeTypeOK
<1>1. TypeOK /\ PhaseTypeOK /\ PulseTypeOK /\ SecurityTypeOK => NodeTypeOK
  BY DEF PhaseTypeOK, NodeTypeOK
<1>2. QED
  BY <1>1, NodeAlways, NodeRunsSecurity, SecurityTypes, PTL

-----------------------------------------------------------------------------
(***************************************************************************)
(* Resuming.  Only a submission raises the round the chain has accepted.   *)
(* A runner that resumed is at least at that round; so is every submission *)
(* of its process, under way or still to be sent, since a round begins     *)
(* only when the runner is there.  What an earlier process has sent is     *)
(* marked with that process, and a process that boots has no calls.        *)
(***************************************************************************)
LEMMA RoundIsNumber == TypeOK => LastClaimRound \in Nat
<1> SUFFICES ASSUME TypeOK PROVE LastClaimRound \in Nat
  OBVIOUS
<1>1. node[me] \in NodeAccount
  BY ClientAssumption DEF ClientAssumption, TypeOK
<1>2. QED
  BY <1>1 DEF LastClaimRound, NodeAccount

\* Every other instruction leaves that round, or makes a new account.
LEMMA ClaimsKept ==
    ASSUME TypeOK
    PROVE  /\ initialize(0) => LastClaimRound' = LastClaimRound
           /\ Tick => LastClaimRound' = LastClaimRound
           /\ \A n \in Nodes : \A c : register_node(n, c) => LastClaimRound' <= LastClaimRound
           /\ \A n \in Nodes : \A c : update_capabilities(n, c) => LastClaimRound' = LastClaimRound
           /\ \A n \in Nodes : \A amount : stake(n, amount) => LastClaimRound' = LastClaimRound
           /\ \A n \in Nodes : \A amount : request_unstake(n, amount) => LastClaimRound' = LastClaimRound
           /\ \A n \in Nodes : withdraw_unstake(n) => LastClaimRound' = LastClaimRound
           /\ \A n \in Nodes : \A r : heartbeat(n, r) => LastClaimRound' = LastClaimRound
           /\ \A n, m \in Nodes : \A type : report_violation(n, m, type) => LastClaimRound' = LastClaimRound
<1>1. /\ node \in [Nodes -> NodeAccount] /\ me \in Nodes /\ LastClaimRound \in Nat
  BY RoundIsNumber, ClientAssumption DEF ClientAssumption, TypeOK
<1> DEFINE Same == /\ node'[me].registered = node[me].registered
                   /\ node'[me].last_claim_round = node[me].last_claim_round
<1>2. Same => LastClaimRound' = LastClaimRound
  BY DEF LastClaimRound
<1>3. (initialize(0) => Same) /\ (Tick => Same)
  BY DEF initialize, Tick
<1>4. ASSUME NEW n \in Nodes, NEW c, register_node(n, c) PROVE LastClaimRound' <= LastClaimRound
  <2>1. CASE n = me
    <3>1. node'[me].last_claim_round = 0
      BY <1>1, <1>4, <2>1 DEF register_node, NoNode
    <3>2. QED
      BY <1>1, <3>1 DEF LastClaimRound
  <2>2. CASE n # me
    <3>1. Same
      BY <1>1, <1>4, <2>2 DEF register_node
    <3>2. QED
      BY <1>1, <1>2, <3>1
  <2>3. QED
    BY <2>1, <2>2
<1>5. ASSUME NEW n \in Nodes, NEW c, update_capabilities(n, c) PROVE Same
  BY <1>1, <1>5 DEF update_capabilities, NodeAccount
<1>6. ASSUME NEW n \in Nodes, NEW amount, stake(n, amount) PROVE Same
  BY <1>1, <1>6 DEF stake, NodeAccount
<1>7. ASSUME NEW n \in Nodes, NEW amount, request_unstake(n, amount) PROVE Same
  BY <1>1, <1>7 DEF request_unstake, NodeAccount
<1>8. ASSUME NEW n \in Nodes, withdraw_unstake(n) PROVE Same
  BY <1>1, <1>8 DEF withdraw_unstake, NodeAccount
<1>9. ASSUME NEW n \in Nodes, NEW r, heartbeat(n, r) PROVE Same
  BY <1>1, <1>9 DEF heartbeat, NodeAccount
<1>10. ASSUME NEW n \in Nodes, NEW m \in Nodes, NEW type, report_violation(n, m, type) PROVE Same
  BY <1>1, <1>10 DEF report_violation, NodeAccount
<1> HIDE DEF Same
<1>11. QED
  BY <1>2, <1>3, <1>4, <1>5, <1>6, <1>7, <1>8, <1>9, <1>10

LEMMA SubmissionClaims ==
    ASSUME TypeOK, NEW round \in Rounds, submitPulseProof(round)
    PROVE  LastClaimRound' = round
<1>1. /\ node \in [Nodes -> NodeAccount] /\ me \in Nodes
  BY ClientAssumption DEF ClientAssumption, TypeOK
<1>2. ASSUME SubmitMaturationProof(me, round) PROVE LastClaimRound' = round
  <2>1. /\ node'[me].last_claim_round = round /\ node'[me].registered
    BY <1>1, <1>2 DEF SubmitMaturationProof, MaySubmit, ProofAccepted, NodeAccount
  <2>2. QED
    BY <2>1 DEF LastClaimRound
<1>3. ASSUME NEW reward, SubmitRewardedProof(me, round, reward) PROVE LastClaimRound' = round
  <2>1. /\ node'[me].last_claim_round = round /\ node'[me].registered
    BY <1>1, <1>3 DEF SubmitRewardedProof, MaySubmit, ProofAccepted, NodeAccount
  <2>2. QED
    BY <2>1 DEF LastClaimRound
<1>4. QED
  BY <1>2, <1>3 DEF submitPulseProof

\* What lands raises it to the round of a submission, or not at all.
LEMMA LandingClaims ==
    ASSUME TypeOK, CallInv, NEW tx \in network, lands(tx)
    PROVE  \/ LastClaimRound' <= LastClaimRound
           \/ tx.kind = "submit_pulse_proof" /\ LastClaimRound' = tx.by
<1>1. me \in Nodes /\ LastClaimRound \in Nat
  BY RoundIsNumber, ClientAssumption DEF ClientAssumption
<1>2. CASE UNCHANGED vars
  BY <1>1, <1>2 DEF vars, LastClaimRound
<1>3. CASE Executes(tx)
  <2>1. CASE tx.kind = "submit_pulse_proof" /\ submitPulseProof(tx.by)
    <3>1. tx.by \in Rounds
      BY <2>1 DEF CallInv, RoundSteps
    <3>2. QED
      BY <2>1, <3>1, SubmissionClaims
  <2>2. CASE ~(tx.kind = "submit_pulse_proof" /\ submitPulseProof(tx.by))
    <3>1. \/ LastClaimRound' = LastClaimRound
          \/ LastClaimRound' <= LastClaimRound
      BY <1>1, <1>3, <2>2, ClaimsKept
      DEF Executes, registerNode, updateCapabilities, reportViolation
    <3>2. QED
      BY <1>1, <3>1
  <2>3. QED
    BY <2>1, <2>2
<1>4. QED
  BY <1>2, <1>3 DEF lands

Active(i) == call[i].step \in Reading \cup Sending

Submits(tx) == tx.kind = "submit_pulse_proof" /\ tx.of = process

ResumeInv ==
    /\ phase \in {"down", "joining", "starting", "fetching"} =>
          \A i \in CallIds : ~Active(i)
    /\ phase \in {"joining", "starting", "fetching"} =>
          \A tx \in network : ~Submits(tx)
    /\ phase = "up" /\ resumed =>
          /\ roundNumber >= LastClaimRound
          /\ \A r \in Rounds : Active(r) => r <= roundNumber
          /\ \A tx \in network : Submits(tx) => tx.by <= roundNumber

LEMMA ResumeStep ==
    ASSUME TypeOK, TypeOK', CallInv, PhaseTypeOK, PulseTypeOK, ResumeInv, [NodeNext]_allVars
    PROVE  ResumeInv'
<1>1. /\ LastClaimRound \in Nat /\ LastClaimRound' \in Nat /\ roundNumber \in Nat
      /\ wallet[me] \in Nat /\ Rounds \subseteq Nat /\ Rounds \subseteq CallIds
      /\ 0 \notin Rounds /\ \A k \in StakeTicks : k \notin Rounds
  <2>1. LastClaimRound \in Nat
    BY RoundIsNumber
  <2>2. LastClaimRound' \in Nat
    <3>1. node'[me] \in NodeAccount
      BY ClientAssumption DEF ClientAssumption, TypeOK
    <3>2. QED
      BY <3>1 DEF LastClaimRound, NodeAccount
  <2>3. QED
    BY <2>1, <2>2, ClientAssumption, InputAssumption
    DEF ClientAssumption, InputAssumption, TypeOK, PulseTypeOK, CallIds
<1>2. ASSUME UNCHANGED <<call, network, process, roundNumber, phase, resumed>>,
             LastClaimRound' <= LastClaimRound
      PROVE  ResumeInv'
  BY <1>1, <1>2 DEF ResumeInv, Active, Submits
<1>3. ASSUME UNCHANGED vars PROVE LastClaimRound' = LastClaimRound
  BY <1>3 DEF vars, LastClaimRound
<1>4. CASE landing \/ fails \/ \E i \in CallIds : answers(i)
  <2>1. UNCHANGED <<roundNumber, process, phase>>
    BY <1>4
    DEF landing, lands, fails, throws, expires, answers, read, send, runnerVars, nodeVars,
        processVars
  <2>2. \A i \in CallIds : Active(i)' => Active(i)
    BY <1>1, <1>4, CallsGo DEF Goes, Active
  <2>3. \A tx \in network' :
           \/ tx \in network
           \/ Submits(tx) => tx.by \in Rounds /\ Active(tx.by)
    <3> SUFFICES ASSUME NEW tx \in network', tx \notin network, Submits(tx)
                 PROVE  tx.by \in Rounds /\ Active(tx.by)
      OBVIOUS
    <3>1. tx.by \in CallIds /\ call[tx.by].step = "submit_pulse_proof"
      BY <1>4, NetworkGrows DEF Submits
    <3>2. QED
      BY <3>1 DEF CallInv, RoundSteps, Active, Sending
  <2>4. resumed' => resumed
    BY <1>4 DEF landing, fails, answers, nodeVars, processVars
  <2>5. ASSUME phase = "up", resumed' PROVE roundNumber >= LastClaimRound'
    <3>1. /\ roundNumber >= LastClaimRound
          /\ \A tx \in network : Submits(tx) => tx.by <= roundNumber
      BY <2>4, <2>5 DEF ResumeInv
    <3>2. CASE landing
      <4>1. PICK tx \in network : lands(tx) /\ ~Overtakes(tx)
        BY <2>5, <3>2 DEF landing
      <4>2. \/ LastClaimRound' <= LastClaimRound
            \/ tx.kind = "submit_pulse_proof" /\ LastClaimRound' = tx.by
        BY <4>1, LandingClaims
      <4>3. CASE LastClaimRound' <= LastClaimRound
        BY <1>1, <3>1, <4>3
      <4>4. CASE tx.kind = "submit_pulse_proof" /\ LastClaimRound' = tx.by
        <5>1. Submits(tx)
          BY <4>1, <4>4 DEF Overtakes, Submits
        <5>2. QED
          BY <1>1, <3>1, <4>4, <5>1
      <4>5. QED
        BY <4>2, <4>3, <4>4
    <3>3. CASE fails \/ \E i \in CallIds : answers(i)
      <4>1. UNCHANGED vars
        BY <3>3 DEF fails, throws, expires, answers, read, send
      <4>2. QED
        BY <1>3, <3>1, <4>1
    <3>4. QED
      BY <1>4, <3>2, <3>3
  <2>6. \A tx : Submits(tx)' <=> Submits(tx)
    BY <2>1 DEF Submits
  <2>7. QED
    BY <1>1, <2>1, <2>2, <2>3, <2>4, <2>5, <2>6 DEF ResumeInv
<1>5. ASSUME NEW k \in StakeTicks, stakeTick(k) PROVE ResumeInv'
  <2>1. /\ call' = [call EXCEPT ![k] = At("staked", 0)] /\ phase = "up"
        /\ UNCHANGED <<roundNumber, process, network, phase, resumed, vars>>
    BY <1>5 DEF stakeTick, autoStake, runnerVars, nodeVars, processVars
  <2>2. \A r \in Rounds : call'[r] = call[r]
    BY <1>1, <2>1 DEF CallInv
  <2>3. QED
    BY <1>1, <1>3, <2>1, <2>2 DEF ResumeInv, Active, Submits
<1>6. CASE pulse
  <2>1. /\ runRound(config.configured, roundNumber) /\ Tick /\ phase = "up"
        /\ UNCHANGED <<phase, resumed>>
    BY <1>6 DEF pulse, nodeVars, processVars
  <2>2. LastClaimRound' = LastClaimRound
    BY <2>1, ClaimsKept
  <2>3. /\ roundNumber' = roundNumber + 1 /\ UNCHANGED <<process, network>>
        /\ \A i \in CallIds : i # roundNumber + 1 => call'[i] = call[i]
    BY <1>1, <2>1, RoundBegins
  <2>4. ASSUME resumed
        PROVE  /\ roundNumber' >= LastClaimRound'
               /\ \A r \in Rounds : Active(r)' => r <= roundNumber'
               /\ \A tx \in network' : Submits(tx)' => tx.by <= roundNumber'
    <3>1. /\ roundNumber >= LastClaimRound
          /\ \A r \in Rounds : Active(r) => r <= roundNumber
          /\ \A tx \in network : Submits(tx) => tx.by <= roundNumber
      BY <2>1, <2>4 DEF ResumeInv
    <3>2. \A tx \in network : Submits(tx) => tx.by \in Nat
      BY <1>1 DEF Submits, CallInv, RoundSteps
    <3>3. \A r \in Rounds : Active(r)' => r <= roundNumber'
      BY <1>1, <2>3, <3>1 DEF Active
    <3>4. \A tx \in network' : Submits(tx)' => tx.by <= roundNumber'
      BY <1>1, <2>3, <3>1, <3>2 DEF Submits
    <3>5. QED
      BY <1>1, <2>2, <2>3, <3>1, <3>3, <3>4
  <2>5. QED
    BY <2>1, <2>4 DEF ResumeInv
<1>7. ASSUME NEW known \in BOOLEAN, goesLive(known) PROVE ResumeInv'
  <2>1. /\ phase = "fetching" /\ phase' = "up" /\ resumed' = known /\ UNCHANGED vars
    BY <1>7 DEF goesLive
  <2>2. CASE ~known
    BY <2>1, <2>2 DEF ResumeInv
  <2>3. CASE known
    <3>1. /\ roundNumber' \in Nat /\ roundNumber' >= LastClaimRound
          /\ UNCHANGED <<process, network>>
          /\ \A i \in CallIds : i = roundNumber' \/ call'[i] = call[i]
      BY <1>7, <2>3, GoesLiveEffect
    <3>2. /\ \A i \in CallIds : ~Active(i)
          /\ \A tx \in network : ~Submits(tx)
      BY <2>1 DEF ResumeInv
    <3>3. ASSUME NEW r \in Rounds, Active(r)' PROVE r <= roundNumber'
      <4>1. r \in CallIds /\ r \in Nat
        BY <1>1
      <4>2. call'[r] # call[r]
        BY <3>2, <3>3, <4>1 DEF Active
      <4>3. r = roundNumber'
        BY <3>1, <4>1, <4>2
      <4>4. QED
        BY <4>1, <4>3
    <3>4. \A tx \in network' : ~Submits(tx)'
      BY <3>1, <3>2 DEF Submits
    <3>5. QED
      BY <1>3, <2>1, <3>1, <3>3, <3>4 DEF ResumeInv
  <2>4. QED
    BY <2>2, <2>3
<1>8. CASE world
  <2>1. UNCHANGED <<process, roundNumber, phase, resumed, call>>
    BY <1>8
    DEF world, processVars, ownerSends, othersAct, pulseVars, runnerVars, clientVars
  <2>2. CASE \E c \in OwnerCalls : ownerSends(c)
    <3>1. PICK c \in OwnerCalls : ownerSends(c)
      BY <2>2
    <3>2. c.kind # "submit_pulse_proof"
      BY OwnerAssumption DEF OwnerAssumption
    <3>3. \A tx \in network' : tx \in network \/ tx.kind # "submit_pulse_proof"
      BY <3>1, <3>2 DEF ownerSends, OwnerTx
    <3>4. LastClaimRound' = LastClaimRound
      BY <1>3, <3>1 DEF ownerSends
    <3>5. QED
      BY <2>1, <3>3, <3>4 DEF ResumeInv, Active, Submits
  <2>3. CASE othersAct \/ (Tick /\ UNCHANGED pulseVars)
    <3>1. network' = network
      BY <2>3 DEF othersAct, pulseVars, clientVars
    <3>2. me \in Nodes
      BY ClientAssumption DEF ClientAssumption
    <3>3. LastClaimRound' = LastClaimRound \/ LastClaimRound' <= LastClaimRound
      BY <2>3, <3>2, ClaimsKept DEF othersAct
    <3>4. LastClaimRound' <= LastClaimRound
      BY <1>1, <3>3
    <3>5. QED
      BY <1>2, <2>1, <3>1, <3>4
  <2>4. QED
    BY <1>8, <2>2, <2>3 DEF world
<1>9. CASE boots \/ diesWritingIdentity
  <2>1. /\ phase = "down" /\ process' = process + 1 /\ UNCHANGED <<call, network>>
        /\ phase' \in {"joining", "down"}
    BY <1>9 DEF boots, diesWritingIdentity
  <2>2. \A i \in CallIds : ~Active(i)'
    BY <2>1 DEF ResumeInv, Active
  <2>3. \A tx \in network' : ~Submits(tx)'
    BY <2>1 DEF Submits, PulseTypeOK
  <2>4. QED
    BY <2>1, <2>2, <2>3 DEF ResumeInv
<1>10. CASE joins \/ inferenceStarts \/ (\E c \in Supported : startCapability(c)) \/ shutdown \/ stopAll
  <2>1. /\ UNCHANGED <<call, network, process>>
        /\ \/ phase = "joining" /\ phase' = "starting"
           \/ phase = "starting" /\ phase' \in {"starting", "fetching"}
           \/ phase' \in {"stopping", "leaving"}
    BY <1>10
    DEF joins, inferenceStarts, startCapability, shutdown, stopAll, pulseVars, clientVars
  <2>2. QED
    BY <2>1 DEF ResumeInv, Active, Submits
<1>11. CASE receives \/ publishes \/ challenges \/ attests \/ timers \/ minutePasses \/ UNCHANGED allVars
  <2>1. UNCHANGED <<vars, call, network, process, roundNumber, phase, resumed>>
    BY <1>11
    DEF receives, publishes, challenges, attests, timers, minutePasses, allVars, pulseVars, runnerVars,
        clientVars, nodeVars, processVars
  <2>2. QED
    BY <1>1, <1>2, <1>3, <2>1
<1>12. CASE exits \/ dies
  <2>1. /\ phase' = "down" /\ call' = [i \in CallIds |-> NoCall]
    BY <1>12 DEF exits, dies, Over, ClientStops
  <2>2. \A i \in CallIds : ~Active(i)'
    BY <2>1 DEF Active, NoCall, At, Reading, Sending
  <2>3. QED
    BY <2>1, <2>2 DEF ResumeInv
<1>13. QED
  BY <1>4, <1>5, <1>6, <1>7, <1>8, <1>9, <1>10, <1>11, <1>12 DEF NodeNext

\* ResumesWhereItStopped, however often the node dies, whatever its owner and
\* other nodes send, and whichever submission of an earlier process lands when.
THEOREM ResumesTheorem == NodeSpec => []ResumesWhereItStopped
<1>1. NodeInit => ResumeInv
  <2> SUFFICES ASSUME NodeInit PROVE ResumeInv
    OBVIOUS
  <2>1. NoCall.step = "none"
    BY DEF NoCall, At
  <2>2. \A i \in CallIds : ~Active(i)
    BY <2>1 DEF NodeInit, PulseInit, Active, Reading, Sending
  <2>3. QED
    BY <2>2 DEF NodeInit, ResumeInv
<1>2. /\ TypeOK /\ TypeOK' /\ CallInv /\ PhaseTypeOK /\ PulseTypeOK /\ ResumeInv
      /\ [NodeNext]_allVars
      => ResumeInv'
  BY ResumeStep
<1>3. ResumeInv => ResumesWhereItStopped
  BY DEF ResumeInv, ResumesWhereItStopped
<1>4. QED
  BY <1>1, <1>2, <1>3, NodeAlways, PTL DEF NodeSpec

-----------------------------------------------------------------------------
(***************************************************************************)
(* The Merkle tree.  Each loop is a CHOOSE of a function that satisfies    *)
(* its equation; there is one because it can be continued by one more      *)
(* iteration.                                                              *)
(***************************************************************************)
LEMMA LeastNumber ==
    ASSUME NEW Numbers \in SUBSET Nat, Numbers # {}
    PROVE  \E m \in Numbers : \A k \in 0 .. m - 1 : k \notin Numbers
<1> DEFINE Less == OpToRel(<, Nat)
<1>1. \A i, j \in Nat : i < j => <<i, j>> \in Less
  BY DEF OpToRel
<1>2. IsWellFoundedOn(Less, Nat)
  BY NatLessThanWellFounded
<1> HIDE DEF Less
<1>3. PICK m \in Numbers : \A k \in Numbers : <<k, m>> \notin Less
  BY <1>2, WFMin
<1>4. ASSUME NEW k \in 0 .. m - 1
      PROVE  k \notin Numbers
  <2>1. <<k, m>> \in Less
    BY <1>1
  <2>2. QED
    BY <1>3, <2>1
<1>5. QED
  BY <1>4

\* Induction, on a set instead of a predicate.
LEMMA UpTo ==
    ASSUME NEW n \in Nat, NEW Good, 0 \in Good,
           \A k \in 0 .. n - 1 : k \in Good => k + 1 \in Good
    PROVE  0 .. n \subseteq Good
<1> DEFINE Bad == {k \in 0 .. n : k \notin Good}
<1>1. SUFFICES ASSUME Bad # {} PROVE FALSE
  OBVIOUS
<1>2. Bad \in SUBSET Nat
  OBVIOUS
<1> HIDE DEF Bad
<1>3. PICK m \in Bad : \A k \in 0 .. m - 1 : k \notin Bad
  BY <1>1, <1>2, LeastNumber
<1>4. m \in 1 .. n /\ m \notin Good
  BY <1>3 DEF Bad
<1>5. m - 1 \in Good
  BY <1>3, <1>4 DEF Bad
<1>6. QED
  BY <1>4, <1>5

IterateLevels(g, leaves, n) ==
    g = [k \in 0 .. n |-> IF k = 0 THEN leaves ELSE NextLevel(g[k - 1])]

LEMMA LevelsIterate ==
    ASSUME NEW n \in Nat
    PROVE  IterateLevels(levels(n), [i \in 1 .. n |-> RowHash(i - 1)], n)
<1> DEFINE leaves == [i \in 1 .. n |-> RowHash(i - 1)]
           Good   == {k \in 0 .. n : \E g : IterateLevels(g, leaves, k)}
<1>1. levels(n) = CHOOSE g : IterateLevels(g, leaves, n)
  BY DEF levels, IterateLevels
<1> HIDE DEF leaves
<1>2. 0 \in Good
  <2> DEFINE g == [k \in 0 .. 0 |-> leaves]
  <2>1. g = [k \in 0 .. 0 |-> IF k = 0 THEN leaves ELSE NextLevel(g[k - 1])]
    OBVIOUS
  <2> HIDE DEF g
  <2>2. IterateLevels(g, leaves, 0)
    BY <2>1 DEF IterateLevels
  <2>3. QED
    BY <2>2
<1>3. ASSUME NEW k \in 0 .. n - 1, k \in Good
      PROVE  k + 1 \in Good
  <2>1. PICK g : g = [j \in 0 .. k |-> IF j = 0 THEN leaves ELSE NextLevel(g[j - 1])]
    BY <1>3 DEF IterateLevels
  <2> DEFINE h == [j \in 0 .. k + 1 |-> IF j = 0 THEN leaves ELSE NextLevel(g[j - 1])]
  <2>2. \A j \in 0 .. k + 1 : j # 0 => h[j - 1] = g[j - 1]
    BY <2>1
  <2>3. h = [j \in 0 .. k + 1 |-> IF j = 0 THEN leaves ELSE NextLevel(h[j - 1])]
    BY <2>2
  <2> HIDE DEF h
  <2>4. QED
    BY <2>3 DEF IterateLevels
<1>4. \E g : IterateLevels(g, leaves, n)
  <2>1. 0 .. n \subseteq Good
    <3> HIDE DEF Good
    <3>1. QED
      BY <1>2, <1>3, UpTo
  <2>2. QED
    BY <2>1
<1>5. QED
  BY <1>1, <1>4 DEF leaves

IterateHalving(g, index, n) ==
    g = [k \in 0 .. n |-> IF k = 0 THEN index ELSE g[k - 1] \div 2]

LEMMA HalvingsIterate ==
    ASSUME NEW n \in Nat, NEW index
    PROVE  IterateHalving(halvings(index, n), index, n)
<1> DEFINE Good == {k \in 0 .. n : \E g : IterateHalving(g, index, k)}
<1>1. halvings(index, n) = CHOOSE g : IterateHalving(g, index, n)
  BY DEF halvings, IterateHalving
<1>2. 0 \in Good
  <2> DEFINE g == [k \in 0 .. 0 |-> index]
  <2>1. g = [k \in 0 .. 0 |-> IF k = 0 THEN index ELSE g[k - 1] \div 2]
    OBVIOUS
  <2> HIDE DEF g
  <2>2. IterateHalving(g, index, 0)
    BY <2>1 DEF IterateHalving
  <2>3. QED
    BY <2>2
<1>3. ASSUME NEW k \in 0 .. n - 1, k \in Good
      PROVE  k + 1 \in Good
  <2>1. PICK g : g = [j \in 0 .. k |-> IF j = 0 THEN index ELSE g[j - 1] \div 2]
    BY <1>3 DEF IterateHalving
  <2> DEFINE h == [j \in 0 .. k + 1 |-> IF j = 0 THEN index ELSE g[j - 1] \div 2]
  <2>2. \A j \in 0 .. k + 1 : j # 0 => h[j - 1] = g[j - 1]
    BY <2>1
  <2>3. h = [j \in 0 .. k + 1 |-> IF j = 0 THEN index ELSE h[j - 1] \div 2]
    BY <2>2
  <2> HIDE DEF h
  <2>4. QED
    BY <2>3 DEF IterateHalving
<1>4. \E g : IterateHalving(g, index, n)
  <2>1. 0 .. n \subseteq Good
    <3> HIDE DEF Good
    <3>1. QED
      BY <1>2, <1>3, UpTo
  <2>2. QED
    BY <2>1
<1>5. QED
  BY <1>1, <1>4

IterateClimb(g, leafHash, hashes, onRight, n) ==
    g = [k \in 0 .. n |->
           IF k = 0 THEN leafHash
           ELSE IF onRight[k] THEN PairHash(g[k - 1], hashes[k])
           ELSE PairHash(hashes[k], g[k - 1])]

LEMMA ClimbIterates ==
    ASSUME NEW leafHash, NEW hashes, NEW onRight, Len(hashes) \in Nat
    PROVE  \E g : /\ IterateClimb(g, leafHash, hashes, onRight, Len(hashes))
                  /\ climb(leafHash, hashes, onRight) = g[Len(hashes)]
<1> DEFINE n == Len(hashes)
           Good == {k \in 0 .. n : \E g : IterateClimb(g, leafHash, hashes, onRight, k)}
<1>1. climb(leafHash, hashes, onRight) =
        (CHOOSE g : IterateClimb(g, leafHash, hashes, onRight, n))[n]
  BY DEF climb, IterateClimb
<1> HIDE DEF n
<1>2. 0 \in Good
  <2> DEFINE g == [k \in 0 .. 0 |-> leafHash]
  <2>1. g = [k \in 0 .. 0 |->
               IF k = 0 THEN leafHash
               ELSE IF onRight[k] THEN PairHash(g[k - 1], hashes[k])
               ELSE PairHash(hashes[k], g[k - 1])]
    OBVIOUS
  <2> HIDE DEF g
  <2>2. IterateClimb(g, leafHash, hashes, onRight, 0)
    BY <2>1 DEF IterateClimb
  <2>3. 0 \in 0 .. n
    BY DEF n
  <2>4. QED
    BY <2>2, <2>3
<1>3. ASSUME NEW k \in 0 .. n - 1, k \in Good
      PROVE  k + 1 \in Good
  <2>1. PICK g : IterateClimb(g, leafHash, hashes, onRight, k)
    BY <1>3
  <2> DEFINE h == [j \in 0 .. k + 1 |->
                     IF j = 0 THEN leafHash
                     ELSE IF onRight[j] THEN PairHash(g[j - 1], hashes[j])
                     ELSE PairHash(hashes[j], g[j - 1])]
  <2>2. \A j \in 0 .. k + 1 : j # 0 => h[j - 1] = g[j - 1]
    BY <2>1 DEF IterateClimb
  <2>3. IterateClimb(h, leafHash, hashes, onRight, k + 1)
    BY <2>2 DEF IterateClimb
  <2>4. k + 1 \in 0 .. n
    BY DEF n
  <2>5. QED
    BY <2>3, <2>4
<1>4. \E g : IterateClimb(g, leafHash, hashes, onRight, n)
  <2>1. 0 .. n \subseteq Good
    <3>1. n \in Nat
      BY DEF n
    <3> HIDE DEF Good
    <3>2. QED
      BY <1>2, <1>3, <3>1, UpTo
  <2>2. n \in 0 .. n
    BY DEF n
  <2>3. QED
    BY <2>1, <2>2
<1>5. QED
  BY <1>1, <1>4 DEF n

\* A level is a list of hashes, however many.
IsLevel(s) == Len(s) \in Nat \ {0} /\ s = [i \in 1 .. Len(s) |-> s[i]]

LEMMA LenOfList ==
    ASSUME NEW m \in Nat, NEW s, s = [i \in 1 .. m |-> s[i]]
    PROVE  Len(s) = m
<1> DEFINE S == {s[i] : i \in 1 .. m}
<1>1. s \in Seq(S)
  <2>1. s \in [1 .. m -> S]
    <3>1. \A i \in 1 .. m : s[i] \in S
      OBVIOUS
    <3> HIDE DEF S
    <3>2. QED
      BY <3>1
  <2> HIDE DEF S
  <2>2. QED
    BY <2>1
<1> HIDE DEF S
<1>2. Len(s) \in Nat /\ DOMAIN s = 1 .. Len(s)
  BY <1>1, LenProperties
<1>3. DOMAIN s = 1 .. m
  OBVIOUS
<1>4. Len(s) <= m
  <2>1. Len(s) > m => Len(s) \in 1 .. Len(s) /\ Len(s) \notin 1 .. m
    BY <1>2
  <2>2. QED
    BY <1>2, <1>3, <2>1
<1>5. m <= Len(s)
  <2>1. m > Len(s) => m \in 1 .. m /\ m \notin 1 .. Len(s)
    BY <1>2
  <2>2. QED
    BY <1>2, <1>3, <2>1
<1>6. QED
  BY <1>2, <1>4, <1>5

LEMMA NextIsLevel ==
    ASSUME NEW s, IsLevel(s)
    PROVE  IsLevel(NextLevel(s)) /\ Len(NextLevel(s)) = (Len(s) + 1) \div 2
<1> DEFINE m == (Len(s) + 1) \div 2
           t == NextLevel(s)
<1>1. m \in Nat \ {0}
  BY DEF IsLevel
<1>2. t = [i \in 1 .. m |-> t[i]]
  <2> DEFINE e(i) == PairHash(s[2 * i - 1], IF 2 * i <= Len(s) THEN s[2 * i] ELSE s[2 * i - 1])
  <2>1. t = [i \in 1 .. m |-> e(i)]
    BY DEF NextLevel
  <2> HIDE DEF e, m, t
  <2>2. QED
    BY <2>1
<1> HIDE DEF m, t
<1>3. Len(t) = m
  BY <1>1, <1>2, LenOfList
<1>4. QED
  BY <1>1, <1>2, <1>3 DEF IsLevel, m, t

LEMMA LevelFacts ==
    ASSUME NEW n \in Nat \ {0}
    PROVE  /\ levels(n)[0] = [i \in 1 .. n |-> RowHash(i - 1)]
           /\ Len(levels(n)[0]) = n
           /\ \A k \in 0 .. n - 1 : levels(n)[k + 1] = NextLevel(levels(n)[k])
           /\ \A k \in 0 .. n : IsLevel(levels(n)[k])
<1> DEFINE leaves == [i \in 1 .. n |-> RowHash(i - 1)]
           current == levels(n)
<1>1. current = [k \in 0 .. n |-> IF k = 0 THEN leaves ELSE NextLevel(current[k - 1])]
  BY LevelsIterate DEF IterateLevels
<1>2. leaves = [i \in 1 .. n |-> leaves[i]]
  OBVIOUS
<1> HIDE DEF leaves, current
<1>3. Len(leaves) = n /\ IsLevel(leaves)
  BY <1>2, LenOfList DEF IsLevel
<1>4. current[0] = leaves
  BY <1>1
<1>5. \A k \in 0 .. n - 1 : current[k + 1] = NextLevel(current[k])
  <2> SUFFICES ASSUME NEW k \in 0 .. n - 1
               PROVE  current[k + 1] = NextLevel(current[k])
    OBVIOUS
  <2>1. k + 1 \in 0 .. n /\ k + 1 # 0 /\ (k + 1) - 1 = k
    OBVIOUS
  <2>2. QED
    BY <1>1, <2>1
<1>6. 0 .. n \subseteq {k \in 0 .. n : IsLevel(current[k])}
  <2> DEFINE Good == {k \in 0 .. n : IsLevel(current[k])}
  <2>1. 0 \in Good
    BY <1>3, <1>4
  <2>2. \A k \in 0 .. n - 1 : k \in Good => k + 1 \in Good
    BY <1>5, NextIsLevel
  <2> HIDE DEF Good
  <2>3. 0 .. n \subseteq Good
    BY <2>1, <2>2, UpTo
  <2>4. QED
    BY <2>3 DEF Good
<1>7. QED
  BY <1>3, <1>4, <1>5, <1>6 DEF leaves, current

\* The loop ends: a level of more than one hash is longer than the next.
LEMMA LevelsEnd ==
    ASSUME NEW n \in Nat \ {0}
    PROVE  LevelsOf(n) \in 0 .. n /\ Len(levels(n)[LevelsOf(n)]) = 1
<1> DEFINE width(k) == Len(levels(n)[k])
           Ends     == {k \in 0 .. n : width(k) <= 1}
           Good     == {k \in 0 .. n : width(k) <= 1 \/ width(k) + k <= n}
<1>1. /\ width(0) = n
      /\ \A k \in 0 .. n : width(k) \in Nat \ {0}
      /\ \A k \in 0 .. n - 1 : width(k + 1) = (width(k) + 1) \div 2
  <2>1. \A k \in 0 .. n : IsLevel(levels(n)[k])
    BY LevelFacts
  <2>2. ASSUME NEW k \in 0 .. n - 1
        PROVE  width(k + 1) = (width(k) + 1) \div 2
    <3>1. levels(n)[k + 1] = NextLevel(levels(n)[k])
      BY LevelFacts
    <3>2. IsLevel(levels(n)[k])
      BY <2>1
    <3>3. QED
      BY <3>1, <3>2, NextIsLevel
  <2>3. QED
    BY <2>1, <2>2, LevelFacts DEF IsLevel
<1>2. LevelsOf(n) = CHOOSE k \in 0 .. n : width(k) <= 1 /\ \A j \in 0 .. k - 1 : width(j) > 1
  BY DEF LevelsOf
<1> HIDE DEF width
<1>3. 0 .. n \subseteq Good
  <2>1. 0 \in Good
    BY <1>1
  <2>2. ASSUME NEW k \in 0 .. n - 1, k \in Good
        PROVE  k + 1 \in Good
    <3>1. /\ width(k) \in Nat \ {0} /\ width(k + 1) = (width(k) + 1) \div 2
          /\ (width(k) <= 1 \/ width(k) + k <= n)
      BY <1>1, <2>2
    <3>2. width(k + 1) <= 1 \/ width(k + 1) + (k + 1) <= n
      BY <3>1
    <3>3. QED
      BY <3>2
  <2> HIDE DEF Good
  <2>3. QED
    BY <2>1, <2>2, UpTo
<1>4. n \in Ends
  BY <1>1, <1>3
<1>5. PICK m \in Ends : \A j \in 0 .. m - 1 : j \notin Ends
  <2>1. Ends \in SUBSET Nat /\ Ends # {}
    BY <1>4
  <2> HIDE DEF Ends
  <2>2. QED
    BY <2>1, LeastNumber
<1>6. m \in 0 .. n /\ width(m) <= 1 /\ \A j \in 0 .. m - 1 : width(j) > 1
  BY <1>1, <1>5
<1>7. LevelsOf(n) \in 0 .. n /\ width(LevelsOf(n)) <= 1
  <2> DEFINE Last(k) == width(k) <= 1 /\ \A j \in 0 .. k - 1 : width(j) > 1
  <2>1. LevelsOf(n) = CHOOSE k \in 0 .. n : Last(k)
    BY <1>2
  <2>2. \E k \in 0 .. n : Last(k)
    BY <1>6
  <2> HIDE DEF Last
  <2>3. LevelsOf(n) \in 0 .. n /\ Last(LevelsOf(n))
    BY <2>1, <2>2
  <2>4. QED
    BY <2>3 DEF Last
<1>8. width(LevelsOf(n)) = 1
  <2>1. width(LevelsOf(n)) \in Nat \ {0}
    BY <1>1, <1>7, Zenon
  <2>2. QED
    BY <1>7, <2>1
<1>9. QED
  BY <1>7, <1>8 DEF width

LEMMA HalvingsFacts ==
    ASSUME NEW n \in Nat, NEW index \in Nat
    PROVE  /\ halvings(index, n)[0] = index
           /\ \A k \in 0 .. n - 1 : halvings(index, n)[k + 1] = halvings(index, n)[k] \div 2
<1> DEFINE idx == halvings(index, n)
<1>1. idx = [k \in 0 .. n |-> IF k = 0 THEN index ELSE idx[k - 1] \div 2]
  BY HalvingsIterate DEF IterateHalving
<1> HIDE DEF idx
<1>2. idx[0] = index
  BY <1>1
<1>3. ASSUME NEW k \in 0 .. n - 1
      PROVE  idx[k + 1] = idx[k] \div 2
  <2>1. k + 1 \in 0 .. n /\ k + 1 # 0 /\ (k + 1) - 1 = k
    OBVIOUS
  <2>2. QED
    BY <1>1, <2>1
<1>4. QED
  BY <1>2, <1>3 DEF idx

\* The index at a level does not depend on how many there are.
LEMMA HalvingsAgree ==
    ASSUME NEW n \in Nat, NEW m \in 0 .. n, NEW index \in Nat
    PROVE  \A k \in 0 .. m : halvings(index, m)[k] = halvings(index, n)[k]
<1> DEFINE f == halvings(index, m)
           g == halvings(index, n)
           Good == {k \in 0 .. m : f[k] = g[k]}
<1>1. /\ f[0] = index /\ \A k \in 0 .. m - 1 : f[k + 1] = f[k] \div 2
      /\ g[0] = index /\ \A k \in 0 .. n - 1 : g[k + 1] = g[k] \div 2
  BY HalvingsFacts
<1> HIDE DEF f, g
<1>2. 0 \in Good
  BY <1>1
<1>3. ASSUME NEW k \in 0 .. m - 1, k \in Good
      PROVE  k + 1 \in Good
  <2>1. f[k + 1] = f[k] \div 2 /\ g[k + 1] = g[k] \div 2
    BY <1>1
  <2>2. QED
    BY <1>3, <2>1
<1>4. 0 .. m \subseteq Good
  <2> HIDE DEF Good
  <2>1. QED
    BY <1>2, <1>3, UpTo
<1>5. QED
  BY <1>4 DEF f, g

\* g are the hashes on the way.
Climbing(g, leafHash, hashes, onRight) ==
    /\ g[0] = leafHash
    /\ \A k \in 0 .. Len(hashes) - 1 :
          g[k + 1] = IF onRight[k + 1] THEN PairHash(g[k], hashes[k + 1])
                     ELSE PairHash(hashes[k + 1], g[k])
    /\ climb(leafHash, hashes, onRight) = g[Len(hashes)]

LEMMA ClimbFacts ==
    ASSUME NEW leafHash, NEW hashes, NEW onRight, Len(hashes) \in Nat
    PROVE  \E g : Climbing(g, leafHash, hashes, onRight)
<1> DEFINE n == Len(hashes)
<1>1. PICK g : /\ IterateClimb(g, leafHash, hashes, onRight, n)
               /\ climb(leafHash, hashes, onRight) = g[n]
  BY ClimbIterates
<1> HIDE DEF n
<1>2. n \in Nat
  BY DEF n
<1>3. g[0] = leafHash
  BY <1>1, <1>2 DEF IterateClimb
<1>4. ASSUME NEW k \in 0 .. n - 1
      PROVE  g[k + 1] = IF onRight[k + 1] THEN PairHash(g[k], hashes[k + 1])
                        ELSE PairHash(hashes[k + 1], g[k])
  <2>1. k + 1 \in 0 .. n /\ k + 1 # 0 /\ (k + 1) - 1 = k
    BY <1>2
  <2>2. QED
    BY <1>1, <2>1 DEF IterateClimb
<1>5. QED
  BY <1>1, <1>3, <1>4 DEF n, Climbing

\* What merkleProof takes for the sibling of hash x of a level.
SiblingHash(s, x) ==
    LET sibling == IF x % 2 = 1 THEN x - 1 ELSE x + 1
    IN  IF sibling < Len(s) THEN s[sibling + 1] ELSE s[x + 1]

\* The pair of a hash and its sibling is the hash above both.
LEMMA PairAbove ==
    ASSUME NEW s, IsLevel(s), NEW x \in 0 .. Len(s) - 1
    PROVE  /\ x \div 2 \in 0 .. Len(NextLevel(s)) - 1
           /\ NextLevel(s)[x \div 2 + 1] =
                IF x % 2 = 0 THEN PairHash(s[x + 1], SiblingHash(s, x))
                ELSE PairHash(SiblingHash(s, x), s[x + 1])
<1> DEFINE n == Len(s)
           j == x \div 2 + 1
<1>1. n \in Nat \ {0}
  BY DEF IsLevel
<1>2. j \in 1 .. (n + 1) \div 2
  BY <1>1
<1>3. x \div 2 \in 0 .. Len(NextLevel(s)) - 1
  BY <1>1, <1>2, NextIsLevel
<1>4. NextLevel(s)[j] = PairHash(s[2 * j - 1], IF 2 * j <= n THEN s[2 * j] ELSE s[2 * j - 1])
  BY <1>2 DEF NextLevel
<1>5. CASE x % 2 = 0
  <2>1. 2 * j - 1 = x + 1 /\ 2 * j = x + 2
    BY <1>5
  <2>2. SiblingHash(s, x) = IF x + 1 < n THEN s[x + 2] ELSE s[x + 1]
    BY <1>5 DEF SiblingHash
  <2>3. x + 2 <= n <=> x + 1 < n
    BY <1>1
  <2> HIDE DEF j, n
  <2>4. NextLevel(s)[j] = PairHash(s[x + 1], IF x + 1 < n THEN s[x + 2] ELSE s[x + 1])
    BY <1>4, <2>1, <2>3
  <2>5. QED
    BY <1>3, <1>5, <2>2, <2>4 DEF j
<1>6. CASE x % 2 # 0
  <2>1. 2 * j - 1 = x /\ 2 * j = x + 1 /\ x % 2 = 1
    BY <1>6
  <2>2. SiblingHash(s, x) = s[x]
    <3>1. x - 1 < n /\ (x - 1) + 1 = x
      BY <1>1
    <3>2. QED
      BY <2>1, <3>1 DEF SiblingHash
  <2>3. x + 1 <= n
    BY <1>1
  <2> HIDE DEF j, n
  <2>4. NextLevel(s)[j] = PairHash(s[x], s[x + 1])
    BY <1>4, <2>1, <2>3
  <2>5. QED
    BY <1>3, <1>6, <2>2, <2>4 DEF j
<1>7. QED
  BY <1>5, <1>6

\* hashes and onRight are the siblings and the sides of a row on its way up.
OnTheWay(n, row, hashes, onRight) ==
    /\ Len(hashes) = LevelsOf(n)
    /\ \A k \in 0 .. LevelsOf(n) - 1 :
          LET idx == halvings(row, n)[k]
          IN  /\ hashes[k + 1] = SiblingHash(levels(n)[k], idx)
              /\ onRight[k + 1] = (idx % 2 = 0)

\* The hash of the row climbs along its ancestors, and that of another row
\* beside them, since pairs with one hash in common differ in the other.
LEMMA ClimbsToRoot ==
    ASSUME NEW n \in Nat \ {0}, NEW row \in 0 .. n - 1, NEW other \in 0 .. n - 1,
           NEW hashes, NEW onRight, OnTheWay(n, row, hashes, onRight)
    PROVE  levels(n)[LevelsOf(n)][1] = climb(RowHash(other), hashes, onRight) <=> other = row
<1> DEFINE last == LevelsOf(n)
           idx == halvings(row, n)
           current == levels(n)
           above(k) == current[k][idx[k] + 1]
<1>1. last \in 0 .. n /\ Len(current[last]) = 1 /\ Len(hashes) = last
  BY LevelsEnd DEF OnTheWay
<1>2. idx[0] = row /\ \A k \in 0 .. n - 1 : idx[k + 1] = idx[k] \div 2
  BY HalvingsFacts
<1>3. /\ current[0] = [i \in 1 .. n |-> RowHash(i - 1)] /\ Len(current[0]) = n
      /\ \A k \in 0 .. n - 1 : current[k + 1] = NextLevel(current[k])
      /\ \A k \in 0 .. n : IsLevel(current[k])
  BY LevelFacts
<1>4. \A k \in 0 .. last - 1 : /\ hashes[k + 1] = SiblingHash(current[k], idx[k])
                               /\ onRight[k + 1] = (idx[k] % 2 = 0)
  BY DEF OnTheWay
<1>5. PICK g : Climbing(g, RowHash(other), hashes, onRight)
  BY <1>1, ClimbFacts
<1>6. /\ g[0] = RowHash(other)
      /\ \A k \in 0 .. last - 1 :
            g[k + 1] = IF onRight[k + 1] THEN PairHash(g[k], hashes[k + 1])
                       ELSE PairHash(hashes[k + 1], g[k])
      /\ climb(RowHash(other), hashes, onRight) = g[last]
  BY <1>1, <1>5 DEF Climbing
<1> HIDE DEF last, idx, current
<1>7. 0 .. last \subseteq {k \in 0 .. last : /\ idx[k] \in 0 .. Len(current[k]) - 1
                                             /\ g[k] = above(k) <=> other = row}
  <2> DEFINE Good == {k \in 0 .. last : /\ idx[k] \in 0 .. Len(current[k]) - 1
                                        /\ g[k] = above(k) <=> other = row}
  <2>1. 0 \in Good
    <3>1. above(0) = RowHash(row)
      BY <1>2, <1>3
    <3>2. RowHash(other) = RowHash(row) <=> other = row
      BY DEF RowHash
    <3> HIDE DEF above
    <3>3. QED
      BY <1>1, <1>2, <1>3, <1>6, <3>1, <3>2
  <2>2. ASSUME NEW k \in 0 .. last - 1, k \in Good
        PROVE  k + 1 \in Good
    <3> DEFINE s == current[k]
               x == idx[k]
               sibling == SiblingHash(s, x)
    <3>1. k \in 0 .. n - 1 /\ k \in 0 .. n
      BY <1>1
    <3>2. IsLevel(s) /\ x \in 0 .. Len(s) - 1 /\ (g[k] = s[x + 1] <=> other = row)
      BY <1>3, <2>2, <3>1
    <3>3. current[k + 1] = NextLevel(s) /\ idx[k + 1] = x \div 2
      BY <1>2, <1>3, <3>1
    <3>4. g[k + 1] = IF x % 2 = 0 THEN PairHash(g[k], sibling) ELSE PairHash(sibling, g[k])
      BY <1>4, <1>6
    <3> HIDE DEF s, x, sibling
    <3>5. /\ x \div 2 \in 0 .. Len(NextLevel(s)) - 1
          /\ NextLevel(s)[x \div 2 + 1] =
               IF x % 2 = 0 THEN PairHash(s[x + 1], sibling) ELSE PairHash(sibling, s[x + 1])
      BY <3>2, PairAbove DEF sibling
    <3>6. above(k + 1) =
            IF x % 2 = 0 THEN PairHash(s[x + 1], sibling) ELSE PairHash(sibling, s[x + 1])
      BY <3>3, <3>5
    <3> HIDE DEF above
    <3>7. g[k + 1] = above(k + 1) <=> g[k] = s[x + 1]
      BY <3>4, <3>6 DEF PairHash
    <3>8. idx[k + 1] \in 0 .. Len(current[k + 1]) - 1
      BY <3>3, <3>5
    <3>9. QED
      BY <1>1, <3>2, <3>7, <3>8
  <2> HIDE DEF Good
  <2>3. 0 .. last \subseteq Good
    BY <1>1, <2>1, <2>2, UpTo
  <2>4. QED
    BY <2>3 DEF Good
<1>8. idx[last] = 0 /\ (g[last] = above(last) <=> other = row)
  <2>1. last \in 0 .. last
    BY <1>1
  <2>2. idx[last] \in 0 .. Len(current[last]) - 1 /\ (g[last] = above(last) <=> other = row)
    <3> HIDE DEF above
    <3>1. QED
      BY <1>7, <2>1
  <2>3. QED
    BY <1>1, <2>2
<1>9. current[last][1] = g[last] <=> other = row
  BY <1>8
<1>10. QED
  BY <1>6, <1>9 DEF last, current

\* Both verifiers accept what merkleProof gives for a row of a matrix of any
\* size, and accept it for no other row.
LEMMA ProofsVerify ==
    ASSUME NEW n \in Nat \ {0}, NEW row \in 0 .. n - 1, NEW other \in 0 .. n - 1
    PROVE  LET built  == buildMerkleTree(n)
               proof  == merkleProof(built, row)
               hashes == [k \in 1 .. Len(proof) |-> proof[k].hash]
           IN  /\ verifyMerkleProof(RowHash(other), proof, Root(built)) <=> other = row
               /\ verify_merkle_proof(RowHash(other), hashes, Root(built), row) <=> other = row
<1> DEFINE built   == buildMerkleTree(n)
           proof   == merkleProof(built, row)
           hashes  == [k \in 1 .. Len(proof) |-> proof[k].hash]
           rights  == [k \in 1 .. Len(proof) |-> proof[k].isRight]
           evens   == [k \in 1 .. Len(hashes) |-> halvings(row, Len(hashes))[k - 1] % 2 = 0]
           last    == LevelsOf(n)
<1>1. last \in 0 .. n /\ Len(levels(n)[last]) = 1
  BY LevelsEnd
<1>2. built = [k \in 1 .. last + 1 |-> levels(n)[k - 1]]
  BY DEF buildMerkleTree
<1>3. Len(built) = last + 1 /\ Root(built) = levels(n)[last][1]
  <2> HIDE DEF built, last
  <2>1. built = [k \in 1 .. last + 1 |-> built[k]]
    BY <1>2
  <2>2. Len(built) = last + 1
    BY <1>1, <2>1, LenOfList
  <2>3. QED
    BY <1>1, <1>2, <2>2 DEF Root
<1> HIDE DEF built, last
<1> DEFINE Step(k) == [hash |-> SiblingHash(built[k], halvings(row, Len(built))[k - 1]),
                       isRight |-> halvings(row, Len(built))[k - 1] % 2 = 0]
<1>4. proof = [k \in 1 .. last |-> Step(k)]
  <2>1. Len(built) - 1 = last
    BY <1>1, <1>3
  <2>2. proof = [k \in 1 .. Len(built) - 1 |-> Step(k)]
    BY DEF merkleProof, SiblingHash
  <2>3. QED
    BY <2>1, <2>2
<1> HIDE DEF proof
<1>5. Len(proof) = last
  <2>1. proof = [k \in 1 .. last |-> proof[k]]
    <3> HIDE DEF Step
    <3>1. QED
      BY <1>4
  <2>2. QED
    BY <1>1, <2>1, LenOfList
<1>6. Len(hashes) = last
  <2>1. hashes = [k \in 1 .. last |-> hashes[k]]
    BY <1>5
  <2> HIDE DEF hashes
  <2>2. QED
    BY <1>1, <2>1, LenOfList
<1>7. ASSUME NEW k \in 0 .. last - 1
      PROVE  LET idx == halvings(row, n)[k]
             IN  /\ hashes[k + 1] = SiblingHash(levels(n)[k], idx)
                 /\ rights[k + 1] = (idx % 2 = 0)
                 /\ evens[k + 1] = (idx % 2 = 0)
  <2> DEFINE idx == halvings(row, n)[k]
  <2>1. k + 1 \in 1 .. last /\ k + 1 \in 1 .. last + 1 /\ (k + 1) - 1 = k
    BY <1>1
  <2>2. halvings(row, last + 1)[k] = halvings(row, last)[k] /\ halvings(row, last)[k] = idx
    <3>1. k \in 0 .. last
      BY <1>1
    <3>2. halvings(row, last)[k] = halvings(row, n)[k]
      BY <1>1, <3>1, HalvingsAgree
    <3>3. last + 1 \in Nat /\ last \in 0 .. last + 1
      BY <1>1
    <3>4. halvings(row, last)[k] = halvings(row, last + 1)[k]
      BY <3>1, <3>3, HalvingsAgree
    <3>5. QED
      BY <3>2, <3>4
  <2>3. proof[k + 1] = Step(k + 1)
    <3> HIDE DEF Step
    <3>1. QED
      BY <1>4, <2>1
  <2>4. built[k + 1] = levels(n)[k]
    BY <1>2, <2>1
  <2>5. /\ proof[k + 1].hash = SiblingHash(levels(n)[k], idx)
        /\ proof[k + 1].isRight = (idx % 2 = 0)
    BY <1>3, <2>1, <2>2, <2>3, <2>4
  <2>6. hashes[k + 1] = proof[k + 1].hash /\ rights[k + 1] = proof[k + 1].isRight
    BY <1>5, <2>1
  <2>7. evens[k + 1] = (idx % 2 = 0)
    <3> HIDE DEF hashes, idx
    <3>1. QED
      BY <1>6, <2>1, <2>2
  <2>8. QED
    BY <2>5, <2>6, <2>7
<1> HIDE DEF hashes, rights, evens
<1>8. OnTheWay(n, row, hashes, rights) /\ OnTheWay(n, row, hashes, evens)
  BY <1>6, <1>7 DEF OnTheWay, last
<1>9. /\ Root(built) = climb(RowHash(other), hashes, rights) <=> other = row
      /\ Root(built) = climb(RowHash(other), hashes, evens) <=> other = row
  BY <1>3, <1>8, ClimbsToRoot DEF last
<1>10. /\ verifyMerkleProof(RowHash(other), proof, Root(built)) <=> other = row
       /\ verify_merkle_proof(RowHash(other), hashes, Root(built), row) <=> other = row
  BY <1>9 DEF verifyMerkleProof, verify_merkle_proof, hashes, rights, evens
<1>11. QED
  BY <1>10 DEF hashes, proof, built

ProofsInv == \A p \in proofs : \E i \in Matrix : p = Proof(i)

\* Only a round reveals proofs.
LEMMA ProofsStep ==
    ASSUME [NodeNext]_allVars
    PROVE  \/ proofs' = proofs
           \/ proofs' = {}
           \/ \E r \in Rounds : proofs' = {Proof(i) : i \in selectChallengeRows[r]}
<1>1. ASSUME NEW configured, NEW from, runRound(configured, from)
      PROVE  \E r \in Rounds : proofs' = {Proof(i) : i \in selectChallengeRows[r]}
  BY <1>1 DEF runRound
<1>2. CASE landing \/ fails \/ \E i \in CallIds : answers(i)
  BY <1>2 DEF landing, lands, fails, throws, expires, answers, read, send, runnerVars
<1>3. CASE \/ \E k \in StakeTicks : stakeTick(k)
           \/ world
  BY <1>3 DEF stakeTick, autoStake, world, ownerSends, othersAct, runnerVars, pulseVars
<1>4. CASE pulse
  BY <1>1, <1>4 DEF pulse
<1>5. ASSUME NEW known \in BOOLEAN, goesLive(known)
      PROVE  \/ proofs' = proofs
             \/ \E r \in Rounds : proofs' = {Proof(i) : i \in selectChallengeRows[r]}
  BY <1>1, <1>5 DEF goesLive, Runs
<1>6. CASE boots \/ diesWritingIdentity
  BY <1>6 DEF boots, diesWritingIdentity, runnerVars
<1>7. CASE \/ joins \/ inferenceStarts
           \/ \E c \in Supported : startCapability(c)
           \/ receives \/ publishes \/ challenges \/ attests \/ timers \/ minutePasses
           \/ shutdown \/ stopAll
           \/ UNCHANGED allVars
  BY <1>7
  DEF joins, inferenceStarts, startCapability, receives, publishes, challenges, attests, timers,
      minutePasses, shutdown, stopAll, allVars, pulseVars, runnerVars
<1>8. CASE exits \/ dies
  BY <1>8 DEF exits, dies, Over, ClientStops
<1>9. QED
  BY <1>2, <1>3, <1>4, <1>5, <1>6, <1>7, <1>8 DEF NodeNext

\* RoundProofsAccepted for a matrix of any size, even or odd at any level, and
\* any choice of its challenged rows.
THEOREM RoundProofsTheorem == NodeSpec => []RoundProofsAccepted
<1>1. NodeInit => ProofsInv
  BY DEF NodeInit, PulseInit, ProofsInv
<1>2. ProofsInv /\ [NodeNext]_allVars => ProofsInv'
  <2> SUFFICES ASSUME ProofsInv, [NodeNext]_allVars, NEW p \in proofs'
               PROVE  \E i \in Matrix : p = Proof(i)'
    BY DEF ProofsInv
  <2>1. \A i : Proof(i)' = Proof(i)
    BY DEF Proof, tree
  <2>2. CASE p \in proofs
    BY <2>1, <2>2 DEF ProofsInv
  <2>3. CASE p \notin proofs
    <3>1. PICK r \in Rounds : p \in {Proof(i) : i \in selectChallengeRows[r]}
      BY <2>3, ProofsStep
    <3>2. selectChallengeRows[r] \subseteq Matrix
      BY ClientAssumption DEF ClientAssumption
    <3>3. QED
      BY <2>1, <3>1, <3>2
  <2>4. QED
    BY <2>2, <2>3
<1>3. ProofsInv => RoundProofsAccepted
  <2> SUFFICES ASSUME NEW row \in Matrix, NEW i \in Matrix
               PROVE  LET p == Proof(row)
                          hashes == [k \in 1 .. Len(p.proof) |-> p.proof[k].hash]
                      IN  /\ verifyMerkleProof(RowHash(i), p.proof, Root(tree)) <=> i = p.rowIdx
                          /\ verify_merkle_proof(RowHash(i), hashes, Root(tree), p.rowIdx)
                               <=> i = p.rowIdx
    BY DEF ProofsInv, RoundProofsAccepted
  <2>1. Proof(row).rowIdx = row /\ Proof(row).proof = merkleProof(tree, row)
    BY DEF Proof
  <2>2. MATRIX_SIZE \in Nat \ {0} /\ row \in 0 .. MATRIX_SIZE - 1 /\ i \in 0 .. MATRIX_SIZE - 1
    BY ClientAssumption DEF ClientAssumption, Matrix
  <2> DEFINE proof  == merkleProof(tree, row)
             hashes == [k \in 1 .. Len(proof) |-> proof[k].hash]
  <2>3. /\ verifyMerkleProof(RowHash(i), proof, Root(tree)) <=> i = row
        /\ verify_merkle_proof(RowHash(i), hashes, Root(tree), row) <=> i = row
    BY <2>2, ProofsVerify DEF tree
  <2> HIDE DEF proof
  <2>4. Proof(row).rowIdx = row /\ Proof(row).proof = proof
    BY <2>1 DEF proof
  <2>5. QED
    BY <2>3, <2>4
<1>4. QED
  BY <1>1, <1>2, <1>3, PTL DEF NodeSpec

=============================================================================
