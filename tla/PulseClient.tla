---------------------------- MODULE PulseClient ----------------------------
(***************************************************************************)
(* What one node does with the on-chain program: the PulseRunner           *)
(* (src/pulse/verification.js), the submission of a proof for each of its  *)
(* rounds and the auto-stake loop (mintReward and the interval in          *)
(* src/main.js), and the client (tokens/client/submit-proof.js), together  *)
(* with the program itself (module AgiRewards).                            *)
(*                                                                         *)
(* The client awaits every request to the RPC node, and any may fail.      *)
(* sendTransaction simulates a transaction first and rejects it if the     *)
(* program would; the transaction then lands later, when the program may   *)
(* refuse it after all, or expires.  confirmTransaction returns when it    *)
(* has landed, refused or not, and throws when it expires or takes too     *)
(* long.  A call that throws is over; nothing is tried again.              *)
(*                                                                         *)
(* Calls are named by a number: the round of a submission, or one of       *)
(* StakeTicks, the ticks of the auto-stake interval, which do not wait for *)
(* one another.                                                            *)
(***************************************************************************)
EXTENDS AgiRewards, MerkleTree

CONSTANTS
    me,             \* this node, one of Nodes
    StakeTicks,     \* numbers of auto-stake ticks that may be under way at once
    OwnerCalls,     \* what the owner sends besides the node: the kind of the
                    \* transaction and its amount, round or type
    MATRIX_SIZE,    \* verification.js
    selectChallengeRows \* selectChallengeRows[r]: the rows challenged in round r

Matrix == 0 .. MATRIX_SIZE - 1

ASSUME ClientAssumption ==
    /\ me \in Nodes
    /\ StakeTicks \subseteq Nat \ Rounds
    /\ 0 \notin Rounds \cup StakeTicks
    /\ MATRIX_SIZE \in Nat \ {0}
    /\ selectChallengeRows \in [Rounds -> SUBSET Matrix]

ASSUME OwnerAssumption ==
    \A c \in OwnerCalls :
        /\ c.kind \in {"stake", "request_unstake", "withdraw_unstake",
                       "update_capabilities", "heartbeat", "report_violation"}
        /\ c.amount \in Nat

VARIABLES
    roundNumber,    \* this.roundNumber of the PulseRunner
    proofs,         \* the rows proved in the last round, each with its proof
    process,        \* how often the node has been started
    call,           \* how far each call has got
    network,        \* transactions sent that have not landed
    faults          \* bound: requests and transactions that may yet fail

runnerVars == <<roundNumber, proofs>>
clientVars == <<process, call, network, faults>>
pulseVars == <<runnerVars, clientVars>>

CallIds == Rounds \cup StakeTicks

\* sent: the transaction of this step is sent, and awaited.
At(step, amount) == [step |-> step, sent |-> FALSE, amount |-> amount]
NoCall == At("none", 0)

PulseInit ==
    /\ roundNumber = 0
    /\ proofs = {}
    /\ process = 0
    /\ call = [i \in CallIds |-> NoCall]
    /\ network = {}

(***************************************************************************)
(* The pulse runner.                                                       *)
(***************************************************************************)
tree == buildMerkleTree(MATRIX_SIZE)

Proof(i) == [rowIdx |-> i, proof |-> merkleProof(tree, i)]

Valid(p) == verifyMerkleProof(RowHash(p.rowIdx), p.proof, Root(tree))

\* The round after last.  The self-verification passes or there is no reward;
\* mintReward is called without the result of the round, and not awaited.
runRound(configured, last) ==
    LET r == last + 1
        revealed == {Proof(i) : i \in selectChallengeRows[r]}
    IN  /\ r \in Rounds
        /\ roundNumber' = r
        /\ proofs' = revealed
        /\ call' = [call EXCEPT ![r] =
                      IF configured /\ \A p \in revealed : Valid(p)
                      THEN At("program", 0) ELSE @]
        /\ UNCHANGED <<process, network, faults>>

(***************************************************************************)
(* Transactions.  Without a result mintReward submits a root, hashes and   *)
(* proofs that fit one another, so that the program finds the proof valid. *)
(***************************************************************************)
\* of: the process that sent it.
Tx(kind, i, amount) == [kind |-> kind, by |-> i, amount |-> amount, of |-> process]

submitPulseProof(round) ==
    \/ SubmitMaturationProof(me, round)
    \/ \E reward \in RewardOf[node[me].capabilities] : SubmitRewardedProof(me, round, reward)

registerNode == \E c \in Capabilities : register_node(me, c)
updateCapabilities == \E c \in Capabilities : update_capabilities(me, c)
reportViolation(type) == \E n \in Nodes \ {me} : report_violation(me, n, type)

\* The instruction of tx runs.  That of stakeTokens never does: it passes the
\* token account where the context Stake (contexts.rs) has the vault, and the
\* vault where it has the token account; a stake made with another tool may.
Executes(tx) ==
    \/ tx.kind = "initialize" /\ initialize(0)
    \/ tx.kind = "register_node" /\ registerNode
    \/ tx.kind = "submit_pulse_proof" /\ submitPulseProof(tx.by)
    \/ tx.kind = "stake" /\ tx.by \notin StakeTicks /\ stake(me, tx.amount)
    \/ tx.kind = "request_unstake" /\ request_unstake(me, tx.amount)
    \/ tx.kind = "withdraw_unstake" /\ withdraw_unstake(me)
    \/ tx.kind = "update_capabilities" /\ updateCapabilities
    \/ tx.kind = "heartbeat" /\ heartbeat(me, tx.amount)
    \/ tx.kind = "report_violation" /\ reportViolation(tx.amount)

\* The program would take it now (the simulation of sendTransaction).
Simulates(tx) == ENABLED Executes(tx)

\* Where a call goes once its transaction has landed.
Following(kind) ==
    CASE kind = "initialize" -> "account"
      [] kind = "register_node" -> "proof"
      [] OTHER -> "over"

\* The call that awaits tx goes on at step.
Released(tx, step) ==
    IF tx.by \in CallIds /\ tx.of = process /\ call[tx.by].sent /\ call[tx.by].step = tx.kind
    THEN [call EXCEPT ![tx.by] = At(step, 0)] ELSE call

lands(tx) ==
    /\ tx \in network
    /\ network' = network \ {tx}
    /\ call' = Released(tx, Following(tx.kind))
    /\ \/ Executes(tx)
       \/ ~Simulates(tx) /\ UNCHANGED vars
    /\ UNCHANGED <<runnerVars, process, faults>>

Fault == faults > 0 /\ faults' = faults - 1

expires(tx) ==
    /\ Fault
    /\ tx \in network
    /\ network' = network \ {tx}
    /\ call' = Released(tx, "over")
    /\ UNCHANGED <<vars, runnerVars, process>>

(***************************************************************************)
(* submitPulseProof with initializeProgram and registerNode, and the       *)
(* auto-stake interval: what a call does with the answer to a request.     *)
(***************************************************************************)
\* Mutation of AfterProgram: an initialized program knows this node.
AfterProgram_Known == IF program.initialized THEN "proof" ELSE "initialize"

AfterProgram == IF program.initialized THEN "account" ELSE "initialize"

WorthStaking(balance) == balance >= MIN_STAKE

Answer(i) ==
    CASE call[i].step = "program" -> At(AfterProgram, 0)
      [] call[i].step = "account" ->
           At(IF node[me].registered THEN "proof" ELSE "register_node", 0)
      [] call[i].step = "proof" ->
           At(IF pending[me][i].exists THEN "over" ELSE "submit_pulse_proof", 0)
      [] call[i].step = "staked" ->
           At(IF node[me].stake_amount >= MIN_STAKE THEN "over" ELSE "balance", 0)
      [] call[i].step = "balance" ->
           IF WorthStaking(wallet[me]) THEN At("stake", wallet[me]) ELSE At("over", 0)

Reading == {"program", "account", "proof", "staked", "balance"}
Sending == {"initialize", "register_node", "submit_pulse_proof", "stake"}

read(i) ==
    /\ call[i].step \in Reading
    /\ call' = [call EXCEPT ![i] = Answer(i)]
    /\ UNCHANGED <<vars, runnerVars, process, network, faults>>

send(i) ==
    LET tx == Tx(call[i].step, i, call[i].amount) IN
    /\ call[i].step \in Sending
    /\ ~call[i].sent
    /\ IF Simulates(tx)
       THEN /\ call' = [call EXCEPT ![i].sent = TRUE]
            /\ network' = network \cup {tx}
       ELSE call' = [call EXCEPT ![i] = At("over", 0)] /\ UNCHANGED network
    /\ UNCHANGED <<vars, runnerVars, process, faults>>

\* A request fails, or a confirmation takes too long.
throws(i) ==
    /\ Fault
    /\ call[i].step \in Reading \cup Sending
    /\ call' = [call EXCEPT ![i] = At("over", 0)]
    /\ UNCHANGED <<vars, runnerVars, process, network>>

\* A tick of the auto-stake interval begins.
autoStake(k) ==
    /\ call[k].step \in {"none", "over"}
    /\ call' = [call EXCEPT ![k] = At("staked", 0)]
    /\ UNCHANGED <<vars, runnerVars, process, network, faults>>

\* The owner calls one of the client's other functions from elsewhere, or
\* stakes with a tool of their own.
OwnerTx(c) == [kind |-> c.kind, by |-> 0, amount |-> c.amount, of |-> 0]

ownerSends(c) ==
    /\ Simulates(OwnerTx(c))
    /\ network' = network \cup {OwnerTx(c)}
    /\ UNCHANGED <<vars, runnerVars, process, call, faults>>

\* Other nodes initialize the program, register, and report this one.
othersAct ==
    /\ \/ initialize(0)
       \/ \E n \in Nodes \ {me}, c \in Capabilities : register_node(n, c)
       \/ \E n \in Nodes \ {me}, type \in ViolationTypes : report_violation(n, me, type)
    /\ UNCHANGED pulseVars

\* The process stops; what it has sent is under way.
ClientStops ==
    /\ roundNumber' = 0
    /\ proofs' = {}
    /\ call' = [i \in CallIds |-> NoCall]
    /\ UNCHANGED <<process, network, faults>>

\* fetchNodeAccount at the start of the node: the round to resume from.
LastClaimRound == IF node[me].registered THEN node[me].last_claim_round ELSE 0

(***************************************************************************)
(* Properties.                                                             *)
(***************************************************************************)
\* Types of the state.
PulseTypeOK ==
    /\ roundNumber \in Nat
    /\ \A p \in proofs : p.rowIdx \in Matrix
    /\ \A i \in CallIds :
          /\ call[i].step \in Reading \cup Sending \cup {"none", "over"}
          /\ call[i].sent => call[i].step \in Sending
    /\ process \in Nat
    /\ \A tx \in network : tx.by \in CallIds \cup {0} /\ tx.of \in 0 .. process

\* The proofs revealed in a round are accepted by the node, which takes the
\* sides from the proof, and by the program, which takes them from the row
\* index, whatever the size of the matrix; and for no other row (merkleProof,
\* with its duplicated last hash of an odd level, and both verifiers).
RoundProofsAccepted ==
    \A p \in proofs :
        LET hashes == [k \in 1 .. Len(p.proof) |-> p.proof[k].hash] IN
        \A i \in Matrix :
            /\ verifyMerkleProof(RowHash(i), p.proof, Root(tree)) <=> i = p.rowIdx
            /\ verify_merkle_proof(RowHash(i), hashes, Root(tree), p.rowIdx) <=> i = p.rowIdx

=============================================================================
