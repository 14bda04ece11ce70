# AGIeX: specification, model checking and proofs

TLA+ modules for AGIeX: the Solana program `agi_rewards` with the reputation
scores and the reward formula inside it, the governance council, the research
brain with its pipelines and leaderboards, and a node from its boot to its death
with its peer security, its pulse and its on-chain client. TLC checks the
configurations in this directory; TLAPS checks the modules whose names end in
`Proofs`.

Paths below are relative to the root of the repository.

## The system

An AGIeX node is one Node.js process (`src/main.js`) that talks to its peers
over libp2p GossipSub and to one Solana program.

| Part | State | Operations |
|---|---|---|
| `program/programs/agi-rewards` (on-chain program) | `ProgramState` (cap, minted, slashed, banned, round), one `NodeAccount` per owner, one `PendingProof` per node and round, one `ValidationRecord` per validator and proof, the stake vault, the mint | `initialize`, `register_node`, `stake`, `request_unstake`, `withdraw_unstake`, `update_capabilities`, `submit_pulse_proof`, `validate_peer`, `finalize_reward`, `report_violation`, `heartbeat`, `check_eligibility` (a query) |
| `src/governance/council.js` | proposals, council seats, active projects; `proposals/<id>.json`, `state.json` | `submitProposal`, `startReview`, `submitCouncilReview`, `castVote`, `tallyVotes`, `activateProject`, `sunsetProject`, `appointCouncilMember`, `handleGossip`, `loadState` |
| `src/crdt/leaderboard.js` | per domain a Yjs document with the best entry of each peer | `submit`, `getStateUpdate`, `applyUpdate`, `getTop` |
| `src/brain/agent.js` | pipelines, tick counter, leaderboards | `tick` (research or sync), `handleGossip`, `broadcastResult`, `syncLeaderboards` |
| `src/research/pipeline.js` | run number, best result, files of runs | `runCycle`: `generateHypothesis`, `runExperiment`, `generatePaper`, `critiquePaper`, `saveResult` |
| `src/p2p/security.js` | score, timings and message counts per peer, blocklist, pending challenges and attestations | `handleMessage`, `sendChallenge`, `handleChallengeResponse`, `requestAttestation`, `checkSybilPattern`, `adjustPeerScore`, `checkRateLimit` |
| `src/pulse/verification.js` | round number, timer | `runRound` (elect, compute, commit to a Merkle root, answer the challenge, verify), reward callback |
| `tokens/client/submit-proof.js` | none but the chain's | builds and sends the transactions |
| `src/main.js` | the wiring, the round counter, the auto-stake timer | start, shutdown |
| `src/p2p/node.js`, `src/identity.js`, `src/capabilities`, `src/inference` | connections, one key pair, probed hardware, none | wrappers and probes |

How they interact. A gossip message passes `security.handleMessage` (blocklist,
rate limit, challenge and attestation messages), `brain.handleGossip` and, on the
governance topic, `governance.handleGossip`. Every pulse round ends in the reward callback, which
sends `submit_pulse_proof` to the program; a timer stakes what the wallet holds
every five minutes. Shutdown stops the brain, the timer, security, the pulse,
the services and the connections, in this order. All handlers of a node share
one event loop, so that they interleave only at an `await`; the instructions of
the program are atomic transactions of many owners, in any order.

What is hard. On chain: two instructions of different owners that read the same
counters at different times (the cap at submission and at the mint, the votes
and the mint at the end of the window), slashes between a request and its
withdrawal, counters of eight bits, conditions latched by whichever call comes
first, a bootstrap in which stakes need tokens and tokens need stakes. In the
council: deadlines that only the next call looks at, writes that a crash tears,
memory and two kinds of files that are saved at different times. In a node:
ticks, rounds and callbacks that overlap at every `await`, results and documents
that arrive lost, repeated or out of order, timeouts that race late answers,
transactions that land after their process has died, checks on chain that are
stale when the transaction they guard is sent. `PROJECT.json` lists each hazard at
its line, with the properties aimed at it.

What makes each part correct:

* program: no token is minted without a quorum, beyond the cap, twice, too
  early or too often; the vault covers the stakes; punishment is bounded, and a
  ban is final;
* scores: they stay on their scales, faults do not pay, good standing is not
  punished;
* council: what is decided here is decided by the council and the community,
  and no restart, message or failed write undoes it (what other nodes decided
  is taken over as it comes);
* research: the best result that a restart can find, and the number of a run,
  survive overlapping runs, stops and restarts; a board shows the best a node has heard of, and nothing
  that was never saved; what is known spreads;
* peer security: a challenge has one outcome and has one at last, an attestation
  returns, of a blocked peer nothing is heard but what was being answered
  already, the rate limit is a limit;
* pulse and client: the proofs of a round verify, a node registers itself
  whatever races and fails on the way, and resumes where it stopped.

## Modules

| Module | Models | Kind |
|---|---|---|
| `AgiRewards` | `lib.rs`, `helpers.rs`, `state.rs`, `contexts.rs` | one action per instruction |
| `ProofEscrow` | what the program promises about a claim | abstract specification |
| `AgiRewardsMC` | a warm start, rewards and symmetry for TLC | instance |
| `AgiRewardsProofs`, `AgiRewardsLedgerProofs` | theorems of `AgiRewards`: one account at a time, and the books | proofs |
| `SumProofs` | sums over finite sets | lemmas |
| `NodeScores` | scores and reward formula, under every instruction that feeds them | one action per instruction |
| `NodeScoresMC`, `NodeScoresProofs` | capability weights for TLC; theorems | instance, proofs |
| `Governance` | `council.js` of one node with its files | one action per method |
| `GovernanceMC`, `GovernanceProofs` | vote weights and symmetry for TLC; theorems | instance, proofs |
| `Experiments` | nodes and metrics | shared constants |
| `ResearchPipeline` | `pipeline.js` of every node: runs, best result, files | one action per step between two awaits |
| `Leaderboard` | `leaderboard.js` of every node, with Yjs | one action per method |
| `Brain` | `agent.js` of every node; composes `ResearchPipeline` and `Leaderboard` with GossipSub | composition |
| `BrainMC` | two researchers and a syncing node | instance |
| `PeerSecurity` | `security.js` of one node | one action per step between two awaits |
| `MerkleTree` | tree, proof and both verifiers | pure operators |
| `PulseClient` | the pulse runner, `submit-proof.js` and the transactions of one node; composes `MerkleTree` with `AgiRewards` | composition |
| `AgiNode` | `main.js`, `identity.js` and the capabilities; composes `PulseClient` and `PeerSecurity` | composition |
| `AgiNodeMC` | a node, another one, two peers, and workloads | instance |
| `BrainProofs` | theorems of `ResearchPipeline` and `Brain` | proofs |
| `PeerSecurityProofs` | theorems of `PeerSecurity` | proofs |
| `AgiNodeProofs` | theorems of `AgiNode`, which implements `PeerSecurity` and `AgiRewards`, and of `MerkleTree` | proofs |

### AgiRewards

`program`, `node`, `pending` and `validation` are the accounts the program owns,
`vault` and `wallet` the token balances it moves, `now` the Solana clock. An
action bears the name of its instruction; its guard is the conjunction of the
account constraints of `contexts.rs` and of the `require!`s, and a transaction
that fails changes nothing and is no step. `submit_pulse_proof` has three
outcomes: an invalid proof is punished (`SubmitInvalidProof`), an accepted one
counts towards maturity (`SubmitMaturationProof`) or waits with its reward
(`SubmitRewardedProof`). `validate_peer` confirms, disputes, or is punished as
inconsistent. The abstractions:

* Whether a Merkle proof verifies, and whether a validator's root equals the
  target's, is a choice.
* The reward is any member of `RewardOf[capabilities]`. `NodeScores` computes
  it, and `RewardTheorem` bounds it: between a tenth of `BASE_REWARD` and the
  full formula, hence positive, which is what `InputAssumption` asks of
  `RewardOf`.
* Fields that no guard reads (scores, some counters, time stamps for display)
  are left out.
* `genesis` is the distribution of tokens that exists when the program receives
  the mint; it is a history variable.

`ProofEscrow` keeps, per node and round, a claim that is none, open, void or
paid, with the sets of validators who confirmed and disputed it. A claim is paid
once, after a quorum of other nodes who outnumber the disputing ones, within the
cap. The refinement maps a claim to the `PendingProof` and the sets to the
validation records (`Claim`, `Escrow` in `AgiRewards`), so that the counters
`valid_confirmations` and `invalid_confirmations`, on which the program decides,
are checked against the votes themselves.

### NodeScores

One `NodeAccount` with the fields `AgiRewards` leaves out, its age, and every
instruction that writes them, in the order of the code: `AcceptProof` resets
misses and failures before it computes the scores, `FailProof` cuts the honesty
score and leaves the rest as it was. Guards on stakes, cooldowns and rounds are
left to `AgiRewards`, so `NodeScores` allows every history the program allows,
and more: what holds here holds of the program. All divisions are the integer
divisions of the code.

### Governance

`proposals`, `council` and `activeProjects` are the memory of a node's
`GovernanceManager`, `files` and `state` its files. A handler is one step; the
process may stop between handlers (`Crash`), inside a write (`SaveStops`; the file
is torn: `writeFileSync` truncates first) and between the two writes of a council
review. `loadState` drops the torn files, as the code does. A write may also fail
(`SaveFails`), over the old contents or over a torn file: then memory is ahead of
the file until a later write succeeds, whether the error is caught
(`handleGossip`) or thrown to the caller. A message of another node is
`handleGossip`, which may come at any time and any number of times. Three habits
of the code shape the model:

* `receiveProposal` stores a proposal that is not known as it comes, with any
  status, dates, reviews and votes (`Sent`, any set of proposals). No council and no vote
  of this node stands behind one that comes as approved or active. The history
  `cameAs` keeps the status with which a proposal came, and `CouncilDecides` and
  `PassedTheVote` speak of the steps taken here.
* `submitProposal` does not ask whether the id is known: it overwrites the
  record (`Draft`), or, given a proposal the manager handed out, sets it back to
  a draft with its old dates, reviews and votes (`Redraft`).
* `failed` counts the failed writes of a file in a row; it is a history that only
  `NothingIsUndone` and a bound of the run read.

Left out of what a message may carry: a status of no meaning, which no method
acts on; a missing date, which is as null for the vote and as a later date for
the review; seats of no council and votes of no weight. The clock begins later
than both periods, so that null is longer ago than either.

### ResearchPipeline, Leaderboard, Brain

A run is two steps, before and after its training is awaited (`runCycle`,
`runExperiment`), because ticks start on a timer that does not wait. What comes
after the await, up to the second write of `saveResult`, is one step of the event
loop, unless the process stops in the first write (`CrashInRunFile`), between the
two (`CrashBetween`) or in the second (`CrashInBest`). A
result is its metric, any positive number: the training is simulated with noise.
`saves`, `saved`, `lost` and `overlapped` are history variables: `saved` is what has
been in a whole run file, `lost` what of it a stop has kept out of `best.json`. A
start reads `best.json` only, so that a better result whose save stopped between
the two writes stays in its run file unread, and a torn `best.json` forgets
everything before it. `BestSurvives` says so: nothing else is ever lost.

Three projects stand for the ten: one where less is better (`astrophysics`), one
where more is (`search-engine`), and one whose results lack the field of their
board (`academic-papers`). A Yjs document is modelled as the set of its writes.
A write follows the write that was current where it was made, and of two that
follow the same one the higher client id wins, which is how Yjs settles a
concurrent `set` of one key.

Three habits of the code shape the model. The researcher's own row never has a
value: `tick` submits the experiment result, in which the metric is one level
deeper than the board's field. A node with the research capability never syncs
and one without it always does (`totalExperiments` stays 0). And a merged row may
be worse than the one it replaces, since the merge goes by client ids; so
`UnsyncedKeepsBest` is about nodes that have applied no document.

### PeerSecurity

The `P2PSecurity` object of one node; the peers may send anything at any time.
`sendChallenge` and `requestAttestation` are each cut at the publish they await,
so that an answer may come before the timeout or the callback is there.
`handleMessage` looks at the blocklist once, before it awaits `handleChallenge`
and the publish of the answer; only then does `main.js` pass the message on to
the brain and the council. So `handleChallenge` and `challengeAnswered` are two steps:
`handling` counts the challenges of a peer that are being answered and `heard` the
messages passed on, and a peer blocked in between is still heard with those.
Timeouts fire at any time after they are set. `allowed`, `heard` and `lowest` are
history variables, and `settled` counts how often a challenge changed a score.

### MerkleTree, PulseClient

A hash is the tuple of what was hashed, so that no two hashes collide. The loops
are recursive functions of the number of their iterations: `levels` builds the
tree, `halvings` is the index on its way up, and `climb` is the fold of both
verifiers, which differ only in how they know on which side a sibling stands: the
one in JavaScript is told, the one on chain takes it from the index. A call of
`submitPulseProof` goes through `program`, `initialize`, `account`,
`register_node`, `proof`, `submit_pulse_proof`, one step per request; a tick of
the auto-stake interval through `staked`, `balance`, `stake`. Between any two
steps everything else may happen. A transaction is simulated when it is sent and
refused there, or lands later and is executed or refused by the actions of
`AgiRewards`, or expires. Landing and expiry do not need the process that sent
it. Calls are named by their round or tick; transactions carry the number of
their process, so that a submission of a dead process may land in the next.
The transaction of `stakeTokens` never executes: it lists the token account where
the context `Stake` has the vault, and the vault where it has the token account.
An owner may stake with another tool (`OwnerCalls`).

### AgiNode

`phase` follows the awaits of `boot`: `joining` (P2P), `starting` (capabilities,
inference), `fetching` (the last round), `up`, then `stopping` and `leaving`. P2P
may fail, and the node goes on alone; the request for the last round may fail,
and the node begins at round 0. `shutdown` clears the intervals and nothing else,
so that calls under way go on. `dies` is a kill at any point. A workload says how
the node is configured and how often each thing may happen.

## Runs

All bounds are constants of the `.cfg` files. The clock ticks up to `MaxTime`.

| Run | Start and bounds | Question |
|---|---|---|
| `lifecycle` | deployment; 2 nodes, 2 rounds, u8 counters hold at most 2, ban at the first strike | books, maturity, bootstrap |
| `validation` | matured and staked nodes, the staker's last proof possibly a failed one; five nodes, two validators required, three strikes, cooldowns of 1, 2 and at most 3, cap near | quorum, cap, spacing, cooldown, escrow |
| `staking` | matured nodes; two stakers, two strikes, all three kinds of slash | vault, stake, strikes, bans |
| `maturation_earns` | deployment | the grace period earns (it does not) |
| `unstake_returns` | matured nodes; requests for the stake and for what a slash leaves of it | the withdrawal of a due request is accepted (it may be refused) |
| `scores_earned` | registration; scaled gains, a window of two proofs, seven proofs, three other calls | scales, faults, good standing |
| `scores_uptime` | constants of the code, around six hours | the uptime bonus grows (it falls) |
| `governance_lifecycle` | 1 proposal, 2 seats that must both approve, 2 peers of whom one is given seats, 15 active nodes (a quorum of 2), 4 proposals that messages carry, 1 failing write in a row, clock up to 4 | council, vote, restarts |
| `governance_registry` | the same | the registry lists the active projects (it does not) |
| `research` | 3 projects, 2 metrics; four workloads of up to three runs and two starts of a node, one or two researchers, one syncing node | best result, run files, boards, spreading |
| `node` | 2 nodes on chain, 2 peers, 3 challenges, 2 attestation calls, a limit of 2 messages in a window of 2; eleven workloads of up to 2 rounds, 2 starts, 2 overlapping stake ticks, 1 fault | see below |
| `auto_stake` | a registered node with the minimum in its wallet, one stake tick after another | an auto-staking node ends up staked (it does not) |

Why the bounds are enough. The constants of the program enter its guards only by
comparison, so scaled ones keep every case: below, at and above each threshold
is reached (an age of two ticks against a maturation of two, a window of one
tick, a ban after one, two or three strikes). A node has to stake and mature before it can
earn, and the steps that takes multiply the states without adding a case, so
`validation` and `staking` start from `WarmInit`: nodes that registered, staked
and matured long ago, with everything else as the program leaves it. `lifecycle`
starts from the deployment and passes through the same states. In `validation` a
third failure bans, and before it the cooldown doubles and meets its limit; the
failed proof a staker may start with spares the run a round. Five nodes allow
a confirmation, a dispute and an inconsistent validator on one proof beyond a
quorum of two. The cap is set so that two pending rewards pass the check at
submission and only one the check at the mint. `scores_earned` scales the gains
so that the reputation reaches both ends of its scale within seven proofs and
the window of valid proofs is full after two. Two seats that must both
approve keep the relation that matters between seven seats and four
(`NumbersAssumption`: the council can still approve when fewer than the required
seats have reviewed): approval, rejection and the late opening exclude one
another, and each is reached, the late opening with a review left over. The
proposals that messages carry are a draft, one under review with all approvals,
one in the vote with votes and no date, and an approved one, so that every step of
a life may be the first one here. The registry run needs one proposal and one
restart. In `governance_lifecycle` the square roots are rounded to tenths; only
their ratios are compared with the threshold.

Two of the properties say more than their runs exercise. `validation` has two
rounds, so that failures between two accepted proofs hardly occur under
`RewardsSpaced`; `SpacingTheorem` covers them. And a matrix of 256 rows, which is
what the code ships, has no odd level; five rows have two, and
`RoundProofsTheorem` holds for any number.

`node` asks whether a node resumes and registers itself, whether
challenges and attestations end, each challenge once, whether a blocked peer is
heard with nothing but what was being answered, whether the limit bounds every stretch of time, and whether the
proofs of a round verify, at a matrix of five rows: two odd levels. A workload of
`research` or `node` exercises a few of the mechanisms to their end with what
they need, and one exercises all at once; together they fire every action. Three
messages of one peer pass a limit of two, five reach a second window and three
steps of the clock a third; a challenge answered wrongly twice costs 100, which
blocks. Three runs are the least with which two overlap and a third follows a
restart. Two rounds race each other to initialize and register, and another node
races both; with two stake ticks both read the balance before either sends.
A restart with a submission under way needs two starts and two rounds.

The runs are exhaustive within their bounds. Distinct states: `lifecycle` 741,662;
`validation` 84,232; `staking` 1,243,812; `scores_earned` 283,374;
`governance_lifecycle` 1,637,787; `research` 91,272; `node` 101,592.

`CHECK_DEADLOCK FALSE` stands where a bound (clock, proofs, votes) stops the
model; the governance runs check for deadlock. Symmetry is used only in runs
without liveness, over nodes that start alike.

What the violations show is described under `findings` in `PROJECT.json`:

* `maturation_earns`: `docs/NODE_REWARDS.md` promises earnings in the grace
  period and from day one; proofs before maturity carry a reward of 0.
* `unstake_returns`: a slash after `request_unstake` for the whole stake leaves a
  request larger than the stake; `withdraw_unstake` panics on it when it is due.
  The owner has to ask again for what is left, and wait again, or to stake more.
* `scores_uptime`: the uptime bonus falls at the end of the first piece of the
  curve, at about six hours; the sampled test passes over it.
* `governance_registry`: neither `activateProject` nor `sunsetProject` writes
  `state.json`, so that after a restart an active project is missing in the
  registry.
* `auto_stake`: `docs/NODE_REWARDS.md` promises that a balance of the minimum is
  staked automatically; the transaction of `stakeTokens` swaps the token account
  and the vault, and is refused at every tick.

Other places where the documents and the code differ, met while modelling and
not turned into runs: the README of the program says that slashed tokens are
subtracted from the vault, which they are not (`VaultCoversStake` counts them as
still there); `docs/NODE_REWARDS.md` starts new nodes at a multiplier of 1.0,
the code at its floor of 0.1, and its table of uptime bonuses is that of the
exact logarithm; the diagram in `README.md` asks for four of seven council
approvals, while a late review opens the vote with one; `sunsetProject` is said
to require a council vote and asks for none; a proposal that comes by gossip as
approved or active has bypassed council and vote of the node that stores it. The
README says that missed rounds in a row are penalized: an accepted proof resets
the misses before the consistency score is computed, so that the score after it
is always 10000, whatever was missed; only the heartbeat that brings the misses
to ten takes reputation and score off.

Met in the same way in the research modules: `docs` and comments speak of
replicas that share each peer's best, while the documents of researchers are
never sent, a researcher's own row carries no value (and replaces a real one on a
board where less is better), and a merge may bring back a worse row. The DHT key of a
result uses the run number read again after the training.

And in the node. Challenges go to libp2p peer ids, while `handleChallenge`
compares the target with the id of `identity.json`, so that no node recognises a
challenge as its own and every honest peer runs into the timeout of each. The
leader election mixes the same two kinds of ids; its result is only logged.
`PulseRunner` hands only the round number to `mintReward`, which submits a zero
root and no siblings; the program accepts them, as the fold over an empty proof
is the leaf. `validatePeer` lacks an account and always fails. `fetchNodeAccount`
labels the counters of validations and of proofs in the wrong order.
`confirmTransaction` does not throw when the program refused the transaction, so
that a refused one is logged as a success. A torn `identity.json` stops every
later boot. A failed request at the boot restarts the rounds at 0, and every
proof is refused until they have caught up. Auto-staking, refused
as it is, goes on trying for ever, also for a banned node, and would stake again
what the owner has just withdrawn. Nothing creates the stake vault. The publish of
the challenge loop is not caught: when it rejects, the process dies. Honest nodes
compute identical roots for a round, which `checkSybilPattern`, called by
nothing, would take for copies. `handleGossip` of the brain does not compare the
`peerId` in a result with the sender; `RowsWereSaved` is about nodes that send their
own results.

## Fairness

`AgiRewards`, `NodeScores` and `Governance` assume none, and state no liveness
property. Every instruction of the program is a call that somebody may or may not
send; no code in the repository sends `finalize_reward`, `validate_peer` with the
accounts the program expects, `tallyVotes` or `checkReviewComplete` on a timer. "A
quorate reward is eventually minted" and "a proposal is eventually decided" would
rest on fairness the code does not provide. What can be said without it is said
as safety: a payable reward stays payable (`QuorumIsStable`), and a decision is
not undone (`NothingIsUndone`).

`Brain` assumes weak fairness of `syncLeaderboards`, which a timer runs for as
long as the process does, and strong fairness of `receiveUpdate`: of the
documents sent again and again to a connected node some arrive, though each may
be lost. Nothing is assumed of results, which are published once, nor of
research, nor that a stopped node starts again. `SyncSpreads` follows.

`AgiNode` assumes weak fairness of `Progress`: the pulse interval and the timers
fire, an awaited request is answered, and a transaction that was sent lands (or
expires, of which there is a bounded number); and of `StakeProgress`, the
auto-stake interval and its requests. Two conditions rather than one, because
the interval repeats for ever and would satisfy a common one by itself. Nothing
makes the node start, stop, or receive, and nothing makes owner, peers and other
nodes act. `ChallengesSettle`, `AttestationsResolve` and `RegistersItself` follow.
`EndsUpStaked` does not, for all this fairness: the counterexample of
`auto_stake` ticks, sends and is refused for ever. The premise of `RegistersItself` is a submission that begins
when the program is initialized and no request fails any more: before that,
every one of a bounded number of rounds may lose its race to initialize, and
only the next round tries again.

## Proofs

Every safety invariant and every action property that a run checks is also a
theorem, for every value of the constants. The assumptions are named and TLC
checks them in the runs:

* `NodesAssumption`, `RoundsAssumption`: nodes and rounds are finitely many (a
  round is a u64).
* `InputAssumption`: inputs are natural numbers, rewards are positive.
* `ConstantsAssumption`: amounts and times are natural numbers, slash rates at most
  10000 basis points, a ban comes after at least one strike and before the u8 is
  full; for the scores, the initial reputation is on the scale, the window and
  the loyalty threshold are positive.
* `CooldownAssumption`: a cooldown after more failures is not shorter.
* `SetsAssumption`, `NumbersAssumption` (council: the required approvals are at
  most the seats, and `2 * COUNCIL_APPROVAL_REQUIRED <= Cardinality(Seats) + 2`,
  which four of seven satisfy), `SentAssumption` (messages carry proposals, of any
  status), `ExperimentsAssumption`,
  `BrainAssumption`, `ClientsAssumption` (no two nodes draw the same Yjs client
  id), `SecurityAssumption`, `ClientAssumption` and `OwnerAssumption` (calls are named
  apart, an owner sends instructions of an owner with a number, the matrix has
  rows), `WorkloadAssumption`: types, finiteness and names that differ.

They hold of `constants.rs` and of the constants in the JavaScript. Nothing else
bounds the nodes, rounds, amounts, the clock, the proposals, the matrix or the
number of restarts.

### The program

`AgiRewardsProofs` proves `TypeOK` inductive. The work is in the lemmas about the
helpers: `slash_amount` is at most the stake, so no handler subtracts below
zero, and each update of an account (`AccountUpdates`, `FailureType`,
`AcceptedType`) stays a `NodeAccount`. It then says for each instruction what it
does to one account (`RegisterEffect`, `StakeEffect`, `FailureEffect`, ...). From
these come step lemmas that forget which instruction ran (`StandingSteps`,
`ClaimSteps`, `LastClaimSteps`, `StakeSteps`, `WalletSteps`, `SupplySteps`), and each
theorem is an induction over those:

* `StrikesTheorem` is inductive by itself once the ban checks of each
  instruction are in `StandingStep`.
* `MaturityTheorem` needs `MaturityInv`: a rewarded claim is registered, matured
  and not submitted in the future; `is_matured` never goes back.
* `SpacingTheorem` needs `SpacingInv`: the last claim of a node bounds the rounds
  and the times of all its accepted proofs, since only accepted proofs move it.
* `SupplyTheorem` needs only the check at the mint; the check at submission plays
  no part.
* `UnstruckTheorem` follows the stake and the pending request through staking,
  requests and withdrawals while the strikes are 0.
* `GenesisTheorem` needs `GenesisInv`: with nothing in circulation the wallets
  are empty, so no stake, no maturity, no reward, no mint.

`AgiRewardsLedgerProofs` is about what relates several accounts:

* `BanTheorem`, `BannedCountTheorem` and `CooldownTheorem` need `AccountInv` (who never
  registered has an empty account and no claim, so nobody can report it), and
  the last one that failures in a row stay below the strikes of a ban.
* `QuorumTheorem` needs `Ballots`: the program pays what its two counters say, so
  they must be the numbers of validators whose records say "confirmed" and
  "disputed". One vote adds one validator to one of the two sets (`VoteAdds`).
  `StabilityTheorem` follows: once the window is over nobody votes any more.
* `EscrowTheorem` is the refinement of `ProofEscrow`. Under `Ballots` each
  instruction is one of the steps that may happen to the books, and each of
  those is a step of the escrow or leaves claims, votes and mint as they are.
* `VaultTheorem` and `BooksTheorem` are about sums over all nodes. Each step concerns
  the tokens of at most one node, so that the sums change by what that account
  changes; the vault covers what it books because a slash takes no more than the
  stake and no less from a larger one (`SlashBounds`).

`SumProofs` holds the facts about sums those two rest on. `SumFunction` of the
community modules is a CHOOSE of a function with a recursive equation, and the
induction theorems of the library cannot be applied here. What replaces them is
a minimal counterexample: the strict subsets of a finite set are a well-founded
ordering, and `WFMin`, which takes sets and not operators, gives a minimal subset
on which the wanted fact fails. In this way the recursive function exists, is
unique, and changes with one summand as a sum should.

`NodeScoresProofs` proves `ScoresInv` (type and scales) and, from it, that the
multiplier stays between 1000 and 10000 (`ScaleTheorem`), that it is monotone in
the reputation and each score (`MultiplierMonotone`, from lemmas on integer
division), and that the share of valid proofs moves the right way
(`ShareOfMore`), which give `FailureTheorem` and `GoodStandingTheorem`.
`RewardTheorem` bounds the reward. It has no run: with the constants of the code
the products leave the 32-bit integers of TLC, which the proof does not mind.

### The council

`GovernanceProofs` separates the life of a proposal (`LifeStep`) from the place where
it is kept. `Kept` is the type invariant with the agreement of memory and disk:
while the manager runs, each file whose last write did not fail is what it knows.
What a node knows of a proposal is its memory while it runs and its file while it
does not, and every step of the system is a `KnownStep`: nothing, one stage of its
life (a new submission and an arrival among them), or a stop. An invariant of the life of one proposal
(`Lawful`) holds of memory and file alike, whichever of the two a failed write has
left behind, and gives `CouncilTheorem` and `VoteTheorem`: it records, beside the
decision, the reviews, votes and dates that justified it, since periods are
measured from dates that later calls could have moved. Of a step that a proposal
had behind it when it came it claims nothing, which `cameAs` tells apart. `NothingUndoneTheorem` shows that no stage of
life undoes an earlier one, and that what a stop takes back was in a file being
written, or one whose last write had failed.

### Research

`BrainProofs` proves `PipelineTypeOK` with `CountInv`: a run file has a positive
number, since the counter is raised before the training, and the files of a node
are finitely many. `RunsTheorem` needs `FilesInv`, which says what the files are:
while no two runs overlapped, those of the runs 1 to `saves`, and the counter is
at the last one or at the one in training; so the count of the files is a number
to resume with. `BestTheorem` rests on `BestOfMore` (the best of a set and one more
result is the better of the two) and is about the results that are not `lost`. A
stop between the two writes adds the better result to `saved` and to `lost` at once,
and a worse one to `saved` only, which leaves the best as it was; a stop in the
write of `best.json` moves everything to `lost`; a result that comes up again
and is written to the end leaves `lost`. `SavedGrows` serves the boards: what was
saved stays saved, lost or not.
`BrainRunsPipeline` proves that the nodes, with boards, gossip and stops,
implement the pipelines (`Spec => PipelineSpec`), and `ResearchSurvives` carries
both properties over. `RowsTheorem` needs `RowsInv`: results not yet sent, results
published, rows and documents in transit are all of saved results, which only
grow. Where Yjs places a write plays no part.

It plays one in the next two. `ResearchTypes` says that two writes of a peer on a
board never have the same path, and needs `PathInv` for it: a path ends with the
client id of the author, ids are drawn once, and what a running author wrote is in
its own document, so that no later write of his repeats a path, wherever documents
are merged. Paths are therefore in a total order and a finite document has a last
write (`GreatestExists`). A local write follows the current one and so becomes the
last (`WrittenDocument`); it is made only when it is better. `UnsyncedTheorem`
follows: on a board that took in no document the writes of a peer form a chain,
whose last is the best it heard of.

### The node

`PeerSecurityProofs` proves `SecurityTypeOK` inductive. `ChallengesSettledOnce`
needs `ChallengeInv`: a challenge that is pending has been drawn and has changed
no score, and one that is not drawn is not pending. `BlockedPeersOnlyHeardOut`
needs `BlockInv`: the lowest score of a peer is at most its score, and a peer
whose lowest score reached -100 is on the blocklist, which only a restart empties.
`RateTheorem` bounds a sum over every stretch of time, and the code knows only its
current window. `WindowInv` therefore keeps the limit for three kinds of
stretches: since the window was opened, the window's length before that, and
all others. A window opens later than its length after the one before, so that a
stretch meets at most two of them; hence twice the limit.

`AgiNodeProofs` proves that the node implements the security layer
(`NodeRunsSecurity`): each of its steps is a step of `PeerSecurity` or leaves that
layer alone, and dying is `SecurityStops`. For this the workload must not change
(`ConfigInv`), since challenges go to its neighbours only. The theorems of the
layer follow for a node that boots, fails and restarts (`NodeSettlesOnce`,
`NodeOnlyHearsBlockedOut`, `NodeRateBounded`).

It proves next that a node with its owner, its transactions and the other nodes
takes the program through steps of `AgiRewards` only (`NodeImplementsProgram`:
`NodeSpec => Chain!Spec`), where `Chain` is an instance of `AgiRewardsLedgerProofs`
with every number as an input, since a node stakes whatever its balance is.
`SameAccounts`, `SamePenalties` and `SameSubmissions` say that the instructions
are the same ones there. `CallInv` is needed because an instruction runs long
after it was sent: the amounts under way are numbers, and a submission is of a
round, never of a tick of the auto-stake interval; the amounts come from
balances, so that `CallInv` is kept only together with the types of the program.
`NodeProgramSafe`, `NodeBooksBalance`, `NodeBanIsFinal` and `NodeQuorumIsStable` then carry
over the theorems of the program, and `NodeImplementsEscrow` composes the two
refinements: a node at work keeps the promises of `ProofEscrow`.

`ResumesTheorem` is about submissions that outlive the process that sent them.
`ResumeInv` marks what is on its way with its process: a process that boots has
sent nothing and has no call under way, and once it has resumed, its round is
not below the last one accepted, nor below anything it sent. When a submission
of an earlier process lands after the round was read, the round read may be too
low, and the node no longer counts as resumed.

`RoundProofsTheorem` holds for a matrix of any size, whichever of its levels are
odd. The loops are recursive functions, hence CHOOSEs, and exist because each can be
continued by one more iteration (`LevelsIterate`, `HalvingsIterate`,
`ClimbIterates`, by induction on a set of numbers, `UpTo`). A level halves, so that
there is a last one (`LevelsEnd`); an index and its level halve together
(`HalvingsFacts`); the pair above a row is the hash that the climb computes
(`PairAbove`, `ClimbsToRoot`). That a proof is accepted for no other row follows back
down the tree, since equal pairs have equal halves.

### What stays with TLC

The four liveness properties that hold: `SyncSpreads`, `ChallengesSettle`,
`AttestationsResolve`, `RegistersItself`; and the one that does not, `EndsUpStaked`. Fairness and `ENABLED` are
outside what the installed provers do. The runs that expect a violation are
TLC's by nature. No module with a theorem reaches a recursive operator.

## Not modelled

Pure input and output: the libp2p wrapper, capability probes, the
inference server, scripts, the leaderboard page and the dashboard. The off-chain
estimate of rewards (`tokens/rewards.js`) is for display. Overflow of u32 and u64
panics and is out of reach of the constants, so that only the u8 counters have
their width. Fees, rent and account sizes are left to Solana. Report type 0
(invalid proof) is in the model and exercised by `NodeScores`; the runs of
`AgiRewards` use the other two. Heartbeats run in `lifecycle` and `node` only,
since no guard of the other runs depends on them.

In the research modules: the content of hypotheses, inspirations, papers and
critiques, which changes neither the control nor what a metric may be; write
errors other than a stop. In the security layer: the four methods nobody calls,
and signatures. In the client: `validatePeer`, and the accounts, keys and
encodings of a transaction; the stake vault, which nothing in the repository
creates, is taken to exist. In the node: the status endpoints, and the council
and the brain, which are modelled on their own.

## Plan

Done: the on-chain program, its scores, the council; leaderboards, pipelines and
the brain; peer security, pulse, client and node. Every safety invariant and
action property of the runs is proved, and so are the three refinements (the
program of the escrow, the brain of the pipelines, the node of its security layer
and of the program). Left:

1. `AgiNodeProofs` and `AgiRewardsProofs` are long; a lemma that several of their
   steps repeat should be stated once.
2. To model: `checkSybilPattern`, `trackProofTiming` and `reportViolation`, when
   something calls them.
