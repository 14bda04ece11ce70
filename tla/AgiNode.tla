------------------------------ MODULE AgiNode ------------------------------
(***************************************************************************)
(* One node as src/main.js runs it: it boots in steps that are awaited one *)
(* after another, lives, is asked to stop or dies, and is started again.   *)
(* The peer security layer (PeerSecurity) and the client of the on-chain   *)
(* program (PulseClient) live in its process; the identity file, the chain *)
(* and the transactions under way outlive it.                              *)
(*                                                                         *)
(* The brain, which a node starts and stops as well, is module Brain.      *)
(***************************************************************************)
EXTENDS PulseClient, PeerSecurity

CONSTANTS
    Supported,      \* capabilities of the hardware profile
    Workloads       \* how a node is configured, and the bounds of its run:
                    \*   p2p: how its P2P startup may end
                    \*   neighbours: the peers it is connected to
                    \*   configured: NODE_SOLANA_KEYPAIR and AGI_MINT_ADDRESS are set
                    \*   autoStake: the ticks of the auto-stake interval that may
                    \*     overlap; none with --no-auto-stake
                    \*   rounds: the number of its last round
                    \*   faults and Budgets: how often each may happen

ASSUME WorkloadAssumption ==
    \A w \in Workloads :
        /\ w.p2p \subseteq BOOLEAN
        /\ w.neighbours \subseteq Peers
        /\ w.configured \in BOOLEAN
        /\ w.autoStake \subseteq StakeTicks

Budgets == {"starts", "signals", "deaths", "messages", "challenges", "requests",
            "minutes", "calls", "others", "ticks"}

VARIABLES
    config,         \* the workload
    budget,         \* bound: what may still happen
    phase,          \* how far the process has got
    identity,       \* identity.json: none, whole, or torn by a crash
    connected,      \* p2pNode is there, and with it the security layer
    enabled,        \* capabilities started
    resumed         \* history: nothing has made the round read at the boot old

processVars == <<phase, identity, connected, enabled, resumed>>
nodeVars == <<config, budget, processVars>>
allVars == <<vars, pulseVars, securityVars, nodeVars>>

NodeInit ==
    /\ Init
    /\ PulseInit
    /\ SecurityInit
    /\ config \in Workloads
    /\ budget = [b \in Budgets |-> config[b]]
    /\ faults = config.faults
    /\ phase = "down"
    /\ identity = "none"
    /\ connected = FALSE
    /\ enabled = {}
    /\ resumed = FALSE

May(b) == budget[b] > 0 /\ budget' = [budget EXCEPT ![b] = @ - 1]

(***************************************************************************)
(* The boot.  Identity, P2P with its security layer, capabilities,         *)
(* inference server, the last round on chain, then everything else at      *)
(* once.                                                                   *)
(***************************************************************************)
\* A file that a crash has left torn does not parse, and no boot gets past it.
boots ==
    /\ phase = "down"
    /\ identity # "torn"
    /\ May("starts")
    /\ phase' = "joining"
    /\ identity' = "whole"
    /\ process' = process + 1
    /\ UNCHANGED <<vars, runnerVars, call, network, faults, securityVars, config,
                   connected, enabled, resumed>>

diesWritingIdentity ==
    /\ phase = "down"
    /\ identity = "none"
    /\ May("starts")
    /\ identity' = "torn"
    /\ process' = process + 1
    /\ UNCHANGED <<vars, runnerVars, call, network, faults, securityVars, config,
                   phase, connected, enabled, resumed>>

\* createP2PNode succeeds, or fails and the node goes on alone.
joins ==
    /\ phase = "joining"
    /\ phase' = "starting"
    /\ connected' \in config.p2p
    /\ UNCHANGED <<vars, pulseVars, securityVars, config, budget, identity, enabled,
                   resumed>>

startCapability(c) ==
    /\ phase = "starting"
    /\ c \in Supported \ enabled
    /\ enabled' = enabled \cup {c}
    /\ UNCHANGED <<vars, pulseVars, securityVars, config, budget, phase, identity,
                   connected, resumed>>

inferenceStarts ==
    /\ phase = "starting"
    /\ enabled = Supported
    /\ phase' = "fetching"
    /\ UNCHANGED <<vars, pulseVars, securityVars, config, budget, identity, connected,
                   enabled, resumed>>

Runs(last) ==
    IF last + 1 \in 1 .. config.rounds
    THEN runRound(config.configured, last)
    ELSE roundNumber' = last /\ UNCHANGED <<proofs, clientVars>>

\* Mutation of goesLive: the runner is not told where to resume.
goesLive_FromZero(known) ==
    /\ phase = "fetching"
    /\ known => config.configured
    /\ phase' = "up"
    /\ Runs(0)
    /\ resumed' = known
    /\ UNCHANGED <<vars, securityVars, config, budget, identity, connected, enabled>>

\* Mutation of goesLive: the runner resumes one round too early.
goesLive_OneLess(known) ==
    /\ phase = "fetching"
    /\ known => config.configured
    /\ phase' = "up"
    /\ Runs(IF known THEN LastClaimRound - 1 ELSE 0)
    /\ resumed' = known
    /\ UNCHANGED <<vars, securityVars, config, budget, identity, connected, enabled>>

\* The last round is known, or the request failed and counts as "not registered".
\* The runner runs a round at once.
goesLive(known) ==
    /\ phase = "fetching"
    /\ known => config.configured
    /\ phase' = "up"
    /\ Runs(IF known THEN LastClaimRound ELSE 0)
    /\ resumed' = known
    /\ UNCHANGED <<vars, securityVars, config, budget, identity, connected, enabled>>

(***************************************************************************)
(* The life of the process.                                                *)
(***************************************************************************)
\* The pulse interval passes.
pulse ==
    /\ phase = "up"
    /\ roundNumber + 1 \in 1 .. config.rounds
    /\ Tick
    /\ runRound(config.configured, roundNumber)
    /\ UNCHANGED <<securityVars, nodeVars>>

stakeTick(k) ==
    /\ phase = "up"
    /\ config.configured
    /\ k \in config.autoStake
    /\ autoStake(k)
    /\ UNCHANGED <<securityVars, nodeVars>>

\* A submission of an earlier process may land after the round was read.
Overtakes(tx) == tx.kind = "submit_pulse_proof" /\ tx.of # process

answers(i) == (read(i) \/ send(i)) /\ UNCHANGED <<securityVars, nodeVars>>

fails ==
    /\ \/ \E i \in CallIds : throws(i)
       \/ \E tx \in network : expires(tx)
    /\ UNCHANGED <<securityVars, nodeVars>>

landing ==
    /\ \E tx \in network : lands(tx) /\ resumed' = (resumed /\ ~Overtakes(tx))
    /\ UNCHANGED <<securityVars, config, budget, phase, identity, connected, enabled>>

world ==
    /\ \/ May("calls") /\ (\E c \in OwnerCalls : ownerSends(c))
       \/ May("others") /\ othersAct
       \/ May("ticks") /\ Tick /\ UNCHANGED pulseVars
    /\ UNCHANGED <<securityVars, config, processVars>>

Live == phase \in {"starting", "fetching", "up", "stopping", "leaving"}

\* The handler is subscribed once the node is up, and until p2pNode stops.
receives ==
    /\ phase \in {"up", "stopping", "leaving"}
    /\ connected
    /\ May("messages")
    /\ \E p \in Peers : handleMessage(p)
    /\ UNCHANGED <<vars, pulseVars, config, processVars>>

\* An answer is published; the challenge reaches the brain and the governance.
publishes ==
    /\ Live
    /\ \E p \in Peers : challengeAnswered(p)
    /\ UNCHANGED <<vars, pulseVars, nodeVars>>

\* Ids are random: the next one to be drawn is called by the next number.
Drawn(ids, step) == {c \in ids : step[c] = "unused" /\ \A d \in ids : d < c => step[d] # "unused"}

\* The challenge loop runs from the start of the security layer.
challenges ==
    /\ phase \in {"starting", "fetching", "up"}
    /\ connected
    /\ May("challenges")
    /\ \E c \in Drawn(ChallengeIds, challengeStep), p \in config.neighbours : sendChallenge(c, p)
    /\ UNCHANGED <<vars, pulseVars, config, processVars>>

\* Nothing in the program calls requestAttestation; a caller may at any time.
attests ==
    /\ phase = "up"
    /\ connected
    /\ May("requests")
    /\ \E a \in Drawn(RequestIds, requestStep) : requestAttestation(a)
    /\ UNCHANGED <<vars, pulseVars, config, processVars>>

timers ==
    /\ Live
    /\ securityTimers
    /\ UNCHANGED <<vars, pulseVars, nodeVars>>

minutePasses ==
    /\ Live /\ connected
    /\ May("minutes")
    /\ clockTicks
    /\ UNCHANGED <<vars, pulseVars, config, processVars>>

(***************************************************************************)
(* The end of the process.  SIGINT or SIGTERM: intervals are cleared, what *)
(* is under way goes on while the capabilities and then P2P stop.          *)
(***************************************************************************)
shutdown ==
    /\ phase = "up"
    /\ May("signals")
    /\ phase' = "stopping"
    /\ UNCHANGED <<vars, pulseVars, securityVars, config, identity, connected,
                   enabled, resumed>>

stopAll ==
    /\ phase = "stopping"
    /\ phase' = "leaving"
    /\ enabled' = {}
    /\ UNCHANGED <<vars, pulseVars, securityVars, config, budget, identity, connected,
                   resumed>>

Over ==
    /\ phase' = "down"
    /\ connected' = FALSE
    /\ enabled' = {}
    /\ resumed' = FALSE
    /\ ClientStops
    /\ SecurityStops
    /\ UNCHANGED <<vars, config, identity>>

exits == phase = "leaving" /\ Over /\ UNCHANGED budget

\* It is killed, it gets a signal while it boots, or a publish rejects.
dies == phase # "down" /\ May("deaths") /\ Over

NodeNext ==
    \/ boots \/ diesWritingIdentity \/ joins \/ inferenceStarts
    \/ \E c \in Supported : startCapability(c)
    \/ goesLive(TRUE) \/ goesLive(FALSE)
    \/ pulse
    \/ \E k \in StakeTicks : stakeTick(k)
    \/ \E i \in CallIds : answers(i)
    \/ fails \/ landing \/ world
    \/ receives \/ publishes \/ challenges \/ attests \/ timers \/ minutePasses
    \/ shutdown \/ stopAll \/ exits \/ dies

\* In a process that runs, intervals and timeouts fire, and publishes and
\* requests return; the cluster takes what it was sent.  The ticks of the
\* auto-stake interval come for ever and must not keep the rest from
\* happening; of the rest there is an end, so that one condition is enough
\* for all of it.
Progress ==
    pulse \/ timers \/ landing \/ (\E i \in Rounds : answers(i))

StakeProgress == \E k \in StakeTicks : stakeTick(k) \/ answers(k)

NodeFairness == WF_allVars(Progress) /\ WF_allVars(StakeProgress)

NodeSpec == NodeInit /\ [][NodeNext]_allVars /\ NodeFairness

(***************************************************************************)
(* Properties.                                                             *)
(***************************************************************************)
\* Types of the state of the node and of what it is made of.
NodeTypeOK ==
    /\ TypeOK
    /\ PulseTypeOK
    /\ SecurityTypeOK
    /\ phase \in {"down", "joining", "starting", "fetching", "up", "stopping", "leaving"}
    /\ identity \in {"none", "whole", "torn"}
    /\ connected \in BOOLEAN
    /\ enabled \subseteq Supported
    /\ resumed \in BOOLEAN

\* After a restart the runner goes on above the last round the chain has
\* accepted, so that its next proofs are not refused as old; unless the read
\* at the boot failed, or a submission of an earlier process landed since
\* (startRound in src/main.js, last_claim_round in submit_pulse_proof).
ResumesWhereItStopped ==
    phase = "up" /\ resumed => roundNumber >= LastClaimRound

\* Once the program is initialized, by whomever, and requests no longer fail,
\* a round registers a node that stays up, whatever became of the calls of
\* earlier rounds and of a race to initialize: each submission tries again
\* from the beginning (initializeProgram, registerNode, submitPulseProof).
RegistersItself ==
    \A r \in Rounds :
        phase = "up" /\ program.initialized /\ faults = 0 /\ call[r].step = "program"
            ~> node[me].registered \/ phase # "up"

\* A node that stays up with auto-staking, registered, and holding the
\* minimum or more ends up staked, as docs/NODE_REWARDS.md says: "When it
\* reaches >= 100 tokens, your entire balance is automatically staked" (the
\* auto-stake interval of src/main.js; stakeTokens).
Unstaked ==
    /\ phase = "up"
    /\ config.configured /\ config.autoStake # {}
    /\ node[me].registered
    /\ node[me].stake_amount < MIN_STAKE
    /\ wallet[me] >= MIN_STAKE

EndsUpStaked ==
    Unstaked ~> \/ node[me].stake_amount >= MIN_STAKE
                \/ wallet[me] < MIN_STAKE
                \/ node[me].is_banned
                \/ phase # "up"

=============================================================================
