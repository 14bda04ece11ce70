---------------------------- MODULE PeerSecurity ----------------------------
(***************************************************************************)
(* The P2PSecurity layer of one node (src/p2p/security.js): peer scores and*)
(* the blocklist, the rate limit, challenges with their timeouts, and      *)
(* attestation requests.  The peers are the environment: they send any     *)
(* message at any time.                                                    *)
(*                                                                         *)
(* A publish is awaited, so that answers may come in before what follows   *)
(* it; one that rejects ends the process, since nobody catches it.  Times  *)
(* are Date.now(), in ticks; a timeout may fire at any time once it is set.*)
(* Ids are drawn at random and never again, so that one that has been used *)
(* stays used over a restart.  Messages are not verified, since nothing    *)
(* calls verifyMessage; nothing calls trackProofTiming, checkSybilPattern  *)
(* or reportViolation either, and they are left out.                       *)
(***************************************************************************)
EXTENDS Integers, FiniteSets, FiniteSetsExt

CONSTANTS
    Peers,          \* peers that send messages and are challenged
    ChallengeIds,   \* ids of challenges
    RequestIds,     \* calls of requestAttestation
    AttestRounds,   \* round numbers of those calls
    MaxClock,       \* bound on the clock
    NoPeer,         \* no peer
    NoRequest       \* no call

CONSTANTS           \* security.js
    MAX_MESSAGES_PER_PEER_PER_MINUTE,
    RateWindow,     \* 60_000 of checkRateLimit
    AttestationsNeeded  \* 3 of requestAttestation

ASSUME SecurityAssumption ==
    /\ IsFiniteSet(Peers)
    /\ {MAX_MESSAGES_PER_PEER_PER_MINUTE, RateWindow} \subseteq Nat
    /\ MaxClock \in Nat \ {0}
    /\ AttestationsNeeded \in Nat \ {0}
    /\ NoPeer \notin Peers
    /\ NoRequest \notin RequestIds

VARIABLES
    clock,              \* Date.now()
    peerScores,         \* the score of each peer
    blocklist,
    peerMessageCounts,  \* of each peer
    challengeStep,      \* how far sendChallenge has got, or its timeout
    pendingChallenges,  \* the Map's keys
    challenged,         \* the peer of each challenge
    requestStep,        \* how far requestAttestation has got
    attestations,       \* how many answers each call has
    attestationCallbacks, \* the call that waits for the answers of a round
    settled,            \* history: how often a challenge changed a score
    lowest,             \* history: the lowest score of each peer since the start
    allowed,            \* history: messages let through, of each peer at each time
    handling,           \* challenges of each peer that are being answered
    heard               \* history: messages of each peer passed to the brain and
                        \* the governance since the start

securityVars ==
    <<clock, peerScores, blocklist, peerMessageCounts, challengeStep, pendingChallenges,
      challenged, requestStep, attestations, attestationCallbacks, settled, lowest, allowed,
      handling, heard>>
scoreVars == <<peerScores, blocklist, lowest>>
heardVars == <<allowed, handling, heard>>
messageVars == <<peerMessageCounts, heardVars>>
challengeVars == <<challengeStep, pendingChallenges, challenged, settled>>
requestVars == <<requestStep, attestations, attestationCallbacks>>

NoMessages == [count |-> 0, windowStart |-> 0]

NoneAllowed == [p \in Peers |-> [t \in 0 .. MaxClock |-> 0]]

SecurityInit ==
    /\ clock = 1
    /\ peerScores = [p \in Peers |-> 0]
    /\ blocklist = {}
    /\ peerMessageCounts = [p \in Peers |-> NoMessages]
    /\ challengeStep = [c \in ChallengeIds |-> "unused"]
    /\ pendingChallenges = {}
    /\ challenged = [c \in ChallengeIds |-> NoPeer]
    /\ requestStep = [a \in RequestIds |-> "unused"]
    /\ attestations = [a \in RequestIds |-> 0]
    /\ attestationCallbacks = [r \in AttestRounds |-> NoRequest]
    /\ settled = [c \in ChallengeIds |-> 0]
    /\ lowest = [p \in Peers |-> 0]
    /\ allowed = NoneAllowed
    /\ handling = [p \in Peers |-> 0]
    /\ heard = [p \in Peers |-> 0]

\* The process stops, and its memory and its timers with it.
SecurityStops ==
    /\ peerScores' = [p \in Peers |-> 0]
    /\ blocklist' = {}
    /\ peerMessageCounts' = [p \in Peers |-> NoMessages]
    /\ challengeStep' = [c \in ChallengeIds |->
                           IF challengeStep[c] = "unused" THEN "unused" ELSE "over"]
    /\ pendingChallenges' = {}
    /\ requestStep' = [a \in RequestIds |->
                         IF requestStep[a] = "unused" THEN "unused" ELSE "over"]
    /\ attestationCallbacks' = [r \in AttestRounds |-> NoRequest]
    /\ lowest' = [p \in Peers |-> 0]
    /\ allowed' = NoneAllowed
    /\ handling' = [p \in Peers |-> 0]
    /\ heard' = [p \in Peers |-> 0]
    /\ UNCHANGED <<clock, challenged, attestations, settled>>

adjustPeerScore(p, delta) ==
    LET score == peerScores[p] + delta IN
    /\ peerScores' = [peerScores EXCEPT ![p] = score]
    /\ blocklist' = IF score <= -100 THEN blocklist \cup {p} ELSE blocklist
    /\ lowest' = [lowest EXCEPT ![p] = IF score < @ THEN score ELSE @]

(***************************************************************************)
(* Messages.  handleMessage counts every message, blocked peers' too.  A   *)
(* message it lets through is handed on to the brain and the governance    *)
(* when its promise has resolved: a challenge of this node's only after    *)
(* the answer has been published, so that anything may happen in between;  *)
(* any other in the microtasks that follow, which are one step here.       *)
(***************************************************************************)
\* Mutation of Counted: a window starts anew whenever time has passed.
Counted_Anew(p) ==
    LET entry == peerMessageCounts[p] IN
    IF entry.count = 0 \/ clock > entry.windowStart
    THEN [count |-> 1, windowStart |-> clock]
    ELSE [entry EXCEPT !.count = @ + 1]

\* The entry of checkRateLimit after one more message.
Counted(p) ==
    LET entry == peerMessageCounts[p] IN
    IF entry.count = 0 \/ clock - entry.windowStart > RateWindow
    THEN [count |-> 1, windowStart |-> clock]
    ELSE [entry EXCEPT !.count = @ + 1]

\* Mutation of Blocked: the score of the moment decides.
Blocked_ByScore(p) == peerScores[p] <= -100

Blocked(p) == p \in blocklist

rateLimited(p) ==
    /\ Counted(p).count > MAX_MESSAGES_PER_PEER_PER_MINUTE
    /\ peerMessageCounts' = [peerMessageCounts EXCEPT ![p] = Counted(p)]
    /\ adjustPeerScore(p, -10)
    /\ UNCHANGED <<clock, heardVars, challengeVars, requestVars>>

blocklisted(p) ==
    /\ Counted(p).count <= MAX_MESSAGES_PER_PEER_PER_MINUTE
    /\ Blocked(p)
    /\ peerMessageCounts' = [peerMessageCounts EXCEPT ![p] = Counted(p)]
    /\ UNCHANGED <<clock, heardVars, scoreVars, challengeVars, requestVars>>

letThrough(p) ==
    /\ Counted(p).count <= MAX_MESSAGES_PER_PEER_PER_MINUTE
    /\ ~Blocked(p)
    /\ peerMessageCounts' = [peerMessageCounts EXCEPT ![p] = Counted(p)]
    /\ allowed' = [allowed EXCEPT ![p][clock] = @ + 1]
    /\ UNCHANGED clock

\* A challenge of this node: its answer is under way.
handleChallenge(p) ==
    /\ letThrough(p)
    /\ handling' = [handling EXCEPT ![p] = @ + 1]
    /\ UNCHANGED <<heard, scoreVars, challengeVars, requestVars>>

\* The answer to a challenge is published.  The blocklist is not looked at again.
challengeAnswered(p) ==
    /\ handling[p] > 0
    /\ handling' = [handling EXCEPT ![p] = @ - 1]
    /\ heard' = [heard EXCEPT ![p] = @ + 1]
    /\ UNCHANGED <<clock, peerMessageCounts, allowed, scoreVars, challengeVars, requestVars>>

\* Any other message that is let through.
hears(p) ==
    /\ letThrough(p)
    /\ heard' = [heard EXCEPT ![p] = @ + 1]
    /\ UNCHANGED handling

\* One that changes nothing here.
otherMessage(p) ==
    hears(p) /\ UNCHANGED <<scoreVars, challengeVars, requestVars>>

violationReport(p, target) ==
    /\ hears(p)
    /\ adjustPeerScore(target, -5)
    /\ UNCHANGED <<challengeVars, requestVars>>

(***************************************************************************)
(* Challenges.                                                             *)
(***************************************************************************)
\* To a connected peer, drawn at random.
sendChallenge(c, p) ==
    /\ challengeStep[c] = "unused"
    /\ challenged' = [challenged EXCEPT ![c] = p]
    /\ challengeStep' = [challengeStep EXCEPT ![c] = "publishing"]
    /\ pendingChallenges' = pendingChallenges \cup {c}
    /\ UNCHANGED <<clock, settled, scoreVars, messageVars, requestVars>>

\* Mutation of challengePublished: the timeout is set only after an answer.
challengePublished_Late(c) ==
    /\ challengeStep[c] = "publishing"
    /\ c \notin pendingChallenges
    /\ challengeStep' = [challengeStep EXCEPT ![c] = "published"]
    /\ UNCHANGED <<clock, pendingChallenges, challenged, settled, scoreVars, messageVars,
                   requestVars>>

\* The publish is done, and the timeout set.
challengePublished(c) ==
    /\ challengeStep[c] = "publishing"
    /\ challengeStep' = [challengeStep EXCEPT ![c] = "published"]
    /\ UNCHANGED <<clock, pendingChallenges, challenged, settled, scoreVars, messageVars,
                   requestVars>>

settle(c, delta) ==
    /\ settled' = [settled EXCEPT ![c] = @ + 1]
    /\ adjustPeerScore(challenged[c], delta)

challengeTimeout(c) ==
    /\ challengeStep[c] = "published"
    /\ challengeStep' = [challengeStep EXCEPT ![c] = "over"]
    /\ pendingChallenges' = pendingChallenges \ {c}
    /\ IF c \in pendingChallenges THEN settle(c, -20) ELSE UNCHANGED <<settled, scoreVars>>
    /\ UNCHANGED <<clock, challenged, messageVars, requestVars>>

\* Mutation of handleChallengeResponse: the challenge stays in the Map.
handleChallengeResponse_Kept(p, c, correct) ==
    /\ hears(p)
    /\ c \in pendingChallenges
    /\ settle(c, IF correct THEN 5 ELSE -50)
    /\ UNCHANGED <<pendingChallenges, challengeStep, challenged, requestVars>>

\* An answer, from whomever; correct tells whether it is the hash expected.
\* One to a challenge that is not pending is as any other message.
handleChallengeResponse(p, c, correct) ==
    /\ hears(p)
    /\ c \in pendingChallenges
    /\ pendingChallenges' = pendingChallenges \ {c}
    /\ settle(c, IF correct THEN 5 ELSE -50)
    /\ UNCHANGED <<challengeStep, challenged, requestVars>>

(***************************************************************************)
(* Attestations.                                                           *)
(***************************************************************************)
requestAttestation(a) ==
    /\ requestStep[a] = "unused"
    /\ requestStep' = [requestStep EXCEPT ![a] = "publishing"]
    /\ UNCHANGED <<clock, attestations, attestationCallbacks, scoreVars, messageVars,
                   challengeVars>>

\* The publish is done, the timeout is set, and answers for r now go to a.
attestationAwaited(a, r) ==
    /\ requestStep[a] = "publishing"
    /\ requestStep' = [requestStep EXCEPT ![a] = "waiting"]
    /\ attestationCallbacks' = [attestationCallbacks EXCEPT ![r] = a]
    /\ UNCHANGED <<clock, attestations, scoreVars, messageVars, challengeVars>>

\* The callback stays behind.
attestationTimeout(a) ==
    /\ requestStep[a] = "waiting"
    /\ requestStep' = [requestStep EXCEPT ![a] = "resolved"]
    /\ UNCHANGED <<clock, attestations, attestationCallbacks, scoreVars, messageVars,
                   challengeVars>>

\* Mutation of handleAttestationResponse: the answer that completes the set
\* clears the timeout and does not resolve.
handleAttestationResponse_NoResolve(p, r) ==
    LET a == attestationCallbacks[r] IN
    /\ hears(p)
    /\ a # NoRequest
    /\ attestations' = [attestations EXCEPT ![a] = @ + 1]
    /\ IF attestations[a] + 1 >= AttestationsNeeded
       THEN /\ attestationCallbacks' = [attestationCallbacks EXCEPT ![r] = NoRequest]
            /\ requestStep' = [requestStep EXCEPT ![a] = "stuck"]
       ELSE UNCHANGED <<attestationCallbacks, requestStep>>
    /\ UNCHANGED <<scoreVars, challengeVars>>

handleAttestationResponse(p, r) ==
    LET a == attestationCallbacks[r] IN
    /\ hears(p)
    /\ a # NoRequest
    /\ attestations' = [attestations EXCEPT ![a] = @ + 1]
    /\ IF attestations[a] + 1 >= AttestationsNeeded
       THEN /\ attestationCallbacks' = [attestationCallbacks EXCEPT ![r] = NoRequest]
            /\ requestStep' = [requestStep EXCEPT ![a] = "resolved"]
       ELSE UNCHANGED <<attestationCallbacks, requestStep>>
    /\ UNCHANGED <<scoreVars, challengeVars>>

clockTicks ==
    /\ clock < MaxClock
    /\ clock' = clock + 1
    /\ UNCHANGED <<scoreVars, messageVars, challengeVars, requestVars>>

handleMessage(p) ==
    \/ rateLimited(p)
    \/ blocklisted(p)
    \/ handleChallenge(p)
    \/ otherMessage(p)
    \/ \E target \in Peers : violationReport(p, target)
    \/ \E c \in ChallengeIds, correct \in BOOLEAN : handleChallengeResponse(p, c, correct)
    \/ \E r \in AttestRounds : handleAttestationResponse(p, r)

securityTimers ==
    \/ \E c \in ChallengeIds : challengePublished(c) \/ challengeTimeout(c)
    \/ \E a \in RequestIds : attestationTimeout(a)
    \/ \E a \in RequestIds, r \in AttestRounds : attestationAwaited(a, r)

SecurityNext ==
    \/ \E p \in Peers : handleMessage(p) \/ challengeAnswered(p)
    \/ \E c \in ChallengeIds, p \in Peers : sendChallenge(c, p)
    \/ \E a \in RequestIds : requestAttestation(a)
    \/ securityTimers
    \/ clockTicks
    \/ SecurityStops

SecuritySpec == SecurityInit /\ [][SecurityNext]_securityVars

(***************************************************************************)
(* Properties.                                                             *)
(***************************************************************************)
\* Types of the state.
SecurityTypeOK ==
    /\ clock \in 1 .. MaxClock
    /\ peerScores \in [Peers -> Int]
    /\ blocklist \subseteq Peers
    /\ peerMessageCounts \in [Peers -> [count : Nat, windowStart : Nat]]
    /\ challengeStep \in [ChallengeIds -> {"unused", "publishing", "published", "over"}]
    /\ pendingChallenges \subseteq ChallengeIds
    /\ challenged \in [ChallengeIds -> Peers \cup {NoPeer}]
    /\ \A c \in pendingChallenges : challenged[c] \in Peers
    /\ requestStep \in [RequestIds -> {"unused", "publishing", "waiting", "resolved", "over"}]
    /\ attestations \in [RequestIds -> Nat]
    /\ attestationCallbacks \in [AttestRounds -> RequestIds \cup {NoRequest}]
    /\ settled \in [ChallengeIds -> Nat]
    /\ lowest \in [Peers -> Int]
    /\ allowed \in [Peers -> [0 .. MaxClock -> Nat]]
    /\ handling \in [Peers -> Nat]
    /\ heard \in [Peers -> Nat]

\* A challenge changes the score of its peer at most once, though answers
\* and its timeout race, and answers may come more than once, before the
\* publish returns, or after the timeout; one still pending has changed none
\* (pendingChallenges in sendChallenge and handleChallengeResponse).
ChallengeSettledOnce ==
    \A c \in ChallengeIds :
        /\ settled[c] <= 1
        /\ c \in pendingChallenges => settled[c] = 0

\* Every challenge leaves the Map, by an answer, by its timeout, or with the
\* process (setTimeout in sendChallenge).
ChallengesSettle ==
    \A c \in ChallengeIds : c \in pendingChallenges ~> c \notin pendingChallenges

AllowedFrom(p, t) ==
    MapThenSumSet(LAMBDA u : allowed[p][u], t .. Min({t + RateWindow, MaxClock}))

\* In no stretch of time as long as a window does a peer get more than twice
\* the limit of messages through, wherever the windows lie (checkRateLimit).
RateBounded ==
    \A p \in Peers, t \in 0 .. MaxClock :
        AllowedFrom(p, t) <= 2 * MAX_MESSAGES_PER_PEER_PER_MINUTE

\* Once a peer's score has been at -100, it is heard before a restart only
\* with what had been let through by then and is still awaited, and no
\* further message joins that, even if a right answer that another peer
\* relays lifts the score again (blocklist in adjustPeerScore; the check
\* before the await in handleMessage and in src/main.js).
BlockedOnlyHeardOut ==
    [][\A p \in Peers : lowest[p] <= -100 =>
          heard'[p] + handling'[p] <= heard[p] + handling[p]]_securityVars

\* A call that has published its request returns: with enough answers, or
\* with what it has when its time is over, even when a later call for the
\* same round has taken its answers (requestAttestation).
AttestationsResolve ==
    \A a \in RequestIds : requestStep[a] = "publishing" ~> requestStep[a] \in {"resolved", "over"}

=============================================================================
