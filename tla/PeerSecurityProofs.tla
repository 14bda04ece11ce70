------------------------ MODULE PeerSecurityProofs ------------------------
(***************************************************************************)
(* Theorems about the peer security layer, for any peers, any number of    *)
(* challenges, requests and messages, and any limits.                      *)
(***************************************************************************)
EXTENDS PeerSecurity, SumProofs

\* What the proofs use of the assumptions on the constants.
LEMMA SecurityConstants ==
    /\ MaxClock \in Nat \ {0}
    /\ NoRequest \notin RequestIds
  BY SecurityAssumption DEF SecurityAssumption

-----------------------------------------------------------------------------
(***************************************************************************)
(* Types.                                                                  *)
(***************************************************************************)
LEMMA ScoreTypes ==
    ASSUME SecurityTypeOK, NEW p \in Peers, NEW delta \in Int, adjustPeerScore(p, delta)
    PROVE  /\ peerScores' \in [Peers -> Int]
           /\ lowest' \in [Peers -> Int]
           /\ blocklist' \subseteq Peers
  BY DEF SecurityTypeOK, adjustPeerScore

LEMMA CountedType ==
    ASSUME SecurityTypeOK, NEW p \in Peers
    PROVE  Counted(p) \in [count : Nat, windowStart : Nat]
<1>1. clock \in Nat
  BY SecurityConstants DEF SecurityTypeOK
<1>2. peerMessageCounts[p] \in [count : Nat, windowStart : Nat]
  BY DEF SecurityTypeOK
<1>3. QED
  BY <1>1, <1>2 DEF Counted

LEMMA LetThroughTypes ==
    ASSUME SecurityTypeOK, NEW p \in Peers, letThrough(p)
    PROVE  /\ peerMessageCounts' \in [Peers -> [count : Nat, windowStart : Nat]]
           /\ allowed' \in [Peers -> [0 .. MaxClock -> Nat]]
           /\ clock' = clock
<1>1. clock \in 0 .. MaxClock
  BY SecurityConstants DEF SecurityTypeOK
<1>2. allowed[p][clock] \in Nat
  BY <1>1 DEF SecurityTypeOK
<1>3. peerMessageCounts' \in [Peers -> [count : Nat, windowStart : Nat]]
  BY CountedType DEF SecurityTypeOK, letThrough
<1>4. allowed' \in [Peers -> [0 .. MaxClock -> Nat]]
  BY <1>1, <1>2 DEF SecurityTypeOK, letThrough
<1>5. QED
  BY <1>3, <1>4 DEF letThrough

LEMMA HearsTypes ==
    ASSUME SecurityTypeOK, NEW p \in Peers, hears(p)
    PROVE  /\ peerMessageCounts' \in [Peers -> [count : Nat, windowStart : Nat]]
           /\ allowed' \in [Peers -> [0 .. MaxClock -> Nat]]
           /\ handling' \in [Peers -> Nat]
           /\ heard' \in [Peers -> Nat]
           /\ clock' = clock
<1>1. heard' \in [Peers -> Nat] /\ handling' \in [Peers -> Nat]
  BY DEF hears, SecurityTypeOK
<1>2. QED
  BY <1>1, LetThroughTypes DEF hears

LEMMA SecurityInitTypes == SecurityInit => SecurityTypeOK
<1>1. 1 \in 1 .. MaxClock
  BY SecurityConstants
<1>2. QED
  BY <1>1 DEF SecurityInit, SecurityTypeOK, NoMessages, NoneAllowed

LEMMA handleMessageTypes ==
    ASSUME SecurityTypeOK, NEW p \in Peers, handleMessage(p)
    PROVE  SecurityTypeOK'
<1>1. CASE rateLimited(p)
  <2>1. -10 \in Int
    OBVIOUS
  <2>2. adjustPeerScore(p, -10)
    BY <1>1 DEF rateLimited
  <2>3. peerMessageCounts' \in [Peers -> [count : Nat, windowStart : Nat]]
    BY <1>1, CountedType DEF rateLimited, SecurityTypeOK
  <2>4. /\ peerScores' \in [Peers -> Int]
        /\ lowest' \in [Peers -> Int]
        /\ blocklist' \subseteq Peers
    BY <2>1, <2>2, ScoreTypes
  <2>5. QED
    BY <1>1, <2>3, <2>4
    DEF rateLimited, heardVars, challengeVars, requestVars, SecurityTypeOK
<1>2. CASE blocklisted(p)
  BY <1>2, CountedType
  DEF blocklisted, heardVars, scoreVars, challengeVars, requestVars, SecurityTypeOK
<1>3. CASE otherMessage(p)
  <2>1. hears(p)
    BY <1>3 DEF otherMessage
  <2>2. QED
    BY <1>3, <2>1, HearsTypes
    DEF otherMessage, scoreVars, challengeVars, requestVars, SecurityTypeOK
<1>4. ASSUME NEW target \in Peers, violationReport(p, target)
      PROVE  SecurityTypeOK'
  <2>1. hears(p) /\ adjustPeerScore(target, -5) /\ -5 \in Int
    BY <1>4 DEF violationReport
  <2>2. /\ peerScores' \in [Peers -> Int]
        /\ lowest' \in [Peers -> Int]
        /\ blocklist' \subseteq Peers
    BY <2>1, ScoreTypes
  <2>3. QED
    BY <1>4, <2>1, <2>2, HearsTypes
    DEF violationReport, challengeVars, requestVars, SecurityTypeOK
<1>5. ASSUME NEW c \in ChallengeIds, NEW correct \in BOOLEAN,
             handleChallengeResponse(p, c, correct)
      PROVE  SecurityTypeOK'
  <2> DEFINE delta == IF correct THEN 5 ELSE -50
  <2>1. /\ hears(p) /\ c \in pendingChallenges
        /\ adjustPeerScore(challenged[c], delta)
        /\ pendingChallenges' = pendingChallenges \ {c}
        /\ settled' = [settled EXCEPT ![c] = @ + 1]
        /\ UNCHANGED <<challengeStep, challenged, requestVars>>
    BY <1>5 DEF handleChallengeResponse, settle
  <2>2. challenged[c] \in Peers /\ delta \in Int
    BY <2>1 DEF SecurityTypeOK
  <2>3. /\ peerScores' \in [Peers -> Int]
        /\ lowest' \in [Peers -> Int]
        /\ blocklist' \subseteq Peers
    BY <2>1, <2>2, ScoreTypes
  <2>4. /\ settled' \in [ChallengeIds -> Nat]
        /\ pendingChallenges' \subseteq ChallengeIds
        /\ \A d \in pendingChallenges' : challenged'[d] \in Peers
    BY <2>1 DEF SecurityTypeOK
  <2>5. /\ peerMessageCounts' \in [Peers -> [count : Nat, windowStart : Nat]]
        /\ allowed' \in [Peers -> [0 .. MaxClock -> Nat]]
        /\ handling' \in [Peers -> Nat]
        /\ heard' \in [Peers -> Nat]
        /\ clock' = clock
    BY <2>1, HearsTypes
  <2>6. QED
    BY <2>1, <2>3, <2>4, <2>5 DEF requestVars, SecurityTypeOK
<1>6. ASSUME NEW r \in AttestRounds, handleAttestationResponse(p, r)
      PROVE  SecurityTypeOK'
  <2> DEFINE a == attestationCallbacks[r]
  <2>1. hears(p) /\ a # NoRequest
    BY <1>6 DEF handleAttestationResponse
  <2>2. a \in RequestIds
    BY <2>1 DEF SecurityTypeOK
  <2>3. attestations' = [attestations EXCEPT ![a] = @ + 1]
    BY <1>6 DEF handleAttestationResponse
  <2>4. attestations' \in [RequestIds -> Nat]
    BY <2>2, <2>3 DEF SecurityTypeOK
  <2>5. \/ /\ attestationCallbacks' = [attestationCallbacks EXCEPT ![r] = NoRequest]
           /\ requestStep' = [requestStep EXCEPT ![a] = "resolved"]
        \/ UNCHANGED <<attestationCallbacks, requestStep>>
    BY <1>6 DEF handleAttestationResponse
  <2>6. /\ attestationCallbacks' \in [AttestRounds -> RequestIds \cup {NoRequest}]
        /\ requestStep' \in [RequestIds -> {"unused", "publishing", "waiting", "resolved", "over"}]
    BY <2>2, <2>5 DEF SecurityTypeOK
  <2>7. QED
    BY <1>6, <2>1, <2>4, <2>6, HearsTypes
    DEF handleAttestationResponse, scoreVars, challengeVars, SecurityTypeOK
<1>7. CASE handleChallenge(p)
  <2>1. letThrough(p) /\ handling' \in [Peers -> Nat]
    BY <1>7 DEF handleChallenge, SecurityTypeOK
  <2>2. QED
    BY <1>7, <2>1, LetThroughTypes
    DEF handleChallenge, scoreVars, challengeVars, requestVars, SecurityTypeOK
<1>8. QED
  BY <1>1, <1>2, <1>3, <1>4, <1>5, <1>6, <1>7 DEF handleMessage

LEMMA securityTimersTypes ==
    ASSUME SecurityTypeOK, securityTimers
    PROVE  SecurityTypeOK'
<1>1. ASSUME NEW c \in ChallengeIds, challengePublished(c)
      PROVE  SecurityTypeOK'
  BY <1>1 DEF challengePublished, scoreVars, messageVars, heardVars, requestVars, SecurityTypeOK
<1>2. ASSUME NEW c \in ChallengeIds, challengeTimeout(c)
      PROVE  SecurityTypeOK'
  <2>1. CASE c \in pendingChallenges
    <3>1. challenged[c] \in Peers /\ -20 \in Int
      BY <2>1 DEF SecurityTypeOK
    <3>2. adjustPeerScore(challenged[c], -20) /\ settled' = [settled EXCEPT ![c] = @ + 1]
      BY <1>2, <2>1 DEF challengeTimeout, settle
    <3>3. /\ peerScores' \in [Peers -> Int]
          /\ lowest' \in [Peers -> Int]
          /\ blocklist' \subseteq Peers
      BY <3>1, <3>2, ScoreTypes
    <3>4. /\ settled' \in [ChallengeIds -> Nat]
          /\ challengeStep' \in [ChallengeIds -> {"unused", "publishing", "published", "over"}]
          /\ pendingChallenges' \subseteq ChallengeIds
          /\ \A d \in pendingChallenges' : challenged'[d] \in Peers
      BY <1>2, <3>2 DEF challengeTimeout, SecurityTypeOK
    <3>5. QED
      BY <1>2, <3>3, <3>4
      DEF challengeTimeout, messageVars, heardVars, requestVars, SecurityTypeOK
  <2>2. CASE c \notin pendingChallenges
    BY <1>2, <2>2 DEF challengeTimeout, scoreVars, messageVars, heardVars, requestVars, SecurityTypeOK
  <2>3. QED
    BY <2>1, <2>2
<1>3. ASSUME NEW a \in RequestIds, attestationTimeout(a)
      PROVE  SecurityTypeOK'
  BY <1>3 DEF attestationTimeout, scoreVars, messageVars, heardVars, challengeVars, SecurityTypeOK
<1>4. ASSUME NEW a \in RequestIds, NEW r \in AttestRounds, attestationAwaited(a, r)
      PROVE  SecurityTypeOK'
  BY <1>4 DEF attestationAwaited, scoreVars, messageVars, heardVars, challengeVars, SecurityTypeOK
<1>5. QED
  BY <1>1, <1>2, <1>3, <1>4 DEF securityTimers

LEMMA SecurityNextTypes ==
    ASSUME SecurityTypeOK, [SecurityNext]_securityVars
    PROVE  SecurityTypeOK'
<1>1. ASSUME NEW p \in Peers, handleMessage(p)
      PROVE  SecurityTypeOK'
  BY <1>1, handleMessageTypes
<1>2. ASSUME NEW c \in ChallengeIds, NEW p \in Peers, sendChallenge(c, p)
      PROVE  SecurityTypeOK'
  <2>1. /\ challengeStep' \in [ChallengeIds -> {"unused", "publishing", "published", "over"}]
        /\ challenged' \in [ChallengeIds -> Peers \cup {NoPeer}]
        /\ pendingChallenges' \subseteq ChallengeIds
        /\ \A d \in pendingChallenges' : challenged'[d] \in Peers
    BY <1>2 DEF sendChallenge, SecurityTypeOK
  <2>2. QED
    BY <1>2, <2>1
    DEF sendChallenge, scoreVars, messageVars, heardVars, requestVars, SecurityTypeOK
<1>3. ASSUME NEW a \in RequestIds, requestAttestation(a)
      PROVE  SecurityTypeOK'
  BY <1>3 DEF requestAttestation, scoreVars, messageVars, heardVars, challengeVars, SecurityTypeOK
<1>4. CASE securityTimers
  BY <1>4, securityTimersTypes
<1>5. CASE clockTicks
  BY <1>5, SecurityConstants
  DEF clockTicks, scoreVars, messageVars, heardVars, challengeVars, requestVars, SecurityTypeOK
<1>6. CASE SecurityStops
  BY <1>6 DEF SecurityStops, NoMessages, NoneAllowed, SecurityTypeOK
<1>7. CASE UNCHANGED securityVars
  BY <1>7 DEF securityVars, SecurityTypeOK
<1>8. ASSUME NEW p \in Peers, challengeAnswered(p)
      PROVE  SecurityTypeOK'
  <2>1. handling' \in [Peers -> Nat] /\ heard' \in [Peers -> Nat]
    BY <1>8 DEF challengeAnswered, SecurityTypeOK
  <2>2. QED
    BY <1>8, <2>1
    DEF challengeAnswered, scoreVars, challengeVars, requestVars, SecurityTypeOK
<1>9. QED
  BY <1>1, <1>2, <1>3, <1>4, <1>5, <1>6, <1>7, <1>8 DEF SecurityNext

\* The types of the state hold in every state (SecurityTypeOK).
THEOREM SecurityTypes == SecuritySpec => []SecurityTypeOK
<1>1. SecurityInit => SecurityTypeOK
  BY SecurityInitTypes
<1>2. SecurityTypeOK /\ [SecurityNext]_securityVars => SecurityTypeOK'
  BY SecurityNextTypes
<1>3. QED
  BY <1>1, <1>2, PTL DEF SecuritySpec

-----------------------------------------------------------------------------
(***************************************************************************)
(* A challenge is settled once.  An id that has not been drawn is in no    *)
(* Map and has settled nothing; that is what makes drawing it safe.        *)
(***************************************************************************)
ChallengeInv ==
    /\ ChallengeSettledOnce
    /\ \A c \in ChallengeIds :
          challengeStep[c] = "unused" => c \notin pendingChallenges /\ settled[c] = 0

LEMMA SettleOnce ==
    ASSUME SecurityTypeOK, ChallengeInv, NEW c \in pendingChallenges,
           settled' = [settled EXCEPT ![c] = @ + 1],
           pendingChallenges' = pendingChallenges \ {c},
           \A d \in ChallengeIds : challengeStep'[d] = "unused" => challengeStep[d] = "unused"
    PROVE  ChallengeInv'
<1>1. c \in ChallengeIds /\ settled[c] = 0 /\ challengeStep[c] # "unused"
  BY DEF SecurityTypeOK, ChallengeInv, ChallengeSettledOnce
<1>2. \A d \in ChallengeIds : settled'[d] = IF d = c THEN 1 ELSE settled[d]
  BY <1>1 DEF SecurityTypeOK
<1>3. QED
  BY <1>1, <1>2 DEF ChallengeInv, ChallengeSettledOnce

LEMMA ChallengeInvStep ==
    ASSUME SecurityTypeOK, ChallengeInv, [SecurityNext]_securityVars
    PROVE  ChallengeInv'
<1>1. ASSUME UNCHANGED challengeVars
      PROVE  ChallengeInv'
  BY <1>1 DEF challengeVars, ChallengeInv, ChallengeSettledOnce
<1>2. ASSUME NEW p \in Peers, handleMessage(p)
      PROVE  ChallengeInv'
  <2>1. ASSUME NEW c \in ChallengeIds, NEW correct \in BOOLEAN,
               handleChallengeResponse(p, c, correct)
        PROVE  ChallengeInv'
    <3>1. /\ c \in pendingChallenges
          /\ settled' = [settled EXCEPT ![c] = @ + 1]
          /\ pendingChallenges' = pendingChallenges \ {c}
          /\ challengeStep' = challengeStep
      BY <2>1 DEF handleChallengeResponse, settle
    <3>2. QED
      BY <3>1, SettleOnce
  <2>2. ASSUME ~ \E c \in ChallengeIds, correct \in BOOLEAN :
                    handleChallengeResponse(p, c, correct)
        PROVE  UNCHANGED challengeVars
    BY <1>2, <2>2
    DEF handleMessage, rateLimited, blocklisted, handleChallenge, otherMessage,
        violationReport, handleAttestationResponse
  <2>3. QED
    BY <1>1, <2>1, <2>2
<1>3. ASSUME NEW c \in ChallengeIds, NEW p \in Peers, sendChallenge(c, p)
      PROVE  ChallengeInv'
  BY <1>3 DEF sendChallenge, ChallengeInv, ChallengeSettledOnce, SecurityTypeOK
<1>4. ASSUME NEW c \in ChallengeIds, challengePublished(c)
      PROVE  ChallengeInv'
  BY <1>4 DEF challengePublished, ChallengeInv, ChallengeSettledOnce, SecurityTypeOK
<1>5. ASSUME NEW c \in ChallengeIds, challengeTimeout(c)
      PROVE  ChallengeInv'
  <2>1. \A d \in ChallengeIds : challengeStep'[d] = "unused" => challengeStep[d] = "unused"
    BY <1>5 DEF challengeTimeout, SecurityTypeOK
  <2>2. CASE c \in pendingChallenges
    <3>1. /\ settled' = [settled EXCEPT ![c] = @ + 1]
          /\ pendingChallenges' = pendingChallenges \ {c}
      BY <1>5, <2>2 DEF challengeTimeout, settle
    <3>2. QED
      BY <2>1, <2>2, <3>1, SettleOnce
  <2>3. CASE c \notin pendingChallenges
    BY <1>5, <2>1, <2>3
    DEF challengeTimeout, ChallengeInv, ChallengeSettledOnce, SecurityTypeOK
  <2>4. QED
    BY <2>2, <2>3
<1>6. CASE SecurityStops
  <2>1. settled' = settled /\ pendingChallenges' = {}
    BY <1>6 DEF SecurityStops
  <2>2. \A d \in ChallengeIds : challengeStep'[d] = "unused" => challengeStep[d] = "unused"
    BY <1>6 DEF SecurityStops
  <2>3. QED
    BY <2>1, <2>2 DEF ChallengeInv, ChallengeSettledOnce
<1>7. ASSUME \/ \E a \in RequestIds : requestAttestation(a)
             \/ \E a \in RequestIds : attestationTimeout(a)
             \/ \E a \in RequestIds, r \in AttestRounds : attestationAwaited(a, r)
             \/ \E p \in Peers : challengeAnswered(p)
             \/ clockTicks
             \/ UNCHANGED securityVars
      PROVE  UNCHANGED challengeVars
  BY <1>7
  DEF challengeAnswered, requestAttestation, attestationTimeout, attestationAwaited, clockTicks, securityVars,
      challengeVars
<1>8. QED
  BY <1>1, <1>2, <1>3, <1>4, <1>5, <1>6, <1>7 DEF SecurityNext, securityTimers

\* A challenge changes the score of its peer at most once, whatever the order
\* of answers and timeouts, and over restarts (ChallengeSettledOnce).
THEOREM ChallengesSettledOnce == SecuritySpec => []ChallengeSettledOnce
<1>1. SecurityInit => ChallengeInv
  BY DEF SecurityInit, ChallengeInv, ChallengeSettledOnce
<1>2. SecurityTypeOK /\ ChallengeInv /\ [SecurityNext]_securityVars => ChallengeInv'
  BY ChallengeInvStep
<1>3. ChallengeInv => ChallengeSettledOnce
  BY DEF ChallengeInv
<1>4. QED
  BY <1>1, <1>2, <1>3, SecurityTypes, PTL DEF SecuritySpec

-----------------------------------------------------------------------------
(***************************************************************************)
(* A blocked peer is not heard.  The blocklist is checked, not the score:  *)
(* it holds every peer whose score has once been at -100.                  *)
(***************************************************************************)
BlockInv == \A p \in Peers : lowest[p] <= -100 => p \in blocklist

LEMMA ScoreBlocks ==
    ASSUME SecurityTypeOK, BlockInv, NEW p \in Peers, NEW delta \in Int,
           adjustPeerScore(p, delta)
    PROVE  BlockInv'
<1> DEFINE score == peerScores[p] + delta
<1>1. /\ lowest' = [lowest EXCEPT ![p] = IF score < @ THEN score ELSE @]
      /\ blocklist' = IF score <= -100 THEN blocklist \cup {p} ELSE blocklist
  BY DEF adjustPeerScore
<1>2. score \in Int /\ lowest[p] \in Int
  BY DEF SecurityTypeOK
<1>3. \A q \in Peers : lowest'[q] = IF q = p /\ score < lowest[p] THEN score ELSE lowest[q]
  BY <1>1 DEF SecurityTypeOK
<1> HIDE DEF score
<1>4. QED
  BY <1>1, <1>2, <1>3 DEF BlockInv

LEMMA BlockInvStep ==
    ASSUME SecurityTypeOK, BlockInv, [SecurityNext]_securityVars
    PROVE  BlockInv'
<1>1. ASSUME UNCHANGED scoreVars
      PROVE  BlockInv'
  BY <1>1 DEF scoreVars, BlockInv
<1>2. ASSUME NEW p \in Peers, handleMessage(p)
      PROVE  BlockInv'
  <2>1. CASE rateLimited(p)
    <3>1. adjustPeerScore(p, -10) /\ -10 \in Int
      BY <2>1 DEF rateLimited
    <3>2. QED
      BY <3>1, ScoreBlocks
  <2>2. ASSUME NEW target \in Peers, violationReport(p, target)
        PROVE  BlockInv'
    <3>1. adjustPeerScore(target, -5) /\ -5 \in Int
      BY <2>2 DEF violationReport
    <3>2. QED
      BY <3>1, ScoreBlocks
  <2>3. ASSUME NEW c \in ChallengeIds, NEW correct \in BOOLEAN,
               handleChallengeResponse(p, c, correct)
        PROVE  BlockInv'
    <3> DEFINE delta == IF correct THEN 5 ELSE -50
    <3>1. c \in pendingChallenges /\ adjustPeerScore(challenged[c], delta) /\ delta \in Int
      BY <2>3 DEF handleChallengeResponse, settle
    <3>2. challenged[c] \in Peers
      BY <3>1 DEF SecurityTypeOK
    <3>3. QED
      BY <3>1, <3>2, ScoreBlocks
  <2>4. ASSUME \/ blocklisted(p) \/ handleChallenge(p) \/ otherMessage(p)
               \/ \E r \in AttestRounds : handleAttestationResponse(p, r)
        PROVE  UNCHANGED scoreVars
    BY <2>4 DEF blocklisted, handleChallenge, otherMessage, handleAttestationResponse
  <2>5. QED
    BY <1>1, <1>2, <2>1, <2>2, <2>3, <2>4 DEF handleMessage
<1>3. ASSUME NEW c \in ChallengeIds, challengeTimeout(c)
      PROVE  BlockInv'
  <2>1. CASE c \in pendingChallenges
    <3>1. adjustPeerScore(challenged[c], -20) /\ -20 \in Int
      BY <1>3, <2>1 DEF challengeTimeout, settle
    <3>2. challenged[c] \in Peers
      BY <2>1 DEF SecurityTypeOK
    <3>3. QED
      BY <3>1, <3>2, ScoreBlocks
  <2>2. CASE c \notin pendingChallenges
    BY <1>1, <1>3, <2>2 DEF challengeTimeout
  <2>3. QED
    BY <2>1, <2>2
<1>4. CASE SecurityStops
  BY <1>4 DEF SecurityStops, BlockInv
<1>5. ASSUME \/ \E c \in ChallengeIds, p \in Peers : sendChallenge(c, p)
             \/ \E c \in ChallengeIds : challengePublished(c)
             \/ \E a \in RequestIds : requestAttestation(a)
             \/ \E a \in RequestIds : attestationTimeout(a)
             \/ \E a \in RequestIds, r \in AttestRounds : attestationAwaited(a, r)
             \/ \E p \in Peers : challengeAnswered(p)
             \/ clockTicks
             \/ UNCHANGED securityVars
      PROVE  UNCHANGED scoreVars
  BY <1>5
  DEF challengeAnswered, sendChallenge, challengePublished, requestAttestation, attestationTimeout,
      attestationAwaited, clockTicks, securityVars, scoreVars
<1>6. QED
  BY <1>1, <1>2, <1>3, <1>4, <1>5 DEF SecurityNext, securityTimers

\* What is heard of a peer and is on its way to be heard grows only by a
\* message that is let through, and a blocked peer's is not.
LEMMA HeardStep ==
    ASSUME SecurityTypeOK, BlockInv, [SecurityNext]_securityVars,
           NEW p \in Peers, lowest[p] <= -100
    PROVE  heard'[p] + handling'[p] <= heard[p] + handling[p]
<1> USE DEF SecurityTypeOK
<1>1. heard[p] \in Nat /\ handling[p] \in Nat
  OBVIOUS
<1>2. ASSUME heard' = heard, handling' = handling
      PROVE  heard'[p] + handling'[p] <= heard[p] + handling[p]
  BY <1>1, <1>2
<1>3. ASSUME NEW q \in Peers, handleMessage(q)
      PROVE  heard'[p] + handling'[p] <= heard[p] + handling[p]
  <2>1. CASE letThrough(q)
    <3>1. q # p
      BY <2>1 DEF letThrough, Blocked, BlockInv
    <3>2. \/ heard' = [heard EXCEPT ![q] = @ + 1] /\ handling' = handling
          \/ handling' = [handling EXCEPT ![q] = @ + 1] /\ heard' = heard
          \/ heard' = heard /\ handling' = handling
      BY <1>3
      DEF handleMessage, rateLimited, blocklisted, heardVars, handleChallenge, otherMessage,
          violationReport, handleChallengeResponse, handleAttestationResponse, hears
    <3>3. heard'[p] = heard[p] /\ handling'[p] = handling[p]
      BY <3>1, <3>2
    <3>4. QED
      BY <1>1, <3>3
  <2>2. CASE ~letThrough(q)
    <3>1. heard' = heard /\ handling' = handling
      BY <1>3, <2>2
      DEF handleMessage, rateLimited, blocklisted, heardVars, handleChallenge, otherMessage,
          violationReport, handleChallengeResponse, handleAttestationResponse, hears
    <3>2. QED
      BY <1>2, <3>1
  <2>3. QED
    BY <2>1, <2>2
<1>4. ASSUME NEW q \in Peers, challengeAnswered(q)
      PROVE  heard'[p] + handling'[p] <= heard[p] + handling[p]
  <2>1. /\ heard' = [heard EXCEPT ![q] = @ + 1]
        /\ handling' = [handling EXCEPT ![q] = @ - 1]
    BY <1>4 DEF challengeAnswered
  <2>2. CASE q = p
    BY <1>1, <2>1, <2>2
  <2>3. CASE q # p
    BY <1>1, <2>1, <2>3
  <2>4. QED
    BY <2>2, <2>3
<1>5. CASE SecurityStops
  <2>1. heard'[p] = 0 /\ handling'[p] = 0
    BY <1>5 DEF SecurityStops
  <2>2. QED
    BY <1>1, <2>1
<1>6. ASSUME \/ \E c \in ChallengeIds, q \in Peers : sendChallenge(c, q)
             \/ \E a \in RequestIds : requestAttestation(a)
             \/ securityTimers
             \/ clockTicks
             \/ UNCHANGED securityVars
      PROVE  heard' = heard /\ handling' = handling
  BY <1>6
  DEF sendChallenge, requestAttestation, securityTimers, challengePublished,
      challengeTimeout, attestationTimeout, attestationAwaited, clockTicks, securityVars,
      messageVars, heardVars
<1>7. QED
  BY <1>2, <1>3, <1>4, <1>5, <1>6 DEF SecurityNext

\* Once a peer's score has been at -100, it is heard before a restart only
\* with the challenges that were being answered by then (BlockedOnlyHeardOut).
THEOREM BlockedPeersOnlyHeardOut == SecuritySpec => BlockedOnlyHeardOut
<1>1. SecurityInit => BlockInv
  BY DEF SecurityInit, BlockInv
<1>2. SecurityTypeOK /\ BlockInv /\ [SecurityNext]_securityVars => BlockInv'
  BY BlockInvStep
<1>3. SecurityTypeOK /\ BlockInv /\ [SecurityNext]_securityVars =>
        [\A p \in Peers : lowest[p] <= -100 =>
            heard'[p] + handling'[p] <= heard[p] + handling[p]]_securityVars
  BY HeardStep
<1>4. QED
  BY <1>1, <1>2, <1>3, SecurityTypes, PTL DEF SecuritySpec, BlockedOnlyHeardOut

-----------------------------------------------------------------------------
(***************************************************************************)
(* The rate limit.  A window opens later than RateWindow after the one     *)
(* before it, so that a stretch of RateWindow ticks that reaches into a    *)
(* window lies in that window and in the RateWindow ticks before it, which *)
(* belong to one window only: it meets at most two limits.                 *)
(***************************************************************************)
Limit == MAX_MESSAGES_PER_PEER_PER_MINUTE

Stretch(a, b) == {u \in 0 .. MaxClock : a <= u /\ u <= b}

\* f are the messages let through at each time; the window was opened at start,
\* has counted count messages, and it is t now.
WindowInv(f, count, start, t) ==
    /\ start <= t
    /\ \A u \in 0 .. MaxClock : f[u] # 0 => count > 0 /\ u <= t /\ u <= start + RateWindow
    /\ Total(f, Stretch(start, MaxClock)) <= count
    /\ Total(f, Stretch(start, MaxClock)) <= Limit
    /\ Total(f, Stretch(start - RateWindow, start - 1)) <= Limit
    /\ \A a \in 0 .. MaxClock : Total(f, Stretch(a, a + RateWindow)) <= 2 * Limit

LEMMA RateConstants == Limit \in Nat /\ RateWindow \in Nat /\ MaxClock \in Nat
  BY SecurityAssumption DEF SecurityAssumption, Limit

LEMMA StretchFinite ==
    ASSUME NEW a, NEW b
    PROVE  IsFiniteSet(Stretch(a, b)) /\ Stretch(a, b) \subseteq 0 .. MaxClock
<1>1. IsFiniteSet(0 .. MaxClock)
  BY RateConstants, FS_Interval
<1>2. Stretch(a, b) \subseteq 0 .. MaxClock
  BY DEF Stretch
<1>3. QED
  BY <1>1, <1>2, FS_Subset

LEMMA StretchSum ==
    ASSUME NEW f \in [0 .. MaxClock -> Nat], NEW a, NEW b
    PROVE  Total(f, Stretch(a, b)) \in Nat
  BY StretchFinite, TotalType

\* The sum of the property.
LEMMA AllowedIsTotal ==
    ASSUME NEW p \in Peers, NEW t \in 0 .. MaxClock
    PROVE  AllowedFrom(p, t) = Total(allowed[p], Stretch(t, t + RateWindow))
<1> DEFINE last == Min({t + RateWindow, MaxClock})
<1>1. last = IF t + RateWindow <= MaxClock THEN t + RateWindow ELSE MaxClock
  BY RateConstants DEF Min
<1>2. t .. last = Stretch(t, t + RateWindow)
  BY <1>1, RateConstants DEF Stretch
<1>3. AllowedFrom(p, t) = Total(allowed[p], t .. last)
  BY DEF AllowedFrom, MapThenSumSet, MapThenFoldSet, Total, Unfolds, Picked
<1>4. QED
  BY <1>2, <1>3

\* A window that has just been entered: opened anew, or the one that was open.
LEMMA WindowEntered ==
    ASSUME NEW f \in [0 .. MaxClock -> Nat], NEW count \in Nat, NEW start \in Nat,
           NEW t \in 0 .. MaxClock, WindowInv(f, count, start, t),
           NEW c \in Nat, NEW s \in Nat,
           IF count = 0 \/ t - start > RateWindow THEN c = 1 /\ s = t
                                                  ELSE c = count + 1 /\ s = start
    PROVE  /\ s <= t /\ t <= s + RateWindow /\ c > 0
           /\ Total(f, Stretch(s, MaxClock)) < c
           /\ Total(f, Stretch(s, MaxClock)) <= Limit
           /\ Total(f, Stretch(s - RateWindow, s - 1)) <= Limit
<1>1. CASE count = 0 \/ t - start > RateWindow
  <2>1. c = 1 /\ s = t
    BY <1>1
  <2>2. \A u \in Stretch(s, MaxClock) : f[u] = 0
    BY <1>1, <2>1, RateConstants DEF Stretch, WindowInv
  <2>3. Total(f, Stretch(s, MaxClock)) = 0
    BY <2>2, StretchFinite, TotalOfZeros
  <2>4. Total(f, Stretch(s - RateWindow, s - 1)) <= Limit
    <3>1. CASE count = 0
      <4>1. \A u \in Stretch(s - RateWindow, s - 1) : f[u] = 0
        BY <3>1 DEF Stretch, WindowInv
      <4>2. Total(f, Stretch(s - RateWindow, s - 1)) = 0
        BY <4>1, StretchFinite, TotalOfZeros
      <4>3. QED
        BY <4>2, RateConstants
    <3>2. CASE t - start > RateWindow
      <4>1. Stretch(s - RateWindow, s - 1) \subseteq Stretch(start, MaxClock)
        BY <2>1, <3>2, RateConstants DEF Stretch
      <4>2. \A u \in Stretch(start, MaxClock) : f[u] \in Nat
        BY StretchFinite
      <4>3. Total(f, Stretch(s - RateWindow, s - 1)) <= Total(f, Stretch(start, MaxClock))
        BY <4>1, <4>2, StretchFinite, TotalMonotone
      <4>4. Total(f, Stretch(start, MaxClock)) <= Limit
        BY DEF WindowInv
      <4>5. /\ Total(f, Stretch(s - RateWindow, s - 1)) \in Nat
            /\ Total(f, Stretch(start, MaxClock)) \in Nat
        BY StretchSum
      <4>6. QED
        BY <4>3, <4>4, <4>5, RateConstants
    <3>3. QED
      BY <1>1, <3>1, <3>2
  <2>5. QED
    BY <2>1, <2>3, <2>4, RateConstants
<1>2. CASE ~ (count = 0 \/ t - start > RateWindow)
  BY <1>2, StretchSum, RateConstants DEF WindowInv
<1>3. QED
  BY <1>1, <1>2

\* A message counted in its window, whether it is let through or not.
LEMMA WindowCounts ==
    ASSUME NEW f \in [0 .. MaxClock -> Nat], NEW count \in Nat, NEW start \in Nat,
           NEW t \in 0 .. MaxClock, WindowInv(f, count, start, t),
           NEW c \in Nat, NEW s \in Nat,
           IF count = 0 \/ t - start > RateWindow THEN c = 1 /\ s = t
                                                  ELSE c = count + 1 /\ s = start,
           NEW g, g = f \/ (c <= Limit /\ g = [f EXCEPT ![t] = @ + 1])
    PROVE  WindowInv(g, c, s, t)
<1>1. /\ s <= t /\ t <= s + RateWindow /\ c > 0
      /\ Total(f, Stretch(s, MaxClock)) < c
      /\ Total(f, Stretch(s, MaxClock)) <= Limit
      /\ Total(f, Stretch(s - RateWindow, s - 1)) <= Limit
  BY WindowEntered
<1>2. \A u \in 0 .. MaxClock : f[u] # 0 => u <= t
  BY DEF WindowInv
<1>3. CASE g = f
  <2>1. \A u \in 0 .. MaxClock : f[u] # 0 => c > 0 /\ u <= t /\ u <= s + RateWindow
    BY <1>1, <1>2, RateConstants
  <2>2. Total(f, Stretch(s, MaxClock)) <= c
    BY <1>1, StretchSum
  <2>3. QED
    BY <1>1, <1>3, <2>1, <2>2 DEF WindowInv
<1>4. CASE c <= Limit /\ g = [f EXCEPT ![t] = @ + 1]
  <2>1. /\ g \in [0 .. MaxClock -> Nat] /\ g[t] = f[t] + 1
        /\ \A u \in (0 .. MaxClock) \ {t} : g[u] = f[u]
    BY <1>4
  <2>2. ASSUME NEW a, NEW b, t \in Stretch(a, b)
        PROVE  Total(g, Stretch(a, b)) = Total(f, Stretch(a, b)) + 1
    <3>1. \A u \in Stretch(a, b) : f[u] \in Nat
      BY StretchFinite
    <3>2. \A u \in Stretch(a, b) \ {t} : g[u] = f[u]
      BY <2>1, StretchFinite
    <3>3. QED
      BY <2>1, <2>2, <3>1, <3>2, StretchFinite, TotalCounts
  <2>3. ASSUME NEW a, NEW b, t \notin Stretch(a, b)
        PROVE  Total(g, Stretch(a, b)) = Total(f, Stretch(a, b))
    <3>1. \A u \in Stretch(a, b) : g[u] = f[u]
      BY <2>1, <2>3, StretchFinite
    <3>2. QED
      BY <3>1, StretchFinite, TotalDepends
  <2>4. Total(g, Stretch(s, MaxClock)) <= c /\ Total(g, Stretch(s, MaxClock)) <= Limit
    <3>1. t \in Stretch(s, MaxClock)
      BY <1>1 DEF Stretch
    <3>2. Total(g, Stretch(s, MaxClock)) = Total(f, Stretch(s, MaxClock)) + 1
      BY <2>2, <3>1
    <3>3. Total(f, Stretch(s, MaxClock)) \in Nat
      BY StretchSum
    <3>4. QED
      BY <1>1, <1>4, <3>2, <3>3, RateConstants
  <2>5. Total(g, Stretch(s - RateWindow, s - 1)) <= Limit
    <3>1. t \notin Stretch(s - RateWindow, s - 1)
      BY <1>1 DEF Stretch
    <3>2. QED
      BY <1>1, <2>3, <3>1
  <2>6. ASSUME NEW a \in 0 .. MaxClock
        PROVE  Total(g, Stretch(a, a + RateWindow)) <= 2 * Limit
    <3>1. CASE t \notin Stretch(a, a + RateWindow)
      BY <2>3, <3>1 DEF WindowInv
    <3>2. CASE t \in Stretch(a, a + RateWindow)
      <4> DEFINE before == Stretch(s - RateWindow, s - 1)
                 within == Stretch(s, MaxClock)
                 all    == Stretch(a, a + RateWindow)
      <4>1. all \subseteq before \cup within
        <5>1. a <= t /\ t <= a + RateWindow
          BY <3>2 DEF Stretch
        <5>2. ASSUME NEW u \in 0 .. MaxClock, a <= u
              PROVE  (s - RateWindow <= u /\ u <= s - 1) \/ (s <= u /\ u <= MaxClock)
          BY <1>1, <5>1, <5>2, RateConstants
        <5>3. QED
          BY <5>2 DEF Stretch
      <4>2. IsFiniteSet(before) /\ IsFiniteSet(within) /\ \A u \in before \cup within : g[u] \in Nat
        BY <2>1, StretchFinite
      <4>3. Total(g, before) \in Nat /\ Total(g, within) \in Nat /\ Total(g, all) \in Nat
        BY <2>1, StretchSum
      <4>4. Total(g, before) <= Limit /\ Total(g, within) <= Limit
        BY <2>4, <2>5
      <4> HIDE DEF before, within, all
      <4>5. Total(g, all) <= Total(g, before) + Total(g, within)
        BY <4>1, <4>2, TotalCover
      <4>6. Total(g, all) <= 2 * Limit
        BY <4>3, <4>4, <4>5, RateConstants
      <4>7. QED
        BY <4>6 DEF all
    <3>3. QED
      BY <3>1, <3>2
  <2>7. \A u \in 0 .. MaxClock : g[u] # 0 => c > 0 /\ u <= t /\ u <= s + RateWindow
    <3>1. ASSUME NEW u \in 0 .. MaxClock, g[u] # 0
          PROVE  u <= t
      BY <1>2, <2>1, <3>1
    <3>2. QED
      BY <1>1, <3>1, RateConstants
  <2>8. QED
    BY <1>1, <2>4, <2>5, <2>6, <2>7 DEF WindowInv
<1>5. QED
  BY <1>3, <1>4

RateInv ==
    \A p \in Peers :
        WindowInv(allowed[p], peerMessageCounts[p].count, peerMessageCounts[p].windowStart, clock)

\* Before the first message.
LEMMA NoneCounted ==
    ASSUME NEW t \in Nat
    PROVE  \A p \in Peers : WindowInv(NoneAllowed[p], NoMessages.count,
                                     NoMessages.windowStart, t)
<1> SUFFICES ASSUME NEW p \in Peers
             PROVE  WindowInv(NoneAllowed[p], 0, 0, t)
  BY DEF NoMessages
<1> DEFINE f == [u \in 0 .. MaxClock |-> 0]
<1>1. ASSUME NEW a, NEW b
      PROVE  Total(f, Stretch(a, b)) = 0
  BY StretchFinite, TotalOfZeros
<1>2. \A u \in 0 .. MaxClock : f[u] = 0
  OBVIOUS
<1>3. NoneAllowed[p] = f
  BY DEF NoneAllowed
<1> HIDE DEF f
<1>4. WindowInv(f, 0, 0, t)
  BY <1>1, <1>2, RateConstants DEF WindowInv
<1>5. QED
  BY <1>3, <1>4

\* A message of one peer, counted in its window at the time it comes.
LEMMA MessageCounted ==
    ASSUME SecurityTypeOK, RateInv, NEW p \in Peers,
           peerMessageCounts' = [peerMessageCounts EXCEPT ![p] = Counted(p)],
           \/ allowed' = allowed
           \/ /\ Counted(p).count <= MAX_MESSAGES_PER_PEER_PER_MINUTE
              /\ allowed' = [allowed EXCEPT ![p][clock] = @ + 1],
           clock' = clock
    PROVE  RateInv'
<1> SUFFICES ASSUME NEW q \in Peers
             PROVE  WindowInv(allowed'[q], peerMessageCounts'[q].count,
                              peerMessageCounts'[q].windowStart, clock)
  BY DEF RateInv
<1> DEFINE count == peerMessageCounts[p].count
           start == peerMessageCounts[p].windowStart
           c     == Counted(p).count
           s     == Counted(p).windowStart
           f     == allowed[p]
           g     == allowed'[p]
<1>1. CASE q # p
  <2>1. allowed'[q] = allowed[q] /\ peerMessageCounts'[q] = peerMessageCounts[q]
    BY <1>1 DEF SecurityTypeOK
  <2>2. QED
    BY <2>1 DEF RateInv
<1>2. CASE q = p
  <2>1. peerMessageCounts[p] \in [count : Nat, windowStart : Nat] /\ clock \in 0 .. MaxClock
    BY RateConstants DEF SecurityTypeOK
  <2>2. /\ count \in Nat /\ start \in Nat /\ f \in [0 .. MaxClock -> Nat]
        /\ c \in Nat /\ s \in Nat
    BY <2>1, CountedType DEF SecurityTypeOK
  <2>3. IF count = 0 \/ clock - start > RateWindow THEN c = 1 /\ s = clock
                                                   ELSE c = count + 1 /\ s = start
    BY <2>1 DEF Counted
  <2>4. g = f \/ (c <= Limit /\ g = [f EXCEPT ![clock] = @ + 1])
    BY DEF SecurityTypeOK, Limit
  <2>5. WindowInv(f, count, start, clock)
    BY DEF RateInv
  <2>6. peerMessageCounts'[p] = Counted(p)
    BY DEF SecurityTypeOK
  <2> HIDE DEF count, start, c, s, f, g
  <2>7. WindowInv(g, c, s, clock)
    BY <2>1, <2>2, <2>3, <2>4, <2>5, WindowCounts
  <2>8. QED
    BY <1>2, <2>6, <2>7 DEF c, s, g
<1>3. QED
  BY <1>1, <1>2

LEMMA RateInvStep ==
    ASSUME SecurityTypeOK, RateInv, [SecurityNext]_securityVars
    PROVE  RateInv'
<1>1. ASSUME NEW p \in Peers, handleMessage(p)
      PROVE  RateInv'
  <2>1. \/ rateLimited(p) \/ blocklisted(p) \/ letThrough(p)
    BY <1>1
    DEF handleMessage, handleChallenge, otherMessage, violationReport,
        handleChallengeResponse, handleAttestationResponse, hears
  <2>2. /\ peerMessageCounts' = [peerMessageCounts EXCEPT ![p] = Counted(p)]
        /\ \/ allowed' = allowed
           \/ /\ Counted(p).count <= MAX_MESSAGES_PER_PEER_PER_MINUTE
              /\ allowed' = [allowed EXCEPT ![p][clock] = @ + 1]
        /\ clock' = clock
    BY <2>1 DEF rateLimited, blocklisted, letThrough, heardVars
  <2>3. QED
    BY <2>2, MessageCounted
<1>2. CASE SecurityStops
  <2>1. /\ allowed' = NoneAllowed /\ clock' = clock
        /\ \A p \in Peers : peerMessageCounts'[p] = NoMessages
    BY <1>2 DEF SecurityStops
  <2>2. clock \in Nat
    BY RateConstants DEF SecurityTypeOK
  <2>3. QED
    BY <2>1, <2>2, NoneCounted DEF RateInv
<1>3. ASSUME UNCHANGED <<peerMessageCounts, allowed>>, clock' >= clock, clock' \in Nat
      PROVE  RateInv'
  <2> SUFFICES ASSUME NEW p \in Peers
               PROVE  WindowInv(allowed[p], peerMessageCounts[p].count,
                                peerMessageCounts[p].windowStart, clock')
    BY <1>3 DEF RateInv
  <2> DEFINE f     == allowed[p]
             count == peerMessageCounts[p].count
             start == peerMessageCounts[p].windowStart
  <2>1. WindowInv(f, count, start, clock)
    BY DEF RateInv
  <2>2. clock \in Nat /\ start \in Nat
    <3>1. peerMessageCounts[p] \in [count : Nat, windowStart : Nat]
      BY DEF SecurityTypeOK
    <3>2. QED
      BY <3>1, RateConstants DEF SecurityTypeOK
  <2> HIDE DEF f, count, start
  <2>3. start <= clock'
    BY <1>3, <2>1, <2>2 DEF WindowInv
  <2>4. \A u \in 0 .. MaxClock : f[u] # 0 => u <= clock'
    BY <1>3, <2>1, <2>2 DEF WindowInv
  <2>5. WindowInv(f, count, start, clock')
    BY <2>1, <2>3, <2>4 DEF WindowInv
  <2>6. QED
    BY <2>5 DEF f, count, start
<1>4. ASSUME \/ \E c \in ChallengeIds, p \in Peers : sendChallenge(c, p)
             \/ \E a \in RequestIds : requestAttestation(a)
             \/ securityTimers
             \/ \E p \in Peers : challengeAnswered(p)
             \/ clockTicks
             \/ UNCHANGED securityVars
      PROVE  /\ UNCHANGED <<peerMessageCounts, allowed>>
             /\ clock' >= clock /\ clock' \in Nat
  <2>1. /\ UNCHANGED <<peerMessageCounts, allowed>>
        /\ clock' = clock \/ clock' = clock + 1
    BY <1>4
    DEF sendChallenge, requestAttestation, securityTimers, challengePublished,
        challengeTimeout, attestationTimeout, attestationAwaited, challengeAnswered,
        clockTicks, securityVars, messageVars, heardVars
  <2>2. clock \in Nat
    BY RateConstants DEF SecurityTypeOK
  <2>3. QED
    BY <2>1, <2>2
<1>5. QED
  BY <1>1, <1>2, <1>3, <1>4 DEF SecurityNext

\* RateBounded, for any limit and window: in no RateWindow + 1 ticks in a row
\* are more than twice the limit of messages of a peer let through.
THEOREM RateTheorem == SecuritySpec => []RateBounded
<1>1. SecurityInit => RateInv
  <2>1. SecurityInit => /\ allowed = NoneAllowed /\ clock = 1
                        /\ \A p \in Peers : peerMessageCounts[p] = NoMessages
    BY DEF SecurityInit
  <2>2. QED
    BY <2>1, NoneCounted DEF RateInv
<1>2. SecurityTypeOK /\ RateInv /\ [SecurityNext]_securityVars => RateInv'
  BY RateInvStep
<1>3. RateInv => RateBounded
  <2> SUFFICES ASSUME RateInv, NEW p \in Peers, NEW t \in 0 .. MaxClock
               PROVE  AllowedFrom(p, t) <= 2 * Limit
    BY DEF RateBounded, Limit
  <2>1. Total(allowed[p], Stretch(t, t + RateWindow)) <= 2 * Limit
    BY DEF RateInv, WindowInv
  <2>2. QED
    BY <2>1, AllowedIsTotal
<1>4. QED
  BY <1>1, <1>2, <1>3, SecurityTypes, PTL DEF SecuritySpec

=============================================================================
