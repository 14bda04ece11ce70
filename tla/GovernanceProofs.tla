-------------------------- MODULE GovernanceProofs --------------------------
(***************************************************************************)
(* Theorems about the governance of one node, for any council, any         *)
(* periods and thresholds, any number of proposals and voters, any         *)
(* proposals that messages carry, and any number of new submissions,       *)
(* failing writes, stops and restarts.                                     *)
(***************************************************************************)
EXTENDS Governance, FiniteSetTheorems, TLAPS

-----------------------------------------------------------------------------
(***************************************************************************)
(* The life of a proposal, apart from where it is kept: what one call or   *)
(* message may turn the proposal was into.  It enters the node, submitted  *)
(* once more or received, or it advances; the second case of Advance is a  *)
(* review that is saved and not counted.                                   *)
(***************************************************************************)
Reviewed(p, seat, review) == [p EXCEPT !.councilReviews[seat] = review]

Voted(p, voter, approve, weight) ==
    [p EXCEPT !.votes[voter] = [approve |-> approve, weight |-> weight]]

Tallied(p, totalActiveNodes) ==
    [p EXCEPT !.status = IF Passes(p, totalActiveNodes) THEN "approved" ELSE "rejected",
              !.resolvedAt = now]

Received(p) == [p EXCEPT !.cameAs = p.status]

Enters(was, is) ==
    \/ Resubmitted(was, is)
    \/ was = Absent /\ \E p \in Sent : is = Received(p)

Advance(was, is) ==
    \/ /\ was.status = "draft"
       /\ is = [was EXCEPT !.status = "review", !.reviewStartedAt = now]
    \/ /\ was.status = "review"
       /\ \E seat \in Seats, review \in {"approved", "rejected"} :
             \/ is = Reviewed(was, seat, review)
             \/ is = checkReviewComplete(Reviewed(was, seat, review))
    \/ /\ was.status = "voting"
       /\ \E voter \in Peers, approve \in BOOLEAN, weight \in Nat \ {0} :
             is = Voted(was, voter, approve, weight)
    \/ /\ was.status = "voting"
       /\ now - was.votingStartedAt >= VOTING_PERIOD_MS
       /\ \E total \in ActiveCounts : is = Tallied(was, total)
    \/ was.status = "approved" /\ is = [was EXCEPT !.status = "active"]
    \/ was.status = "active" /\ is = [was EXCEPT !.status = "sunset"]

LifeStep(was, is) == Enters(was, is) \/ Advance(was, is)

LEMMA FreshTypes ==
    /\ Absent \in ProposalOf({"absent"})
    /\ Torn \in ProposalOf({"torn"})
    /\ Draft \in ProposalOf({"draft"})
    /\ NoState \in [council : Council, activeProjects : SUBSET Proposals]
  BY DEF Absent, Torn, Draft, NewProposal, NotCast, ProposalOf, Status, NoState, Council

LEMMA ReviewedType ==
    ASSUME NEW p \in ProposalOf(Status), NEW seat \in Seats,
           NEW review \in {"approved", "rejected"}
    PROVE  /\ Reviewed(p, seat, review) \in ProposalOf(Status)
           /\ Reviewed(p, seat, review).status = p.status
           /\ Reviewed(p, seat, review).reviewStartedAt = p.reviewStartedAt
           /\ Reviewed(p, seat, review).votingStartedAt = p.votingStartedAt
           /\ Reviewed(p, seat, review).resolvedAt = p.resolvedAt
           /\ Reviewed(p, seat, review).votes = p.votes
           /\ Reviewed(p, seat, review).councilReviews
                 = [p.councilReviews EXCEPT ![seat] = review]
  BY DEF Reviewed, ProposalOf

(***************************************************************************)
(* checkReviewComplete, in two halves: it opens the vote, rejects, or      *)
(* leaves the proposal as it is.                                           *)
(***************************************************************************)
EnoughApprovals(p) == Cardinality(Approvals(p)) >= COUNCIL_APPROVAL_REQUIRED

BeyondApproval(p) ==
    Cardinality(Approvals(p)) + (Cardinality(Seats) - Cardinality(Reviews(p)))
        < COUNCIL_APPROVAL_REQUIRED

FewReviews(p) ==
    Cardinality(Reviews(p)) < COUNCIL_APPROVAL_REQUIRED /\ Cardinality(Approvals(p)) > 0

LEMMA CheckEffect ==
    ASSUME NEW p
    PROVE  \/ /\ checkReviewComplete(p) = [p EXCEPT !.status = "voting", !.votingStartedAt = now]
              /\ \/ EnoughApprovals(p)
                 \/ FewReviews(p) /\ now - p.reviewStartedAt > REVIEW_PERIOD_MS
           \/ /\ checkReviewComplete(p) = [p EXCEPT !.status = "rejected", !.resolvedAt = now]
              /\ BeyondApproval(p)
           \/ checkReviewComplete(p) = p
  BY DEF checkReviewComplete, EnoughApprovals, BeyondApproval, FewReviews

LEMMA EntersType ==
    ASSUME NEW was \in ProposalOf(Status \cup {"absent"}), NEW is, Enters(was, is)
    PROVE  is \in ProposalOf(Status)
<1>1. CASE is = Draft
  BY <1>1, FreshTypes DEF ProposalOf, Status
<1>2. CASE is = Redraft(was)
  BY <1>2 DEF Redraft, ProposalOf, Status
<1>3. ASSUME NEW p \in Sent, is = Received(p) PROVE is \in ProposalOf(Status)
  BY <1>3, SentAssumption DEF SentAssumption, Received, ProposalOf
<1>4. QED
  BY <1>1, <1>2, <1>3 DEF Enters, Resubmitted

LEMMA AdvanceType ==
    ASSUME TypeOK, NEW was \in ProposalOf(Status \cup {"absent"}), NEW is, Advance(was, is)
    PROVE  is \in ProposalOf(Status)
<1>1. now \in Nat
  BY DEF TypeOK
<1>3. CASE was.status = "draft" /\ is = [was EXCEPT !.status = "review", !.reviewStartedAt = now]
  BY <1>1, <1>3 DEF ProposalOf, Status
<1>4. CASE /\ was.status = "review"
           /\ \E seat \in Seats, review \in {"approved", "rejected"} :
                 \/ is = Reviewed(was, seat, review)
                 \/ is = checkReviewComplete(Reviewed(was, seat, review))
  <2>1. PICK seat \in Seats, review \in {"approved", "rejected"} :
               \/ is = Reviewed(was, seat, review)
               \/ is = checkReviewComplete(Reviewed(was, seat, review))
    BY <1>4
  <2> DEFINE p == Reviewed(was, seat, review)
  <2>2. was \in ProposalOf(Status)
    BY <1>4 DEF ProposalOf, Status
  <2>3. p \in ProposalOf(Status)
    BY <2>2, ReviewedType
  <2> HIDE DEF p
  <2>4. \/ is = p
        \/ is = [p EXCEPT !.status = "voting", !.votingStartedAt = now]
        \/ is = [p EXCEPT !.status = "rejected", !.resolvedAt = now]
    BY <2>1, CheckEffect DEF p
  <2>5. CASE is = [p EXCEPT !.status = "voting", !.votingStartedAt = now]
    BY <1>1, <2>3, <2>5 DEF ProposalOf, Status
  <2>6. CASE is = [p EXCEPT !.status = "rejected", !.resolvedAt = now]
    BY <1>1, <2>3, <2>6 DEF ProposalOf, Status
  <2>7. QED
    BY <2>3, <2>4, <2>5, <2>6
<1>5. CASE /\ was.status = "voting"
           /\ \E voter \in Peers, approve \in BOOLEAN, weight \in Nat \ {0} :
                 is = Voted(was, voter, approve, weight)
  BY <1>5 DEF Voted, ProposalOf, Status
<1>6. CASE was.status = "voting" /\ \E total \in ActiveCounts : is = Tallied(was, total)
  BY <1>1, <1>6 DEF Tallied, ProposalOf, Status, Passed
<1>7. CASE was.status = "approved" /\ is = [was EXCEPT !.status = "active"]
  BY <1>7 DEF ProposalOf, Status, Passed
<1>8. CASE was.status = "active" /\ is = [was EXCEPT !.status = "sunset"]
  BY <1>8 DEF ProposalOf, Status, Passed
<1>9. QED
  BY <1>3, <1>4, <1>5, <1>6, <1>7, <1>8 DEF Advance

LEMMA LifeType ==
    ASSUME TypeOK, NEW was \in ProposalOf(Status \cup {"absent"}), NEW is, LifeStep(was, is)
    PROVE  is \in ProposalOf(Status)
  BY EntersType, AdvanceType DEF LifeStep

-----------------------------------------------------------------------------
(***************************************************************************)
(* What one step writes.  A handler that runs to its end leaves a stage in *)
(* the life of one proposal in memory, and either the same in its file or, *)
(* when a write failed, the old file, a torn one, or a review that is not  *)
(* counted.  One that is stopped leaves a torn file or such a review.      *)
(***************************************************************************)
WritesOn(id, p, f) ==
    /\ running
    /\ LifeStep(proposals[id], p)
    /\ \/ f = p /\ failed' = [failed EXCEPT ![id] = 0]
       \/ /\ f \in {files[id], Torn} \/ Advance(proposals[id], f)
          /\ failed' = [failed EXCEPT ![id] = @ + 1]
    /\ proposals' = [proposals EXCEPT ![id] = p]
    /\ files' = [files EXCEPT ![id] = f]
    /\ activeProjects' \in SUBSET Proposals
    /\ UNCHANGED <<now, running, council, state>>

WritesStop(id, f) ==
    /\ running /\ Stop /\ state' = state
    /\ f = Torn \/ Advance(proposals[id], f)
    /\ files' = [files EXCEPT ![id] = f]

Writes(id) == \E p, f : WritesOn(id, p, f) \/ WritesStop(id, f)

LEMMA SavesWrite ==
    ASSUME NEW id, NEW p, running, LifeStep(proposals[id], p), Saves(id, p),
           activeProjects' \in SUBSET Proposals
    PROVE  Writes(id)
<1>1. WritesOn(id, p, p)
  BY DEF Saves, WritesOn
<1>2. QED
  BY <1>1, Zenon DEF Writes

LEMMA FailureWrites ==
    ASSUME NEW id, NEW p, NEW contents, running, LifeStep(proposals[id], p),
           SaveFails(id, p, contents), activeProjects' \in SUBSET Proposals,
           contents = files[id] \/ Advance(proposals[id], contents)
    PROVE  Writes(id)
<1>1. PICK f \in {contents, Torn} : files' = [files EXCEPT ![id] = f]
  BY DEF SaveFails
<1>2. WritesOn(id, p, f)
  BY <1>1 DEF SaveFails, WritesOn
<1>3. QED
  BY <1>2, Zenon DEF Writes

LEMMA StopWrites ==
    ASSUME NEW id, NEW f, running, Stop, state' = state, files' = [files EXCEPT ![id] = f],
           f = Torn \/ Advance(proposals[id], f)
    PROVE  Writes(id)
<1>1. WritesStop(id, f)
  BY DEF WritesStop
<1>2. QED
  BY <1>1, Zenon DEF Writes

LEMMA RegistryType ==
    ASSUME NEW active \in SUBSET Proposals, Registry(active)
    PROVE  activeProjects' \in SUBSET Proposals
  BY DEF Registry

LEMMA SaveWrites ==
    ASSUME NEW id, NEW p, LifeStep(proposals[id], p), saveProposal(id, p),
           NEW active \in SUBSET Proposals, Registry(active)
    PROVE  Writes(id)
<1>1. running /\ activeProjects' \in SUBSET Proposals
  BY RegistryType DEF saveProposal
<1>2. CASE Saves(id, p)
  BY <1>1, <1>2, SavesWrite
<1>3. CASE SaveFails(id, p, files[id])
  BY <1>1, <1>3, FailureWrites
<1>4. CASE SaveStops(id)
  BY <1>1, <1>4, StopWrites DEF SaveStops
<1>5. QED
  BY <1>2, <1>3, <1>4 DEF saveProposal

LEMMA ReviewWrites ==
    ASSUME TypeOK, \A id \in Proposals : ~running => proposals[id] = Absent,
           NEW id \in Proposals, NEW seat \in Seats, NEW reviewer, NEW approved \in BOOLEAN,
           submitCouncilReview(id, seat, reviewer, approved)
    PROVE  Writes(id)
<1> DEFINE review == IF approved THEN "approved" ELSE "rejected"
           reviewed == Reviewed(proposals[id], seat, review)
           checked == checkReviewComplete(reviewed)
<1>1. review \in {"approved", "rejected"}
  OBVIOUS
<1>2. proposals[id].status = "review"
  BY DEF submitCouncilReview
<1>3. running
  BY <1>2 DEF Absent, NewProposal
<1>4. /\ \/ Saves(id, checked)
         \/ SaveFails(id, reviewed, files[id])
         \/ SaveFails(id, checked, reviewed)
         \/ SaveStops(id)
         \/ Stop /\ files' = [files EXCEPT ![id] = reviewed] /\ state' = state
      /\ Registry(activeProjects)
  BY DEF submitCouncilReview, Reviewed
<1>5. Advance(proposals[id], reviewed) /\ Advance(proposals[id], checked)
  BY <1>1, <1>2 DEF Advance
<1>6. activeProjects' \in SUBSET Proposals
  BY <1>4, RegistryType DEF TypeOK
<1> HIDE DEF review, reviewed, checked
<1>7. LifeStep(proposals[id], reviewed) /\ LifeStep(proposals[id], checked)
  BY <1>5 DEF LifeStep
<1>8. CASE Saves(id, checked)
  BY <1>3, <1>6, <1>7, <1>8, SavesWrite
<1>9. CASE SaveFails(id, reviewed, files[id]) \/ SaveFails(id, checked, reviewed)
  BY <1>3, <1>5, <1>6, <1>7, <1>9, FailureWrites
<1>10. CASE SaveStops(id)
  BY <1>3, <1>10, StopWrites DEF SaveStops
<1>11. CASE Stop /\ files' = [files EXCEPT ![id] = reviewed] /\ state' = state
  BY <1>3, <1>5, <1>11, StopWrites
<1>12. QED
  BY <1>4, <1>8, <1>9, <1>10, <1>11

LEMMA VoteWrites ==
    ASSUME TypeOK, NEW id \in Proposals, NEW voter \in Peers, NEW approve \in BOOLEAN,
           NEW reputation \in Reputations \cup {DefaultReputation},
           castVote(id, voter, approve, reputation)
    PROVE  Writes(id)
<1> DEFINE voted == Voted(proposals[id], voter, approve, Weight[reputation])
<1>1. Weight[reputation] \in Nat \ {0}
  BY NumbersAssumption DEF NumbersAssumption, castVote
<1>2. proposals[id].status = "voting" /\ saveProposal(id, voted) /\ Registry(activeProjects)
  BY DEF castVote, Voted
<1>3. LifeStep(proposals[id], voted)
  BY <1>1, <1>2 DEF LifeStep, Advance
<1>4. activeProjects \in SUBSET Proposals
  BY DEF TypeOK
<1> HIDE DEF voted
<1>5. QED
  BY <1>2, <1>3, <1>4, SaveWrites

LEMMA EntryWrites ==
    ASSUME TypeOK, NEW id \in Proposals, receiveProposal(id) \/ \E rep : submitProposal(id, rep)
    PROVE  Writes(id)
<1>1. PICK p : saveProposal(id, p) /\ Registry(activeProjects) /\ Enters(proposals[id], p)
  BY Zenon DEF receiveProposal, submitProposal, Enters, Resubmitted, Received
<1>2. LifeStep(proposals[id], p)
  BY <1>1 DEF LifeStep
<1>3. activeProjects \in SUBSET Proposals
  BY DEF TypeOK
<1>4. QED
  BY <1>1, <1>2, <1>3, SaveWrites

LEMMA ManagerWrites ==
    ASSUME TypeOK, NEW id \in Proposals,
           \/ startReview(id)
           \/ \E total \in ActiveCounts : tallyVotes(id, total)
           \/ activateProject(id)
           \/ sunsetProject(id)
    PROVE  Writes(id)
<1>1. activeProjects \in SUBSET Proposals
  BY DEF TypeOK
<1>2. CASE startReview(id)
  <2> DEFINE p == [proposals[id] EXCEPT !.status = "review", !.reviewStartedAt = now]
  <2>1. proposals[id].status = "draft" /\ saveProposal(id, p) /\ Registry(activeProjects)
    BY <1>2 DEF startReview
  <2>2. LifeStep(proposals[id], p)
    BY <2>1 DEF LifeStep, Advance
  <2> HIDE DEF p
  <2>3. QED
    BY <1>1, <2>1, <2>2, SaveWrites
<1>3. ASSUME NEW total \in ActiveCounts, tallyVotes(id, total) PROVE Writes(id)
  <2> DEFINE p == Tallied(proposals[id], total)
  <2>1. /\ proposals[id].status = "voting"
        /\ now - proposals[id].votingStartedAt >= VOTING_PERIOD_MS
        /\ saveProposal(id, p) /\ Registry(activeProjects)
    BY <1>3 DEF tallyVotes, Tallied
  <2>2. LifeStep(proposals[id], p)
    BY <2>1 DEF LifeStep, Advance
  <2> HIDE DEF p
  <2>3. QED
    BY <1>1, <2>1, <2>2, SaveWrites
<1>4. CASE activateProject(id)
  <2> DEFINE p == [proposals[id] EXCEPT !.status = "active"]
  <2>1. proposals[id].status = "approved" /\ saveProposal(id, p)
        /\ Registry(activeProjects \cup {id})
    BY <1>4 DEF activateProject
  <2>2. LifeStep(proposals[id], p)
    BY <2>1 DEF LifeStep, Advance
  <2> HIDE DEF p
  <2>3. QED
    BY <1>1, <2>1, <2>2, SaveWrites
<1>5. CASE sunsetProject(id)
  <2> DEFINE p == [proposals[id] EXCEPT !.status = "sunset"]
  <2>1. proposals[id].status = "active" /\ saveProposal(id, p)
        /\ Registry(activeProjects \ {id})
    BY <1>5 DEF sunsetProject
  <2>2. LifeStep(proposals[id], p)
    BY <2>1 DEF LifeStep, Advance
  <2> HIDE DEF p
  <2>3. QED
    BY <1>1, <2>1, <2>2, SaveWrites
<1>6. QED
  BY <1>2, <1>3, <1>4, <1>5

(***************************************************************************)
(* What is on disk and what is in memory agree between the handlers.       *)
(***************************************************************************)
(* What is on disk and what is in memory agree between the handlers, for   *)
(* every proposal whose last write did not fail.                           *)
(***************************************************************************)
Readable(f) == IF f.status = "torn" THEN Absent ELSE f

Coherent ==
    /\ ~running => \A id \in Proposals : proposals[id] = Absent /\ failed[id] = 0
    /\ running => \A id \in Proposals : failed[id] = 0 => proposals[id] = Readable(files[id])
    /\ \A id \in Proposals : files[id].status = "torn" => files[id] = Torn

LEMMA NextWrites ==
    ASSUME TypeOK, Coherent, Next
    PROVE  \/ \E id \in Proposals : Writes(id)
           \/ \E seat \in Seats, peer \in Peers : appointCouncilMember(seat, peer)
           \/ Crash
           \/ loadState
           \/ Tick
<1>1. \A id \in Proposals : ~running => proposals[id] = Absent
  BY DEF Coherent
<1>2. ASSUME NEW id \in Proposals, NEW from \in Peers, handleGossip(id, from)
      PROVE  Writes(id)
  <2>1. CASE receiveProposal(id)
    BY <2>1, EntryWrites
  <2>2. ASSUME NEW approve \in BOOLEAN, NEW seat \in Seats,
               submitCouncilReview(id, seat, from, approve)
        PROVE  Writes(id)
    BY <1>1, <2>2, ReviewWrites
  <2>3. ASSUME NEW approve \in BOOLEAN, NEW reputation \in Reputations \cup {0},
               receiveVote(id, from, approve, reputation)
        PROVE  Writes(id)
    <3>1. (IF reputation = 0 THEN DefaultReputation ELSE reputation)
             \in Reputations \cup {DefaultReputation}
      OBVIOUS
    <3>2. QED
      BY <2>3, <3>1, VoteWrites DEF receiveVote
  <2>4. QED
    BY <1>2, <2>1, <2>2, <2>3 DEF handleGossip
<1>3. ASSUME NEW id \in Proposals,
             \/ \E rep \in Reputations : submitProposal(id, rep)
             \/ startReview(id)
             \/ \E from \in Peers : handleGossip(id, from)
             \/ \E total \in ActiveCounts : tallyVotes(id, total)
             \/ activateProject(id)
             \/ sunsetProject(id)
      PROVE  Writes(id)
  <2>1. CASE \E rep \in Reputations : submitProposal(id, rep)
    BY <2>1, EntryWrites
  <2>2. CASE \/ startReview(id)
             \/ \E total \in ActiveCounts : tallyVotes(id, total)
             \/ activateProject(id)
             \/ sunsetProject(id)
    BY <2>2, ManagerWrites
  <2>3. QED
    BY <1>2, <1>3, <2>1, <2>2
<1>4. QED
  BY <1>3, SetsAssumption DEF SetsAssumption, Next

-----------------------------------------------------------------------------
(***************************************************************************)
(* Types and the agreement of memory and disk.                             *)
(***************************************************************************)
Kept == TypeOK /\ Coherent

LEMMA StopTypes ==
    ASSUME TypeOK, Stop
    PROVE  /\ now' \in Nat \ {0} /\ running' = FALSE
           /\ proposals' = [id \in Proposals |-> Absent]
           /\ proposals' \in [Proposals -> ProposalOf(Status \cup {"absent"})]
           /\ council' \in Council /\ activeProjects' \in SUBSET Proposals
           /\ failed' = [id \in Proposals |-> 0]
           /\ failed' \in [Proposals -> Nat]
<1>1. Absent \in ProposalOf(Status \cup {"absent"})
  BY FreshTypes DEF ProposalOf
<1>2. QED
  BY <1>1, FreshTypes DEF Stop, TypeOK

LEMMA StopKeeps ==
    ASSUME Kept, Stop,
           files' \in [Proposals -> ProposalOf(Status \cup {"absent", "torn"})],
           \A id \in Proposals : files'[id].status = "torn" => files'[id] = Torn,
           state' \in [council : Council, activeProjects : SUBSET Proposals]
    PROVE  Kept'
<1>1. TypeOK'
  BY StopTypes DEF Kept, TypeOK
<1>2. Coherent'
  BY StopTypes DEF Kept, Coherent
<1>3. QED
  BY <1>1, <1>2 DEF Kept

LEMMA WritesKeeps ==
    ASSUME Kept, NEW id \in Proposals, Writes(id)
    PROVE  Kept'
<1> DEFINE Stored == ProposalOf(Status \cup {"absent", "torn"})
<1>1. /\ proposals[id] \in ProposalOf(Status \cup {"absent"})
      /\ proposals \in [Proposals -> ProposalOf(Status \cup {"absent"})]
      /\ files \in [Proposals -> Stored]
      /\ failed \in [Proposals -> Nat]
      /\ \A j \in Proposals : files[j].status = "torn" => files[j] = Torn
  BY DEF Kept, TypeOK, Coherent
<1>2. ASSUME NEW q \in ProposalOf(Status)
      PROVE  q \in ProposalOf(Status \cup {"absent"}) /\ q \in Stored /\ q.status # "torn"
  BY DEF ProposalOf, Status, Passed
<1>3. Torn \in Stored /\ Torn.status = "torn"
  BY FreshTypes DEF ProposalOf
<1>4. ASSUME NEW f, f \in {files[id], Torn} \/ Advance(proposals[id], f)
      PROVE  f \in Stored /\ (f.status = "torn" => f = Torn)
  <2>1. CASE Advance(proposals[id], f)
    BY <1>1, <1>2, <2>1, AdvanceType DEF Kept
  <2>2. CASE f \in {files[id], Torn}
    BY <1>1, <1>3, <2>2
  <2>3. QED
    BY <1>4, <2>1, <2>2
<1> HIDE DEF Stored
<1>5. ASSUME NEW p, NEW f, WritesOn(id, p, f) PROVE Kept'
  <2>1. p \in ProposalOf(Status)
    BY <1>1, <1>5, LifeType DEF Kept, WritesOn
  <2>2. f \in Stored /\ (f.status = "torn" => f = Torn)
    BY <1>2, <1>4, <1>5, <2>1 DEF WritesOn
  <2>3. /\ proposals' = [proposals EXCEPT ![id] = p]
        /\ files' = [files EXCEPT ![id] = f]
        /\ failed' \in {[failed EXCEPT ![id] = 0], [failed EXCEPT ![id] = @ + 1]}
        /\ failed'[id] = 0 => f = p
        /\ running /\ running'
    BY <1>1, <1>5 DEF WritesOn
  <2>4. files' \in [Proposals -> Stored]
    BY <1>1, <2>2, <2>3
  <2>5. TypeOK'
    <3>1. proposals' \in [Proposals -> ProposalOf(Status \cup {"absent"})]
      BY <1>1, <1>2, <2>1, <2>3
    <3>2. failed' \in [Proposals -> Nat]
      BY <1>1, <2>3
    <3>3. /\ now' \in Nat \ {0} /\ running' \in BOOLEAN /\ council' \in Council
          /\ activeProjects' \in SUBSET Proposals
          /\ state' \in [council : Council, activeProjects : SUBSET Proposals]
      BY <1>5 DEF WritesOn, Kept, TypeOK
    <3>4. QED
      BY <2>4, <3>1, <3>2, <3>3 DEF TypeOK, Stored
  <2>6. Coherent'
    <3>1. \A j \in Proposals : files'[j].status = "torn" => files'[j] = Torn
      BY <1>1, <2>2, <2>3
    <3>2. ASSUME NEW j \in Proposals, failed'[j] = 0
          PROVE  proposals'[j] = Readable(files'[j])
      <4>1. CASE j = id
        BY <1>1, <1>2, <2>1, <2>3, <3>2, <4>1 DEF Readable
      <4>2. CASE j # id
        BY <1>1, <2>3, <3>2, <4>2 DEF Kept, Coherent
      <4>3. QED
        BY <4>1, <4>2
    <3>3. QED
      BY <2>3, <3>1, <3>2 DEF Coherent, Readable
  <2>7. QED
    BY <2>5, <2>6 DEF Kept
<1>6. ASSUME NEW f, WritesStop(id, f) PROVE Kept'
  <2>1. f \in Stored /\ (f.status = "torn" => f = Torn)
    BY <1>4, <1>6 DEF WritesStop
  <2>2. /\ files' \in [Proposals -> Stored]
        /\ \A j \in Proposals : files'[j].status = "torn" => files'[j] = Torn
    BY <1>1, <1>6, <2>1 DEF WritesStop
  <2>3. Stop /\ state' \in [council : Council, activeProjects : SUBSET Proposals]
    BY <1>6 DEF WritesStop, Kept, TypeOK
  <2>4. QED
    BY <2>2, <2>3, StopKeeps DEF Stored
<1>7. QED
  BY <1>5, <1>6 DEF Writes

LEMMA QuietKeeps ==
    ASSUME Kept, UNCHANGED <<running, proposals, council, activeProjects, files, failed>>,
           state' \in [council : Council, activeProjects : SUBSET Proposals],
           now' \in Nat \ {0}
    PROVE  Kept'
<1>1. TypeOK'
  BY DEF Kept, TypeOK
<1>2. Coherent'
  BY DEF Kept, Coherent, Readable
<1>3. QED
  BY <1>1, <1>2 DEF Kept

LEMMA NextKeeps == Kept /\ [Next]_vars => Kept'
<1> SUFFICES ASSUME Kept, [Next]_vars PROVE Kept'
  OBVIOUS
<1>0. CASE UNCHANGED vars
  BY <1>0, QuietKeeps DEF vars, memory, Kept, TypeOK
<1>1. CASE \E id \in Proposals : Writes(id)
  BY <1>1, WritesKeeps
<1>2. ASSUME NEW seat \in Seats, NEW peer \in Peers, appointCouncilMember(seat, peer)
      PROVE  Kept'
  <2> DEFINE appointed == [council EXCEPT ![seat] = peer]
  <2>1. /\ appointed \in Council
        /\ [council |-> appointed, activeProjects |-> activeProjects]
              \in [council : Council, activeProjects : SUBSET Proposals]
        /\ {state, NoState} \subseteq [council : Council, activeProjects : SUBSET Proposals]
    BY FreshTypes DEF Kept, TypeOK, Council
  <2> HIDE DEF appointed
  <2>2. CASE /\ council' = appointed
             /\ state' \in {[council |-> appointed, activeProjects |-> activeProjects],
                            state, NoState}
             /\ UNCHANGED <<now, running, proposals, activeProjects, files, failed>>
    BY <2>1, <2>2 DEF Kept, TypeOK, Coherent, Readable
  <2>3. CASE Stop /\ state' = NoState /\ files' = files
    BY <2>1, <2>3, StopKeeps DEF Kept, TypeOK, Coherent
  <2>4. QED
    BY <1>2, <2>2, <2>3 DEF appointCouncilMember, appointed
<1>3. CASE Crash
  BY <1>3, StopKeeps DEF Crash, Kept, TypeOK, Coherent
<1>4. CASE loadState
  <2>1. \A id \in Proposals : proposals'[id] = Readable(files[id])
    BY <1>4 DEF loadState, Readable
  <2>2. proposals' \in [Proposals -> ProposalOf(Status \cup {"absent"})]
    <3> SUFFICES ASSUME NEW id \in Proposals
                 PROVE  proposals'[id] \in ProposalOf(Status \cup {"absent"})
      BY <1>4 DEF loadState
    <3>1. files[id] \in ProposalOf(Status \cup {"absent", "torn"})
      BY DEF Kept, TypeOK
    <3>2. CASE files[id].status = "torn"
      BY <2>1, <3>2, FreshTypes DEF Readable, ProposalOf
    <3>3. CASE files[id].status # "torn"
      BY <2>1, <3>1, <3>3 DEF Readable, ProposalOf
    <3>4. QED
      BY <3>2, <3>3
  <2>3. TypeOK'
    BY <1>4, <2>2 DEF loadState, Kept, TypeOK
  <2>4. Coherent'
    BY <1>4, <2>1 DEF loadState, Kept, Coherent, Readable
  <2>5. QED
    BY <2>3, <2>4 DEF Kept
<1>5. CASE Tick
  <2>1. UNCHANGED <<running, proposals, council, activeProjects, files, state, failed>>
    BY <1>5 DEF Tick, memory
  <2>2. now' \in Nat \ {0}
    BY <1>5 DEF Tick, Kept, TypeOK
  <2>3. QED
    BY <2>1, <2>2, QuietKeeps DEF Kept, TypeOK
<1>6. QED
  BY <1>0, <1>1, <1>2, <1>3, <1>4, <1>5, NextWrites DEF Kept

LEMMA InitKept == Init => Kept
<1> SUFFICES ASSUME Init PROVE Kept
  OBVIOUS
<1>1. /\ Absent \in ProposalOf(Status \cup {"absent"})
      /\ Absent \in ProposalOf(Status \cup {"absent", "torn"})
      /\ Absent.status = "absent"
  BY FreshTypes DEF ProposalOf
<1>2. TypeOK
  BY <1>1, FreshTypes, NumbersAssumption DEF Init, TypeOK, NumbersAssumption
<1>3. Coherent
  BY <1>1 DEF Init, Coherent, Readable
<1>4. QED
  BY <1>2, <1>3 DEF Kept

\* Whatever the calls, messages, failing writes, stops and restarts, the manager
\* and its files hold proposals, seats and projects of their types, memory is
\* what a start would load unless a write failed, and what a start takes for
\* torn is nothing but a torn file.
THEOREM GovernanceTypes == Spec => []Kept
  BY InitKept, NextKeeps, PTL DEF Spec

\* In particular a torn file is never taken for a proposal.
THEOREM GovernanceTypeCorrect == Spec => []TypeOK
<1>1. Kept => TypeOK
  BY DEF Kept
<1>2. QED
  BY <1>1, GovernanceTypes, PTL

-----------------------------------------------------------------------------
(***************************************************************************)
(* Counting depends on the reviews and on the votes alone.                 *)
(***************************************************************************)
WeightIn(votes, voters) == MapThenSumSet(LAMBDA v : votes[v].weight, voters)

LEMMA SameWeights ==
    ASSUME NEW p, NEW q, p.votes = q.votes, NEW S
    PROVE  WeightOf(p, S) = WeightOf(q, S)
<1>1. ASSUME NEW r PROVE WeightOf(r, S) = WeightIn(r.votes, S)
  BY DEF WeightOf, WeightIn, MapThenSumSet, MapThenFoldSet
<1>2. QED
  BY <1>1, Zenon

LEMMA SameVotes ==
    ASSUME NEW p, NEW q, p.votes = q.votes
    PROVE  /\ Voters(p) = Voters(q)
           /\ Approving(p) = Approving(q)
           /\ WeightOf(p, Voters(p)) = WeightOf(q, Voters(q))
           /\ WeightOf(p, Approving(p)) = WeightOf(q, Approving(q))
           /\ \A total : Passes(p, total) = Passes(q, total)
<1>1. Voters(p) = Voters(q)
  BY DEF Voters
<1>2. Approving(p) = Approving(q)
  BY <1>1 DEF Approving
<1>3. /\ WeightOf(p, Voters(p)) = WeightOf(q, Voters(q))
      /\ WeightOf(p, Approving(p)) = WeightOf(q, Approving(q))
  BY <1>1, <1>2, SameWeights, Zenon
<1>4. \A total : Passes(p, total) = Passes(q, total)
  BY <1>1, <1>3, Zenon DEF Passes
<1>5. QED
  BY <1>1, <1>2, <1>3, <1>4, Zenon

LEMMA SameReviews ==
    ASSUME NEW p, NEW q, p.councilReviews = q.councilReviews
    PROVE  Reviews(p) = Reviews(q) /\ Approvals(p) = Approvals(q)
  BY DEF Reviews, Approvals

(***************************************************************************)
(* The inductive invariant: what the properties ask of a decided proposal, *)
(* of the one in memory and of the one on disk, which a failed write keeps *)
(* apart.                                                                  *)
(***************************************************************************)
Undecided == {"absent", "torn", "draft", "review"}

Opened(p) ==
    \/ EnoughApprovals(p)
    \/ FewReviews(p) /\ p.votingStartedAt > p.reviewStartedAt + REVIEW_PERIOD_MS

CouncilDecided(p) ==
    p.cameAs \in {"draft", "review"} =>
        /\ p.status \in {"voting"} \cup Passed => Opened(p)
        /\ p.status = "rejected" =>
              \/ BeyondApproval(p)
              \/ Opened(p) /\ p.resolvedAt >= p.votingStartedAt + VOTING_PERIOD_MS

VotePassed(p) ==
    p.status \in Passed /\ p.cameAs \notin Passed =>
        /\ p.resolvedAt >= p.votingStartedAt + VOTING_PERIOD_MS
        /\ \E nodes \in ActiveCounts : Cardinality(Voters(p)) >= quorum(nodes)
        /\ WeightOf(p, Approving(p)) * 100 >= APPROVAL_THRESHOLD * WeightOf(p, Voters(p))

Lawful(p) == CouncilDecided(p) /\ VotePassed(p)

LEMMA SameCounts ==
    ASSUME NEW p, NEW q, p.councilReviews = q.councilReviews
    PROVE  /\ EnoughApprovals(p) = EnoughApprovals(q)
           /\ FewReviews(p) = FewReviews(q)
           /\ BeyondApproval(p) = BeyondApproval(q)
  BY SameReviews, Zenon DEF EnoughApprovals, FewReviews, BeyondApproval

LEMMA SameOpening ==
    ASSUME NEW p, NEW q, p.councilReviews = q.councilReviews,
           p.votingStartedAt = q.votingStartedAt, p.reviewStartedAt = q.reviewStartedAt
    PROVE  Opened(p) = Opened(q)
<1>1. EnoughApprovals(p) = EnoughApprovals(q) /\ FewReviews(p) = FewReviews(q)
  BY SameCounts
<1>2. QED
  BY <1>1 DEF Opened

LEMMA UndecidedLawful ==
    ASSUME NEW p, p.status \in Undecided
    PROVE  Lawful(p)
  BY DEF Lawful, Undecided, CouncilDecided, VotePassed, Passed

LEMMA FreshLawful == Lawful(Absent) /\ Lawful(Torn) /\ Lawful(Draft)
<1>1. ASSUME NEW status \in Undecided PROVE Lawful(NewProposal(status))
  BY UndecidedLawful DEF NewProposal
<1>2. QED
  BY <1>1 DEF Absent, Torn, Draft, Undecided

LEMMA EntersLawful ==
    ASSUME NEW was \in ProposalOf(Status \cup {"absent"}), NEW is, Enters(was, is)
    PROVE  Lawful(is)
<1>1. CASE is = Draft
  BY <1>1, FreshLawful
<1>2. CASE is = Redraft(was)
  <2>1. is.status = "draft"
    BY <1>2 DEF Redraft, ProposalOf
  <2>2. QED
    BY <2>1, UndecidedLawful DEF Undecided
<1>3. ASSUME NEW p \in Sent, is = Received(p) PROVE Lawful(is)
  <2>1. is.cameAs = is.status
    BY <1>3, SentAssumption DEF SentAssumption, Received, ProposalOf
  <2>2. QED
    BY <2>1 DEF Lawful, CouncilDecided, VotePassed, Passed
<1>4. QED
  BY <1>1, <1>2, <1>3 DEF Enters, Resubmitted

LEMMA CheckLawful ==
    ASSUME TypeOK, NEW p \in ProposalOf(Status), p.status = "review"
    PROVE  Lawful(checkReviewComplete(p))
<1> DEFINE is == checkReviewComplete(p)
<1>1. /\ now \in Nat \ {0} /\ REVIEW_PERIOD_MS \in Nat
      /\ p.reviewStartedAt \in Nat
  BY NumbersAssumption DEF TypeOK, NumbersAssumption, ProposalOf
<1>2. CASE /\ is = [p EXCEPT !.status = "voting", !.votingStartedAt = now]
           /\ \/ EnoughApprovals(p)
              \/ FewReviews(p) /\ now - p.reviewStartedAt > REVIEW_PERIOD_MS
  <2>1. /\ is.status = "voting" /\ is.votingStartedAt = now
        /\ is.reviewStartedAt = p.reviewStartedAt
        /\ is.councilReviews = p.councilReviews
    BY <1>2 DEF ProposalOf
  <2> HIDE DEF is
  <2>2. EnoughApprovals(is) = EnoughApprovals(p) /\ FewReviews(is) = FewReviews(p)
    BY <2>1, SameCounts
  <2>3. Opened(is)
    BY <1>1, <1>2, <2>1, <2>2 DEF Opened
  <2>4. QED
    BY <2>1, <2>3 DEF Lawful, CouncilDecided, VotePassed, Passed, is
<1>3. CASE is = [p EXCEPT !.status = "rejected", !.resolvedAt = now] /\ BeyondApproval(p)
  <2>1. is.status = "rejected" /\ is.councilReviews = p.councilReviews
    BY <1>3 DEF ProposalOf
  <2> HIDE DEF is
  <2>2. BeyondApproval(is) = BeyondApproval(p)
    BY <2>1, SameCounts
  <2>3. QED
    BY <1>3, <2>1, <2>2 DEF Lawful, CouncilDecided, VotePassed, Passed, is
<1>4. CASE is = p
  BY <1>4, UndecidedLawful DEF Undecided
<1>5. QED
  BY <1>2, <1>3, <1>4, CheckEffect

LEMMA VoteLawful ==
    ASSUME NEW p \in ProposalOf(Status), p.status = "voting", Lawful(p),
           NEW voter, NEW approve, NEW weight
    PROVE  Lawful(Voted(p, voter, approve, weight))
<1> DEFINE is == Voted(p, voter, approve, weight)
<1>1. /\ is.status = "voting" /\ is.cameAs = p.cameAs
      /\ is.votingStartedAt = p.votingStartedAt
      /\ is.reviewStartedAt = p.reviewStartedAt
      /\ is.councilReviews = p.councilReviews
  BY DEF Voted, ProposalOf
<1> HIDE DEF is
<1>2. Opened(is) = Opened(p)
  BY <1>1, SameOpening
<1>3. QED
  BY <1>1, <1>2 DEF Lawful, CouncilDecided, VotePassed, Passed, is

LEMMA TallyLawful ==
    ASSUME TypeOK, NEW p \in ProposalOf(Status), p.status = "voting", Lawful(p),
           now - p.votingStartedAt >= VOTING_PERIOD_MS, NEW total \in ActiveCounts
    PROVE  Lawful(Tallied(p, total))
<1> DEFINE is == Tallied(p, total)
<1>1. /\ now \in Nat \ {0} /\ VOTING_PERIOD_MS \in Nat /\ p.votingStartedAt \in Nat
  BY NumbersAssumption DEF TypeOK, NumbersAssumption, ProposalOf
<1>2. /\ is.status = IF Passes(p, total) THEN "approved" ELSE "rejected"
      /\ is.cameAs = p.cameAs
      /\ is.votingStartedAt = p.votingStartedAt /\ is.resolvedAt = now
      /\ is.reviewStartedAt = p.reviewStartedAt
      /\ is.councilReviews = p.councilReviews /\ is.votes = p.votes
  BY DEF Tallied, ProposalOf
<1> HIDE DEF is
<1>3. Opened(is) = Opened(p)
  BY <1>2, SameOpening
<1>4. is.resolvedAt >= is.votingStartedAt + VOTING_PERIOD_MS
  BY <1>1, <1>2
<1>5. CouncilDecided(is)
  BY <1>2, <1>3, <1>4 DEF Lawful, CouncilDecided, Passed
<1>6. VotePassed(is)
  <2> SUFFICES ASSUME Passes(p, total) PROVE VotePassed(is)
    BY <1>2 DEF VotePassed, Passed
  <2>1. Passes(is, total)
    BY <1>2, SameVotes
  <2>2. /\ Cardinality(Voters(is)) >= quorum(total)
        /\ WeightOf(is, Approving(is)) * 100 >= APPROVAL_THRESHOLD * WeightOf(is, Voters(is))
    BY <2>1 DEF Passes
  <2>3. QED
    BY <1>4, <2>2, Zenon DEF VotePassed
<1>7. QED
  BY <1>5, <1>6 DEF Lawful, is

\* What stays Passed keeps its dates, reviews and votes.
LEMMA RetireLawful ==
    ASSUME NEW p \in ProposalOf(Status), p.status \in Passed, Lawful(p),
           NEW status \in Passed
    PROVE  Lawful([p EXCEPT !.status = status])
<1> DEFINE is == [p EXCEPT !.status = status]
<1>1. /\ is.status = status /\ is.cameAs = p.cameAs
      /\ is.votingStartedAt = p.votingStartedAt /\ is.resolvedAt = p.resolvedAt
      /\ is.reviewStartedAt = p.reviewStartedAt
      /\ is.councilReviews = p.councilReviews /\ is.votes = p.votes
  BY DEF ProposalOf
<1> HIDE DEF is
<1>2. Opened(is) = Opened(p)
  BY <1>1, SameOpening
<1>3. /\ Voters(is) = Voters(p)
      /\ WeightOf(is, Approving(is)) = WeightOf(p, Approving(p))
      /\ WeightOf(is, Voters(is)) = WeightOf(p, Voters(p))
  BY <1>1, SameVotes
<1>4. CouncilDecided(is)
  BY <1>1, <1>2 DEF Lawful, CouncilDecided, Passed
<1>5. VotePassed(is)
  BY <1>1, <1>3 DEF Lawful, VotePassed
<1>6. QED
  BY <1>4, <1>5 DEF Lawful, is

LEMMA AdvanceLawful ==
    ASSUME TypeOK, NEW was \in ProposalOf(Status \cup {"absent"}), Lawful(was),
           NEW is, Advance(was, is)
    PROVE  Lawful(is)
<1>3. CASE was.status = "draft" /\ is = [was EXCEPT !.status = "review", !.reviewStartedAt = now]
  <2>1. is.status = "review"
    BY <1>3 DEF ProposalOf
  <2>2. QED
    BY <2>1, UndecidedLawful DEF Undecided
<1>4. CASE /\ was.status = "review"
           /\ \E seat \in Seats, review \in {"approved", "rejected"} :
                 \/ is = Reviewed(was, seat, review)
                 \/ is = checkReviewComplete(Reviewed(was, seat, review))
  <2>1. PICK seat \in Seats, review \in {"approved", "rejected"} :
               \/ is = Reviewed(was, seat, review)
               \/ is = checkReviewComplete(Reviewed(was, seat, review))
    BY <1>4
  <2>2. was \in ProposalOf(Status)
    BY <1>4 DEF ProposalOf, Status
  <2> DEFINE p == Reviewed(was, seat, review)
  <2>3. p \in ProposalOf(Status) /\ p.status = "review"
    BY <1>4, <2>2, ReviewedType
  <2> HIDE DEF p
  <2>4. Lawful(p)
    BY <2>3, UndecidedLawful DEF Undecided
  <2>5. Lawful(checkReviewComplete(p))
    BY <2>3, CheckLawful
  <2>6. QED
    BY <2>1, <2>4, <2>5 DEF p
<1>5. CASE /\ was.status = "voting"
           /\ \E voter \in Peers, approve \in BOOLEAN, weight \in Nat \ {0} :
                 is = Voted(was, voter, approve, weight)
  <2>1. was \in ProposalOf(Status)
    BY <1>5 DEF ProposalOf, Status
  <2>2. QED
    BY <1>5, <2>1, VoteLawful
<1>6. CASE /\ was.status = "voting"
           /\ now - was.votingStartedAt >= VOTING_PERIOD_MS
           /\ \E total \in ActiveCounts : is = Tallied(was, total)
  <2>1. was \in ProposalOf(Status)
    BY <1>6 DEF ProposalOf, Status
  <2>2. QED
    BY <1>6, <2>1, TallyLawful
<1>7. CASE \/ was.status = "approved" /\ is = [was EXCEPT !.status = "active"]
           \/ was.status = "active" /\ is = [was EXCEPT !.status = "sunset"]
  <2>1. was \in ProposalOf(Status) /\ was.status \in Passed
    BY <1>7 DEF ProposalOf, Status, Passed
  <2>2. QED
    BY <1>7, <2>1, RetireLawful DEF Passed
<1>8. QED
  BY <1>3, <1>4, <1>5, <1>6, <1>7 DEF Advance

LEMMA LifeLawful ==
    ASSUME TypeOK, NEW was \in ProposalOf(Status \cup {"absent"}), Lawful(was),
           NEW is, LifeStep(was, is)
    PROVE  Lawful(is)
  BY EntersLawful, AdvanceLawful DEF LifeStep

-----------------------------------------------------------------------------
(***************************************************************************)
(* Every proposal stays lawful, in memory and on disk, hence the decisions *)
(* of the council and of the vote are the ones the reviews and votes on    *)
(* record justify.                                                         *)
(***************************************************************************)
LawfulInv == \A id \in Proposals : Lawful(proposals[id]) /\ Lawful(files[id])

LEMMA WritesLawful ==
    ASSUME Kept, LawfulInv, NEW j \in Proposals, Writes(j), NEW id \in Proposals
    PROVE  Lawful(proposals'[id]) /\ Lawful(files'[id])
<1>1. /\ proposals[j] \in ProposalOf(Status \cup {"absent"})
      /\ proposals \in [Proposals -> ProposalOf(Status \cup {"absent"})]
      /\ files \in [Proposals -> ProposalOf(Status \cup {"absent", "torn"})]
      /\ TypeOK
  BY DEF Kept, TypeOK
<1>2. /\ Lawful(proposals[id]) /\ Lawful(files[id])
      /\ Lawful(proposals[j]) /\ Lawful(files[j])
  BY DEF LawfulInv
<1>3. ASSUME NEW f, f \in {files[j], Torn} \/ LifeStep(proposals[j], f) PROVE Lawful(f)
  BY <1>1, <1>2, <1>3, LifeLawful, FreshLawful
<1>4. ASSUME NEW p, NEW f, WritesOn(j, p, f)
      PROVE  Lawful(proposals'[id]) /\ Lawful(files'[id])
  <2>1. Lawful(p) /\ Lawful(f)
    BY <1>3, <1>4, Zenon DEF WritesOn, LifeStep
  <2>2. /\ proposals' = [proposals EXCEPT ![j] = p]
        /\ files' = [files EXCEPT ![j] = f]
    BY <1>4 DEF WritesOn
  <2>3. CASE id = j
    BY <1>1, <2>1, <2>2, <2>3
  <2>4. CASE id # j
    BY <1>1, <1>2, <2>2, <2>4
  <2>5. QED
    BY <2>3, <2>4
<1>5. ASSUME NEW f, WritesStop(j, f)
      PROVE  Lawful(proposals'[id]) /\ Lawful(files'[id])
  <2>1. Lawful(f)
    BY <1>3, <1>5, Zenon DEF WritesStop, LifeStep
  <2>2. proposals'[id] = Absent /\ files' = [files EXCEPT ![j] = f]
    BY <1>5 DEF WritesStop, Stop
  <2>3. files'[id] = f \/ files'[id] = files[id]
    BY <1>1, <2>2
  <2>4. QED
    BY <1>2, <2>1, <2>2, <2>3, FreshLawful
<1>6. QED
  BY <1>4, <1>5 DEF Writes

LEMMA LawfulStep == Kept /\ LawfulInv /\ [Next]_vars => LawfulInv'
<1> SUFFICES ASSUME Kept, LawfulInv, [Next]_vars, NEW id \in Proposals
             PROVE  Lawful(proposals'[id]) /\ Lawful(files'[id])
  <2>1. ASSUME \A id \in Proposals : Lawful(proposals'[id]) /\ Lawful(files'[id])
        PROVE  LawfulInv'
    BY <2>1 DEF LawfulInv, Lawful, CouncilDecided, VotePassed, Opened, EnoughApprovals,
                FewReviews, BeyondApproval
  <2>2. QED
    BY <2>1
<1>1. Lawful(proposals[id]) /\ Lawful(files[id])
  BY DEF LawfulInv
<1>2. CASE \E j \in Proposals : Writes(j)
  BY <1>2, WritesLawful
<1>3. CASE Stop /\ files' = files
  <2>1. proposals'[id] = Absent
    BY <1>3 DEF Stop
  <2>2. QED
    BY <1>1, <1>3, <2>1, FreshLawful
<1>4. CASE loadState
  <2>1. files' = files /\ proposals'[id] \in {Absent, files[id]}
    BY <1>4 DEF loadState
  <2>2. QED
    BY <1>1, <2>1, FreshLawful
<1>5. CASE UNCHANGED <<proposals, files>>
  BY <1>1, <1>5
<1>6. CASE \E seat \in Seats, peer \in Peers : appointCouncilMember(seat, peer)
  <2>1. (Stop /\ files' = files) \/ UNCHANGED <<proposals, files>>
    BY <1>6 DEF appointCouncilMember
  <2>2. QED
    BY <1>3, <1>5, <2>1
<1>7. CASE Crash \/ Tick \/ UNCHANGED vars
  <2>1. (Stop /\ files' = files) \/ UNCHANGED <<proposals, files>>
    BY <1>7 DEF Crash, Tick, vars, memory
  <2>2. QED
    BY <1>3, <1>5, <2>1
<1>8. QED
  BY <1>2, <1>4, <1>6, <1>7, NextWrites DEF Kept

LEMMA LawfulAlways == Spec => []LawfulInv
<1>1. Init => LawfulInv
  BY FreshLawful DEF Init, LawfulInv
<1>2. QED
  BY <1>1, GovernanceTypes, LawfulStep, PTL DEF Spec

LEMMA KnownLawful == LawfulInv => \A id \in Proposals : Lawful(Known(id))
  BY DEF LawfulInv, Known

\* For a proposal that came here before any vote: a community vote opens only on
\* the council's approval, and a proposal is rejected only when the council can
\* no longer approve it or after such a vote, however reviews are revised, seats
\* change hands, the proposal is submitted again, writes fail and the process
\* stops.
THEOREM CouncilTheorem == Spec => []CouncilDecides
<1>1. LawfulInv => CouncilDecides
  BY KnownLawful, Zenon DEF Lawful, CouncilDecided, CouncilDecides, Opened, EnoughApprovals,
         FewReviews, BeyondApproval
<1>2. QED
  BY <1>1, LawfulAlways, PTL

\* What was approved, activated or retired, and did not come here as such,
\* passed a whole voting period, a quorum and the threshold with the votes on
\* record.
THEOREM VoteTheorem == Spec => []PassedTheVote
<1>1. LawfulInv => PassedTheVote
  BY KnownLawful, Zenon DEF Lawful, VotePassed, PassedTheVote
<1>2. QED
  BY <1>1, LawfulAlways, PTL

-----------------------------------------------------------------------------
(***************************************************************************)
(* What one step does to what the node knows of a proposal: nothing, a     *)
(* stage of its life, or a stop that tears its file, finds it torn or      *)
(* finds an older one, or a start that reads a torn file as no file.       *)
(***************************************************************************)
KnownStep(id) ==
    \/ Known(id)' = Known(id)
    \/ running /\ running' /\ LifeStep(Known(id), Known(id)')
    \/ Advance(Known(id), Known(id)')
    \/ running /\ ~running' /\ (failed[id] > 0 \/ Known(id)' = Torn)
    \/ Known(id).status = "torn"

LEMMA KnownType ==
    ASSUME Kept, NEW id \in Proposals
    PROVE  Known(id) \in ProposalOf(Status \cup {"absent", "torn"})
<1>1. proposals[id] \in ProposalOf(Status \cup {"absent"})
  BY DEF Kept, TypeOK
<1>2. proposals[id] \in ProposalOf(Status \cup {"absent", "torn"})
  BY <1>1 DEF ProposalOf
<1>3. files[id] \in ProposalOf(Status \cup {"absent", "torn"})
  BY DEF Kept, TypeOK
<1>4. QED
  BY <1>2, <1>3 DEF Known

LEMMA StopKnown ==
    ASSUME Kept, running, Stop, NEW id \in Proposals, files'[id] = files[id]
    PROVE  KnownStep(id)
<1>1. ~running' /\ Known(id)' = files'[id] /\ Known(id) = proposals[id]
  BY DEF Stop, Known
<1>2. failed[id] \in Nat
  BY DEF Kept, TypeOK
<1>3. failed[id] = 0 => Known(id) = IF files[id].status = "torn" THEN Absent ELSE files[id]
  BY <1>1 DEF Kept, Coherent, Readable
<1>4. files[id].status = "torn" => files[id] = Torn
  BY DEF Kept, Coherent
<1>5. QED
  BY <1>1, <1>2, <1>3, <1>4 DEF KnownStep

LEMMA NextKnown ==
    ASSUME Kept, Next, NEW id \in Proposals
    PROVE  KnownStep(id)
<1>1. /\ files \in [Proposals -> ProposalOf(Status \cup {"absent", "torn"})]
      /\ proposals \in [Proposals -> ProposalOf(Status \cup {"absent"})]
  BY DEF Kept, TypeOK
<1>2. ASSUME NEW j \in Proposals, NEW p, NEW f, WritesOn(j, p, f) PROVE KnownStep(id)
  <2>1. /\ running /\ running'
        /\ Known(id) = proposals[id] /\ Known(id)' = proposals'[id]
        /\ proposals' = [proposals EXCEPT ![j] = p]
        /\ LifeStep(proposals[j], p)
    BY <1>2 DEF WritesOn, Known
  <2>2. CASE id = j
    BY <1>1, <2>1, <2>2 DEF KnownStep
  <2>3. CASE id # j
    BY <1>1, <2>1, <2>3 DEF KnownStep
  <2>4. QED
    BY <2>2, <2>3
<1>3. ASSUME NEW j \in Proposals, NEW f, WritesStop(j, f) PROVE KnownStep(id)
  <2>1. /\ running /\ ~running' /\ Stop
        /\ Known(id) = proposals[id] /\ Known(id)' = files'[id]
        /\ files' = [files EXCEPT ![j] = f]
        /\ f = Torn \/ Advance(proposals[j], f)
    BY <1>3 DEF WritesStop, Stop, Known
  <2>2. CASE id = j
    BY <1>1, <2>1, <2>2 DEF KnownStep
  <2>3. CASE id # j
    <3>1. files'[id] = files[id]
      BY <1>1, <2>1, <2>3
    <3>2. QED
      BY <2>1, <3>1, StopKnown
  <2>4. QED
    BY <2>2, <2>3
<1>4. CASE \/ \E seat \in Seats, peer \in Peers : appointCouncilMember(seat, peer)
           \/ Crash
  <2>1. running /\ files' = files
    BY <1>4 DEF appointCouncilMember, Crash
  <2>2. CASE Stop
    BY <2>1, <2>2, StopKnown
  <2>3. CASE UNCHANGED <<running, proposals>>
    BY <2>1, <2>3 DEF Known, KnownStep
  <2>4. QED
    BY <1>4, <2>2, <2>3 DEF appointCouncilMember, Crash
<1>5. CASE loadState
  <2>1. Known(id) = files[id] /\ Known(id)' = proposals'[id]
    BY <1>5 DEF loadState, Known
  <2>2. proposals'[id] = IF files[id].status = "torn" THEN Absent ELSE files[id]
    BY <1>5 DEF loadState
  <2>3. QED
    BY <2>1, <2>2 DEF KnownStep
<1>6. CASE Tick
  BY <1>6 DEF Tick, memory, Known, KnownStep
<1>7. QED
  BY <1>2, <1>3, <1>4, <1>5, <1>6, NextWrites DEF Kept, Writes

-----------------------------------------------------------------------------
(***************************************************************************)
(* No stage of life undoes an earlier one.                                 *)
(***************************************************************************)
LEMMA Ranks ==
    /\ Rank("draft") = 1 /\ Rank("review") = 2 /\ Rank("voting") = 3
    /\ Rank("approved") = 4 /\ Rank("rejected") = 4
    /\ Rank("active") = 5 /\ Rank("sunset") = 6
  BY DEF Rank

\* A proposal under way goes on when it keeps its reviews and votes and does
\* not fall back.
\* A proposal under way goes on when it keeps its reviews and votes and does
\* not fall back.
LEMMA UnderWay ==
    ASSUME NEW was, NEW is \in ProposalOf(Status),
           was.status \notin Passed \cup {"rejected"},
           Rank(was.status) <= Rank(is.status),
           Reviews(was) \subseteq Reviews(is), Voters(was) \subseteq Voters(is)
    PROVE  Onward(was, is)
  BY DEF Onward, ProposalOf

LEMMA CheckRank ==
    ASSUME NEW p \in ProposalOf(Status), p.status = "review"
    PROVE  /\ Rank(p.status) <= Rank(checkReviewComplete(p).status)
           /\ checkReviewComplete(p).councilReviews = p.councilReviews
           /\ checkReviewComplete(p).votes = p.votes
<1> DEFINE is == checkReviewComplete(p)
<1>1. CASE is = [p EXCEPT !.status = "voting", !.votingStartedAt = now]
  <2>1. is.status = "voting" /\ is.councilReviews = p.councilReviews /\ is.votes = p.votes
    BY <1>1 DEF ProposalOf
  <2> HIDE DEF is
  <2>2. QED
    BY <2>1, Ranks DEF is
<1>2. CASE is = [p EXCEPT !.status = "rejected", !.resolvedAt = now]
  <2>1. is.status = "rejected" /\ is.councilReviews = p.councilReviews /\ is.votes = p.votes
    BY <1>2 DEF ProposalOf
  <2> HIDE DEF is
  <2>2. QED
    BY <2>1, Ranks DEF is
<1>3. CASE is = p
  BY <1>3, Ranks
<1>4. QED
  BY <1>1, <1>2, <1>3, CheckEffect

LEMMA AdvanceOnward ==
    ASSUME TypeOK, NEW was \in ProposalOf(Status), NEW is, Advance(was, is)
    PROVE  Onward(was, is)
<1>1. was \in ProposalOf(Status \cup {"absent"})
  BY DEF ProposalOf
<1>2. is \in ProposalOf(Status)
  BY <1>1, AdvanceType
<1>3. was.status \in {"draft", "review", "voting"} => was.status \notin Passed \cup {"rejected"}
  BY DEF Passed
<1>4. CASE was.status = "draft" /\ is = [was EXCEPT !.status = "review", !.reviewStartedAt = now]
  <2>1. /\ is.status = "review"
        /\ is.councilReviews = was.councilReviews /\ is.votes = was.votes
    BY <1>4 DEF ProposalOf
  <2>2. Reviews(is) = Reviews(was) /\ Voters(is) = Voters(was)
    BY <2>1, SameReviews, SameVotes
  <2>3. Rank(was.status) <= Rank(is.status)
    BY <1>4, <2>1, Ranks
  <2>4. QED
    BY <1>2, <1>3, <1>4, <2>2, <2>3, UnderWay
<1>5. CASE /\ was.status = "review"
           /\ \E seat \in Seats, review \in {"approved", "rejected"} :
                 \/ is = Reviewed(was, seat, review)
                 \/ is = checkReviewComplete(Reviewed(was, seat, review))
  <2>1. PICK seat \in Seats, review \in {"approved", "rejected"} :
               \/ is = Reviewed(was, seat, review)
               \/ is = checkReviewComplete(Reviewed(was, seat, review))
    BY <1>5
  <2> DEFINE p == Reviewed(was, seat, review)
  <2>2. /\ p \in ProposalOf(Status) /\ p.status = was.status /\ p.votes = was.votes
        /\ p.councilReviews = [was.councilReviews EXCEPT ![seat] = review]
    <3>1. p \in ProposalOf(Status) /\ p.status = was.status /\ p.votes = was.votes
      BY ReviewedType
    <3>2. p.councilReviews = [was.councilReviews EXCEPT ![seat] = review]
      BY DEF Reviewed, ProposalOf
    <3>3. QED
      BY <3>1, <3>2
  <2> HIDE DEF p
  <2>3. is.councilReviews = p.councilReviews /\ is.votes = was.votes
    BY <1>5, <2>1, <2>2, CheckRank DEF p
  <2>4. Reviews(was) \subseteq Reviews(is)
    BY <2>2, <2>3 DEF Reviews, ProposalOf
  <2>5. Voters(is) = Voters(was)
    BY <2>3, SameVotes
  <2>6. Rank(was.status) <= Rank(is.status)
    BY <1>5, <2>1, <2>2, CheckRank, Ranks DEF p
  <2>7. QED
    BY <1>2, <1>3, <1>5, <2>4, <2>5, <2>6, UnderWay
<1>6. ASSUME NEW voter \in Peers, NEW approve \in BOOLEAN, NEW weight \in Nat \ {0},
             was.status = "voting", is = Voted(was, voter, approve, weight)
      PROVE  Onward(was, is)
  <2>1. /\ is.status = "voting" /\ is.councilReviews = was.councilReviews
        /\ is.votes = [was.votes EXCEPT
                         ![voter] = [approve |-> approve, weight |-> weight]]
    BY <1>6 DEF Voted, ProposalOf
  <2>2. Voters(was) \subseteq Voters(is)
    BY <1>6, <2>1 DEF Voters, ProposalOf
  <2>3. Reviews(is) = Reviews(was)
    BY <2>1, SameReviews
  <2>4. Rank(was.status) <= Rank(is.status)
    BY <1>6, <2>1, Ranks
  <2>5. QED
    BY <1>2, <1>3, <1>6, <2>2, <2>3, <2>4, UnderWay
<1>7. ASSUME NEW total \in ActiveCounts, was.status = "voting", is = Tallied(was, total)
      PROVE  Onward(was, is)
  <2>1. /\ is.status \in {"approved", "rejected"}
        /\ is.councilReviews = was.councilReviews /\ is.votes = was.votes
    BY <1>7 DEF Tallied, ProposalOf
  <2>2. Reviews(is) = Reviews(was) /\ Voters(is) = Voters(was)
    BY <2>1, SameReviews, SameVotes
  <2>3. Rank(was.status) <= Rank(is.status)
    BY <1>7, <2>1, Ranks
  <2>4. QED
    BY <1>2, <1>3, <1>7, <2>2, <2>3, UnderWay
<1>8. CASE \/ was.status = "approved" /\ is = [was EXCEPT !.status = "active"]
           \/ was.status = "active" /\ is = [was EXCEPT !.status = "sunset"]
  <2>1. /\ is.councilReviews = was.councilReviews /\ is.votes = was.votes
        /\ is = [was EXCEPT !.status = is.status]
        /\ Rank(was.status) <= Rank(is.status)
    BY <1>8, Ranks DEF ProposalOf
  <2>2. Reviews(is) = Reviews(was) /\ Voters(is) = Voters(was)
    BY <2>1, SameReviews, SameVotes
  <2>3. is.status \in Status
    BY <1>2 DEF ProposalOf
  <2>4. QED
    BY <1>8, <2>1, <2>2, <2>3 DEF Onward
<1>9. QED
  BY <1>4, <1>5, <1>6, <1>7, <1>8 DEF Advance

\* No call, message or restart undoes what the node has recorded of a proposal;
\* only a new submission starts it again, a stop in the middle of a write loses
\* it, and a stop after a failed write goes back to what the file has.
THEOREM NothingUndoneTheorem == Spec => NothingIsUndone
<1> DEFINE Done(id) ==
      Known(id).status \in Status /\ Known(id)' # Known(id) =>
          \/ Onward(Known(id), Known(id)')
          \/ running /\ running' /\ Resubmitted(Known(id), Known(id)')
          \/ running /\ ~running' /\ (failed[id] > 0 \/ Known(id)'.status = "torn")
<1>1. Kept /\ [Next]_vars => [\A id \in Proposals : Done(id)]_vars
  <2> SUFFICES ASSUME Kept, Next, NEW id \in Proposals, Known(id).status \in Status,
                      Known(id)' # Known(id)
               PROVE  \/ Onward(Known(id), Known(id)')
                      \/ running /\ running' /\ Resubmitted(Known(id), Known(id)')
                      \/ /\ running /\ ~running'
                         /\ failed[id] > 0 \/ Known(id)'.status = "torn"
    BY Zenon
  <2>1. Known(id) \in ProposalOf(Status)
    BY KnownType DEF ProposalOf
  <2>2. Known(id).status # "torn" /\ Known(id) # Absent /\ Torn.status = "torn"
    BY FreshTypes DEF Status, Passed, ProposalOf
  <2>3. CASE Advance(Known(id), Known(id)')
    BY <2>1, <2>3, AdvanceOnward DEF Kept
  <2>4. CASE running /\ running' /\ LifeStep(Known(id), Known(id)')
    BY <2>2, <2>3, <2>4 DEF LifeStep, Enters
  <2>5. CASE running /\ ~running' /\ (failed[id] > 0 \/ Known(id)' = Torn)
    BY <2>2, <2>5
  <2>6. QED
    BY <2>2, <2>3, <2>4, <2>5, NextKnown DEF KnownStep
<1>2. Spec => [][\A id \in Proposals : Done(id)]_vars
  BY <1>1, GovernanceTypes, PTL DEF Spec
<1>3. QED
  BY <1>2 DEF NothingIsUndone

=============================================================================
