------------------------------ MODULE Governance ------------------------------
(***************************************************************************)
(* The GovernanceManager of one node (src/governance/council.js):          *)
(* proposals, council reviews, community votes, the registry of active     *)
(* projects, and what of them is on disk.                                  *)
(*                                                                         *)
(* A handler runs to its end before the next one starts, unless the        *)
(* process stops: writeFileSync truncates a file before it fills it, so    *)
(* that a stop in it leaves a torn file, which loadState skips.  A write   *)
(* may also fail; then it throws, with the file as it was or torn, and the *)
(* process runs on with what memory holds (handleGossip catches the error, *)
(* a caller of the other methods gets it).                                 *)
(*                                                                         *)
(* Times are Date.now(), in ticks; 0 stands for null, which is longer ago  *)
(* than any period.  Left out are the texts of a proposal, the terms of    *)
(* the seats (nothing but getCouncil reads expiresAt) and the queries.     *)
(***************************************************************************)
EXTENDS Integers, FiniteSets, FiniteSetsExt

CONSTANTS
    Proposals,      \* ids of proposals
    Seats,          \* seat ids of COUNCIL_SEATS
    Peers,          \* peers that hold seats, vote and gossip
    Reputations,    \* reputations a proposer or voter may have
    Weight,         \* Weight[rep]: sqrt(rep), in a fixed unit
    ActiveCounts,   \* inputs totalActiveNodes of tallyVotes
    Sent,           \* proposals that a message may carry
    Candidates,     \* peers that may be given a seat
    MaxTime,        \* bound on the clock
    MaxFailures,    \* bound on the failing writes of one file in a row
    Vacant          \* no peer

CONSTANTS           \* council.js
    VOTING_PERIOD_MS, REVIEW_PERIOD_MS, QUORUM_PERCENTAGE, APPROVAL_THRESHOLD,
    COUNCIL_APPROVAL_REQUIRED, MIN_REPUTATION_TO_PROPOSE, MIN_REPUTATION_TO_VOTE,
    DefaultReputation   \* 500: of a vote message without a reputation

ASSUME SetsAssumption ==
    /\ IsFiniteSet(Seats) /\ IsFiniteSet(Peers) /\ Vacant \notin Peers
    /\ Candidates \subseteq Peers

ASSUME NumbersAssumption ==
    /\ Reputations \cup {DefaultReputation} \subseteq Nat
    /\ Weight \in [Reputations \cup {DefaultReputation} -> Nat]
    /\ \A rep \in DOMAIN Weight : rep > 0 => Weight[rep] > 0
    /\ MIN_REPUTATION_TO_VOTE \in Nat \ {0}
    /\ MIN_REPUTATION_TO_PROPOSE \in Nat
    /\ ActiveCounts \subseteq Nat
    /\ {MaxTime, MaxFailures} \subseteq Nat
    /\ {VOTING_PERIOD_MS, REVIEW_PERIOD_MS, QUORUM_PERCENTAGE,
        APPROVAL_THRESHOLD} \subseteq Nat
    /\ COUNCIL_APPROVAL_REQUIRED \in 1 .. Cardinality(Seats)
    /\ 2 * COUNCIL_APPROVAL_REQUIRED <= Cardinality(Seats) + 2

VARIABLES
    now,            \* Date.now()
    running,        \* the process is up
    proposals,      \* GovernanceManager.proposals
    council,        \* GovernanceManager.council: the peer in each seat
    activeProjects, \* GovernanceManager.activeProjects
    files,          \* proposals/<id>.json
    state,          \* state.json
    failed          \* history: how many of the last writes of each file failed

memory == <<proposals, council, activeProjects, failed>>
vars == <<now, running, memory, files, state>>

(***************************************************************************)
(* Proposals.  A proposal that is not in the Map is "absent"; a file that  *)
(* cannot be parsed is "torn".  cameAs is a history that no handler reads: *)
(* the status with which this node got the proposal.                       *)
(***************************************************************************)
NotCast == [approve |-> FALSE, weight |-> 0]

NewProposal(status) ==
    [status |-> status, cameAs |-> status,
     reviewStartedAt |-> 0, votingStartedAt |-> 0, resolvedAt |-> 0,
     councilReviews |-> [s \in Seats |-> "none"],
     votes |-> [v \in Peers |-> NotCast]]

Absent == NewProposal("absent")
Torn == NewProposal("torn")
Draft == NewProposal("draft")

Passed == {"approved", "active", "sunset"}
Status == {"draft", "review", "voting", "rejected"} \cup Passed

ProposalOf(statuses) ==
    [status : statuses, cameAs : Status \cup {"absent", "torn"},
     reviewStartedAt : Nat, votingStartedAt : Nat, resolvedAt : Nat,
     councilReviews : [Seats -> {"none", "approved", "rejected"}],
     votes : [Peers -> [approve : BOOLEAN, weight : Nat]]]

\* fromJSON takes over the status, dates, reviews and votes of a message as they
\* are.  (A status of no meaning is inert, a missing date is like null for the
\* vote and like a later date for the review; seats of no council and votes of
\* no weight are left out.)
ASSUME SentAssumption == Sent \subseteq ProposalOf(Status)

Reviews(p) == {s \in Seats : p.councilReviews[s] # "none"}
Approvals(p) == {s \in Seats : p.councilReviews[s] = "approved"}
Voters(p) == {v \in Peers : p.votes[v].weight > 0}
WeightOf(p, voters) == MapThenSumSet(LAMBDA v : p.votes[v].weight, voters)
Approving(p) == {v \in Voters(p) : p.votes[v].approve}

NoState == [council |-> [s \in Seats |-> Vacant], activeProjects |-> {}]

Init ==
    /\ now = VOTING_PERIOD_MS + REVIEW_PERIOD_MS + 1
    /\ running = TRUE
    /\ proposals = [id \in Proposals |-> Absent]
    /\ council = NoState.council
    /\ activeProjects = NoState.activeProjects
    /\ files = [id \in Proposals |-> Absent]
    /\ state = NoState
    /\ failed = [id \in Proposals |-> 0]

(***************************************************************************)
(* The process stops and loses its memory; loadState at the next start     *)
(* finds the proposals whose files are whole.                              *)
(***************************************************************************)
Stop ==
    /\ running' = FALSE
    /\ proposals' = [id \in Proposals |-> Absent]
    /\ council' = NoState.council
    /\ activeProjects' = NoState.activeProjects
    /\ failed' = [id \in Proposals |-> 0]
    /\ now' = now

Crash == running /\ Stop /\ UNCHANGED <<files, state>>

\* Mutation of loadState: a file that cannot be parsed is not skipped.
loadState_NoSkip ==
    /\ ~running
    /\ running' = TRUE
    /\ council' = state.council
    /\ activeProjects' = state.activeProjects
    /\ proposals' = files
    /\ UNCHANGED <<now, files, state, failed>>

loadState ==
    /\ ~running
    /\ running' = TRUE
    /\ council' = state.council
    /\ activeProjects' = state.activeProjects
    /\ proposals' = [id \in Proposals |->
                       IF files[id].status = "torn" THEN Absent ELSE files[id]]
    /\ UNCHANGED <<now, files, state, failed>>

(***************************************************************************)
(* saveProposal as the end of a handler that leaves proposal p under id:   *)
(* the file is written, or the write fails over the contents it had, or    *)
(* the process stops in it.                                                *)
(***************************************************************************)
Saves(id, p) ==
    /\ proposals' = [proposals EXCEPT ![id] = p]
    /\ files' = [files EXCEPT ![id] = p]
    /\ failed' = [failed EXCEPT ![id] = 0]
    /\ UNCHANGED <<now, running, council, state>>

SaveFails(id, p, contents) ==
    /\ failed[id] < MaxFailures
    /\ proposals' = [proposals EXCEPT ![id] = p]
    /\ files' \in {[files EXCEPT ![id] = f] : f \in {contents, Torn}}
    /\ failed' = [failed EXCEPT ![id] = @ + 1]
    /\ UNCHANGED <<now, running, council, state>>

SaveStops(id) ==
    /\ Stop
    /\ files' = [files EXCEPT ![id] = Torn]
    /\ state' = state

saveProposal(id, p) ==
    /\ running
    /\ Saves(id, p) \/ SaveFails(id, p, files[id]) \/ SaveStops(id)

Registry(active) == activeProjects' = IF running' THEN active ELSE {}

(***************************************************************************)
(* The life of a proposal.                                                 *)
(***************************************************************************)
Redraft(p) == [p EXCEPT !.status = "draft", !.cameAs = "draft"]

\* A new proposal, also under an id that is taken, or one that the manager has
\* handed out, with all that is recorded of it.
submitProposal(id, proposerReputation) ==
    /\ proposerReputation >= MIN_REPUTATION_TO_PROPOSE
    /\ \/ saveProposal(id, Draft)
       \/ proposals[id] # Absent /\ saveProposal(id, Redraft(proposals[id]))
    /\ Registry(activeProjects)

startReview(id) ==
    /\ proposals[id].status = "draft"
    /\ saveProposal(id, [proposals[id] EXCEPT !.status = "review",
                                              !.reviewStartedAt = now])
    /\ Registry(activeProjects)

\* Mutation of checkReviewComplete: a review opens the vote also in time.
checkReviewComplete_AnyTime(p) ==
    LET reviews   == Cardinality(Reviews(p))
        approvals == Cardinality(Approvals(p))
    IN  CASE approvals >= COUNCIL_APPROVAL_REQUIRED ->
                [p EXCEPT !.status = "voting", !.votingStartedAt = now]
          [] approvals + (Cardinality(Seats) - reviews) < COUNCIL_APPROVAL_REQUIRED ->
                [p EXCEPT !.status = "rejected", !.resolvedAt = now]
          [] /\ reviews < COUNCIL_APPROVAL_REQUIRED
             /\ approvals > 0 ->
                [p EXCEPT !.status = "voting", !.votingStartedAt = now]
          [] OTHER -> p

\* The three conditions exclude one another.
checkReviewComplete(p) ==
    LET reviews   == Cardinality(Reviews(p))
        approvals == Cardinality(Approvals(p))
    IN  CASE approvals >= COUNCIL_APPROVAL_REQUIRED ->
                [p EXCEPT !.status = "voting", !.votingStartedAt = now]
          [] approvals + (Cardinality(Seats) - reviews) < COUNCIL_APPROVAL_REQUIRED ->
                [p EXCEPT !.status = "rejected", !.resolvedAt = now]
          [] /\ now - p.reviewStartedAt > REVIEW_PERIOD_MS
             /\ reviews < COUNCIL_APPROVAL_REQUIRED
             /\ approvals > 0 ->
                [p EXCEPT !.status = "voting", !.votingStartedAt = now]
          [] OTHER -> p

\* The review is saved before it is counted: the process may stop in between,
\* and a failing write skips the count.
submitCouncilReview(id, seat, reviewer, approved) ==
    LET review   == IF approved THEN "approved" ELSE "rejected"
        reviewed == [proposals[id] EXCEPT !.councilReviews[seat] = review]
        checked  == checkReviewComplete(reviewed)
    IN
    /\ proposals[id].status = "review"
    /\ council[seat] = reviewer
    /\ \/ Saves(id, checked)
       \/ SaveFails(id, reviewed, files[id])
       \/ checked # reviewed /\ SaveFails(id, checked, reviewed)
       \/ SaveStops(id)
       \/ Stop /\ files' = [files EXCEPT ![id] = reviewed] /\ state' = state
    /\ Registry(activeProjects)

\* Mutation of castVote: the vote is not saved.
castVote_Unsaved(id, voter, approve, voterReputation) ==
    /\ proposals[id].status = "voting"
    /\ voterReputation >= MIN_REPUTATION_TO_VOTE
    /\ proposals' = [proposals EXCEPT ![id].votes[voter] =
                       [approve |-> approve, weight |-> Weight[voterReputation]]]
    /\ UNCHANGED <<now, running, council, activeProjects, files, state, failed>>

castVote(id, voter, approve, voterReputation) ==
    /\ proposals[id].status = "voting"
    /\ voterReputation >= MIN_REPUTATION_TO_VOTE
    /\ saveProposal(id, [proposals[id] EXCEPT !.votes[voter] =
                           [approve |-> approve, weight |-> Weight[voterReputation]]])
    /\ Registry(activeProjects)

quorum(totalActiveNodes) == (totalActiveNodes * QUORUM_PERCENTAGE + 99) \div 100

\* Mutation of Passes: without the quorum.
Passes_NoQuorum(p, totalActiveNodes) ==
    LET total == WeightOf(p, Voters(p))
    IN  total > 0 /\ WeightOf(p, Approving(p)) * 100 >= APPROVAL_THRESHOLD * total

\* Without any vote the approval rate is not a number and no proposal passes.
Passes(p, totalActiveNodes) ==
    LET total == WeightOf(p, Voters(p))
    IN  /\ Cardinality(Voters(p)) >= quorum(totalActiveNodes)
        /\ total > 0
        /\ WeightOf(p, Approving(p)) * 100 >= APPROVAL_THRESHOLD * total

tallyVotes(id, totalActiveNodes) ==
    LET p == proposals[id] IN
    /\ p.status = "voting"
    /\ now - p.votingStartedAt >= VOTING_PERIOD_MS
    /\ saveProposal(id, [p EXCEPT
          !.status = IF Passes(p, totalActiveNodes) THEN "approved" ELSE "rejected",
          !.resolvedAt = now])
    /\ Registry(activeProjects)

\* Neither of the two saves state.json.
activateProject(id) ==
    /\ proposals[id].status = "approved"
    /\ saveProposal(id, [proposals[id] EXCEPT !.status = "active"])
    /\ Registry(activeProjects \cup {id})

sunsetProject(id) ==
    /\ proposals[id].status = "active"
    /\ saveProposal(id, [proposals[id] EXCEPT !.status = "sunset"])
    /\ Registry(activeProjects \ {id})

\* saveState may fail or be stopped too: a torn state.json is read as an empty
\* one.
appointCouncilMember(seat, peer) ==
    LET appointed == [council EXCEPT ![seat] = peer] IN
    /\ running
    /\ \/ /\ council' = appointed
          /\ state' \in {[council |-> appointed, activeProjects |-> activeProjects],
                        state, NoState}
          /\ UNCHANGED <<now, running, proposals, activeProjects, files, failed>>
       \/ Stop /\ state' = NoState /\ files' = files

(***************************************************************************)
(* handleGossip.  A proposal that is not known is stored as it comes; one  *)
(* that is known is left alone.                                            *)
(***************************************************************************)
receiveProposal(id) ==
    /\ proposals[id] = Absent
    /\ \E p \in Sent : saveProposal(id, [p EXCEPT !.cameAs = p.status])
    /\ Registry(activeProjects)

receiveVote(id, from, approve, reputation) ==
    castVote(id, from, approve, IF reputation = 0 THEN DefaultReputation ELSE reputation)

handleGossip(id, from) ==
    \/ receiveProposal(id)
    \/ \E approve \in BOOLEAN :
         \/ \E seat \in Seats : submitCouncilReview(id, seat, from, approve)
         \/ \E reputation \in Reputations \cup {0} :
              receiveVote(id, from, approve, reputation)

Tick ==
    /\ now < MaxTime
    /\ now' = now + 1
    /\ UNCHANGED <<running, memory, files, state>>

\* A peer's own calls of submitCouncilReview and castVote do what its messages do.
Next ==
    \/ \E id \in Proposals :
         \/ \E rep \in Reputations : submitProposal(id, rep)
         \/ startReview(id)
         \/ \E from \in Peers : handleGossip(id, from)
         \/ \E total \in ActiveCounts : tallyVotes(id, total)
         \/ activateProject(id)
         \/ sunsetProject(id)
    \/ \E seat \in Seats, peer \in Candidates : appointCouncilMember(seat, peer)
    \/ Crash
    \/ loadState
    \/ Tick

Spec == Init /\ [][Next]_vars

-----------------------------------------------------------------------------
(***************************************************************************)
(* Properties.                                                             *)
(***************************************************************************)
Council == [Seats -> Peers \cup {Vacant}]

\* The manager holds and stores what its fields are declared to hold; a torn
\* file is never taken for a proposal.
TypeOK ==
    /\ now \in Nat \ {0}
    /\ running \in BOOLEAN
    /\ proposals \in [Proposals -> ProposalOf(Status \cup {"absent"})]
    /\ council \in Council
    /\ activeProjects \in SUBSET Proposals
    /\ files \in [Proposals -> ProposalOf(Status \cup {"absent", "torn"})]
    /\ state \in [council : Council, activeProjects : SUBSET Proposals]
    /\ failed \in [Proposals -> Nat]

\* What the node knows of a proposal, or will know when it runs again.
Known(id) == IF running THEN proposals[id] ELSE files[id]

\* For a proposal that came here before any vote: a community vote opens only on
\* enough approvals, or late, on too few reviews with an approval among them,
\* and a proposal is rejected only when the council can no longer approve it or
\* when such a vote has lasted its period.  Reviews may be revised, seats given
\* to others, writes fail, the process stop between a review and its count, and
\* the proposal be submitted again with its old reviews and dates.
CouncilDecides ==
    \A id \in Proposals :
        LET p         == Known(id)
            reviews   == Cardinality(Reviews(p))
            approvals == Cardinality(Approvals(p))
            Opened    == \/ approvals >= COUNCIL_APPROVAL_REQUIRED
                         \/ /\ approvals > 0 /\ reviews < COUNCIL_APPROVAL_REQUIRED
                            /\ p.votingStartedAt > p.reviewStartedAt + REVIEW_PERIOD_MS
        IN  p.cameAs \in {"draft", "review"} =>
              /\ p.status \in {"voting"} \cup Passed => Opened
              /\ p.status = "rejected" =>
                    \/ approvals + (Cardinality(Seats) - reviews) < COUNCIL_APPROVAL_REQUIRED
                    \/ Opened /\ p.resolvedAt >= p.votingStartedAt + VOTING_PERIOD_MS

\* What was approved, activated or retired, and did not come here as such,
\* passed a whole voting period, a quorum and the threshold with the votes that
\* are still on record: no restart, failed write, late vote or change of mind
\* separates the decision from them.
PassedTheVote ==
    \A id \in Proposals :
        LET p     == Known(id)
            total == WeightOf(p, Voters(p))
        IN  p.status \in Passed /\ p.cameAs \notin Passed =>
              /\ p.resolvedAt >= p.votingStartedAt + VOTING_PERIOD_MS
              /\ \E nodes \in ActiveCounts : Cardinality(Voters(p)) >= quorum(nodes)
              /\ WeightOf(p, Approving(p)) * 100 >= APPROVAL_THRESHOLD * total

Rank(status) ==
    CASE status = "draft" -> 1
      [] status = "review" -> 2
      [] status = "voting" -> 3
      [] status \in {"approved", "rejected"} -> 4
      [] status = "active" -> 5
      [] status = "sunset" -> 6

\* A proposal submitted again: nothing is left of it, or all but its status.
Resubmitted(was, is) == is \in {Draft, Redraft(was)}

\* A proposal that goes on: its status never goes back, its reviews and votes
\* are never lost, and after the decision only its status changes.
Onward(was, is) ==
    /\ is.status \in Status
    /\ Rank(was.status) <= Rank(is.status)
    /\ was.status = "rejected" => is = was
    /\ Reviews(was) \subseteq Reviews(is)
    /\ Voters(was) \subseteq Voters(is)
    /\ was.status \in Passed => is = [was EXCEPT !.status = is.status]

\* No call, message or restart undoes what the node has recorded of a proposal.
\* The exceptions are a new submission under its id, a stop in the middle of a
\* write, which loses the whole proposal, and a stop after a write that failed.
NothingIsUndone ==
    [][\A id \in Proposals :
         LET was == Known(id)
             is  == Known(id)'
         IN  was.status \in Status /\ is # was =>
               \/ Onward(was, is)
               \/ running /\ running' /\ Resubmitted(was, is)
               \/ running /\ ~running' /\ (failed[id] > 0 \/ is.status = "torn")
      ]_vars

-----------------------------------------------------------------------------
(***************************************************************************)
(* What a comment says and the program does not do.                        *)
(***************************************************************************)
\* getActiveProjects: "Get the list of active research projects (approved by
\* governance)".
ActiveProjectsListed ==
    running => {id \in Proposals : proposals[id].status = "active"} \subseteq activeProjects

=============================================================================
