----------------------------- MODULE GovernanceMC -----------------------------
(***************************************************************************)
(* Instances of Governance for TLC.                                        *)
(***************************************************************************)
EXTENDS Governance, TLC

CONSTANTS p1,        \* a proposal
          s, t,      \* seats
          a, b       \* peers

\* Square roots in tenths, rounded: the reputation below the limit for votes,
\* the limit, and the limit for proposals.
SmallWeights == (400 :> 200) @@ (500 :> 224) @@ (2000 :> 447)

\* A draft, and proposals that others have taken further: under review with all
\* approvals, open to the vote without a date and with votes, and approved.
SmallSent ==
    {Draft,
     [NewProposal("review") EXCEPT !.councilReviews = [seat \in Seats |-> "approved"]],
     [NewProposal("voting") EXCEPT
         !.votes = [peer \in Peers |-> [approve |-> TRUE, weight |-> 447]]],
     NewProposal("approved")}

Alike == Permutations(Seats)

=============================================================================
