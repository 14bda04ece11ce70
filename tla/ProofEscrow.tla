---------------------------- MODULE ProofEscrow ----------------------------
(***************************************************************************)
(* What the reward program promises of a claim, without clocks, stakes,    *)
(* reputations or bans: a node claims a round at most once; a claim is     *)
(* void, or open to the votes of other nodes; each of them votes at most   *)
(* once, and only while it is open; an open claim is paid at most once,    *)
(* by a quorum of confirmations that outnumber the disputes, within the    *)
(* supply cap; and nothing else mints.                                     *)
(***************************************************************************)
EXTENDS Integers, FiniteSets

CONSTANTS Nodes, Rounds, Quorum

VARIABLES
    claim,      \* claim[n][r] : "none", "void", "open" or "paid"
    confirmed,  \* confirmed[n][r] : the nodes that confirmed it
    disputed,   \* disputed[n][r] : the nodes that disputed it
    minted,     \* tokens minted so far
    cap         \* the supply cap

vars == <<claim, confirmed, disputed, minted, cap>>

Init ==
    /\ claim = [n \in Nodes |-> [r \in Rounds |-> "none"]]
    /\ confirmed = [n \in Nodes |-> [r \in Rounds |-> {}]]
    /\ disputed = [n \in Nodes |-> [r \in Rounds |-> {}]]
    /\ minted = 0
    /\ cap \in Nat

SetCap ==
    /\ minted = 0
    /\ cap' \in Nat
    /\ UNCHANGED <<claim, confirmed, disputed, minted>>

Claim(n, r, status) ==
    /\ claim[n][r] = "none"
    /\ claim' = [claim EXCEPT ![n][r] = status]
    /\ UNCHANGED <<confirmed, disputed, minted, cap>>

MayVote(v, n, r) ==
    /\ v # n
    /\ claim[n][r] = "open"
    /\ v \notin confirmed[n][r] \cup disputed[n][r]

Confirm(v, n, r) ==
    /\ MayVote(v, n, r)
    /\ confirmed' = [confirmed EXCEPT ![n][r] = @ \cup {v}]
    /\ UNCHANGED <<claim, disputed, minted, cap>>

Dispute(v, n, r) ==
    /\ MayVote(v, n, r)
    /\ disputed' = [disputed EXCEPT ![n][r] = @ \cup {v}]
    /\ UNCHANGED <<claim, confirmed, minted, cap>>

Pay(n, r) ==
    /\ claim[n][r] = "open"
    /\ Cardinality(confirmed[n][r]) >= Quorum
    /\ Cardinality(confirmed[n][r]) > Cardinality(disputed[n][r])
    /\ claim' = [claim EXCEPT ![n][r] = "paid"]
    /\ minted' \in minted + 1 .. cap
    /\ UNCHANGED <<confirmed, disputed, cap>>

Next ==
    \/ SetCap
    \/ \E n \in Nodes, r \in Rounds :
         \/ \E status \in {"void", "open"} : Claim(n, r, status)
         \/ \E v \in Nodes : Confirm(v, n, r) \/ Dispute(v, n, r)
         \/ Pay(n, r)

Spec == Init /\ [][Next]_vars

=============================================================================
