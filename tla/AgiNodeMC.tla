----------------------------- MODULE AgiNodeMC -----------------------------
(***************************************************************************)
(* A checked instance of AgiNode.  Each workload is about one of the       *)
(* things a node does, with what else it needs: peers and their messages;  *)
(* registration against others and with a fault; restarts with proofs      *)
(* under way; staking; all of them once.                                   *)
(***************************************************************************)
EXTENDS AgiNode

CONSTANTS n1, n2, basic

BasicReward == [m \in Capabilities |-> {2}]

\* Two of five rows; row 4 is the last of an odd level, paired with itself.
MCChallengeRows == [r \in Rounds |-> {(r + 1) % MATRIX_SIZE, (r + 3) % MATRIX_SIZE}]

MCOwnerCalls ==
    {[kind |-> "request_unstake", amount |-> MIN_STAKE],
     [kind |-> "withdraw_unstake", amount |-> 0],
     [kind |-> "stake", amount |-> MIN_STAKE],
     [kind |-> "update_capabilities", amount |-> 0],
     [kind |-> "report_violation", amount |-> 0],
     [kind |-> "heartbeat", amount |-> 2]}

Quiet ==
    [p2p |-> {FALSE}, neighbours |-> {1}, configured |-> FALSE, autoStake |-> {}, rounds |-> 1,
     faults |-> 0, starts |-> 1, signals |-> 0, deaths |-> 0, messages |-> 0, challenges |-> 0,
     requests |-> 0, minutes |-> 0, calls |-> 0, others |-> 0, ticks |-> 0]

Gossip == [Quiet EXCEPT !.p2p = {TRUE}]
OnChain == [Quiet EXCEPT !.configured = TRUE]

MCWorkloads ==
    {[Gossip EXCEPT !.messages = 4, !.challenges = 3],
     [Gossip EXCEPT !.messages = 5, !.minutes = 2],
     [Gossip EXCEPT !.messages = 3, !.requests = 2],
     [Gossip EXCEPT !.messages = 1, !.challenges = 1, !.starts = 2, !.signals = 1, !.deaths = 1,
                    !.neighbours = {1, 2}],
     [OnChain EXCEPT !.rounds = 2, !.others = 1, !.faults = 1],
     [OnChain EXCEPT !.rounds = 2, !.starts = 2, !.deaths = 1],
     [OnChain EXCEPT !.autoStake = {4, 5}, !.others = 2],
     [OnChain EXCEPT !.others = 1, !.calls = 1],
     [OnChain EXCEPT !.autoStake = {4}, !.calls = 2, !.ticks = 2],
     [OnChain EXCEPT !.rounds = 2, !.autoStake = {4}, !.faults = 1],
     [OnChain EXCEPT !.p2p = BOOLEAN, !.autoStake = {4}, !.messages = 1, !.signals = 1]}

\* A node that stays up, with one tick of the auto-stake interval after another.
MCAutoStake == {[OnChain EXCEPT !.autoStake = {4}, !.others = 1]}

=============================================================================
