------------------------------- MODULE Brain -------------------------------
(***************************************************************************)
(* The AgentBrain of every node (src/brain/agent.js) with its research     *)
(* pipelines and its leaderboards, and the GossipSub topics between them.  *)
(*                                                                         *)
(* A node with the research capability always picks research, and a node   *)
(* without it always picks the leaderboard sync (totalExperiments stays 0),*)
(* so that the documents of researchers are never sent.  setInterval does  *)
(* not wait for the tick before, so that ticks overlap.                    *)
(*                                                                         *)
(* GossipSub is external.  An experiment result that was published may be  *)
(* delivered at any time, in any order, more than once, or never; a        *)
(* document in transit may be lost, or replaced by the next one of its     *)
(* sender (an older one would change nothing where a newer one arrived).   *)
(***************************************************************************)
EXTENDS ResearchPipeline, Leaderboard

CONSTANTS
    Researchers,    \* nodes with the research capability
    Workloads       \* bounds: runs and starts of each node

ASSUME BrainAssumption == Researchers \subseteq Nodes

VARIABLES
    unsent,         \* results of n saved and not yet broadcast
    gossip,         \* experiment results published so far
    wire,           \* wire[c]: the document of c in transit
    budget,         \* what is left of the workload
    heard,          \* history: heard[n][p]: results of p delivered to n since its start
    synced          \* history: n applied a document since its start

brainVars == <<unsent, gossip, wire, budget, heard, synced>>
vars == <<pipelineVars, boardVars, brainVars>>

Syncers == Nodes \ Researchers

\* What a result shows on the board of its project's domain: the papers have
\* a score and no bestResult, the field of their domain.
Field(v) == IF project = "academic-papers" THEN Blank ELSE v

Unheard == [p \in Nodes |-> {}]

Init ==
    /\ PipelineInit
    /\ BoardInit
    /\ direction = getMetricDirection
    /\ budget \in Workloads
    /\ unsent = [n \in Nodes |-> {}]
    /\ gossip = {}
    /\ wire = [c \in Syncers |-> {}]
    /\ heard = [n \in Nodes |-> Unheard]
    /\ synced = [n \in Nodes |-> FALSE]

\* Only research counts up totalExperiments.
pickAction(n) ==
    LET totalExperiments == 0
    IN  IF n \in Researchers THEN "research"
        ELSE IF totalExperiments % 5 = 0 THEN "sync_leaderboards" ELSE "idle"

\* tick of a researcher, up to the training.
tick(n) ==
    /\ pickAction(n) = "research"
    /\ budget.runs[n] > 0
    /\ budget' = [budget EXCEPT !.runs[n] = @ - 1]
    /\ runCycle(n)
    /\ UNCHANGED <<boardVars, unsent, gossip, wire, heard, synced>>

\* The tick after the training.  It submits the whole experiment result, whose
\* metric is one level deeper, so that its own row has no value; the result
\* is broadcast when storage.put has returned.
tickEnds(n, v) ==
    /\ runExperiment(n, v)
    /\ submit(n, n, Blank)
    /\ unsent' = [unsent EXCEPT ![n] = @ \cup {v}]
    /\ UNCHANGED <<gossip, wire, budget, heard, synced>>

broadcastResult(n, v) ==
    /\ v \in unsent[n]
    /\ unsent' = [unsent EXCEPT ![n] = @ \ {v}]
    /\ gossip' = gossip \cup {[peer |-> n, metric |-> v]}
    /\ UNCHANGED <<pipelineVars, boardVars, wire, budget, heard, synced>>

handleGossip(n, msg) ==
    /\ up[n]
    /\ msg.peer # n
    /\ submit(n, msg.peer, Field(msg.metric))
    /\ heard' = [heard EXCEPT ![n][msg.peer] = @ \cup {Field(msg.metric)}]
    /\ UNCHANGED <<pipelineVars, unsent, gossip, wire, budget, synced>>

\* tick of a node without the research capability.
syncLeaderboards(c) ==
    /\ pickAction(c) = "sync_leaderboards"
    /\ up[c]
    /\ wire' = [wire EXCEPT ![c] = getFullState(c)]
    /\ UNCHANGED <<pipelineVars, boardVars, unsent, gossip, budget, heard, synced>>

\* handleGossip on the topic LEADERBOARD_SYNC.
receiveUpdate(n, c) ==
    /\ up[n]
    /\ n # c
    /\ wire[c] # {}
    /\ applyUpdate(n, wire[c])
    /\ synced' = [synced EXCEPT ![n] = TRUE]
    /\ UNCHANGED <<pipelineVars, unsent, gossip, wire, budget, heard>>

loseUpdate(c) ==
    /\ wire[c] # {}
    /\ wire' = [wire EXCEPT ![c] = {}]
    /\ UNCHANGED <<pipelineVars, boardVars, unsent, gossip, budget, heard, synced>>

\* The process of n stops; documents and ticks are in memory only.
Forget(n) ==
    /\ LoseBoard(n)
    /\ unsent' = [unsent EXCEPT ![n] = {}]
    /\ heard' = [heard EXCEPT ![n] = Unheard]
    /\ synced' = [synced EXCEPT ![n] = FALSE]
    /\ UNCHANGED <<wire, budget>>

stop(n) == Crash(n) /\ Forget(n) /\ UNCHANGED gossip

\* Mutation of stopInSave: the result was broadcast before it was saved.
stopInSave_Sent(n, v) ==
    /\ CrashInSave(n, v)
    /\ Forget(n)
    /\ gossip' = gossip \cup {[peer |-> n, metric |-> v]}

stopInSave(n, v) == CrashInSave(n, v) /\ Forget(n) /\ UNCHANGED gossip

start(n) ==
    /\ budget.starts[n] > 0
    /\ budget' = [budget EXCEPT !.starts[n] = @ - 1]
    /\ NewBoard(n)
    /\ loadPersistedState(n)
    /\ UNCHANGED <<unsent, gossip, wire, heard, synced>>

Next ==
    \/ \E n \in Nodes : tick(n) \/ stop(n) \/ start(n)
    \/ \E n \in Nodes, v \in simulateExperiment :
          tickEnds(n, v) \/ broadcastResult(n, v) \/ stopInSave(n, v)
    \/ \E n \in Nodes, msg \in gossip : handleGossip(n, msg)
    \/ \E c \in Syncers : syncLeaderboards(c) \/ loseUpdate(c)
    \/ \E n \in Nodes, c \in Syncers : receiveUpdate(n, c)

\* setInterval ticks on, and of the documents sent again and again some
\* arrive everywhere.  Nothing is assumed of the results, which are sent once.
Fairness ==
    \A c \in Syncers :
        /\ WF_vars(syncLeaderboards(c))
        /\ \A n \in Nodes \ {c} : SF_vars(receiveUpdate(n, c))

Spec == Init /\ [][Next]_vars /\ Fairness

(***************************************************************************)
(* Properties.                                                             *)
(***************************************************************************)
\* Types of the state; the paths of a document's writes are distinct.
ResearchTypeOK ==
    /\ PipelineTypeOK
    /\ direction \in {"asc", "desc"}
    /\ \A n \in Nodes : client[n] \in Clients[n] \cup {NoClient}
    /\ \A n \in Nodes : \A w, x \in docs[n] :
          /\ w.peer \in Nodes /\ w.metric \in Metrics \cup {Blank}
          /\ w.peer = x.peer /\ w.path = x.path => w = x
    /\ unsent \in [Nodes -> SUBSET Metrics]
    /\ \A msg \in gossip : msg.peer \in Researchers /\ msg.metric \in saved[msg.peer]
    /\ heard \in [Nodes -> [Nodes -> SUBSET (Metrics \cup {Blank})]]

BestHeard(x, values) ==
    IF values = {} THEN x = Absent
    ELSE x \in values /\ \A y \in values : Above(x, y)

\* A node that applied no document of another node shows, for every peer but
\* itself, the best result of that peer it heard of, in whatever order and
\* however often they came, and the best of all of them on top (handleGossip,
\* submit, getTop); its own rows, which have no value, are never in front.
UnsyncedKeepsBest ==
    \A n \in Nodes : ~synced[n] =>
        /\ \A p \in Nodes \ {n} : BestHeard(Row(docs[n], p), heard[n][p])
        /\ LET all == UNION {heard[n][p] : p \in Nodes}
           IN  all # {} => BestHeard(getGlobalBest(n), all)

\* A value on any board, wherever it came from, is of a result that the peer
\* of the row had saved in a run file (saveResult comes before the broadcast).
RowsWereSaved ==
    \A n \in Nodes : \A w \in docs[n] :
        w.metric # Blank => w.metric \in saved[w.peer]

Shows(n, p, v) == \E w \in docs[n] : w.peer = p /\ w.metric = v

\* What a node without the research capability knows of a peer's results
\* comes to every node, unless one of the two stops (syncLeaderboards at
\* every tick, applyUpdate).
SyncSpreads ==
    \A c \in Syncers, p \in Researchers, v \in Metrics : \A n \in Nodes \ {c} :
        Shows(c, p, v) ~> (Shows(n, p, v) \/ ~up[n] \/ ~Shows(c, p, v))

=============================================================================
