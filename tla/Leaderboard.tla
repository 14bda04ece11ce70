---------------------------- MODULE Leaderboard ----------------------------
(***************************************************************************)
(* The LeaderboardManager of every node (src/crdt/leaderboard.js), for the *)
(* board of one domain.  A board is a Yjs document with one map, from peer *)
(* ids to the best result of each peer.                                    *)
(*                                                                         *)
(* Yjs is external.  A document is the set of all writes it has seen;      *)
(* merging is union.  A write of a key is placed after the write that was  *)
(* current for the key where it was made, and of two writes made after the *)
(* same one the higher client id comes later; the last write of a key is   *)
(* its current one.  A write is identified by its path: the clients of the *)
(* writes it follows, and its own.                                         *)
(*                                                                         *)
(* A result is abstracted to its metric.                                   *)
(***************************************************************************)
EXTENDS Experiments, Sequences

CONSTANT Clients    \* Clients[n]: the Yjs client ids that documents of n may draw

ASSUME ClientsAssumption ==
    \A n \in Nodes :
        /\ Clients[n] \subseteq Nat
        /\ \A m \in Nodes \ {n} : Clients[m] \cap Clients[n] = {}

VARIABLES
    direction,  \* DOMAINS[domain].direction
    docs,       \* docs[n]: the document of node n
    client,     \* client[n]: the client id of the document of n
    drawn       \* client ids drawn so far

boardVars == <<direction, docs, client, drawn>>

Blank == 0      \* of a result without the field of the domain: result[field] ?? 0
Absent == -1    \* of a peer that has no row
NoClient == -1  \* of a node that is down

Precedes(p, q) ==
    \E i \in 1 .. Len(q) :
        /\ i <= Len(p) + 1
        /\ SubSeq(p, 1, i - 1) = SubSeq(q, 1, i - 1)
        /\ i <= Len(p) => p[i] < q[i]

Writes(doc, peer) == {w \in doc : w.peer = peer}

Current(doc, peer) ==
    CHOOSE w \in Writes(doc, peer) :
        \A x \in Writes(doc, peer) : x = w \/ Precedes(x.path, w.path)

Row(doc, peer) ==
    IF Writes(doc, peer) = {} THEN Absent ELSE Current(doc, peer).metric

Peers(doc) == {w.peer : w \in doc}

\* Mutation of NewBest: the last result of a peer replaces the one before.
NewBest_Last(old, new) == TRUE

\* isNewBest of submit: an old row without the field counts as Infinity on
\* a board where less is better, and as 0 on the others.
NewBest(old, new) ==
    \/ old = Absent
    \/ direction = "asc" /\ (old = Blank \/ new < old)
    \/ direction = "desc" /\ new > old

\* Mutation of Written: a write does not follow the current one.
Written_First(doc, c, peer, metric) ==
    doc \cup {[peer |-> peer, path |-> <<c>>, metric |-> metric]}

Written(doc, c, peer, metric) ==
    LET before == IF Writes(doc, peer) = {} THEN <<>> ELSE Current(doc, peer).path
    IN  doc \cup {[peer |-> peer, path |-> Append(before, c), metric |-> metric]}

submit(n, peer, metric) ==
    /\ docs' = [docs EXCEPT ![n] =
                  IF NewBest(Row(@, peer), metric)
                  THEN Written(@, client[n], peer, metric) ELSE @]
    /\ UNCHANGED <<direction, client, drawn>>

\* Mutation of getFullState: the update relative to the node's own state.
getFullState_Diff(n) == docs[n] \ docs[n]

getFullState(n) == docs[n]

applyUpdate(n, update) ==
    /\ docs' = [docs EXCEPT ![n] = @ \cup update]
    /\ UNCHANGED <<direction, client, drawn>>

\* The order of getTop, in which a row without the field comes last on a
\* board where less is better, and counts as 0 on the others.
Above(x, y) ==
    IF direction = "asc" THEN y = Blank \/ (x # Blank /\ x <= y) ELSE x >= y

getGlobalBest(n) ==
    LET rows == {Row(docs[n], p) : p \in Peers(docs[n])}
    IN  IF rows = {} THEN Absent
        ELSE CHOOSE x \in rows : \A y \in rows : Above(x, y)

\* new LeaderboardManager(): new Y.Doc() draws a random client id.
NewBoard(n) ==
    /\ \E c \in Clients[n] \ drawn :
          client' = [client EXCEPT ![n] = c] /\ drawn' = drawn \cup {c}
    /\ docs' = [docs EXCEPT ![n] = {}]
    /\ UNCHANGED direction

LoseBoard(n) ==
    /\ docs' = [docs EXCEPT ![n] = {}]
    /\ client' = [client EXCEPT ![n] = NoClient]
    /\ UNCHANGED <<direction, drawn>>

BoardInit ==
    /\ docs = [n \in Nodes |-> {}]
    /\ client = [n \in Nodes |-> NoClient]
    /\ drawn = {}

=============================================================================
