---------------------------- MODULE Experiments ----------------------------
(***************************************************************************)
(* What the research modules share: the nodes, and the results of their    *)
(* experiments, each abstracted to its metric, a positive number.          *)
(***************************************************************************)
EXTENDS Integers, FiniteSets

CONSTANTS
    Nodes,      \* the nodes, which are also the peers on the boards
    Metrics     \* metrics an experiment may have

ASSUME ExperimentsAssumption == IsFiniteSet(Nodes) /\ Metrics \subseteq Nat \ {0}

=============================================================================
