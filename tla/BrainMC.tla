------------------------------ MODULE BrainMC ------------------------------
(***************************************************************************)
(* A checked instance of Brain: researchers a and b, and a node c that only*)
(* syncs.  The workloads split the work, so that each hard case is met:    *)
(* overlapping runs of one node with stops in between; results of two      *)
(* researchers spread by gossip and by c; a restart of c.                  *)
(***************************************************************************)
EXTENDS Brain

MCNodes == {"a", "b", "c"}
MCResearchers == {"a", "b"}
MCProjects == {"astrophysics", "search-engine", "academic-papers"}
MCMetrics == {1, 2}

ByNode(a, b, c) == [n \in MCNodes |-> CASE n = "a" -> a [] n = "b" -> b [] n = "c" -> c]

MCClients == ByNode({1, 4}, {2}, {3, 5})

MCWorkloads ==
    {[runs |-> ByNode(3, 0, 0), starts |-> ByNode(2, 0, 0)],
     [runs |-> ByNode(2, 0, 0), starts |-> ByNode(2, 0, 1)],
     [runs |-> ByNode(1, 1, 0), starts |-> ByNode(1, 1, 1)],
     [runs |-> ByNode(1, 0, 0), starts |-> ByNode(1, 1, 2)]}

=============================================================================
