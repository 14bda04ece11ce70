----------------------------- MODULE NodeScoresMC -----------------------------
(***************************************************************************)
(* Instances of NodeScores for TLC.                                        *)
(***************************************************************************)
EXTENDS NodeScores

\* constants.rs.
Weights ==
    [c \in CapabilityNames |->
        CASE c = "inference"     -> 1000
          [] c = "research"      -> 1200
          [] c = "proxy"         -> 800
          [] c = "storage"       -> 600
          [] c = "embedding"     -> 500
          [] c = "memory"        -> 500
          [] c = "orchestration" -> 500
          [] c = "validation"    -> 400
          [] c = "relay"         -> 300]

\* Below and above MAX_CONSECUTIVE_MISSES, and above what a u8 holds.
FewOrManyMisses == {4, 30, 300}

=============================================================================
