---------------------------- MODULE BrainProofs ----------------------------
(***************************************************************************)
(* Theorems about the research pipelines of all nodes, for any number of   *)
(* runs, overlaps, stops and starts, and about the boards they feed.       *)
(***************************************************************************)
EXTENDS Brain, FiniteSetTheorems, SequenceTheorems, WellFoundedInduction, TLAPS

-----------------------------------------------------------------------------
(***************************************************************************)
(* Types.  A run file has a positive number because the counter is raised  *)
(* before the training, and nothing is in training in a node that is down; *)
(* the files are finitely many, so that the counter a node resumes with is *)
(* a number.                                                               *)
(***************************************************************************)
CountInv ==
    \A n \in Nodes :
        /\ IsFiniteSet(runFiles[n])
        /\ training[n] > 0 => up[n] /\ runNumber[n] > 0

TypeInv == PipelineTypeOK /\ CountInv

LEMMA PipelineInitType == PipelineInit => TypeInv
<1> SUFFICES ASSUME PipelineInit PROVE TypeInv
  OBVIOUS
<1>1. IsFiniteSet({})
  BY FS_EmptySet
<1>2. QED
  BY <1>1 DEF PipelineInit, TypeInv, PipelineTypeOK, CountInv, NoResult

LEMMA StopType ==
    ASSUME TypeInv, NEW n \in Nodes, Stop(n)
    PROVE  /\ project' \in Projects
           /\ up' \in [Nodes -> BOOLEAN]
           /\ runNumber' \in [Nodes -> Nat]
           /\ bestResult' \in [Nodes -> Metrics \cup {NoResult}]
           /\ training' \in [Nodes -> Nat]
           /\ overlapped' \in [Nodes -> BOOLEAN]
           /\ \A m \in Nodes : training'[m] > 0 => up'[m] /\ runNumber'[m] > 0
  BY DEF Stop, TypeInv, PipelineTypeOK, CountInv, NoResult

LEMMA NextType == TypeInv /\ [PipelineNext]_pipelineVars => TypeInv'
<1> SUFFICES ASSUME TypeInv, [PipelineNext]_pipelineVars PROVE TypeInv'
  OBVIOUS
<1> USE DEF TypeInv, PipelineTypeOK, CountInv
<1>1. ASSUME NEW n \in Nodes, runCycle(n) PROVE TypeInv'
  BY <1>1 DEF runCycle, saveVars
<1>2. ASSUME NEW n \in Nodes, NEW v \in Metrics, runExperiment(n, v) PROVE TypeInv'
  <2>1. \A m \in Nodes : IsFiniteSet(runFiles'[m])
    BY <1>2, FS_AddElement DEF runExperiment
  <2>2. runNumber[n] \in Nat \ {0}
    BY <1>2 DEF runExperiment
  <2>3. runFiles' \in [Nodes -> SUBSET (Nat \ {0})]
    BY <1>2, <2>2 DEF runExperiment
  <2>4. /\ bestResult' \in [Nodes -> Metrics \cup {NoResult}]
        /\ bestFile' \in [Nodes -> Metrics \cup {NoResult, Torn}]
        /\ saves' \in [Nodes -> Nat]
        /\ saved' \in [Nodes -> SUBSET Metrics]
        /\ lost' \in [Nodes -> SUBSET Metrics]
    BY <1>2 DEF runExperiment
  <2>5. /\ training' \in [Nodes -> Nat]
        /\ \A m \in Nodes : training'[m] > 0 => up'[m] /\ runNumber'[m] > 0
    BY <1>2 DEF runExperiment
  <2>6. UNCHANGED <<project, up, runNumber, overlapped>>
    BY <1>2 DEF runExperiment
  <2>7. QED
    BY <2>1, <2>3, <2>4, <2>5, <2>6
<1>3. ASSUME NEW n \in Nodes, Crash(n) PROVE TypeInv'
  BY <1>3, StopType DEF Crash, saveVars
<1>4. ASSUME NEW n \in Nodes, NEW v \in Metrics, CrashInSave(n, v) PROVE TypeInv'
  <2>1. \A m \in Nodes : IsFiniteSet(runFiles'[m])
    BY <1>4, FS_AddElement DEF CrashInSave
  <2>2. runNumber[n] \in Nat \ {0}
    BY <1>4 DEF CrashInSave
  <2>3. runFiles' \in [Nodes -> SUBSET (Nat \ {0})]
    BY <1>4, <2>2 DEF CrashInSave
  <2>4. /\ bestFile' \in [Nodes -> Metrics \cup {NoResult, Torn}]
        /\ saves' \in [Nodes -> Nat]
        /\ saved' \in [Nodes -> SUBSET Metrics]
        /\ lost' \in [Nodes -> SUBSET Metrics]
    <3>1. saves' \in [Nodes -> Nat]
      BY <1>4 DEF CrashInSave
    <3>2. CASE CrashInRunFile
      BY <3>1, <3>2 DEF CrashInRunFile
    <3>3. CASE CrashBetween(n, v)
      BY <3>1, <3>3 DEF CrashBetween
    <3>4. CASE CrashInBest(n, v)
      BY <3>1, <3>4 DEF CrashInBest
    <3>5. QED
      BY <1>4, <3>2, <3>3, <3>4 DEF CrashInSave
  <2>5. Stop(n)
    BY <1>4 DEF CrashInSave
  <2>6. QED
    BY <2>1, <2>3, <2>4, <2>5, StopType
<1>5. ASSUME NEW n \in Nodes, loadPersistedState(n) PROVE TypeInv'
  <2>1. Cardinality(runFiles[n]) \in Nat
    BY FS_CardinalityType
  <2>2. /\ bestResult' \in [Nodes -> Metrics \cup {NoResult}]
        /\ up' \in [Nodes -> BOOLEAN]
    BY <1>5 DEF loadPersistedState
  <2>3. /\ runNumber' \in [Nodes -> Nat]
        /\ \A m \in Nodes : training[m] > 0 => up'[m] /\ runNumber'[m] > 0
    BY <1>5, <2>1 DEF loadPersistedState
  <2>4. UNCHANGED <<project, training, runFiles, bestFile, saves, saved, lost, overlapped>>
    BY <1>5 DEF loadPersistedState, saveVars
  <2>5. QED
    BY <2>2, <2>3, <2>4
<1>6. CASE UNCHANGED pipelineVars
  BY <1>6 DEF pipelineVars, saveVars
<1>7. QED
  BY <1>1, <1>2, <1>3, <1>4, <1>5, <1>6 DEF PipelineNext, simulateExperiment

\* PipelineTypeOK for any nodes, projects and metrics.
THEOREM PipelineTypes == PipelineSpec => []PipelineTypeOK
<1>1. PipelineInit => TypeInv
  BY PipelineInitType
<1>2. TypeInv /\ [PipelineNext]_pipelineVars => TypeInv'
  BY NextType
<1>3. TypeInv => PipelineTypeOK
  BY DEF TypeInv
<1>4. QED
  BY <1>1, <1>2, <1>3, PTL DEF PipelineSpec

-----------------------------------------------------------------------------
(***************************************************************************)
(* Run files.  As long as no two runs were in training at once, the files  *)
(* are those of the runs 1 to saves, and the counter is the number of the  *)
(* last one, or of the one in training.                                    *)
(***************************************************************************)
FilesInv ==
    \A n \in Nodes : ~overlapped[n] =>
        /\ training[n] <= 1
        /\ runFiles[n] = 1 .. saves[n]
        /\ up[n] => runNumber[n] = saves[n] + training[n]

LEMMA NextFiles == TypeInv /\ FilesInv /\ [PipelineNext]_pipelineVars => FilesInv'
<1> SUFFICES ASSUME TypeInv, FilesInv, [PipelineNext]_pipelineVars,
                    NEW m \in Nodes, ~overlapped'[m]
             PROVE  /\ training'[m] <= 1
                    /\ runFiles'[m] = 1 .. saves'[m]
                    /\ up'[m] => runNumber'[m] = saves'[m] + training'[m]
  BY DEF FilesInv
<1> USE DEF TypeInv, PipelineTypeOK, CountInv, FilesInv
<1>1. ASSUME NEW n \in Nodes, runCycle(n)
      PROVE  /\ training'[m] <= 1
             /\ runFiles'[m] = 1 .. saves'[m]
             /\ up'[m] => runNumber'[m] = saves'[m] + training'[m]
  BY <1>1 DEF runCycle, saveVars
<1>2. ASSUME NEW n \in Nodes, NEW v \in Metrics, runExperiment(n, v)
      PROVE  /\ training'[m] <= 1
             /\ runFiles'[m] = 1 .. saves'[m]
             /\ up'[m] => runNumber'[m] = saves'[m] + training'[m]
  <2>1. CASE m = n
    <3>1. ~overlapped[n] /\ training[n] = 1 /\ runNumber[n] = saves[n] + 1
      BY <1>2, <2>1 DEF runExperiment
    <3>2. runFiles'[n] = 1 .. saves[n] \cup {saves[n] + 1} /\ saves'[n] = saves[n] + 1
      BY <1>2, <3>1 DEF runExperiment
    <3>3. 1 .. saves[n] \cup {saves[n] + 1} = 1 .. (saves[n] + 1)
      OBVIOUS
    <3>4. training'[n] = 0 /\ runNumber'[n] = runNumber[n]
      BY <1>2, <3>1 DEF runExperiment
    <3>5. QED
      BY <2>1, <3>1, <3>2, <3>3, <3>4
  <2>2. CASE m # n
    BY <1>2, <2>2 DEF runExperiment
  <2>3. QED
    BY <2>1, <2>2
<1>3. ASSUME NEW n \in Nodes, Crash(n)
      PROVE  /\ training'[m] <= 1
             /\ runFiles'[m] = 1 .. saves'[m]
             /\ up'[m] => runNumber'[m] = saves'[m] + training'[m]
  BY <1>3 DEF Crash, Stop, saveVars
<1>4. ASSUME NEW n \in Nodes, NEW v \in Metrics, CrashInSave(n, v)
      PROVE  /\ training'[m] <= 1
             /\ runFiles'[m] = 1 .. saves'[m]
             /\ up'[m] => runNumber'[m] = saves'[m] + training'[m]
  <2>1. CASE m = n
    <3>1. ~overlapped[n] /\ training[n] = 1 /\ runNumber[n] = saves[n] + 1
      BY <1>4, <2>1 DEF CrashInSave, Stop
    <3>2. runFiles'[n] = 1 .. saves[n] \cup {saves[n] + 1} /\ saves'[n] = saves[n] + 1
      BY <1>4, <3>1 DEF CrashInSave
    <3>3. 1 .. saves[n] \cup {saves[n] + 1} = 1 .. (saves[n] + 1)
      OBVIOUS
    <3>4. training'[n] = 0 /\ ~up'[n]
      BY <1>4 DEF CrashInSave, Stop
    <3>5. QED
      BY <2>1, <3>2, <3>3, <3>4
  <2>2. CASE m # n
    BY <1>4, <2>2 DEF CrashInSave, Stop
  <2>3. QED
    BY <2>1, <2>2
<1>5. ASSUME NEW n \in Nodes, loadPersistedState(n)
      PROVE  /\ training'[m] <= 1
             /\ runFiles'[m] = 1 .. saves'[m]
             /\ up'[m] => runNumber'[m] = saves'[m] + training'[m]
  <2>1. CASE m = n
    <3>1. runFiles[n] = 1 .. saves[n] /\ training[n] = 0
      BY <1>5, <2>1 DEF loadPersistedState, saveVars
    <3>2. Cardinality(1 .. saves[n]) = saves[n]
      BY FS_Interval
    <3>3. runNumber'[n] = saves[n]
      BY <1>5, <3>1, <3>2 DEF loadPersistedState, saveVars
    <3>4. QED
      BY <1>5, <2>1, <3>1, <3>3 DEF loadPersistedState, saveVars
  <2>2. CASE m # n
    BY <1>5, <2>2 DEF loadPersistedState, saveVars
  <2>3. QED
    BY <2>1, <2>2
<1>6. CASE UNCHANGED pipelineVars
  BY <1>6 DEF pipelineVars, saveVars
<1>7. QED
  BY <1>1, <1>2, <1>3, <1>4, <1>5, <1>6 DEF PipelineNext, simulateExperiment

\* RunsKeepTheirFiles, however often the node stops in a write and resumes.
THEOREM RunsTheorem == PipelineSpec => []RunsKeepTheirFiles
<1>1. PipelineInit => TypeInv /\ FilesInv
  <2>1. 1 .. 0 = {}
    OBVIOUS
  <2>2. QED
    BY <2>1, PipelineInitType DEF PipelineInit, FilesInv
<1>2. TypeInv /\ FilesInv /\ [PipelineNext]_pipelineVars => TypeInv' /\ FilesInv'
  BY NextType, NextFiles
<1>3. TypeInv /\ FilesInv => RunsKeepTheirFiles
  <2> SUFFICES ASSUME TypeInv, FilesInv, NEW n \in Nodes, ~overlapped[n]
               PROVE  Cardinality(runFiles[n]) = saves[n]
    BY DEF RunsKeepTheirFiles
  <2>1. runFiles[n] = 1 .. saves[n] /\ saves[n] \in Nat
    BY DEF TypeInv, PipelineTypeOK, FilesInv
  <2>2. QED
    BY <2>1, FS_Interval
<1>4. QED
  BY <1>1, <1>2, <1>3, PTL DEF PipelineSpec

-----------------------------------------------------------------------------
(***************************************************************************)
(* Best results.  BestSurvives is inductive with the types: a run adds its *)
(* result to both sides, and the best of a set and one more result is the  *)
(* better of the two.                                                      *)
(***************************************************************************)
LEMMA MetricsPositive == \A v \in Metrics : v \in Nat /\ v > 0
  BY ExperimentsAssumption DEF ExperimentsAssumption

LEMMA BestOfMore ==
    ASSUME NEW results \in SUBSET Metrics, NEW b, IsBest(b, results), NEW v \in Metrics
    PROVE  IsBest(IF Better(v, b) THEN v ELSE b, results \cup {v})
<1> USE MetricsPositive DEF Better, NoResult
<1>1. CASE results = {}
  BY <1>1 DEF IsBest
<1>2. CASE results # {}
  <2>1. b \in results /\ \A x \in results : ~ Better(x, b)
    BY <1>2 DEF IsBest
  <2>2. CASE Better(v, b)
    <3>1. \A x \in results \cup {v} : ~ Better(x, v)
      BY <2>1, <2>2
    <3>2. QED
      BY <2>2, <3>1 DEF IsBest
  <2>3. CASE ~ Better(v, b)
    <3>1. \A x \in results \cup {v} : ~ Better(x, b)
      BY <2>1, <2>3
    <3>2. QED
      BY <2>1, <2>3, <3>1 DEF IsBest
  <2>4. QED
    BY <2>2, <2>3
<1>3. QED
  BY <1>1, <1>2

LEMMA NextBest == TypeInv /\ BestSurvives /\ [PipelineNext]_pipelineVars => BestSurvives'
<1> SUFFICES ASSUME TypeInv, BestSurvives, [PipelineNext]_pipelineVars PROVE BestSurvives'
  OBVIOUS
<1> DEFINE Found(m) == saved[m] \ lost[m]
<1> DEFINE After(m) == saved'[m] \ lost'[m]
<1> DEFINE Kept(m) ==
      /\ \/ IsBest(bestFile'[m], After(m))
         \/ bestFile'[m] = Torn /\ After(m) = {}
      /\ up'[m] => IsBest(bestResult'[m], After(m))
<1>1. project' = project
  BY DEF PipelineNext, pipelineVars, runCycle, runExperiment, Crash, CrashInSave, Stop,
         loadPersistedState, simulateExperiment
<1>2. SUFFICES ASSUME NEW m \in Nodes PROVE Kept(m)
  BY <1>1 DEF BestSurvives, IsBest, Better, getMetricDirection
<1>3. /\ \/ IsBest(bestFile[m], Found(m))
         \/ bestFile[m] = Torn /\ Found(m) = {}
      /\ up[m] => IsBest(bestResult[m], Found(m))
  BY DEF BestSurvives
<1>4. Found(m) \in SUBSET Metrics
  BY DEF TypeInv, PipelineTypeOK
<1> USE DEF TypeInv, PipelineTypeOK
<1>5. ASSUME NEW n \in Nodes, runCycle(n) PROVE Kept(m)
  BY <1>3, <1>5 DEF runCycle, saveVars
<1>6. ASSUME NEW n \in Nodes, NEW v \in Metrics, runExperiment(n, v) PROVE Kept(m)
  <2>1. CASE m = n
    <3>1. IsBest(bestResult[m], Found(m))
      BY <1>3, <1>6, <2>1 DEF runExperiment
    <3>2. IsBest(bestResult'[m], After(m))
      <4>1. IsBest(IF Better(v, bestResult[m]) THEN v ELSE bestResult[m], Found(m) \cup {v})
        BY <1>4, <3>1, BestOfMore
      <4>2. After(m) = Found(m) \cup {v}
        BY <1>6, <2>1 DEF runExperiment
      <4>3. bestResult'[m] = IF Better(v, bestResult[m]) THEN v ELSE bestResult[m]
        BY <1>6, <2>1 DEF runExperiment
      <4>4. QED
        BY <4>1, <4>2, <4>3
    <3>3. bestFile'[m] = bestResult'[m]
      <4>1. CASE Better(v, bestResult[m])
        BY <1>6, <2>1, <4>1 DEF runExperiment
      <4>2. CASE ~ Better(v, bestResult[m])
        <5>1. bestResult[m] # NoResult
          BY <4>2 DEF Better
        <5>2. Found(m) # {}
          BY <3>1, <5>1 DEF IsBest
        <5>3. bestFile[m] = bestResult[m]
          BY <1>3, <1>4, <3>1, <5>2, MetricsPositive DEF IsBest, Better, NoResult
        <5>4. QED
          BY <1>6, <2>1, <4>2, <5>3 DEF runExperiment
      <4>3. QED
        BY <4>1, <4>2
    <3>4. QED
      BY <3>2, <3>3
  <2>2. CASE m # n
    BY <1>3, <1>6, <2>2 DEF runExperiment
  <2>3. QED
    BY <2>1, <2>2
<1>7. ASSUME NEW n \in Nodes, Crash(n) PROVE Kept(m)
  BY <1>3, <1>7 DEF Crash, Stop, saveVars
<1>8. ASSUME NEW n \in Nodes, NEW v \in Metrics, CrashInSave(n, v) PROVE Kept(m)
  <2>1. up[n] /\ up' = [up EXCEPT ![n] = FALSE] /\ bestResult' = [bestResult EXCEPT ![n] = NoResult]
    BY <1>8 DEF CrashInSave, Stop
  <2>2. CASE CrashInRunFile
    BY <1>3, <2>1, <2>2 DEF CrashInRunFile
  <2>3. CASE CrashBetween(n, v)
    <3>1. CASE m = n /\ Better(v, bestResult[n])
      <4>1. v \notin Found(m)
        BY <1>3, <2>1, <3>1 DEF IsBest
      <4>2. After(m) = Found(m) /\ bestFile' = bestFile
        BY <2>3, <3>1, <4>1 DEF CrashBetween
      <4>3. QED
        BY <1>3, <2>1, <3>1, <4>2
    <3>2. CASE m = n /\ ~ Better(v, bestResult[n])
      <4>1. IsBest(bestResult[m], Found(m)) /\ bestResult[m] # NoResult
        BY <1>3, <2>1, <3>2 DEF Better
      <4>2. Found(m) # {}
        BY <4>1 DEF IsBest
      <4>3. bestFile[m] = bestResult[m]
        BY <1>3, <1>4, <4>1, <4>2, MetricsPositive DEF IsBest, Better, NoResult
      <4>4. IsBest(bestFile[m], Found(m) \cup {v})
        <5>1. IsBest(IF Better(v, bestFile[m]) THEN v ELSE bestFile[m], Found(m) \cup {v})
          BY <1>4, <4>1, <4>3, BestOfMore
        <5>2. QED
          BY <3>2, <4>3, <5>1
      <4>5. After(m) = Found(m) \cup {v} /\ bestFile' = bestFile
        BY <2>3, <3>2 DEF CrashBetween
      <4>6. QED
        BY <2>1, <3>2, <4>4, <4>5
    <3>3. CASE m # n
      BY <1>3, <2>1, <2>3, <3>3 DEF CrashBetween
    <3>4. QED
      BY <3>1, <3>2, <3>3
  <2>4. CASE CrashInBest(n, v)
    <3>1. CASE m = n
      <4>1. After(m) = {} /\ bestFile'[m] = Torn
        BY <2>4, <3>1 DEF CrashInBest
      <4>2. QED
        BY <2>1, <3>1, <4>1
    <3>2. CASE m # n
      BY <1>3, <2>1, <2>4, <3>2 DEF CrashInBest
    <3>3. QED
      BY <3>1, <3>2
  <2>5. QED
    BY <1>8, <2>2, <2>3, <2>4 DEF CrashInSave
<1>9. ASSUME NEW n \in Nodes, loadPersistedState(n) PROVE Kept(m)
  <2>0. UNCHANGED <<bestFile, saved, lost>>
    BY <1>9 DEF loadPersistedState, saveVars
  <2>1. CASE m = n
    <3>2. CASE bestFile[m] = Torn
      <4>1. Found(m) = {}
        BY <1>3, <1>4, <3>2, MetricsPositive DEF IsBest, NoResult, Torn
      <4>2. bestResult'[m] = NoResult
        BY <1>9, <2>1, <3>2 DEF loadPersistedState
      <4>3. QED
        BY <2>0, <3>2, <4>1, <4>2 DEF IsBest
    <3>3. CASE bestFile[m] # Torn
      <4>1. bestResult'[m] = bestFile[m]
        BY <1>9, <2>1, <3>3 DEF loadPersistedState
      <4>2. QED
        BY <1>3, <2>0, <3>3, <4>1
    <3>4. QED
      BY <3>2, <3>3
  <2>2. CASE m # n
    BY <1>3, <1>9, <2>0, <2>2 DEF loadPersistedState
  <2>3. QED
    BY <2>1, <2>2
<1>10. CASE UNCHANGED pipelineVars
  BY <1>3, <1>10 DEF pipelineVars, saveVars
<1>11. QED
  BY <1>5, <1>6, <1>7, <1>8, <1>9, <1>10 DEF PipelineNext, simulateExperiment

\* BestSurvives, for any metrics and however many runs overlap or are cut short.
THEOREM BestTheorem == PipelineSpec => []BestSurvives
<1>1. PipelineInit => TypeInv /\ BestSurvives
  BY PipelineInitType DEF PipelineInit, BestSurvives, IsBest
<1>2. TypeInv /\ BestSurvives /\ [PipelineNext]_pipelineVars => TypeInv' /\ BestSurvives'
  BY NextType, NextBest
<1>3. QED
  BY <1>1, <1>2, PTL DEF PipelineSpec

-----------------------------------------------------------------------------
(***************************************************************************)
(* The brain runs the pipeline: each of its steps is one of the pipeline   *)
(* or leaves it alone, so that what holds of the pipelines by themselves   *)
(* holds of them in the nodes.                                             *)
(***************************************************************************)
LEMMA BrainStep == [Next]_vars => [PipelineNext]_pipelineVars
<1> SUFFICES ASSUME [Next]_vars PROVE [PipelineNext]_pipelineVars
  OBVIOUS
<1>1. ASSUME NEW n \in Nodes, tick(n) \/ stop(n) \/ start(n)
      PROVE  PipelineNext
  BY <1>1 DEF PipelineNext, tick, stop, start
<1>2. ASSUME NEW n \in Nodes, NEW v \in simulateExperiment,
             tickEnds(n, v) \/ broadcastResult(n, v) \/ stopInSave(n, v)
      PROVE  [PipelineNext]_pipelineVars
  BY <1>2 DEF PipelineNext, tickEnds, broadcastResult, stopInSave
<1>3. ASSUME NEW n \in Nodes, NEW msg \in gossip, handleGossip(n, msg)
      PROVE  UNCHANGED pipelineVars
  BY <1>3 DEF handleGossip
<1>4. ASSUME NEW c \in Syncers, syncLeaderboards(c) \/ loseUpdate(c)
      PROVE  UNCHANGED pipelineVars
  BY <1>4 DEF syncLeaderboards, loseUpdate
<1>5. ASSUME NEW n \in Nodes, NEW c \in Syncers, receiveUpdate(n, c)
      PROVE  UNCHANGED pipelineVars
  BY <1>5 DEF receiveUpdate
<1>6. CASE UNCHANGED vars
  BY <1>6 DEF vars
<1>7. QED
  BY <1>1, <1>2, <1>3, <1>4, <1>5, <1>6 DEF Next

\* The nodes, with boards, gossip and stops, implement the research pipelines.
THEOREM BrainRunsPipeline == Spec => PipelineSpec
<1>1. Init => PipelineInit
  BY DEF Init
<1>2. [Next]_vars => [PipelineNext]_pipelineVars
  BY BrainStep
<1>3. QED
  BY <1>1, <1>2, PTL DEF Spec, PipelineSpec

\* Hence BestSurvives and RunsKeepTheirFiles hold of every node.
THEOREM ResearchSurvives == Spec => [](BestSurvives /\ RunsKeepTheirFiles)
BY BrainRunsPipeline, BestTheorem, RunsTheorem, PTL

-----------------------------------------------------------------------------
(***************************************************************************)
(* Rows.  Whatever a board shows came from the gossip or from a document,  *)
(* and both hold values of saved results only; saved only grows.           *)
(***************************************************************************)
Sound(rows) ==
    \A w \in rows : w.peer \in Nodes /\ (w.metric # Blank => w.metric \in saved[w.peer])

RowsInv ==
    /\ DOMAIN docs = Nodes /\ DOMAIN wire = Syncers
    /\ DOMAIN saved = Nodes /\ DOMAIN unsent = Nodes
    /\ \A n \in Nodes : unsent[n] \subseteq saved[n]
    /\ \A msg \in gossip : msg.peer \in Nodes /\ msg.metric \in saved[msg.peer]
    /\ \A n \in Nodes : Sound(docs[n])
    /\ \A c \in Syncers : Sound(wire[c])

LEMMA SubmittedRows ==
    ASSUME DOMAIN docs = Nodes, NEW n \in Nodes, NEW p, NEW v, submit(n, p, v)
    PROVE  /\ DOMAIN docs' = Nodes
           /\ \A m \in Nodes : \A w \in docs'[m] :
                 w \in docs[m] \/ (w.peer = p /\ w.metric = v)
  BY DEF submit, Written

LEMMA SavedGrows ==
    DOMAIN saved = Nodes /\ [Next]_vars =>
        DOMAIN saved' = Nodes /\ \A n \in Nodes : saved[n] \subseteq saved'[n]
<1> SUFFICES ASSUME DOMAIN saved = Nodes, [PipelineNext]_pipelineVars
             PROVE  DOMAIN saved' = Nodes /\ \A n \in Nodes : saved[n] \subseteq saved'[n]
  BY BrainStep
<1>1. ASSUME NEW n \in Nodes, runCycle(n) \/ Crash(n) \/ loadPersistedState(n)
      PROVE  saved' = saved
  BY <1>1 DEF runCycle, Crash, loadPersistedState, saveVars
<1>2. ASSUME NEW n \in Nodes, NEW v \in simulateExperiment, runExperiment(n, v)
      PROVE  saved' = [saved EXCEPT ![n] = @ \cup {v}]
  BY <1>2 DEF runExperiment
<1>3. ASSUME NEW n \in Nodes, NEW v \in simulateExperiment, CrashInSave(n, v)
      PROVE  saved' = saved \/ saved' = [saved EXCEPT ![n] = @ \cup {v}]
  BY <1>3 DEF CrashInSave, CrashInRunFile, CrashBetween, CrashInBest
<1>4. CASE UNCHANGED pipelineVars
  BY <1>4 DEF pipelineVars, saveVars
<1>5. QED
  BY <1>1, <1>2, <1>3, <1>4 DEF PipelineNext

LEMMA NextRows == RowsInv /\ [Next]_vars => RowsInv'
<1> SUFFICES ASSUME RowsInv, [Next]_vars PROVE RowsInv'
  OBVIOUS
<1>0. DOMAIN saved' = Nodes /\ \A n \in Nodes : saved[n] \subseteq saved'[n]
  BY SavedGrows DEF RowsInv
<1> USE DEF RowsInv, Sound
<1>1. ASSUME NEW n \in Nodes, tick(n) PROVE RowsInv'
  BY <1>0, <1>1 DEF tick, boardVars
<1>2. ASSUME NEW n \in Nodes, stop(n) PROVE RowsInv'
  BY <1>0, <1>2 DEF stop, Forget, LoseBoard
<1>3. ASSUME NEW n \in Nodes, start(n) PROVE RowsInv'
  BY <1>0, <1>3 DEF start, NewBoard
<1>4. ASSUME NEW n \in Nodes, NEW v \in simulateExperiment, tickEnds(n, v) PROVE RowsInv'
  <2>1. /\ DOMAIN docs' = Nodes
        /\ \A m \in Nodes : \A w \in docs'[m] :
              w \in docs[m] \/ (w.peer = n /\ w.metric = Blank)
    BY <1>4, SubmittedRows DEF tickEnds
  <2>2. DOMAIN unsent' = Nodes /\ \A m \in Nodes : unsent'[m] \subseteq saved'[m]
    <3>1. saved' = [saved EXCEPT ![n] = @ \cup {v}]
      BY <1>4 DEF tickEnds, runExperiment
    <3>2. QED
      BY <1>4, <3>1 DEF tickEnds
  <2>3. UNCHANGED <<gossip, wire>>
    BY <1>4 DEF tickEnds
  <2>4. QED
    BY <1>0, <2>1, <2>2, <2>3
<1>5. ASSUME NEW n \in Nodes, NEW v \in simulateExperiment, broadcastResult(n, v)
      PROVE  RowsInv'
  BY <1>0, <1>5 DEF broadcastResult, boardVars
<1>6. ASSUME NEW n \in Nodes, NEW v \in simulateExperiment, stopInSave(n, v) PROVE RowsInv'
  <2>2. DOMAIN docs' = Nodes /\ \A m \in Nodes : docs'[m] \subseteq docs[m]
    BY <1>6 DEF stopInSave, Forget, LoseBoard
  <2>3. DOMAIN unsent' = Nodes /\ \A m \in Nodes : unsent'[m] \subseteq unsent[m]
    BY <1>6 DEF stopInSave, Forget
  <2>4. UNCHANGED <<gossip, wire>>
    BY <1>6 DEF stopInSave, Forget
  <2>5. QED
    BY <1>0, <2>2, <2>3, <2>4
<1>7. ASSUME NEW n \in Nodes, NEW msg \in gossip, handleGossip(n, msg) PROVE RowsInv'
  <2>1. /\ DOMAIN docs' = Nodes
        /\ \A m \in Nodes : \A w \in docs'[m] :
              w \in docs[m] \/ (w.peer = msg.peer /\ w.metric = Field(msg.metric))
    BY <1>7, SubmittedRows DEF handleGossip
  <2>2. Field(msg.metric) # Blank => Field(msg.metric) = msg.metric
    BY DEF Field
  <2>3. UNCHANGED <<unsent, gossip, wire>>
    BY <1>7 DEF handleGossip
  <2>4. QED
    BY <1>0, <2>1, <2>2, <2>3
<1>8. ASSUME NEW c \in Syncers, syncLeaderboards(c) PROVE RowsInv'
  BY <1>0, <1>8 DEF syncLeaderboards, boardVars, getFullState, Syncers
<1>9. ASSUME NEW c \in Syncers, loseUpdate(c) PROVE RowsInv'
  BY <1>0, <1>9 DEF loseUpdate, boardVars
<1>10. ASSUME NEW n \in Nodes, NEW c \in Syncers, receiveUpdate(n, c) PROVE RowsInv'
  BY <1>0, <1>10 DEF receiveUpdate, applyUpdate
<1>11. CASE UNCHANGED vars
  BY <1>0, <1>11 DEF vars, boardVars, brainVars
<1>12. QED
  BY <1>1, <1>2, <1>3, <1>4, <1>5, <1>6, <1>7, <1>8, <1>9, <1>10, <1>11 DEF Next

\* RowsWereSaved, for any documents in transit and any stops and starts.
THEOREM RowsTheorem == Spec => []RowsWereSaved
<1>1. Init => RowsInv
  BY DEF Init, PipelineInit, BoardInit, RowsInv, Sound
<1>2. RowsInv /\ [Next]_vars => RowsInv'
  BY NextRows
<1>3. RowsInv => RowsWereSaved
  BY DEF RowsInv, Sound, RowsWereSaved
<1>4. QED
  BY <1>1, <1>2, <1>3, PTL DEF Spec

-----------------------------------------------------------------------------
(***************************************************************************)
(* Gossip.  Only researchers train, save and broadcast; a result shows its *)
(* value everywhere, or nowhere if it is of a paper; a node that is down   *)
(* has nothing on its board and has heard nothing.                         *)
(***************************************************************************)
Values == IF project = "academic-papers" THEN {Blank} ELSE Metrics

AnyClient == (UNION {Clients[n] : n \in Nodes}) \cup {NoClient}

LEMMA ClientsKnown == NoClient \in AnyClient /\ \A n \in Nodes : Clients[n] \subseteq AnyClient
<1>1. NoClient \in AnyClient
  BY DEF AnyClient
<1>2. ASSUME NEW n \in Nodes, NEW c \in Clients[n] PROVE c \in AnyClient
  <2>1. Clients[n] \in {Clients[m] : m \in Nodes}
    OBVIOUS
  <2>2. QED
    BY <2>1, Zenon DEF AnyClient
<1>3. QED
  BY <1>1, <1>2

GossipInv ==
    /\ direction = getMetricDirection
    /\ client \in [Nodes -> AnyClient]
    /\ saved \in [Nodes -> SUBSET Metrics]
    /\ unsent \in [Nodes -> SUBSET Metrics]
    /\ heard \in [Nodes -> [Nodes -> SUBSET Values]]
    /\ synced \in [Nodes -> BOOLEAN]
    /\ \A msg \in gossip : msg.peer \in Researchers /\ msg.metric \in Metrics
    /\ \A n \in Nodes :
          /\ training[n] > 0 \/ unsent[n] # {} => n \in Researchers
          /\ heard[n][n] = {}
          /\ IF up[n] THEN client[n] \in Clients[n]
             ELSE docs[n] = {} /\ client[n] = NoClient /\ heard[n] = Unheard

LEMMA ProjectFixed == [PipelineNext]_pipelineVars => project' = project
  BY DEF PipelineNext, pipelineVars, runCycle, runExperiment, Crash, CrashInSave, Stop,
         loadPersistedState, simulateExperiment

LEMMA ForgetGossip ==
    ASSUME TypeInv, RowsInv, GossipInv, NEW n \in Nodes, Stop(n), Forget(n), gossip' = gossip
    PROVE  /\ direction' = getMetricDirection
           /\ client' \in [Nodes -> AnyClient]
           /\ unsent' \in [Nodes -> SUBSET Metrics]
           /\ heard' \in [Nodes -> [Nodes -> SUBSET Values]]
           /\ synced' \in [Nodes -> BOOLEAN]
           /\ \A m \in Nodes :
                 /\ training'[m] > 0 \/ unsent'[m] # {} => m \in Researchers
                 /\ heard'[m][m] = {}
                 /\ IF up'[m] THEN client'[m] \in Clients[m]
                    ELSE docs'[m] = {} /\ client'[m] = NoClient /\ heard'[m] = Unheard
<1> USE DEF TypeInv, PipelineTypeOK, RowsInv, GossipInv
<1>1. /\ docs' = [docs EXCEPT ![n] = {}] /\ client' = [client EXCEPT ![n] = NoClient]
      /\ unsent' = [unsent EXCEPT ![n] = {}] /\ heard' = [heard EXCEPT ![n] = Unheard]
      /\ synced' = [synced EXCEPT ![n] = FALSE] /\ direction' = direction
  BY DEF Forget, LoseBoard
<1>2. /\ up' = [up EXCEPT ![n] = FALSE] /\ training' = [training EXCEPT ![n] = 0]
  BY DEF Stop
<1>3. Unheard \in [Nodes -> SUBSET Values] /\ Unheard[n] = {}
  BY DEF Unheard
<1>4. heard' \in [Nodes -> [Nodes -> SUBSET Values]]
  BY <1>1, <1>3
<1>5. ASSUME NEW m \in Nodes
      PROVE  /\ training'[m] > 0 \/ unsent'[m] # {} => m \in Researchers
             /\ heard'[m][m] = {}
             /\ IF up'[m] THEN client'[m] \in Clients[m]
                ELSE docs'[m] = {} /\ client'[m] = NoClient /\ heard'[m] = Unheard
  <2>1. CASE m = n
    BY <1>1, <1>2, <1>3, <2>1
  <2>2. CASE m # n
    BY <1>1, <1>2, <2>2
  <2>3. QED
    BY <2>1, <2>2
<1>6. /\ client' \in [Nodes -> AnyClient]
      /\ unsent' \in [Nodes -> SUBSET Metrics]
      /\ synced' \in [Nodes -> BOOLEAN]
  BY <1>1, ClientsKnown
<1>7. direction' = getMetricDirection
  BY <1>1
<1> HIDE DEF TypeInv, PipelineTypeOK, RowsInv, GossipInv
<1>8. QED
  BY <1>4, <1>5, <1>6, <1>7

LEMMA NextGossip == TypeInv /\ RowsInv /\ GossipInv /\ [Next]_vars => GossipInv'
<1> SUFFICES ASSUME TypeInv, RowsInv, GossipInv, [Next]_vars PROVE GossipInv'
  OBVIOUS
<1>1. project' = project
  BY BrainStep, ProjectFixed
<1>2. Values' = Values /\ getMetricDirection' = getMetricDirection
  BY <1>1 DEF Values, getMetricDirection
<1>0. saved' \in [Nodes -> SUBSET Metrics]
  BY BrainStep, NextType DEF TypeInv, PipelineTypeOK
<1> USE DEF TypeInv, PipelineTypeOK, RowsInv, GossipInv
<1>3. ASSUME NEW n \in Nodes, tick(n) PROVE GossipInv'
  <2>1. n \in Researchers
    BY <1>3 DEF tick, pickAction
  <2>2. UNCHANGED <<direction, docs, client, unsent, heard, synced, gossip, up>>
    BY <1>3 DEF tick, boardVars, runCycle
  <2>3. training' = [training EXCEPT ![n] = @ + 1]
    BY <1>3 DEF tick, runCycle
  <2>4. QED
    BY <1>0, <1>2, <2>1, <2>2, <2>3
<1>4. ASSUME NEW n \in Nodes, stop(n) PROVE GossipInv'
  <2>1. Stop(n) /\ Forget(n) /\ UNCHANGED gossip
    BY <1>4 DEF stop, Crash
  <2>2. QED
    BY <1>0, <1>2, <2>1, ForgetGossip
<1>5. ASSUME NEW n \in Nodes, start(n) PROVE GossipInv'
  <2>1. PICK c \in Clients[n] : client' = [client EXCEPT ![n] = c]
    BY <1>5 DEF start, NewBoard
  <2>2. /\ docs' = [docs EXCEPT ![n] = {}]
        /\ UNCHANGED <<direction, unsent, heard, synced, gossip, training>>
        /\ up' = [up EXCEPT ![n] = TRUE]
    BY <1>5 DEF start, NewBoard, loadPersistedState
  <2>3. QED
    BY <1>0, <1>2, <2>1, <2>2, ClientsKnown
<1>6. ASSUME NEW n \in Nodes, NEW v \in Metrics, tickEnds(n, v) PROVE GossipInv'
  <2>1. up[n] /\ training[n] > 0 /\ n \in Researchers
    BY <1>6 DEF tickEnds, runExperiment
  <2>2. /\ UNCHANGED <<direction, client, heard, synced, gossip, up>>
        /\ training' = [training EXCEPT ![n] = @ - 1]
        /\ unsent' = [unsent EXCEPT ![n] = @ \cup {v}]
    BY <1>6 DEF tickEnds, runExperiment, submit
  <2>3. \A m \in Nodes \ {n} : docs'[m] = docs[m]
    BY <1>6 DEF tickEnds, submit
  <2>4. QED
    BY <1>0, <1>2, <2>1, <2>2, <2>3
<1>7. ASSUME NEW n \in Nodes, NEW v \in Metrics, broadcastResult(n, v) PROVE GossipInv'
  <2>1. n \in Researchers
    BY <1>7 DEF broadcastResult
  <2>2. /\ UNCHANGED <<direction, docs, client, heard, synced, up, training>>
        /\ unsent' = [unsent EXCEPT ![n] = @ \ {v}]
        /\ gossip' = gossip \cup {[peer |-> n, metric |-> v]}
    BY <1>7 DEF broadcastResult, boardVars, pipelineVars
  <2>3. QED
    BY <1>0, <1>2, <2>1, <2>2
<1>8. ASSUME NEW n \in Nodes, NEW v \in Metrics, stopInSave(n, v) PROVE GossipInv'
  <2>1. Stop(n) /\ Forget(n) /\ UNCHANGED gossip
    BY <1>8 DEF stopInSave, CrashInSave
  <2>3. QED
    BY <1>0, <1>2, <2>1, ForgetGossip
<1>9. ASSUME NEW n \in Nodes, NEW msg \in gossip, handleGossip(n, msg) PROVE GossipInv'
  <2>1. up[n] /\ msg.peer # n /\ msg.peer \in Nodes
    BY <1>9 DEF handleGossip
  <2>2. Field(msg.metric) \in Values
    BY DEF Field, Values
  <2>3. /\ UNCHANGED <<direction, client, unsent, synced, gossip, up, training>>
        /\ heard' = [heard EXCEPT ![n][msg.peer] = @ \cup {Field(msg.metric)}]
    BY <1>9 DEF handleGossip, submit, pipelineVars
  <2>4. \A m \in Nodes \ {n} : docs'[m] = docs[m]
    BY <1>9 DEF handleGossip, submit
  <2>5. heard' \in [Nodes -> [Nodes -> SUBSET Values]]
    BY <2>1, <2>2, <2>3
  <2>6. \A m \in Nodes : heard'[m][m] = {} /\ (m # n => heard'[m] = heard[m])
    BY <2>1, <2>3
  <2>7. QED
    BY <1>0, <1>2, <2>1, <2>3, <2>4, <2>5, <2>6
<1>10. ASSUME NEW c \in Syncers, syncLeaderboards(c) \/ loseUpdate(c) PROVE GossipInv'
  <2>1. UNCHANGED <<direction, docs, client, unsent, heard, synced, gossip, up, training>>
    BY <1>10 DEF syncLeaderboards, loseUpdate, boardVars, pipelineVars
  <2>2. QED
    BY <1>0, <1>2, <2>1
<1>11. ASSUME NEW n \in Nodes, NEW c \in Syncers, receiveUpdate(n, c) PROVE GossipInv'
  <2>1. /\ up[n]
        /\ UNCHANGED <<direction, client, unsent, heard, gossip, up, training>>
        /\ synced' = [synced EXCEPT ![n] = TRUE]
        /\ docs' = [docs EXCEPT ![n] = @ \cup wire[c]]
    BY <1>11 DEF receiveUpdate, applyUpdate, pipelineVars
  <2>2. QED
    BY <1>0, <1>2, <2>1
<1>12. CASE UNCHANGED vars
  BY <1>0, <1>2, <1>12 DEF vars, boardVars, brainVars, pipelineVars
<1>13. QED
  BY <1>3, <1>4, <1>5, <1>6, <1>7, <1>8, <1>9, <1>10, <1>11, <1>12 DEF Next, simulateExperiment

LEMMA GossipAlways == Spec => [](TypeInv /\ RowsInv /\ GossipInv)
<1>1. Init => TypeInv /\ RowsInv /\ GossipInv
  <2> SUFFICES ASSUME Init PROVE TypeInv /\ RowsInv /\ GossipInv
    OBVIOUS
  <2>1. TypeInv
    BY PipelineInitType DEF Init
  <2>2. RowsInv
    BY DEF Init, PipelineInit, BoardInit, RowsInv, Sound
  <2>3. Unheard \in [Nodes -> SUBSET Values] /\ \A n \in Nodes : Unheard[n] = {}
    BY DEF Unheard
  <2>4. /\ heard \in [Nodes -> [Nodes -> SUBSET Values]]
        /\ \A n \in Nodes : heard[n] = Unheard /\ heard[n][n] = {}
    BY <2>3 DEF Init
  <2>5. GossipInv
    BY <2>4, ClientsKnown DEF Init, BoardInit, PipelineInit, GossipInv
  <2>6. QED
    BY <2>1, <2>2, <2>5
<1>2. TypeInv /\ RowsInv /\ GossipInv /\ [Next]_vars => TypeInv' /\ RowsInv' /\ GossipInv'
  BY BrainStep, NextType, NextRows, NextGossip
<1>3. QED
  BY <1>1, <1>2, PTL DEF Spec

-----------------------------------------------------------------------------
(***************************************************************************)
(* The order of writes.  Precedes is a strict total order of paths, so     *)
(* that the writes of a peer in a finite document have a last one.         *)
(***************************************************************************)
Paths == Seq(Nat)

LEMMA PrecedesAt ==
    ASSUME NEW p \in Paths, NEW q \in Paths
    PROVE  Precedes(p, q) <=>
             \E i \in 1 .. Len(q) : /\ i <= Len(p) + 1
                                    /\ \A j \in 1 .. i - 1 : p[j] = q[j]
                                    /\ i <= Len(p) => p[i] < q[i]
<1>1. ASSUME NEW i \in 1 .. Len(q), i <= Len(p) + 1
      PROVE  SubSeq(p, 1, i - 1) = SubSeq(q, 1, i - 1) <=> \A j \in 1 .. i - 1 : p[j] = q[j]
  <2> DEFINE s == SubSeq(p, 1, i - 1)
             t == SubSeq(q, 1, i - 1)
  <2>1. i \in Nat /\ Len(p) \in Nat /\ Len(q) \in Nat
    BY LenProperties DEF Paths
  <2>2. \A j \in 1 .. i - 1 : p[j] \in Nat /\ q[j] \in Nat
    BY <1>1, <2>1, ElementOfSeq DEF Paths
  <2>3. /\ s \in Seq(Nat) /\ Len(s) = i - 1 /\ \A j \in 1 .. i - 1 : s[j] = p[j]
        /\ t \in Seq(Nat) /\ Len(t) = i - 1 /\ \A j \in 1 .. i - 1 : t[j] = q[j]
    <3>1. /\ s \in Seq(Nat) /\ Len(s) = IF 1 <= i - 1 THEN (i - 1) - 1 + 1 ELSE 0
          /\ \A j \in 1 .. (i - 1) - 1 + 1 : s[j] = p[1 + j - 1]
      BY <2>1, <2>2, SubSeqProperties
    <3>2. /\ t \in Seq(Nat) /\ Len(t) = IF 1 <= i - 1 THEN (i - 1) - 1 + 1 ELSE 0
          /\ \A j \in 1 .. (i - 1) - 1 + 1 : t[j] = q[1 + j - 1]
      BY <2>1, <2>2, SubSeqProperties
    <3> HIDE DEF s, t
    <3>3. Len(s) = i - 1 /\ Len(t) = i - 1
      BY <2>1, <3>1, <3>2
    <3>4. \A j \in 1 .. i - 1 : j \in 1 .. (i - 1) - 1 + 1 /\ 1 + j - 1 = j
      BY <2>1
    <3>5. QED
      BY <3>1, <3>2, <3>3, <3>4
  <2> HIDE DEF s, t
  <2>4. (\A j \in 1 .. i - 1 : p[j] = q[j]) => s = t
    BY <2>1, <2>3, SeqEqual
  <2>5. s = t => \A j \in 1 .. i - 1 : p[j] = q[j]
    BY <2>1, <2>3
  <2>6. QED
    BY <2>4, <2>5 DEF s, t
<1>2. QED
  BY <1>1 DEF Precedes

LEMMA PrecedesIrreflexive == ASSUME NEW p \in Paths PROVE ~ Precedes(p, p)
<1>1. Len(p) \in Nat /\ \A i \in 1 .. Len(p) : p[i] \in Nat
  BY LenProperties, ElementOfSeq DEF Paths
<1>2. QED
  BY <1>1, PrecedesAt

LEMMA PrecedesTransitive ==
    ASSUME NEW p \in Paths, NEW q \in Paths, NEW r \in Paths, Precedes(p, q), Precedes(q, r)
    PROVE  Precedes(p, r)
<1>1. /\ Len(p) \in Nat /\ \A i \in 1 .. Len(p) : p[i] \in Nat
      /\ Len(q) \in Nat /\ \A i \in 1 .. Len(q) : q[i] \in Nat
      /\ Len(r) \in Nat /\ \A i \in 1 .. Len(r) : r[i] \in Nat
  BY LenProperties, ElementOfSeq DEF Paths
<1>2. PICK i \in 1 .. Len(q) : /\ i <= Len(p) + 1
                               /\ \A l \in 1 .. i - 1 : p[l] = q[l]
                               /\ i <= Len(p) => p[i] < q[i]
  BY PrecedesAt
<1>3. PICK j \in 1 .. Len(r) : /\ j <= Len(q) + 1
                               /\ \A l \in 1 .. j - 1 : q[l] = r[l]
                               /\ j <= Len(q) => q[j] < r[j]
  BY PrecedesAt
<1>4. SUFFICES \E k \in 1 .. Len(r) : /\ k <= Len(p) + 1
                                      /\ \A l \in 1 .. k - 1 : p[l] = r[l]
                                      /\ k <= Len(p) => p[k] < r[k]
  BY PrecedesAt
<1>5. CASE i < j
  BY <1>1, <1>2, <1>3, <1>5
<1>6. CASE j < i
  BY <1>1, <1>2, <1>3, <1>6
<1>7. CASE i = j
  BY <1>1, <1>2, <1>3, <1>7
<1>8. QED
  BY <1>1, <1>5, <1>6, <1>7

LEMMA PrecedesTotal ==
    ASSUME NEW p \in Paths, NEW q \in Paths, p # q
    PROVE  Precedes(p, q) \/ Precedes(q, p)
<1>1. /\ Len(p) \in Nat /\ \A i \in 1 .. Len(p) : p[i] \in Nat
      /\ Len(q) \in Nat /\ \A i \in 1 .. Len(q) : q[i] \in Nat
  BY LenProperties, ElementOfSeq DEF Paths
<1> DEFINE Apart == {i \in Nat \ {0} : i > Len(p) \/ i > Len(q) \/ p[i] # q[i]}
<1>2. PICK m \in Apart : \A i \in Apart : m <= i
  <2>1. Apart \subseteq Nat
    OBVIOUS
  <2>2. Len(p) + 1 \in Apart
    BY <1>1
  <2> HIDE DEF Apart
  <2> DEFINE Less == OpToRel(<, Nat)
  <2>3. \A i, k \in Nat : i < k => <<i, k>> \in Less
    BY DEF OpToRel
  <2>4. IsWellFoundedOn(Less, Nat)
    BY NatLessThanWellFounded
  <2> HIDE DEF Less
  <2>5. PICK m \in Apart : \A i \in Apart : ~ (<<i, m>> \in Less)
    BY <2>1, <2>2, <2>4, WFMin
  <2>6. ASSUME NEW i \in Apart PROVE m <= i
    <3>1. i \in Nat /\ m \in Nat /\ ~ (i < m)
      BY <2>1, <2>3, <2>5
    <3>2. QED
      BY <3>1
  <2>7. QED
    BY <2>6
<1>3. \A j \in 1 .. m - 1 : j <= Len(p) /\ j <= Len(q) /\ p[j] = q[j]
  <2> SUFFICES ASSUME NEW j \in 1 .. m - 1 PROVE j <= Len(p) /\ j <= Len(q) /\ p[j] = q[j]
    OBVIOUS
  <2>1. j \in Nat \ {0} /\ j \notin Apart
    BY <1>2
  <2>2. QED
    BY <1>1, <2>1
<1>4. m \in Nat \ {0} /\ m <= Len(p) + 1 /\ m <= Len(q) + 1
  BY <1>1, <1>2, <1>3
<1>5. CASE m > Len(p) /\ m > Len(q)
  <2>1. Len(p) = Len(q) /\ \A i \in 1 .. Len(p) : p[i] = q[i]
    BY <1>1, <1>3, <1>4, <1>5
  <2>2. QED
    BY <2>1, SeqEqual DEF Paths
<1>6. CASE m > Len(p) /\ m <= Len(q)
  BY <1>1, <1>3, <1>4, <1>6, PrecedesAt
<1>7. CASE m > Len(q) /\ m <= Len(p)
  BY <1>1, <1>3, <1>4, <1>7, PrecedesAt
<1>8. CASE m <= Len(p) /\ m <= Len(q)
  <2>1. p[m] < q[m] \/ q[m] < p[m]
    BY <1>1, <1>2, <1>4, <1>8
  <2>2. QED
    BY <1>1, <1>3, <1>4, <1>8, <2>1, PrecedesAt
<1>9. QED
  BY <1>1, <1>4, <1>5, <1>6, <1>7, <1>8

\* A total and transitive relation has a greatest element on a finite set: a
\* smallest set without one is not empty, and adding back one element to the
\* rest leaves the greater of the two.
LEMMA GreatestExists ==
    ASSUME NEW S, IsFiniteSet(S), S # {}, NEW R,
           \A x, y \in S : <<x, y>> \in R \/ <<y, x>> \in R,
           \A x, y, z \in S : <<x, y>> \in R /\ <<y, z>> \in R => <<x, z>> \in R
    PROVE  \E x \in S : \A y \in S : <<x, y>> \in R
<1> DEFINE Greatest(x, T) == x \in T /\ \A y \in T : <<x, y>> \in R
           Bad == {T \in SUBSET S : T # {} /\ \A x \in T : ~ Greatest(x, T)}
<1>1. SUFFICES ASSUME Bad # {} PROVE FALSE
  OBVIOUS
<1>2. PICK T \in Bad : \A U \in SUBSET T : U # T => U \notin Bad
  <2> DEFINE Less == StrictSubsetOrdering(S)
  <2>1. IsWellFoundedOn(Less, SUBSET S)
    BY FS_StrictSubsetOrderingWellFounded, FS_FiniteSubsetsOfFinite
  <2>2. Bad \subseteq SUBSET S
    OBVIOUS
  <2>3. \A U, V \in SUBSET S : U \subseteq V /\ U # V => <<U, V>> \in Less
    BY DEF StrictSubsetOrdering
  <2> HIDE DEF Bad, Less
  <2>4. PICK V \in Bad : \A U \in Bad : ~ (<<U, V>> \in Less)
    BY <1>1, <2>1, <2>2, WFMin
  <2>5. ASSUME NEW U \in SUBSET V, U # V PROVE U \notin Bad
    BY <2>2, <2>3, <2>4, <2>5
  <2>6. QED
    BY <2>5
<1>3. PICK t : t \in T
  BY <1>2
<1> DEFINE Rest == T \ {t}
<1>4. Rest \in SUBSET T /\ Rest # T /\ Rest \in SUBSET S /\ t \in S /\ T \in SUBSET S
  BY <1>2, <1>3
<1>5. <<t, t>> \in R
  BY <1>4
<1>6. CASE Rest = {}
  <2>1. T = {t}
    BY <1>3, <1>6
  <2>2. Greatest(t, T)
    BY <1>5, <2>1
  <2>3. QED
    BY <1>2, <1>3, <2>2
<1>7. CASE Rest # {}
  <2>1. Rest \notin Bad
    BY <1>2, <1>4
  <2>2. PICK x \in Rest : Greatest(x, Rest)
    BY <1>4, <1>7, <2>1
  <2>3. x \in S /\ \A y \in T : y = t \/ <<x, y>> \in R
    BY <1>4, <2>2
  <2>4. CASE <<x, t>> \in R
    <3>1. Greatest(x, T)
      BY <1>4, <2>2, <2>3, <2>4
    <3>2. QED
      BY <1>2, <3>1
  <2>5. CASE <<t, x>> \in R
    <3>1. \A y \in T : <<t, y>> \in R
      BY <1>4, <1>5, <2>3, <2>5
    <3>2. Greatest(t, T)
      BY <1>3, <3>1
    <3>3. QED
      BY <1>2, <1>3, <3>2
  <2>6. QED
    BY <1>4, <2>3, <2>4, <2>5
<1>8. QED
  BY <1>6, <1>7

\* The writes of a document: no two of a peer have the same path.
Distinct(writes) ==
    \A w, x \in writes : w.peer = x.peer /\ w.path = x.path => w = x

Document(doc) ==
    /\ IsFiniteSet(doc)
    /\ \A w \in doc : w.path \in Paths
    /\ Distinct(doc)

Last(doc, w) ==
    /\ w \in doc
    /\ \A x \in Writes(doc, w.peer) : x = w \/ Precedes(x.path, w.path)

LEMMA CurrentIsLast ==
    ASSUME NEW doc, Document(doc), NEW peer, Writes(doc, peer) # {}
    PROVE  Current(doc, peer) \in Writes(doc, peer) /\ Last(doc, Current(doc, peer))
<1> DEFINE S == Writes(doc, peer)
           R == {ss \in S \X S : ss[1] = ss[2] \/ Precedes(ss[2].path, ss[1].path)}
<1>1. S \subseteq doc /\ \A w \in S : w.peer = peer /\ w.path \in Paths
  BY DEF Writes, Document
<1>2. IsFiniteSet(S)
  BY <1>1, FS_Subset DEF Document
<1>3. \A x, y \in S : <<x, y>> \in R <=> x = y \/ Precedes(y.path, x.path)
  OBVIOUS
<1> HIDE DEF R
<1>4. \A x, y \in S : <<x, y>> \in R \/ <<y, x>> \in R
  <2> SUFFICES ASSUME NEW x \in S, NEW y \in S, x # y
               PROVE  Precedes(y.path, x.path) \/ Precedes(x.path, y.path)
    BY <1>3
  <2>1. x.path # y.path
    BY <1>1 DEF Document, Distinct
  <2>2. QED
    BY <1>1, <2>1, PrecedesTotal
<1>5. ASSUME NEW x \in S, NEW y \in S, NEW z \in S, <<x, y>> \in R, <<y, z>> \in R
      PROVE  <<x, z>> \in R
  <2>1. CASE x = y \/ y = z
    BY <1>5, <2>1
  <2>2. CASE Precedes(y.path, x.path) /\ Precedes(z.path, y.path)
    <3>1. Precedes(z.path, x.path)
      BY <1>1, <2>2, PrecedesTransitive
    <3>2. QED
      BY <1>3, <3>1
  <2>3. QED
    BY <1>3, <1>5, <2>1, <2>2
<1> HIDE DEF S
<1>6. \E w \in S : \A x \in S : <<w, x>> \in R
  BY <1>2, <1>4, <1>5, GreatestExists DEF S
<1>7. \E w \in S : \A x \in S : x = w \/ Precedes(x.path, w.path)
  BY <1>3, <1>6
<1>8. /\ Current(doc, peer) \in S
      /\ \A x \in S : x = Current(doc, peer) \/ Precedes(x.path, Current(doc, peer).path)
  BY <1>7 DEF Current, S
<1>9. QED
  BY <1>1, <1>8 DEF Last, S

LEMMA LastIsCurrent ==
    ASSUME NEW doc, Document(doc), NEW w, Last(doc, w)
    PROVE  Current(doc, w.peer) = w
<1>1. w \in Writes(doc, w.peer) /\ w.path \in Paths
  BY DEF Last, Writes, Document
<1> DEFINE c == Current(doc, w.peer)
<1>2. c \in Writes(doc, w.peer) /\ Last(doc, c)
  BY <1>1, CurrentIsLast
<1>3. c.peer = w.peer /\ c.path \in Paths
  BY <1>2 DEF Writes, Document
<1> HIDE DEF c
<1>4. c = w \/ Precedes(c.path, w.path)
  BY <1>2 DEF Last
<1>5. c = w \/ Precedes(w.path, c.path)
  BY <1>1, <1>2, <1>3 DEF Last
<1>6. ~ (Precedes(c.path, w.path) /\ Precedes(w.path, c.path))
  BY <1>1, <1>3, PrecedesTransitive, PrecedesIrreflexive
<1>7. QED
  BY <1>4, <1>5, <1>6 DEF c

\* Where a new write of a peer goes: after the current one.
Before(doc, peer) == IF Writes(doc, peer) = {} THEN <<>> ELSE Current(doc, peer).path

NewWrite(doc, c, peer, metric) ==
    [peer |-> peer, path |-> Append(Before(doc, peer), c), metric |-> metric]

LEMMA WrittenIs ==
    ASSUME NEW doc, NEW c, NEW peer, NEW metric
    PROVE  Written(doc, c, peer, metric) = doc \cup {NewWrite(doc, c, peer, metric)}
  BY Zenon DEF Written, NewWrite, Before

LEMMA AppendFollows ==
    ASSUME NEW p \in Paths, NEW c \in Nat
    PROVE  /\ Append(p, c) \in Paths
           /\ Len(Append(p, c)) \in Nat \ {0}
           /\ Append(p, c)[Len(Append(p, c))] = c
           /\ Precedes(p, Append(p, c))
<1> DEFINE q == Append(p, c)
<1>1. /\ q \in Seq(Nat) /\ Len(q) = Len(p) + 1 /\ Len(p) \in Nat
      /\ \A i \in 1 .. Len(p) : q[i] = p[i]
      /\ q[Len(p) + 1] = c
  BY AppendProperties, LenProperties DEF Paths
<1> HIDE DEF q
<1>2. q \in Paths
  BY <1>1 DEF Paths
<1>3. \E i \in 1 .. Len(q) : /\ i <= Len(p) + 1
                             /\ \A j \in 1 .. i - 1 : p[j] = q[j]
                             /\ i <= Len(p) => p[i] < q[i]
  <2>1. Len(p) + 1 \in 1 .. Len(q)
    BY <1>1
  <2>2. \A j \in 1 .. (Len(p) + 1) - 1 : p[j] = q[j]
    BY <1>1
  <2>3. QED
    BY <1>1, <2>1, <2>2
<1>4. Precedes(p, q)
  BY <1>2, <1>3, PrecedesAt
<1>5. QED
  BY <1>1, <1>2, <1>4 DEF q

\* The new write follows all writes of its peer.
LEMMA NewWriteFollows ==
    ASSUME NEW doc, Document(doc), NEW c \in Nat, NEW peer, NEW metric
    PROVE  LET new == NewWrite(doc, c, peer, metric)
           IN  /\ new.peer = peer /\ new.metric = metric /\ new.path \in Paths
               /\ Len(new.path) \in Nat \ {0} /\ new.path[Len(new.path)] = c
               /\ \A x \in Writes(doc, peer) : Precedes(x.path, new.path)
<1> DEFINE before == Before(doc, peer)
           new == NewWrite(doc, c, peer, metric)
<1>1. before \in Paths
  <2>1. CASE Writes(doc, peer) = {}
    BY <2>1, EmptySeq DEF Before, Paths
  <2>2. CASE Writes(doc, peer) # {}
    BY <2>2, CurrentIsLast DEF Before, Writes, Document
  <2>3. QED
    BY <2>1, <2>2
<1>2. new.peer = peer /\ new.metric = metric /\ new.path = Append(before, c)
  BY DEF NewWrite
<1>3. ASSUME NEW x \in Writes(doc, peer) PROVE x.path \in Paths /\ (x.path = before \/ Precedes(x.path, before))
  <2>1. Last(doc, Current(doc, peer)) /\ Current(doc, peer) \in Writes(doc, peer)
    BY <1>3, CurrentIsLast
  <2>2. before = Current(doc, peer).path
    BY <1>3 DEF Before
  <2>3. x = Current(doc, peer) \/ Precedes(x.path, Current(doc, peer).path)
    BY <1>3, <2>1 DEF Last, Writes
  <2>4. QED
    BY <1>3, <2>2, <2>3 DEF Writes, Document
<1> HIDE DEF before, new
<1>4. /\ new.path \in Paths /\ Len(new.path) \in Nat \ {0} /\ new.path[Len(new.path)] = c
      /\ Precedes(before, new.path)
  BY <1>1, <1>2, AppendFollows
<1>5. \A x \in Writes(doc, peer) : Precedes(x.path, new.path)
  BY <1>1, <1>3, <1>4, PrecedesTransitive
<1>6. QED
  BY <1>2, <1>4, <1>5 DEF new

\* Hence a document stays one, the write becomes the current one of its peer,
\* and the rows of other peers stay.
LEMMA WrittenDocument ==
    ASSUME NEW doc, Document(doc), NEW c \in Nat, NEW peer, NEW metric
    PROVE  /\ Document(Written(doc, c, peer, metric))
           /\ Row(Written(doc, c, peer, metric), peer) = metric
           /\ \A p : p # peer => Row(Written(doc, c, peer, metric), p) = Row(doc, p)
<1> DEFINE new == NewWrite(doc, c, peer, metric)
           more == Written(doc, c, peer, metric)
<1>1. more = doc \cup {new}
  BY WrittenIs
<1>2. /\ new.peer = peer /\ new.metric = metric /\ new.path \in Paths
      /\ \A x \in Writes(doc, peer) : Precedes(x.path, new.path)
  BY NewWriteFollows
<1> HIDE DEF new, more
<1>3. Document(more)
  <2>1. IsFiniteSet(more)
    BY <1>1, FS_AddElement DEF Document
  <2>2. \A w \in more : w.path \in Paths
    BY <1>1, <1>2 DEF Document
  <2>3. \A x \in doc : x.peer = new.peer => x.path # new.path
    BY <1>2, PrecedesIrreflexive DEF Writes
  <2>4. Distinct(more)
    BY <1>1, <2>3 DEF Document, Distinct
  <2>5. QED
    BY <2>1, <2>2, <2>4 DEF Document
<1>4. Last(more, new)
  BY <1>1, <1>2 DEF Last, Writes
<1>5. Row(more, peer) = metric
  <2>1. Current(more, peer) = new
    BY <1>2, <1>3, <1>4, LastIsCurrent
  <2>2. Writes(more, peer) # {}
    BY <1>1, <1>2 DEF Writes
  <2>3. QED
    BY <1>2, <2>1, <2>2 DEF Row
<1>6. ASSUME NEW p, p # peer PROVE Row(more, p) = Row(doc, p)
  <2>1. Writes(more, p) = Writes(doc, p)
    BY <1>1, <1>2, <1>6 DEF Writes
  <2>2. QED
    BY <2>1 DEF Row, Current
<1>7. QED
  BY <1>3, <1>5, <1>6 DEF more

-----------------------------------------------------------------------------
(***************************************************************************)
(* Paths.  A write ends with the client id of its author, which no other   *)
(* start of any node draws; what an author that is still up has written is *)
(* in its own document.  So two writes of a peer never have the same path, *)
(* wherever documents are merged.                                          *)
(***************************************************************************)
AllWrites ==
    (UNION {docs[n] : n \in Nodes}) \cup (UNION {wire[c] : c \in Syncers})

LEMMA InAllWrites ==
    /\ \A n \in Nodes : \A w \in docs[n] : w \in AllWrites
    /\ \A c \in Syncers : \A w \in wire[c] : w \in AllWrites
    /\ \A w \in AllWrites : \/ \E n \in Nodes : w \in docs[n]
                            \/ \E c \in Syncers : w \in wire[c]
<1>1. ASSUME NEW n \in Nodes, NEW w \in docs[n] PROVE w \in AllWrites
  <2>1. docs[n] \in {docs[m] : m \in Nodes}
    OBVIOUS
  <2>2. QED
    BY <2>1, Zenon DEF AllWrites
<1>2. ASSUME NEW c \in Syncers, NEW w \in wire[c] PROVE w \in AllWrites
  <2>1. wire[c] \in {wire[m] : m \in Syncers}
    OBVIOUS
  <2>2. QED
    BY <2>1, Zenon DEF AllWrites
<1>3. \A w \in AllWrites : \/ \E n \in Nodes : w \in docs[n]
                           \/ \E c \in Syncers : w \in wire[c]
  BY DEF AllWrites
<1>4. QED
  BY <1>1, <1>2, <1>3

Author(w) == w.path[Len(w.path)]

PathInv ==
    /\ \A n \in Nodes : IsFiniteSet(docs[n])
    /\ \A c \in Syncers : IsFiniteSet(wire[c])
    /\ Distinct(AllWrites)
    /\ \A w \in AllWrites : w.path \in Paths /\ Author(w) \in drawn
    /\ \A n \in Nodes : up[n] =>
          client[n] \in drawn /\ \A w \in AllWrites : Author(w) = client[n] => w \in docs[n]

LEMMA Documents ==
    ASSUME PathInv
    PROVE  /\ \A n \in Nodes : Document(docs[n])
           /\ \A c \in Syncers : Document(wire[c])
  BY InAllWrites DEF PathInv, Document, Distinct

\* A step in which nobody writes or starts.
LEMMA QuietPaths ==
    ASSUME PathInv, drawn' = drawn,
           \A n \in Nodes : IsFiniteSet(docs'[n]) /\ \A w \in docs'[n] : w \in AllWrites,
           \A c \in Syncers : IsFiniteSet(wire'[c]) /\ \A w \in wire'[c] : w \in AllWrites,
           \A n \in Nodes : up'[n] =>
               up[n] /\ client'[n] = client[n] /\ docs[n] \subseteq docs'[n]
    PROVE  PathInv'
<1>1. AllWrites' \subseteq AllWrites
  <2>1. \A w \in AllWrites' : \/ \E n \in Nodes : w \in docs'[n]
                              \/ \E c \in Syncers : w \in wire'[c]
    BY DEF AllWrites
  <2>2. QED
    BY <2>1
<1>2. Distinct(AllWrites)'
  BY <1>1 DEF PathInv, Distinct
<1>3. \A w \in AllWrites' : w.path \in Paths /\ Author(w) \in drawn'
  BY <1>1 DEF PathInv
<1>4. \A n \in Nodes : up'[n] =>
         client'[n] \in drawn' /\ \A w \in AllWrites' : Author(w) = client'[n] => w \in docs'[n]
  BY <1>1 DEF PathInv
<1>5. QED
  BY <1>2, <1>3, <1>4 DEF PathInv, Author

LEMMA StartPaths ==
    ASSUME PathInv, GossipInv, DOMAIN docs = Nodes, TypeInv, NEW n \in Nodes, start(n)
    PROVE  PathInv'
<1>1. PICK c \in Clients[n] \ drawn :
         client' = [client EXCEPT ![n] = c] /\ drawn' = drawn \cup {c}
  BY DEF start, NewBoard
<1>2. ~up[n] /\ docs[n] = {} /\ docs' = [docs EXCEPT ![n] = {}] /\ wire' = wire
      /\ up' = [up EXCEPT ![n] = TRUE]
  BY DEF start, NewBoard, loadPersistedState, GossipInv
<1>3. \A m \in Nodes : docs'[m] = docs[m]
  BY <1>2
<1>4. AllWrites' \subseteq AllWrites
  <2>1. \A w \in AllWrites' : \/ \E m \in Nodes : w \in docs'[m]
                              \/ \E d \in Syncers : w \in wire'[d]
    BY DEF AllWrites
  <2>2. QED
    BY <1>2, <1>3, <2>1, InAllWrites
<1>5. Distinct(AllWrites)' /\ \A w \in AllWrites' : w.path \in Paths /\ Author(w) \in drawn'
  BY <1>1, <1>4 DEF PathInv, Distinct
<1>6. ASSUME NEW m \in Nodes, up'[m]
      PROVE  client'[m] \in drawn'
             /\ \A w \in AllWrites' : Author(w) = client'[m] => w \in docs'[m]
  <2>1. CASE m = n
    <3>1. client'[m] = c
      BY <1>1, <2>1 DEF GossipInv
    <3>2. QED
      BY <1>1, <1>4, <3>1 DEF PathInv
  <2>2. CASE m # n
    <3>1. up[m] /\ client'[m] = client[m]
      BY <1>1, <1>2, <1>6, <2>2 DEF TypeInv, PipelineTypeOK, GossipInv
    <3>2. QED
      BY <1>1, <1>3, <1>4, <3>1 DEF PathInv
  <2>3. QED
    BY <2>1, <2>2
<1>7. QED
  BY <1>2, <1>3, <1>5, <1>6 DEF PathInv, Author

LEMMA ClientNumbers ==
    ASSUME GossipInv, NEW n \in Nodes, up[n]
    PROVE  /\ client[n] \in Nat
           /\ \A m \in Nodes \ {n} : up[m] => client[m] # client[n]
  BY ClientsAssumption DEF ClientsAssumption, GossipInv

LEMMA SubmitPaths ==
    ASSUME PathInv, GossipInv, DOMAIN docs = Nodes, NEW n \in Nodes, up[n],
           NEW peer, NEW metric, submit(n, peer, metric),
           UNCHANGED <<up, wire>>
    PROVE  PathInv'
<1> DEFINE new == NewWrite(docs[n], client[n], peer, metric)
<1>1. client[n] \in Nat /\ \A m \in Nodes \ {n} : up[m] => client[m] # client[n]
  BY ClientNumbers
<1>2. Document(docs[n])
  BY Documents
<1>3. UNCHANGED <<client, drawn>>
  BY DEF submit
<1>4. CASE docs'[n] = docs[n]
  <2>1. \A m \in Nodes : docs'[m] = docs[m]
    BY <1>4 DEF submit
  <2>2. QED
    BY <1>3, <2>1, InAllWrites, QuietPaths DEF PathInv
<1>5. CASE docs' = [docs EXCEPT ![n] = docs[n] \cup {new}]
  <2>1. /\ new.peer = peer /\ new.path \in Paths /\ Author(new) = client[n]
        /\ \A x \in Writes(docs[n], peer) : Precedes(x.path, new.path)
    BY <1>1, <1>2, NewWriteFollows DEF Author
  <2> HIDE DEF new
  <2>2. /\ docs'[n] = docs[n] \cup {new}
        /\ \A m \in Nodes \ {n} : docs'[m] = docs[m]
    BY <1>5
  <2>3. AllWrites' \subseteq AllWrites \cup {new}
    <3>1. \A w \in AllWrites' : \/ \E m \in Nodes : w \in docs'[m]
                                \/ \E c \in Syncers : w \in wire'[c]
      BY DEF AllWrites
    <3>2. QED
      BY <2>2, <3>1, InAllWrites
  <2>4. \A x \in AllWrites : x.peer = new.peer => x.path # new.path
    <3> SUFFICES ASSUME NEW x \in AllWrites, x.peer = new.peer, x.path = new.path PROVE FALSE
      OBVIOUS
    <3>1. Author(x) = client[n]
      BY <2>1 DEF Author
    <3>2. x \in Writes(docs[n], peer)
      BY <2>1, <3>1 DEF PathInv, Writes
    <3>3. QED
      BY <2>1, <3>2, PrecedesIrreflexive
  <2>5. Distinct(AllWrites)'
    BY <2>3, <2>4 DEF PathInv, Distinct
  <2>6. \A w \in AllWrites' : w.path \in Paths /\ Author(w) \in drawn'
    BY <1>3, <2>1, <2>3 DEF PathInv
  <2>7. \A m \in Nodes : IsFiniteSet(docs'[m])
    BY <2>2, FS_AddElement DEF PathInv
  <2>8. \A m \in Nodes : up'[m] =>
           client'[m] \in drawn' /\ \A w \in AllWrites' : Author(w) = client'[m] => w \in docs'[m]
    BY <1>1, <1>3, <2>1, <2>2, <2>3 DEF PathInv
  <2>9. QED
    BY <2>5, <2>6, <2>7, <2>8 DEF PathInv, Author
<1>6. QED
  BY <1>4, <1>5, WrittenIs DEF submit

LEMMA NextPaths == TypeInv /\ RowsInv /\ GossipInv /\ PathInv /\ [Next]_vars => PathInv'
<1> SUFFICES ASSUME TypeInv, RowsInv, GossipInv, PathInv, [Next]_vars PROVE PathInv'
  OBVIOUS
<1>1. /\ DOMAIN docs = Nodes /\ DOMAIN wire = Syncers /\ up \in [Nodes -> BOOLEAN]
      /\ \A n \in Nodes : IsFiniteSet(docs[n])
      /\ \A c \in Syncers : IsFiniteSet(wire[c])
  BY DEF RowsInv, TypeInv, PipelineTypeOK, PathInv
<1>2. ASSUME UNCHANGED <<up, docs, wire, client, drawn>> PROVE PathInv'
  BY <1>1, <1>2, InAllWrites, QuietPaths
<1>3. ASSUME NEW n \in Nodes, tick(n) PROVE PathInv'
  BY <1>2, <1>3 DEF tick, boardVars, runCycle
<1>4. ASSUME NEW n \in Nodes, Stop(n), Forget(n) PROVE PathInv'
  <2>1. /\ docs' = [docs EXCEPT ![n] = {}] /\ client' = [client EXCEPT ![n] = NoClient]
        /\ drawn' = drawn /\ wire' = wire /\ up' = [up EXCEPT ![n] = FALSE]
    BY <1>4 DEF Forget, LoseBoard, Stop
  <2>2. \A m \in Nodes : up'[m] => up[m] /\ client'[m] = client[m] /\ docs'[m] = docs[m]
    BY <1>1, <2>1 DEF GossipInv
  <2>3. \A m \in Nodes : docs'[m] = {} \/ docs'[m] = docs[m]
    BY <1>1, <2>1
  <2>4. \A m \in Nodes : IsFiniteSet(docs'[m]) /\ \A w \in docs'[m] : w \in AllWrites
    BY <1>1, <2>3, FS_EmptySet, InAllWrites
  <2>5. QED
    BY <1>1, <2>1, <2>2, <2>4, InAllWrites, QuietPaths
<1>5. ASSUME NEW n \in Nodes, stop(n) PROVE PathInv'
  BY <1>4, <1>5 DEF stop, Crash
<1>6. ASSUME NEW n \in Nodes, start(n) PROVE PathInv'
  BY <1>1, <1>6, StartPaths
<1>7. ASSUME NEW n \in Nodes, NEW v \in Metrics, tickEnds(n, v) PROVE PathInv'
  <2>1. up[n] /\ submit(n, n, Blank) /\ UNCHANGED <<up, wire>>
    BY <1>7 DEF tickEnds, runExperiment
  <2>2. QED
    BY <1>1, <2>1, SubmitPaths
<1>8. ASSUME NEW n \in Nodes, NEW v \in Metrics, broadcastResult(n, v) PROVE PathInv'
  BY <1>2, <1>8 DEF broadcastResult, boardVars, pipelineVars
<1>9. ASSUME NEW n \in Nodes, NEW v \in Metrics, stopInSave(n, v) PROVE PathInv'
  BY <1>4, <1>9 DEF stopInSave, CrashInSave
<1>10. ASSUME NEW n \in Nodes, NEW msg \in gossip, handleGossip(n, msg) PROVE PathInv'
  <2>1. up[n] /\ submit(n, msg.peer, Field(msg.metric)) /\ UNCHANGED <<up, wire>>
    BY <1>10 DEF handleGossip, pipelineVars
  <2>2. QED
    BY <1>1, <2>1, SubmitPaths
<1>11. ASSUME NEW c \in Syncers, syncLeaderboards(c) PROVE PathInv'
  <2>1. c \in Nodes /\ wire' = [wire EXCEPT ![c] = docs[c]]
        /\ UNCHANGED <<up, docs, client, drawn>>
    BY <1>11 DEF syncLeaderboards, getFullState, boardVars, pipelineVars, Syncers
  <2>2. \A d \in Syncers : wire'[d] = wire[d] \/ wire'[d] = docs[c]
    BY <1>1, <2>1
  <2>3. \A d \in Syncers : IsFiniteSet(wire'[d]) /\ \A w \in wire'[d] : w \in AllWrites
    BY <1>1, <2>1, <2>2, InAllWrites
  <2>4. QED
    BY <1>1, <2>1, <2>3, InAllWrites, QuietPaths
<1>12. ASSUME NEW c \in Syncers, loseUpdate(c) PROVE PathInv'
  <2>1. wire' = [wire EXCEPT ![c] = {}] /\ UNCHANGED <<up, docs, client, drawn>>
    BY <1>12 DEF loseUpdate, boardVars, pipelineVars
  <2>2. \A d \in Syncers : wire'[d] = wire[d] \/ wire'[d] = {}
    BY <1>1, <2>1
  <2>3. \A d \in Syncers : IsFiniteSet(wire'[d]) /\ \A w \in wire'[d] : w \in AllWrites
    BY <1>1, <2>1, <2>2, InAllWrites, FS_EmptySet
  <2>4. QED
    BY <1>1, <2>1, <2>3, InAllWrites, QuietPaths
<1>13. ASSUME NEW n \in Nodes, NEW c \in Syncers, receiveUpdate(n, c) PROVE PathInv'
  <2>1. docs' = [docs EXCEPT ![n] = docs[n] \cup wire[c]] /\ UNCHANGED <<up, wire, client, drawn>>
    BY <1>13 DEF receiveUpdate, applyUpdate, pipelineVars
  <2>2. \A m \in Nodes : docs'[m] = docs[m] \/ docs'[m] = docs[m] \cup wire[c]
    BY <1>1, <2>1
  <2>3. \A m \in Nodes : IsFiniteSet(docs[m] \cup wire[c])
    BY <1>1, FS_Union
  <2>4. \A m \in Nodes : IsFiniteSet(docs'[m]) /\ \A w \in docs'[m] : w \in AllWrites
    BY <1>1, <2>2, <2>3, InAllWrites
  <2>5. \A m \in Nodes : docs[m] \subseteq docs'[m]
    BY <2>2
  <2>6. QED
    BY <1>1, <2>1, <2>4, <2>5, InAllWrites, QuietPaths
<1>14. CASE UNCHANGED vars
  BY <1>2, <1>14 DEF vars, boardVars, brainVars, pipelineVars
<1>15. QED
  BY <1>3, <1>5, <1>6, <1>7, <1>8, <1>9, <1>10, <1>11, <1>12, <1>13, <1>14
  DEF Next, simulateExperiment

LEMMA PathsAlways == Spec => []PathInv
<1>1. Init => PathInv
  <2> SUFFICES ASSUME Init PROVE PathInv
    OBVIOUS
  <2>1. \A w : w \notin AllWrites
    BY InAllWrites DEF Init, BoardInit
  <2>2. QED
    BY <2>1, FS_EmptySet DEF Init, BoardInit, PipelineInit, PathInv, Distinct
<1>2. TypeInv /\ RowsInv /\ GossipInv /\ PathInv /\ [Next]_vars => PathInv'
  BY NextPaths
<1>3. QED
  BY <1>1, <1>2, GossipAlways, PTL DEF Spec

\* ResearchTypeOK, whatever boards are merged in whatever order: no two writes
\* of a peer ever have one path, so that a board has one current row per peer.
THEOREM ResearchTypes == Spec => []ResearchTypeOK
<1>1. TypeInv /\ RowsInv /\ GossipInv /\ PathInv => ResearchTypeOK
  <2> SUFFICES ASSUME TypeInv, RowsInv, GossipInv, PathInv PROVE ResearchTypeOK
    OBVIOUS
  <2>1. direction \in {"asc", "desc"}
    BY DEF GossipInv, getMetricDirection
  <2>2. \A n \in Nodes : client[n] \in Clients[n] \cup {NoClient}
    BY DEF GossipInv
  <2>3. \A n \in Nodes : \A w, x \in docs[n] :
          /\ w.peer \in Nodes /\ w.metric \in Metrics \cup {Blank}
          /\ w.peer = x.peer /\ w.path = x.path => w = x
    BY Documents DEF Document, Distinct, RowsInv, Sound, GossipInv
  <2>4. \A msg \in gossip : msg.peer \in Researchers /\ msg.metric \in saved[msg.peer]
    BY DEF RowsInv, GossipInv
  <2>5. heard \in [Nodes -> [Nodes -> SUBSET (Metrics \cup {Blank})]]
    <3>1. Values \subseteq Metrics \cup {Blank}
      BY DEF Values
    <3>2. QED
      BY <3>1 DEF GossipInv
  <2>6. PipelineTypeOK /\ unsent \in [Nodes -> SUBSET Metrics]
    BY DEF TypeInv, GossipInv
  <2>7. QED
    BY <2>1, <2>2, <2>3, <2>4, <2>5, <2>6 DEF ResearchTypeOK
<1>2. QED
  BY <1>1, GossipAlways, PathsAlways, PTL

-----------------------------------------------------------------------------
(***************************************************************************)
(* What an unsynced board shows.  Results of one peer arrive in any order  *)
(* and any number of times: each replaces the row if it is better, so that *)
(* the row stays the best of those heard.  A node's own rows are Blank,    *)
(* and no document brought others.                                         *)
(***************************************************************************)
UnsyncedAt(n) ==
    /\ Row(docs[n], n) \in {Absent, Blank}
    /\ \A p \in Nodes \ {n} : BestHeard(Row(docs[n], p), heard[n][p])

UnsyncedInv == \A n \in Nodes : ~synced[n] => UnsyncedAt(n)

LEMMA BestHeardMore ==
    ASSUME direction = getMetricDirection, NEW known \in SUBSET Values, NEW x,
           BestHeard(x, known), NEW v \in Values
    PROVE  BestHeard(IF NewBest(x, v) THEN v ELSE x, known \cup {v})
<1> DEFINE y == IF NewBest(x, v) THEN v ELSE x
<1>1. v \in Nat /\ \A w \in known : w \in Nat
  BY MetricsPositive DEF Values, Blank
<1>2. CASE known = {}
  <2>1. y = v
    BY <1>2 DEF BestHeard, NewBest
  <2>2. Above(v, v)
    BY <1>1 DEF Above
  <2>3. QED
    BY <1>2, <2>1, <2>2 DEF BestHeard
<1>3. CASE known # {}
  <2>1. x \in known /\ x \in Nat /\ \A w \in known : Above(x, w)
    BY <1>1, <1>3 DEF BestHeard
  <2>2. CASE project = "academic-papers"
    <3>1. x = v
      BY <2>1, <2>2 DEF Values
    <3>2. QED
      BY <2>1, <3>1 DEF BestHeard
  <2>3. CASE project # "academic-papers"
    <3>1. v > 0 /\ x > 0 /\ \A w \in known : w > 0
      BY <2>1, <2>3, MetricsPositive DEF Values
    <3>2. direction \in {"asc", "desc"}
      BY DEF getMetricDirection
    <3>3. CASE NewBest(x, v)
      <4>1. \A w \in known \cup {v} : Above(v, w)
        BY <1>1, <2>1, <3>1, <3>2, <3>3 DEF Above, NewBest, Blank, Absent
      <4>2. QED
        BY <3>3, <4>1 DEF BestHeard
    <3>4. CASE ~ NewBest(x, v)
      <4>1. \A w \in known \cup {v} : Above(x, w)
        BY <1>1, <2>1, <3>1, <3>2, <3>4 DEF Above, NewBest, Blank, Absent
      <4>2. QED
        BY <2>1, <3>4, <4>1 DEF BestHeard
    <3>5. QED
      BY <3>3, <3>4
  <2>4. QED
    BY <2>2, <2>3
<1>4. QED
  BY <1>2, <1>3

\* A submission changes one row of one board, and only for the better.
LEMMA SubmittedRow ==
    ASSUME PathInv, GossipInv, DOMAIN docs = Nodes, NEW n \in Nodes, up[n],
           NEW peer, NEW metric, submit(n, peer, metric)
    PROVE  /\ Row(docs'[n], peer) = IF NewBest(Row(docs[n], peer), metric) THEN metric
                                    ELSE Row(docs[n], peer)
           /\ \A p : p # peer => Row(docs'[n], p) = Row(docs[n], p)
           /\ \A m \in Nodes \ {n} : docs'[m] = docs[m]
<1>1. client[n] \in Nat /\ Document(docs[n])
  BY ClientNumbers, Documents
<1> DEFINE more == Written(docs[n], client[n], peer, metric)
<1>2. /\ Row(more, peer) = metric
      /\ \A p : p # peer => Row(more, p) = Row(docs[n], p)
  BY <1>1, WrittenDocument
<1>3. /\ docs'[n] = IF NewBest(Row(docs[n], peer), metric) THEN more ELSE docs[n]
      /\ \A m \in Nodes \ {n} : docs'[m] = docs[m]
  BY DEF submit
<1> HIDE DEF more
<1>4. QED
  BY <1>2, <1>3

LEMMA EmptyRow == \A p : Row({}, p) = Absent
  BY DEF Row, Writes

LEMMA NextUnsynced ==
    TypeInv /\ RowsInv /\ GossipInv /\ PathInv /\ UnsyncedInv /\ [Next]_vars => UnsyncedInv'
<1> SUFFICES ASSUME TypeInv, RowsInv, GossipInv, PathInv, UnsyncedInv, [Next]_vars,
                    NEW m \in Nodes, ~synced'[m]
             PROVE  UnsyncedAt(m)'
  BY DEF UnsyncedInv
<1>1. /\ DOMAIN docs = Nodes
      /\ heard \in [Nodes -> [Nodes -> SUBSET Values]]
      /\ synced \in [Nodes -> BOOLEAN]
      /\ direction = getMetricDirection
  BY DEF RowsInv, GossipInv
<1>2. direction' = direction
  BY BrainStep, ProjectFixed, NextGossip DEF GossipInv, getMetricDirection
<1>3. \A x, known : BestHeard(x, known)' <=> BestHeard(x, known)
  BY <1>2 DEF BestHeard, Above
<1>4. ASSUME UnsyncedAt(m), docs'[m] = docs[m], heard'[m] = heard[m] PROVE UnsyncedAt(m)'
  BY <1>3, <1>4 DEF UnsyncedAt
<1>5. ASSUME docs'[m] = {}, \A p \in Nodes : heard'[m][p] = {} PROVE UnsyncedAt(m)'
  BY <1>5, EmptyRow DEF UnsyncedAt, BestHeard
<1>6. ~synced[m] => UnsyncedAt(m)
  BY DEF UnsyncedInv
<1>7. ASSUME UNCHANGED <<docs, heard, synced>> PROVE UnsyncedAt(m)'
  BY <1>4, <1>6, <1>7
<1>8. ASSUME NEW n \in Nodes, Forget(n) PROVE UnsyncedAt(m)'
  <2>1. /\ docs' = [docs EXCEPT ![n] = {}] /\ heard' = [heard EXCEPT ![n] = Unheard]
        /\ synced' = [synced EXCEPT ![n] = FALSE]
    BY <1>8 DEF Forget, LoseBoard
  <2>2. CASE m = n
    BY <1>1, <1>5, <2>1, <2>2 DEF Unheard
  <2>3. CASE m # n
    BY <1>1, <1>4, <1>6, <2>1, <2>3
  <2>4. QED
    BY <2>2, <2>3
<1>9. ASSUME NEW n \in Nodes, tick(n) PROVE UnsyncedAt(m)'
  BY <1>7, <1>9 DEF tick, boardVars
<1>10. ASSUME NEW n \in Nodes, stop(n) PROVE UnsyncedAt(m)'
  BY <1>8, <1>10 DEF stop
<1>11. ASSUME NEW n \in Nodes, start(n) PROVE UnsyncedAt(m)'
  <2>1. /\ docs' = [docs EXCEPT ![n] = {}] /\ docs[n] = {}
        /\ UNCHANGED <<heard, synced>>
    BY <1>11 DEF start, NewBoard, loadPersistedState, GossipInv
  <2>2. docs'[m] = docs[m]
    BY <1>1, <2>1
  <2>3. QED
    BY <1>4, <1>6, <2>1, <2>2
<1>12. ASSUME NEW n \in Nodes, NEW v \in Metrics, tickEnds(n, v) PROVE UnsyncedAt(m)'
  <2>1. up[n] /\ submit(n, n, Blank) /\ UNCHANGED <<heard, synced>>
    BY <1>12 DEF tickEnds, runExperiment
  <2>2. /\ Row(docs'[n], n) = IF NewBest(Row(docs[n], n), Blank) THEN Blank ELSE Row(docs[n], n)
        /\ \A p : p # n => Row(docs'[n], p) = Row(docs[n], p)
        /\ \A k \in Nodes \ {n} : docs'[k] = docs[k]
    BY <1>1, <2>1, SubmittedRow
  <2>3. CASE m = n
    <3>1. UnsyncedAt(n)
      BY <1>6, <2>1, <2>3
    <3>2. QED
      BY <1>3, <2>1, <2>2, <2>3, <3>1 DEF UnsyncedAt
  <2>4. CASE m # n
    BY <1>4, <1>6, <2>1, <2>2, <2>4
  <2>5. QED
    BY <2>3, <2>4
<1>13. ASSUME NEW n \in Nodes, NEW v \in Metrics, broadcastResult(n, v) PROVE UnsyncedAt(m)'
  BY <1>7, <1>13 DEF broadcastResult, boardVars
<1>14. ASSUME NEW n \in Nodes, NEW v \in Metrics, stopInSave(n, v) PROVE UnsyncedAt(m)'
  BY <1>8, <1>14 DEF stopInSave
<1>15. ASSUME NEW n \in Nodes, NEW msg \in gossip, handleGossip(n, msg) PROVE UnsyncedAt(m)'
  <2> DEFINE peer == msg.peer
             v == Field(msg.metric)
  <2>1. /\ up[n] /\ peer # n /\ submit(n, peer, v) /\ synced' = synced
        /\ heard' = [heard EXCEPT ![n][peer] = @ \cup {v}]
    BY <1>15 DEF handleGossip
  <2>2. peer \in Nodes /\ v \in Values
    BY DEF RowsInv, GossipInv, Field, Values
  <2> HIDE DEF peer, v
  <2>3. /\ Row(docs'[n], peer) = IF NewBest(Row(docs[n], peer), v) THEN v ELSE Row(docs[n], peer)
        /\ \A p : p # peer => Row(docs'[n], p) = Row(docs[n], p)
        /\ \A k \in Nodes \ {n} : docs'[k] = docs[k]
    BY <1>1, <2>1, SubmittedRow
  <2>4. /\ heard'[n][peer] = heard[n][peer] \cup {v}
        /\ \A p \in Nodes \ {peer} : heard'[n][p] = heard[n][p]
        /\ \A k \in Nodes \ {n} : heard'[k] = heard[k]
    BY <1>1, <2>1, <2>2
  <2>5. CASE m = n
    <3>1. UnsyncedAt(n)
      BY <1>6, <2>1, <2>5
    <3>2. BestHeard(Row(docs'[n], peer), heard'[n][peer])
      <4>1. heard[n][peer] \in SUBSET Values /\ BestHeard(Row(docs[n], peer), heard[n][peer])
        BY <1>1, <2>1, <2>2, <3>1 DEF UnsyncedAt
      <4>2. BestHeard(IF NewBest(Row(docs[n], peer), v) THEN v ELSE Row(docs[n], peer),
                      heard[n][peer] \cup {v})
        BY <1>1, <2>2, <4>1, BestHeardMore
      <4>3. QED
        BY <2>3, <2>4, <4>2
    <3>3. Row(docs'[n], n) \in {Absent, Blank}
      BY <2>1, <2>3, <3>1 DEF UnsyncedAt
    <3>4. \A p \in Nodes \ {n} : BestHeard(Row(docs'[n], p), heard'[n][p])
      BY <2>3, <2>4, <3>1, <3>2 DEF UnsyncedAt
    <3>5. QED
      BY <1>3, <2>5, <3>3, <3>4 DEF UnsyncedAt
  <2>6. CASE m # n
    BY <1>4, <1>6, <2>1, <2>3, <2>4, <2>6
  <2>7. QED
    BY <2>5, <2>6
<1>16. ASSUME NEW c \in Syncers, syncLeaderboards(c) \/ loseUpdate(c) PROVE UnsyncedAt(m)'
  BY <1>7, <1>16 DEF syncLeaderboards, loseUpdate, boardVars
<1>17. ASSUME NEW n \in Nodes, NEW c \in Syncers, receiveUpdate(n, c) PROVE UnsyncedAt(m)'
  <2>1. /\ docs' = [docs EXCEPT ![n] = docs[n] \cup wire[c]]
        /\ synced' = [synced EXCEPT ![n] = TRUE] /\ heard' = heard
    BY <1>17 DEF receiveUpdate, applyUpdate
  <2>2. m # n /\ docs'[m] = docs[m] /\ synced'[m] = synced[m]
    BY <1>1, <2>1
  <2>3. QED
    BY <1>4, <1>6, <2>1, <2>2
<1>18. CASE UNCHANGED vars
  BY <1>7, <1>18 DEF vars, boardVars, brainVars
<1>19. QED
  BY <1>9, <1>10, <1>11, <1>12, <1>13, <1>14, <1>15, <1>16, <1>17, <1>18
  DEF Next, simulateExperiment

\* The order of getTop on metrics and Blank: total and transitive, Blank last.
LEMMA AboveOrder ==
    ASSUME direction \in {"asc", "desc"}
    PROVE  /\ \A x, y \in Nat : Above(x, y) \/ Above(y, x)
           /\ \A x, y, z \in Nat : Above(x, y) /\ Above(y, z) => Above(x, z)
           /\ \A x \in Nat : Above(Blank, x) => x = Blank
  BY DEF Above, Blank

\* The rows of an unsynced board are those of the peers heard of, and Blank ones.
LEMMA UnsyncedRows ==
    ASSUME RowsInv, GossipInv, PathInv, NEW n \in Nodes, UnsyncedAt(n), NEW p \in Nodes
    PROVE  /\ p \in Peers(docs[n]) => Row(docs[n], p) \in Nat
           /\ p \in Peers(docs[n]) /\ p # n => Row(docs[n], p) \in heard[n][p]
           /\ p \in Peers(docs[n]) /\ p = n => Row(docs[n], p) = Blank
           /\ heard[n][p] # {} => p \in Peers(docs[n])
<1>1. Document(docs[n]) /\ heard[n][n] = {}
  BY Documents DEF GossipInv
<1>2. ASSUME p \in Peers(docs[n]) PROVE Row(docs[n], p) \in Nat
  <2>1. Writes(docs[n], p) # {}
    BY <1>2 DEF Peers, Writes
  <2>2. Current(docs[n], p) \in docs[n]
    BY <1>1, <2>1, CurrentIsLast DEF Writes
  <2>3. Current(docs[n], p).metric \in Metrics \cup {Blank}
    BY <2>2 DEF RowsInv, Sound, GossipInv
  <2>4. Row(docs[n], p) = Current(docs[n], p).metric
    BY <2>1 DEF Row
  <2>5. QED
    BY <2>3, <2>4, MetricsPositive DEF Blank
<1>3. ASSUME p \in Peers(docs[n]), p # n PROVE Row(docs[n], p) \in heard[n][p]
  BY <1>2, <1>3 DEF UnsyncedAt, BestHeard, Absent
<1>4. ASSUME p \in Peers(docs[n]), p = n PROVE Row(docs[n], p) = Blank
  BY <1>2, <1>4 DEF UnsyncedAt, Absent
<1>5. ASSUME heard[n][p] # {} PROVE p \in Peers(docs[n])
  <2>1. p # n
    BY <1>1, <1>5
  <2>2. Row(docs[n], p) \in heard[n][p] /\ heard[n][p] \subseteq Values
    BY <1>5, <2>1 DEF UnsyncedAt, BestHeard, GossipInv
  <2>3. Row(docs[n], p) # Absent
    BY <2>2, MetricsPositive DEF Values, Absent, Blank
  <2>4. Writes(docs[n], p) # {}
    BY <2>3 DEF Row
  <2>5. QED
    BY <2>4 DEF Writes, Peers
<1>6. QED
  BY <1>2, <1>3, <1>4, <1>5

LEMMA UnsyncedTop ==
    ASSUME RowsInv, GossipInv, PathInv, NEW n \in Nodes, UnsyncedAt(n),
           UNION {heard[n][p] : p \in Nodes} # {}
    PROVE  BestHeard(getGlobalBest(n), UNION {heard[n][p] : p \in Nodes})
<1> DEFINE all == UNION {heard[n][p] : p \in Nodes}
           peers == Peers(docs[n])
           row(p) == Row(docs[n], p)
           top == getGlobalBest(n)
<1>1. \A p \in Nodes : \A v \in heard[n][p] : v \in all
  <2> SUFFICES ASSUME NEW p \in Nodes, NEW v \in heard[n][p] PROVE v \in all
    OBVIOUS
  <2>1. heard[n][p] \in {heard[n][q] : q \in Nodes}
    OBVIOUS
  <2>2. QED
    BY <2>1, Zenon
<1>2. \A v \in all : \E p \in Nodes : v \in heard[n][p]
  OBVIOUS
<1>3. all # {}
  OBVIOUS
<1> HIDE DEF all
<1>4. \A p \in Nodes : /\ p \in peers => row(p) \in Nat
                       /\ p \in peers /\ p # n => row(p) \in heard[n][p]
                       /\ p \in peers /\ p = n => row(p) = Blank
                       /\ heard[n][p] # {} => p \in peers
  BY UnsyncedRows
<1>5. \A p \in Nodes : \A v \in heard[n][p] : v \in Nat /\ p # n /\ Above(row(p), v)
  <2> SUFFICES ASSUME NEW p \in Nodes, NEW v \in heard[n][p]
               PROVE  v \in Nat /\ p # n /\ Above(row(p), v)
    OBVIOUS
  <2>1. v \in Values /\ p # n
    BY DEF GossipInv
  <2>2. v \in Nat
    BY <2>1, MetricsPositive DEF Values, Blank
  <2>3. QED
    BY <2>1, <2>2 DEF UnsyncedAt, BestHeard
<1>6. peers \subseteq Nodes /\ IsFiniteSet(peers)
  <2>1. peers \subseteq Nodes
    BY DEF Peers, RowsInv, Sound
  <2>2. QED
    BY <2>1, FS_Subset, ExperimentsAssumption DEF ExperimentsAssumption
<1>7. peers # {}
  BY <1>2, <1>3, <1>4
<1>8. /\ \A x, y \in Nat : Above(x, y) \/ Above(y, x)
      /\ \A x, y, z \in Nat : Above(x, y) /\ Above(y, z) => Above(x, z)
      /\ \A x \in Nat : Above(Blank, x) => x = Blank
  BY AboveOrder DEF GossipInv, getMetricDirection
<1>9. PICK p \in peers : \A q \in peers : Above(row(p), row(q))
  <2> DEFINE R == {pq \in peers \X peers : Above(row(pq[1]), row(pq[2]))}
  <2>1. \A x, y \in peers : <<x, y>> \in R <=> Above(row(x), row(y))
    OBVIOUS
  <2> HIDE DEF R, row, peers
  <2>2. \A x \in peers : row(x) \in Nat
    BY <1>4, <1>6
  <2>3. \A x, y \in peers : <<x, y>> \in R \/ <<y, x>> \in R
    BY <1>8, <2>1, <2>2
  <2>4. \A x, y, z \in peers : <<x, y>> \in R /\ <<y, z>> \in R => <<x, z>> \in R
    BY <1>8, <2>1, <2>2
  <2>5. \E x \in peers : \A y \in peers : <<x, y>> \in R
    BY <1>6, <1>7, <2>3, <2>4, GreatestExists
  <2>6. QED
    BY <2>1, <2>5
<1>10. \E q \in peers : top = row(q) /\ \A r \in peers : Above(top, row(r))
  <2> DEFINE rows == {row(q) : q \in peers}
  <2>1. row(p) \in rows /\ \A y \in rows : Above(row(p), y)
    BY <1>9
  <2>2. top = CHOOSE x \in rows : \A y \in rows : Above(x, y)
    BY <2>1 DEF getGlobalBest
  <2>3. top \in rows /\ \A y \in rows : Above(top, y)
    <3> HIDE DEF top, rows
    <3>1. QED
      BY <2>1, <2>2
  <2>4. QED
    BY <2>3
<1> HIDE DEF top, peers, row
<1>11. \A v \in all : Above(top, v)
  <2> SUFFICES ASSUME NEW v \in all PROVE Above(top, v)
    OBVIOUS
  <2>1. PICK q \in Nodes : v \in heard[n][q]
    BY <1>2
  <2>2. q \in peers /\ row(q) \in Nat /\ v \in Nat /\ Above(row(q), v)
    BY <1>4, <1>5, <2>1
  <2>3. top \in Nat /\ Above(top, row(q))
    BY <1>4, <1>6, <1>10, <2>2
  <2>4. QED
    BY <1>8, <2>2, <2>3
<1>12. top \in all
  <2>1. PICK q \in peers : top = row(q) /\ \A r \in peers : Above(top, row(r))
    BY <1>10
  <2>2. CASE q # n
    BY <1>1, <1>4, <1>6, <2>1, <2>2
  <2>3. CASE q = n
    <3>1. PICK v \in all : TRUE
      BY <1>3
    <3>2. PICK r \in Nodes : v \in heard[n][r]
      BY <1>2
    <3>3. r \in peers /\ r # n /\ row(r) \in heard[n][r] /\ row(r) \in Nat
      BY <1>4, <1>5, <3>2
    <3>4. top = Blank /\ row(r) = Blank
      BY <1>4, <1>6, <1>8, <2>1, <2>3, <3>3
    <3>5. QED
      BY <1>1, <3>3, <3>4
  <2>4. QED
    BY <2>2, <2>3
<1>13. QED
  BY <1>3, <1>11, <1>12 DEF BestHeard, all, top

\* UnsyncedKeepsBest, for any number of peers, results, repetitions and
\* orders of arrival.
THEOREM UnsyncedTheorem == Spec => []UnsyncedKeepsBest
<1>1. Init => UnsyncedInv
  BY EmptyRow DEF Init, BoardInit, UnsyncedInv, UnsyncedAt, BestHeard, Unheard
<1>2. TypeInv /\ RowsInv /\ GossipInv /\ PathInv /\ UnsyncedInv /\ [Next]_vars => UnsyncedInv'
  BY NextUnsynced
<1>3. RowsInv /\ GossipInv /\ PathInv /\ UnsyncedInv => UnsyncedKeepsBest
  BY UnsyncedTop DEF UnsyncedInv, UnsyncedAt, UnsyncedKeepsBest
<1>4. QED
  BY <1>1, <1>2, <1>3, GossipAlways, PathsAlways, PTL DEF Spec

=============================================================================
