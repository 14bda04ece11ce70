-------------------------- MODULE ResearchPipeline --------------------------
(***************************************************************************)
(* The ResearchPipeline of one project on every node                       *)
(* (src/research/pipeline.js): the run counter, the best result, and the   *)
(* files under agents/<peerId>.                                            *)
(*                                                                         *)
(* A run awaits its training; what comes after the await, up to the end of *)
(* saveResult, is one step, unless the process stops in one of its two     *)
(* writes.  writeFileSync truncates a file before it fills it, so a stop   *)
(* in it leaves a torn file: a torn run file is counted at the next start, *)
(* a torn best.json is ignored.  Writes do not fail otherwise.             *)
(*                                                                         *)
(* A result is its metric, a positive integer.  Hypotheses are left out:   *)
(* every project has a baseline config, so that there always is one, and   *)
(* the metric of a run may be any.  The papers have no effect.             *)
(***************************************************************************)
EXTENDS Experiments

CONSTANT Projects   \* the projects, of which one is run

VARIABLES
    project,        \* the project
    up,             \* up[n]: the process of n runs
    runNumber,      \* this.runNumber
    bestResult,     \* this.bestResult
    training,       \* the number of runs that await simulateExperiment
    runFiles,       \* the numbers of the run files, whole or torn
    bestFile,       \* best.json
    saves,          \* history: the number of run files begun
    saved,          \* history: the results that have been in a whole run file
    lost,           \* history: those of them that a stop has kept out of
                    \* best.json, or torn it with
    overlapped      \* history: two runs were in training at once

saveVars == <<runFiles, bestFile, saves, saved, lost>>
pipelineVars == <<project, up, runNumber, bestResult, training, saveVars, overlapped>>

NoResult == 0   \* null, or no best.json
Torn == -1      \* a best.json that cannot be parsed

getMetricDirection ==
    IF project \in {"gpt2-tinystories", "astrophysics"} THEN "asc" ELSE "desc"

Better(new, old) ==
    \/ old = NoResult
    \/ IF getMetricDirection = "asc" THEN new < old ELSE new > old

PipelineInit ==
    /\ project \in Projects
    /\ up = [n \in Nodes |-> FALSE]
    /\ runNumber = [n \in Nodes |-> 0]
    /\ bestResult = [n \in Nodes |-> NoResult]
    /\ training = [n \in Nodes |-> 0]
    /\ runFiles = [n \in Nodes |-> {}]
    /\ bestFile = [n \in Nodes |-> NoResult]
    /\ saves = [n \in Nodes |-> 0]
    /\ saved = [n \in Nodes |-> {}]
    /\ lost = [n \in Nodes |-> {}]
    /\ overlapped = [n \in Nodes |-> FALSE]

\* The training is simulated: whatever the config, its noise leaves the metric open.
simulateExperiment == Metrics

\* runCycle, up to the await of simulateExperiment.
runCycle(n) ==
    /\ up[n]
    /\ runNumber' = [runNumber EXCEPT ![n] = @ + 1]
    /\ training' = [training EXCEPT ![n] = @ + 1]
    /\ overlapped' = [overlapped EXCEPT ![n] = @ \/ training[n] > 0]
    /\ UNCHANGED <<project, up, bestResult, saveVars>>

\* The rest of runExperiment, for a training that gave v.
runExperiment(n, v) ==
    /\ up[n]
    /\ training[n] > 0
    /\ training' = [training EXCEPT ![n] = @ - 1]
    /\ bestResult' = [bestResult EXCEPT ![n] = IF Better(v, @) THEN v ELSE @]
    /\ runFiles' = [runFiles EXCEPT ![n] = @ \cup {runNumber[n]}]
    /\ bestFile' = [bestFile EXCEPT ![n] = IF Better(v, bestResult[n]) THEN v ELSE @]
    /\ saves' = [saves EXCEPT ![n] = @ + 1]
    /\ saved' = [saved EXCEPT ![n] = @ \cup {v}]
    /\ lost' = [lost EXCEPT ![n] = @ \ {v}]
    /\ UNCHANGED <<project, up, runNumber, overlapped>>

\* The process stops: its memory is gone.
Stop(n) ==
    /\ up[n]
    /\ up' = [up EXCEPT ![n] = FALSE]
    /\ runNumber' = [runNumber EXCEPT ![n] = 0]
    /\ bestResult' = [bestResult EXCEPT ![n] = NoResult]
    /\ training' = [training EXCEPT ![n] = 0]
    /\ UNCHANGED <<project, overlapped>>

Crash(n) == Stop(n) /\ UNCHANGED saveVars

\* It stops in the write of the run file.
CrashInRunFile == UNCHANGED <<bestFile, saved, lost>>

\* It stops after that write: a new best is in its run file only.
CrashBetween(n, v) ==
    /\ saved' = [saved EXCEPT ![n] = @ \cup {v}]
    /\ lost' = [lost EXCEPT ![n] = IF Better(v, bestResult[n]) THEN @ \cup {v} ELSE @ \ {v}]
    /\ UNCHANGED bestFile

\* It stops in the write of best.json, with which the best before is gone too.
CrashInBest(n, v) ==
    /\ Better(v, bestResult[n])
    /\ bestFile' = [bestFile EXCEPT ![n] = Torn]
    /\ saved' = [saved EXCEPT ![n] = @ \cup {v}]
    /\ lost' = [lost EXCEPT ![n] = saved[n] \cup {v}]

\* It stops in saveResult.
CrashInSave(n, v) ==
    /\ training[n] > 0
    /\ Stop(n)
    /\ runFiles' = [runFiles EXCEPT ![n] = @ \cup {runNumber[n]}]
    /\ saves' = [saves EXCEPT ![n] = @ + 1]
    /\ CrashInRunFile \/ CrashBetween(n, v) \/ CrashInBest(n, v)

\* Mutation of loadPersistedState: the counter resumes one too low.
loadPersistedState_OneLess(n) ==
    /\ ~up[n]
    /\ up' = [up EXCEPT ![n] = TRUE]
    /\ bestResult' = [bestResult EXCEPT ![n] =
                        IF bestFile[n] = Torn THEN NoResult ELSE bestFile[n]]
    /\ runNumber' = [runNumber EXCEPT ![n] =
                       IF runFiles[n] = {} THEN 0 ELSE Cardinality(runFiles[n]) - 1]
    /\ UNCHANGED <<project, training, saveVars, overlapped>>

\* Mutation of loadPersistedState: best.json is not read.
loadPersistedState_NoBest(n) ==
    /\ ~up[n]
    /\ up' = [up EXCEPT ![n] = TRUE]
    /\ runNumber' = [runNumber EXCEPT ![n] = Cardinality(runFiles[n])]
    /\ UNCHANGED <<project, bestResult, training, saveVars, overlapped>>

loadPersistedState(n) ==
    /\ ~up[n]
    /\ up' = [up EXCEPT ![n] = TRUE]
    /\ bestResult' = [bestResult EXCEPT ![n] =
                        IF bestFile[n] = Torn THEN NoResult ELSE bestFile[n]]
    /\ runNumber' = [runNumber EXCEPT ![n] = Cardinality(runFiles[n])]
    /\ UNCHANGED <<project, training, saveVars, overlapped>>

PipelineNext ==
    \E n \in Nodes :
        \/ runCycle(n)
        \/ Crash(n)
        \/ loadPersistedState(n)
        \/ \E v \in simulateExperiment : runExperiment(n, v) \/ CrashInSave(n, v)

PipelineSpec == PipelineInit /\ [][PipelineNext]_pipelineVars

(***************************************************************************)
(* Properties.                                                             *)
(***************************************************************************)
\* Types of the state.
PipelineTypeOK ==
    /\ project \in Projects
    /\ up \in [Nodes -> BOOLEAN]
    /\ runNumber \in [Nodes -> Nat]
    /\ bestResult \in [Nodes -> Metrics \cup {NoResult}]
    /\ training \in [Nodes -> Nat]
    /\ runFiles \in [Nodes -> SUBSET (Nat \ {0})]
    /\ bestFile \in [Nodes -> Metrics \cup {NoResult, Torn}]
    /\ saves \in [Nodes -> Nat]
    /\ saved \in [Nodes -> SUBSET Metrics]
    /\ lost \in [Nodes -> SUBSET Metrics]
    /\ overlapped \in [Nodes -> BOOLEAN]

IsBest(b, results) ==
    IF results = {} THEN b = NoResult
    ELSE b \in results /\ \A v \in results : ~ Better(v, b)

\* Whatever runs overlap and wherever the process stops and starts again,
\* best.json holds the best of all results that were ever in a run file, and
\* a running node has that one in memory; but for a result whose own save was
\* stopped between its two writes, which no later start finds, and, once a
\* write of best.json was torn, for all results until then (saveResult,
\* loadPersistedState, the comparison after the await in runExperiment).
BestSurvives ==
    \A n \in Nodes :
        LET results == saved[n] \ lost[n] IN
        /\ \/ IsBest(bestFile[n], results)
           \/ bestFile[n] = Torn /\ results = {}
        /\ up[n] => IsBest(bestResult[n], results)

\* As long as no two runs of a node were in training at once, no run writes
\* the file of another, even though the counter is only the number of files
\* found at the last start (runNumber++, saveResult, loadPersistedState).
RunsKeepTheirFiles ==
    \A n \in Nodes : ~overlapped[n] => Cardinality(runFiles[n]) = saves[n]

=============================================================================
