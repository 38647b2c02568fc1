----------------------------- MODULE MCPipeline -----------------------------
(***************************************************************************)
(* Small instances of Pipeline for TLC, beside MartsPublish: publishing is *)
(* the pipeline's last stage, of which Pipeline keeps only that it returns *)
(* or raises, so the marts stand still here, with no publisher at work.    *)
(***************************************************************************)
EXTENDS MCMartsPublish

CONSTANTS Executions, Sizes, Champions, Beats, Staged,
          MaxExecutions, MaxLost, MaxChanges

VARIABLES pinned, volume, alias, cache, executed, lost, changes, stage, input, pin,
          tries, passed

P == INSTANCE Pipeline WITH Generations <- Sizes, launches <- executed, faults <- lost,
                            MaxLaunches <- MaxExecutions, MaxFaults <- MaxLost

ASSUME ConstantsAssumption == P!PipelineAssumption

(* The second generation is smaller: a re-derived month lost rows.         *)
MCSizes == <<2, 1>>

(* The refit beats version 1 on the first data, version 2 on neither.      *)
MCBeats == {<<1, 1>>}

Beside(A) == A /\ UNCHANGED MCvars

BesideInit ==
    /\ P!Init
    /\ MCInit /\ together /\ live = [k \in Marts |-> NoTable]

BesideNext ==
    \/ \E g \in DOMAIN Sizes : Beside(P!MakeData(g))
    \/ \E force \in BOOLEAN : Beside(P!StageData(force))
    \/ \E v \in Champions : Beside(P!MoveAlias(v))
    \/ \E e \in Executions :
          \/ \E selected \in {"full", "sampled"}, judge \in BOOLEAN :
                Beside(P!Launch(e, selected, judge))
          \/ \E s \in P!Cached : Beside(P!Hit(e, s))
          \/ Beside(P!Ingest(e)) \/ Beside(P!Validate(e)) \/ Beside(P!BuildFeatures(e))
          \/ Beside(P!Train(e)) \/ Beside(P!Report(e)) \/ Beside(P!Evaluate(e))
          \/ Beside(P!Register(e)) \/ Beside(P!Publish(e)) \/ Beside(P!Lose(e))

pipeline == P!vars
beside == <<pipeline, MCvars>>

(* The fairness of Pipeline.FairSpec.                                      *)
BesideSpec ==
    /\ BesideInit /\ [][BesideNext]_beside
    /\ \A e \in Executions : WF_pipeline(P!Step(e))

(* Pipeline's properties.                                                  *)
ExecutionsAreSound == P!ExecutionsAreSound
VerdictIsEntitled == P!VerdictIsEntitled
EveryRunReports == P!EveryRunReports
=============================================================================
