------------------------------ MODULE Serving ------------------------------
(***************************************************************************)
(* What answers a quote, and the procedures that change it: the deployment *)
(* of the champion (scripts/deploy_champion.sh), the rollback rehearsal    *)
(* (scripts/alias_rollback_rehearsal.py) and the canary release drill      *)
(* (scripts/canary_release_drill.py).                                      *)
(*                                                                         *)
(* A rollback is three moves: the alias, the line of configs/train.yaml    *)
(* that names the clients' feature set, and the deployment.  A model's     *)
(* signature refuses the matrix of another feature set.                    *)
(***************************************************************************)
EXTENDS Naturals

CONSTANTS
    Versions,       \* of the registered model
    FeatureSet,     \* the tag feature_set of a version
    StartVersion, TargetVersion,   \* START_VERSION, TARGET_VERSION
    MaxMoves, MaxFaults, MaxServes, MaxDrills   \* bounds

\* Of the constants; the module that gives them values assumes it.
ServingAssumption ==
    /\ {StartVersion, TargetVersion} \subseteq Versions
    /\ DOMAIN FeatureSet = Versions
    /\ FeatureSet[StartVersion] # FeatureSet[TargetVersion]
    /\ {MaxMoves, MaxFaults, MaxServes, MaxDrills} \subseteq Nat

VARIABLES
    alias,      \* what @champion points at
    config,     \* features.version in configs/train.yaml
    pod,        \* the version the predictor pod answers with
    weight,     \* of the canary in the router, in percent
    deploy,     \* `make serve`: [at, before, resolved, moved]
    rehearsal,  \* [at, leg, recorded, raised]
    canary,     \* the canary drill: what it does next, or how it ended
    moves, faults, serves, drills

world == <<alias, config, pod, weight>>
procs == <<deploy, rehearsal, canary>>
counters == <<moves, faults, serves, drills>>
vars == <<world, procs, counters>>

Start == FeatureSet[StartVersion]

Init ==
    /\ alias = StartVersion /\ config = Start /\ pod = StartVersion /\ weight = 0
    /\ deploy = [at |-> "idle", before |-> alias, resolved |-> alias, moved |-> 0]
    /\ rehearsal = [at |-> "idle", leg |-> 1, recorded |-> FALSE, raised |-> FALSE]
    /\ canary = "idle"
    /\ moves = 0 /\ faults = 0 /\ serves = 0 /\ drills = 0

(* Who may answer a quote: the canary serves the start version's bytes.    *)
Answerers == {v \in Versions : \/ v = pod /\ weight < 100
                               \/ v = StartVersion /\ weight > 0}
Answers(v) == FeatureSet[v] = config

Fault == faults < MaxFaults /\ faults' = faults + 1

(* The alias moves, and a deployment under way counts it.                  *)
SetAlias(v) ==
    /\ alias' = v
    /\ deploy' = [deploy EXCEPT !.moved = IF v = alias THEN @ ELSE @ + 1]

-----------------------------------------------------------------------------
(* `make serve`.  The rehearsal runs it, or an operator does.              *)

DeployIdle == deploy.at \in {"idle", "ok", "failed"}

BeginServe ==
    deploy' = [at |-> "resolve", before |-> alias, resolved |-> alias, moved |-> 0]

OperatorServes ==
    /\ DeployIdle /\ rehearsal.at \in {"idle", "raised", "killed", "done"}
    /\ serves < MaxServes /\ serves' = serves + 1
    /\ BeginServe
    /\ UNCHANGED <<world, rehearsal, canary, moves, faults, drills>>

Resolve ==
    /\ deploy.at = "resolve"
    /\ deploy' = [deploy EXCEPT !.resolved = alias, !.at = "apply"]
    /\ UNCHANGED <<world, rehearsal, canary, counters>>

(* The new pod takes over once it is ready.                                *)
Apply ==
    /\ deploy.at = "apply"
    /\ pod' = deploy.resolved
    /\ deploy' = [deploy EXCEPT !.at = "quote"]
    /\ UNCHANGED <<alias, config, weight, rehearsal, canary, counters>>

(* Faulty variant: the alias is not read again at the end.                 *)
ReadBackOnce ==
    /\ deploy.at = "quote"
    /\ \E v \in Answerers :
          deploy' = [deploy EXCEPT !.at = IF Answers(v) THEN "ok" ELSE "failed"]
    /\ UNCHANGED <<world, rehearsal, canary, counters>>

(* Read back: a real quote over the route, and the alias as it was.        *)
ReadBack ==
    /\ deploy.at = "quote"
    /\ \E v \in Answerers :
          deploy' = [deploy EXCEPT !.at =
              IF Answers(v) /\ alias = deploy.before THEN "ok" ELSE "failed"]
    /\ UNCHANGED <<world, rehearsal, canary, counters>>

(* Helm, the registry, the download or the wait for the pod fails.         *)
ServeFails ==
    /\ deploy.at \in {"resolve", "apply", "quote"}
    /\ Fault
    /\ deploy' = [deploy EXCEPT !.at = "failed"]
    /\ UNCHANGED <<world, rehearsal, canary, moves, serves, drills>>

(* A promotion or a person moves the alias, within the feature set that    *)
(* the clients use.                                                        *)
MoveElsewhere(v) ==
    /\ rehearsal.at \in {"idle", "done"}
    /\ moves < MaxMoves /\ moves' = moves + 1
    /\ v # alias /\ FeatureSet[v] = config
    /\ SetAlias(v)
    /\ UNCHANGED <<config, pod, weight, rehearsal, canary,
                   faults, serves, drills>>

-----------------------------------------------------------------------------
(* The rehearsal: leg 1 rolls back, the gate runs, and a `finally` rolls   *)
(* forward.                                                                *)

To(leg) == IF leg = 1 THEN TargetVersion ELSE StartVersion

RehearsalAt(label) == rehearsal' = [rehearsal EXCEPT !.at = label]

(* It refuses to begin half-rolled-back.                                   *)
BeginRehearsal ==
    /\ rehearsal.at = "idle" /\ DeployIdle
    /\ alias = StartVersion /\ config = Start
    /\ rehearsal' = [at |-> "alias", leg |-> 1, recorded |-> FALSE, raised |-> FALSE]
    /\ UNCHANGED <<world, deploy, canary, counters>>

MoveAlias ==
    /\ rehearsal.at = "alias"
    /\ SetAlias(To(rehearsal.leg))
    /\ RehearsalAt("config")
    /\ UNCHANGED <<config, pod, weight, canary, counters>>

(* Faulty variant: the feature set is typed, not read from the registry.   *)
MoveConfigTyped ==
    /\ rehearsal.at = "config"
    /\ config' = Start
    /\ RehearsalAt("serve")
    /\ UNCHANGED <<alias, pod, weight, deploy, canary, counters>>

MoveConfig ==
    /\ rehearsal.at = "config"
    /\ config' = FeatureSet[To(rehearsal.leg)]
    /\ RehearsalAt("serve")
    /\ UNCHANGED <<alias, pod, weight, deploy, canary, counters>>

Serve ==
    /\ rehearsal.at = "serve" /\ DeployIdle
    /\ BeginServe
    /\ RehearsalAt("wait")
    /\ UNCHANGED <<world, canary, counters>>

(* A leg that raises goes to the `finally`, or out of it; only a leg that  *)
(* returned is in the record.                                              *)
Raised == [rehearsal EXCEPT !.raised = TRUE,
                            !.at = IF @ = "gate" \/ rehearsal.leg = 1 THEN "finally"
                                                                    ELSE "raised"]

Waited ==
    /\ rehearsal.at = "wait" /\ deploy.at \in {"ok", "failed"}
    /\ rehearsal' =
          IF deploy.at = "failed" THEN Raised
          ELSE IF rehearsal.leg = 1 THEN [rehearsal EXCEPT !.recorded = TRUE, !.at = "gate"]
          ELSE [rehearsal EXCEPT !.at = IF rehearsal.raised THEN "raised" ELSE "done"]
    /\ UNCHANGED <<world, deploy, canary, counters>>

Gate ==
    /\ rehearsal.at = "gate"
    /\ RehearsalAt("finally")
    /\ UNCHANGED <<world, deploy, canary, counters>>

(* Leg 2 is told the feature set leg 1 left, which only a leg that         *)
(* returned wrote down: without it, a KeyError.                            *)
Finally ==
    /\ rehearsal.at = "finally"
    /\ rehearsal' =
          IF config # Start \/ alias # StartVersion
          THEN IF rehearsal.recorded THEN [rehearsal EXCEPT !.leg = 2, !.at = "alias"]
                                     ELSE [rehearsal EXCEPT !.at = "raised"]
          ELSE [rehearsal EXCEPT !.at = "raised"]   \* there is no leg 2 to judge
    /\ UNCHANGED <<world, deploy, canary, counters>>

(* A call to the registry fails, before or after what it does; the gate    *)
(* times out.                                                              *)
RehearsalFails ==
    /\ \/ rehearsal.at = "alias" /\ \/ UNCHANGED <<alias, deploy>>
                                    \/ SetAlias(To(rehearsal.leg))
       \/ rehearsal.at \in {"config", "gate"} /\ UNCHANGED <<alias, deploy>>
    /\ Fault
    /\ rehearsal' = Raised
    /\ UNCHANGED <<config, pod, weight, canary, moves, serves, drills>>

KillRehearsal ==
    /\ rehearsal.at \notin {"idle", "raised", "killed", "done"}
    /\ Fault
    /\ RehearsalAt("killed")
    /\ UNCHANGED <<world, deploy, canary, moves, serves, drills>>

-----------------------------------------------------------------------------
(* The canary drill: baseline, 10 %, 100 %, revert, under one load.        *)

Windows == {"baseline", "w10", "w100", "reverted"}

BeginCanary ==
    /\ canary \in {"idle", "done", "raised"}
    /\ drills < MaxDrills /\ drills' = drills + 1
    /\ canary' = "baseline"
    /\ UNCHANGED <<world, deploy, rehearsal, moves, faults, serves>>

(* apply_weight waits until the router itself reports the weight; the      *)
(* revert deletes the route, and the `finally` does so again.              *)
NextWindow ==
    /\ \/ canary = "baseline" /\ weight' = 10 /\ canary' = "w10"
       \/ canary = "w10" /\ weight' = 100 /\ canary' = "w100"
       \/ canary = "w100" /\ weight' = 0 /\ canary' = "reverted"
       \/ canary = "reverted" /\ weight' = 0 /\ canary' = "done"
    /\ UNCHANGED <<alias, config, pod, deploy, rehearsal, counters>>

(* The weight does not register, or an owner takes it away: the drill      *)
(* raises, and the `finally` removes the route.                            *)
CanaryFails ==
    /\ canary \in Windows
    /\ Fault
    /\ weight' = 0
    /\ canary' = "raised"
    /\ UNCHANGED <<alias, config, pod, deploy, rehearsal,
                   moves, serves, drills>>

-----------------------------------------------------------------------------
DeployStep == Resolve \/ Apply \/ ReadBack
RehearsalStep ==
    MoveAlias \/ MoveConfig \/ Serve \/ Waited \/ Gate \/ Finally

Next ==
    \/ OperatorServes \/ DeployStep \/ ServeFails
    \/ \E v \in Versions : MoveElsewhere(v)
    \/ BeginRehearsal \/ RehearsalStep \/ RehearsalFails \/ KillRehearsal
    \/ BeginCanary \/ NextWindow \/ CanaryFails

Spec == Init /\ [][Next]_vars

(* A deployment, a rehearsal and a drill that were started go on.          *)
FairSpec ==
    Spec /\ WF_vars(DeployStep) /\ WF_vars(RehearsalStep) /\ WF_vars(NextWindow)

-----------------------------------------------------------------------------
RehearsalLabels == {"idle", "alias", "config", "serve", "wait", "gate", "finally",
                    "raised", "killed", "done"}

TypeOK ==
    /\ {alias, pod} \subseteq Versions
    /\ config \in {FeatureSet[v] : v \in Versions}
    /\ weight \in {0, 10, 100}
    /\ deploy \in [at : {"idle", "resolve", "apply", "quote", "ok", "failed"},
                   before : Versions, resolved : Versions, moved : Nat]
    /\ rehearsal \in [at : RehearsalLabels, leg : {1, 2},
                      recorded : BOOLEAN, raised : BOOLEAN]
    /\ canary \in Windows \cup {"idle", "done", "raised"}
    /\ {moves, faults, serves, drills} \subseteq Nat

(* "the same version this script read before it started": a deployment     *)
(* that exits 0 left the pod on the champion, unless the alias moved away  *)
(* and back while it ran.                                                  *)
ServeTellsTheTruth ==
    [][deploy.at = "quote" /\ deploy'.at = "ok" /\ deploy.moved < 2
          => pod = alias]_vars

(* With nothing failing, the clients, the alias' feature set and the pod   *)
(* agree whenever no rehearsal or deployment is under way: every quote is  *)
(* answered, except by a canary that serves other bytes.                   *)
CoherentAtRest ==
    faults = 0 /\ DeployIdle /\ rehearsal.at \in {"idle", "raised", "done"} =>
        FeatureSet[pod] = config /\ FeatureSet[alias] = config

ServingIsSound == TypeOK /\ CoherentAtRest

(* A rehearsal in which nothing fails, beside no canary, ends where it     *)
(* started.                                                                *)
RehearsalReturns ==
    rehearsal.at = "alias"
        ~> \/ rehearsal.at = "done" /\ alias = StartVersion /\ config = Start
              /\ pod = StartVersion
           \/ faults + drills > 0

(* "this ends where it started, whatever happened above": unless it is     *)
(* killed, or the last leg itself fails, a rehearsal ends on the version   *)
(* and the feature set it began with.                                      *)
RehearsalRestores ==
    rehearsal.at \in {"done", "raised"} /\ rehearsal.leg = 1 =>
        alias = StartVersion /\ config = Start
=============================================================================
