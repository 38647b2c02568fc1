---------------------------- MODULE ServingProofs ----------------------------
(***************************************************************************)
(* Proofs about Serving, for every set of versions, every assignment of    *)
(* feature sets to them, and every number of moves, faults, deployments    *)
(* and drills; and about StoreWatch, for every number of events and all    *)
(* the `for`s of the rules that the drill's waits outlast: the answers of  *)
(* the transformer, and the verdict of the drill that breaks the store.    *)
(* Serving is here as MCServingPath instantiates it.                       *)
(***************************************************************************)
EXTENDS MCServingPath, FiniteSetTheorems, TLAPS

Labels == {"idle", "resolve", "apply", "quote", "ok", "failed"}
Deploys == [at : Labels, before : Versions, resolved : Versions, moved : Nat]
Rehearsals == [at : S!RehearsalLabels, leg : {1, 2}, recorded : BOOLEAN, raised : BOOLEAN]

(* What a deployment under way knows of the alias: unmoved it is what was  *)
(* read first, and after one move it is not.                               *)
DeployKnows ==
    /\ deploy.at \in {"resolve", "apply", "quote"} =>
          /\ deploy.moved = 0 => alias = deploy.before
          /\ deploy.moved = 1 => alias # deploy.before
    /\ deploy.at \in {"apply", "quote"} /\ deploy.moved = 0 =>
          deploy.resolved = deploy.before
    /\ deploy.at = "quote" => pod = deploy.resolved

(* While nothing has failed: outside a rehearsal the clients' feature set  *)
(* is that of the alias, of the pod and of what a deployment is bringing;  *)
(* inside one, the leg's moves are made in their order, and the deployment *)
(* it waits for brings the version it moved to.                            *)
OutsideRehearsal ==
    rehearsal.at \in {"idle", "raised", "done", "gate", "finally"} =>
        /\ FeatureSet[alias] = config /\ FeatureSet[pod] = config
        /\ deploy.at \in {"apply", "quote"} => FeatureSet[deploy.resolved] = config
InsideLeg ==
    /\ rehearsal.at \in {"config", "serve", "wait"} => alias = S!To(rehearsal.leg)
    /\ rehearsal.at \in {"serve", "wait"} => config = FeatureSet[alias]
    /\ rehearsal.at \in {"alias", "config", "serve", "gate", "finally"} => S!DeployIdle
    /\ rehearsal.at = "wait" =>
          /\ deploy.at # "idle"
          /\ deploy.at # "resolve" => deploy.resolved = alias
          /\ deploy.at \in {"quote", "ok", "failed"} => pod = deploy.resolved
Unfailed == faults = 0 => rehearsal.at # "killed" /\ OutsideRehearsal /\ InsideLeg

SInv == S!TypeOK /\ DeployKnows /\ Unfailed

LEMMA InitServing ==
    ASSUME S!ServingAssumption, S!Init
    PROVE  SInv
  <1>1. S!TypeOK
    BY DEF S!ServingAssumption, S!Init, S!Start, S!TypeOK, S!RehearsalLabels, S!Windows
  <1>2. DeployKnows
    BY DEF S!Init, DeployKnows
  <1>3. Unfailed
    BY DEF S!Init, S!Start, Unfailed, OutsideRehearsal, InsideLeg, S!DeployIdle
  <1>. QED
    BY <1>1, <1>2, <1>3 DEF SInv

(* A counter that is spent is still a counter, and something has failed.   *)
LEMMA FaultCounts ==
    ASSUME S!TypeOK, S!Fault
    PROVE  faults' \in Nat /\ faults' # 0
  BY DEF S!TypeOK, S!Fault

(* A move of the alias keeps what a deployment knows of it.                *)
LEMMA AliasMoves ==
    ASSUME S!TypeOK, DeployKnows, NEW v \in Versions, S!SetAlias(v), UNCHANGED pod
    PROVE  /\ DeployKnows' /\ alias' \in Versions /\ deploy' \in Deploys
           /\ alias' = v
           /\ deploy'.at = deploy.at /\ deploy'.resolved = deploy.resolved
  <1>1. deploy \in Deploys /\ alias \in Versions
    BY DEF S!TypeOK, Deploys, Labels
  <1>2. /\ alias' = v
        /\ deploy' = [deploy EXCEPT !.moved = IF v = alias THEN deploy.moved
                                                           ELSE deploy.moved + 1]
    BY DEF S!SetAlias
  <1>3. deploy' \in Deploys
    BY <1>1, <1>2 DEF Deploys
  <1>4. /\ deploy'.at = deploy.at /\ deploy'.resolved = deploy.resolved
        /\ deploy'.before = deploy.before
        /\ deploy'.moved = IF v = alias THEN deploy.moved ELSE deploy.moved + 1
    BY <1>1, <1>2 DEF Deploys
  <1>5. deploy.moved \in Nat
    BY <1>1 DEF Deploys
  <1>6. DeployKnows'
    BY <1>2, <1>4, <1>5 DEF DeployKnows
  <1>. QED
    BY <1>2, <1>3, <1>4, <1>6

-----------------------------------------------------------------------------
(* The deployment.                                                         *)

LEMMA ServeBegins ==
    ASSUME S!TypeOK, S!BeginServe, UNCHANGED <<alias, pod>>
    PROVE  /\ deploy' \in Deploys /\ DeployKnows'
           /\ deploy'.at = "resolve" /\ deploy'.moved = 0
  <1>1. deploy' = [at |-> "resolve", before |-> alias, resolved |-> alias, moved |-> 0]
    BY DEF S!BeginServe
  <1>. QED
    BY <1>1 DEF S!TypeOK, Deploys, Labels, DeployKnows

LEMMA DeploySteps ==
    ASSUME SInv, S!OperatorServes \/ S!DeployStep \/ S!ServeFails
    PROVE  SInv'
  <1>. USE DEF SInv
  <1>1. deploy \in Deploys
    BY DEF S!TypeOK, Deploys, Labels
  <1>2. CASE S!OperatorServes
    <2>1. UNCHANGED <<alias, pod, config, weight, rehearsal, canary, moves, faults, drills>>
          /\ S!BeginServe /\ serves' = serves + 1
          /\ rehearsal.at \in {"idle", "raised", "killed", "done"}
      BY <1>2 DEF S!OperatorServes, S!world
    <2>2. deploy' \in Deploys /\ DeployKnows' /\ deploy'.at = "resolve"
      BY <2>1, ServeBegins
    <2>3. S!TypeOK'
      BY <2>1, <2>2 DEF S!TypeOK, Deploys, Labels
    <2>4. Unfailed'
      BY <2>1, <2>2 DEF Unfailed, OutsideRehearsal, InsideLeg
    <2>. QED
      BY <2>2, <2>3, <2>4
  <1>3. CASE S!Resolve
    <2>1. /\ deploy.at = "resolve"
          /\ deploy' = [deploy EXCEPT !.resolved = alias, !.at = "apply"]
          /\ UNCHANGED <<S!world, rehearsal, canary, S!counters>>
      BY <1>3 DEF S!Resolve
    <2>2. /\ deploy'.at = "apply" /\ deploy'.resolved = alias
          /\ deploy'.before = deploy.before /\ deploy'.moved = deploy.moved
          /\ deploy' \in Deploys
      BY <1>1, <2>1 DEF Deploys, Labels, S!TypeOK
    <2>3. S!TypeOK'
      BY <2>1, <2>2 DEF S!TypeOK, Deploys, Labels, S!world, S!counters
    <2>4. DeployKnows'
      BY <2>1, <2>2 DEF DeployKnows, S!world
    <2>5. Unfailed'
      BY <2>1, <2>2 DEF Unfailed, OutsideRehearsal, InsideLeg, S!DeployIdle, S!world, S!counters
    <2>. QED
      BY <2>3, <2>4, <2>5
  <1>4. CASE S!Apply
    <2>1. /\ deploy.at = "apply" /\ pod' = deploy.resolved
          /\ deploy' = [deploy EXCEPT !.at = "quote"]
          /\ UNCHANGED <<alias, config, weight, rehearsal, canary, S!counters>>
      BY <1>4 DEF S!Apply
    <2>2. /\ deploy'.at = "quote" /\ deploy'.resolved = deploy.resolved
          /\ deploy'.before = deploy.before /\ deploy'.moved = deploy.moved
          /\ deploy' \in Deploys /\ pod' \in Versions
      BY <1>1, <2>1 DEF Deploys, Labels
    <2>3. S!TypeOK'
      BY <2>1, <2>2 DEF S!TypeOK, Deploys, Labels, S!counters
    <2>4. DeployKnows'
      BY <2>1, <2>2 DEF DeployKnows
    <2>5. Unfailed'
      BY <2>1, <2>2 DEF Unfailed, OutsideRehearsal, InsideLeg, S!DeployIdle, S!counters
    <2>. QED
      BY <2>3, <2>4, <2>5
  <1>5. CASE S!ReadBack
    <2>1. PICK label \in {"ok", "failed"} :
             /\ deploy.at = "quote" /\ deploy' = [deploy EXCEPT !.at = label]
             /\ UNCHANGED <<S!world, rehearsal, canary, S!counters>>
      BY <1>5 DEF S!ReadBack
    <2>2. /\ deploy'.at = label /\ deploy'.resolved = deploy.resolved /\ deploy' \in Deploys
      BY <1>1, <2>1 DEF Deploys, Labels
    <2>3. S!TypeOK'
      BY <2>1, <2>2 DEF S!TypeOK, Deploys, Labels, S!world, S!counters
    <2>4. DeployKnows'
      BY <2>2 DEF DeployKnows
    <2>5. Unfailed'
      BY <2>1, <2>2 DEF Unfailed, OutsideRehearsal, InsideLeg, S!DeployIdle, DeployKnows,
                        S!world, S!counters
    <2>. QED
      BY <2>3, <2>4, <2>5
  <1>6. CASE S!ServeFails
    <2>1. /\ deploy' = [deploy EXCEPT !.at = "failed"] /\ S!Fault
          /\ UNCHANGED <<S!world, rehearsal, canary, moves, serves, drills>>
      BY <1>6 DEF S!ServeFails
    <2>2. faults' \in Nat /\ faults' # 0
      BY <2>1, FaultCounts
    <2>3. deploy' \in Deploys /\ deploy'.at = "failed"
      BY <1>1, <2>1 DEF Deploys, Labels
    <2>4. S!TypeOK'
      BY <2>1, <2>2, <2>3 DEF S!TypeOK, Deploys, Labels, S!world
    <2>. QED
      BY <2>2, <2>3, <2>4 DEF DeployKnows, Unfailed
  <1>. QED
    BY <1>2, <1>3, <1>4, <1>5, <1>6 DEF S!DeployStep

-----------------------------------------------------------------------------
(* The moves of a rehearsal, and those from elsewhere.                     *)

LEMMA LegVersion ==
    ASSUME S!TypeOK, S!ServingAssumption
    PROVE  S!To(rehearsal.leg) \in Versions
  BY DEF S!To, S!ServingAssumption

LEMMA AliasSteps ==
    ASSUME SInv, S!ServingAssumption,
           S!MoveAlias \/ \E v \in Versions : S!MoveElsewhere(v)
    PROVE  SInv'
  <1>. USE DEF SInv
  <1>1. rehearsal \in Rehearsals
    BY DEF S!TypeOK, Rehearsals
  <1>2. CASE S!MoveAlias
    <2>1. /\ rehearsal.at = "alias" /\ S!SetAlias(S!To(rehearsal.leg))
          /\ rehearsal' = [rehearsal EXCEPT !.at = "config"]
          /\ UNCHANGED <<config, pod, weight, canary, S!counters>>
      BY <1>2 DEF S!MoveAlias, S!RehearsalAt
    <2>2. /\ DeployKnows' /\ alias' \in Versions /\ deploy' \in Deploys
          /\ alias' = S!To(rehearsal.leg) /\ deploy'.at = deploy.at
      BY <2>1, AliasMoves, LegVersion
    <2>3. rehearsal' \in Rehearsals /\ rehearsal'.at = "config"
          /\ rehearsal'.leg = rehearsal.leg
      BY <1>1, <2>1 DEF Rehearsals, S!RehearsalLabels
    <2>4. S!TypeOK'
      BY <2>1, <2>2, <2>3 DEF S!TypeOK, Deploys, Labels, Rehearsals, S!counters
    <2>5. Unfailed'
      BY <2>1, <2>2, <2>3 DEF Unfailed, OutsideRehearsal, InsideLeg, S!DeployIdle, S!To, S!counters
    <2>. QED
      BY <2>2, <2>4, <2>5
  <1>3. ASSUME NEW v \in Versions, S!MoveElsewhere(v)
        PROVE  SInv'
    <2>1. /\ rehearsal.at \in {"idle", "done"} /\ FeatureSet[v] = config
          /\ S!SetAlias(v) /\ moves' = moves + 1
          /\ UNCHANGED <<config, pod, weight, rehearsal, canary, faults, serves, drills>>
      BY <1>3 DEF S!MoveElsewhere
    <2>2. /\ DeployKnows' /\ alias' = v /\ deploy' \in Deploys
          /\ deploy'.at = deploy.at /\ deploy'.resolved = deploy.resolved
      BY <2>1, AliasMoves
    <2>3. S!TypeOK'
      BY <2>1, <2>2 DEF S!TypeOK, Deploys, Labels
    <2>4. Unfailed'
      BY <2>1, <2>2 DEF Unfailed, OutsideRehearsal, InsideLeg
    <2>. QED
      BY <2>2, <2>3, <2>4
  <1>. QED
    BY <1>2, <1>3

LEMMA RehearsalSteps ==
    ASSUME SInv, S!ServingAssumption,
           S!BeginRehearsal \/ S!MoveConfig \/ S!Serve \/ S!Waited \/ S!Gate \/ S!Finally
    PROVE  SInv'
  <1>. USE DEF SInv
  <1>1. rehearsal \in Rehearsals /\ deploy \in Deploys
    BY DEF S!TypeOK, Rehearsals, Deploys, Labels
  <1>2. CASE S!BeginRehearsal
    <2>1. /\ S!DeployIdle
          /\ rehearsal' = [at |-> "alias", leg |-> 1, recorded |-> FALSE, raised |-> FALSE]
          /\ UNCHANGED <<S!world, deploy, canary, S!counters>>
      BY <1>2 DEF S!BeginRehearsal
    <2>2. S!TypeOK'
      BY <2>1 DEF S!TypeOK, S!RehearsalLabels, S!world, S!counters
    <2>3. DeployKnows'
      BY <2>1 DEF DeployKnows, S!world
    <2>4. Unfailed'
      BY <2>1 DEF Unfailed, OutsideRehearsal, InsideLeg, S!DeployIdle, S!world, S!counters
    <2>. QED
      BY <2>2, <2>3, <2>4
  <1>3. CASE S!MoveConfig
    <2>1. /\ rehearsal.at = "config" /\ config' = FeatureSet[S!To(rehearsal.leg)]
          /\ rehearsal' = [rehearsal EXCEPT !.at = "serve"]
          /\ UNCHANGED <<alias, pod, weight, deploy, canary, S!counters>>
      BY <1>3 DEF S!MoveConfig, S!RehearsalAt
    <2>2. rehearsal' \in Rehearsals /\ rehearsal'.at = "serve"
          /\ rehearsal'.leg = rehearsal.leg
      BY <1>1, <2>1 DEF Rehearsals, S!RehearsalLabels
    <2>3. S!TypeOK'
      BY <2>1, <2>2, LegVersion DEF S!TypeOK, Rehearsals, S!counters
    <2>4. DeployKnows'
      BY <2>1 DEF DeployKnows
    <2>5. Unfailed'
      BY <2>1, <2>2 DEF Unfailed, OutsideRehearsal, InsideLeg, S!DeployIdle, S!To, S!counters
    <2>. QED
      BY <2>3, <2>4, <2>5
  <1>4. CASE S!Serve
    <2>1. /\ rehearsal.at = "serve" /\ S!BeginServe
          /\ rehearsal' = [rehearsal EXCEPT !.at = "wait"]
          /\ UNCHANGED <<S!world, canary, S!counters>>
      BY <1>4 DEF S!Serve, S!RehearsalAt
    <2>2. /\ deploy' \in Deploys /\ DeployKnows' /\ deploy'.at = "resolve"
      BY <2>1, ServeBegins DEF S!world
    <2>3. rehearsal' \in Rehearsals /\ rehearsal'.at = "wait"
          /\ rehearsal'.leg = rehearsal.leg
      BY <1>1, <2>1 DEF Rehearsals, S!RehearsalLabels
    <2>4. S!TypeOK'
      BY <2>1, <2>2, <2>3 DEF S!TypeOK, Rehearsals, Deploys, Labels, S!world, S!counters
    <2>5. Unfailed'
      BY <2>1, <2>2, <2>3 DEF Unfailed, OutsideRehearsal, InsideLeg, S!To, S!world, S!counters
    <2>. QED
      BY <2>2, <2>4, <2>5
  <1>5. CASE S!Waited
    <2>1. /\ rehearsal.at = "wait" /\ deploy.at \in {"ok", "failed"}
          /\ UNCHANGED <<S!world, deploy, canary, S!counters>>
      BY <1>5 DEF S!Waited
    <2>2. /\ rehearsal' \in Rehearsals
          /\ rehearsal'.at \in {"gate", "finally", "raised", "done"}
      BY <1>1, <1>5 DEF S!Waited, S!Raised, Rehearsals, S!RehearsalLabels
    <2>3. S!TypeOK'
      BY <2>1, <2>2 DEF S!TypeOK, Rehearsals, S!world, S!counters
    <2>4. DeployKnows'
      BY <2>1 DEF DeployKnows, S!world
    <2>5. Unfailed'
      BY <2>1, <2>2 DEF Unfailed, OutsideRehearsal, InsideLeg, S!DeployIdle, S!world, S!counters
    <2>. QED
      BY <2>3, <2>4, <2>5
  <1>6. CASE S!Gate \/ S!Finally
    <2>1. /\ rehearsal.at \in {"gate", "finally"}
          /\ UNCHANGED <<S!world, deploy, canary, S!counters>>
      BY <1>6 DEF S!Gate, S!Finally
    <2>2. /\ rehearsal' \in Rehearsals /\ rehearsal'.at \in {"finally", "alias", "raised"}
      BY <1>1, <1>6 DEF S!Gate, S!Finally, S!RehearsalAt, Rehearsals, S!RehearsalLabels
    <2>3. S!TypeOK'
      BY <2>1, <2>2 DEF S!TypeOK, Rehearsals, S!world, S!counters
    <2>4. DeployKnows'
      BY <2>1 DEF DeployKnows, S!world
    <2>5. Unfailed'
      BY <2>1, <2>2 DEF Unfailed, OutsideRehearsal, InsideLeg, S!DeployIdle, S!world, S!counters
    <2>. QED
      BY <2>3, <2>4, <2>5
  <1>. QED
    BY <1>2, <1>3, <1>4, <1>5, <1>6

LEMMA FaultyAndCanarySteps ==
    ASSUME SInv, S!ServingAssumption,
           \/ S!RehearsalFails \/ S!KillRehearsal
           \/ S!BeginCanary \/ S!NextWindow \/ S!CanaryFails \/ UNCHANGED S!vars
    PROVE  SInv'
  <1>. USE DEF SInv
  <1>1. rehearsal \in Rehearsals /\ deploy \in Deploys
    BY DEF S!TypeOK, Rehearsals, Deploys, Labels
  <1>2. CASE S!RehearsalFails
    <2>1. /\ rehearsal' = S!Raised /\ S!Fault
          /\ UNCHANGED <<config, pod, weight, canary, moves, serves, drills>>
          /\ UNCHANGED <<alias, deploy>> \/ S!SetAlias(S!To(rehearsal.leg))
      BY <1>2 DEF S!RehearsalFails
    <2>2. faults' \in Nat /\ faults' # 0
      BY <2>1, FaultCounts
    <2>3. rehearsal' \in Rehearsals
      BY <1>1, <2>1 DEF S!Raised, Rehearsals, S!RehearsalLabels
    <2>4. DeployKnows' /\ alias' \in Versions /\ deploy' \in Deploys
      <3>1. CASE UNCHANGED <<alias, deploy>>
        BY <1>1, <2>1, <3>1 DEF DeployKnows, S!TypeOK
      <3>2. CASE S!SetAlias(S!To(rehearsal.leg))
        BY <2>1, <3>2, AliasMoves, LegVersion
      <3>. QED
        BY <2>1, <3>1, <3>2
    <2>5. S!TypeOK'
      BY <2>1, <2>2, <2>3, <2>4 DEF S!TypeOK, Rehearsals, Deploys, Labels
    <2>. QED
      BY <2>2, <2>4, <2>5 DEF Unfailed
  <1>3. CASE S!KillRehearsal
    <2>1. /\ rehearsal' = [rehearsal EXCEPT !.at = "killed"] /\ S!Fault
          /\ UNCHANGED <<S!world, deploy, canary, moves, serves, drills>>
      BY <1>3 DEF S!KillRehearsal, S!RehearsalAt
    <2>2. faults' \in Nat /\ faults' # 0
      BY <2>1, FaultCounts
    <2>3. rehearsal' \in Rehearsals
      BY <1>1, <2>1 DEF Rehearsals, S!RehearsalLabels
    <2>4. S!TypeOK'
      BY <2>1, <2>2, <2>3 DEF S!TypeOK, Rehearsals, S!world
    <2>5. DeployKnows'
      BY <2>1 DEF DeployKnows, S!world
    <2>. QED
      BY <2>2, <2>4, <2>5 DEF Unfailed
  <1>4. CASE S!BeginCanary \/ S!NextWindow \/ S!CanaryFails \/ UNCHANGED S!vars
    <2>1. UNCHANGED <<alias, config, pod, deploy, rehearsal>>
      BY <1>4 DEF S!BeginCanary, S!NextWindow, S!CanaryFails, S!vars, S!world, S!procs
    <2>2. \/ UNCHANGED faults
          \/ faults' \in Nat /\ faults' # 0
      BY <1>4, FaultCounts
      DEF S!BeginCanary, S!NextWindow, S!CanaryFails, S!vars, S!world, S!procs, S!counters
    <2>3. /\ weight' \in {0, 10, 100}
          /\ canary' \in S!Windows \cup {"idle", "done", "raised"}
          /\ {moves', serves', drills'} \subseteq Nat
      BY <1>4 DEF S!TypeOK, S!BeginCanary, S!NextWindow, S!CanaryFails, S!vars, S!world, S!procs,
                  S!counters, S!Windows
    <2>4. S!TypeOK'
      BY <2>1, <2>2, <2>3 DEF S!TypeOK
    <2>5. DeployKnows'
      BY <2>1 DEF DeployKnows
    <2>6. Unfailed'
      BY <2>1, <2>2 DEF Unfailed, OutsideRehearsal, InsideLeg, S!DeployIdle
    <2>. QED
      BY <2>4, <2>5, <2>6
  <1>. QED
    BY <1>2, <1>3, <1>4

LEMMA ServingSteps ==
    ASSUME SInv, S!ServingAssumption, [S!Next]_S!vars
    PROVE  SInv'
  BY DeploySteps, AliasSteps, RehearsalSteps, FaultyAndCanarySteps
  DEF S!Next, S!RehearsalStep

LEMMA ServingInvariant ==
    ASSUME S!ServingAssumption
    PROVE  S!Spec => []SInv
  <1>1. S!Init => SInv
    BY InitServing
  <1>2. SInv /\ [S!Next]_S!vars => SInv'
    BY ServingSteps
  <1>. QED
    BY <1>1, <1>2, PTL DEF S!Spec

-----------------------------------------------------------------------------
(* With nothing failing, whenever no deployment and no rehearsal is under  *)
(* way, the feature set that configs/train.yaml gives the clients is the   *)
(* one of the champion and of the pod that answers: whatever a person, a   *)
(* promotion, an operator's `make serve` and the rehearsal interleave to.  *)
THEOREM ServingSound ==
    ASSUME S!ServingAssumption
    PROVE  S!Spec => []ServingIsSound
  <1>1. SInv => ServingIsSound
    BY DEF SInv, ServingIsSound, Unfailed, OutsideRehearsal, S!DeployIdle, S!ServingIsSound,
           S!CoherentAtRest
  <1>. QED
    BY <1>1, ServingInvariant, PTL

(* A `make serve` that exits 0 has left the pod on the champion of that    *)
(* moment, unless the alias moved away and came back while it ran: the     *)
(* read-back at its end sees every single move.                            *)
THEOREM ServeIsTrue ==
    ASSUME S!ServingAssumption
    PROVE  S!Spec => ServeTellsTheTruth
  <1>. DEFINE Ends == deploy.at = "quote" /\ deploy'.at = "ok" /\ deploy.moved < 2
  <1>1. SInv /\ [S!Next]_S!vars /\ Ends => pod = alias
    <2>. SUFFICES ASSUME SInv, [S!Next]_S!vars, Ends
                  PROVE  pod = alias
      OBVIOUS
    <2>1. deploy \in Deploys
      BY DEF SInv, S!TypeOK, Deploys, Labels
    <2>2. S!ReadBack
      <3>1. CASE S!OperatorServes \/ \E v \in Versions : S!MoveElsewhere(v)
        BY <2>1, <3>1 DEF S!OperatorServes, S!DeployIdle, S!MoveElsewhere, S!SetAlias, Deploys
      <3>2. CASE S!Resolve \/ S!Apply \/ S!ServeFails
        BY <2>1, <3>2 DEF S!Resolve, S!Apply, S!ServeFails, Deploys
      <3>3. CASE S!MoveAlias \/ S!Serve \/ S!RehearsalFails
        BY <2>1, <3>3 DEF S!MoveAlias, S!Serve, S!RehearsalFails, S!SetAlias, S!DeployIdle, Deploys
      <3>4. CASE UNCHANGED deploy
        BY <3>4
      <3>. QED
        BY <3>1, <3>2, <3>3, <3>4
        DEF S!Next, S!DeployStep, S!RehearsalStep, S!BeginRehearsal, S!MoveConfig, S!Waited, S!Gate,
            S!Finally, S!KillRehearsal, S!BeginCanary, S!NextWindow, S!CanaryFails, S!vars, S!procs
    <2>3. alias = deploy.before
      BY <2>1, <2>2 DEF S!ReadBack, Deploys
    <2>4. deploy.moved = 0
      BY <2>1, <2>3 DEF SInv, DeployKnows, Deploys
    <2>. QED
      BY <2>3, <2>4 DEF SInv, DeployKnows
  <1>2. SInv /\ [S!Next]_S!vars => [Ends => pod = alias]_S!vars
    BY <1>1
  <1>. QED
    BY <1>2, ServingInvariant, PTL DEF S!Spec, ServeTellsTheTruth, S!ServeTellsTheTruth

-----------------------------------------------------------------------------
(* The answers of the transformer.                                         *)

Points == {"idle", "zones", "calendar", "sentinel", "predict", "answered"}
Statuses == {0, 200, 422, 500, 503}
Quotes == [pc : Points, dates : SUBSET Dates, located : BOOLEAN, status : Statuses,
           seen : SUBSET {"whole", "partial", "empty", "down"}]
Switch == {"up", "down"}
WatchTyped ==
    /\ store \subseteq Parts /\ server \in Switch
    /\ quote \in Quotes
    /\ refill \in [Clients -> SUBSET Parts]
    /\ DOMAIN drill = DOMAIN NoDrill /\ drill.replicas \in Switch

(* A request under way has seen what there is now.                         *)
SeesThePresent == quote.pc # "idle" => Conditions(store, server) \subseteq quote.seen

(* A request that never saw a half-filled store: once it saw it empty, it  *)
(* still is, for a store fills part by part.                               *)
NeverHalf ==
    quote.pc # "idle" /\ "partial" \notin quote.seen =>
        /\ "empty" \in quote.seen => store = {}
        /\ quote.pc \in {"calendar", "sentinel"} /\ ~quote.located => "empty" \in quote.seen
        /\ quote.pc = "sentinel" => "beyond" \in quote.dates \/ "empty" \in quote.seen
        /\ quote.pc = "predict" => quote.located

Covered ==
    /\ quote.pc # "idle" => quote.dates # {}
    /\ quote.pc = "predict" => quote.dates \subseteq {"day"}

QInv == WatchTyped /\ SeesThePresent /\ NeverHalf /\ Covered /\ HonestAnswers

LEMMA QuoteInit == ASSUME Init PROVE QInv
  BY DEF Init, QInv, WatchTyped, SeesThePresent, NeverHalf, Covered, HonestAnswers, NoQuote,
         Quotes, NoDrill, Switch, Points, Statuses

(* What a change of the world leaves of the invariant.                     *)
LEMMA ChangeKeeps ==
    ASSUME QInv, NEW s \in SUBSET Parts, NEW v \in Switch, Change(s, v),
           \/ s \in {{}, store}
           \/ \E p \in Parts : s = store \cup {p}
    PROVE  /\ store' \subseteq Parts /\ server' \in Switch
           /\ quote' \in Quotes
           /\ SeesThePresent' /\ NeverHalf' /\ Covered' /\ HonestAnswers'
  <1>1. store' = s /\ server' = v
     BY DEF Change
  <1>2. Conditions(s, v) \subseteq {"whole", "partial", "empty", "down"}
     BY DEF Conditions, Holding, Switch
  <1>. DEFINE seen == IF quote.pc = "idle" THEN quote.seen ELSE quote.seen \cup Conditions(s, v)
  <1>3. seen \subseteq {"whole", "partial", "empty", "down"}
     BY <1>2 DEF QInv, WatchTyped, Quotes
  <1>4. quote' = [quote EXCEPT !.seen = seen]
     BY DEF Change
  <1>5. quote' \in Quotes
     BY <1>3, <1>4 DEF QInv, WatchTyped, Quotes
  <1>6. /\ quote'.pc = quote.pc /\ quote'.dates = quote.dates /\ quote'.status = quote.status
        /\ quote'.located = quote.located
     BY <1>4 DEF QInv, WatchTyped, Quotes
  <1>7. quote'.seen = seen
     BY <1>4 DEF QInv, WatchTyped, Quotes
  <1>8. SeesThePresent'
     BY <1>1, <1>6, <1>7 DEF SeesThePresent
  <1>9. quote.seen \subseteq seen
     OBVIOUS
  <1>10. ASSUME quote.pc # "idle", "partial" \notin seen, "empty" \in seen
         PROVE  s = {}
     <2>1. Holding(s) \in seen /\ Holding(store) \in quote.seen /\ "partial" \notin quote.seen
        BY <1>10 DEF QInv, SeesThePresent, Conditions
     <2>2. s \in {{}, Parts} /\ store \in {{}, Parts}
        BY <1>10, <2>1 DEF Holding
     <2>3. CASE "empty" \in quote.seen
        <3>1. store = {}
           BY <1>10, <2>1, <2>3 DEF QInv, NeverHalf
        <3>2. \A p \in Parts : {p} # Parts
           BY DEF Parts
        <3>. QED
           BY <2>2, <3>1, <3>2
     <2>4. CASE "empty" \notin quote.seen
        <3>1. "empty" \in Conditions(s, v)
           BY <1>10, <2>4
        <3>2. Holding(s) = "empty"
           BY <3>1 DEF Conditions, Switch
        <3>. QED
           BY <3>2 DEF Holding
     <2>. QED
        BY <2>3, <2>4
  <1>11. NeverHalf'
     BY <1>1, <1>6, <1>7, <1>9, <1>10 DEF QInv, NeverHalf
  <1>12. Covered'
     BY <1>6 DEF QInv, Covered
  <1>13. HonestAnswers'
     BY <1>6, <1>7, <1>9 DEF QInv, HonestAnswers
  <1>. QED
     BY <1>1, <1>5, <1>8, <1>11, <1>12, <1>13

(* A step that leaves the request and the world alone.                     *)
LEMMA Apart ==
    ASSUME QInv, UNCHANGED <<store, server, quote>>,
           refill' \in [Clients -> SUBSET Parts],
           DOMAIN drill' = DOMAIN NoDrill, drill'.replicas \in Switch
    PROVE  QInv'
  BY DEF QInv, WatchTyped, SeesThePresent, NeverHalf, Covered, HonestAnswers

(* A request at its next question or with its answer is still one.         *)
LEMMA PartsWritten ==
    ASSUME NEW P, NEW D, NEW B, NEW C, NEW E,
           NEW q \in [pc : P, dates : D, located : B, status : C, seen : E],
           NEW r, NEW p \in P, NEW b \in B, NEW c \in C,
           r = [q EXCEPT !.pc = p, !.status = c] \/ r = [q EXCEPT !.pc = p, !.located = b]
    PROVE  r \in [pc : P, dates : D, located : B, status : C, seen : E]
  <1>1. CASE r = [q EXCEPT !.pc = p, !.status = c]
     BY <1>1
  <1>2. CASE r = [q EXCEPT !.pc = p, !.located = b]
     BY <1>2
  <1>. QED
     BY <1>1, <1>2

(* What the request's own steps do to it.                                  *)
LEMMA HandlingKeeps ==
    ASSUME QInv, Handling
    PROVE  QInv'
  <1>1. UNCHANGED <<store, server, refill, drill>>
     BY DEF Handling, LookUpZones, LookUpCalendar, AskSentinel, Predict, Hear, world
  <1>2. quote \in Quotes /\ store \subseteq Parts /\ server \in Switch
     BY DEF QInv, WatchTyped
  <1>3. quote.pc # "idle"
     BY DEF Handling, LookUpZones, LookUpCalendar, AskSentinel, Predict, Hear
  <1>4. Conditions(store, server) \subseteq quote.seen
     BY <1>3 DEF QInv, SeesThePresent
  <1>5. server = "down" => "down" \in quote.seen
     BY <1>4 DEF Conditions
  <1>6. "partial" \notin quote.seen =>
           /\ store = Parts \/ (store = {} /\ "empty" \in quote.seen)
           /\ "empty" \in quote.seen => store = {}
     BY <1>3, <1>4 DEF Conditions, Holding, QInv, NeverHalf
  <1>7. ASSUME NEW status \in {200, 422, 500, 503}, Answer(status),
               status = 200 => quote.dates \subseteq {"day"},
               "partial" \notin quote.seen =>
                  /\ status = 200 => quote.located
                  /\ status = 422 => "beyond" \in quote.dates
                  /\ status = 503 => quote.seen \cap {"empty", "down"} # {}
        PROVE  QInv'
     <2>1. /\ quote' \in Quotes
           /\ quote'.pc = "answered" /\ quote'.status = status
           /\ quote'.dates = quote.dates /\ quote'.located = quote.located
           /\ quote'.seen = quote.seen
        <3>1. quote' = [quote EXCEPT !.pc = "answered", !.status = status]
           BY <1>7 DEF Answer
        <3>2. status \in Statuses
           BY <1>7 DEF Statuses
        <3>3. quote' \in Quotes
           <4>1. "answered" \in Points /\ TRUE \in BOOLEAN
              BY DEF Points
           <4>. QED
              BY <1>2, <3>1, <3>2, <4>1, PartsWritten DEF Quotes
        <3>4. quote'.pc = "answered" /\ quote'.status = status
           BY <1>2, <3>1 DEF Quotes
        <3>5. quote'.dates = quote.dates /\ quote'.seen = quote.seen
           BY <1>2, <3>1 DEF Quotes
        <3>6. quote'.located = quote.located
           BY <1>2, <3>1 DEF Quotes
        <3>. QED
           BY <3>3, <3>4, <3>5, <3>6
     <2>2. WatchTyped'
        BY <1>1, <2>1 DEF QInv, WatchTyped
     <2>3. SeesThePresent' /\ NeverHalf' /\ Covered'
        BY <1>1, <1>3, <1>4, <1>6, <2>1 DEF QInv, SeesThePresent, NeverHalf, Covered
     <2>4. HonestAnswers'
        BY <1>7, <2>1 DEF HonestAnswers
     <2>. QED
        BY <2>2, <2>3, <2>4 DEF QInv
  <1>8. CASE LookUpZones
     <2>1. CASE server = "down"
        <3>1. Answer(503)
           BY <1>8, <2>1 DEF LookUpZones
        <3>. QED
           BY <1>5, <1>7, <2>1, <3>1
     <2>2. CASE server # "down"
        <3>. DEFINE located == "zones" \in store
        <3>1. quote' = [quote EXCEPT !.pc = "calendar", !.located = located]
           BY <1>8, <2>2 DEF LookUpZones
        <3>2. located \in BOOLEAN
           OBVIOUS
        <3>3. ~located => store # Parts
           BY DEF Parts
        <3>. HIDE DEF located
        <3>4. quote' \in Quotes
           <4>1. "calendar" \in Points /\ 0 \in Statuses
              BY DEF Points, Statuses
           <4>. QED
              BY <1>2, <3>1, <3>2, <4>1, PartsWritten DEF Quotes
        <3>5. quote'.pc = "calendar" /\ quote'.dates = quote.dates /\ quote'.seen = quote.seen
           BY <1>2, <3>1 DEF Quotes
        <3>6. quote'.located = located
           BY <1>2, <3>1 DEF Quotes
        <3>7. WatchTyped'
           BY <1>1, <3>4 DEF QInv, WatchTyped
        <3>8. SeesThePresent' /\ Covered' /\ HonestAnswers'
           BY <1>1, <1>3, <1>4, <3>5 DEF QInv, SeesThePresent, Covered, HonestAnswers
        <3>9. NeverHalf'
           BY <1>1, <1>6, <3>3, <3>5, <3>6 DEF NeverHalf
        <3>. QED
           BY <3>7, <3>8, <3>9 DEF QInv
     <2>. QED
        BY <2>1, <2>2
  <1>9. CASE LookUpCalendar
     <2>1. quote.pc = "calendar" /\ quote.dates \subseteq Dates
        BY <1>2, <1>9 DEF LookUpCalendar, Quotes
     <2>2. CASE server = "down"
        <3>1. Answer(503)
           BY <1>9, <2>2 DEF LookUpCalendar
        <3>. QED
           BY <1>5, <1>7, <2>2, <3>1
     <2>3. CASE server = "up" /\ quote.dates \subseteq store
        <3>1. quote' = [quote EXCEPT !.pc = "predict"]
           BY <1>9, <2>3 DEF LookUpCalendar
        <3>2. /\ quote' \in Quotes
              /\ quote'.pc = "predict" /\ quote'.dates = quote.dates
              /\ quote'.seen = quote.seen /\ quote'.located = quote.located
           BY <1>2, <3>1 DEF Quotes, Points
        <3>3. quote.dates \subseteq {"day"}
           BY <1>2, <2>1, <2>3 DEF Dates, Parts
        <3>4. "partial" \notin quote.seen => quote.located
           <4>1. quote.dates # {}
              BY <2>1 DEF QInv, Covered
           <4>2. store # {}
              BY <2>3, <4>1
           <4>. QED
              BY <1>6, <2>1, <4>2 DEF QInv, NeverHalf, Parts
        <3>. QED
           BY <1>1, <1>3, <1>4, <1>6, <3>2, <3>3, <3>4
           DEF QInv, WatchTyped, SeesThePresent, NeverHalf, Covered, HonestAnswers
     <2>4. CASE server = "up" /\ ~(quote.dates \subseteq store) /\ Answered(quote.dates) # {}
        <3>1. Answer(422)
           BY <1>9, <2>4 DEF LookUpCalendar
        <3>2. store = Parts => "beyond" \in quote.dates
           BY <2>1, <2>4 DEF Dates, Parts
        <3>3. store # {}
           BY <2>4 DEF Answered
        <3>. QED
           BY <1>6, <1>7, <3>1, <3>2, <3>3
     <2>5. CASE server = "up" /\ ~(quote.dates \subseteq store) /\ Answered(quote.dates) = {}
        <3>1. quote' = [quote EXCEPT !.pc = "sentinel"]
           BY <1>9, <2>5 DEF LookUpCalendar
        <3>2. /\ quote' \in Quotes
              /\ quote'.pc = "sentinel" /\ quote'.dates = quote.dates
              /\ quote'.seen = quote.seen /\ quote'.located = quote.located
           BY <1>2, <3>1 DEF Quotes, Points
        <3>3. store = Parts => "beyond" \in quote.dates
           BY <2>1, <2>5 DEF Dates, Parts
        <3>4. NeverHalf'
           BY <1>1, <1>6, <2>1, <3>2, <3>3 DEF QInv, NeverHalf
        <3>. QED
           BY <1>1, <1>3, <1>4, <3>2, <3>4
           DEF QInv, WatchTyped, SeesThePresent, Covered, HonestAnswers
     <2>. QED
        BY <1>2, <2>2, <2>3, <2>4, <2>5 DEF Switch
  <1>10. CASE AskSentinel
     <2>1. quote.pc = "sentinel"
        BY <1>10 DEF AskSentinel
     <2>2. CASE server = "up" /\ "sentinel" \in store
        <3>1. Answer(422)
           BY <1>10, <2>2 DEF AskSentinel
        <3>2. "partial" \notin quote.seen => "beyond" \in quote.dates
           BY <1>3, <1>6, <2>1, <2>2 DEF QInv, NeverHalf
        <3>. QED
           BY <1>7, <3>1, <3>2
     <2>3. CASE ~(server = "up" /\ "sentinel" \in store)
        <3>1. Answer(503)
           BY <1>10, <2>3 DEF AskSentinel
        <3>2. "partial" \notin quote.seen => quote.seen \cap {"empty", "down"} # {}
           BY <1>2, <1>5, <1>6, <2>3 DEF Switch, Parts
        <3>. QED
           BY <1>7, <3>1, <3>2
     <2>. QED
        BY <2>2, <2>3
  <1>11. CASE Predict
     <2>1. quote.pc = "predict" /\ (Answer(200) \/ Answer(500))
        BY <1>11 DEF Predict
     <2>2. quote.dates \subseteq {"day"} /\ ("partial" \notin quote.seen => quote.located)
        BY <2>1 DEF QInv, Covered, NeverHalf
     <2>. QED
        BY <1>7, <2>1, <2>2
  <1>12. CASE Hear
     <2>1. quote' = NoQuote
        BY <1>12 DEF Hear
     <2>2. quote' \in Quotes /\ quote'.pc = "idle"
        BY <2>1 DEF NoQuote, Quotes, Dates, Points, Statuses
     <2>. QED
        BY <1>1, <2>2 DEF QInv, WatchTyped, SeesThePresent, NeverHalf, Covered, HonestAnswers
  <1>. QED
     BY <1>8, <1>9, <1>10, <1>11, <1>12 DEF Handling

(* The drill's record keeps its parts.                                     *)
LEMMA DrillKept ==
    ASSUME QInv, Next
    PROVE  DOMAIN drill' = DOMAIN NoDrill /\ drill'.replicas \in Switch
  <1>1. DOMAIN drill = DOMAIN NoDrill /\ drill.replicas \in Switch /\ server \in Switch
     BY DEF QInv, WatchTyped
  <1>2. DOMAIN NoDrill = {"step", "red", "before", "replicas", "waited", "sound", "meddled"}
        /\ NoDrill.replicas \in Switch
     BY DEF NoDrill, Switch
  <1>3. ASSUME Meddle PROVE DOMAIN drill' = DOMAIN NoDrill /\ drill'.replicas \in Switch
     BY <1>1, <1>2, <1>3 DEF Meddle
  <1>4. ASSUME NEW ok, Check(ok) PROVE DOMAIN drill' = DOMAIN NoDrill /\ drill'.replicas \in Switch
     BY <1>1, <1>2, <1>4 DEF Check
  <1>5. CASE StartDrill
     BY <1>2, <1>5 DEF StartDrill
  <1>6. CASE RunReader \/ Inject \/ Undo
     BY <1>1, <1>2, <1>4, <1>6 DEF RunReader, Inject, Undo
  <1>7. CASE Tick
     BY <1>1, <1>2, <1>7 DEF Tick
  <1>8. CASE KillDrill \/ CloseDrill
     BY <1>2, <1>8 DEF KillDrill, CloseDrill
  <1>9. CASE Look \/ Wait
     BY <1>4, <1>9 DEF Look, Wait
  <1>10. CASE \/ \E dates \in (SUBSET Dates) \ {{}} : Ask(dates)
              \/ Handling
     BY <1>1, <1>10 DEF Ask, Handling, LookUpZones, LookUpCalendar, AskSentinel, Predict, Hear
  <1>11. ASSUME NEW c \in Clients, ReadOn(c) \/ Write(c) \/ Abandon(c)
         PROVE  DOMAIN drill' = DOMAIN NoDrill /\ drill'.replicas \in Switch
     BY <1>1, <1>3, <1>11 DEF ReadOn, ReadKeys, ReadZones, ReadDays, Push, Write, Abandon
  <1>12. CASE Watch \/ Materialize \/ Lose
     BY <1>3, <1>12 DEF Watch, Materialize, Lose
  <1>. QED
     BY <1>5, <1>6, <1>7, <1>8, <1>9, <1>10, <1>11, <1>12 DEF Next, Drilling

(* Who has a refill under way writes parts, and only those.                *)
LEMMA RefillKept ==
    ASSUME QInv, Next
    PROVE  refill' \in [Clients -> SUBSET Parts]
  <1>1. refill \in [Clients -> SUBSET Parts]
     BY DEF QInv, WatchTyped
  <1>2. ASSUME NEW c \in Clients, Write(c) \/ Abandon(c)
        PROVE  refill' \in [Clients -> SUBSET Parts]
     BY <1>1, <1>2 DEF Write, Abandon
  <1>3. CASE Materialize \/ KillDrill \/ Undo
     BY <1>1, <1>3 DEF Materialize, KillDrill, Undo
  <1>4. ASSUME NEW c \in Clients, ReadOn(c)
        PROVE  refill' \in [Clients -> SUBSET Parts]
     BY <1>1, <1>4 DEF ReadOn, ReadKeys, ReadZones, ReadDays, Push
  <1>5. CASE \/ \E dates \in (SUBSET Dates) \ {{}} : Ask(dates)
             \/ Handling
     BY <1>1, <1>5 DEF Ask, Handling, LookUpZones, LookUpCalendar, AskSentinel, Predict, Hear
  <1>6. CASE Watch \/ Lose \/ StartDrill \/ Tick
     BY <1>1, <1>6 DEF Watch, Lose, StartDrill, Tick
  <1>7. CASE Look \/ RunReader \/ Inject \/ Wait \/ CloseDrill
     BY <1>1, <1>7 DEF Look, RunReader, Inject, Wait, CloseDrill
  <1>. QED
     BY <1>2, <1>3, <1>4, <1>5, <1>6, <1>7 DEF Next, Drilling

LEMMA AskKeeps ==
    ASSUME QInv, NEW dates \in (SUBSET Dates) \ {{}}, Ask(dates),
           refill' \in [Clients -> SUBSET Parts],
           DOMAIN drill' = DOMAIN NoDrill, drill'.replicas \in Switch
    PROVE  QInv'
  <1>1. /\ quote' = [NoQuote EXCEPT !.pc = "zones", !.dates = dates,
                                    !.seen = Conditions(store, server)]
        /\ UNCHANGED <<store, server>>
     BY DEF Ask, world
  <1>2. Conditions(store, server) \subseteq {"whole", "partial", "empty", "down"}
     BY DEF Conditions, Holding, QInv, WatchTyped, Switch
  <1>3. quote' = [pc |-> "zones", dates |-> dates, located |-> FALSE, status |-> 0,
                  seen |-> Conditions(store, server)]
     BY <1>1 DEF NoQuote
  <1>4. quote' \in Quotes
     BY <1>2, <1>3 DEF Quotes, Points, Statuses
  <1>5. "empty" \in Conditions(store, server) => store = {}
     BY DEF Conditions, Holding, QInv, WatchTyped, Switch
  <1>6. NeverHalf'
     BY <1>1, <1>3, <1>5 DEF NeverHalf
  <1>. QED
     BY <1>1, <1>3, <1>4, <1>6
     DEF QInv, WatchTyped, SeesThePresent, Covered, HonestAnswers

LEMMA WorldStep ==
    ASSUME QInv, Next,
           \/ \E c \in Clients : Write(c)
           \/ Lose \/ Inject \/ Undo
    PROVE  QInv'
  <1>1. store \subseteq Parts /\ server \in Switch /\ drill.replicas \in Switch
     BY DEF QInv, WatchTyped
  <1>2. /\ refill' \in [Clients -> SUBSET Parts]
        /\ DOMAIN drill' = DOMAIN NoDrill /\ drill'.replicas \in Switch
     BY DrillKept, RefillKept
  <1>3. \/ UNCHANGED <<store, server, quote>>
        \/ \E s \in SUBSET Parts, v \in Switch :
              /\ Change(s, v)
              /\ s \in {{}, store} \/ \E p \in Parts : s = store \cup {p}
     <2>1. CASE \E c \in Clients : Write(c)
        <3>1. PICK c \in Clients : Write(c)
           BY <2>1
        <3>2. PICK p \in refill[c] : Change(store \cup {p}, server)
           BY <3>1 DEF Write
        <3>3. p \in Parts
           BY DEF QInv, WatchTyped
        <3>. QED
           BY <1>1, <3>2, <3>3
     <2>2. CASE Lose \/ Inject \/ Undo
        BY <1>1, <2>2 DEF Lose, Inject, Undo, Switch
     <2>. QED
        BY <2>1, <2>2
  <1>4. CASE UNCHANGED <<store, server, quote>>
     BY <1>2, <1>4, Apart
  <1>5. CASE \E s \in SUBSET Parts, v \in Switch :
                /\ Change(s, v)
                /\ s \in {{}, store} \/ \E p \in Parts : s = store \cup {p}
     <2>1. /\ store' \subseteq Parts /\ server' \in Switch /\ quote' \in Quotes
           /\ SeesThePresent' /\ NeverHalf' /\ Covered' /\ HonestAnswers'
        BY <1>5, ChangeKeeps
     <2>. QED
        BY <1>2, <2>1 DEF QInv, WatchTyped
  <1>. QED
     BY <1>3, <1>4, <1>5

LEMMA QuoteStep ==
    ASSUME QInv, [Next]_vars
    PROVE  QInv'
  <1>1. CASE UNCHANGED vars
     BY <1>1 DEF vars, world, QInv, WatchTyped, SeesThePresent, NeverHalf, Covered,
                 HonestAnswers
  <1>2. CASE Next
     <2>1. /\ refill' \in [Clients -> SUBSET Parts]
           /\ DOMAIN drill' = DOMAIN NoDrill /\ drill'.replicas \in Switch
        BY <1>2, DrillKept, RefillKept
     <2>2. ASSUME NEW dates \in (SUBSET Dates) \ {{}}, Ask(dates)
           PROVE  QInv'
        BY <2>1, <2>2, AskKeeps
     <2>3. CASE Handling
        BY <2>3, HandlingKeeps
     <2>4. CASE (\E c \in Clients : Write(c)) \/ Lose \/ Inject \/ Undo
        BY <1>2, <2>4, WorldStep
     <2>5. ASSUME NEW c \in Clients, ReadOn(c) \/ Abandon(c)
           PROVE  QInv'
        <3>1. UNCHANGED <<store, server, quote>>
           BY <2>5 DEF ReadOn, ReadKeys, ReadZones, ReadDays, Push, Abandon, world
        <3>. QED
           BY <2>1, <3>1, Apart
     <2>6. CASE Watch \/ Materialize \/ StartDrill \/ KillDrill \/ Tick
        <3>1. UNCHANGED <<store, server, quote>>
           BY <2>6 DEF Watch, Materialize, StartDrill, KillDrill, Tick, world
        <3>. QED
           BY <2>1, <3>1, Apart
     <2>7. CASE Look \/ RunReader \/ Wait \/ CloseDrill
        <3>1. UNCHANGED <<store, server, quote>>
           BY <2>7 DEF Look, RunReader, Wait, CloseDrill, world
        <3>. QED
           BY <2>1, <3>1, Apart
     <2>. QED
        BY <1>2, <2>2, <2>3, <2>4, <2>5, <2>6, <2>7 DEF Next, Drilling
  <1>. QED
     BY <1>1, <1>2

(* For any number of requests, losses, refills and drills, and whatever    *)
(* the rules and the drill's waits are: nobody is quoted past the          *)
(* calendar, and a request that never met a half-filled store is quoted on *)
(* the zone's own centroid, refused only for its own date, and told that   *)
(* the store is lost only if it was.                                       *)
THEOREM AnswersHonest == Spec => []HonestAnswers
  <1>1. QInv => HonestAnswers
     BY DEF QInv
  <1>. QED
     BY QuoteInit, QuoteStep, <1>1, PTL DEF Spec

-----------------------------------------------------------------------------
(* The drill over the store, the server and the reading: what a drill that *)
(* nobody interferes with knows at each of its 30 steps.                   *)

Moments == {"idle", "keys", "zones", "days", "push", "failed"}
Resting == {"idle", "failed"}
KeyCounts == -1..Cardinality(Parts)
Readers == [pc : Moments, keys : KeyCounts, failing : SUBSET Checks, truth : BOOLEAN]
Boards == [keys : KeyCounts, failing : SUBSET Checks, truth : BOOLEAN, age : -1..Fresh]
Drills == [step : 0..31, red : BOOLEAN, before : KeyCounts, replicas : Switch, waited : Nat,
           sound : BOOLEAN, meddled : BOOLEAN]

(* The steps of the script that start a reader, and those that wait.       *)
Reads == {2, 9, 16, 29}
Waits == {5, 10, 11, 17, 18, 23, 27, 30}
Longest(k) == CASE k = 5 -> Patience["health"]
                [] k = 23 -> Patience["server"]
                [] k = 27 -> Patience["a13"]
                [] OTHER -> Patience["a12"]

DTyped ==
    /\ reader \in [Clients -> Readers]
    /\ board \in Boards
    /\ \A r \in Rules : rule[r] \in 0..Sustain(r) + 1
    /\ DOMAIN rule = Rules
    /\ drill \in Drills
    /\ left \in 0..MaxEvents

(* How long the drill has been at its step.                                *)
WaitedKnown ==
    /\ drill.waited # 0 => drill.step \in Reads \cup Waits \cup {14}
    /\ drill.step \in Reads \cup {14} => drill.waited \in {0, 1}
    /\ drill.step \in Waits => drill.waited <= Longest(drill.step)

(* The drill's own reader and refill run only at their steps.              *)
OwnProcesses ==
    /\ reader["drill"].pc \notin Resting => drill.step \in Reads /\ drill.waited = 1
    /\ refill["drill"] # {} => drill.step = 14 /\ drill.waited = 1

(* A drill that runs alone: nobody else acted since it started.            *)
Clean == drill.step # 0 /\ ~drill.meddled
Alone ==
    Clean =>
        /\ reader["operator"].pc \in Resting /\ refill["operator"] = {}
        /\ drill.step \in Reads /\ drill.waited = 1 => reader["drill"].pc # "failed"

(* The store is empty from the flush to the refill and whole after it; a   *)
(* platform that was sound had it whole before.                            *)
StoreKnown ==
    Clean =>
        /\ drill.step \in 7..13 => store = {}
        /\ drill.step = 14 /\ drill.waited = 0 => store = {}
        /\ drill.step = 14 /\ drill.waited = 1 => store \cup refill["drill"] = Parts
        /\ drill.step >= 15 => store = Parts
        /\ drill.sound /\ drill.step <= 6 => store = Parts
        /\ drill.sound /\ drill.step \in 7..15 => drill.before = Cardinality(Parts)

(* The server is down between the two scale commands.  A sound one is up   *)
(* at every other step; a green drill has seen it answer after them.       *)
ServerKnown ==
    Clean =>
        /\ drill.sound => drill.replicas = "up"
        /\ drill.step \in {21, 22} => server = "down"
        /\ drill.sound /\ drill.step \notin {21, 22} => server = "up"
        /\ ~drill.red /\ drill.step >= 24 => server = "up"

NeverRed == Clean /\ drill.sound => ~drill.red

(* What a reader gathers from a whole store, and from an empty one.        *)
Lost == {"zone_answers", "calendar_answers", "incomplete"}
GathersWhole(r) ==
    /\ r.failing = {}
    /\ r.pc # "keys" => r.keys = Cardinality(Parts)
GathersNothing(r) ==
    /\ r.pc # "keys" => r.keys = 0
    /\ r.pc \in {"keys", "zones"} => r.failing = {}
    /\ r.pc = "days" => r.failing = {"zone_answers"}
    /\ r.pc = "push" => r.failing = {"zone_answers", "calendar_answers"}
ReaderKnown ==
    Clean /\ reader["drill"].pc \notin Resting =>
        /\ drill.step # 9 /\ (drill.sound \/ (~drill.red /\ drill.step = 29)) =>
              GathersWhole(reader["drill"])
        /\ drill.step = 9 /\ drill.sound => GathersNothing(reader["drill"])

(* The reading that step k started is on the board.                        *)
Pushed(k) ==
    \/ drill.step > k
    \/ drill.step = k /\ drill.waited = 1 /\ reader["drill"].pc \in Resting
Whole == board.keys = Cardinality(Parts) /\ board.failing = {}
BoardKnown ==
    Clean =>
        /\ drill.sound /\ Pushed(2) /\ ~Pushed(9) => Whole
        /\ drill.sound /\ Pushed(9) /\ ~Pushed(16) =>
              board.keys = 0 /\ board.failing = {"zone_answers", "calendar_answers"}
        /\ drill.sound /\ Pushed(9) /\ drill.step = 9 => board.age = 0
        /\ drill.sound /\ drill.step = 10 => board.age = drill.waited
        /\ drill.sound /\ Pushed(16) /\ drill.step <= 25 => Whole
        /\ drill.sound /\ drill.step >= 26 /\ ~Pushed(29) => board = NoBoard
        /\ (drill.sound \/ ~drill.red) /\ Pushed(29) => Whole

(* How long each rule has held, on a platform that was sound.              *)
Held(active, n) == \A r \in Rules : rule[r] = IF r \in active THEN n ELSE 0
RulesKnown ==
    Clean /\ drill.sound =>
        /\ drill.step \in {5, 17, 30} /\ drill.waited > 0 => Held({}, 0)
        /\ drill.step \in 6..9 \cup 18..26 => Held({}, 0)
        /\ drill.step = 10 => Held(Lost, drill.waited) /\ drill.waited <= Sustain12 + 1
        /\ drill.step \in 11..16 => Held(Lost, Sustain12 + 1)
        /\ drill.step = 17 /\ drill.waited = 0 => Held(Lost, Sustain12 + 1)
        /\ drill.step = 27 => Held({"absent"}, drill.waited) /\ drill.waited <= Sustain13 + 1
        /\ drill.step \in {28, 29} => Held({"absent"}, Sustain13 + 1)
        /\ drill.step = 30 /\ drill.waited = 0 => Held({"absent"}, Sustain13 + 1)

DInv == /\ DTyped /\ WaitedKnown /\ OwnProcesses /\ Alone /\ StoreKnown /\ ServerKnown
        /\ NeverRed /\ ReaderKnown /\ BoardKnown /\ RulesKnown

-----------------------------------------------------------------------------
(* The script, step by step.                                               *)
LEMMA TheScript ==
    /\ Len(Script) = 30
    /\ Script[1] = Op("keys", "none", {})
    /\ Script[2] = Op("reader", "must", {})
    /\ Script[3] = Op("quote", 200, {"day"})
    /\ Script[4] = Op("quote", 422, {"beyond"})
    /\ Script[5] = Op("quiet", "health", Rules)
    /\ Script[6] = Op("flush", "none", {})
    /\ Script[7] = Op("quote", 503, {"day"})
    /\ Script[8] = Op("quote", 503, {"beyond"})
    /\ Script[9] = Op("reader", "may", {})
    /\ Script[10] = Op("fires", "a12", Canary)
    /\ Script[11] = Op("fires", "a12", {"incomplete"})
    /\ Script[12] = Op("names", "none", {"zone_answers", "calendar_answers"})
    /\ Script[13] = Op("silent", "none", {"absent"})
    /\ Script[14] = Op("refill", "none", {})
    /\ Script[15] = Op("restored", "none", {})
    /\ Script[16] = Op("reader", "may", {})
    /\ Script[17] = Op("quiet", "a12", Canary)
    /\ Script[18] = Op("quiet", "a12", {"incomplete"})
    /\ Script[19] = Op("quote", 200, {"day"})
    /\ Script[20] = Op("scale", "down", {})
    /\ Script[21] = Op("quote", 503, {"day"})
    /\ Script[22] = Op("scale", "back", {})
    /\ Script[23] = Op("answers", "server", {"day"})
    /\ Script[24] = Op("inactive", "none", {"absent"})
    /\ Script[25] = Op("delete", "none", {})
    /\ Script[26] = Op("keys", "none", {})
    /\ Script[27] = Op("fires", "a13", {"absent"})
    /\ Script[28] = Op("silent", "none", Canary)
    /\ Script[29] = Op("reader", "may", {})
    /\ Script[30] = Op("quiet", "a12", {"absent"})
  <1>1. Len(Script) = 30
     BY DEF Script, PhaseHealth, PhaseEmpty, PhaseUnreachable, PhaseAbsent
  <1>2. /\ Script[1] = Op("keys", "none", {})
        /\ Script[2] = Op("reader", "must", {})
        /\ Script[3] = Op("quote", 200, {"day"})
        /\ Script[4] = Op("quote", 422, {"beyond"})
        /\ Script[5] = Op("quiet", "health", Rules)
     BY DEF Script, PhaseHealth, PhaseEmpty, PhaseUnreachable, PhaseAbsent
  <1>3. /\ Script[6] = Op("flush", "none", {})
        /\ Script[7] = Op("quote", 503, {"day"})
        /\ Script[8] = Op("quote", 503, {"beyond"})
        /\ Script[9] = Op("reader", "may", {})
        /\ Script[10] = Op("fires", "a12", Canary)
     BY DEF Script, PhaseHealth, PhaseEmpty, PhaseUnreachable, PhaseAbsent
  <1>4. /\ Script[11] = Op("fires", "a12", {"incomplete"})
        /\ Script[12] = Op("names", "none", {"zone_answers", "calendar_answers"})
        /\ Script[13] = Op("silent", "none", {"absent"})
        /\ Script[14] = Op("refill", "none", {})
        /\ Script[15] = Op("restored", "none", {})
     BY DEF Script, PhaseHealth, PhaseEmpty, PhaseUnreachable, PhaseAbsent
  <1>5. /\ Script[16] = Op("reader", "may", {})
        /\ Script[17] = Op("quiet", "a12", Canary)
        /\ Script[18] = Op("quiet", "a12", {"incomplete"})
        /\ Script[19] = Op("quote", 200, {"day"})
        /\ Script[20] = Op("scale", "down", {})
     BY DEF Script, PhaseHealth, PhaseEmpty, PhaseUnreachable, PhaseAbsent
  <1>6. /\ Script[21] = Op("quote", 503, {"day"})
        /\ Script[22] = Op("scale", "back", {})
        /\ Script[23] = Op("answers", "server", {"day"})
        /\ Script[24] = Op("inactive", "none", {"absent"})
        /\ Script[25] = Op("delete", "none", {})
     BY DEF Script, PhaseHealth, PhaseEmpty, PhaseUnreachable, PhaseAbsent
  <1>7. /\ Script[26] = Op("keys", "none", {})
        /\ Script[27] = Op("fires", "a13", {"absent"})
        /\ Script[28] = Op("silent", "none", Canary)
        /\ Script[29] = Op("reader", "may", {})
        /\ Script[30] = Op("quiet", "a12", {"absent"})
     BY DEF Script, PhaseHealth, PhaseEmpty, PhaseUnreachable, PhaseAbsent
  <1>. QED
     BY <1>1, <1>2, <1>3, <1>4, <1>5, <1>6, <1>7

(* The operation of each step, and what the waits are for.                 *)
LEMMA Operations ==
    /\ \A k \in {1, 26} : Script[k].op = "keys"
    /\ \A k \in {2, 9, 16, 29} : Script[k].op = "reader"
    /\ \A k \in {3, 4, 7, 8, 19, 21} : Script[k].op = "quote"
    /\ \A k \in {5, 17, 18, 30} : Script[k].op = "quiet"
    /\ \A k \in {6} : Script[k].op = "flush"
    /\ \A k \in {10, 11, 27} : Script[k].op = "fires"
    /\ \A k \in {12} : Script[k].op = "names"
    /\ \A k \in {13, 28} : Script[k].op = "silent"
    /\ \A k \in {14} : Script[k].op = "refill"
    /\ \A k \in {15} : Script[k].op = "restored"
    /\ \A k \in {20, 22} : Script[k].op = "scale"
    /\ \A k \in {23} : Script[k].op = "answers"
    /\ \A k \in {24} : Script[k].op = "inactive"
    /\ \A k \in {25} : Script[k].op = "delete"
    /\ Script[5].who = "health" /\ Script[23].who = "server" /\ Script[27].who = "a13"
    /\ \A k \in {10, 11, 17, 18, 30} : Script[k].who = "a12"
    /\ Script[20].who = "down" /\ Script[22].who = "back"
  <1>1. /\ Script[1].op = "keys"
        /\ Script[2].op = "reader"
        /\ Script[3].op = "quote"
        /\ Script[4].op = "quote"
        /\ Script[5].op = "quiet" /\ Script[5].who = "health"
     <2>1. /\ Script[1] = Op("keys", "none", {})
           /\ Script[2] = Op("reader", "must", {})
           /\ Script[3] = Op("quote", 200, {"day"})
           /\ Script[4] = Op("quote", 422, {"beyond"})
           /\ Script[5] = Op("quiet", "health", Rules)
        BY TheScript
     <2>. QED
        BY <2>1 DEF Op
  <1>2. /\ Script[6].op = "flush"
        /\ Script[7].op = "quote"
        /\ Script[8].op = "quote"
        /\ Script[9].op = "reader"
        /\ Script[10].op = "fires" /\ Script[10].who = "a12"
     <2>1. /\ Script[6] = Op("flush", "none", {})
           /\ Script[7] = Op("quote", 503, {"day"})
           /\ Script[8] = Op("quote", 503, {"beyond"})
           /\ Script[9] = Op("reader", "may", {})
           /\ Script[10] = Op("fires", "a12", Canary)
        BY TheScript
     <2>. QED
        BY <2>1 DEF Op
  <1>3. /\ Script[11].op = "fires" /\ Script[11].who = "a12"
        /\ Script[12].op = "names"
        /\ Script[13].op = "silent"
        /\ Script[14].op = "refill"
        /\ Script[15].op = "restored"
     <2>1. /\ Script[11] = Op("fires", "a12", {"incomplete"})
           /\ Script[12] = Op("names", "none", {"zone_answers", "calendar_answers"})
           /\ Script[13] = Op("silent", "none", {"absent"})
           /\ Script[14] = Op("refill", "none", {})
           /\ Script[15] = Op("restored", "none", {})
        BY TheScript
     <2>. QED
        BY <2>1 DEF Op
  <1>4. /\ Script[16].op = "reader"
        /\ Script[17].op = "quiet" /\ Script[17].who = "a12"
        /\ Script[18].op = "quiet" /\ Script[18].who = "a12"
        /\ Script[19].op = "quote"
        /\ Script[20].op = "scale" /\ Script[20].who = "down"
     <2>1. /\ Script[16] = Op("reader", "may", {})
           /\ Script[17] = Op("quiet", "a12", Canary)
           /\ Script[18] = Op("quiet", "a12", {"incomplete"})
           /\ Script[19] = Op("quote", 200, {"day"})
           /\ Script[20] = Op("scale", "down", {})
        BY TheScript
     <2>. QED
        BY <2>1 DEF Op
  <1>5. /\ Script[21].op = "quote"
        /\ Script[22].op = "scale" /\ Script[22].who = "back"
        /\ Script[23].op = "answers" /\ Script[23].who = "server"
        /\ Script[24].op = "inactive"
        /\ Script[25].op = "delete"
     <2>1. /\ Script[21] = Op("quote", 503, {"day"})
           /\ Script[22] = Op("scale", "back", {})
           /\ Script[23] = Op("answers", "server", {"day"})
           /\ Script[24] = Op("inactive", "none", {"absent"})
           /\ Script[25] = Op("delete", "none", {})
        BY TheScript
     <2>. QED
        BY <2>1 DEF Op
  <1>6. /\ Script[26].op = "keys"
        /\ Script[27].op = "fires" /\ Script[27].who = "a13"
        /\ Script[28].op = "silent"
        /\ Script[29].op = "reader"
        /\ Script[30].op = "quiet" /\ Script[30].who = "a12"
     <2>1. /\ Script[26] = Op("keys", "none", {})
           /\ Script[27] = Op("fires", "a13", {"absent"})
           /\ Script[28] = Op("silent", "none", Canary)
           /\ Script[29] = Op("reader", "may", {})
           /\ Script[30] = Op("quiet", "a12", {"absent"})
        BY TheScript
     <2>. QED
        BY <2>1 DEF Op
  <1>. QED
     BY <1>1, <1>2, <1>3, <1>4, <1>5, <1>6

(* Which steps are of which kind.                                          *)
LEMMA Kinds ==
    ASSUME drill.step \in 0..31
    PROVE  /\ Len(Script) = 30
           /\ Running <=> drill.step \in 1..30
           /\ At("keys") => drill.step \in {1, 26}
           /\ At("reader") => drill.step \in Reads
           /\ At("quote") => drill.step \in {3, 4, 7, 8, 19, 21}
           /\ At("flush") => drill.step = 6
           /\ At("names") => drill.step = 12
           /\ At("silent") => drill.step \in {13, 28}
           /\ At("refill") => drill.step = 14
           /\ At("restored") => drill.step = 15
           /\ At("scale") => drill.step \in {20, 22}
           /\ At("inactive") => drill.step = 24
           /\ At("delete") => drill.step = 25
           /\ drill.step = 20 => Step.who = "down"
           /\ drill.step = 22 => Step.who = "back"
           /\ Running /\ Step.op \in Waiting <=> drill.step \in Waits
           /\ drill.step \in Waits => Patience[Step.who] = Longest(drill.step)
  <1>1. Len(Script) = 30 /\ (Running <=> drill.step \in 1..30)
     BY TheScript DEF Running
  <1>2. drill.step \in {1, 26} => Step.op = "keys"
     BY Operations DEF Step
  <1>3. drill.step \in {2, 9, 16, 29} => Step.op = "reader"
     BY Operations DEF Step
  <1>4. drill.step \in {3, 4, 7, 8, 19, 21} => Step.op = "quote"
     BY Operations DEF Step
  <1>5. drill.step \in {5, 17, 18, 30} => Step.op = "quiet"
     BY Operations DEF Step
  <1>6. drill.step = 6 => Step.op = "flush"
     BY Operations DEF Step
  <1>7. drill.step \in {10, 11, 27} => Step.op = "fires"
     BY Operations DEF Step
  <1>8. drill.step = 12 => Step.op = "names"
     BY Operations DEF Step
  <1>9. drill.step \in {13, 28} => Step.op = "silent"
     BY Operations DEF Step
  <1>10. drill.step = 14 => Step.op = "refill"
     BY Operations DEF Step
  <1>11. drill.step = 15 => Step.op = "restored"
     BY Operations DEF Step
  <1>12. drill.step \in {20, 22} => Step.op = "scale"
     BY Operations DEF Step
  <1>13. drill.step = 23 => Step.op = "answers"
     BY Operations DEF Step
  <1>14. drill.step = 24 => Step.op = "inactive"
     BY Operations DEF Step
  <1>15. drill.step = 25 => Step.op = "delete"
     BY Operations DEF Step
  <1>16. Running =>
           \/ drill.step \in {1, 26} \/ drill.step \in {2, 9, 16, 29}
           \/ drill.step \in {3, 4, 7, 8, 19, 21} \/ drill.step \in {5, 17, 18, 30}
           \/ drill.step = 6 \/ drill.step \in {10, 11, 27} \/ drill.step = 12
           \/ drill.step \in {13, 28} \/ drill.step = 14 \/ drill.step = 15
           \/ drill.step \in {20, 22} \/ drill.step = 23 \/ drill.step = 24
           \/ drill.step = 25
     BY <1>1
  <1>17. At("keys") => drill.step \in {1, 26}
     BY <1>2, <1>3, <1>4, <1>5, <1>6, <1>7, <1>8, <1>9, <1>10, <1>11, <1>12, <1>13,
        <1>14, <1>15, <1>16 DEF At
  <1>18. At("reader") => drill.step \in Reads
     BY <1>2, <1>3, <1>4, <1>5, <1>6, <1>7, <1>8, <1>9, <1>10, <1>11, <1>12, <1>13,
        <1>14, <1>15, <1>16 DEF At, Reads
  <1>19. At("quote") => drill.step \in {3, 4, 7, 8, 19, 21}
     BY <1>2, <1>3, <1>4, <1>5, <1>6, <1>7, <1>8, <1>9, <1>10, <1>11, <1>12, <1>13,
        <1>14, <1>15, <1>16 DEF At
  <1>20. At("flush") => drill.step = 6
     BY <1>2, <1>3, <1>4, <1>5, <1>6, <1>7, <1>8, <1>9, <1>10, <1>11, <1>12, <1>13,
        <1>14, <1>15, <1>16 DEF At
  <1>21. At("names") => drill.step = 12
     BY <1>2, <1>3, <1>4, <1>5, <1>6, <1>7, <1>8, <1>9, <1>10, <1>11, <1>12, <1>13,
        <1>14, <1>15, <1>16 DEF At
  <1>22. At("silent") => drill.step \in {13, 28}
     BY <1>2, <1>3, <1>4, <1>5, <1>6, <1>7, <1>8, <1>9, <1>10, <1>11, <1>12, <1>13,
        <1>14, <1>15, <1>16 DEF At
  <1>23. At("refill") => drill.step = 14
     BY <1>2, <1>3, <1>4, <1>5, <1>6, <1>7, <1>8, <1>9, <1>10, <1>11, <1>12, <1>13,
        <1>14, <1>15, <1>16 DEF At
  <1>24. At("restored") => drill.step = 15
     BY <1>2, <1>3, <1>4, <1>5, <1>6, <1>7, <1>8, <1>9, <1>10, <1>11, <1>12, <1>13,
        <1>14, <1>15, <1>16 DEF At
  <1>25. At("scale") => drill.step \in {20, 22}
     BY <1>2, <1>3, <1>4, <1>5, <1>6, <1>7, <1>8, <1>9, <1>10, <1>11, <1>12, <1>13,
        <1>14, <1>15, <1>16 DEF At
  <1>26. At("inactive") => drill.step = 24
     BY <1>2, <1>3, <1>4, <1>5, <1>6, <1>7, <1>8, <1>9, <1>10, <1>11, <1>12, <1>13,
        <1>14, <1>15, <1>16 DEF At
  <1>27. At("delete") => drill.step = 25
     BY <1>2, <1>3, <1>4, <1>5, <1>6, <1>7, <1>8, <1>9, <1>10, <1>11, <1>12, <1>13,
        <1>14, <1>15, <1>16 DEF At
  <1>28. Running /\ Step.op \in Waiting <=> drill.step \in Waits
     BY <1>1, <1>2, <1>3, <1>4, <1>5, <1>6, <1>7, <1>8, <1>9, <1>10, <1>11, <1>12, <1>13,
        <1>14, <1>15, <1>16 DEF Waiting, Waits
  <1>29. /\ drill.step = 20 => Step.who = "down"
         /\ drill.step = 22 => Step.who = "back"
     BY Operations DEF Step
  <1>30. drill.step \in Waits => Patience[Step.who] = Longest(drill.step)
     BY Operations DEF Step, Waits, Longest
  <1>. QED
     BY <1>1, <1>17, <1>18, <1>19, <1>20, <1>21, <1>22, <1>23, <1>24, <1>25, <1>26,
        <1>27, <1>28, <1>29, <1>30

-----------------------------------------------------------------------------
(* How many keys a store can hold.                                         *)
LEMMA Counting ==
    /\ Cardinality(Parts) \in Nat /\ Cardinality(Parts) > 0
    /\ \A s \in SUBSET Parts : Cardinality(s) \in 0..Cardinality(Parts)
    /\ Cardinality({}) = 0
    /\ KeyCounts \subseteq Int /\ {-1, 0, Cardinality(Parts)} \subseteq KeyCounts
  <1>1. IsFiniteSet(Parts)
     <2>1. Parts = {} \cup {"zones"} \cup {"sentinel"} \cup {"day"} \cup {"rest"}
        BY DEF Parts
     <2>. QED
        BY <2>1, FS_EmptySet, FS_AddElement
  <1>2. Cardinality(Parts) \in Nat
     BY <1>1, FS_CardinalityType
  <1>3. Cardinality({}) = 0
     BY FS_EmptySet
  <1>4. Cardinality(Parts) > 0
     <2>1. Parts # {}
        BY DEF Parts
     <2>2. Cardinality(Parts) # 0
        BY <1>1, <2>1, FS_EmptySet
     <2>. QED
        BY <1>2, <2>2
  <1>5. ASSUME NEW s \in SUBSET Parts PROVE Cardinality(s) \in 0..Cardinality(Parts)
     <2>1. IsFiniteSet(s) /\ Cardinality(s) <= Cardinality(Parts)
        BY <1>1, FS_Subset
     <2>2. Cardinality(s) \in Nat
        BY <2>1, FS_CardinalityType
     <2>. QED
        BY <1>2, <2>1, <2>2
  <1>. QED
     BY <1>2, <1>3, <1>4, <1>5 DEF KeyCounts

(* The times of the rules and of the waits, as the drill needs them.       *)
LEMMA Waiting12 ==
    /\ Sustain12 \in Nat /\ Sustain13 \in Nat /\ Fresh \in Nat
    /\ Sustain12 < Sustain13 /\ Sustain13 < Fresh
    /\ \A k \in Waits : Longest(k) \in Nat
    /\ \A r \in Rules : Sustain(r) \in Nat
  BY TimesAssumption DEF Waits, Longest, Sustain

(* The platform at rest, before any drill.                                 *)
LEMMA WatchInit == ASSUME Init PROVE DInv
  <1>1. reader \in [Clients -> Readers]
     BY Counting DEF Init, Readers, NoReader, Moments
  <1>2. board \in Boards
     BY Counting, Waiting12 DEF Init, Boards
  <1>3. drill \in Drills /\ drill.step = 0
     BY Counting DEF Init, Drills, NoDrill, Switch
  <1>4. DTyped
     BY <1>1, <1>2, <1>3, Waiting12, WaitsAssumption DEF Init, DTyped
  <1>5. WaitedKnown /\ OwnProcesses
     <2>1. drill.waited = 0
        BY DEF Init, NoDrill
     <2>2. reader["drill"].pc \in Resting /\ refill["drill"] = {}
        BY DEF Init, NoReader, Resting, Clients
     <2>. QED
        BY <1>3, <2>1, <2>2 DEF WaitedKnown, OwnProcesses, Reads, Waits
  <1>6. ~Clean
     BY <1>3 DEF Clean
  <1>. QED
     BY <1>4, <1>5, <1>6
     DEF DInv, Alone, StoreKnown, ServerKnown, NeverRed, ReaderKnown, BoardKnown,
                             RulesKnown

(* What a check, noted, does to the drill's record.                        *)
LEMMA Noted ==
    ASSUME drill \in Drills, drill.step # 31, NEW ok \in BOOLEAN, Check(ok)
    PROVE  /\ drill' \in Drills /\ drill'.step = drill.step + 1 /\ drill'.waited = 0
           /\ ~drill'.red <=> (~drill.red /\ ok)
           /\ drill'.before = drill.before /\ drill'.replicas = drill.replicas
           /\ drill'.sound = drill.sound /\ drill'.meddled = drill.meddled
  <1>. DEFINE red == drill.red \/ ~ok
  <1>1. drill' = [drill EXCEPT !.step = @ + 1, !.waited = 0, !.red = red]
     BY DEF Check
  <1>2. red \in BOOLEAN
     OBVIOUS
  <1>. HIDE DEF red
  <1>3. drill.step + 1 \in 0..31
     BY DEF Drills
  <1>4. drill' \in Drills
     BY <1>1, <1>2, <1>3 DEF Drills
  <1>5. drill'.red = red
     BY <1>1 DEF Drills
  <1>6. drill'.step = drill.step + 1 /\ drill'.waited = 0
     BY <1>1 DEF Drills
  <1>7. /\ drill'.before = drill.before /\ drill'.replicas = drill.replicas
        /\ drill'.sound = drill.sound /\ drill'.meddled = drill.meddled
     BY <1>1 DEF Drills
  <1>. QED
     BY <1>4, <1>5, <1>6, <1>7 DEF red

(* A step that touches nothing the drill looks at.                         *)
LEMMA Elsewhere ==
    ASSUME DInv, UNCHANGED <<store, server, reader, refill, board, rule, drill>>,
           left' \in 0..MaxEvents
    PROVE  DInv'
  <1>1. DTyped'
     BY DEF DInv, DTyped, Sustain
  <1>2. WaitedKnown' /\ OwnProcesses' /\ Alone' /\ StoreKnown' /\ ServerKnown' /\ NeverRed'
     BY DEF DInv, WaitedKnown, OwnProcesses, Alone, StoreKnown, ServerKnown, NeverRed, Clean,
            Longest
  <1>3. ReaderKnown' /\ BoardKnown' /\ RulesKnown'
     BY DEF DInv, ReaderKnown, BoardKnown, RulesKnown, Clean, Pushed, Whole, Held, GathersWhole,
            GathersNothing
  <1>. QED
     BY <1>1, <1>2, <1>3 DEF DInv

(* What anybody else does during a drill takes it out of the invariant's   *)
(* reach; its own reader and refill run on.                                *)
LEMMA Unclean ==
    ASSUME DTyped', WaitedKnown', OwnProcesses', ~Clean'
    PROVE  DInv'
  BY DEF DInv, Alone, StoreKnown, ServerKnown, NeverRed, ReaderKnown, BoardKnown, RulesKnown

(* A step that marks the drill as meddled with leaves its place alone.     *)
LEMMA Meddled ==
    ASSUME DInv, Meddle
    PROVE  /\ drill' \in Drills /\ drill'.step = drill.step /\ drill'.waited = drill.waited
           /\ WaitedKnown' /\ ~Clean'
  <1>. DEFINE meddled == drill.step # 0
  <1>1. drill' = [drill EXCEPT !.meddled = meddled] /\ drill \in Drills
     BY DEF Meddle, DInv, DTyped
  <1>2. meddled \in BOOLEAN
     OBVIOUS
  <1>. HIDE DEF meddled
  <1>3. drill' \in Drills /\ drill'.step = drill.step /\ drill'.waited = drill.waited
     BY <1>1, <1>2 DEF Drills
  <1>4. drill'.meddled = meddled
     BY <1>1, <1>2 DEF Drills
  <1>5. WaitedKnown'
     BY <1>3 DEF DInv, WaitedKnown, Longest
  <1>. QED
     BY <1>3, <1>4, <1>5 DEF Clean, meddled

(* What may still happen from outside is counted down to none.             *)
LEMMA SpendKeeps == ASSUME DTyped, Spend PROVE left' \in 0..MaxEvents
  BY WaitsAssumption DEF DTyped, Spend

(* A reader's step, and who can take it in a drill that is left alone.     *)
LEMMA ReaderRuns ==
    ASSUME DInv, NEW c \in Clients, reader[c].pc \notin Resting
    PROVE  /\ reader[c] \in Readers
           /\ Clean => c = "drill"
           /\ c = "drill" => drill.step \in Reads /\ drill.waited = 1
  <1>1. c \in {"operator", "drill"}
     BY DEF Clients
  <1>. QED
     BY <1>1 DEF DInv, DTyped, Alone, OwnProcesses

(* A reader's step changes its own record and no other's.                  *)
LEMMA ReaderTyped ==
    ASSUME DInv, NEW c \in Clients, NEW r \in Readers, reader' = [reader EXCEPT ![c] = r]
    PROVE  /\ reader' \in [Clients -> Readers]
           /\ reader'[c] = r
           /\ \A d \in Clients \ {c} : reader'[d] = reader[d]
  BY DEF DInv, DTyped

(* A reading that goes on: it stays the drill's own, at its step.          *)
LEMMA ReadingGoesOn ==
    ASSUME DInv, NEW c \in Clients, reader[c].pc \notin Resting,
           NEW r \in Readers, r.pc \notin Resting, reader' = [reader EXCEPT ![c] = r],
           UNCHANGED <<store, server, refill, board, rule, drill, left>>,
           /\ drill.step # 9 /\ Clean /\ (drill.sound \/ (~drill.red /\ drill.step = 29)) =>
                 GathersWhole(r)
           /\ drill.step = 9 /\ Clean /\ drill.sound => GathersNothing(r)
    PROVE  DInv'
  <1>1. /\ reader' \in [Clients -> Readers] /\ reader'[c] = r
        /\ \A d \in Clients \ {c} : reader'[d] = reader[d]
     BY ReaderTyped
  <1>2. DTyped'
     BY <1>1 DEF DInv, DTyped, Sustain
  <1>3. "drill" \in Clients /\ "operator" \in Clients
     BY DEF Clients
  <1>4. CASE c = "drill"
     <2>1. drill.step \in Reads /\ drill.waited = 1
        BY <1>4, ReaderRuns
     <2>2. reader'["operator"] = reader["operator"] /\ reader'["drill"] = r
        BY <1>1, <1>3, <1>4
     <2>3. WaitedKnown' /\ OwnProcesses' /\ Alone' /\ StoreKnown' /\ ServerKnown' /\ NeverRed'
        BY <2>1, <2>2 DEF DInv, WaitedKnown, OwnProcesses, Alone, StoreKnown, ServerKnown, NeverRed,
                          Clean, Longest, Resting
     <2>4. ReaderKnown'
        BY <2>2 DEF ReaderKnown, Clean, GathersWhole, GathersNothing
     <2>5. \A k \in {2, 9, 16, 29} : Pushed(k)' <=> Pushed(k)
        BY <1>4, <2>2 DEF Pushed
     <2>6. BoardKnown'
        BY <2>5 DEF DInv, BoardKnown, Clean, Whole
     <2>7. RulesKnown'
        BY DEF DInv, RulesKnown, Clean, Held
     <2>. QED
        BY <1>2, <2>3, <2>4, <2>6, <2>7 DEF DInv
  <1>5. CASE c # "drill"
     <2>1. ~Clean'
        BY <1>5, ReaderRuns DEF Clean
     <2>2. WaitedKnown' /\ OwnProcesses'
        BY <1>1, <1>3, <1>5 DEF DInv, WaitedKnown, OwnProcesses, Longest
     <2>. QED
        BY <1>2, <2>1, <2>2, Unclean
  <1>. QED
     BY <1>4, <1>5

(* A reading given up, an unreadable count, a push that fails.             *)
LEMMA ReadingTroubled ==
    ASSUME DInv, NEW c \in Clients, reader[c].pc \notin Resting,
           NEW r \in Readers, reader' = [reader EXCEPT ![c] = r],
           Meddle, Spend, UNCHANGED <<store, server, refill, board, rule>>
    PROVE  DInv'
  <1>1. /\ reader' \in [Clients -> Readers] /\ reader'[c] = r
        /\ \A d \in Clients \ {c} : reader'[d] = reader[d]
     BY ReaderTyped
  <1>2. left' \in 0..MaxEvents
     BY SpendKeeps DEF DInv
  <1>3. /\ drill' \in Drills /\ drill'.step = drill.step /\ drill'.waited = drill.waited
        /\ WaitedKnown' /\ ~Clean'
     BY Meddled
  <1>4. DTyped'
     BY <1>1, <1>2, <1>3 DEF DInv, DTyped, Sustain
  <1>5. reader'["drill"].pc \notin Resting => drill.step \in Reads /\ drill.waited = 1
     <2>1. "drill" \in Clients
        BY DEF Clients
     <2>2. CASE c = "drill"
        BY <2>2, ReaderRuns
     <2>3. CASE c # "drill"
        BY <1>1, <2>1, <2>3 DEF DInv, OwnProcesses
     <2>. QED
        BY <2>2, <2>3
  <1>6. OwnProcesses'
     BY <1>3, <1>5 DEF DInv, OwnProcesses
  <1>. QED
     BY <1>3, <1>4, <1>6, Unclean

(* What a clean reading meets: a whole store behind a server that is up,   *)
(* or, after the flush, an empty one.                                      *)
LEMMA ReadingMeets ==
    ASSUME DInv, Clean, drill.step \in Reads
    PROVE  /\ drill.step # 9 /\ (drill.sound \/ (~drill.red /\ drill.step = 29)) =>
                 store = Parts /\ server = "up"
           /\ drill.step = 9 /\ drill.sound => store = {} /\ server = "up"
  BY DEF DInv, StoreKnown, ServerKnown, Reads

(* The reader's questions, one by one: how many keys there are, ...        *)
LEMMA KeysKeep == ASSUME DInv, QInv, NEW c \in Clients, ReadKeys(c) PROVE DInv'
  <1>1. reader[c].pc = "keys" /\ reader[c] \in Readers /\ reader[c].pc \notin Resting
     <2>1. reader[c].pc = "keys"
        BY DEF ReadKeys
     <2>. QED
        BY <2>1 DEF DInv, DTyped, Resting
  <1>2. store \in SUBSET Parts
     BY DEF QInv, WatchTyped
  <1>3. CASE /\ reader' = [reader EXCEPT ![c].pc = "zones", ![c].keys = Cardinality(store)]
             /\ UNCHANGED <<left, drill>>
     <2>. DEFINE r == [reader[c] EXCEPT !.pc = "zones", !.keys = Cardinality(store)]
     <2>1. Cardinality(store) \in KeyCounts /\ "zones" \in Moments
        BY <1>2, Counting DEF KeyCounts, Moments
     <2>2. r \in Readers
        BY <1>1, <2>1 DEF Readers
     <2>3. r.pc = "zones" /\ r.keys = Cardinality(store) /\ r.failing = reader[c].failing
        BY <1>1 DEF Readers
     <2>4. reader' = [reader EXCEPT ![c] = r]
        BY <1>3 DEF DInv, DTyped
     <2>. HIDE DEF r
     <2>5. UNCHANGED <<store, server, refill, board, rule, drill, left>>
        BY <1>3 DEF ReadKeys, world
     <2>6. Clean => c = "drill" /\ drill.step \in Reads
        BY <1>1, ReaderRuns
     <2>7. /\ drill.step # 9 /\ Clean /\ (drill.sound \/ (~drill.red /\ drill.step = 29)) =>
                 GathersWhole(r)
           /\ drill.step = 9 /\ Clean /\ drill.sound => GathersNothing(r)
        BY <1>1, <2>3, <2>6, ReadingMeets, Counting
        DEF DInv, ReaderKnown, GathersWhole, GathersNothing
     <2>. QED
        BY <1>1, <2>2, <2>3, <2>4, <2>5, <2>7, ReadingGoesOn DEF Resting
  <1>4. CASE /\ reader' = [reader EXCEPT ![c].pc = "zones", ![c].failing = {"store_reachable"}]
             /\ Spend /\ Meddle
     <2>. DEFINE r == [reader[c] EXCEPT !.pc = "zones", !.failing = {"store_reachable"}]
     <2>1. {"store_reachable"} \in SUBSET Checks /\ "zones" \in Moments
        BY DEF Checks, Moments
     <2>2. r \in Readers
        BY <1>1, <2>1 DEF Readers
     <2>3. reader' = [reader EXCEPT ![c] = r]
        BY <1>4 DEF DInv, DTyped
     <2>. HIDE DEF r
     <2>4. UNCHANGED <<store, server, refill, board, rule>>
        BY DEF ReadKeys, world
     <2>. QED
        BY <1>1, <1>4, <2>2, <2>3, <2>4, ReadingTroubled
  <1>. QED
     BY <1>3, <1>4 DEF ReadKeys

(* ... the zones and the calendar, each asked of the store as it is then;  *)
LEMMA AnswersKeep ==
    ASSUME DInv, QInv, NEW c \in Clients, ReadZones(c) \/ ReadDays(c)
    PROVE  DInv'
  <1>1. reader[c] \in Readers /\ reader[c].pc \in {"zones", "days"}
     BY DEF ReadZones, ReadDays, DInv, DTyped
  <1>2. UNCHANGED <<store, server, refill, board, rule, drill, left>>
     BY DEF ReadZones, ReadDays, world
  <1>3. Clean => c = "drill" /\ drill.step \in Reads
     BY <1>1, ReaderRuns DEF Resting
  <1>4. CASE server = "down"
     <2>. DEFINE r == LookupFailed(reader[c])
                 failing == reader[c].failing \cup (Checks \ {"store_reachable"})
     <2>1. r = [reader[c] EXCEPT !.pc = "push", !.truth = FALSE, !.failing = failing]
        BY DEF LookupFailed
     <2>2. failing \in SUBSET Checks /\ "push" \in Moments
        BY <1>1 DEF Readers, Moments
     <2>. HIDE DEF failing
     <2>3. r \in Readers /\ r.pc = "push"
        BY <1>1, <2>1, <2>2 DEF Readers
     <2>. HIDE DEF r
     <2>4. reader' = [reader EXCEPT ![c] = r]
        BY <1>4 DEF ReadZones, ReadDays, r
     <2>5. Clean => ~drill.sound /\ ~(~drill.red /\ drill.step = 29)
        BY <1>3, <1>4, ReadingMeets
     <2>. QED
        BY <1>1, <1>2, <2>3, <2>4, <2>5, ReadingGoesOn DEF Resting
  <1>5. CASE server # "down" /\ ReadZones(c)
     <2>. DEFINE failing == reader[c].failing \cup {"zone_answers" : p \in {"zones"} \ store}
                 truth == reader[c].truth /\ "zones" \in store
                 r == [reader[c] EXCEPT !.pc = "days", !.failing = failing, !.truth = truth]
     <2>1. failing \in SUBSET Checks /\ truth \in BOOLEAN /\ "days" \in Moments
        BY <1>1 DEF Readers, Moments, Checks
     <2>2. "zones" \in store => failing = reader[c].failing
        OBVIOUS
     <2>3. "zones" \notin store => failing = reader[c].failing \cup {"zone_answers"}
        OBVIOUS
     <2>4. reader' = [reader EXCEPT ![c] = r] /\ reader[c].pc = "zones"
        <3>1. Failing([reader[c] EXCEPT !.pc = "days"], "zone_answers", "zones") = r
           BY <1>1 DEF Failing, Readers
        <3>. QED
           BY <1>5, <3>1 DEF ReadZones
     <2>. HIDE DEF failing, truth
     <2>5. r \in Readers
        BY <1>1, <2>1 DEF Readers
     <2>6. r.pc = "days" /\ r.keys = reader[c].keys /\ r.failing = failing
        BY <1>1 DEF Readers
     <2>. HIDE DEF r
     <2>7. /\ drill.step # 9 /\ Clean /\ (drill.sound \/ (~drill.red /\ drill.step = 29)) =>
                 GathersWhole(r)
           /\ drill.step = 9 /\ Clean /\ drill.sound => GathersNothing(r)
        BY <1>1, <1>3, <2>2, <2>3, <2>4, <2>6, ReadingMeets
        DEF DInv, ReaderKnown, GathersWhole, GathersNothing, Resting, Parts
     <2>. QED
        BY <1>1, <1>2, <2>4, <2>5, <2>6, <2>7, ReadingGoesOn DEF Resting
  <1>6. CASE server # "down" /\ ReadDays(c)
     <2>. DEFINE failing == reader[c].failing \cup {"calendar_answers" : p \in {"day"} \ store}
                 truth == reader[c].truth /\ "day" \in store
                 r == [reader[c] EXCEPT !.pc = "push", !.failing = failing, !.truth = truth]
     <2>1. failing \in SUBSET Checks /\ truth \in BOOLEAN /\ "push" \in Moments
        BY <1>1 DEF Readers, Moments, Checks
     <2>2. "day" \in store => failing = reader[c].failing
        OBVIOUS
     <2>3. "day" \notin store => failing = reader[c].failing \cup {"calendar_answers"}
        OBVIOUS
     <2>4. reader' = [reader EXCEPT ![c] = r] /\ reader[c].pc = "days"
        <3>1. Failing([reader[c] EXCEPT !.pc = "push"], "calendar_answers", "day") = r
           BY <1>1 DEF Failing, Readers
        <3>. QED
           BY <1>6, <3>1 DEF ReadDays
     <2>. HIDE DEF failing, truth
     <2>5. r \in Readers
        BY <1>1, <2>1 DEF Readers
     <2>6. r.pc = "push" /\ r.keys = reader[c].keys /\ r.failing = failing
        BY <1>1 DEF Readers
     <2>. HIDE DEF r
     <2>7. /\ drill.step # 9 /\ Clean /\ (drill.sound \/ (~drill.red /\ drill.step = 29)) =>
                 GathersWhole(r)
           /\ drill.step = 9 /\ Clean /\ drill.sound => GathersNothing(r)
        BY <1>1, <1>3, <2>2, <2>3, <2>4, <2>6, ReadingMeets
        DEF DInv, ReaderKnown, GathersWhole, GathersNothing, Resting, Parts
     <2>. QED
        BY <1>1, <1>2, <2>4, <2>5, <2>6, <2>7, ReadingGoesOn DEF Resting
  <1>. QED
     BY <1>4, <1>5, <1>6

(* ... and the push: a clean drill's reading reaches the board whole.      *)
LEMMA PushKeeps == ASSUME DInv, NEW c \in Clients, Push(c) PROVE DInv'
  <1>1. reader[c] \in Readers /\ reader[c].pc = "push" /\ reader[c].pc \notin Resting
     <2>1. reader[c].pc = "push"
        BY DEF Push
     <2>. QED
        BY <2>1 DEF DInv, DTyped, Resting
  <1>2. UNCHANGED <<store, server, refill, rule>>
     BY DEF Push, world
  <1>3. CASE /\ reader' = [reader EXCEPT ![c] = [NoReader EXCEPT !.pc = "failed"]]
             /\ Spend /\ Meddle /\ UNCHANGED board
     <2>1. [NoReader EXCEPT !.pc = "failed"] \in Readers
        BY Counting DEF NoReader, Readers, Moments
     <2>. QED
        BY <1>1, <1>2, <1>3, <2>1, ReadingTroubled
  <1>4. CASE /\ reader' = [reader EXCEPT ![c] = NoReader]
             /\ board' = [keys |-> reader[c].keys, failing |-> reader[c].failing,
                          truth |-> reader[c].truth, age |-> 0]
             /\ UNCHANGED <<left, drill>>
     <2>1. NoReader \in Readers /\ NoReader.pc = "idle"
        BY Counting DEF NoReader, Readers, Moments
     <2>2. /\ reader' \in [Clients -> Readers] /\ reader'[c] = NoReader
           /\ \A d \in Clients \ {c} : reader'[d] = reader[d]
        BY <1>4, <2>1, ReaderTyped
     <2>3. /\ board' \in Boards
           /\ board'.keys = reader[c].keys /\ board'.failing = reader[c].failing
           /\ board'.age = 0
        BY <1>1, <1>4, Waiting12 DEF Readers, Boards
     <2>4. DTyped'
        BY <1>2, <1>4, <2>2, <2>3 DEF DInv, DTyped, Sustain
     <2>5. "drill" \in Clients /\ "operator" \in Clients
        BY DEF Clients
     <2>6. CASE c = "drill"
        <3>1. drill.step \in Reads /\ drill.waited = 1
           BY <1>1, <2>6, ReaderRuns
        <3>2. reader'["operator"] = reader["operator"] /\ reader'["drill"].pc = "idle"
           BY <2>1, <2>2, <2>5, <2>6
        <3>3. WaitedKnown' /\ OwnProcesses' /\ Alone' /\ StoreKnown' /\ ServerKnown' /\ NeverRed'
           BY <1>2, <1>4, <3>1, <3>2
           DEF DInv, WaitedKnown, OwnProcesses, Alone, StoreKnown, ServerKnown,
              NeverRed, Clean, Longest, Resting
        <3>4. ReaderKnown'
           BY <3>2 DEF ReaderKnown, Resting
        <3>5. \A k \in {2, 9, 16, 29} : Pushed(k)' <=> drill.step >= k
           BY <1>4, <3>1, <3>2 DEF Pushed, Resting, Reads
        <3>6. /\ Clean /\ drill.step # 9 /\ (drill.sound \/ (~drill.red /\ drill.step = 29)) =>
                    Whole'
              /\ Clean /\ drill.step = 9 /\ drill.sound =>
                    board'.keys = 0 /\ board'.failing = {"zone_answers", "calendar_answers"}
           BY <1>1, <2>3, <2>6 DEF DInv, ReaderKnown, GathersWhole, GathersNothing, Whole
        <3>7. BoardKnown'
           BY <1>4, <2>3, <3>1, <3>5, <3>6 DEF BoardKnown, Clean, Reads
        <3>8. RulesKnown'
           BY <1>2, <1>4 DEF DInv, RulesKnown, Clean, Held
        <3>. QED
           BY <2>4, <3>3, <3>4, <3>7, <3>8 DEF DInv
     <2>7. CASE c # "drill"
        <3>1. ~Clean'
           BY <1>1, <1>4, <2>7, ReaderRuns DEF Clean
        <3>2. WaitedKnown' /\ OwnProcesses'
           BY <1>2, <1>4, <2>2, <2>5, <2>7 DEF DInv, WaitedKnown, OwnProcesses, Longest
        <3>. QED
           BY <2>4, <3>1, <3>2, Unclean
     <2>. QED
        BY <2>6, <2>7
  <1>. QED
     BY <1>3, <1>4 DEF Push

(* A refill writes one part more; the drill's own never writes outside its *)
(* step, and a clean drill has no other beside it.                         *)
LEMMA WriteKeeps == ASSUME DInv, QInv, NEW c \in Clients, Write(c) PROVE DInv'
  <1>1. PICK p \in refill[c] :
           /\ refill' = [refill EXCEPT ![c] = @ \ {p}]
           /\ store' = store \cup {p} /\ server' = server
           /\ UNCHANGED <<reader, board, rule, drill, left>>
     BY DEF Write, Change
  <1>2. /\ refill'[c] = refill[c] \ {p}
        /\ \A d \in Clients \ {c} : refill'[d] = refill[d]
     BY <1>1 DEF QInv, WatchTyped
  <1>3. DTyped' /\ WaitedKnown'
     BY <1>1 DEF DInv, DTyped, Sustain, WaitedKnown, Longest
  <1>4. "drill" \in Clients /\ "operator" \in Clients /\ c \in {"drill", "operator"}
     BY DEF Clients
  <1>5. OwnProcesses'
     BY <1>1, <1>2, <1>4 DEF DInv, OwnProcesses
  <1>6. CASE Clean
     <2>1. c = "drill" /\ drill.step = 14 /\ drill.waited = 1
        BY <1>1, <1>4, <1>6 DEF DInv, Alone, OwnProcesses
     <2>2. Alone'
        BY <1>1, <1>2, <1>4, <2>1 DEF DInv, Alone, Clean
     <2>3. StoreKnown'
        BY <1>1, <1>2, <2>1 DEF DInv, StoreKnown, Clean
     <2>4. ServerKnown' /\ NeverRed' /\ ReaderKnown' /\ RulesKnown'
        BY <1>1 DEF DInv, ServerKnown, NeverRed, ReaderKnown, RulesKnown, Clean, GathersWhole,
                    GathersNothing, Held
     <2>5. BoardKnown'
        BY <1>1 DEF DInv, BoardKnown, Clean, Pushed, Whole
     <2>. QED
        BY <1>3, <1>5, <2>2, <2>3, <2>4, <2>5 DEF DInv
  <1>7. CASE ~Clean
     BY <1>1, <1>3, <1>5, <1>7, Unclean DEF Clean
  <1>. QED
     BY <1>6, <1>7

(* What anybody else does takes the drill out of the invariant's reach.    *)
LEMMA OthersKeep ==
    ASSUME DInv, QInv,
           (\E c \in Clients : Abandon(c)) \/ Watch \/ Materialize \/ Lose
    PROVE  DInv'
  <1>1. Meddle /\ Spend /\ UNCHANGED rule
     BY DEF Abandon, Watch, Materialize, Lose
  <1>2. /\ drill' \in Drills /\ drill'.step = drill.step /\ drill'.waited = drill.waited
        /\ WaitedKnown' /\ ~Clean'
     BY <1>1, Meddled
  <1>3. left' \in 0..MaxEvents
     BY <1>1, SpendKeeps DEF DInv
  <1>4. "drill" \in Clients /\ "operator" \in Clients /\ "drill" # "operator"
     BY DEF Clients
  <1>5. reader' \in [Clients -> Readers] /\ reader'["drill"] = reader["drill"]
     <2>1. CASE Watch
        <3>1. [NoReader EXCEPT !.pc = "keys"] \in Readers
           BY Counting DEF NoReader, Readers, Moments
        <3>. QED
           BY <1>4, <2>1, <3>1 DEF Watch, StartReader, DInv, DTyped
     <2>2. CASE (\E c \in Clients : Abandon(c)) \/ Materialize \/ Lose
        BY <2>2 DEF Abandon, Materialize, Lose, DInv, DTyped
     <2>. QED
        BY <2>1, <2>2
  <1>6. board' \in Boards
     <2>1. NoBoard \in Boards
        BY Counting, Waiting12 DEF NoBoard, Boards
     <2>. QED
        BY <2>1 DEF Abandon, Watch, Materialize, Lose, DInv, DTyped
  <1>7. refill'["drill"] # {} => refill["drill"] # {}
     BY <1>4 DEF Abandon, Watch, Materialize, Lose, QInv, WatchTyped
  <1>8. DTyped'
     BY <1>1, <1>2, <1>3, <1>5, <1>6 DEF DInv, DTyped, Sustain
  <1>9. OwnProcesses'
     BY <1>2, <1>5, <1>7 DEF DInv, OwnProcesses
  <1>. QED
     BY <1>2, <1>8, <1>9, Unclean

(* A drill starts at its first step, killed or closed it is at none; only  *)
(* then can its processes have ended any way.                              *)
LEMMA StartKeeps == ASSUME DInv, QInv, StartDrill PROVE DInv'
  <1>. DEFINE sound == store = Parts /\ server = "up"
              meddled == \/ reader["operator"].pc \notin {"idle", "failed"}
                         \/ refill["operator"] # {}
  <1>1. /\ drill' = [NoDrill EXCEPT !.step = 1, !.sound = sound, !.meddled = meddled]
        /\ UNCHANGED <<store, server, reader, refill, board, rule>> /\ Spend /\ drill.step = 0
     BY DEF StartDrill, world
  <1>2. sound \in BOOLEAN /\ meddled \in BOOLEAN
     OBVIOUS
  <1>3. sound => store = Parts /\ server = "up"
     OBVIOUS
  <1>4. ~meddled => reader["operator"].pc \in Resting /\ refill["operator"] = {}
     BY DEF Resting
  <1>. HIDE DEF sound, meddled
  <1>5. drill' = [step |-> 1, red |-> FALSE, before |-> 0, replicas |-> "up", waited |-> 0,
                  sound |-> sound, meddled |-> meddled]
     BY <1>1 DEF NoDrill
  <1>6. drill' \in Drills
     BY <1>2, <1>5, Counting DEF Drills, Switch
  <1>7. /\ drill'.step = 1 /\ drill'.waited = 0 /\ drill'.red = FALSE /\ drill'.replicas = "up"
     BY <1>5
  <1>8. drill'.sound = sound
     BY <1>5
  <1>9. drill'.meddled = meddled
     BY <1>5
  <1>10. left' \in 0..MaxEvents
     BY <1>1, SpendKeeps DEF DInv
  <1>11. DTyped'
     BY <1>1, <1>6, <1>10 DEF DInv, DTyped, Sustain
  <1>12. reader["drill"].pc \in Resting /\ refill["drill"] = {}
     BY <1>1 DEF DInv, OwnProcesses, Reads
  <1>13. WaitedKnown' /\ OwnProcesses'
     BY <1>1, <1>7, <1>12 DEF WaitedKnown, OwnProcesses, Reads, Waits
  <1>14. Alone'
     BY <1>1, <1>4, <1>7, <1>9 DEF Alone, Clean, Reads
  <1>15. StoreKnown'
     BY <1>1, <1>3, <1>7, <1>8 DEF StoreKnown
  <1>16. ServerKnown' /\ NeverRed'
     BY <1>1, <1>3, <1>7, <1>8 DEF ServerKnown, NeverRed
  <1>17. ReaderKnown'
     BY <1>1, <1>12 DEF ReaderKnown
  <1>18. BoardKnown' /\ RulesKnown'
     BY <1>7 DEF BoardKnown, RulesKnown, Pushed
  <1>. QED
     BY <1>11, <1>13, <1>14, <1>15, <1>16, <1>17, <1>18 DEF DInv

(* A drill that is killed or closed is no drill, and nothing is claimed.   *)
LEMMA EndKeeps == ASSUME DInv, QInv, KillDrill \/ CloseDrill PROVE DInv'
  <1>1. /\ drill' = NoDrill
        /\ UNCHANGED <<store, server, board, rule>>
     BY DEF KillDrill, CloseDrill, world
  <1>2. drill' \in Drills /\ drill'.step = 0 /\ drill'.waited = 0
     BY <1>1, Counting DEF NoDrill, Drills, Switch
  <1>3. "drill" \in Clients
     BY DEF Clients
  <1>4. reader' \in [Clients -> Readers] /\ reader'["drill"].pc \in Resting /\ refill'["drill"] = {}
     <2>1. CASE KillDrill
        <3>1. NoReader \in Readers /\ NoReader.pc \in Resting
           BY Counting DEF NoReader, Readers, Moments, Resting
        <3>. QED
           BY <1>3, <2>1, <3>1 DEF KillDrill, DInv, DTyped, QInv, WatchTyped
     <2>2. CASE CloseDrill
        <3>1. drill.step = 31
           BY <2>2, TheScript DEF CloseDrill, Passed, Red
        <3>2. UNCHANGED <<reader, refill>>
           BY <2>2 DEF CloseDrill
        <3>. QED
           BY <3>1, <3>2 DEF DInv, DTyped, OwnProcesses, Reads
     <2>. QED
        BY <2>1, <2>2
  <1>5. left' \in 0..MaxEvents
     BY SpendKeeps DEF KillDrill, CloseDrill, DInv, DTyped
  <1>6. DTyped'
     BY <1>1, <1>2, <1>4, <1>5 DEF DInv, DTyped, Sustain
  <1>7. WaitedKnown' /\ OwnProcesses' /\ ~Clean'
     BY <1>2, <1>4 DEF WaitedKnown, OwnProcesses, Clean, Reads, Waits
  <1>. QED
     BY <1>6, <1>7, Unclean

-----------------------------------------------------------------------------
(* The drill's own steps.  A check takes it to the next step; what it has  *)
(* to leave behind there, each step must have brought about.               *)
LEMMA CheckKeeps ==
    ASSUME DInv, NEW ok \in BOOLEAN, Check(ok), drill.step \in (1..30) \ {6, 14, 20, 22, 25},
           UNCHANGED <<store, server, reader, refill, board, rule, left>>,
           drill.step \in Reads => drill.waited = 1 /\ reader["drill"].pc \in Resting,
           Clean /\ drill.sound => ok,
           Clean /\ drill.step = 23 /\ ok => server = "up",
           Clean /\ drill.sound /\ drill.step \in {5, 17} => Held({}, 0),
           Clean /\ drill.sound /\ drill.step = 10 => drill.waited = Sustain12 + 1,
           Clean /\ drill.sound /\ drill.step = 27 => drill.waited = Sustain13 + 1
    PROVE  DInv'
  <1>1. /\ drill' \in Drills /\ drill'.step = drill.step + 1 /\ drill'.waited = 0
        /\ ~drill'.red <=> (~drill.red /\ ok)
        /\ drill'.before = drill.before /\ drill'.replicas = drill.replicas
        /\ drill'.sound = drill.sound /\ drill'.meddled = drill.meddled
     BY Noted DEF DInv, DTyped
  <1>2. DTyped'
     BY <1>1 DEF DInv, DTyped, Sustain
  <1>3. reader["drill"].pc \in Resting /\ refill["drill"] = {}
     BY DEF DInv, OwnProcesses
  <1>4. WaitedKnown' /\ OwnProcesses'
     BY <1>1, <1>3, Waiting12 DEF WaitedKnown, OwnProcesses, Longest
  <1>5. Clean' => Clean
     BY <1>1 DEF Clean
  <1>6. Alone'
     BY <1>1, <1>5 DEF DInv, Alone
  <1>7. StoreKnown'
     BY <1>1, <1>5 DEF DInv, StoreKnown
  <1>8. ServerKnown'
     BY <1>1, <1>5 DEF DInv, ServerKnown
  <1>9. NeverRed'
     BY <1>1, <1>5 DEF DInv, NeverRed
  <1>10. ReaderKnown'
     BY <1>3 DEF ReaderKnown
  <1>11. \A k \in {2, 9, 16, 29} :
             (Pushed(k) <=> drill.step >= k) /\ (Pushed(k)' <=> drill.step >= k)
     BY <1>1, <1>3 DEF Pushed, Reads, Drills
  <1>12. BoardKnown'
     <2>1. SUFFICES ASSUME Clean' PROVE BoardKnown'
        BY DEF BoardKnown
     <2>2. Whole' <=> Whole
        BY DEF Whole
     <2>3. /\ drill.sound /\ drill.step >= 2 /\ drill.step < 9 => Whole
           /\ drill.sound /\ drill.step >= 9 /\ drill.step < 16 =>
                 board.keys = 0 /\ board.failing = {"zone_answers", "calendar_answers"}
           /\ drill.sound /\ drill.step = 9 => board.age = 0
           /\ drill.sound /\ drill.step >= 16 /\ drill.step <= 25 => Whole
           /\ drill.sound /\ drill.step >= 26 /\ drill.step < 29 => board = NoBoard
           /\ (drill.sound \/ ~drill.red) /\ drill.step >= 29 => Whole
        BY <1>1, <1>5, <1>11, <2>1 DEF DInv, BoardKnown
     <2>. QED
        BY <1>1, <1>11, <2>2, <2>3 DEF BoardKnown
  <1>13. RulesKnown'
     <2>1. SUFFICES ASSUME Clean', drill'.sound PROVE RulesKnown'
        BY DEF RulesKnown
     <2>2. /\ drill.step \in 5..8 \cup 17..25 => Held({}, 0)
           /\ drill.step = 9 => Held(Lost, 0)
           /\ drill.step \in 10..16 => Held(Lost, Sustain12 + 1)
           /\ drill.step = 26 => Held({"absent"}, 0)
           /\ drill.step \in 27..29 => Held({"absent"}, Sustain13 + 1)
        <3>1. Clean /\ drill.sound /\ RulesKnown
           BY <1>1, <1>5, <2>1 DEF DInv
        <3>2. drill.step \in 5..8 \cup 17..25 => Held({}, 0)
           BY <3>1 DEF RulesKnown
        <3>3. drill.step = 9 => Held(Lost, 0)
           BY <3>1 DEF RulesKnown, Held
        <3>4. drill.step \in 10..16 => Held(Lost, Sustain12 + 1)
           BY <3>1 DEF RulesKnown
        <3>5. drill.step = 26 => Held({"absent"}, 0)
           BY <3>1 DEF RulesKnown, Held
        <3>6. drill.step \in 27..29 => Held({"absent"}, Sustain13 + 1)
           BY <3>1 DEF RulesKnown
        <3>. QED
           BY <3>2, <3>3, <3>4, <3>5, <3>6
     <2>3. \A active, n : Held(active, n)' <=> Held(active, n)
        BY DEF Held
     <2>. QED
        BY <1>1, <2>2, <2>3, Waiting12 DEF RulesKnown
  <1>. QED
     BY <1>2, <1>4, <1>6, <1>7, <1>8, <1>9, <1>10, <1>12, <1>13 DEF DInv

(* On a platform that was sound, every look finds what it looks for.       *)
LEMMA QuoteFinds ==
    ASSUME DInv, Clean, drill.sound, drill.step \in {3, 4, 7, 8, 19, 21}
    PROVE  StatusNow(Step.arg) = Step.who /\ (Step.who = 200 => "zones" \in store)
  <1>1. /\ drill.step \in {3, 4, 19} => store = Parts /\ server = "up"
        /\ drill.step \in {7, 8} => store = {} /\ server = "up"
        /\ drill.step = 21 => server = "down"
     BY DEF DInv, StoreKnown, ServerKnown
  <1>2. "day" \in Parts /\ "beyond" \notin Parts /\ "sentinel" \in Parts /\ "zones" \in Parts
     BY DEF Parts
  <1>3. CASE drill.step \in {3, 19}
     <2>1. Script[3] = Op("quote", 200, {"day"}) /\ Script[19] = Op("quote", 200, {"day"})
        BY TheScript
     <2>2. Step.who = 200 /\ Step.arg = {"day"}
        BY <1>3, <2>1 DEF Step, Op
     <2>. QED
        BY <1>1, <1>2, <1>3, <2>2 DEF StatusNow
  <1>4. CASE drill.step = 4
     <2>1. Script[4] = Op("quote", 422, {"beyond"})
        BY TheScript
     <2>2. Step.who = 422 /\ Step.arg = {"beyond"}
        BY <1>4, <2>1 DEF Step, Op
     <2>. QED
        BY <1>1, <1>2, <1>4, <2>2 DEF StatusNow
  <1>5. CASE drill.step \in {7, 8, 21}
     <2>1. /\ Script[7] = Op("quote", 503, {"day"}) /\ Script[8] = Op("quote", 503, {"beyond"})
           /\ Script[21] = Op("quote", 503, {"day"})
        BY TheScript
     <2>2. Step.who = 503 /\ Step.arg \in {{"day"}, {"beyond"}}
        BY <1>5, <2>1 DEF Step, Op
     <2>. QED
        BY <1>1, <1>5, <2>2 DEF StatusNow, Answered
  <1>. QED
     BY <1>3, <1>4, <1>5

(* The rules a canary speaks for, and how long each has to hold.           *)
LEMMA Rulings ==
    /\ Canary \subseteq Rules /\ "incomplete" \in Rules /\ "absent" \in Rules
    /\ "incomplete" \notin Canary /\ "absent" \notin Canary
    /\ {"zone_answers", "calendar_answers"} \subseteq Canary
    /\ \A r \in Rules : Sustain(r) = IF r = "absent" THEN Sustain13 ELSE Sustain12
  BY DEF Canary, Checks, Rules, Sustain

(* A look at what is there now, each kind of check at its steps.           *)
LEMMA LookKeeps == ASSUME DInv, QInv, Look PROVE DInv'
  <1>1. UNCHANGED <<store, server, reader, refill, board, rule, left>>
     BY DEF Look, world
  <1>2. drill.step \in 0..31
     BY DEF DInv, DTyped, Drills
  <1>3. CASE At("keys")
     <2>. DEFINE ok == store # {}
     <2>1. drill.step \in {1, 26}
        BY <1>2, <1>3, Kinds
     <2>2. Clean /\ drill.sound => ok
        BY <2>1 DEF DInv, StoreKnown, Parts
     <2>3. Check(ok) /\ ok \in BOOLEAN
        BY <1>3 DEF Look, At
     <2>. HIDE DEF ok
     <2>. QED
        BY <1>1, <2>1, <2>2, <2>3, CheckKeeps DEF Reads
  <1>4. CASE At("quote")
     <2>. DEFINE ok == /\ StatusNow(Step.arg) = Step.who
                       /\ Step.who = 200 => "zones" \in store
     <2>1. drill.step \in {3, 4, 7, 8, 19, 21}
        BY <1>2, <1>4, Kinds
     <2>2. Clean /\ drill.sound => ok
        BY <2>1, QuoteFinds
     <2>3. Check(ok)
        BY <1>4 DEF Look, At
     <2>4. ok \in BOOLEAN
        OBVIOUS
     <2>. HIDE DEF ok
     <2>. QED
        BY <1>1, <2>1, <2>2, <2>3, <2>4, CheckKeeps DEF Reads
  <1>5. CASE At("names")
     <2>. DEFINE ok == \A r \in Step.arg : Firing(r)
     <2>1. drill.step = 12
        BY <1>2, <1>5, Kinds
     <2>2. Step.arg = {"zone_answers", "calendar_answers"}
        <3>1. Script[12] = Op("names", "none", {"zone_answers", "calendar_answers"})
           BY TheScript
        <3>. QED
           BY <2>1, <3>1 DEF Step, Op
     <2>3. ASSUME Clean, drill.sound PROVE ok
        <3>1. Held(Lost, Sustain12 + 1)
           BY <2>1, <2>3 DEF DInv, RulesKnown
        <3>. QED
           BY <2>2, <3>1, Rulings, Waiting12 DEF Held, Lost, Firing, Canary, Checks
     <2>4. Check(ok) /\ ok \in BOOLEAN
        BY <1>5 DEF Look, At
     <2>. HIDE DEF ok
     <2>. QED
        BY <1>1, <2>1, <2>3, <2>4, CheckKeeps DEF Reads
  <1>6. CASE At("silent")
     <2>. DEFINE ok == \A r \in Step.arg : ~Firing(r)
     <2>1. drill.step \in {13, 28}
        BY <1>2, <1>6, Kinds
     <2>2. /\ drill.step = 13 => Step.arg = {"absent"}
           /\ drill.step = 28 => Step.arg = Canary
        <3>1. /\ Script[13] = Op("silent", "none", {"absent"})
              /\ Script[28] = Op("silent", "none", Canary)
           BY TheScript
        <3>. QED
           BY <3>1 DEF Step, Op
     <2>3. ASSUME Clean, drill.sound PROVE ok
        <3>1. CASE drill.step = 13
           <4>1. Held(Lost, Sustain12 + 1)
              BY <2>3, <3>1 DEF DInv, RulesKnown
           <4>2. rule["absent"] = 0
              BY <4>1, Rulings DEF Held, Lost
           <4>. QED
              BY <2>2, <3>1, <4>2, Rulings, Waiting12 DEF Firing
        <3>2. CASE drill.step = 28
           <4>1. Held({"absent"}, Sustain13 + 1)
              BY <2>3, <3>2 DEF DInv, RulesKnown
           <4>2. \A r \in Canary : rule[r] = 0 /\ Sustain(r) \in Nat
              BY <4>1, Rulings, Waiting12 DEF Held
           <4>. QED
              BY <2>2, <3>2, <4>2 DEF Firing
        <3>. QED
           BY <2>1, <3>1, <3>2
     <2>4. Check(ok) /\ ok \in BOOLEAN
        BY <1>6 DEF Look, At
     <2>. HIDE DEF ok
     <2>. QED
        BY <1>1, <2>1, <2>3, <2>4, CheckKeeps DEF Reads
  <1>7. CASE At("inactive")
     <2>. DEFINE ok == \A r \in Step.arg : Inactive(r)
     <2>1. drill.step = 24
        BY <1>2, <1>7, Kinds
     <2>2. Step.arg = {"absent"}
        <3>1. Script[24] = Op("inactive", "none", {"absent"})
           BY TheScript
        <3>. QED
           BY <2>1, <3>1 DEF Step, Op
     <2>3. ASSUME Clean, drill.sound PROVE ok
        <3>1. Held({}, 0)
           BY <2>1, <2>3 DEF DInv, RulesKnown
        <3>. QED
           BY <2>2, <3>1, Rulings DEF Held, Inactive
     <2>4. Check(ok) /\ ok \in BOOLEAN
        BY <1>7 DEF Look, At
     <2>. HIDE DEF ok
     <2>. QED
        BY <1>1, <2>1, <2>3, <2>4, CheckKeeps DEF Reads
  <1>8. CASE At("restored")
     <2>. DEFINE ok == Cardinality(store) = drill.before
     <2>1. drill.step = 15
        BY <1>2, <1>8, Kinds
     <2>2. Clean /\ drill.sound => ok
        BY <2>1 DEF DInv, StoreKnown
     <2>3. Check(ok) /\ ok \in BOOLEAN
        BY <1>8 DEF Look, At
     <2>. HIDE DEF ok
     <2>. QED
        BY <1>1, <2>1, <2>2, <2>3, CheckKeeps DEF Reads
  <1>. QED
     BY <1>3, <1>4, <1>5, <1>6, <1>7, <1>8 DEF Look

(* What a wait is for, step by step.                                       *)
LEMMA Reaching ==
    ASSUME drill.step \in Waits
    PROVE  /\ drill.step = 5 => (Reached <=> \A r \in Rules : rule[r] = 0)
           /\ drill.step = 10 => (Reached <=> \E r \in Canary : Firing(r))
           /\ drill.step = 11 => (Reached <=> Firing("incomplete"))
           /\ drill.step = 17 => (Reached <=> \A r \in Canary : rule[r] = 0)
           /\ drill.step = 18 => (Reached <=> rule["incomplete"] = 0)
           /\ drill.step = 23 => (Reached <=> StatusNow({"day"}) = 200)
           /\ drill.step = 27 => (Reached <=> Firing("absent"))
           /\ drill.step = 30 => (Reached <=> rule["absent"] = 0)
  <1>1. ASSUME drill.step \in {5, 17, 18, 30}
        PROVE  Reached <=> \A r \in Step.arg : rule[r] = 0
     <2>1. Step.op = "quiet"
        BY <1>1, Operations DEF Step
     <2>. QED
        BY <2>1 DEF Reached, Inactive
  <1>2. ASSUME drill.step \in {10, 11, 27}
        PROVE  Reached <=> \E r \in Step.arg : Firing(r)
     <2>1. Step.op = "fires"
        BY <1>2, Operations DEF Step
     <2>. QED
        BY <2>1 DEF Reached
  <1>3. ASSUME drill.step = 23
        PROVE  Reached <=> StatusNow(Step.arg) = 200
     <2>1. Step.op = "answers"
        BY <1>3, Operations DEF Step
     <2>. QED
        BY <2>1 DEF Reached
  <1>4. /\ drill.step = 5 => Step.arg = Rules
        /\ drill.step \in {10, 17} => Step.arg = Canary
        /\ drill.step \in {11, 18} => Step.arg = {"incomplete"}
        /\ drill.step \in {27, 30} => Step.arg = {"absent"}
        /\ drill.step = 23 => Step.arg = {"day"}
     <2>1. /\ Script[5] = Op("quiet", "health", Rules)
           /\ Script[10] = Op("fires", "a12", Canary)
           /\ Script[11] = Op("fires", "a12", {"incomplete"})
           /\ Script[17] = Op("quiet", "a12", Canary)
           /\ Script[18] = Op("quiet", "a12", {"incomplete"})
           /\ Script[23] = Op("answers", "server", {"day"})
           /\ Script[27] = Op("fires", "a13", {"absent"})
           /\ Script[30] = Op("quiet", "a12", {"absent"})
        BY TheScript
     <2>. QED
        BY <2>1 DEF Step, Op
  <1>5. drill.step = 5 => (Reached <=> \A r \in Rules : rule[r] = 0)
     BY <1>1, <1>4
  <1>6. drill.step \in {10, 17} =>
           /\ drill.step = 10 => (Reached <=> \E r \in Canary : Firing(r))
           /\ drill.step = 17 => (Reached <=> \A r \in Canary : rule[r] = 0)
     BY <1>1, <1>2, <1>4
  <1>7. /\ drill.step = 11 => (Reached <=> Firing("incomplete"))
        /\ drill.step = 18 => (Reached <=> rule["incomplete"] = 0)
     BY <1>1, <1>2, <1>4
  <1>8. /\ drill.step = 27 => (Reached <=> Firing("absent"))
        /\ drill.step = 30 => (Reached <=> rule["absent"] = 0)
     BY <1>1, <1>2, <1>4
  <1>9. drill.step = 23 => (Reached <=> StatusNow({"day"}) = 200)
     BY <1>3, <1>4
  <1>. QED
     BY <1>5, <1>6, <1>7, <1>8, <1>9

(* On a platform that was sound: what a wait knows while it waits, that it *)
(* is over by the time the patience is, and what it leaves.                *)
LEMMA WaitEnds ==
    ASSUME DInv, Clean, drill.sound, drill.step \in Waits
    PROVE  /\ drill.waited = Longest(drill.step) => Reached
           /\ drill.step \in {11, 18, 23} => Reached
           /\ Reached /\ drill.step \in {5, 17} => Held({}, 0)
           /\ Reached /\ drill.step = 10 => drill.waited = Sustain12 + 1
           /\ Reached /\ drill.step = 27 => drill.waited = Sustain13 + 1
           /\ ~Reached /\ drill.step = 10 => drill.waited <= Sustain12
           /\ ~Reached /\ drill.step = 27 => drill.waited <= Sustain13
  <1>1. drill.waited \in Nat /\ Sustain12 \in Nat /\ Sustain13 \in Nat
     BY Waiting12 DEF DInv, DTyped, Drills
  <1>2. CASE drill.step = 5
     <2>1. drill.waited > 0 => Held({}, 0)
        BY <1>2 DEF DInv, RulesKnown
     <2>2. Reached <=> Held({}, 0)
        BY <1>2, Reaching DEF Held
     <2>3. Longest(5) > 0
        BY WaitsAssumption, TimesAssumption DEF Longest
     <2>. QED
        BY <1>2, <2>1, <2>2, <2>3
  <1>3. CASE drill.step = 10
     <2>1. Held(Lost, drill.waited) /\ drill.waited <= Sustain12 + 1
        BY <1>3 DEF DInv, RulesKnown
     <2>2. /\ \A r \in Canary : rule[r] \in {0, drill.waited} /\ Sustain(r) = Sustain12
           /\ "zone_answers" \in Canary /\ rule["zone_answers"] = drill.waited
        BY <2>1, Rulings DEF Held, Lost
     <2>3. Reached <=> drill.waited > Sustain12
        BY <1>1, <1>3, <2>2, Reaching DEF Firing
     <2>4. Longest(10) > Sustain12 /\ Longest(10) \in Nat
        BY WaitsAssumption, TimesAssumption DEF Longest
     <2>. QED
        BY <1>1, <1>3, <2>1, <2>3, <2>4
  <1>4. CASE drill.step = 11
     <2>1. Held(Lost, Sustain12 + 1)
        BY <1>4 DEF DInv, RulesKnown
     <2>2. rule["incomplete"] = Sustain12 + 1 /\ Sustain("incomplete") = Sustain12
        BY <2>1, Rulings DEF Held, Lost
     <2>3. Reached
        BY <1>1, <1>4, <2>2, Reaching DEF Firing
     <2>. QED
        BY <1>4, <2>3
  <1>5. CASE drill.step = 17
     <2>1. drill.waited > 0 => Held({}, 0)
        BY <1>5 DEF DInv, RulesKnown
     <2>2. drill.waited = 0 => rule["zone_answers"] = Sustain12 + 1 /\ "zone_answers" \in Canary
        BY <1>5, Rulings DEF DInv, RulesKnown, Held, Lost
     <2>3. Reached <=> \A r \in Canary : rule[r] = 0
        BY <1>5, Reaching
     <2>4. Reached <=> drill.waited > 0
        BY <1>1, <2>1, <2>2, <2>3, Rulings DEF Held
     <2>5. Longest(17) > 0
        BY WaitsAssumption, TimesAssumption DEF Longest
     <2>. QED
        BY <1>5, <2>1, <2>4, <2>5
  <1>6. CASE drill.step = 18
     <2>1. Held({}, 0)
        BY <1>6 DEF DInv, RulesKnown
     <2>2. Reached
        BY <1>6, <2>1, Reaching, Rulings DEF Held
     <2>. QED
        BY <1>6, <2>2
  <1>7. CASE drill.step = 23
     <2>1. store = Parts /\ server = "up"
        BY <1>7 DEF DInv, StoreKnown, ServerKnown
     <2>2. {"day"} \subseteq store
        BY <2>1 DEF Parts
     <2>3. Reached
        BY <1>7, <2>1, <2>2, Reaching DEF StatusNow
     <2>. QED
        BY <1>7, <2>3
  <1>8. CASE drill.step = 27
     <2>1. Held({"absent"}, drill.waited) /\ drill.waited <= Sustain13 + 1
        BY <1>8 DEF DInv, RulesKnown
     <2>2. rule["absent"] = drill.waited /\ Sustain("absent") = Sustain13
        BY <2>1, Rulings DEF Held
     <2>3. Reached <=> drill.waited > Sustain13
        BY <1>8, <2>2, Reaching DEF Firing
     <2>4. Longest(27) > Sustain13 /\ Longest(27) \in Nat
        BY WaitsAssumption, TimesAssumption DEF Longest
     <2>. QED
        BY <1>1, <1>8, <2>1, <2>3, <2>4
  <1>9. CASE drill.step = 30
     <2>1. drill.waited > 0 => Held({}, 0)
        BY <1>9 DEF DInv, RulesKnown
     <2>2. drill.waited > 0 => Reached
        BY <1>9, <2>1, Reaching, Rulings DEF Held
     <2>3. Longest(30) > 0
        BY WaitsAssumption, TimesAssumption DEF Longest
     <2>. QED
        BY <1>9, <2>2, <2>3
  <1>. QED
     BY <1>2, <1>3, <1>4, <1>5, <1>6, <1>7, <1>8, <1>9 DEF Waits

(* A wait that ends: the rule did what the phase brought about.            *)
LEMMA WaitKeeps == ASSUME DInv, QInv, Wait PROVE DInv'
  <1>1. UNCHANGED <<store, server, reader, refill, board, rule, left>>
     BY DEF Wait, world
  <1>2. drill.step \in Waits /\ (Reached \/ drill.waited = Longest(drill.step))
     <2>1. drill.step \in 0..31
        BY DEF DInv, DTyped, Drills
     <2>2. drill.step \in Waits
        BY <2>1, Kinds DEF Wait
     <2>. QED
        BY <2>1, <2>2, Kinds DEF Wait
  <1>3. Clean /\ drill.sound => Reached
     BY <1>2, WaitEnds
  <1>4. Clean /\ drill.step = 23 /\ Reached => server = "up"
     BY <1>2, Reaching DEF StatusNow, QInv, WatchTyped, Switch
  <1>5. Check(Reached)
     BY DEF Wait
  <1>6. Reached \in BOOLEAN
     <2>1. Step.op \in Waiting
        BY DEF Wait
     <2>2. CASE Step.op = "fires"
        BY <2>2 DEF Reached
     <2>3. CASE Step.op = "quiet"
        BY <2>3 DEF Reached
     <2>4. CASE Step.op = "answers"
        BY <2>4 DEF Reached
     <2>. QED
        BY <2>1, <2>2, <2>3, <2>4 DEF Waiting
  <1>. QED
     BY <1>1, <1>2, <1>3, <1>4, <1>5, <1>6, CheckKeeps, WaitEnds DEF Waits, Reads

(* The reader at its step: started, then waited for.                       *)
LEMMA RunKeeps == ASSUME DInv, QInv, RunReader PROVE DInv'
  <1>1. UNCHANGED <<store, server, refill, rule, left>> /\ board' = board
     BY DEF RunReader, world
  <1>2. drill \in Drills /\ drill.step \in Reads
     <2>1. drill \in Drills /\ drill.step \in 0..31
        BY DEF DInv, DTyped, Drills
     <2>. QED
        BY <2>1, Kinds DEF RunReader
  <1>3. CASE drill.waited = 1
     <2>. DEFINE ok == Step.who = "must" => reader["drill"].pc = "idle"
     <2>1. Check(ok) /\ reader' = reader /\ reader["drill"].pc \in Resting
        BY <1>3 DEF RunReader, Resting
     <2>2. ok \in BOOLEAN
        OBVIOUS
     <2>3. Clean /\ drill.sound => ok
        BY <1>2, <1>3, <2>1 DEF DInv, Alone, Resting
     <2>. HIDE DEF ok
     <2>. QED
        BY <1>1, <1>2, <1>3, <2>1, <2>2, <2>3, CheckKeeps DEF Reads
  <1>4. CASE drill.waited = 0
     <2>1. /\ drill' = [drill EXCEPT !.waited = 1]
           /\ reader["drill"].pc \in {"idle", "failed"}
           /\ reader' = [reader EXCEPT !["drill"] = [NoReader EXCEPT !.pc = "keys"]]
        BY <1>4 DEF RunReader, StartReader
     <2>2. /\ drill' \in Drills /\ drill'.waited = 1 /\ drill'.step = drill.step
           /\ drill'.red = drill.red /\ drill'.before = drill.before
           /\ drill'.replicas = drill.replicas /\ drill'.sound = drill.sound
           /\ drill'.meddled = drill.meddled
        BY <1>2, <2>1 DEF Drills
     <2>. DEFINE r == [NoReader EXCEPT !.pc = "keys"]
     <2>3. r \in Readers /\ r.pc = "keys" /\ r.failing = {}
        BY Counting DEF NoReader, Readers, Moments
     <2>4. reader' = [reader EXCEPT !["drill"] = r]
        BY <2>1
     <2>. HIDE DEF r
     <2>5. "drill" \in Clients /\ "operator" \in Clients
        BY DEF Clients
     <2>6. /\ reader' \in [Clients -> Readers] /\ reader'["drill"] = r
           /\ reader'["operator"] = reader["operator"]
        BY <2>3, <2>4, <2>5, ReaderTyped
     <2>7. DTyped'
        BY <1>1, <2>2, <2>6 DEF DInv, DTyped, Sustain
     <2>8. refill["drill"] = {}
        BY <1>2 DEF DInv, OwnProcesses, Reads
     <2>9. WaitedKnown' /\ OwnProcesses'
        BY <1>1, <1>2, <2>2, <2>8 DEF WaitedKnown, OwnProcesses, Reads, Waits
     <2>10. Alone'
        BY <1>1, <2>2, <2>3, <2>6 DEF DInv, Alone, Clean
     <2>11. StoreKnown' /\ ServerKnown' /\ NeverRed'
        BY <1>1, <1>2, <2>2 DEF DInv, StoreKnown, ServerKnown, NeverRed, Clean, Reads
     <2>12. ReaderKnown'
        BY <2>3, <2>6 DEF ReaderKnown, GathersWhole, GathersNothing
     <2>13. \A k \in {2, 9, 16, 29} :
               (Pushed(k) <=> drill.step > k) /\ (Pushed(k)' <=> drill.step > k)
        BY <1>4, <2>2, <2>3, <2>6 DEF Pushed, Resting
     <2>14. BoardKnown'
        BY <1>1, <1>2, <2>2, <2>13 DEF DInv, BoardKnown, Clean, Whole, Reads
     <2>15. RulesKnown'
        BY <1>1, <1>2, <2>2 DEF DInv, RulesKnown, Clean, Held, Reads
     <2>. QED
        BY <2>7, <2>9, <2>10, <2>11, <2>12, <2>14, <2>15 DEF DInv
  <1>. QED
     BY <1>2, <1>3, <1>4 DEF DInv, WaitedKnown

(* A drill's record, rewritten in a field or two, is one.                  *)
LEMMA Rewritten ==
    /\ \A d \in Drills, k \in 0..31, n \in KeyCounts :
          [d EXCEPT !.step = k, !.before = n] \in Drills
    /\ \A d \in Drills, k \in 0..31, v \in Switch, red \in BOOLEAN :
          [d EXCEPT !.step = k, !.replicas = v, !.red = red] \in Drills
    /\ \A d \in Drills, k \in 0..31 : [d EXCEPT !.step = k, !.waited = 0] \in Drills
  BY DEF Drills

(* The flush, the scale command down, the wipe of the board.               *)
LEMMA InjectKeeps == ASSUME DInv, QInv, Inject PROVE DInv'
  <1>1. UNCHANGED <<reader, refill, rule, left>>
     BY DEF Inject
  <1>2. drill \in Drills /\ drill.step \in 0..31 /\ store \in SUBSET Parts /\ server \in Switch
     BY DEF DInv, DTyped, Drills, QInv, WatchTyped
  <1>3. CASE At("flush")
     <2>1. drill.step = 6
        BY <1>2, <1>3, Kinds
     <2>. DEFINE count == Cardinality(store)
     <2>2. /\ store' = {} /\ server' = server /\ board' = board
           /\ drill' = [drill EXCEPT !.step = 7, !.before = count]
        BY <1>3, <2>1 DEF Inject, Change, At
     <2>3. count \in KeyCounts /\ (store = Parts => count = Cardinality(Parts))
        BY <1>2, Counting DEF KeyCounts
     <2>. HIDE DEF count
     <2>4. /\ drill' \in Drills /\ drill'.step = 7 /\ drill'.before = count
           /\ drill'.red = drill.red /\ drill'.waited = drill.waited
           /\ drill'.replicas = drill.replicas /\ drill'.sound = drill.sound
           /\ drill'.meddled = drill.meddled
        <3>1. drill' \in Drills
           <4>1. 7 \in 0..31
              OBVIOUS
           <4>2. [drill EXCEPT !.step = 7, !.before = count] \in Drills
              BY <1>2, <2>3, <4>1, Rewritten
           <4>. QED
              BY <2>2, <4>2
        <3>2. /\ drill'.step = 7 /\ drill'.before = count
              /\ drill'.red = drill.red /\ drill'.waited = drill.waited
           BY <1>2, <2>2 DEF Drills
        <3>3. /\ drill'.replicas = drill.replicas /\ drill'.sound = drill.sound
              /\ drill'.meddled = drill.meddled
           BY <1>2, <2>2 DEF Drills
        <3>. QED
           BY <3>1, <3>2, <3>3
     <2>5. DTyped'
        BY <1>1, <2>2, <2>4 DEF DInv, DTyped, Sustain
     <2>6. drill.waited = 0 /\ reader["drill"].pc \in Resting /\ refill["drill"] = {}
        BY <2>1 DEF DInv, WaitedKnown, OwnProcesses, Reads, Waits
     <2>7. WaitedKnown' /\ OwnProcesses'
        BY <1>1, <2>4, <2>6 DEF WaitedKnown, OwnProcesses, Reads, Waits
     <2>8. Alone'
        BY <1>1, <2>1, <2>4, <2>6 DEF DInv, Alone, Clean
     <2>9. StoreKnown'
        BY <2>1, <2>2, <2>3, <2>4 DEF DInv, StoreKnown, Clean
     <2>10. ServerKnown' /\ NeverRed'
        BY <2>1, <2>2, <2>4 DEF DInv, ServerKnown, NeverRed, Clean
     <2>11. ReaderKnown'
        BY <1>1, <2>6 DEF ReaderKnown
     <2>12. \A k \in {2, 9, 16, 29} : (Pushed(k) <=> k = 2) /\ (Pushed(k)' <=> k = 2)
        BY <2>1, <2>4 DEF Pushed
     <2>13. BoardKnown'
        BY <2>1, <2>2, <2>4, <2>12 DEF DInv, BoardKnown, Clean, Whole
     <2>14. RulesKnown'
        BY <1>1, <2>1, <2>4 DEF DInv, RulesKnown, Clean, Held
     <2>. QED
        BY <2>5, <2>7, <2>8, <2>9, <2>10, <2>11, <2>13, <2>14 DEF DInv
  <1>4. CASE At("scale") /\ Step.who = "down"
     <2>1. drill.step = 20
        BY <1>2, <1>4, Kinds
     <2>. DEFINE red == drill.red \/ server = "down"
     <2>2. /\ store' = store /\ server' = "down" /\ board' = board
           /\ drill' = [drill EXCEPT !.step = 21, !.replicas = server, !.red = red]
        BY <1>4, <2>1 DEF Inject, Change, At
     <2>3. red \in BOOLEAN
        OBVIOUS
     <2>4. ~red <=> ~drill.red /\ server # "down"
        OBVIOUS
     <2>. HIDE DEF red
     <2>5. /\ drill' \in Drills /\ drill'.step = 21 /\ drill'.before = drill.before
           /\ drill'.waited = drill.waited /\ drill'.replicas = server
           /\ drill'.sound = drill.sound /\ drill'.meddled = drill.meddled
        <3>1. drill' \in Drills
           <4>1. 21 \in 0..31
              OBVIOUS
           <4>2. [drill EXCEPT !.step = 21, !.replicas = server, !.red = red] \in Drills
              BY <1>2, <2>3, <4>1, Rewritten
           <4>. QED
              BY <2>2, <4>2
        <3>2. /\ drill'.step = 21 /\ drill'.before = drill.before
              /\ drill'.waited = drill.waited /\ drill'.replicas = server
           BY <1>2, <2>2 DEF Drills
        <3>3. drill'.sound = drill.sound /\ drill'.meddled = drill.meddled
           BY <1>2, <2>2 DEF Drills
        <3>. QED
           BY <3>1, <3>2, <3>3
     <2>6. drill'.red = red
        BY <1>2, <2>2 DEF Drills
     <2>7. DTyped'
        BY <1>1, <2>2, <2>5 DEF DInv, DTyped, Sustain
     <2>8. drill.waited = 0 /\ reader["drill"].pc \in Resting /\ refill["drill"] = {}
        BY <2>1 DEF DInv, WaitedKnown, OwnProcesses, Reads, Waits
     <2>9. WaitedKnown' /\ OwnProcesses'
        BY <1>1, <2>5, <2>8 DEF WaitedKnown, OwnProcesses, Reads, Waits
     <2>10. Alone'
        BY <1>1, <2>1, <2>5, <2>8 DEF DInv, Alone, Clean
     <2>11. StoreKnown'
        BY <2>1, <2>2, <2>5 DEF DInv, StoreKnown, Clean
     <2>12. ServerKnown' /\ NeverRed'
        BY <2>1, <2>2, <2>4, <2>5, <2>6 DEF DInv, ServerKnown, NeverRed, Clean
     <2>13. ReaderKnown'
        BY <1>1, <2>8 DEF ReaderKnown
     <2>14. \A k \in {2, 9, 16, 29} : (Pushed(k) <=> k < 20) /\ (Pushed(k)' <=> k < 20)
        BY <2>1, <2>5 DEF Pushed
     <2>15. BoardKnown'
        BY <2>1, <2>2, <2>5, <2>14 DEF DInv, BoardKnown, Clean, Whole
     <2>16. RulesKnown'
        BY <1>1, <2>1, <2>5 DEF DInv, RulesKnown, Clean, Held
     <2>. QED
        BY <2>7, <2>9, <2>10, <2>11, <2>12, <2>13, <2>15, <2>16 DEF DInv
  <1>5. CASE At("delete")
     <2>1. drill.step = 25
        BY <1>2, <1>5, Kinds
     <2>2. /\ store' = store /\ server' = server /\ board' = NoBoard
           /\ drill' = [drill EXCEPT !.step = @ + 1]
        BY <1>5 DEF Inject, At
     <2>3. /\ drill' \in Drills /\ drill'.step = 26 /\ drill'.before = drill.before
           /\ drill'.waited = drill.waited /\ drill'.replicas = drill.replicas
           /\ drill'.red = drill.red
           /\ drill'.sound = drill.sound /\ drill'.meddled = drill.meddled
        BY <1>2, <2>1, <2>2 DEF Drills
     <2>4. NoBoard \in Boards
        BY Counting, Waiting12 DEF NoBoard, Boards
     <2>5. DTyped'
        BY <1>1, <2>2, <2>3, <2>4 DEF DInv, DTyped, Sustain
     <2>6. drill.waited = 0 /\ reader["drill"].pc \in Resting /\ refill["drill"] = {}
        BY <2>1 DEF DInv, WaitedKnown, OwnProcesses, Reads, Waits
     <2>7. WaitedKnown' /\ OwnProcesses'
        BY <1>1, <2>3, <2>6 DEF WaitedKnown, OwnProcesses, Reads, Waits
     <2>8. Alone'
        BY <1>1, <2>1, <2>3, <2>6 DEF DInv, Alone, Clean
     <2>9. StoreKnown'
        BY <2>1, <2>2, <2>3 DEF DInv, StoreKnown, Clean
     <2>10. ServerKnown' /\ NeverRed'
        BY <2>1, <2>2, <2>3 DEF DInv, ServerKnown, NeverRed, Clean
     <2>11. ReaderKnown'
        BY <1>1, <2>6 DEF ReaderKnown
     <2>12. \A k \in {2, 9, 16, 29} : Pushed(k)' <=> k < 26
        BY <2>3 DEF Pushed
     <2>13. BoardKnown'
        BY <2>2, <2>3, <2>12 DEF BoardKnown
     <2>14. RulesKnown'
        BY <1>1, <2>1, <2>3 DEF DInv, RulesKnown, Clean, Held
     <2>. QED
        BY <2>5, <2>7, <2>8, <2>9, <2>10, <2>11, <2>13, <2>14 DEF DInv
  <1>. QED
     BY <1>3, <1>4, <1>5 DEF Inject

(* The refill, started and waited for; the scale command back.             *)
LEMMA UndoKeeps == ASSUME DInv, QInv, Undo PROVE DInv'
  <1>1. UNCHANGED <<reader, board, rule, left>> /\ store' = store
     BY DEF Undo, Change
  <1>2. drill \in Drills /\ drill.step \in 0..31 /\ drill.replicas \in Switch
     BY DEF DInv, DTyped, Drills, QInv, WatchTyped
  <1>3. CASE At("refill")
     <2>1. drill.step = 14
        BY <1>2, <1>3, Kinds
     <2>2. server' = server /\ reader["drill"].pc \in Resting
        BY <1>3, <2>1 DEF Undo, At, DInv, OwnProcesses, Reads
     <2>3. "drill" \in Clients /\ "operator" \in Clients
        BY DEF Clients
     <2>4. CASE drill.waited = 0
        <3>1. refill' = [refill EXCEPT !["drill"] = Parts] /\ drill' = [drill EXCEPT !.waited = 1]
           BY <1>3, <2>4 DEF Undo, At
        <3>2. /\ drill' \in Drills /\ drill'.step = 14 /\ drill'.waited = 1
              /\ drill'.before = drill.before /\ drill'.red = drill.red
              /\ drill'.replicas = drill.replicas /\ drill'.sound = drill.sound
              /\ drill'.meddled = drill.meddled
           BY <1>2, <2>1, <3>1 DEF Drills
        <3>3. refill'["drill"] = Parts /\ refill'["operator"] = refill["operator"]
           BY <2>3, <3>1 DEF QInv, WatchTyped
        <3>4. DTyped'
           BY <1>1, <3>2 DEF DInv, DTyped, Sustain
        <3>5. WaitedKnown' /\ OwnProcesses'
           BY <1>1, <2>2, <3>2 DEF WaitedKnown, OwnProcesses, Reads, Waits
        <3>6. Alone'
           BY <1>1, <2>1, <3>2, <3>3 DEF DInv, Alone, Clean, Reads
        <3>7. StoreKnown'
           BY <1>1, <2>1, <2>4, <3>2, <3>3 DEF DInv, StoreKnown, Clean
        <3>8. ServerKnown' /\ NeverRed'
           BY <2>1, <2>2, <3>2 DEF DInv, ServerKnown, NeverRed, Clean
        <3>9. ReaderKnown'
           BY <1>1, <2>2 DEF ReaderKnown
        <3>10. \A k \in {2, 9, 16, 29} : (Pushed(k) <=> k < 14) /\ (Pushed(k)' <=> k < 14)
           BY <2>1, <3>2 DEF Pushed
        <3>11. BoardKnown'
           BY <1>1, <2>1, <3>2, <3>10 DEF DInv, BoardKnown, Clean, Whole
        <3>12. RulesKnown'
           BY <1>1, <2>1, <3>2 DEF DInv, RulesKnown, Clean, Held
        <3>. QED
           BY <3>4, <3>5, <3>6, <3>7, <3>8, <3>9, <3>11, <3>12 DEF DInv
     <2>5. CASE drill.waited = 1
        <3>1. /\ refill["drill"] = {} /\ refill' = refill
              /\ drill' = [drill EXCEPT !.step = 15, !.waited = 0]
           BY <1>3, <2>1, <2>5 DEF Undo, At
        <3>2. /\ drill' \in Drills /\ drill'.step = 15 /\ drill'.waited = 0
              /\ drill'.before = drill.before /\ drill'.red = drill.red
              /\ drill'.replicas = drill.replicas /\ drill'.sound = drill.sound
              /\ drill'.meddled = drill.meddled
           <4>1. 15 \in 0..31
              OBVIOUS
           <4>2. drill' \in Drills
              BY <1>2, <3>1, <4>1, Rewritten
           <4>3. drill'.step = 15 /\ drill'.waited = 0 /\ drill'.before = drill.before
              BY <1>2, <3>1 DEF Drills
           <4>4. drill'.red = drill.red /\ drill'.replicas = drill.replicas
              BY <1>2, <3>1 DEF Drills
           <4>5. drill'.sound = drill.sound /\ drill'.meddled = drill.meddled
              BY <1>2, <3>1 DEF Drills
           <4>. QED
              BY <4>2, <4>3, <4>4, <4>5
        <3>3. DTyped'
           BY <1>1, <3>2 DEF DInv, DTyped, Sustain
        <3>4. WaitedKnown' /\ OwnProcesses'
           BY <1>1, <2>2, <3>1, <3>2 DEF WaitedKnown, OwnProcesses, Reads, Waits
        <3>5. Alone'
           BY <1>1, <2>1, <3>1, <3>2 DEF DInv, Alone, Clean, Reads
        <3>6. StoreKnown'
           BY <1>1, <2>1, <2>5, <3>1, <3>2 DEF DInv, StoreKnown, Clean
        <3>7. ServerKnown' /\ NeverRed'
           BY <2>1, <2>2, <3>2 DEF DInv, ServerKnown, NeverRed, Clean
        <3>8. ReaderKnown'
           BY <1>1, <2>2 DEF ReaderKnown
        <3>9. \A k \in {2, 9, 16, 29} : (Pushed(k) <=> k < 14) /\ (Pushed(k)' <=> k < 14)
           BY <2>1, <3>2 DEF Pushed
        <3>10. BoardKnown'
           BY <1>1, <2>1, <3>2, <3>9 DEF DInv, BoardKnown, Clean, Whole
        <3>11. RulesKnown'
           BY <1>1, <2>1, <3>2 DEF DInv, RulesKnown, Clean, Held
        <3>. QED
           BY <3>3, <3>4, <3>5, <3>6, <3>7, <3>8, <3>10, <3>11 DEF DInv
     <2>. QED
        BY <2>1, <2>4, <2>5 DEF DInv, WaitedKnown
  <1>4. CASE At("scale") /\ Step.who = "back"
     <2>1. drill.step = 22
        BY <1>2, <1>4, Kinds
     <2>2. /\ server' = drill.replicas /\ refill' = refill
           /\ drill' = [drill EXCEPT !.step = @ + 1]
        BY <1>4 DEF Undo, Change, At
     <2>3. /\ drill' \in Drills /\ drill'.step = 23 /\ drill'.before = drill.before
           /\ drill'.waited = drill.waited /\ drill'.replicas = drill.replicas
           /\ drill'.red = drill.red
           /\ drill'.sound = drill.sound /\ drill'.meddled = drill.meddled
        BY <1>2, <2>1, <2>2 DEF Drills
     <2>4. DTyped'
        BY <1>1, <2>3 DEF DInv, DTyped, Sustain
     <2>5. drill.waited = 0 /\ reader["drill"].pc \in Resting /\ refill["drill"] = {}
        BY <2>1 DEF DInv, WaitedKnown, OwnProcesses, Reads, Waits
     <2>6. WaitedKnown' /\ OwnProcesses'
        BY <1>1, <2>2, <2>3, <2>5, Waiting12 DEF WaitedKnown, OwnProcesses, Reads, Waits, Longest
     <2>7. Alone'
        BY <1>1, <2>1, <2>2, <2>3, <2>5 DEF DInv, Alone, Clean
     <2>8. StoreKnown'
        BY <1>1, <2>1, <2>3 DEF DInv, StoreKnown, Clean
     <2>9. ServerKnown' /\ NeverRed'
        BY <2>1, <2>2, <2>3 DEF DInv, ServerKnown, NeverRed, Clean
     <2>10. ReaderKnown'
        BY <1>1, <2>5 DEF ReaderKnown
     <2>11. \A k \in {2, 9, 16, 29} : (Pushed(k) <=> k < 22) /\ (Pushed(k)' <=> k < 22)
        BY <2>1, <2>3 DEF Pushed
     <2>12. BoardKnown'
        BY <1>1, <2>1, <2>3, <2>11 DEF DInv, BoardKnown, Clean, Whole
     <2>13. RulesKnown'
        BY <1>1, <2>1, <2>3 DEF DInv, RulesKnown, Clean, Held
     <2>. QED
        BY <2>4, <2>6, <2>7, <2>8, <2>9, <2>10, <2>12, <2>13 DEF DInv
  <1>. QED
     BY <1>3, <1>4 DEF Undo

(* A scrape over a reading that is fresh, healthy or absent.               *)
LEMMA HoldsOver ==
    ASSUME board \in Boards
    PROVE  /\ Whole => \A r \in Rules : ~Holds(r)
           /\ board = NoBoard => \A r \in Rules : Holds(r) <=> r = "absent"
           /\ board.keys = 0 /\ board.failing = {"zone_answers", "calendar_answers"}
                 /\ board.age < Fresh => \A r \in Rules : Holds(r) <=> r \in Lost
  <1>1. Cardinality(Parts) \in Nat /\ Cardinality(Parts) > 0
     BY Counting
  <1>2. board.keys # -1 => board # NoBoard
     BY DEF NoBoard
  <1>3. \A r \in Rules : r \in Checks \/ r = "incomplete" \/ r = "absent"
     BY DEF Rules
  <1>4. "incomplete" \notin Checks /\ "absent" \notin Checks
     BY DEF Checks
  <1>5. \A r \in Rules :
           Holds(r) <=> \/ r \in Checks /\ IsFresh /\ r \in board.failing
                        \/ r = "incomplete" /\ IsFresh /\ board.keys # -1
                              /\ board.keys < Cardinality(Parts)
                        \/ r = "absent" /\ board = NoBoard
     BY <1>3, <1>4 DEF Holds
  <1>6. Whole => \A r \in Rules : ~Holds(r)
     <2>1. SUFFICES ASSUME Whole PROVE \A r \in Rules : ~Holds(r)
        OBVIOUS
     <2>2. board.keys = Cardinality(Parts) /\ board.failing = {} /\ board # NoBoard
        BY <1>1, <1>2, <2>1 DEF Whole
     <2>. QED
        BY <1>1, <1>5, <2>2
  <1>7. board = NoBoard => \A r \in Rules : Holds(r) <=> r = "absent"
     BY <1>4, <1>5 DEF IsFresh
  <1>8. ASSUME board.keys = 0, board.failing = {"zone_answers", "calendar_answers"},
               board.age < Fresh
        PROVE  \A r \in Rules : Holds(r) <=> r \in Lost
     <2>1. IsFresh /\ board # NoBoard
        BY <1>2, <1>8 DEF IsFresh
     <2>2. {"zone_answers", "calendar_answers"} \subseteq Checks
        BY DEF Checks
     <2>. QED
        BY <1>1, <1>4, <1>5, <1>8, <2>1, <2>2 DEF Lost
  <1>. QED
     BY <1>6, <1>7, <1>8

(* A scrape keeps the types, and ages the board by a tick at most.         *)
LEMMA TickTypes ==
    ASSUME DInv, Tick
    PROVE  /\ \A r \in Rules :
                 /\ rule'[r] \in 0..Sustain(r) + 1
                 /\ rule'[r] = IF Holds(r) THEN Least(rule[r] + 1, Sustain(r) + 1) ELSE 0
           /\ DOMAIN rule' = Rules
           /\ board' \in Boards
           /\ board'.keys = board.keys /\ board'.failing = board.failing
           /\ board = NoBoard => board' = NoBoard
           /\ board # NoBoard => board'.age = Least(board.age + 1, Fresh)
  <1>1. rule' = [r \in Rules |-> IF Holds(r) THEN Least(rule[r] + 1, Sustain(r) + 1) ELSE 0]
     BY DEF Tick
  <1>2. ASSUME NEW r \in Rules
        PROVE  /\ rule'[r] = IF Holds(r) THEN Least(rule[r] + 1, Sustain(r) + 1) ELSE 0
               /\ rule'[r] \in 0..Sustain(r) + 1
     <2>1. rule[r] \in 0..Sustain(r) + 1 /\ Sustain(r) \in Nat
        BY Waiting12 DEF DInv, DTyped
     <2>2. rule'[r] = IF Holds(r) THEN Least(rule[r] + 1, Sustain(r) + 1) ELSE 0
        BY <1>1
     <2>. QED
        BY <2>1, <2>2 DEF Least
  <1>3. DOMAIN rule' = Rules
     BY <1>1
  <1>4. board \in Boards /\ Fresh \in Nat
     BY Waiting12 DEF DInv, DTyped
  <1>. DEFINE older == Least(board.age + 1, Fresh)
  <1>5. board' = IF board = NoBoard THEN board ELSE [board EXCEPT !.age = older]
     BY DEF Tick
  <1>6. older \in -1..Fresh
     BY <1>4 DEF Boards, Least
  <1>. HIDE DEF older
  <1>7. /\ board' \in Boards
        /\ board'.keys = board.keys /\ board'.failing = board.failing
        /\ board = NoBoard => board' = NoBoard
        /\ board # NoBoard => board'.age = older
     BY <1>4, <1>5, <1>6 DEF Boards
  <1>. QED
     BY <1>2, <1>3, <1>7 DEF older

(* On a platform that was sound each rule holds as long as the drill says. *)
LEMMA TickRules ==
    ASSUME DInv, Tick, Clean, drill.sound, drill.step \in Waits, ~Reached
    PROVE  /\ drill.step \in {5, 17, 30} => Held({}, 0)'
           /\ drill.step = 10 =>
                 /\ \A r \in Rules : rule'[r] = IF r \in Lost THEN drill.waited + 1 ELSE 0
                 /\ drill.waited <= Sustain12
                 /\ board'.age = drill.waited + 1
           /\ drill.step = 27 =>
                 /\ \A r \in Rules : rule'[r] = IF r = "absent" THEN drill.waited + 1 ELSE 0
                 /\ drill.waited <= Sustain13
  <1>1. board \in Boards /\ drill.waited \in Nat /\ Sustain12 < Fresh /\ Fresh \in Nat
        /\ Sustain12 \in Nat /\ Sustain13 \in Nat
     BY Waiting12 DEF DInv, DTyped, Drills
  <1>2. CASE drill.step \in {5, 17, 30}
     <2>1. Whole
        BY <1>2 DEF DInv, BoardKnown, Pushed
     <2>2. \A r \in Rules : ~Holds(r)
        BY <1>1, <2>1, HoldsOver
     <2>3. \A r \in Rules : rule'[r] = 0
        BY <2>2, TickTypes
     <2>4. Held({}, 0)'
        BY <2>3 DEF Held
     <2>. QED
        BY <1>2, <2>4
  <1>3. CASE drill.step = 10
     <2>1. /\ board.keys = 0 /\ board.failing = {"zone_answers", "calendar_answers"}
           /\ board.age = drill.waited
        BY <1>3 DEF DInv, BoardKnown, Pushed
     <2>2. drill.waited <= Sustain12
        BY <1>3, WaitEnds
     <2>3. \A r \in Rules : Holds(r) <=> r \in Lost
        BY <1>1, <2>1, <2>2, HoldsOver
     <2>4. \A r \in Rules : rule[r] = IF r \in Lost THEN drill.waited ELSE 0
        BY <1>3 DEF DInv, RulesKnown, Held
     <2>5. \A r \in Lost : r \in Rules /\ Sustain(r) = Sustain12
        BY Rulings DEF Lost, Rules, Checks
     <2>6. ASSUME NEW r \in Rules PROVE rule'[r] = IF r \in Lost THEN drill.waited + 1 ELSE 0
        <3>1. rule'[r] = IF Holds(r) THEN Least(rule[r] + 1, Sustain(r) + 1) ELSE 0
           BY TickTypes
        <3>2. CASE r \in Lost
           <4>1. rule[r] = drill.waited /\ Holds(r) /\ Sustain(r) = Sustain12
              BY <2>3, <2>4, <2>5, <3>2
           <4>. QED
              BY <1>1, <2>2, <3>1, <3>2, <4>1 DEF Least
        <3>3. CASE r \notin Lost
           BY <2>3, <3>1, <3>3
        <3>. QED
           BY <3>2, <3>3
     <2>7. board'.age = drill.waited + 1
        <3>1. board # NoBoard
           BY <2>1 DEF NoBoard
        <3>2. board'.age = Least(drill.waited + 1, Fresh)
           BY <2>1, <3>1, TickTypes
        <3>. QED
           BY <1>1, <2>2, <3>2 DEF Least
     <2>. QED
        BY <1>3, <2>2, <2>6, <2>7
  <1>4. CASE drill.step = 27
     <2>1. board = NoBoard
        BY <1>4 DEF DInv, BoardKnown, Pushed
     <2>2. drill.waited <= Sustain13
        BY <1>4, WaitEnds
     <2>3. \A r \in Rules : Holds(r) <=> r = "absent"
        BY <1>1, <2>1, HoldsOver
     <2>4. \A r \in Rules : rule[r] = IF r = "absent" THEN drill.waited ELSE 0
        BY <1>4 DEF DInv, RulesKnown, Held
     <2>5. Sustain("absent") = Sustain13
        BY Rulings
     <2>6. ASSUME NEW r \in Rules PROVE rule'[r] = IF r = "absent" THEN drill.waited + 1 ELSE 0
        <3>1. rule'[r] = IF Holds(r) THEN Least(rule[r] + 1, Sustain(r) + 1) ELSE 0
           BY TickTypes
        <3>2. CASE r = "absent"
           <4>1. rule[r] = drill.waited /\ Holds(r) /\ Sustain(r) = Sustain13
              BY <2>3, <2>4, <2>5, <3>2
           <4>. QED
              BY <1>1, <2>2, <3>1, <3>2, <4>1 DEF Least
        <3>3. CASE r # "absent"
           BY <2>3, <3>1, <3>3
        <3>. QED
           BY <3>2, <3>3
     <2>. QED
        BY <1>4, <2>2, <2>6
  <1>. QED
     BY <1>2, <1>3, <1>4 DEF Waits

(* A scrape and an evaluation, between the drill's steps.                  *)
LEMMA TickKeeps == ASSUME DInv, QInv, Tick PROVE DInv'
  <1>1. UNCHANGED <<store, server, reader, refill, left>>
     BY DEF Tick, world
  <1>2. drill \in Drills /\ drill.step \in 0..31
     BY DEF DInv, DTyped, Drills
  <1>3. drill.step # 31
     BY TheScript DEF Tick
  <1>4. CASE drill.step = 0
     <2>1. drill' = drill
        BY <1>2, <1>4, Kinds DEF Tick
     <2>2. DTyped'
        BY <1>1, <2>1, TickTypes DEF DInv, DTyped, Sustain
     <2>3. WaitedKnown' /\ OwnProcesses' /\ ~Clean'
        BY <1>1, <1>4, <2>1 DEF DInv, WaitedKnown, OwnProcesses, Clean, Longest
     <2>. QED
        BY <2>2, <2>3, Unclean
  <1>5. CASE drill.step # 0
     <2>1. Running
        BY <1>2, <1>3, <1>5, Kinds
     <2>2. drill.step \in Waits /\ ~Reached /\ drill.waited < Longest(drill.step)
        BY <1>2, <2>1, Kinds DEF Tick
     <2>3. drill' = [drill EXCEPT !.waited = @ + 1]
        BY <2>1 DEF Tick
     <2>4. drill.waited + 1 \in Nat /\ drill.waited + 1 > 0
        BY <1>2 DEF Drills
     <2>5. /\ drill' \in Drills /\ drill'.step = drill.step /\ drill'.waited = drill.waited + 1
           /\ drill'.before = drill.before /\ drill'.red = drill.red
           /\ drill'.replicas = drill.replicas /\ drill'.sound = drill.sound
           /\ drill'.meddled = drill.meddled
        BY <1>2, <2>3, <2>4 DEF Drills
     <2>6. DTyped'
        BY <1>1, <2>5, TickTypes DEF DInv, DTyped, Sustain
     <2>7. WaitedKnown'
        <3>1. Longest(drill.step) \in Nat /\ drill.waited \in Nat
           BY <1>2, <2>2, Waiting12 DEF Drills
        <3>. QED
           BY <2>2, <2>5, <3>1 DEF WaitedKnown, Longest, Waits, Reads
     <2>8. reader["drill"].pc \in Resting /\ refill["drill"] = {}
        BY <2>2 DEF DInv, OwnProcesses, Waits, Reads
     <2>9. OwnProcesses'
        BY <1>1, <2>8 DEF OwnProcesses
     <2>10. Alone'
        BY <1>1, <2>2, <2>5 DEF DInv, Alone, Clean, Waits, Reads
     <2>11. StoreKnown' /\ ServerKnown' /\ NeverRed'
        BY <1>1, <2>2, <2>5 DEF DInv, StoreKnown, ServerKnown, NeverRed, Clean, Waits
     <2>12. ReaderKnown'
        BY <1>1, <2>8 DEF ReaderKnown
     <2>13. \A k \in {2, 9, 16, 29} :
               (Pushed(k) <=> drill.step > k) /\ (Pushed(k)' <=> drill.step > k)
        BY <2>2, <2>5 DEF Pushed, Waits
     <2>14. Whole' <=> Whole
        BY TickTypes DEF Whole
     <2>15. BoardKnown'
        <3>1. SUFFICES ASSUME Clean' PROVE BoardKnown'
           BY DEF BoardKnown
        <3>2. Clean
           BY <2>5, <3>1 DEF Clean
        <3>3. drill.sound /\ drill.step = 10 => board'.age = drill.waited + 1
           BY <2>2, <3>2, TickRules
        <3>4. /\ drill.sound /\ drill.step > 2 /\ drill.step <= 9 => Whole
              /\ drill.sound /\ drill.step > 9 /\ drill.step <= 16 =>
                    board.keys = 0 /\ board.failing = {"zone_answers", "calendar_answers"}
              /\ drill.sound /\ drill.step > 16 /\ drill.step <= 25 => Whole
              /\ drill.sound /\ drill.step >= 26 /\ drill.step <= 29 => board = NoBoard
              /\ (drill.sound \/ ~drill.red) /\ drill.step > 29 => Whole
           BY <1>2, <2>13, <3>2 DEF DInv, BoardKnown
        <3>. QED
           BY <1>2, <2>2, <2>5, <2>13, <2>14, <3>3, <3>4, TickTypes DEF BoardKnown, Waits
     <2>16. RulesKnown'
        <3>1. SUFFICES ASSUME Clean', drill'.sound PROVE RulesKnown'
           BY DEF RulesKnown
        <3>2. Clean /\ drill.sound
           BY <2>5, <3>1 DEF Clean
        <3>3. drill.step \in {5, 10, 17, 27, 30}
           BY <2>2, <3>2, WaitEnds DEF Waits
        <3>4. drill.step \in {5, 17, 30} => Held({}, 0)'
           BY <2>2, <3>2, TickRules
        <3>5. drill.step = 10 => Held(Lost, drill.waited)' /\ drill.waited <= Sustain12
           <4>1. drill.step = 10 =>
                    \A r \in Rules : rule'[r] = IF r \in Lost THEN drill.waited + 1 ELSE 0
              BY <2>2, <3>2, TickRules
           <4>2. drill.step = 10 => drill.waited <= Sustain12
              BY <2>2, <3>2, TickRules
           <4>. QED
              BY <2>5, <4>1, <4>2 DEF Held, Lost
        <3>6. drill.step = 27 => Held({"absent"}, drill.waited)' /\ drill.waited <= Sustain13
           <4>1. drill.step = 27 =>
                    \A r \in Rules : rule'[r] = IF r = "absent" THEN drill.waited + 1 ELSE 0
              BY <2>2, <3>2, TickRules
           <4>2. drill.step = 27 => drill.waited <= Sustain13
              BY <2>2, <3>2, TickRules
           <4>. QED
              BY <2>5, <4>1, <4>2 DEF Held
        <3>. QED
           BY <1>2, <2>4, <2>5, <3>3, <3>4, <3>5, <3>6, Waiting12 DEF RulesKnown, Drills
     <2>. QED
        BY <2>6, <2>7, <2>9, <2>10, <2>11, <2>12, <2>15, <2>16 DEF DInv
  <1>. QED
     BY <1>4, <1>5

(* Every step of the system keeps what is known of the drill.              *)
LEMMA DrillStep ==
    ASSUME DInv, QInv, [Next]_vars
    PROVE  DInv'
  <1>1. left \in 0..MaxEvents
     BY DEF DInv, DTyped
  <1>2. CASE UNCHANGED vars
     BY <1>1, <1>2, Elsewhere DEF vars, world
  <1>3. CASE (\E dates \in (SUBSET Dates) \ {{}} : Ask(dates)) \/ Handling
     <2>1. UNCHANGED <<store, server, reader, refill, board, rule, drill>>
        BY <1>3 DEF Ask, Handling, LookUpZones, LookUpCalendar, AskSentinel, Predict, Hear, world
     <2>2. Spend \/ left' = left
        BY <1>3 DEF Ask, Handling, LookUpZones, LookUpCalendar, AskSentinel, Predict, Hear
     <2>3. left' \in 0..MaxEvents
        BY <1>1, <2>2, SpendKeeps DEF DInv
     <2>. QED
        BY <2>1, <2>3, Elsewhere
  <1>4. ASSUME NEW c \in Clients, ReadOn(c)
        PROVE  DInv'
     BY <1>4, KeysKeep, AnswersKeep, PushKeeps DEF ReadOn
  <1>5. ASSUME NEW c \in Clients, Write(c)
        PROVE  DInv'
     BY <1>5, WriteKeeps
  <1>6. CASE (\E c \in Clients : Abandon(c)) \/ Watch \/ Materialize \/ Lose
     BY <1>6, OthersKeep
  <1>7. CASE StartDrill
     BY <1>7, StartKeeps
  <1>8. CASE KillDrill \/ CloseDrill
     BY <1>8, EndKeeps
  <1>9. CASE Look
     BY <1>9, LookKeeps
  <1>10. CASE RunReader
     BY <1>10, RunKeeps
  <1>11. CASE Inject
     BY <1>11, InjectKeeps
  <1>12. CASE Undo
     BY <1>12, UndoKeeps
  <1>13. CASE Wait
     BY <1>13, WaitKeeps
  <1>14. CASE Tick
     BY <1>14, TickKeeps
  <1>. QED
     BY <1>2, <1>3, <1>4, <1>5, <1>6, <1>7, <1>8, <1>9, <1>10, <1>11, <1>12, <1>13, <1>14
     DEF Next, Drilling

(* What the invariant says of a drill that has ended.                      *)
LEMMA VerdictFollows == ASSUME DInv PROVE VerdictIsEarned
  <1>1. drill.step \in 0..31 /\ drill.red \in BOOLEAN
     BY DEF DInv, DTyped, Drills
  <1>2. Len(Script) = 30
     BY TheScript
  <1>3. ASSUME ~drill.meddled, Passed
        PROVE  Healthy /\ board.failing = {} /\ board.keys = Cardinality(Parts)
     <2>1. drill.step = 31 /\ ~drill.red
        BY <1>2, <1>3 DEF Passed
     <2>2. Clean
        BY <1>3, <2>1 DEF Clean
     <2>3. store = Parts
        BY <2>1, <2>2 DEF DInv, StoreKnown
     <2>4. server = "up"
        BY <2>1, <2>2 DEF DInv, ServerKnown
     <2>5. Whole
        BY <2>1, <2>2 DEF DInv, BoardKnown, Pushed
     <2>. QED
        BY <2>3, <2>4, <2>5 DEF Healthy, Whole
  <1>4. ASSUME ~drill.meddled, Red
        PROVE  ~drill.sound
     <2>1. drill.step = 31 /\ drill.red
        BY <1>2, <1>4 DEF Red
     <2>2. Clean
        BY <1>4, <2>1 DEF Clean
     <2>. QED
        BY <2>1, <2>2 DEF DInv, NeverRed
  <1>. QED
     BY <1>3, <1>4 DEF VerdictIsEarned

(* The types of the model, from those of the two invariants.               *)
LEMMA TypesFollow == ASSUME DInv, QInv PROVE TypeOK
  <1>1. drill.step \in 0..31 /\ drill.waited \in Nat /\ Len(Script) = 30
     BY TheScript DEF DInv, DTyped, Drills
  <1>2. store \subseteq Parts /\ server \in {"up", "down"}
     BY DEF QInv, WatchTyped, Switch
  <1>3. /\ quote.pc \in {"idle", "zones", "calendar", "sentinel", "predict", "answered"}
        /\ quote.dates \subseteq Dates /\ quote.located \in BOOLEAN
        /\ quote.status \in {0, 200, 422, 500, 503}
        /\ quote.seen \subseteq {"whole", "partial", "empty", "down"}
     BY DEF QInv, WatchTyped, Quotes, Points, Statuses
  <1>4. ASSUME NEW c \in Clients
        PROVE  /\ reader[c].pc \in {"idle", "keys", "zones", "days", "push", "failed"}
               /\ [f \in {"keys", "failing", "truth"} |-> reader[c][f]] \in Reading
               /\ refill[c] \subseteq Parts
     <2>1. reader[c] \in Readers
        BY DEF DInv, DTyped
     <2>2. refill[c] \subseteq Parts
        BY DEF QInv, WatchTyped
     <2>3. reader[c].pc \in {"idle", "keys", "zones", "days", "push", "failed"}
        BY <2>1 DEF Readers, Moments
     <2>4. /\ reader[c].keys \in KeyCounts /\ reader[c].failing \in SUBSET Checks
           /\ reader[c].truth \in BOOLEAN
        BY <2>1 DEF Readers
     <2>5. [f \in {"keys", "failing", "truth"} |-> reader[c][f]] \in Reading
        BY <2>4 DEF Reading, KeyCounts
     <2>. QED
        BY <2>2, <2>3, <2>5
  <1>5. [f \in {"keys", "failing", "truth"} |-> board[f]] \in Reading /\ board.age \in -1..Fresh
     <2>1. board \in Boards
        BY DEF DInv, DTyped
     <2>2. /\ board.keys \in KeyCounts /\ board.failing \in SUBSET Checks
           /\ board.truth \in BOOLEAN /\ board.age \in -1..Fresh
        BY <2>1 DEF Boards
     <2>. QED
        BY <2>2 DEF Reading, KeyCounts
  <1>6. \A r \in Rules : rule[r] \in 0..Sustain(r) + 1
     BY DEF DInv, DTyped
  <1>7. Running /\ Step.op \in Waiting => drill.waited <= Patience[Step.who]
     <2>1. Running /\ Step.op \in Waiting <=> drill.step \in Waits
        BY <1>1, Kinds
     <2>2. drill.step \in Waits => Patience[Step.who] = Longest(drill.step)
        BY <1>1, Kinds
     <2>3. drill.step \in Waits => drill.waited <= Longest(drill.step)
        BY DEF DInv, WaitedKnown
     <2>. QED
        BY <2>1, <2>2, <2>3
  <1>8. left \in 0..MaxEvents
     BY DEF DInv, DTyped
  <1>. QED
     BY <1>1, <1>2, <1>3, <1>4, <1>5, <1>6, <1>7, <1>8 DEF TypeOK

(* For any number of events, losses and killed drills, and for every `for` *)
(* of the rules that the drill's timeouts outlast: a drill nobody          *)
(* interfered with PASSES only over a whole store, a server that is up and *)
(* a healthy reading on the board, whatever an earlier one left broken;    *)
(* and one that began on a sound platform is never RED.                    *)
THEOREM StoreDrillSound == Spec => []DrillIsSound
  <1>1. Init => DInv /\ QInv
     BY WatchInit, QuoteInit
  <1>2. DInv /\ QInv /\ [Next]_vars => DInv' /\ QInv'
     BY DrillStep, QuoteStep
  <1>3. DInv /\ QInv => DrillIsSound
     BY VerdictFollows, TypesFollow DEF DrillIsSound
  <1>. QED
     BY <1>1, <1>2, <1>3, PTL DEF Spec

-----------------------------------------------------------------------------
(***************************************************************************)
(* The two together, as MCServingPath runs them.                           *)
(***************************************************************************)
LEMMA OneOfTheTwo == ASSUME [EitherNext]_either PROVE [Next]_vars /\ [S!Next]_S!vars
  <1>1. CASE UNCHANGED either
    BY <1>1 DEF either, serving, S!vars, S!world, S!procs, S!counters
  <1>2. CASE UNCHANGED serving /\ Next
    BY <1>2 DEF serving, S!vars, S!world, S!procs, S!counters
  <1>3. CASE UNCHANGED vars /\ S!Next
    BY <1>3
  <1>4. EitherNext => (UNCHANGED serving /\ Next) \/ (UNCHANGED vars /\ S!Next)
    BY DEF EitherNext, InWatch, InServing, Next, Handling, ReadOn, Drilling,
           S!Next, S!DeployStep, S!RehearsalStep
  <1>. QED
    BY <1>1, <1>2, <1>3, <1>4

(* Whichever of the two takes the next step, the watch and the serving     *)
(* procedures behave as each of their own specifications allows.           *)
THEOREM ServingPathIsBoth == EitherSpec => Spec /\ S!Spec
  <1>1. EitherInit => Init /\ S!Init
    BY DEF EitherInit
  <1>2. [EitherNext]_either => [Next]_vars /\ [S!Next]_S!vars
    BY OneOfTheTwo
  <1>. QED
    BY <1>1, <1>2, PTL DEF EitherSpec, Spec, S!Spec

(* So every behaviour of the system that MCServingPath checks answers      *)
(* honestly, ends its drills on the truth, rests on one feature set and    *)
(* reports the deployment it made.                                         *)
THEOREM ServingPathIsSafe ==
    ASSUME S!ServingAssumption
    PROVE  EitherSpec => /\ [](HonestAnswers /\ DrillIsSound /\ ServingIsSound)
                         /\ ServeTellsTheTruth
  BY ServingPathIsBoth, AnswersHonest, StoreDrillSound, ServingSound, ServeIsTrue, PTL
=============================================================================
