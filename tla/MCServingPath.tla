--------------------------- MODULE MCServingPath ---------------------------
(***************************************************************************)
(* One run for two systems of the serving path: the watch over the online  *)
(* store, and the procedures that change what answers a quote.  They share *)
(* no state, so a behaviour is of one of them, the other's variables       *)
(* staying as they are.                                                    *)
(***************************************************************************)
EXTENDS StoreWatch

CONSTANTS
    Versions, FeatureSet, StartVersion, TargetVersion,
    MaxMoves, MaxFaults, MaxServes, MaxDrills

VARIABLES
    of,     \* "watch" or "serving"
    alias, config, pod, weight, deploy, rehearsal, canary,
    moves, faults, serves, drills

serving == <<alias, config, pod, weight, deploy, rehearsal, canary,
             moves, faults, serves, drills>>
either == <<of, vars, serving>>

S == INSTANCE Serving

ASSUME ConstantsAssumption == S!ServingAssumption

(* The drill's timeouts in ticks, in the order of those of the code.       *)
MCPatience == [health |-> 2, a12 |-> 3, a13 |-> 4, server |-> 1]
(* As registered: version 1 was fitted on the first feature set.           *)
MCFeatureSet == <<"v1", "v2", "v2">>

EitherInit == of \in {"watch", "serving"} /\ Init /\ S!Init

InWatch(A) == of = "watch" /\ A /\ UNCHANGED <<of, serving>>
InServing(A) == of = "serving" /\ A /\ UNCHANGED <<of, vars>>

EitherNext ==
    \/ InWatch(\E dates \in (SUBSET Dates) \ {{}} : Ask(dates))
    \/ InWatch(LookUpZones) \/ InWatch(LookUpCalendar) \/ InWatch(AskSentinel)
    \/ InWatch(Predict) \/ InWatch(Hear)
    \/ \E c \in Clients :
          \/ InWatch(ReadKeys(c)) \/ InWatch(ReadZones(c)) \/ InWatch(ReadDays(c))
          \/ InWatch(Push(c)) \/ InWatch(Write(c)) \/ InWatch(Abandon(c))
    \/ InWatch(Watch) \/ InWatch(Materialize) \/ InWatch(Lose)
    \/ InWatch(StartDrill) \/ InWatch(Look) \/ InWatch(RunReader) \/ InWatch(Inject)
    \/ InWatch(Undo) \/ InWatch(Wait) \/ InWatch(CloseDrill) \/ InWatch(KillDrill)
    \/ InWatch(Tick)
    \/ InServing(S!OperatorServes) \/ InServing(S!Resolve) \/ InServing(S!Apply)
    \/ InServing(S!ReadBack) \/ InServing(S!ServeFails)
    \/ \E v \in Versions : InServing(S!MoveElsewhere(v))
    \/ InServing(S!BeginRehearsal) \/ InServing(S!MoveAlias) \/ InServing(S!MoveConfig)
    \/ InServing(S!Serve) \/ InServing(S!Waited) \/ InServing(S!Gate)
    \/ InServing(S!Finally) \/ InServing(S!RehearsalFails) \/ InServing(S!KillRehearsal)
    \/ InServing(S!BeginCanary) \/ InServing(S!NextWindow) \/ InServing(S!CanaryFails)

(* The fairness of StoreWatch.FairSpec and of Serving.FairSpec; one of two *)
(* systems goes on if their disjunction does, for the other never can.     *)
EitherSpec ==
    /\ EitherInit /\ [][EitherNext]_either
    /\ WF_either(InWatch(Tick) \/ InServing(S!DeployStep))
    /\ WF_either(InWatch(Drilling) \/ InServing(S!RehearsalStep))
    /\ WF_either(InWatch(Handling) \/ InServing(S!NextWindow))
    /\ \A c \in Clients : WF_either(InWatch(ReadOn(c))) /\ WF_either(InWatch(Write(c)))

(* Serving.ServingIsSound.                                                 *)
ServingIsSound == S!ServingIsSound
(* Serving.ServeTellsTheTruth.                                             *)
ServeTellsTheTruth == S!ServeTellsTheTruth
(* Serving.RehearsalReturns.                                               *)
RehearsalReturns == S!RehearsalReturns
=============================================================================
