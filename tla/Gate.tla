-------------------------------- MODULE Gate --------------------------------
(***************************************************************************)
(* The promotion gate, taxi_mlops/training/gate.py: the pure function      *)
(* `decide` that judges one challenger against the honest floor and        *)
(* against the champion that is serving.                                   *)
(*                                                                         *)
(* A KPI (KPI-09, the mean absolute error; KPI-10, the share of quotes     *)
(* within the tolerance) is measured on a fine grid of integers.  What a   *)
(* promotion RECORDS of it on the model version is coarser (four decimals  *)
(* of a minute, three of a point): one recorded unit is Scale fine units,  *)
(* and a recorded value is kept in fine units too, as a multiple of Scale. *)
(* Percentages are in basis points (50 is 0.50%).                          *)
(***************************************************************************)
EXTENDS Integers

CONSTANT Scale

(* An odd Scale has no halfway points: the nearest recorded value is       *)
(* unique, whatever the tie rule of round() and of the format string.      *)
ASSUME ScaleAssumption == Scale \in Nat /\ Scale % 2 = 1

NoVersion == 0

(* A value at the precision the registry records it: round(x, 4) in decide *)
(* and f"{x:.4f}" in run._promote, twins of one another.                   *)
Recorded(x) == Scale * ((x + (Scale \div 2)) \div Scale)

(* improvement_pct(challenger, reference) >= bp, cleared of the division   *)
(* (reference is positive: improvement_pct raises otherwise).              *)
ImprovesBy(challengerMae, referenceMae, bp) ==
    10000 * (referenceMae - challengerMae) >= bp * referenceMae

(* assert_full_train_months, F-008: only the configured months, in their   *)
(* order, earn a verdict.                                                  *)
FullTrainMonths(actual, configured) == actual = configured

-----------------------------------------------------------------------------
(* What `decide` refuses to compare (GateError, not a verdict).            *)

SameHoldout(challenger, floor, cfg) ==
    challenger.split = cfg.holdout /\ floor.split = cfg.holdout

SamePopulation(challenger, floor) ==
    challenger.n = floor.n /\ challenger.tolerance = floor.tolerance

(* The margin is required, never defaulted, once there is an incumbent;    *)
(* cfg.margins holds the configured margin, or nothing at all.             *)
IncumbentComparable(incumbent, cfg) ==
    \/ incumbent.version = NoVersion
    \/ /\ incumbent.split = cfg.holdout
       /\ cfg.margins # {}
       /\ incumbent.mae > 0

Meaningful(challenger, floor, cfg, incumbent) ==
    /\ SameHoldout(challenger, floor, cfg)
    /\ floor.contender = cfg.floor
    /\ SamePopulation(challenger, floor)
    /\ floor.mae > 0
    /\ IncumbentComparable(incumbent, cfg)

-----------------------------------------------------------------------------
(* The named checks of a verdict.                                          *)

(* KPI-09 margin over the honest floor, on unrounded numbers.              *)
ClearsFloor(challenger, floor, cfg) ==
    ImprovesBy(challenger.mae, floor.mae, cfg.minImprovement)

(* KPI-10 does not regress against the floor.                              *)
KeepsFloorRate(challenger, floor, cfg) ==
    cfg.noRateRegression => challenger.within >= floor.within

(* Faulty variant: non-regression, the bar before the margin (F-016).      *)
TiesIncumbent(challenger, incumbent, cfg) ==
    Recorded(challenger.mae) <= incumbent.mae

(* KPI-09 beats the serving champion by the margin, at the precision the   *)
(* champion's number exists at.                                            *)
BeatsIncumbent(challenger, incumbent, cfg) ==
    \A margin \in cfg.margins :
        ImprovesBy(Recorded(challenger.mae), incumbent.mae, margin)

(* KPI-10 does not regress against the serving champion.                   *)
KeepsIncumbentRate(challenger, incumbent) ==
    Recorded(challenger.within) >= incumbent.within

Passed(challenger, floor, cfg, incumbent) ==
    /\ ClearsFloor(challenger, floor, cfg)
    /\ KeepsFloorRate(challenger, floor, cfg)
    /\ incumbent.version # NoVersion =>
          /\ BeatsIncumbent(challenger, incumbent, cfg)
          /\ KeepsIncumbentRate(challenger, incumbent)

(* The three answers of decide: it raises, it refuses, it promotes.        *)
Decide(challenger, floor, cfg, incumbent) ==
    IF ~Meaningful(challenger, floor, cfg, incumbent) THEN "ERROR"
    ELSE IF Passed(challenger, floor, cfg, incumbent) THEN "PROMOTE"
    ELSE "REFUSE"
=============================================================================
