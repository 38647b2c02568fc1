---------------------------- MODULE MCPromotion ----------------------------
(* Small instances of Promotion for TLC.                                   *)
EXTENDS PromotionRefinement, TLC

(* One recorded unit is 3 fine units; the margin of 0.50% is one recorded  *)
(* unit of a champion at 600.  598 records as 597, exactly the margin      *)
(* below 600, although unrounded it is not; 603 misses the floor's bar     *)
(* (2% below 615 is 602.7); 101 keeps the floor's KPI-10 yet records as    *)
(* 102; and 103, as a champion's, records as 102 too: its bar sinks once   *)
(* the champion is tagged.                                                 *)
MCScores == {[mae |-> 603, within |-> 105], [mae |-> 600, within |-> 103],
             [mae |-> 598, within |-> 101], [mae |-> 594, within |-> 102],
             [mae |-> 594, within |-> 99]}

MCFloor == [mae |-> 615, within |-> 100]

MCGateCfg == [holdout |-> "test", floor |-> "group-median",
              minImprovement |-> 200, noRateRegression |-> TRUE,
              margins |-> {50}]
=============================================================================
