------------------------ MODULE PromotionRefinement ------------------------
(***************************************************************************)
(* Promotion implements ChampionLineage wherever promotions do not overlap *)
(* and reads of the alias do not fail: the decision, the check of the      *)
(* incumbent and the move of the alias, a dozen calls to the registry, are *)
(* then one step, taken when the alias moves.                              *)
(***************************************************************************)
EXTENDS Promotion

(* A version as a champion: its run, and the KPI-10 the gate holds others  *)
(* to: the version's own or else its run's.                                *)
Title(v) ==
    [run |-> versions[v].run,
     within |-> IF versions[v].within = NoTag
                THEN score[versions[v].run].within ELSE versions[v].within]

Seat(v) == {Title(w) : w \in {v} \ {NoVersion}}

Lineage == INSTANCE ChampionLineage
               WITH champion <- Seat(alias), held <- Seat(drill)

(* One champion at a time, replaced only by a run that passed the gate     *)
(* against it: against the one that serves when the alias moves, with the  *)
(* numbers it has then, not only against the one that served when run.py   *)
(* judged.  Whatever else moves the alias is an override or the drill.     *)
RefinesLineage == Lineage!Spec

-----------------------------------------------------------------------------
(* What the refinement rests on, beside IInv.  A process on its way to the *)
(* alias still beats the champion it was judged against, although that     *)
(* champion's version may have been tagged again since; and the KPI-10 of  *)
(* its own version is recorded by the time the alias moves to it.          *)
Judged(p) ==
    /\ pc[p] \in Promoting \cup {"ack"} =>
          \A v \in {incumbent[p]} \ {NoVersion} :
             /\ v \in DOMAIN versions
             /\ Lineage!Beats(run[p], Title(v))
    /\ pc[p] \in Tagging \ {"tag_mae", "tag_within"} =>
          versions[version[p]].within # NoTag

JudgedInv == \A p \in Procs : Judged(p)
=============================================================================
