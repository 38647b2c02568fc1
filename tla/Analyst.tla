------------------------------- MODULE Analyst -------------------------------
(***************************************************************************)
(* What is built over the files of DataTree: the champion's predictions    *)
(* (`make predictions`, training.score, on the held-out months, and        *)
(* `make predictions-scoring`, training.batch, on the scoring months) and  *)
(* the DuckDB layer with its six reconciliations (`make duckdb`,           *)
(* data.analyst).  A publish, an ingest and a build may run at once.       *)
(*                                                                         *)
(* A metric to four decimals is abstracted to what it was measured on: two *)
(* models, or two versions of a month, never score the same.  Every        *)
(* version was promoted on the Original bytes.  Views are named by the     *)
(* months they span; what they return is read from the files when asked.   *)
(* The publishers' provenance files are left out: no check reads them.     *)
(***************************************************************************)
EXTENDS DataTree

CONSTANTS
    Versions,       \* the registered versions of the model
    Fits,           \* those whose features are the configured ones
    Holdout         \* the month of the gate's verdict

ASSUME AnalystAssumption ==
    /\ Fits \subseteq Versions
    /\ Holdout \in HeldOut

VARIABLES
    champion,   \* the version under the alias
    rows,       \* the published predictions of each month
    pub         \* the publish under way

vars == <<treeVars, champion, rows, pub>>

Torn == "torn"
NoFloor == [m \in Train |-> NoFile]
Overridden == [m \in Train |-> "another month"]
Published == HeldOut \cup Scoring
Unwritten(what) == [of |-> what, label |-> 0, by |-> 0, floor |-> NoFloor]
Resting == [step |-> "idle", todo |-> <<>>, label |-> 0, by |-> 0,
            floor |-> NoFloor, read |-> NoPins]
ScoresHeldOut == ToSet(pub.todo) \subseteq HeldOut

Init ==
    /\ TreeInit
    /\ champion \in Versions
    /\ rows = [m \in Published |-> Unwritten(NoFile)]
    /\ pub = Resting

-----------------------------------------------------------------------------
(* The gate's tags: what each version scored on the holdout, and the floor *)
(* it was judged against there.                                            *)
Tag(version) == [by |-> version, on |-> Original]
FloorTag == [fit |-> [m \in Train |-> Original], on |-> Original]

Working == <<treeVars, champion, rows>>

(* A run of score(), or of score_scoring_months() over some months.        *)
(* load_champion: the alias names a version, whose tags are read ...       *)
Publish(months) ==
    /\ pub.step = "idle"
    /\ pub' = [Resting EXCEPT !.step = "load", !.todo = SetToSeq(months),
                              !.label = champion]
    /\ UNCHANGED Working

(* ... and is resolved again for the booster; a champion whose features    *)
(* are not the configured ones is refused.                                 *)
LoadBooster ==
    /\ pub.step = "load"
    /\ pub' = IF champion \notin Fits THEN Resting
              ELSE [pub EXCEPT !.by = champion,
                               !.step = IF ScoresHeldOut THEN "floor" ELSE "read"]
    /\ UNCHANGED Working

(* score fits the floor again on the train months, or, as a red team, on   *)
(* others.                                                                 *)
FitFloor ==
    /\ pub.step = "floor"
    /\ IF \E m \in Train : kept[m] = NoFile
       THEN pub' = Resting
       ELSE \E fit \in {[m \in Train |-> kept[m]], Overridden} :
               pub' = [pub EXCEPT !.step = "read", !.floor = fit]
    /\ UNCHANGED Working

Reproduces(on) == [by |-> pub.by, on |-> on] = Tag(pub.label)
SameFloor(on) == ScoresHeldOut => [fit |-> pub.floor, on |-> on] = FloorTag

(* load_split, of every held-out month or, for batch, the holdout alone,   *)
(* and the checks whose refusal comes before the first row is written.     *)
ReadAndCheck(reproduces) ==
    LET months == IF ScoresHeldOut THEN ToSet(pub.todo) ELSE {Holdout}
    IN  /\ pub.step = "read"
        /\ pub' = IF \/ \E m \in months : kept[m] = NoFile
                     \/ ~reproduces \/ ~SameFloor(kept[Holdout])
                  THEN Resting
                  ELSE [pub EXCEPT !.step = IF ScoresHeldOut THEN "open" ELSE "months",
                                   !.read = [m \in Months |->
                                      IF m \in months THEN kept[m] ELSE NoFile]]
        /\ UNCHANGED Working

(* Faulty variant: the model is taken on trust, the floor is checked.      *)
CheckFloorOnly == ReadAndCheck(TRUE)

(* _check_against_registry and _check_floor_against_registry, or batch's   *)
(* _self_check.                                                            *)
CheckModel == ReadAndCheck(Reproduces(kept[Holdout]))

(* load_scoring_month, for each of batch's months.                         *)
ReadScoring ==
    /\ pub.step = "months"
    /\ pub' = IF \E m \in ToSet(pub.todo) : kept[m] = NoFile THEN Resting
              ELSE [pub EXCEPT !.step = "open",
                               !.read = [m \in Months |->
                                  IF m \in ToSet(pub.todo) THEN kept[m] ELSE NoFile]]
    /\ UNCHANGED Working

WriteRows(step, content, next) ==
    /\ pub.step = step
    /\ rows' = [rows EXCEPT ![Head(pub.todo)] = content]
    /\ pub' = next
    /\ UNCHANGED <<treeVars, champion>>

(* predictions.write: under the final name from the first byte on.         *)
OpenRows == WriteRows("open", Unwritten(Torn), [pub EXCEPT !.step = "close"])

CloseRows ==
    WriteRows("close",
              [of |-> pub.read[Head(pub.todo)], label |-> pub.label,
               by |-> pub.by, floor |-> pub.floor],
              IF Len(pub.todo) = 1 THEN Resting
              ELSE [pub EXCEPT !.step = "open", !.todo = Tail(@)])

KillPublish ==
    /\ pub.step # "idle"
    /\ faults < MaxFaults /\ faults' = faults + 1
    /\ pub' = Resting
    /\ UNCHANGED <<upstream, raw, pins, kept, report, sidecar, ingest, drifted,
                   changes, champion, rows>>

(* A promotion or a rollback, elsewhere.                                   *)
MoveAlias ==
    /\ \E version \in Versions \ {champion} : champion' = version
    /\ UNCHANGED <<treeVars, rows, pub>>

-----------------------------------------------------------------------------
(* report(): the verdict of `make duckdb` over the files as they are.  It  *)
(* writes nothing but the catalogue's views, which every build replaces:   *)
(* CREATE OR REPLACE drops no view, but no file goes away either.          *)
IngestedScoring == {m \in Scoring : kept[m] # NoFile /\ sidecar[m] # NoFile}
Predicted == {m \in HeldOut : rows[m].of # NoFile}
Scored == {m \in Scoring : rows[m].of # NoFile}

(* build: every split month must be there.  Creating a view reads its      *)
(* files: a missing report, or predictions cut short, are an error there.  *)
Builds ==
    /\ \A m \in Splits : NoFile \notin {kept[m], sidecar[m], report[m]}
    /\ \A m \in IngestedScoring : report[m] # NoFile
    /\ \A m \in Predicted \cup Scored : rows[m].of # Torn

SameKept(months) == \A m \in months : Kept[kept[m]] = Kept[report[m]]

(* Faulty variant: a sidecar agrees if it has as many rows as were counted.*)
SameTotals(months) ==
    \A m \in months : RejectedRows(sidecar[m]) = RejectedRows(report[m])

(* Rule by rule, for the totals may agree by chance.                       *)
SameCounts(months) == \A m \in months : Counts[sidecar[m]] = Counts[report[m]]

Covered(m) == rows[m].of # NoFile /\ Kept[rows[m].of] = Kept[report[m]]

(* Once one held-out month is predicted all must be; a scoring month that  *)
(* is not is pending, but one predicted must have been ingested.           *)
Reconciled ==
    /\ SameKept(Splits) /\ SameCounts(Splits)
    /\ SameKept(IngestedScoring) /\ SameCounts(IngestedScoring)
    /\ Predicted # {} => \A m \in HeldOut : Covered(m)
    /\ \A m \in Scored : m \in IngestedScoring /\ Covered(m)

Green == Builds /\ Reconciled

TreeStep ==
    /\ TreeNext
    /\ UNCHANGED <<champion, rows, pub>>

Next ==
    \/ TreeStep
    \/ Publish(HeldOut)
    \/ \E months \in (SUBSET Scoring) \ {{}} : Publish(months)
    \/ LoadBooster
    \/ FitFloor
    \/ CheckModel
    \/ ReadScoring
    \/ OpenRows
    \/ CloseRows
    \/ KillPublish
    \/ MoveAlias

Spec == Init /\ [][Next]_vars

-----------------------------------------------------------------------------
TypeOK ==
    /\ TreeTypeOK
    /\ champion \in Versions
    /\ rows \in [Published -> {Unwritten(NoFile), Unwritten(Torn)} \cup
                   [of : Bytes \ Strange, label : Versions, by : Versions,
                    floor : {NoFloor} \cup [Train -> Bytes]]]
    /\ pub.step \in {"idle", "load", "floor", "read", "months", "open", "close"}

(* A GREEN means that each month's rows, report, sidecar and predictions   *)
(* come from the same bytes, although an ingest or a publish may have been *)
(* killed between any two of its writes.                                   *)
GreenIsOneStory ==
    Green =>
        /\ \A m \in Splits \cup IngestedScoring :
              kept[m] = report[m] /\ report[m] = sidecar[m]
        /\ \A m \in Predicted \cup Scored :
              rows[m].of # Torn /\ rows[m].of = kept[m]

(* Published rows were computed by the version they name, although the     *)
(* alias may move between its two resolutions, and held-out rows beside    *)
(* the floor of that version's gate (F-012).                               *)
RowsBearTheirModel ==
    \A m \in Published : rows[m].of \notin {NoFile, Torn} =>
        /\ rows[m].label = rows[m].by
        /\ m \in HeldOut => rows[m].floor = FloorTag.fit

PublishedIsSound == TypeOK /\ RowsBearTheirModel
=============================================================================
