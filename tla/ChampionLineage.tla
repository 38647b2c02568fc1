-------------------------- MODULE ChampionLineage --------------------------
(***************************************************************************)
(* What promotion promises, without the registry: one champion at a time,  *)
(* which another run replaces in ONE step, by passing the gate against it; *)
(* anything else that moves the champion is an override that is accounted  *)
(* for, and goes to a run that once earned its place.                      *)
(***************************************************************************)
EXTENDS Gate

CONSTANTS Runs, Scores, Floor, GateCfg

VARIABLES
    score,      \* what a run's model measures
    champion,   \* the run that serves, with the KPI-10 it is held to, or {}
    held,       \* the champion that a drill will put back, or {}
    overrides   \* made so far

vars == <<score, champion, held, overrides>>

(* A run as a champion, its KPI-10 recorded or (before it was) as measured.*)
Titles(r) == [run : {r}, within : {score[r].within, Recorded(score[r].within)}]

Earned(r) ==
    /\ ClearsFloor(score[r], Floor, GateCfg)
    /\ KeepsFloorRate(score[r], Floor, GateCfg)

(* The gate's verdict on r against c: both of its conditions.              *)
Beats(r, c) ==
    /\ GateCfg.margins # {}
    /\ BeatsIncumbent(score[r], [mae |-> Recorded(score[c.run].mae)], GateCfg)
    /\ KeepsIncumbentRate(score[r], c)

Init ==
    /\ score \in [Runs -> Scores]
    /\ champion \in {{}} \cup
          {{[run |-> r, within |-> score[r].within]} : r \in {s \in Runs : Earned(s)}}
    /\ held = {}
    /\ overrides = 0

Promote(r) ==
    /\ Earned(r)
    /\ \A c \in champion : Beats(r, c)
    /\ champion' = {[run |-> r, within |-> Recorded(score[r].within)]}
    /\ UNCHANGED <<score, held, overrides>>

(* An operator puts any run back that earned its place.                    *)
Override(r) ==
    /\ Earned(r)
    /\ \E title \in Titles(r) : champion' = {title}
    /\ overrides' = overrides + 1
    /\ UNCHANGED <<score, held>>

(* A drill notes the champion, leaves the seat empty, and puts it back.    *)
Note ==
    /\ held = {} /\ champion # {}
    /\ held' = champion
    /\ overrides' = overrides + 1
    /\ UNCHANGED <<score, champion>>

Vacate ==
    /\ held # {}
    /\ champion' = {}
    /\ UNCHANGED <<score, held, overrides>>

Restore ==
    /\ held # {}
    /\ champion' = held
    /\ held' = {}
    /\ UNCHANGED <<score, overrides>>

(* The measured KPI-10 of a champion, or of one that is held, gives way to *)
(* the recorded one.                                                       *)
Settles(seat, new) ==
    \/ new = seat
    \/ new = {[c EXCEPT !.within = Recorded(score[c.run].within)] : c \in seat}

Settle ==
    /\ Settles(champion, champion')
    /\ Settles(held, held')
    /\ UNCHANGED <<score, overrides>>

Next ==
    \/ \E r \in Runs : Promote(r) \/ Override(r)
    \/ Note \/ Vacate \/ Restore \/ Settle

Spec == Init /\ [][Next]_vars
=============================================================================
