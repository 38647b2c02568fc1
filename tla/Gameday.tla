------------------------------ MODULE Gameday ------------------------------
(***************************************************************************)
(* The gameday: four staged failures of the predictor, each with a          *)
(* prediction, watched through the alert rules A-2, A-3, A-5, A-6 and A-7.   *)
(* The positive control (alert_fire_drill) comes first, so that "nothing    *)
(* fired" may be read afterwards; the storage scenario takes the endpoint   *)
(* down and owes its return. The stop and start rehearsal shares the        *)
(* endpoint. A-1 and the restart counter are left out: no scenario moves    *)
(* them on purpose.                                                        *)
(*                                                                         *)
(* One unit of time is a minute. Load is four requests a minute, so that a  *)
(* request stands for a quarter of the minute's; the rules read the last    *)
(* five minutes.                                                           *)
(***************************************************************************)
EXTENDS Integers, Sequences, Functions

CONSTANTS MaxRuns,      \* invocations of the gameday
          MaxTroubles   \* slow starts, kills, failed commands, rehearsals

ASSUME GamedayAssumption == MaxRuns \in Nat /\ MaxTroubles \in Nat

Scenarios == {"control", "kill", "storage", "saturation"}
Order == <<"control", "kill", "storage", "saturation", "report">>

\* WATCHED, and the `for` of each rule in minutes.
Sustain == [a2 |-> 5, a3 |-> 2, a5 |-> 2, a6 |-> 10, a7 |-> 3]
Alerts == DOMAIN Sustain
Links == {"scrape", "route"}   \* metrics to Prometheus, Prometheus to Alertmanager

VARIABLES pod,      \* the predictor's pod
          secret,   \* the credential its storage initializer reads
          stopped,  \* the InferenceService carries stop=true
          wiring,   \* the links that work
          window,   \* the traffic of the last five minutes
          over,     \* rule |-> evaluations its expression has held for
          hurt,     \* minutes with errors since the window was last clean
          drill,    \* the gameday under way
          rehearsal,
          files,    \* scenario |-> its record on disk
          day,      \* which invocation this is
          left

endpoint == <<pod, secret, stopped>>
rules == <<window, over, hurt>>
vars == <<endpoint, wiring, rules, drill, rehearsal, files, day, left>>

NoFile == [day |-> 0, ok |-> FALSE]
Never == [a \in Alerts |-> 0]
NoDrill == [todo |-> <<>>, at |-> "idle", due |-> FALSE, minutes |-> 0, fired |-> Never,
            held |-> "good", replaced |-> FALSE, spared |-> TRUE, errors |-> 0, peak |-> FALSE,
            raised |-> FALSE]

Trouble == left > 0 /\ left' = left - 1
Answers == pod = "ready"

-----------------------------------------------------------------------------
(* The rules.                                                              *)

Quiet == [sent |-> 0, bad |-> 0, rejected |-> 0]
Total(w, what) == w[1][what] + w[2][what] + w[3][what] + w[4][what] + w[5][what]
Sent(w) == Total(w, "sent")
Bad(w) == Total(w, "bad")
OverTheBar(w) == 10 * Bad(w) > Sent(w)

\* Faulty variant: a rule that has held for its sustain is taken for one that exceeds it.
FiringAtOnce(a) == over[a] >= Sustain[a]
\* Faulty variant: a rule never reaches the evaluation it would fire at.
FiringTooLate(a) == over[a] > Sustain[a] + 1
Firing(a) == over[a] > Sustain[a]
FiringSet == {a \in Alerts : Firing(a)}
Inactive == \A a \in Alerts : over[a] = 0
AtAlertmanager == IF wiring = Links THEN FiringSet ELSE {}

Traffic ==
  CASE drill.at = "inject" -> [sent |-> 4, bad |-> 2, rejected |-> 2]
    [] drill.at \in {"load", "press"} -> [sent |-> 4, bad |-> 0, rejected |-> 0]
    [] OTHER -> Quiet

Holding(w, p) ==
  IF "scrape" \notin wiring THEN {}
  ELSE {a \in Alerts :
         CASE a = "a2" -> OverTheBar(w)
           [] a = "a3" -> 100 * Total(w, "rejected") > Sent(w)
           [] a = "a5" -> p # "ready" /\ ~stopped    \* a stopped service has no series
           [] a = "a6" -> drill.at = "press" /\ p = "ready"
           [] a = "a7" -> p = "stuck"}

\* What a minute makes of the pod: the initializer downloads with the secret.
Becomes(p) ==
  CASE p = "starting" -> IF secret = "good" THEN "ready" ELSE "stuck"
    [] p = "stuck" -> IF secret = "good" THEN "ready" ELSE "stuck"
    [] OTHER -> p

\* A pod that comes up within the minute costs one quarter of it, or two.
Lost(p, next, quarters) ==
  IF p = "ready" THEN Traffic.bad
  ELSE IF next = "ready" /\ Traffic.sent > 0 THEN quarters ELSE Traffic.sent

Minute(next, quarters) ==
  LET lost == Lost(pod, next, quarters)
      minute == [sent |-> Traffic.sent, bad |-> lost,
                 rejected |-> IF pod = "ready" THEN Traffic.rejected ELSE 0]
      w == Append(Tail(window), minute)
      holding == Holding(w, next)
  IN  /\ pod' = next
      /\ window' = w
      /\ over' = [a \in Alerts |-> IF a \notin holding THEN 0
                                   ELSE IF over[a] > Sustain[a] THEN over[a] ELSE over[a] + 1]
      /\ hurt' = IF Bad(w) = 0 THEN 0 ELSE IF lost > 0 /\ hurt < 2 THEN hurt + 1 ELSE hurt
      /\ drill' = IF drill.at = "idle" THEN drill
                  ELSE [drill EXCEPT !.due = TRUE, !.minutes = @ + 1, !.errors = IF @ + lost > 2 THEN 2 ELSE @ + lost,
                                     !.peak = @ \/ ("scrape" \in wiring /\ OverTheBar(w))]

Tick ==
  /\ ~drill.due /\ rehearsal = "none"     \* the rehearsal starts what it stopped at once
  /\ \/ /\ \E quarters \in 1..2 : Minute(Becomes(pod), quarters)
        /\ UNCHANGED left
     \/ /\ pod = "starting"          \* a slow start
        /\ Minute(pod, 1)
        /\ Trouble
  /\ UNCHANGED <<secret, stopped, wiring, rehearsal, files, day>>

-----------------------------------------------------------------------------
(* The gameday.                                                            *)

Scenario == Head(drill.todo)
All == Len(drill.todo) # 1 \/ Scenario = "report"
Seen == [a \in Alerts |-> IF drill.fired[a] = 0 /\ Firing(a) THEN drill.minutes ELSE drill.fired[a]]
EverFired(fired) == {a \in Alerts : fired[a] > 0}

Goto(at) == drill' = [drill EXCEPT !.at = at, !.minutes = 0, !.due = TRUE]
\* Poll until done, or for so many minutes, then go on.
Poll(at, minutes, done, next) ==
  /\ drill.at = at /\ drill.due
  /\ drill' = [drill EXCEPT !.fired = Seen,
                 !.at = IF done \/ drill.minutes >= minutes THEN next ELSE at,
                 !.minutes = IF done \/ drill.minutes >= minutes THEN 0 ELSE @,
                 !.due = done \/ drill.minutes >= minutes]
Stop == drill' = NoDrill
\* One scenario after another; main stops at the first that does not return 0.
Continue ==
  drill' = IF Len(drill.todo) = 1 THEN NoDrill
           ELSE [NoDrill EXCEPT !.todo = Tail(drill.todo), !.at = "preflight", !.due = TRUE]

\* finish, and the control's own record: the verdict beside what it rests on.
Record(ok) ==
  files' = [files EXCEPT ![Scenario] =
             [day |-> day, ok |-> ok, all |-> All, wired |-> wiring = Links,
              quiet |-> EverFired(Seen) = {} /\ AtAlertmanager = {},
              short |-> drill.errors = 1, under |-> ~drill.peak,
              sound |-> Answers /\ secret = "good"]]

world == <<endpoint, wiring, rules, rehearsal, left>>
rest == <<world, files, day>>

Begin ==
  /\ drill.at = "idle" /\ day < MaxRuns
  /\ day' = day + 1
  /\ \E todo \in {Order} \cup {<<s>> : s \in Scenarios} :
       drill' = [NoDrill EXCEPT !.todo = todo, !.at = "preflight", !.due = TRUE]
  /\ UNCHANGED <<world, files>>

\* The control's own preflight does not ask the endpoint; a refusal leaves the
\* record of an earlier day where it is.
Preflight ==
  /\ drill.at = "preflight" /\ Scenario # "report"
  /\ IF Inactive /\ (Scenario = "control" \/ Answers)
     THEN drill' = [drill EXCEPT !.at = IF Scenario = "control" THEN "inject" ELSE "settle",
                                 !.due = Scenario # "control"]
     ELSE Stop
  /\ UNCHANGED rest

\* A wait that runs out is recorded, and the scenario goes on.
Settle ==
  /\ Poll("settle", 7, ("scrape" \notin wiring \/ Bad(window) = 0) /\ Inactive, Scenario)
  /\ UNCHANGED rest

\* The control: inject for seven minutes or until both have fired; one ordinary
\* quote after the first.
Inject ==
  /\ drill.at = "inject" /\ drill.due
  /\ LET both == {"a2", "a3"} \subseteq EverFired(Seen)
         done == both \/ drill.minutes >= 7
     IN  drill' = [drill EXCEPT
           !.fired = Seen, !.due = done,
           !.at = IF done THEN "clear" ELSE @,
           !.minutes = IF done THEN 0 ELSE @,
           !.spared = (@ /\ (drill.minutes # 1 \/ Answers))
                      /\ (~done \/ AtAlertmanager \cap {"a2", "a3"} = {"a2", "a3"})]
  /\ UNCHANGED rest

\* The injection's prediction: these two, in the order of their sustains.
ControlPredicted ==
  EverFired(drill.fired) = {"a2", "a3"} /\ drill.fired["a3"] < drill.fired["a2"]
\* Faulty variant: the control does not ask what reached Alertmanager.
HeldUnasked(cleared) == ControlPredicted /\ cleared
ControlHeld(cleared) == ControlPredicted /\ drill.spared /\ cleared

\* scenario_control: the drill's own exit decides whether the day goes on.
Delegated(held) == Record(held) /\ (IF held THEN Continue ELSE Stop)

Clear ==
  /\ drill.at = "clear" /\ drill.due
  /\ LET cleared == \A a \in EverFired(drill.fired) : over[a] = 0
     IN  IF cleared \/ drill.minutes >= 8
         THEN Delegated(ControlHeld(cleared))
         ELSE /\ drill' = [drill EXCEPT !.due = FALSE]
              /\ UNCHANGED files
  /\ UNCHANGED <<world, day>>

\* The kill: five minutes of load, the pod deleted in the first, then a watch.
Kill ==
  /\ drill.at = "kill"
  /\ IF pod = "absent" THEN Stop /\ UNCHANGED pod
     ELSE /\ pod' = "starting"
          /\ drill' = [drill EXCEPT !.at = "load", !.minutes = 0, !.due = FALSE, !.errors = 0,
                                    !.replaced = TRUE,
                                    !.peak = OverTheBar(window) /\ "scrape" \in wiring]
  /\ UNCHANGED <<secret, stopped, wiring, rules, rehearsal, files, day, left>>

Load == Poll("load", 5, FALSE, "watch") /\ UNCHANGED rest
Watch == Poll("watch", 5, FALSE, "judge") /\ UNCHANGED rest

\* A short burst of errors, under the bar, and no alert at all.
KillPredicted == drill.errors = 1 /\ ~drill.peak /\ EverFired(Seen) = {}
KillHeld ==
  /\ drill.replaced /\ pod # "absent"
  /\ KillPredicted /\ AtAlertmanager = {}

\* The storage scenario: capture the credential, break it, delete the pod, watch.
Capture ==
  /\ drill.at = "storage"
  /\ secret' = "wrong"
  /\ drill' = [drill EXCEPT !.held = secret, !.at = "break"]
  /\ UNCHANGED <<pod, stopped, wiring, rules, rehearsal, files, day, left>>

Break ==
  /\ drill.at = "break"
  /\ IF pod = "absent"
     THEN drill' = [drill EXCEPT !.raised = TRUE, !.at = "undo"] /\ UNCHANGED pod
     ELSE /\ pod' = "starting"
          /\ drill' = [drill EXCEPT !.at = "broken", !.minutes = 0, !.due = FALSE]
  /\ UNCHANGED <<secret, stopped, wiring, rules, rehearsal, files, day, left>>

Broken == Poll("broken", 5, FALSE, "undo") /\ UNCHANGED rest

\* `make serve`, in the finally: it writes the secret from .env and waits for the
\* endpoint; or it fails, before the secret or after.
MakeServe ==
  /\ drill.at = "undo"
  /\ \/ secret' = "good" /\ Goto("serve") /\ UNCHANGED left
     \/ secret' \in {secret, "good"} /\ Goto("mend") /\ Trouble
  /\ UNCHANGED <<pod, stopped, wiring, rules, rehearsal, files, day>>

Served ==
  /\ Poll("serve", 10, Answers, IF Answers THEN "rest" ELSE "mend")
  /\ UNCHANGED rest

\* Otherwise the captured bytes, and the pod deleted once more.
Mend ==
  /\ drill.at = "mend"
  /\ secret' = drill.held
  /\ IF pod = "absent" THEN Stop /\ UNCHANGED pod
     ELSE pod' = "starting" /\ Goto("rollout")
  /\ UNCHANGED <<stopped, wiring, rules, rehearsal, files, day, left>>

\* rollout status, asked before the controller has seen the deletion, may return
\* at once; after five minutes it raises.
Rollout ==
  /\ drill.at = "rollout" /\ drill.due
  /\ \/ (drill.minutes = 0 \/ Answers) /\ Goto("rest")
     \/ drill.minutes < 5 /\ ~Answers /\ drill' = [drill EXCEPT !.due = FALSE]
     \/ drill.minutes >= 5 /\ ~Answers /\ Stop
  /\ UNCHANGED rest

Rest ==
  /\ drill.at = "rest" /\ drill.due
  /\ IF drill.raised THEN Stop
     ELSE drill' = [drill EXCEPT !.due = drill.minutes >= 3,
                                 !.at = IF drill.minutes >= 3 THEN "judge" ELSE @]
  /\ UNCHANGED rest

AlertsAsPredicted ==
  /\ drill.fired["a5"] > 0 /\ drill.fired["a7"] > 0
  /\ drill.fired["a5"] < drill.fired["a7"] /\ drill.fired["a2"] = 0
\* Faulty variant: the undo is believed, the endpoint is not asked.
UndoBelieved == AlertsAsPredicted
StorageHeld == AlertsAsPredicted /\ Answers

\* Saturation: thirteen minutes past the ceiling, without one error.
Press ==
  /\ drill.at = "saturation"
  /\ drill' = [drill EXCEPT !.at = "press", !.minutes = 0, !.due = FALSE, !.errors = 0]
  /\ UNCHANGED rest
Pressed == Poll("press", 13, FALSE, "judge") /\ UNCHANGED rest

SaturationPredicted ==
  /\ drill.fired["a6"] > 0 /\ drill.errors = 0
  /\ drill.fired["a2"] = 0 /\ drill.fired["a5"] = 0 /\ drill.fired["a7"] = 0
SaturationHeld == SaturationPredicted /\ ~drill.replaced

\* finish: a prediction that was wrong is recorded, and returns 0.
Finish ==
  /\ drill.at = "judge"
  /\ Record(CASE Scenario = "kill" -> KillHeld
              [] Scenario = "storage" -> StorageHeld
              [] Scenario = "saturation" -> SaturationHeld)
  /\ Continue
  /\ UNCHANGED <<world, day>>

\* scenario_report: whatever is on disk, assembled.
Report ==
  /\ drill.at = "preflight" /\ Scenario = "report"
  /\ files' = [files EXCEPT !["report"] =
                [day |-> day, ok |-> \E s \in Scenarios : files[s].day > 0 /\ ~files[s].ok]]
  /\ Continue
  /\ UNCHANGED <<world, day>>

-----------------------------------------------------------------------------
(* Others at the endpoint, and what goes wrong.                            *)

StopService ==
  /\ rehearsal = "none" /\ Answers
  /\ Trouble
  /\ rehearsal' = "stopped" /\ stopped' = TRUE
  /\ pod' = "absent"
  /\ drill' = [drill EXCEPT !.replaced = drill.at # "idle"]
  /\ UNCHANGED <<secret, wiring, rules, files, day>>

StartService ==
  /\ rehearsal = "stopped"
  /\ rehearsal' = "none" /\ stopped' = FALSE
  /\ pod' = "starting"
  /\ UNCHANGED <<secret, wiring, rules, drill, files, day, left>>

\* Killed between the two halves: nothing starts the service again.
RehearsalKilled ==
  /\ rehearsal = "stopped"
  /\ Trouble
  /\ rehearsal' = "none"
  /\ UNCHANGED <<endpoint, wiring, rules, drill, files, day>>

\* The gameday's process is killed outright: no `finally` runs.
DrillKilled ==
  /\ drill.at # "idle"
  /\ Trouble
  /\ Stop
  /\ UNCHANGED <<endpoint, wiring, rules, rehearsal, files, day>>

Init ==
  /\ pod = "ready" /\ secret = "good" /\ stopped = FALSE
  /\ wiring \in SUBSET Links
  /\ window = [i \in 1..5 |-> Quiet] /\ over = Never /\ hurt = 0
  /\ drill = NoDrill /\ rehearsal = "none"
  /\ files = [s \in Range(Order) |-> NoFile]
  /\ day = 0 /\ left = MaxTroubles

DrillStep ==
  \/ Preflight \/ Settle \/ Inject \/ Clear \/ Kill \/ Load \/ Watch
  \/ Capture \/ Break \/ Broken \/ MakeServe \/ Served \/ Mend \/ Rollout \/ Rest
  \/ Press \/ Pressed \/ Finish \/ Report

Next ==
  \/ Tick \/ Begin \/ DrillStep
  \/ StopService \/ StartService \/ RehearsalKilled \/ DrillKilled

Spec == Init /\ [][Next]_vars

\* Prometheus evaluates every fifteen seconds, whatever else happens; a drill
\* that is running polls.
FairSpec == Spec /\ WF_vars(Tick) /\ WF_vars(DrillStep)

-----------------------------------------------------------------------------
(* Properties.                                                             *)

TypeOK ==
  /\ pod \in {"ready", "starting", "stuck", "absent"}
  /\ secret \in {"good", "wrong"} /\ stopped \in BOOLEAN
  /\ wiring \subseteq Links
  /\ Len(window) = 5 /\ hurt \in 0..2
  /\ \A a \in Alerts : over[a] \in 0..(Sustain[a] + 1)
  /\ rehearsal \in {"none", "stopped"} /\ day \in 0..MaxRuns /\ left \in 0..MaxTroubles

\* Errors confined to one minute never page A-2, however little else was asked in
\* its window: the share stays over the bar for as long as the window is, and the
\* sustain outlasts that. (The `for` of ServingEdge5xxRateHigh; the gameday's kill.)
OneMinuteNeverPages == Firing("a2") => hurt >= 2

\* On a day that ran in order, a kill recorded as quiet was watched by alerting
\* that worked: the control went all the way to Alertmanager first, so its silence
\* is evidence. (gameday_m6.py, scenario_control before scenario_kill.)
NegativesAreReadable ==
  LET kill == files["kill"] IN kill.day > 0 => (kill.all /\ kill.quiet => kill.wired)

\* A storage scenario recorded as predicted has given the credential back and left
\* the endpoint answering, also when the credential it captured was an earlier
\* run's wrong one, `make serve` failed, or the rollout was asked too early.
StorageVerdictIsTrue ==
  LET storage == files["storage"] IN storage.day > 0 => (storage.ok => storage.sound)

\* What the records of a gameday say held is so.
RecordsAreTrue == TypeOK /\ NegativesAreReadable /\ StorageVerdictIsTrue

\* A pod whose initializer cannot read the model is paged, or comes back.
OutageIsPaged ==
  (pod = "stuck" /\ wiring = Links) ~> (Firing("a5") \/ Firing("a7") \/ pod # "stuck")

\* "The edge 5xx SHARE peaked below A-2's 0.10 bar (predicted: a single self-heal
\* cannot reach it)": an outage inside the predicted seconds stays under the bar.
SelfHealStaysUnder ==
  LET kill == files["kill"] IN kill.day > 0 => (kill.all /\ kill.wired /\ kill.short => kill.under)
=============================================================================
