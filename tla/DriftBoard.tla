----------------------------- MODULE DriftBoard -----------------------------
(***************************************************************************)
(* The drift surface: a job compares each scoring month with the training   *)
(* months and pushes one group of series per month to a gateway that never   *)
(* expires them and keeps them on a volume, if the volume really holds the   *)
(* file; the rules A-8 to A-11 read them; two drills break the board to see  *)
(* the rules decide and put it back.                                        *)
(*                                                                         *)
(* One unit of time is the `for` of A-9 (five minutes): Tick is a scrape of *)
(* the gateway and an evaluation of the rules.                              *)
(***************************************************************************)
EXTENDS Integers, Sequences, FiniteSets, Functions

CONSTANTS Trips,        \* month |-> its trips, one number per calendar day
          Moved,        \* month |-> the columns whose PSI reaches the bar
          Reference,    \* the training months' trips, one number per day
          DrillMonths,  \* the months both drills push, in order
          Predicted,    \* those predicted to fire A-9
          Patience,     \* the drills' waits: what |-> ticks
          Deployments,  \* what the gateway's volume and the alerting may be
          MaxEvents     \* bounds jobs, drills, crashes, re-ingests and kills

Months == DOMAIN Trips
Target == "trip_duration_minutes"

ASSUME MonthsAssumption ==
  /\ IsFiniteSet(Months)
  /\ DrillMonths \in Seq(Months) /\ IsInjective(DrillMonths)
  /\ \E m \in Range(DrillMonths) : Predicted = {m}
  /\ DOMAIN Moved = Months
  /\ \A m \in Months : Len(Trips[m]) > 0 /\ IsFiniteSet(Moved[m])

\* Each wait outlasts what it waits for: one evaluation clears a rule, and one
\* fires after its `for`, of two ticks for A-11.
ASSUME WaitsAssumption ==
  /\ \A w \in {"settle", "cleared", "settled", "returns"} : Patience[w] >= 1
  /\ Patience["observe"] >= 2 /\ Patience["absent"] >= 3
  /\ MaxEvents \in Nat

\* Whether the gateway's volume is bound, its file named, and on the volume.
Volumes == {"none", "unnamed", "elsewhere", "written"}
ASSUME DeploymentsAssumption ==
  Deployments \subseteq [volume : Volumes, wiring : SUBSET {"rules", "alertmanager"}]

Alerts == {"volume", "shape", "stale"}
Series == (Alerts \X Months) \cup {<<"absent", "">>}

VARIABLES data,     \* month |-> what the analyst layer holds of it
          board,    \* month |-> its group on the gateway
          disk,     \* month |-> its group in the last checkpoint
          volume,   \* what the deployment gave the gateway
          wiring,   \* what of the alerting is connected
          pod,      \* the gateway's pod
          job,      \* one run of the drift job
          drill,    \* one run of either drill
          rule,     \* series |-> evaluations it has held for
          left      \* how much may still happen from outside

gateway == <<board, disk, pod>>
deployment == <<volume, wiring>>
vars == <<data, board, disk, volume, wiring, pod, job, drill, rule, left>>

NoGroup == [low |-> FALSE, moved |-> 0, stamp |-> "none"]
Empty == [m \in Months |-> NoGroup]
NoJob == [todo |-> {}, wire |-> FALSE]
NoDrill == [name |-> "none", step |-> 0, red |-> FALSE, waited |-> 0, wire |-> FALSE,
            before |-> 0, fired |-> {}, owes |-> {}, sound |-> TRUE, meddled |-> FALSE,
            end |-> "none"]

Spend == left > 0 /\ left' = left - 1
\* What anybody else does while a drill runs.
Meddle == drill' = [drill EXCEPT !.meddled = drill.step # 0]
MeddleAndCut == drill' = [drill EXCEPT !.meddled = drill.step # 0, !.wire = FALSE]

-----------------------------------------------------------------------------
(* The job.                                                                *)

Sum(days) == Cardinality(UNION {{d} \X (1..days[d]) : d \in DOMAIN days})
ReferenceTotal == Sum(Reference)
Rows(m) == Cardinality(UNION {{d} \X (1..data[m][d]) : d \in DOMAIN data[m]})

\* Faulty variant: a day on which nothing happened leaves the denominator too.
LowOverObserved(m) ==
  2 * Rows(m) * Len(Reference) < ReferenceTotal * Cardinality({d \in DOMAIN data[m] : data[m][d] > 0})
\* trips_per_day over calendar_days, on both sides; the bar of A-9 is one half.
Low(m) == 2 * Rows(m) * Len(Reference) < ReferenceTotal * Len(Trips[m])

\* The input columns at or over the bar: the target is never one of them.
Shifted(m) == Cardinality(Moved[m] \ {Target})

\* compute_drift and build_metrics: raw quantities and the time of the run.
Group(m) == [low |-> Low(m), moved |-> Shifted(m), stamp |-> "fresh"]
\* compute_drift raises on a month that holds no rows.
Computable(m) == Rows(m) > 0

PutGroup(m) == board' = [board EXCEPT ![m] = Group(m)]

JobStart(ms) ==
  /\ job.todo = {}
  /\ Spend
  /\ Meddle
  /\ job' = [todo |-> ms, wire |-> pod = "up"]
  /\ UNCHANGED <<data, gateway, deployment, rule>>

\* _cmd_drift: a push that fails is reported and the next month is computed; a
\* month with no rows raises and ends the run.
JobStep(m) ==
  /\ m \in job.todo
  /\ IF Computable(m) THEN job' = [job EXCEPT !.todo = @ \ {m}] ELSE job' = NoJob
  /\ IF Computable(m) /\ job.wire THEN PutGroup(m) ELSE UNCHANGED board
  /\ UNCHANGED <<data, disk, pod, deployment, drill, rule, left>>

\* A re-ingest: a month appears, or one more of its days comes back with no trips.
Ingest(m) ==
  /\ Spend
  /\ Meddle
  /\ \/ data[m] = <<>> /\ data' = [data EXCEPT ![m] = Trips[m]]
     \/ \E d \in DOMAIN data[m] :
          /\ data[m][d] > 0
          /\ \A e \in DOMAIN data[m] : data[m][e] > 0 => data[m][d] <= data[m][e]
          /\ data' = [data EXCEPT ![m][d] = 0]
  /\ UNCHANGED <<gateway, deployment, job, rule>>

-----------------------------------------------------------------------------
(* The gateway.                                                            *)

\* --persistence.interval=10s.
Checkpoint ==
  /\ pod = "up" /\ volume = "written" /\ disk # board
  /\ disk' = board
  /\ UNCHANGED <<data, board, pod, deployment, job, drill, rule, left>>

\* The host restarts: memory is gone, and so is every port-forward.
Crash ==
  /\ pod = "up"
  /\ Spend
  /\ pod' = "down"
  /\ board' = Empty
  /\ job' = [job EXCEPT !.wire = FALSE]
  /\ MeddleAndCut
  /\ UNCHANGED <<data, disk, deployment, rule>>

Restart ==
  /\ pod = "down"
  /\ pod' = "up"
  /\ board' = IF volume = "written" THEN disk ELSE Empty
  /\ UNCHANGED <<data, disk, deployment, job, drill, rule, left>>

\* Forty days go by without a run.
Aged(groups) == [m \in Months |-> IF groups[m] = NoGroup THEN NoGroup
                                  ELSE [groups[m] EXCEPT !.stamp = "old"]]
Age ==
  /\ drill.step = 0 /\ job.todo = {}
  /\ Spend
  /\ board' = Aged(board)
  /\ disk' = Aged(disk)
  /\ UNCHANGED <<data, pod, deployment, job, drill, rule>>

-----------------------------------------------------------------------------
(* The rules A-8 to A-11.                                                  *)

Holds(s) ==
  CASE s[1] = "volume" -> board[s[2]].low
    [] s[1] = "shape" -> board[s[2]].moved >= 2
    [] s[1] = "stale" -> board[s[2]].stamp = "old"
    [] s[1] = "absent" -> board = Empty
Sustain(s) == CASE s[1] = "stale" -> 0 [] s[1] = "absent" -> 2 [] OTHER -> 1
Firing(s) == rule[s] > Sustain(s)
Named(alert) == {s \in Series : s[1] = alert}
\* rule_state; a rule Prometheus has not loaded is not inactive.
Inactive(alert) == "rules" \in wiring /\ \A s \in Named(alert) : rule[s] = 0
Stirring(alert) == \E s \in Named(alert) : rule[s] > 0
FiringNow == {s \in Series : Firing(s)}
AtAlertmanager(alert) == "alertmanager" \in wiring /\ \E s \in Named(alert) : Firing(s)

Least(m, n) == IF m < n THEN m ELSE n
Held == {m \in Months : board[m] # NoGroup}

-----------------------------------------------------------------------------
(* The drills.                                                             *)

Op(op, arg) == [op |-> op, arg |-> arg]
Each(op) == [i \in 1..Len(DrillMonths) |-> Op(op, {DrillMonths[i]})]

\* drift_fire_drill.main; the last month predicted is the one it clears.
FireScript ==
  Each("reset") \o << Op("settle", {}), Op("clean", {}) >>
  \o Each("push") \o << Op("scraped", {}), Op("observe", {}), Op("judge", {}) >>
  \o << Op("delete", Predicted), Op("cleared", {}), Op("push", Predicted) >>
\* Faulty variant: the new pod is not asked what it holds.
UncountedScript ==
  << Op("bound", {}), Op("named", {}) >> \o Each("push")
  \o << Op("count", {}), Op("terminate", {}), Op("newpod", {}), Op("settled", {}) >>
  \o Each("delete") \o << Op("emptied", {}), Op("absent", {}), Op("blind", {}) >>
  \o Each("push") \o << Op("recount", {}), Op("settled", {}), Op("returns", {}) >>
\* drift_persistence_drill.main.
PersistenceScript ==
  << Op("bound", {}), Op("named", {}) >> \o Each("push")
  \o << Op("count", {}), Op("terminate", {}), Op("newpod", {}), Op("recount", {}), Op("settled", {}) >>
  \o Each("delete") \o << Op("emptied", {}), Op("absent", {}), Op("blind", {}) >>
  \o Each("push") \o << Op("recount", {}), Op("settled", {}), Op("returns", {}) >>

Script == CASE drill.name = "fire" -> FireScript
            [] drill.name = "persistence" -> PersistenceScript
            [] OTHER -> <<>>
Running == drill.step \in 1..Len(Script)
Step == Script[drill.step]
At(op) == Running /\ Step.op = op
Going == [drill EXCEPT !.step = @ + 1, !.waited = 0]
Check(ok) == drill' = [Going EXCEPT !.red = @ \/ ~ok]
\* An exception: `finally` stops the forwards and nothing else.
Abort == drill' = [NoDrill EXCEPT !.owes = drill.owes, !.end = "aborted"]

\* The platform as the predictions take it to be.
Sound ==
  /\ pod = "up" /\ volume = "written" /\ wiring = {"rules", "alertmanager"}
  /\ Held \subseteq Range(DrillMonths)
  /\ \A m \in Range(DrillMonths) : /\ Computable(m) /\ (Low(m) <=> m \in Predicted)
                                   /\ Shifted(m) < 2

StartDrill(name) ==
  /\ drill.step = 0 /\ pod = "up"
  /\ Spend
  /\ drill' = [NoDrill EXCEPT !.name = name, !.step = 1, !.wire = TRUE,
                 !.sound = Sound, !.meddled = job.todo # {}]
  /\ UNCHANGED <<data, gateway, deployment, job, rule>>

\* The reset is best-effort: whatever goes wrong is an absent group.
Reset ==
  /\ At("reset")
  /\ drill' = [Going EXCEPT !.owes = IF drill.wire THEN @ \cup (Step.arg \cap Held) ELSE @]
  /\ board' = [m \in Months |-> IF drill.wire /\ m \in Step.arg THEN NoGroup ELSE board[m]]
  /\ UNCHANGED <<data, disk, pod, deployment, job, rule, left>>

PushMonth ==
  /\ At("push")
  /\ \E m \in Step.arg :
       IF drill.wire /\ Computable(m)
       THEN PutGroup(m) /\ drill' = [Going EXCEPT !.owes = @ \ {m}]
       ELSE Abort /\ UNCHANGED board
  /\ UNCHANGED <<data, disk, pod, deployment, job, rule, left>>

DeleteGroup ==
  /\ At("delete")
  /\ \E m \in Step.arg :
       IF drill.wire
       THEN board' = [board EXCEPT ![m] = NoGroup] /\ drill' = [Going EXCEPT !.owes = @ \cup ({m} \cap Held)]
       ELSE Abort /\ UNCHANGED board
  /\ UNCHANGED <<data, disk, pod, deployment, job, rule, left>>

\* `kubectl delete pod`: a clean SIGTERM writes the file first.
Terminate ==
  /\ At("terminate") /\ pod = "up"
  /\ pod' = "down"
  /\ disk' = IF volume = "written" THEN board ELSE disk
  /\ board' = Empty
  /\ job' = [job EXCEPT !.wire = FALSE]
  /\ drill' = [Going EXCEPT !.wire = FALSE]
  /\ UNCHANGED <<data, deployment, rule, left>>

\* gateway_samples, asked of the gateway itself.
AskGateway ==
  /\ \/ At("count") \/ At("recount") \/ At("emptied")
  /\ IF ~drill.wire THEN Abort
     ELSE CASE Step.op = "count" -> drill' = [Going EXCEPT !.before = Cardinality(Held),
                                                           !.red = @ \/ Held = {}]
            [] Step.op = "recount" -> Check(Cardinality(Held) = drill.before /\ Held # {})
            [] Step.op = "emptied" -> Check(Held = {})
  /\ UNCHANGED <<data, gateway, deployment, job, rule, left>>

\* What can be read at once.
Look ==
  /\ \/ At("bound") /\ Check(volume # "none")
     \/ At("named") /\ Check(volume \in {"elsewhere", "written"})
     \/ At("clean") /\ Check(\A a \in Alerts : Inactive(a))
     \/ At("scraped") /\ Check(Cardinality(Held) >= Len(DrillMonths))
     \/ At("blind") /\ Check(Inactive("stale") /\ Inactive("volume") /\ AtAlertmanager("absent"))
  /\ UNCHANGED <<data, gateway, deployment, job, rule, left>>

\* Judged per alert and month, at the grain of the prediction.
Judge ==
  /\ At("judge")
  /\ Check(/\ \A m \in Predicted : <<"volume", m>> \in drill.fired
           /\ AtAlertmanager("volume")
           /\ \A m \in Range(DrillMonths) \ Predicted : <<"volume", m>> \notin drill.fired
           /\ drill.fired \cap Named("stale") = {})
  /\ UNCHANGED <<data, gateway, deployment, job, rule, left>>

Waiting == {"settle", "observe", "cleared", "newpod", "settled", "absent", "returns"}
Reached == CASE Step.op = "settle" -> \A a \in Alerts : Inactive(a)
             [] Step.op = "observe" -> FALSE
             [] Step.op = "cleared" -> Inactive("volume")
             [] Step.op = "newpod" -> pod = "up"
             [] Step.op = "settled" -> Inactive("absent")
             [] Step.op = "absent" -> \E s \in Named("absent") : Firing(s)
             [] Step.op = "returns" -> Stirring("volume")
\* Whoever waits leaves on what it polls for, or at its timeout.
Wait ==
  /\ Running /\ Step.op \in Waiting
  /\ Reached \/ drill.waited = Patience[Step.op]
  /\ IF Step.op \in {"settle", "observe"} THEN drill' = Going
     ELSE IF Step.op = "newpod" THEN IF Reached THEN drill' = [Going EXCEPT !.wire = TRUE] ELSE Abort
     ELSE Check(Reached)
  /\ UNCHANGED <<data, gateway, deployment, job, rule, left>>

\* Nothing catches a kill.
KillDrill ==
  /\ Running
  /\ Spend
  /\ drill' = [NoDrill EXCEPT !.owes = drill.owes, !.end = "killed"]
  /\ UNCHANGED <<data, gateway, deployment, job, rule>>

Finished == drill.name # "none" /\ drill.step = Len(Script) + 1
Passed == Finished /\ ~drill.red
CloseDrill ==
  /\ Finished
  /\ drill' = [NoDrill EXCEPT !.end = "done"]
  /\ UNCHANGED <<data, gateway, deployment, job, rule, left>>

\* A push takes milliseconds and a pod comes back within a tick.
Tick ==
  /\ pod = "up" /\ job.todo = {}
  /\ Running => (Step.op \in Waiting /\ ~Reached /\ drill.waited < Patience[Step.op])
  /\ ~Finished
  /\ rule' = [s \in Series |-> IF "rules" \in wiring /\ Holds(s)
                               THEN Least(rule[s] + 1, Sustain(s) + 1) ELSE 0]
  /\ drill' = IF ~Running THEN drill
              ELSE [drill EXCEPT !.waited = @ + 1,
                      !.fired = IF Step.op = "observe" THEN @ \cup FiringNow' ELSE @]
  /\ UNCHANGED <<data, gateway, deployment, job, left>>

-----------------------------------------------------------------------------
Init ==
  /\ data = [m \in Months |-> IF m \in Range(DrillMonths) THEN Trips[m] ELSE <<>>]
  /\ board = Empty
  /\ disk = Empty
  /\ \E d \in Deployments : volume = d.volume /\ wiring = d.wiring
  /\ pod = "up"
  /\ job = NoJob
  /\ drill = NoDrill
  /\ rule = [s \in Series |-> 0]
  /\ left = MaxEvents

Drilling == \/ Reset \/ PushMonth \/ DeleteGroup \/ Terminate \/ AskGateway
            \/ Look \/ Judge \/ Wait \/ CloseDrill

Next ==
  \/ \E ms \in (SUBSET Months) \ {{}} : JobStart(ms)
  \/ \E m \in Months : JobStep(m) \/ Ingest(m)
  \/ Checkpoint \/ Crash \/ Restart \/ Age
  \/ \E name \in {"fire", "persistence"} : StartDrill(name)
  \/ Drilling \/ KillDrill
  \/ Tick

Spec == Init /\ [][Next]_vars
\* Prometheus evaluates on its own clock, Kubernetes restarts the pod, the
\* gateway writes its file, and a command that was started goes on.
FairSpec == Spec /\ WF_vars(Tick) /\ WF_vars(Restart) /\ WF_vars(Drilling)
                 /\ \A m \in Months : WF_vars(JobStep(m))
-----------------------------------------------------------------------------
(* Properties.                                                             *)

Groups == [low : BOOLEAN, moved : Nat, stamp : {"none", "fresh", "old"}]

\* Every variable keeps its type.
TypeOK ==
  /\ \A m \in Months : data[m] = <<>> \/ DOMAIN data[m] = DOMAIN Trips[m]
  /\ board \in [Months -> Groups] /\ disk \in [Months -> Groups]
  /\ volume \in Volumes /\ wiring \subseteq {"rules", "alertmanager"}
  /\ pod \in {"up", "down"}
  /\ job.todo \subseteq Months /\ job.wire \in BOOLEAN
  /\ drill.name \in {"none", "fire", "persistence"}
  /\ drill.step \in 0..Len(Script) + 1
  /\ drill.fired \subseteq Series /\ drill.owes \subseteq Months
  /\ \A s \in Series : rule[s] \in 0..Sustain(s) + 1
  /\ left \in 0..MaxEvents

\* A drill's verdict, when nobody else acted during it: PASSED means that the
\* rules are loaded and delivered, that the board holds every month of the drill
\* with its own numbers and, for the persistence drill, that the file really is
\* on the volume; RED is never said of a platform that is as predicted.
VerdictIsEarned ==
  Finished /\ ~drill.meddled =>
    /\ Passed => /\ wiring = {"rules", "alertmanager"}
                 /\ \A m \in Range(DrillMonths) : board[m] = Group(m)
                 /\ drill.name = "persistence" => volume = "written"
    /\ drill.red => ~drill.sound

DrillIsSound == TypeOK /\ VerdictIsEarned

\* F-050, F-051: where the rules are loaded, a board that lost everything is
\* paged by A-11, and a month pushed with less than half of the reference's
\* trips per calendar day by A-9 for that month, unless the board changes first.
Collapsed(m) == IF data[m] = <<>> \/ Rows(m) = 0 THEN FALSE
                ELSE 2 * Rows(m) * Len(Reference) < ReferenceTotal * Len(Trips[m])
LossIsPaged ==
  /\ ("rules" \in wiring /\ board = Empty) ~> (board # Empty \/ Firing(<<"absent", "">>))
  /\ \A m \in Range(DrillMonths) :
       ("rules" \in wiring /\ board[m] = Group(m) /\ Collapsed(m))
         ~> \/ board[m] = NoGroup \/ board[m] # Group(m) \/ Firing(<<"volume", m>>)

\* drift_fire_drill.py: the cleared month's numbers are pushed straight back, and
\* "the board ends carrying the truth": a drill that was not killed leaves no
\* month off the board that it took off.
BoardEndsTrue == drill.step = 0 /\ drill.end # "killed" => drill.owes = {}

=============================================================================
