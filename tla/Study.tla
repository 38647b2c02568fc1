------------------------------- MODULE Study -------------------------------
(***************************************************************************)
(* The hyper-parameter search: one Optuna study in Postgres, filled by     *)
(* runs of scripts/optuna_sniper.py through taxi_mlops.tuning, and the     *)
(* kill-and-resume drill of scripts/sniper_resume_drill.py.  A trial       *)
(* outlives the process that fits it; what a resumed run owes is counted   *)
(* from the storage; a trial whose process died is known by its stale      *)
(* heartbeat.  The storage is reached through a port-forward that belongs  *)
(* to whichever process opened it first.                                   *)
(*                                                                         *)
(* Values, parameters and MLflow runs are left out: no count depends on    *)
(* them.  Optuna itself is external: before each trial, optimize() fails   *)
(* the stale trials and enqueues a retry of each, MaxRetry times at most,  *)
(* and then takes a waiting trial or a new one.  The rows of the study are *)
(* counted by state; a live row remembers how often it was retried.        *)
(***************************************************************************)
EXTENDS Integers, FiniteSets

CONSTANTS
    Snipers,        \* processes that may run the same command
    Requested,      \* --n-trials
    KillAfter,      \* the drill's --kill-after-trials
    MaxRetry,       \* RetryFailedTrialCallback(max_retry=1)
    MaxKills, MaxTroubles   \* bounds: kills; failing fits and spent budgets

Nobody == "nobody"
Drill == "drill"

\* Of the constants; the module that gives them values assumes it.
StudyAssumption ==
    /\ Snipers # {} /\ IsFiniteSet(Snipers) /\ {Nobody, Drill} \cap Snipers = {}
    /\ Requested \in Nat /\ MaxRetry \in Nat
    /\ KillAfter \in 1 .. Requested
    /\ MaxKills \in Nat /\ MaxTroubles \in Nat

VARIABLES
    answered,   \* rows COMPLETE or PRUNED
    failed,     \* rows FAIL
    waiting,    \* rows WAITING, by the retries behind them
    dead,       \* rows RUNNING whose process is gone, by retries
    fits,       \* per sniper: the retries of the row it is fitting
    step,       \* per sniper
    left,       \* the trials its optimize() has yet to run
    tunnel,     \* whose port-forward stands
    drill,      \* the resume drill's phase; "none" if this is no drill's study
    cut,        \* the drill's kill fell within a fit
    finished,   \* a run has ended having run all the trials it owed
    kills, troubles

rows == <<answered, failed, waiting, dead>>
vars == <<rows, fits, step, left, tunnel, drill, cut, finished, kills, troubles>>

Idle == MaxRetry + 1
Tries == 0 .. MaxRetry
Nothing == [t \in Tries |-> 0]
RowsOf(bag) == UNION {{t} \X (1 .. bag[t]) : t \in Tries}
Size(bag) == Cardinality(RowsOf(bag))
Plus(bag, t) == [bag EXCEPT ![t] = @ + 1]
Less(bag, t) == [bag EXCEPT ![t] = @ - 1]

Fitting == {p \in Snipers : fits[p] # Idle}
Running == Size(dead) + Cardinality(Fitting)
Total == answered + failed + Size(waiting) + Running

Init ==
    /\ answered = 0 /\ failed = 0 /\ waiting = Nothing /\ dead = Nothing
    /\ fits = [p \in Snipers |-> Idle]
    /\ step = [p \in Snipers |-> "off"]
    /\ left = [p \in Snipers |-> 0]
    /\ drill \in {"none", "launch"}
    /\ tunnel = IF drill = "none" THEN Nobody ELSE Drill
    /\ cut = FALSE /\ finished = FALSE
    /\ kills = 0 /\ troubles = 0

Goto(p, label) == step' = [step EXCEPT ![p] = label]

(* The process ends, and its tunnel with it.                               *)
Gone(p) ==
    /\ step' = [step EXCEPT ![p] = "off"]
    /\ left' = [left EXCEPT ![p] = 0]
    /\ fits' = [fits EXCEPT ![p] = Idle]
    /\ tunnel' = IF tunnel = p THEN Nobody ELSE tunnel

(* It ends without a word to the storage: its row stays RUNNING.           *)
Dies(p) ==
    /\ Gone(p)
    /\ dead' = IF p \in Fitting THEN Plus(dead, fits[p]) ELSE dead
    /\ UNCHANGED <<answered, failed, waiting>>

-----------------------------------------------------------------------------
(* port_forward: an open tunnel is reused, whoever holds it.               *)
Start(p) ==
    /\ step[p] = "off"
    /\ Goto(p, "open")
    /\ tunnel' = IF tunnel = Nobody THEN p ELSE tunnel
    /\ UNCHANGED <<rows, fits, left, cut, finished, kills, troubles>>

Launch(p) ==
    /\ drill = "none"
    /\ answered < Requested
    /\ Start(p)
    /\ UNCHANGED drill

(* Any call to the storage fails without a tunnel, and ends the process.   *)
TunnelLost(p) ==
    /\ step[p] # "off" /\ tunnel = Nobody
    /\ Dies(p)
    /\ UNCHANGED <<drill, cut, finished, kills, troubles>>

Reaches(p, label) == step[p] = label /\ tunnel # Nobody

(* Faulty variant: every row counts as done.                               *)
OwedByLength == IF Total < Requested THEN Requested - Total ELSE 0

(* Faulty variant: the difference is not cut off at zero.                  *)
OwedUnclamped == Requested - answered

(* What a run owes: the requested trials less the answered ones.           *)
Owed == IF answered < Requested THEN Requested - answered ELSE 0

(* create_study(load_if_exists=True) and the start of optimize().          *)
OpenStudy(p) ==
    /\ Reaches(p, "open")
    /\ left' = [left EXCEPT ![p] = Owed]
    /\ Goto(p, IF Owed = 0 THEN "close" ELSE "ask")
    /\ UNCHANGED <<rows, fits, tunnel, drill, cut, finished, kills, troubles>>

(* Faulty variant: the storage has no heartbeat.                           *)
StaleNever == {Nothing}

(* The dead rows whose stamp is older than the grace period: any of them,  *)
(* and all of them once the drill has waited the period out.               *)
Stale ==
    IF drill = "wait" THEN {dead}
    ELSE {bag \in [Tries -> 0 .. Size(dead)] : \A t \in Tries : bag[t] <= dead[t]}

(* RetryFailedTrialCallback.                                               *)
Retries(stale) == [t \in Tries |-> IF t > 0 THEN stale[t - 1] ELSE 0]

(* optimize(), before each trial: fail_stale_trials, then ask.             *)
Ask(p) ==
    \E stale \in Stale :
        LET queue == [t \in Tries |-> waiting[t] + Retries(stale)[t]]
        IN  /\ Reaches(p, "ask")
            /\ failed' = failed + Size(stale)
            /\ dead' = [t \in Tries |-> dead[t] - stale[t]]
            /\ \/ /\ Size(queue) = 0
                  /\ fits' = [fits EXCEPT ![p] = 0]
                  /\ waiting' = queue
               \/ \E t \in Tries :
                    /\ queue[t] > 0
                    /\ fits' = [fits EXCEPT ![p] = t]
                    /\ waiting' = Less(queue, t)
            /\ Goto(p, "fit")
            /\ UNCHANGED <<answered, left, tunnel, drill, cut, finished, kills, troubles>>

(* The objective returns, or _Reporter raises TrialPruned.                 *)
Answer(p) ==
    /\ Reaches(p, "fit")
    /\ answered' = answered + 1
    /\ fits' = [fits EXCEPT ![p] = Idle]
    /\ left' = [left EXCEPT ![p] = @ - 1]
    /\ Goto(p, IF left[p] = 1 THEN "close" ELSE "ask")
    /\ UNCHANGED <<failed, waiting, dead, tunnel, drill, cut, finished, kills, troubles>>

(* The objective raises: the trial has failed and the search ends there.   *)
Raise(p) ==
    /\ Reaches(p, "fit")
    /\ troubles < MaxTroubles /\ troubles' = troubles + 1
    /\ failed' = failed + 1
    /\ Gone(p)
    /\ UNCHANGED <<answered, waiting, dead, drill, cut, finished, kills>>

(* --budget-seconds is spent between two trials.                           *)
Spend(p) ==
    /\ drill = "none"
    /\ Reaches(p, "ask")
    /\ troubles < MaxTroubles /\ troubles' = troubles + 1
    /\ Gone(p)
    /\ UNCHANGED <<rows, drill, cut, finished, kills>>

Close(p) ==
    /\ Reaches(p, "close")
    /\ Gone(p)
    /\ finished' = TRUE
    /\ UNCHANGED <<rows, drill, cut, kills, troubles>>

(* SIGKILL to the process group.                                           *)
Kill(p) ==
    /\ drill = "none" /\ step[p] # "off"
    /\ kills < MaxKills /\ kills' = kills + 1
    /\ Dies(p)
    /\ UNCHANGED <<drill, cut, finished, troubles>>

-----------------------------------------------------------------------------
(* The drill, on a study of its own that it has just dropped.              *)
Phase(from, to) == drill = from /\ drill' = to

DrillLaunch(p) ==
    /\ \/ Phase("launch", "watch")
       \/ Phase("relaunch", "wait")
    /\ Start(p)

(* _wait_for_trials polls: the first arm may be gone by then.              *)
DrillAborts ==
    /\ Phase("watch", "aborted")
    /\ \A p \in Snipers : step[p] = "off"
    /\ UNCHANGED <<rows, fits, step, left, tunnel, cut, finished, kills, troubles>>

DrillKills(p) ==
    /\ Phase("watch", "grace")
    /\ step[p] # "off" /\ Total >= KillAfter
    /\ Dies(p)
    /\ cut' = (p \in Fitting)
    /\ UNCHANGED <<finished, kills, troubles>>

(* It sleeps for the grace period and two seconds more.                    *)
DrillWaits ==
    /\ Phase("grace", "relaunch")
    /\ UNCHANGED <<rows, fits, step, left, tunnel, cut, finished, kills, troubles>>

DrillChecks == failed >= 1 /\ Running = 0 /\ answered = Requested

DrillVerdict ==
    /\ Phase("wait", IF DrillChecks THEN "pass" ELSE "fail")
    /\ \A p \in Snipers : step[p] = "off"
    /\ UNCHANGED <<rows, fits, step, left, tunnel, cut, finished, kills, troubles>>

DrillNext(p) ==
    \/ DrillLaunch(p)
    \/ DrillAborts
    \/ DrillKills(p)
    \/ DrillWaits
    \/ DrillVerdict

SniperNext(p) ==
    \/ TunnelLost(p)
    \/ OpenStudy(p)
    \/ Ask(p)
    \/ Answer(p)
    \/ Close(p)

Arm == CHOOSE p \in Snipers : TRUE

Next ==
    \/ \E p \in Snipers : Launch(p) \/ SniperNext(p) \/ Raise(p) \/ Spend(p) \/ Kill(p)
    \/ DrillNext(Arm)

(* A search goes on, and the operator runs the command again while trials  *)
(* are owed.                                                               *)
Fairness ==
    /\ \A p \in Snipers : WF_vars(SniperNext(p))
    /\ WF_vars(\E p \in Snipers : Launch(p))

FairSpec == Init /\ [][Next]_vars /\ Fairness

-----------------------------------------------------------------------------
TypeOK ==
    /\ answered \in Nat /\ failed \in Nat
    /\ waiting \in [Tries -> Nat] /\ dead \in [Tries -> Nat]
    /\ fits \in [Snipers -> Tries \cup {Idle}]
    /\ step \in [Snipers -> {"off", "open", "ask", "fit", "close"}]
    /\ left \in [Snipers -> 0 .. Requested]
    /\ tunnel \in Snipers \cup {Nobody, Drill}
    /\ drill \in {"none", "launch", "watch", "grace", "relaunch", "wait",
                  "pass", "fail", "aborted"}
    /\ cut \in BOOLEAN /\ finished \in BOOLEAN

(* No question is lost: whatever runs were killed, raised or ran out of    *)
(* budget before, and whatever another run does meanwhile, a run that ends *)
(* as planned leaves as many trials answered as were requested.            *)
NothingOwedIsLost == finished => answered >= Requested

(* The drill's claim: a search killed in the middle of a fit recovers. It  *)
(* fails only if its kill fell between two trials, or a fit raised.        *)
DrillRecovers == drill = "fail" => ~cut \/ troubles > 0

(* Both, over variables that keep their types.                             *)
ResumeIsSound == TypeOK /\ NothingOwedIsLost /\ DrillRecovers

(* Kills, raised errors and lost tunnels end; the study is then filled.    *)
StudyFills == drill = "none" ~> answered >= Requested
=============================================================================
