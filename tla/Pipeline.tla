------------------------------ MODULE Pipeline ------------------------------
(***************************************************************************)
(* The monthly pipeline on Flyte: pipelines/flyte/workflows.py `main` over *)
(* the stage bodies of pipelines/tasks.py, run by scripts/run_pipeline.sh. *)
(* Five stages are cached, under a key made of the stage, the inputs it    *)
(* declares and a salt, the hash of the host's data pins at launch; what   *)
(* the stages really read is the volume that `make stage-data` fills, and  *)
(* the live registry.  Every stage has a budget of retries; `main` has     *)
(* none.                                                                   *)
(*                                                                         *)
(* The data is one of several generations, a month and an image are fixed  *)
(* (a new image changes every key).                                        *)
(***************************************************************************)
EXTENDS Naturals, Sequences

CONSTANTS
    Executions,
    Generations,    \* of the data: the sizes of their trees, a sequence
    Champions,      \* versions @champion may point at
    Beats,          \* pairs <<generation, champion>>: the gate says PROMOTE
    MaxRetries,     \* _STAGE_RETRIES
    Staged,         \* TRUE: data changes between executions, and is staged before one
    MaxLaunches, MaxFaults, MaxChanges   \* bounds

\* Of the constants; the module that gives them values assumes it.
PipelineAssumption ==
    /\ Generations \in Seq(Nat) /\ Generations # <<>>
    /\ Champions \subseteq Nat \ {0}
    /\ Beats \subseteq (DOMAIN Generations) \X Champions
    /\ Staged \in BOOLEAN
    /\ {MaxRetries, MaxLaunches, MaxFaults, MaxChanges} \subseteq Nat

VARIABLES
    pinned,     \* generation of the host's data and its DVC pins
    volume,     \* generation on the volume the task pods mount
    alias,      \* what @champion points at
    cache,      \* Flyte's: a set of [key, result]
    launches, faults, changes,
    stage,      \* per execution: the stage it is at, or how it ended
    input,      \* its inputs [months, judge]
    pin,        \* TAXI_DATA_PIN, the salt it was launched with
    tries,      \* failed attempts of the present stage
    passed      \* what the stage before handed on

world == <<pinned, volume, alias>>
counters == <<launches, faults, changes>>
launch == <<input, pin>>
vars == <<world, cache, counters, stage, launch, tries, passed>>

None == 0
Resting == {"idle", "failed", "done"}
Cached == {"ingest", "validate", "features", "train", "evaluate"}
Following == [ingest |-> "validate", validate |-> "features",
              features |-> "train", train |-> "evaluate",
              evaluate |-> "register", register |-> "marts", marts |-> "done"]
Acting == DOMAIN Following \cup {"report"}

(* A stage hands on a row count, of which only the generation it counts    *)
(* matters, or (from train on) a manifest; ingest hands on a path.         *)
NoManifest == [data |-> None, decision |-> "none", incumbent |-> None,
               champion |-> None]
Path == [rows |-> None, manifest |-> NoManifest]

Init ==
    /\ pinned \in DOMAIN Generations
    /\ volume = pinned
    /\ alias \in Champions
    /\ cache = {}
    /\ launches = 0 /\ faults = 0 /\ changes = 0
    /\ stage = [e \in Executions |-> "idle"]
    /\ input = [e \in Executions |-> [months |-> "full", judge |-> TRUE]]
    /\ pin = [e \in Executions |-> pinned]
    /\ tries = [e \in Executions |-> 0]
    /\ passed = [e \in Executions |-> Path]

-----------------------------------------------------------------------------
(* The world around the pipeline.                                          *)

Change == changes < MaxChanges /\ changes' = changes + 1

(* `make data`, or a checkout of other pins.                               *)
MakeData(g) ==
    /\ Change
    /\ g # pinned
    /\ pinned' = g
    /\ Staged => \A e \in Executions : stage[e] \in Resting
    /\ UNCHANGED <<volume, alias, cache, launches, faults, stage, launch, tries, passed>>

(* `make stage-data`: skipped when the volume is no smaller than the       *)
(* source, unless RESTAGE=1 forces it.                                     *)
StageData(force) ==
    /\ volume # pinned
    /\ force \/ Generations[volume] < Generations[pinned]
    /\ volume' = pinned
    /\ UNCHANGED <<pinned, alias, cache, counters, stage, launch, tries, passed>>

(* `make train`, a rollback: the alias moves, never by the pipeline.       *)
MoveAlias(v) ==
    /\ Change
    /\ v # alias
    /\ alias' = v
    /\ UNCHANGED <<pinned, volume, cache, launches, faults, stage, launch, tries, passed>>

-----------------------------------------------------------------------------
Launch(e, months, judge) ==
    /\ stage[e] \in Resting
    /\ Staged => volume = pinned
    /\ launches < MaxLaunches
    /\ launches' = launches + 1
    /\ input' = [input EXCEPT ![e] = [months |-> months, judge |-> judge]]
    /\ pin' = [pin EXCEPT ![e] = pinned]
    /\ stage' = [stage EXCEPT ![e] = "ingest"]
    /\ tries' = [tries EXCEPT ![e] = 0]
    /\ passed' = [passed EXCEPT ![e] = Path]
    /\ UNCHANGED <<world, cache, faults, changes>>

(* The stage returns: what it hands on, and the next one.                  *)
Return(e, s, result) ==
    /\ passed' = [passed EXCEPT ![e] = result]
    /\ stage' = [stage EXCEPT ![e] = Following[s]]
    /\ tries' = [tries EXCEPT ![e] = 0]

(* Faulty variant: the first attempt is not counted.                       *)
RaiseOnceMore(e, s) ==
    /\ tries' = [tries EXCEPT ![e] = @ + 1]
    /\ stage' = [stage EXCEPT ![e] = IF tries[e] <= MaxRetries THEN s ELSE "failed"]
    /\ UNCHANGED passed

(* It raises, or its pod dies: another attempt from the top of the stage,  *)
(* and with the budget spent the whole execution fails.                    *)
Raise(e, s) ==
    /\ tries' = [tries EXCEPT ![e] = @ + 1]
    /\ stage' = [stage EXCEPT ![e] = IF tries[e] < MaxRetries THEN s ELSE "failed"]
    /\ UNCHANGED passed

(* The cache key: the data pin as a salt, and the declared inputs.  Only   *)
(* train declares the months and `judge`.                                  *)
Declared(e, s) ==
    [passed |-> passed[e],
     months |-> IF s = "train" THEN input[e].months ELSE "",
     judge |-> s = "train" /\ input[e].judge]

(* Faulty variants: no salt, and train's months left undeclared.           *)
KeyUnsalted(e, s) == [stage |-> s, salt |-> None, declared |-> Declared(e, s)]

KeyByRows(e, s) == [stage |-> s, salt |-> pin[e],
                    declared |-> [Declared(e, s) EXCEPT !.months = ""]]

Key(e, s) == [stage |-> s, salt |-> pin[e], declared |-> Declared(e, s)]

HasAnswer(e, s) == \E entry \in cache : entry.key = Key(e, s)

(* Of two executions that compute one answer at once the later one stays.  *)
Store(key, result) ==
    cache' = {entry \in cache : entry.key # key}
                \cup {[key |-> key, result |-> result]}

Hit(e, s) ==
    /\ stage[e] = s
    /\ \E entry \in cache :
          entry.key = Key(e, s) /\ Return(e, s, entry.result)
    /\ UNCHANGED <<world, cache, counters, launch>>

Run(e, s, result) ==
    /\ stage[e] = s
    /\ ~HasAnswer(e, s)
    /\ Store(Key(e, s), result)
    /\ Return(e, s, result)
    /\ UNCHANGED <<world, counters, launch>>

Ingest(e) == Run(e, "ingest", Path)
Validate(e) == Run(e, "validate", [Path EXCEPT !.rows = volume])
BuildFeatures(e) == Run(e, "features", [Path EXCEPT !.rows = volume])
Evaluate(e) == Run(e, "evaluate", passed[e])

(* The gate against the live champion, or no verdict at all (--no-gate).   *)
DecisionOf(e) ==
    IF ~input[e].judge THEN "NO_VERDICT"
    ELSE IF <<volume, alias>> \in Beats THEN "PROMOTE" ELSE "REFUSE"

(* train: fit and judge, never promote.  A sampled run that asks for a     *)
(* verdict raises (F-008).                                                 *)
Train(e) ==
    /\ stage[e] = "train"
    /\ ~HasAnswer(e, "train")
    /\ IF input[e].months = "sampled" /\ input[e].judge
       THEN Raise(e, "train")
       ELSE /\ passed' = [passed EXCEPT ![e].manifest =
                  [data |-> volume, decision |-> DecisionOf(e),
                   incumbent |-> alias, champion |-> None]]
            /\ stage' = [stage EXCEPT ![e] = "report"]
            /\ UNCHANGED tries
    /\ UNCHANGED <<world, cache, counters, launch>>

(* _manifest reads @champion again (unreadable is None); the answer goes   *)
(* to the cache under the key the stage began with.                        *)
Report(e) ==
    /\ stage[e] = "report"
    /\ \E champion \in {alias, None} :
          LET manifest == [passed[e].manifest EXCEPT !.champion = champion]
              key == [Key(e, "train") EXCEPT !.declared.passed.manifest = NoManifest]
              result == [rows |-> None, manifest |-> manifest]
          IN  /\ Store(key, result)
              /\ Return(e, "train", result)
    /\ UNCHANGED <<world, counters, launch>>

(* Faulty variant: a refusal is an exception.                              *)
RegisterStrictly(e) ==
    /\ stage[e] = "register"
    /\ IF passed[e].manifest.decision = "REFUSE" THEN Raise(e, "register")
                                                 ELSE Return(e, "register", passed[e])
    /\ UNCHANGED <<world, cache, counters, launch>>

(* register: the verdict as data, whatever it is.                          *)
Register(e) ==
    /\ stage[e] = "register"
    /\ Return(e, "register", passed[e])
    /\ UNCHANGED <<world, cache, counters, launch>>

(* publish_marts (see MartsPublish); the verdict is what `main` returns.   *)
Publish(e) ==
    /\ stage[e] = "marts"
    /\ Return(e, "marts", passed[e])
    /\ UNCHANGED <<world, cache, counters, launch>>

(* A pod is lost in any stage, after any part of its work.                 *)
Lose(e) ==
    /\ stage[e] \in Acting
    /\ faults < MaxFaults
    /\ faults' = faults + 1
    /\ IF stage[e] = "report"
       THEN /\ tries' = [tries EXCEPT ![e] = @ + 1]
            /\ stage' = [stage EXCEPT ![e] = IF tries[e] < MaxRetries
                                             THEN "train" ELSE "failed"]
            /\ passed' = [passed EXCEPT ![e].manifest = NoManifest]
       ELSE Raise(e, stage[e])
    /\ UNCHANGED <<world, cache, launches, changes, launch>>

-----------------------------------------------------------------------------
Step(e) ==
    \/ \E s \in Cached : Hit(e, s)
    \/ Ingest(e) \/ Validate(e) \/ BuildFeatures(e) \/ Train(e) \/ Report(e)
    \/ Evaluate(e) \/ Register(e) \/ Publish(e)

Next ==
    \/ \E g \in DOMAIN Generations : MakeData(g)
    \/ \E force \in BOOLEAN : StageData(force)
    \/ \E v \in Champions : MoveAlias(v)
    \/ \E e \in Executions :
          \/ \E months \in {"full", "sampled"}, judge \in BOOLEAN :
                Launch(e, months, judge)
          \/ Step(e) \/ Lose(e)

Spec == Init /\ [][Next]_vars

(* Flyte keeps scheduling the stages of a running execution.               *)
FairSpec == Spec /\ \A e \in Executions : WF_vars(Step(e))

-----------------------------------------------------------------------------
Manifests == [data : DOMAIN Generations \cup {None},
              decision : {"none", "NO_VERDICT", "PROMOTE", "REFUSE"},
              incumbent : Champions \cup {None},
              champion : Champions \cup {None}]
Results == [rows : DOMAIN Generations \cup {None}, manifest : Manifests]

(* Types, the budget of retries, and one answer per key.                   *)
TypeOK ==
    /\ {pinned, volume} \subseteq DOMAIN Generations
    /\ alias \in Champions
    /\ \A entry \in cache : entry.result \in Results
    /\ \A entry, other \in cache : entry.key = other.key => entry = other
    /\ {launches, faults, changes} \subseteq Nat
    /\ stage \in [Executions -> Resting \cup Acting]
    /\ input \in [Executions -> [months : {"full", "sampled"}, judge : BOOLEAN]]
    /\ pin \in [Executions -> DOMAIN Generations]
    /\ tries \in [Executions -> 0 .. MaxRetries + 1]
    /\ passed \in [Executions -> Results]

(* Whatever was cached, lost, retried or computed twice at once: an answer *)
(* in the cache is of the data its key pins, so no execution reports on a  *)
(* model whose data is gone.                                               *)
CachedUnderItsPin ==
    \A entry \in cache :
        {entry.result.rows, entry.result.manifest.data} \subseteq
            {None, entry.key.salt}

Entitled(e) == input[e].months = "full" /\ input[e].judge

(* F-008 holds through the cache: an execution ends with a verdict exactly *)
(* if it asked for one on the full data, never with another execution's.   *)
VerdictIsEntitled ==
    \A e \in Executions : stage[e] \in {"marts", "done"} =>
        (passed[e].manifest.decision \in {"PROMOTE", "REFUSE"}) = Entitled(e)

(* A refusal is data: an execution the gate may judge, or that asks for no *)
(* verdict, fails only if pods are lost more often than a stage retries.   *)
RefusalIsData ==
    \A e \in Executions :
        stage[e] = "failed" /\ (input[e].judge => input[e].months = "full")
            => faults > MaxRetries

ExecutionsAreSound == TypeOK /\ CachedUnderItsPin /\ RefusalIsData

(* And it does report, unless more pods are lost than that.                *)
EveryRunReports ==
    \A e \in Executions :
        stage[e] = "ingest" /\ Entitled(e)
            ~> stage[e] = "done" \/ faults > MaxRetries
=============================================================================
