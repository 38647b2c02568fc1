----------------------------- MODULE Promotion -----------------------------
(***************************************************************************)
(* Promotion of a champion: taxi_mlops/training/run.py judges a run and,   *)
(* on a pass, registry.py `promote` registers its model and moves the      *)
(* alias @champion.  The registry (MLflow) is shared; every call to it is  *)
(* one step here, and steps of several promoting processes, of an operator *)
(* who rolls the alias back, and of the red-team drill interleave.         *)
(*                                                                         *)
(* A process is one execution of `make train`, or of                       *)
(* scripts/bakeoff_m3.py --promote-winner, which promotes a run that       *)
(* exists already (so several processes may promote one run).  It can die  *)
(* between any two of its steps.                                           *)
(***************************************************************************)
EXTENDS Gate, Sequences, FiniteSets

CONSTANTS
    Procs,          \* the promoting processes
    Runs,           \* MLflow runs: a fitted challenger each
    Scores,         \* holdout measurements, records [mae, within]
    Floor,          \* the floor's measurement on the same holdout
    GateCfg,        \* configs/train.yaml: gate
    Alone,          \* TRUE: nothing moves the alias while a promote() runs
    FaultyReads,    \* TRUE: reading the alias may fail
    MaxLaunches,    \* bound on process executions
    MaxOverrides    \* bound on operator moves of the alias

NoTag == -1

ASSUME PromotionAssumption ==
    /\ Scores \subseteq [mae : Nat, within : Nat]
    /\ Floor \in [mae : Nat \ {0}, within : Nat]
    /\ GateCfg.margins \subseteq Nat
    /\ GateCfg.minImprovement \in Nat
    /\ Runs # {}
    /\ Alone \in BOOLEAN /\ FaultyReads \in BOOLEAN
    /\ MaxLaunches \in Nat /\ MaxOverrides \in Nat

VARIABLES
    score,      \* Runs -> Scores: what evaluate.py measures of the run's model
    artifact,   \* Runs -> Artifacts: what the tracking server holds of it
    modelExists,\* the registered model exists
    versions,   \* the model versions, numbered from 1, with their tags
    alias,      \* the version @champion points at
    drill,      \* the version the red-team drill has to restore
    launches, overrides,
    pc, run, incumbent, version   \* the processes

registry == <<modelExists, versions, alias>>
operator == <<drill, overrides>>
local == <<run, incumbent, version>>
vars == <<score, artifact, registry, operator, launches, pc, local>>

(* No model logged, one without signature or input example, a whole one.   *)
Artifacts == {"none", "bare", "whole"}
Resting == {"idle", "skipped", "refused", "errored", "crashed", "done"}
Acting == {"judge", "ack", "servable", "ensure", "create", "search", "mint",
           "tag_mae", "tag_within", "tag_incumbent", "tag_features",
           "reread", "move"}

(* Inside registry.promote, past its check of the incumbent.               *)
Promoting == Acting \ {"judge", "ack"}

(* The environment assumption that the configurations with Alone make:     *)
(* calls of promote() do not overlap with one another or with an override. *)
(* The code does not enforce it; the others show what then happens.        *)
MayTouchAlias == Alone => \A p \in Procs : pc[p] \notin Promoting

-----------------------------------------------------------------------------
(* The measurements, as the gate receives them.                            *)

Metrics(contender, m) ==
    [contender |-> contender, split |-> GateCfg.holdout, n |-> 1,
     tolerance |-> 1, mae |-> m.mae, within |-> m.within]

NoIncumbent ==
    [version |-> NoVersion, mae |-> 0, within |-> 0, split |-> GateCfg.holdout]

(* Faulty variant: a champion whose KPI-10 was never recorded sets no bar. *)
RateOfTag(v) == versions[v].within

(* What _resolve_incumbent reads of version v: KPI-09 off its tags, KPI-10 *)
(* off its tags or else, unrounded, off its run.                           *)
RateOf(v) == IF versions[v].within = NoTag THEN score[versions[v].run].within
                                           ELSE versions[v].within
IncumbentAt(v) ==
    IF v = NoVersion THEN NoIncumbent
    ELSE [version |-> v, mae |-> versions[v].mae, within |-> RateOf(v),
          split |-> GateCfg.holdout]

Verdict(r, v) == Decide(Metrics(r, score[r]), Metrics(GateCfg.floor, Floor),
                        GateCfg, IncumbentAt(v))

(* The verdict that leads a process to a label.                            *)
VerdictBefore(label) ==
    IF label = "ack" THEN "PROMOTE"
    ELSE IF label = "refused" THEN "REFUSE" ELSE "ERROR"

(* The alias as a process reads it: any exception reads as "unset".        *)
AliasReads == IF FaultyReads THEN {alias, NoVersion} ELSE {alias}

(* A version as create_model_version leaves it, no tag set.                *)
Fresh(r) == [run |-> r, mae |-> NoTag, within |-> NoTag, judged |-> NoTag,
             features |-> FALSE]

(* Champion v1: promoted before KPI-10 was put on the version.             *)
Legacy(r) == [run |-> r, mae |-> Recorded(score[r].mae), within |-> NoTag,
              judged |-> NoVersion, features |-> TRUE]

(* Faulty variant: the registry is searched by model name only.            *)
VersionsOfModel(r) == DOMAIN versions

VersionsOf(r) == {v \in DOMAIN versions : versions[v].run = r}

-----------------------------------------------------------------------------
Init ==
    /\ score \in [Runs -> Scores]
    /\ artifact \in [Runs -> Artifacts]
    /\ \/ versions = <<>> /\ alias = NoVersion
       \/ \E r \in Runs :
             /\ artifact[r] = "whole"
             /\ versions = <<Legacy(r)>>
             /\ alias = 1
             /\ Passed(Metrics(r, score[r]), Metrics(GateCfg.floor, Floor),
                       GateCfg, NoIncumbent)
    /\ modelExists = (versions # <<>>)
    /\ drill = NoVersion
    /\ launches = 0 /\ overrides = 0
    /\ pc = [p \in Procs |-> "idle"]
    /\ run \in [Procs -> {CHOOSE r \in Runs : TRUE}]
    /\ incumbent = [p \in Procs |-> NoVersion]
    /\ version = [p \in Procs |-> NoVersion]

Goto(p, label) == pc' = [pc EXCEPT ![p] = label]

(* A process starts on a run: a new one (`make train`) or one that some    *)
(* process promoted before (the bake-off, a command typed again).          *)
Launch(p, r) ==
    /\ pc[p] \in Resting
    /\ launches < MaxLaunches
    /\ launches' = launches + 1
    /\ run' = [run EXCEPT ![p] = r]
    /\ incumbent' = [incumbent EXCEPT ![p] = NoVersion]
    /\ version' = [version EXCEPT ![p] = NoVersion]
    /\ Goto(p, "judge")
    /\ UNCHANGED <<score, artifact, registry, operator>>

(* Resolve the incumbent and take the verdict against it.  A champion      *)
(* without its KPI-09 tag, or an incomparable one, raises.                 *)
Judge(p) ==
    /\ pc[p] = "judge"
    /\ \E seen \in AliasReads :
          /\ incumbent' = [incumbent EXCEPT ![p] = seen]
          /\ \/ /\ seen # NoVersion /\ versions[seen].mae = NoTag
                /\ Goto(p, "errored")
             \/ /\ seen # NoVersion => versions[seen].mae # NoTag
                /\ \E label \in {"ack", "refused", "errored"} :
                      /\ Verdict(run[p], seen) = VerdictBefore(label)
                      /\ Goto(p, label)
    /\ UNCHANGED <<score, artifact, registry, operator, launches, run, version>>

(* --no-promote, --no-mlflow, a sampled run: whatever the verdict, stop.   *)
ReportOnly(p) ==
    /\ pc[p] = "judge"
    /\ Goto(p, "skipped")
    /\ UNCHANGED <<score, artifact, registry, operator, launches, local>>

(* Faulty variant: promote trusts the decision and does not look again.    *)
AckUnread(p) ==
    /\ pc[p] = "ack"
    /\ MayTouchAlias
    /\ Goto(p, IF artifact[run[p]] # "none" THEN "servable" ELSE "refused")
    /\ UNCHANGED <<score, artifact, registry, operator, launches, local>>

(* _promote wants a logged model; promote then re-reads the alias and      *)
(* refuses unless it is what the decision consulted.                       *)
Ack(p) ==
    /\ pc[p] = "ack"
    /\ MayTouchAlias
    /\ \E live \in AliasReads :
          Goto(p, IF artifact[run[p]] # "none" /\ live = incumbent[p]
                  THEN "servable" ELSE "refused")
    /\ UNCHANGED <<score, artifact, registry, operator, launches, local>>

(* Faulty variant: a model logged in any state counts as servable.         *)
AssertLogged(p) ==
    /\ pc[p] = "servable"
    /\ Goto(p, IF artifact[run[p]] # "none" THEN "ensure" ELSE "refused")
    /\ UNCHANGED <<score, artifact, registry, operator, launches, local>>

(* assert_servable: signature and input example, read back.                *)
AssertServable(p) ==
    /\ pc[p] = "servable"
    /\ Goto(p, IF artifact[run[p]] = "whole" THEN "ensure" ELSE "refused")
    /\ UNCHANGED <<score, artifact, registry, operator, launches, local>>

(* _ensure_registered_model: get, and on any exception create.             *)
GetModel(p) ==
    /\ pc[p] = "ensure"
    /\ \/ modelExists /\ Goto(p, "search")
       \/ ~modelExists /\ Goto(p, "create")
       \/ FaultyReads /\ Goto(p, "create")
    /\ UNCHANGED <<score, artifact, registry, operator, launches, local>>

CreateModel(p) ==
    /\ pc[p] = "create"
    /\ Goto(p, IF modelExists THEN "errored" ELSE "search")
    /\ modelExists' = TRUE
    /\ UNCHANGED <<score, artifact, versions, alias, operator, launches, local>>

(* Faulty variant: every promotion mints.                                  *)
SearchNothing(p) ==
    /\ pc[p] = "search"
    /\ Goto(p, "mint")
    /\ UNCHANGED <<score, artifact, registry, operator, launches, local>>

(* _version_for_run: the newest version already minted from this run.      *)
Search(p) ==
    /\ pc[p] = "search"
    /\ \/ /\ VersionsOf(run[p]) = {}
          /\ Goto(p, "mint")
          /\ UNCHANGED version
       \/ \E v \in VersionsOf(run[p]) :
             /\ \A w \in VersionsOf(run[p]) : w <= v
             /\ version' = [version EXCEPT ![p] = v]
             /\ Goto(p, "tag_mae")
    /\ UNCHANGED <<score, artifact, registry, operator, launches, run, incumbent>>

(* create_model_version.                                                   *)
Mint(p) ==
    /\ pc[p] = "mint"
    /\ versions' = Append(versions, Fresh(run[p]))
    /\ version' = [version EXCEPT ![p] = Len(versions) + 1]
    /\ Goto(p, "tag_mae")
    /\ UNCHANGED <<score, artifact, modelExists, alias, operator, launches,
                   run, incumbent>>

(* set_model_version_tag, once per tag, in the order of run._promote's     *)
(* dictionary (the tags nothing reads back are left out).                  *)
SetTag(p, from, to, tagged) ==
    /\ pc[p] = from
    /\ versions' = [versions EXCEPT ![version[p]] = tagged]
    /\ Goto(p, to)
    /\ UNCHANGED <<score, artifact, modelExists, alias, operator, launches, local>>

(* Faulty variant: a re-promotion resets the version's other tags first.   *)
TagMaeAfresh(p) ==
    SetTag(p, "tag_mae", "tag_within",
           [Fresh(run[p]) EXCEPT !.mae = Recorded(score[run[p]].mae)])

TagMae(p) ==
    SetTag(p, "tag_mae", "tag_within",
           [versions[version[p]] EXCEPT !.mae = Recorded(score[run[p]].mae)])

TagWithin(p) ==
    SetTag(p, "tag_within", "tag_incumbent",
           [versions[version[p]] EXCEPT !.within = Recorded(score[run[p]].within)])

TagIncumbent(p) ==
    SetTag(p, "tag_incumbent", "tag_features",
           [versions[version[p]] EXCEPT !.judged = incumbent[p]])

TagFeatures(p) ==
    SetTag(p, "tag_features", "reread",
           [versions[version[p]] EXCEPT !.features = TRUE])

(* previous = _alias_version(...): only to tell a no-op from a move.       *)
Reread(p) ==
    /\ pc[p] = "reread"
    /\ \E previous \in AliasReads :
          Goto(p, IF previous = version[p] THEN "done" ELSE "move")
    /\ UNCHANGED <<score, artifact, registry, operator, launches, local>>

(* set_registered_model_alias, whatever the alias holds by now.            *)
MoveAlias(p) ==
    /\ pc[p] = "move"
    /\ alias' = version[p]
    /\ Goto(p, "done")
    /\ UNCHANGED <<score, artifact, modelExists, versions, operator, launches, local>>

(* The process dies, or a call to the registry raises, between two steps.  *)
Crash(p) ==
    /\ pc[p] \in Acting
    /\ Goto(p, "crashed")
    /\ UNCHANGED <<score, artifact, registry, operator, launches, local>>

-----------------------------------------------------------------------------
(* The operator's rollback: a raw alias move to a version that answers     *)
(* which feature set it eats (docs/runbooks/serving.md, leg() of           *)
(* scripts/alias_rollback_rehearsal.py).                                   *)
Override ==
    /\ overrides < MaxOverrides
    /\ MayTouchAlias
    /\ overrides' = overrides + 1

(* Faulty variants: the version is not asked which features it eats; the   *)
(* alias goes back to what the version says it replaced, if it says so.    *)
RollbackBlind(v) ==
    /\ Override
    /\ alias' = v
    /\ UNCHANGED <<score, artifact, modelExists, versions, drill, launches, pc, local>>

RollbackToReplaced(v) ==
    /\ Override
    /\ alias' = versions[v].judged
    /\ UNCHANGED <<score, artifact, modelExists, versions, drill, launches, pc, local>>

Rollback(v) ==
    /\ Override
    /\ versions[v].features
    /\ alias' = v
    /\ UNCHANGED <<score, artifact, modelExists, versions, drill, launches, pc, local>>

(* scripts/verify_m2_redteam.sh notes what the alias holds, drops it, and  *)
(* restores that from an EXIT trap.  (A drill drops once; to drop again    *)
(* what somebody promoted in between is more than it does.)                *)
DrillRead ==
    /\ overrides < MaxOverrides
    /\ alias # NoVersion /\ drill = NoVersion
    /\ overrides' = overrides + 1
    /\ drill' = alias
    /\ UNCHANGED <<score, artifact, registry, launches, pc, local>>

DrillDrop ==
    /\ drill # NoVersion /\ alias # NoVersion
    /\ MayTouchAlias
    /\ alias' = NoVersion
    /\ UNCHANGED <<score, artifact, modelExists, versions, operator, launches, pc, local>>

DrillRestore ==
    /\ drill # NoVersion
    /\ MayTouchAlias
    /\ alias' = drill
    /\ drill' = NoVersion
    /\ UNCHANGED <<score, artifact, modelExists, versions, overrides, launches,
                   pc, local>>

-----------------------------------------------------------------------------
Step(p) ==
    \/ Judge(p) \/ ReportOnly(p) \/ Ack(p) \/ AssertServable(p)
    \/ GetModel(p) \/ CreateModel(p) \/ Search(p) \/ Mint(p)
    \/ TagMae(p) \/ TagWithin(p) \/ TagIncumbent(p) \/ TagFeatures(p)
    \/ Reread(p) \/ MoveAlias(p) \/ Crash(p)

Next ==
    \/ \E p \in Procs : Step(p) \/ \E r \in Runs : Launch(p, r)
    \/ \E v \in DOMAIN versions : Rollback(v)
    \/ DrillRead \/ DrillDrop \/ DrillRestore

Spec == Init /\ [][Next]_vars

-----------------------------------------------------------------------------
(* Types of the variables.                                                 *)
Version == [run : Runs, mae : Nat \cup {NoTag}, within : Nat \cup {NoTag},
            judged : Nat \cup {NoTag}, features : BOOLEAN]

TypeOK ==
    /\ score \in [Runs -> Scores]
    /\ artifact \in [Runs -> Artifacts]
    /\ modelExists \in BOOLEAN
    /\ versions \in Seq(Version)
    /\ alias \in Nat /\ drill \in Nat
    /\ launches \in Nat /\ overrides \in Nat
    /\ pc \in [Procs -> Resting \cup Acting]
    /\ run \in [Procs -> Runs]
    /\ incumbent \in [Procs -> Nat]
    /\ version \in [Procs -> Nat]

(* A version whose tags, in the registry's precision, are the measurements *)
(* of the very run it was minted from, as far as they are written.         *)
TellsTheTruth(v) ==
    /\ versions[v].mae \in {NoTag, Recorded(score[versions[v].run].mae)}
    /\ versions[v].within \in {NoTag, Recorded(score[versions[v].run].within)}

(* Whatever the order in which promoters, rollbacks and the drill get to   *)
(* the registry and wherever they die, no version ever carries another     *)
(* run's numbers: the newest version of the RUN is looked up, not just the *)
(* newest version.                                                         *)
VersionsTellTheTruth == \A v \in DOMAIN versions : TellsTheTruth(v)

(* A champion is always one the gate can defend: registered, its own       *)
(* KPI-09 and feature set on it.  A crash between two tags, or a rollback  *)
(* to the half-tagged version it leaves, never puts an unquotable version  *)
(* under @champion (the GateError of _resolve_incumbent never fires).      *)
ChampionQuotable ==
    alias # NoVersion =>
        /\ alias \in DOMAIN versions
        /\ versions[alias].mae = Recorded(score[versions[alias].run].mae)
        /\ versions[alias].features

(* A champion cleared the honest floor and can be served: no interleaving, *)
(* faulty read or override gets a refused run or an unservable artifact    *)
(* under the alias.                                                        *)
ChampionEarned ==
    alias # NoVersion =>
        LET r == versions[alias].run
        IN  /\ artifact[r] = "whole"
            /\ ClearsFloor(score[r], Floor, GateCfg)
            /\ KeepsFloorRate(score[r], Floor, GateCfg)

(* Promotion is idempotent by run: crashes and repeated commands mint no   *)
(* second version of a run, as long as promotions do not overlap.          *)
OneVersionPerRun ==
    \A v, w \in DOMAIN versions : versions[v].run = versions[w].run => v = w

(* F-011: an alias only moves off the version that the decision moving it  *)
(* consulted.                                                              *)
ReplacesWhatItJudged ==
    [][\A p \in Procs :
          MoveAlias(p) /\ alias # version[p] => alias = incumbent[p]]_vars

(* What a promotion buys: the champion's recorded KPI-09 falls by the      *)
(* margin and its KPI-10 does not, compared with the champion it replaces  *)
(* at the moment it replaces it.                                           *)
PromotionImproves ==
    [][\A p \in Procs : MoveAlias(p) /\ alias # NoVersion =>
          /\ \A m \in GateCfg.margins :
                ImprovesBy(versions[alias'].mae, versions[alias].mae, m)
          /\ versions[alias'].within >= RateOf(alias)]_vars

(* Nothing here deletes: a version stays, with its run and its numbers.    *)
NothingDeleted ==
    [][\A v \in DOMAIN versions :
          /\ v \in DOMAIN versions'
          /\ versions'[v].run = versions[v].run
          /\ versions[v].mae # NoTag => versions'[v].mae = versions[v].mae
          /\ versions[v].features => versions'[v].features]_vars

-----------------------------------------------------------------------------
(* The inductive strengthening of the invariants above.                    *)

Cleared(r) ==
    /\ ClearsFloor(score[r], Floor, GateCfg)
    /\ KeepsFloorRate(score[r], Floor, GateCfg)

Tagging == {"tag_mae", "tag_within", "tag_incumbent", "tag_features",
            "reread", "move"}

(* Every version was minted from a run that cleared the floor and can be   *)
(* served; the feature-set tag is the last of those that are read back.    *)
Defensible(v) ==
    /\ TellsTheTruth(v)
    /\ artifact[versions[v].run] = "whole"
    /\ Cleared(versions[v].run)
    /\ versions[v].features => versions[v].mae # NoTag

VersionInv == \A v \in DOMAIN versions : Defensible(v)

(* What process p has established by the time it gets to each label.       *)
Established(p) ==
    /\ pc[p] \in Promoting \cup {"ack"} => Cleared(run[p])
    /\ pc[p] \in Promoting \ {"servable"} => artifact[run[p]] = "whole"
    /\ pc[p] \in Tagging =>
          version[p] \in DOMAIN versions /\ versions[version[p]].run = run[p]
    /\ pc[p] \in Tagging \ {"tag_mae"} => versions[version[p]].mae # NoTag
    /\ pc[p] \in {"reread", "move"} => versions[version[p]].features

ProcessInv == \A p \in Procs : Established(p)

(* The alias, and the version the drill will restore, are fully tagged.    *)
PointerInv ==
    \A v \in {alias, drill} \ {NoVersion} :
        v \in DOMAIN versions /\ versions[v].features

(* With promotions that do not overlap: inside promote() the alias is what *)
(* the decision consulted, and nobody else is inside.                      *)
Exclusive(p) ==
    pc[p] \in Promoting =>
        /\ alias = incumbent[p]
        /\ \A q \in Procs : pc[q] \in Promoting => q = p

AckInv == Alone /\ ~FaultyReads => \A p \in Procs : Exclusive(p)

(* The inductive invariant: types, and the four parts above.  It is what   *)
(* makes the safety of promotion independent of interleavings.             *)
IInv == TypeOK /\ VersionInv /\ ProcessInv /\ PointerInv /\ AckInv

(* With promotions that do not overlap, misread aliases or not: one        *)
(* process inside promote() at a time, which mints only for a run that has *)
(* no version yet.                                                         *)
MintsOnce(p) ==
    /\ pc[p] \in Promoting => \A q \in Procs : pc[q] \in Promoting => q = p
    /\ pc[p] = "mint" => VersionsOf(run[p]) = {}

MintInv == Alone => (\A p \in Procs : MintsOnce(p)) /\ OneVersionPerRun
=============================================================================
