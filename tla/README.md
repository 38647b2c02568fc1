# A verification of the NYC-taxi MLOps repository

TLA+ models of the parts of this repository whose correctness depends on the
*order* of things: who moves the champion alias and after which decision, what a
killed publish leaves in the database, whose data a cached stage answers about,
what pages when a store is emptied, whether a drill that passed showed what it
says. TLC checks them on small instances; TLAPS proves most of the safety it
checks for every instance (section 4).

Paths are those of the repository (`PROJECT.json` prefixes them with `src/`).
Every definition that models code is mapped to its lines there under `map`, and
every hazard named below is listed under `hazards` with the properties that
would catch it going wrong.

## 1. The system

The repository trains a quote-time ETA model on monthly taxi data, judges it,
promotes it to a registry alias that serving resolves, publishes analyst marts,
runs all of that monthly on Flyte, keeps an online feature store, and watches
the result with alert rules whose own working is drilled.

| component | state it keeps | what makes it correct | modules |
|---|---|---|---|
| promotion gate (`training/gate.py`) | none, a pure function | a verdict does not turn on digits nobody recorded | Gate |
| registry promotion (`training/registry.py`, `training/run.py`) | versions with tags, `@champion` | versions tell the truth; a champion can be quoted, served, defended; a promotion replaces what it judged | Promotion, ChampionLineage, PromotionRefinement |
| scale provenance (`registry.py`, `backfill_version_provenance.py`, `retrain.py`) | three tags; the host's records | a scale nobody recorded is not read as "no search" | ScaleProvenance |
| marts publish (`scripts/marts_publish.py`, `marts_export.py`) | live and staging tables in Postgres | a green publish is whole and of the present data; a published table stays | MartsPublish, AtomicPublish |
| Flyte pipeline (`pipelines/`, `run_pipeline.sh`, `stage_pipeline_data.sh`) | the cache, the volume, the pins | a cached answer is of the data its key pins; an entitled execution reports | Pipeline |
| ingest (`src/taxi_mlops/data`) | raw and processed files, reports, the manifest of pins | pins are of what was read; rows, report and pin tell one story | DataTree |
| scoring and the analyst layer (`training/score.py`, `batch.py`, `predictions.py`, `data/analyst.py`) | prediction files, DuckDB | a green layer is of one model over one reading of the data | Analyst |
| hyper-parameter search (`optuna_sniper.py`, `taxi_mlops/tuning`, `sniper_resume_drill.py`) | an Optuna study in Postgres | a resumed study owes what is unanswered, and fills | Study |
| serving path (`taxi_mlops/serving`, `deploy_champion.sh`, `alias_rollback_rehearsal.py`, `canary_release_drill.py`) | deployment, configuration line, alias, canary weight | a deploy reports what it serves; a rollback comes back | Serving |
| load and self-heal (`serving/load.py`, `serving_load_drill.py`) | attempts, a record | the record is of attempts that were made | LoadClient |
| store watch (`serving/feature_store.py`, `monitoring/store_health.py`, `store_watch_drill.py`) | the online store, one group on the gateway | an empty store is told from an unreachable one; a loss is paged; the drill's verdict is earned | StoreWatch |
| drift board (`monitoring/drift.py`, `drift_job.py`, both drills) | a group per month on a persistent gateway | a lost board and a collapsed month are paged; a verdict is earned | DriftBoard |
| client signals (`monitoring/client_counters.py`, `push_serving_version.py`) | a counter and a pair of versions on the gateway | a counted refusal is paged, a paged mismatch was real | ClientSignals |
| gameday (`gameday_m6.py`, the alert rules, `alert_fire_drill.py`) | the predictor, its secret, records on disk | silence is not health; records say what happened | Gameday |
| credential rotation (`rotate_credentials.py`) | secrets, services, the consumers' copies, a checkpoint | stopped anywhere and resumed, it ends with all agreeing | Credentials |
| Feast (`infra/feast`, `feast_*.py`, `taxi_mlops/features`) | parquet sources, Redis | no feature is of the month it predicts; a refill is whole | Feast |
| Feast comparisons and red team | verdicts | a planted value is heard and taken away | FeastChecks |
| retrain and rescaling, train run, bake-off, quote-time features | — | modelled where they touch the above | — |
| gate eras, dbt SQL, backup, scans, parity and shadow, verifiers, dashboards | none, or copies | not modelled, section 5 | — |

They meet in few places. The gate reads the champion's tags and returns a
decision that `promote` carries to the registry; `retrain` reads the tags that
`promote` and the backfill write; the pipeline's `train` judges against the live
alias but never moves it, its `ingest` is DataTree's and its last stage the marts
publish; scoring and serving resolve the alias; the transformer asks the online
store that `feast materialize` fills; the rotation and the gameday's storage
scenario write the same secret; the drills of every surface watch its alert
rules.

## 2. The modules

Every module is one component with its environment: a `Spec` of one action per
call, statement, handler or tick, bounded by constants named `Max...` (and, where
liveness is claimed, a `FairSpec`), followed by its type invariant and its
properties. A definition commented "Faulty variant" is a plausible bug of the
operation that follows it; no specification uses one. Each property of the runs
has one that breaks it.

### Gate, Promotion, ChampionLineage, PromotionRefinement

`Gate` is `decide`: what it refuses to compare (`Meaningful`), its four checks
and three answers. Measurements are integers on a fine grid; a recorded value is
a multiple of `Scale` (an odd `Scale` has no ties); percentages are basis points
and the division is cleared.

`Promotion` has processes that promote a run, one action per call to the
registry:

    Launch  Judge  Ack  AssertServable  GetModel/CreateModel  Search/Mint
    TagMae  TagWithin  TagIncumbent  TagFeatures  Reread  MoveAlias

`Judge` resolves the incumbent (its KPI-10 off the tags or, for champion v1, off
the run) and decides; `Ack` is `_assert_incumbent_acknowledged`; `Crash` may
happen between any two steps. Around them an operator rolls the alias back to a
version that answers which feature set it eats, and the red-team drill notes the
alias, drops it and restores it. `AliasReads` is `_alias_version`: with
`FaultyReads` any read may answer "unset", because any exception does. `Alone`
is an assumption on the environment, not something the code does: no two
`promote()` calls overlap and no override happens inside one.

`ChampionLineage` is what promotion promises, without the registry: one champion
at a time with the KPI-10 it is held to, replaced in ONE step by a run that beats
it; everything else that moves it is an operator's `Override` or the drill.
`PromotionRefinement` maps `Promotion` to it under `Alone` and without faulty
reads: decision, check, minting, tags and alias are one step, taken when the
alias moves; every other step is a stutter or a `Settle` (a champion whose
KPI-10 was only on its run being tagged).

### ScaleProvenance

The tags `search_scale_rows`, `_round_cap`, `_source`: `Promote` and `PromoteTag`
write what the run says over whatever is there, `BackfillRead` and `BackfillTag`
are `record_search_scale` (read, refuse on a conflict, write what is missing),
`Retrain` reads the champion from a host that has the records or from a pod that
has none. Numbers are "sampled" or "none". The tags are written one at a time:
a retrain may read rows whose cap is not written yet, and takes the cap for
"none" (`registry.py:295`). Only the source tells, which every writer has last:
`StatedScaleIsWhole`, which the run and `ScaleIsTrue` show to hold of whatever
promotions and backfills leave behind.

### MartsPublish

One action per committed statement. A table maps each month to a bag of rows by
*generation* of the month's data, so that "same count, other rows" can be told
from "same rows". `BreakMonth` and `BreakStaging` are an exporter that dies: COPY
commits the short stream and only then is the exit code looked at. `Kill` loses
the pod between statements, `Retry` is Flyte's budget. The five aggregate marts
are refreshed alone by the same code; one stands for all.

`AtomicPublish` is what `full_refresh` promises a reader (`marts_publish.py:325`):
the table is the data of one moment (`taken`, by the last build), and a publish
replaces it in one step. `MCMartsPublish!Board` maps it to what the live table of
the aggregates shows and to what was built.

### Pipeline

`main` over its seven stages. `Key` is the cache key: the stage, the inputs it
declares (only train declares the months and `judge`) and the pin the run was
launched with. `Hit` answers from the cache, `Lose` loses a pod, `Raise` spends a
retry. Outside: `MakeData` changes the host's data and pins, `StageData` the
volume (skipped unless the source is larger or `RESTAGE=1`), `MoveAlias` the
champion. `Staged` assumes that pin and volume change together and between
executions.

### DataTree, Analyst

`DataTree` is `make ingest`: per month acquire (adopt a present file, or
download), pin, validate, clean, and write rows, report and sidecar one after
another; the manifest is saved at the end, refused or not, and by a killed run
not at all. A raw file is its bytes, a derived one the bytes it came from; a row
is the set of rejection rules it violates. One ingest at a time: two share the
`.part` names, nothing in the code prevents it. `Analyst` builds on it the two
publishers of predictions, which resolve the alias twice, and the six
reconciliations of `make duckdb`. A metric to four decimals is (model, bytes);
a build overtaken by a write is not followed, and the validation month is one of
the held-out months.

### Study

One Optuna study, filled by processes that may be killed: `Launch` opens the
storage through a forward that belongs to whoever opened it first, `OpenStudy`
counts what is owed from the rows, `Ask` fails the stale trials and enqueues
their retries (Optuna, external), `Answer`, `Raise`, `Kill`. The resume drill
kills a run at the trial it names, waits out the heartbeat and judges. Stored
rows are counted by state and by the retries behind them; `StudyAssumption` says
of the constants what both the run and the proofs assume.

### Credentials

A value is the generation that made it. A family's actions follow the code: new
value into `.env` or the service first, then the others, then the Secrets, the
checkpoint, the drains, the consumers in `DrainOrder`; `KillRotation` anywhere;
`Start` resumes from the checkpoint. The gameday's storage scenario captures,
breaks and puts back the same secret; evictions restart a consumer with what its
Secret holds. `--destroy-pre-rotation` and the check of the old values come
after.

### Serving, LoadClient

`Serving` has three processes over one world (alias, configuration line, pod,
canary weight): `make serve` (resolve, apply, read back; it fetches nothing for
an unchanged InferenceService), the rollback rehearsal (alias, configuration,
deployment, gate, and the same back in `finally`) and the canary release drill
with its windows. `LoadClient` is the open-loop client: worker threads that take
an index under a lock, a callback once a second that kills the pod, the object
that replaces it, and `Finish`, which computes the record from the attempts.

### StoreWatch, DriftBoard, ClientSignals, Gameday

Four surfaces with the rules that watch them, on a clock of evaluations: `Tick`
is a scrape and an evaluation, a rule fires when it has held for longer than its
`for`.

`StoreWatch`: `Ask`, `LookUpZones`, `LookUpCalendar`, `AskSentinel` are a quote
inside the transformer, which tells an empty calendar from an empty store by a
second read; `ReadKeys`..`Push` a run of the reader; `Write` a materialization
under way; the rules A-12 to A-14; the drill empties the store, then takes the
feature server away, then the reading.

`DriftBoard`: a job pushes one group per month; the gateway checkpoints, dies and
comes back with what the volume really holds (`Deployments`: bound and written,
elsewhere, unnamed); A-8 is two or more input columns moved, A-9 to A-11 volume,
staleness and absence. Both drills push a known board, break something and
judge. PSI is which columns moved. A pod is back within a tick.

`ClientSignals`: clients read the refusal counter back and push one more (an
unreadable counter restarts at one); a reader asks the endpoint, then the
registry, and pushes the pair or leaves the last one to age. A tick is longer
than a client's two calls; a deploy follows the alias.

`Gameday`: four scenarios with their predictions (control, kill, storage,
saturation) by the minute, the traffic of the last five in a window, A-2, A-3,
A-5, A-6, A-7, the links to Prometheus and Alertmanager, a stop/start rehearsal
beside them, and the records on disk that the report assembles. A-5 has no
series for a stopped service; A-1, a latency histogram, is left out.

### Feast, FeastChecks

`Feast`: a window's median is the set of trips it was computed from; a source
row is stamped with the first instant at which it may be known; a build writes
file after file (in `Files` order), a materialization fills view after view up to
the last stamp it read; both can be killed, a parquet is torn only by a kill.
`FeastChecks`: each comparison as its reads in turn and the verdict drawn, one at
a time, and the red team that plants a value, listens and puts the bytes back.

### The composites

Where two components interact they are one model (`Analyst` EXTENDS `DataTree`,
`FeastChecks` EXTENDS `Feast`, `Credentials` holds the rotation and the scenario
that shares its secret, `Serving` the deploy and both drills). Systems that share
no state are checked in one run for economy: `MCPlatform` is the credentials or
a study, `MCServingPath` the store watch or serving, `MCSafety` Feast, the load
client, the scale provenance or the client signals. A variable `of`, chosen at
the start, says which one a behaviour is of; the other's variables stay as they
are, so that the states add up and do not multiply, and weak fairness of a
disjunction is weak fairness of the system the behaviour is of. `MCMartsPublish`
likewise joins one publisher with faults and two publishers on quiet data.
Constants of INSTANCEd modules are assumed in the composite
(`ConstantsAssumption`), where TLC evaluates the assumption.

## 3. The runs

| run | asks | bounds | answer |
|---|---|---|---|
| `promotion` | do versions stay truthful, champions quotable, servable and above the floor, whatever overlaps, dies, misreads or is overridden? | 2 promoters, 2 runs, 5 scores around each threshold, 2 launches, 2 overrides | yes |
| `promotion_alone` | does a promotion replace the champion it was compared with, improve on it, mint one version per run; is it one step of `ChampionLineage`? | as above, 3 launches (a crash, a repetition, a rival), 1 override, `Alone` | yes |
| `promotion_race` | does it without `Alone`, as the docstring says? | 2 launches | **no** |
| `marts` | half-loaded aggregates, green but incomplete, stale named months; is a refresh one step of `AtomicPublish`; does a publish end green if faults do not outnumber retries; do two publishers lose a published table? | 2 months of up to 2 rows, 3 generations, 2 executions of 1 retry, 2 faults, 1 re-derived month | no; yes; no |
| `pipeline` | is a cached answer of the data its key pins, is a verdict reported only to an execution entitled to it, does a refusal never fail one, does an entitled one report? | 2 executions, 2 generations, 2 champions, 1 fault, 1 retry, 2 changes, `Staged` | yes |
| `platform` | is every consumer able to log in once a rotation has ended, is the scenario's secret put back, does the rotation end? does a resumed study owe what is unanswered, and fill? | 2 rotations of 4 choices of families, 2 kills or evictions; 2 snipers, 3 trials, 1 retry, 2 kills, 1 failing fit | yes |
| `safety` | see the four rows below | see below | yes |
| &nbsp;&nbsp;Feast | is a feature ever of its own month; is a finished refill whole; does the red team leave its value? | 2 months, 2 kinds of trips, 4 commands, kills and changes | no, yes, no |
| &nbsp;&nbsp;load | is every request one attempt, is a passed record of a pod that was replaced? | 2 threads, 4 requests, 2 faults | yes |
| &nbsp;&nbsp;scale | is a missing scale ever read as "no search", does a recorded one change? | 2 processes, 3 jobs, 2 versions, every refit tagged | no, no |
| &nbsp;&nbsp;signals | is a counted refusal paged, was a paged mismatch real? | 2 clients, counter to 2, 2 versions, 2 troubles | yes |
| `serving_path` | is a quote refused as what went wrong, is a lost store paged, is the drill's verdict earned? does a deploy serve what it says, does a rehearsal come back? | 3 events, patience in the order of the code's timeouts; 3 versions, 2 alias moves, 2 faults, 2 serves, 1 drill | yes |
| `analyst` | does a green layer tell one story; are published predictions of the model they name; do pins stand? | 1 month of each split, 4 contents, 2 versions, 1 fault, 1 change | yes |
| `drift_board` | are the drills' verdicts earned, is a lost board or a collapsed month paged? | 3 months, 5 deployments, 3 events | yes |
| `gameday` | does one bad minute page, are the records true, is an outage paged? | 2 days, 2 troubles | no, yes, yes |
| `rollback` | does a rehearsal that fails end where it started? | 1 drill, 2 faults | **no** |

The bounds are those at which the interesting cases happen. Promotion's scores
sit on and beside each threshold (exactly the margin after rounding but not
before, a KPI-10 that only rounding lifts, one that rounding lowers so that a
champion's bar sinks when it is tagged). Two months let one be named and one be
owed; equal counts in two generations let a re-derived month hide. Two
executions share a cache; two snipers share a forward; two clients a counter.
Two feature months are the least for which a window can leak and an old row can
outlive a refill. The two kills of a rotation kill it once and its resumption
again. The four contents of a raw file are the pinned one, one with as many rows
rejected under other rules, one that is refused and one with other columns. The
clocks are scaled to the `for` clauses: what matters is which is longer, and
whether a wait outlives it.

`CHECK_DEADLOCK FALSE` everywhere: with its bounds spent a model has nothing
left to do, as the system has when nobody types a command. *Symmetry* is declared
only for `analyst`, whose properties are safety and whose versions are
interchangeable.

*Fairness* is weak, of single steps, and only of what goes on by itself:

* `MartsPublish`: a running publish goes on, and Flyte retries a failed attempt
  while the budget lasts. `Pipeline`: Flyte schedules the stages of a running
  execution.
* `Credentials`, `Study`, `Serving`: a command that runs takes its next step; for
  the study, also that somebody runs the command again, which is what its
  recipe's `make` target is for. Kills, evictions and failures are not fair.
* `StoreWatch`, `DriftBoard`, `Gameday`: Prometheus scrapes and evaluates on its
  interval, the gateway's pod is restarted by its Deployment, a drill or a job
  that runs goes on, a request that was sent is handled.

Nothing is assumed of launches, faults, re-derived data or moves of the alias,
and no promotion is assumed to finish.

### Where the code and its words disagree

Two disagreements are runs of their own.

* `promotion_race`: the alias is read at the top of `promote` and set at its
  end. Two runs that both beat version 1 both move it, although
  `registry.py:26-33` says the check "closes the race". The champion that
  results still cleared the floor (`ChampionEarned` is proved without `Alone`);
  what is lost is that it beat the one it replaced.
* `rollback`: a first leg that raises after it has moved the alias never returns
  its record; `finally` reads `record["leg_1_rollback"]`
  (`alias_rollback_rehearsal.py:524`), raises a KeyError and moves nothing back.

The others are stated as properties that no run lists; `tlc` on the module with
the property added shows each in a second or two. They are kept because the
words of the repository say them.

| property | what the words say | what happens |
|---|---|---|
| `MartsPublish!OldMonthOrNew` | a kill leaves the old month or the new one | DELETE and COPY are two transactions; the next green publish catches it (`AloneBoardIsTrue`), readers in between do not |
| `ScaleProvenance!ScaleNeverChanges` with `LegacyRefits` | a recorded scale is never changed | promoting a run from before the tags a second time writes "none" over what the backfill put there |
| `Pipeline!ExecutionsAreSound` with `Staged = FALSE` | the salt makes the cache follow the data | the salt hashes the host's pins, the stages read the volume |
| `Credentials!OldValuesDead` | the drill that checks the old values vouches for them | it records "all passed" whatever it found (`rotate_credentials.py:826`) |
| `StoreWatch!PagesOnTrouble` | the `for 2m` of A-12 covers a reader that ran during a refill | the reading stays on the gateway: the page starts after the refill has ended |
| `DriftBoard!BoardEndsTrue` | "the board ends carrying the truth" | a drill that aborts, not only one that is killed, leaves off the board the month it cleared |
| `Gameday!SelfHealStaysUnder` | a self-heal within the predicted seconds cannot reach A-2's bar | the share is of what was asked: with little other traffic in the window it does (it does not page: `OneMinuteNeverPages`) |
| `LoadClient!RecoveryIsTheReplacements` | the recovery is the time to the replacement's first answer | the first success after the kill may be the dying pod's |
| `DataTree!AdviceMends` | "Delete the file and re-run to re-download" mends a corrupt file | the truncated bytes were pinned before they were found corrupt: the whole file is then refused as drifted |
| `ClientSignals!EveryRefusalIsPaged` | "a single event IS the event" | a refusal before the first sample, or after the gateway lost its counter, is no increase |
| `ClientSignals!MismatchIsNow` | "This condition has no transient form" | a deploy that follows the alias is one |

`DataTree!AdviceMends` needs the run without its SYMMETRY, `EveryRefusalIsPaged`
the fair specification.

Narrower ones, seen in the same models: two failed reads of the alias
(`registry.py:249`) promote with no comparison at all, which is why
`AcknowledgedMoves` assumes `~FaultyReads`; a re-run backfill is refused when
only the wording of the `source` tag differs (`registry.py:328`); a retrain that
starts between the rows tag and the cap tag reads a sampled search without its
cap (`registry.py:295`); a broken export has already committed the short month
when `_stream` says "nothing was committed" (`marts_publish.py:316`); two
publishers share one staging table, so that a reader may see one half loaded
(`marts_publish.py:330`); `register` reports the champion of a cached manifest
(`tasks.py:420`); the Metabase password is lost between the PUT and `.env`
(`rotate_credentials.py:637`); a gameday preflight that refuses leaves the old
record, and the report assembles whatever is on disk; a killed storage drill
leaves the wrong secret and a second run captures it as the right one; a refused
re-ingest pins bytes that the kept rows do not come from, so that `data_health`
shows another checksum (`analyst.py:400`); keys that vanish from the sources stay
in Redis; `explain_shortfall` reports as unexplained what a resettled month
explains; a killed red team leaves its value until the next refill.

## 4. The proofs

`PromotionProofs` proves for every number of processes, runs, scores, launches
and overrides, with overlapping promotions and failing reads unless stated
otherwise:

* `TypeCorrect`: `TypeOK`.
* `TruthfulVersions`: no version carries another run's numbers.
* `QuotableChampion`: a champion is registered with its own KPI-09 and its
  feature set, so the next decision can be taken against it.
* `EarnedChampion`: its run cleared the floor and its artifact can be served.
* `AcknowledgedMoves`: under `Alone` and without faulty reads, the alias moves
  only off the version that the decision consulted.
* `NothingIsDeleted`: a version keeps its run and the numbers recorded on it.
* `OneVersion`: under `Alone`, misread aliases or not, a run has one version.

Its second part proves, for every value of the constants:

* `VerdictsKeep`: a process between its verdict and the alias still beats the
  champion it was judged against, whatever was tagged meanwhile (`JudgedInv`).
* `PromotionRefinesLineage`: under `Alone` and without faulty reads, `Promotion`
  implements `ChampionLineage`.
* `PromotionsImprove`: under the same assumptions, the champion's recorded KPI-09
  falls by the margin and its KPI-10 does not, against the champion replaced.

None of these invariants is inductive. `QuotableChampion` holds because the
*process* about to move the alias has tagged its version, and because the
feature-set tag, which a rollback asks for, is written after the KPI tag. So the
inductive invariant `IInv` adds

* what each process has established by each label (`ProcessInv`),
* that every version descends from a run that cleared the floor and is written
  in that order (`VersionInv`),
* that the alias and the version the drill remembers are fully tagged
  (`PointerInv`),
* for `AcknowledgedMoves`, that inside `promote()` the alias is what was
  consulted and nobody else is inside (`AckInv`).

`Inductive` is `Spec => []IInv`: one lemma for the initial states, lemmas for the
kinds of step that the actions share, and a step per action. Beside `IInv`:

* `MintInv`, under `Alone`: the search for a run's version and the minting are
  two calls, and nobody mints between them.
* `JudgedInv`. Its one hard fact is arithmetic (`RecordedBound`): a recorded
  KPI-10 that is no lower than a measured one is no lower than what that one
  records as, so tagging a champion never takes a verdict back.

The refinement is then one lemma per kind of step: quiet steps settle
(`QuietStep`), the move of the alias promotes (`MoveIsPromote`), a rollback
overrides, the drill is the drill. These proofs use only `ScaleAssumption` (an
odd scale) and `PromotionAssumption` (types of the constants).

### The other components

A composite run's properties are proved of each component's own specification
first. That a behaviour of the composite is one of each component is a theorem of
its own (`ServingPathIsBoth`, `SafetyIsAllFour`, `MartsRunIsMarts`: a step is of
the component, or leaves all its variables alone), from which the properties of
the very specification that TLC runs follow (`ServingPathIsSafe`, `SafetyIsSafe`,
`MartsStayInTheRun`, `PlatformIsSafe`). A theorem about a run's property is stated
in a module that extends the run's. `BatchProofs` holds the marts' and the
pipeline's: publishing is the pipeline's last stage, and in `MCPipeline` the marts
are there and stand still, so the pipeline's theorems are of `BesideSpec`.

| theorem | module | assumes, beside the types of the constants | states for every instance |
|---|---|---|---|
| `MartsTyped` | BatchProofs | | `TypeOK`, any number of publishers |
| `MartsStay`, `MartsStayInTheRun` | BatchProofs | there is a month (and, for the run, a publisher) | `PublishedStays`: no statement of any publisher takes a published table off the board |
| `BoardStaysWhole`, `AloneBoardStaysWhole` | BatchProofs | one publisher | a reader sees a whole table of one generation, or none |
| `PublishesAtomically`, `ReadersNeverGoBack` | BatchProofs | one publisher | `MartsPublish` implements `AtomicPublish`, also while months are re-derived; no reader is shown older data than before |
| `AloneBoardStaysTrue` | BatchProofs | one publisher, `Quiet` (no month re-derived) | green means complete and true, also after a killed publish |
| `ExecutionsSound` | BatchProofs | `Staged` | a cached answer is of the data its key pins; a verdict fails no execution |
| `VerdictsEntitled` | BatchProofs | | the gate's verdict goes exactly to who is entitled to it |
| `PinsStand`, `PublishedSound`, `GreenHolds` | AnalystProofs | `TreeAssumption`: what is there at the start passes the ingest, and the counts of a month tell its contents apart | pins, published predictions and a green layer hold through refusals, kills, backfills and moves of the alias |
| `ServingSound` | ServingProofs | `S!ServingAssumption` | alias, configuration and pod agree when nothing is under way and nothing failed |
| `ServeIsTrue` | ServingProofs | `S!ServingAssumption` | a deployment that exits 0 serves the champion, but for an alias that moves away and back |
| `AnswersHonest` | ServingProofs | nothing | a quote is refused as what went wrong |
| `StoreDrillSound` | ServingProofs | `TimesAssumption`, `WaitsAssumption`: a reading outlives the `for`s of the rules, and the drill's timeouts do | a passed drill leaves a whole store, a server that is up and a healthy reading; one that began on a sound platform is never red |
| `DriftDrillsAreSound` | DriftProofs | `MonthsAssumption`: a drill's months are different ones of which one is predicted to fire; `WaitsAssumption`: each wait outlasts the evaluations it waits for | a passed drill shows rules that are loaded and delivered and each month with its own numbers, the persistence drill also a file that is on the volume; no drill is red on a platform as predicted |
| `JoinIsPointInTime`, `RefillsAreWhole`, `PassedDrillsLeaveTheTruth` | SafetyProofs | `FeastAssumption`: the train months are consecutive (with a gap, join and feature path differ in the month after it) | no feature of its own month; a finished refill is whole; a passed red team leaves the truth |
| `ScaleIsTrue`, `ScaleStays` | SafetyProofs | `LegacyRefits = {}` | the absence of a record is never taken for a fact, rows and cap read with a source are the fit's; a recorded scale stays |
| `SignalsHonest` | SafetyProofs | `SignalsAssumption` | a counted refusal is paged, a paged mismatch was real |
| `LoadMeasured` | SafetyProofs | `LoadAssumption`: the kill comes well before the tail | every request is one attempt; a record is of what was measured; a passed drill replaced the pod |
| `ServingPathIsBoth`, `ServingPathIsSafe` | ServingProofs | for the second, `S!ServingAssumption` | the run's specification implements both components'; its four safety properties |
| `SafetyIsAllFour`, `SafetyIsSafe` | SafetyProofs | for the second, those of the four | the run's specification implements all four components'; its seven properties |
| `OneMinuteIsQuiet`, `RecordsStayTrue` | GamedayProofs | | one minute of errors pages nobody; what a day's records say held is so |
| `AccessKept` | PlatformProofs | `CredentialsAssumption` | a rotation that ends has every place agree; only a kill locks anybody out |
| `ResumesSound` | PlatformProofs | `S!StudyAssumption` | a search that ends as planned leaves what was requested answered; a search killed within a fit passes the drill unless a fit raised |
| `NothingIsAskedTwice` | PlatformProofs | one process | a study that one process after the other fills is never answered more often than requested (two at once may) |
| `PlatformIsSafe` | PlatformProofs | those of the two | both, of the run's own specification |

Where an assumption says more than a type, the theorem is false without it.
`LegacyRefits = {}`: promoting a run from before the tags again writes "none"
over what the backfill found (section 3). One publisher: two share a staging
table. `Staged`: the salt hashes the host's pins and the stages read the volume.

Green counts rows with the community modules' fold over a function. What that
fold computes is a lemma (`SumIsCount`: the sum of a function over a finite set
is the number of pairs of an element and a unit of its number). It is an
induction over the subsets of the set, of which the prover needs no instance of
an induction rule: a smallest subset on which the sum is wrong exists
(`FS_StrictSubsetOrderingWellFounded`, `WFMin`), and the one without the chosen
element is smaller and right.

Of their invariants too, none is inductive as stated. Each proof adds what the
actors have established by the step they are at, which the names say:

* *Marts*: `WInv` says of the publisher which table is being filled and that the
  other is whole, from which the refinement follows step by step (`PublishStep`);
  that a whole table shows one content needs every generation to have rows
  (`OneContent`); `GInv` adds, step by step, what `green` will rest on.
* *Pipeline*: `EInv` relates the cache to the pins (`CacheInv`), and what an
  execution carries to the stage it is in and the pin it was launched with
  (`ExecInv`).
* *Analyst*: `AInv` is what an ingest knows of the month it is on
  (`IngestKnows`), that the files of a month come from bytes that passed, and
  what a publisher has checked of the model whose rows it carries (`PubKnows`,
  `RowsBearTheirModel`). That the two resolutions of the alias may differ is why
  a row's own label is in it.
* *Serving*: `SInv` counts the moves a deployment has slept through
  (`DeployKnows`) and says how far apart alias, configuration and pod are at each
  step of a rehearsal (`Unfailed`).
* *The transformer's answers*: `QInv` remembers in what states a request has seen
  the world. The first attempt at this proof failed on a store that is emptied
  and refilled part by part while the feature server is down, which the model did
  not record as a half-filled store; with three events TLC could not get there.
  `Conditions` records both since.
* *The store's drill*: `DInv` follows the script's thirty steps for a drill that
  nobody meddles with: what the store holds (`StoreKnown`), whether the server is
  up (`ServerKnown`), what a reader under way gathers and what is on the board
  (`ReaderKnown`, `BoardKnown`), and for how many evaluations each rule has held
  (`RulesKnown`), so that every wait is met before its timeout. The proof found a
  conjunct of the model's quote check that parsed as a part of the one before it,
  which left the checks for 422 and 503 empty; they are real since.
* *The drift board's drills*: their scripts have some three steps per month, so
  that what the steps before a position have established is stated for every
  position and every number of months: `FireKnows` and `PersistenceKnows` on any
  platform, which is why PASSED is earned; `FireSound` and `PersistenceSound` on
  one as predicted, which is why RED is never said of it. The second two say
  which months are on the board (`Begun`) and for how many evaluations the one
  rule that may hold has held (`OnlyCollapse`, `Quiet`).
* *Feast*: `StoreInv` says of a fill what it has written up to the stamp it read
  (`FillKnows`), `CheckKnows` what a comparison has read.
* *Scale*: `PInv`: whoever is at work has a version, what is recorded is what the
  fit used (`TagsAreTrue`), and no version has a source without rows and cap
  (`Sealed`), because each writer has written, or seen, those before it comes to
  the source (`WritersKnow`). *Signals*: `PageIsComing` relates the sustain of a rule to the
  samples Prometheus still remembers, `DifferenceWasReal` the pair on the
  gateway to the history of both sides. *Load*: `Requests` makes each index the
  property of one thread, `Kills` and `Replaced` relate the attempts to the pod
  they met; that a percentile of the attempts is the latency of one of them is a
  pigeonhole argument over ranks (`RankTaken`).
* *Gameday*: `Errors` ties the evaluations A-2 has held for to the age of the one
  minute with errors in the window. `DayKnows` follows what a day has shown:
  past the control of a whole day the alerting is wired, and a pod that a storage
  scenario leaves behind has read the good credential, or does not serve.
* *Credentials*: `CInv`. A rotation is at the first family it has left
  (`AtFamily`), a key it has not come to is as it read it and has no value of
  this rotation's (`Generations`), what is done agrees but for the consumers
  still to drain (`Done`), and without a kill a value differs between two places
  only at the steps that are about to close the difference (`Open`, `Unmade`).
* *Study*: `KInv`. `Counting`: what is answered and what a run has left make up
  what was requested, since answers are only added. `Recovering`: as long as no
  fit raises, a drill holds the tunnel and its arm is the only process, so the
  two make it up exactly; a kill within a fit leaves a dead row and an answer
  owed, so the second arm has to ask (`Lost`), and asking fails every dead row
  (`Found`). A verdict of "fail" therefore means a kill between two fits. How
  many rows a bag holds is a cardinality, of which the proof needs only that a
  bag that is not empty has a row (`Sizes`).

### Only model-checked

Every invariant and every action property that a run checks is proved. Out of the
prover's reach, hence TLC's: the liveness properties (`Converges`,
`EveryRunReports`, `FitRunsFinish`, `StudyFills`, `LossIsPaged` of two modules,
`OutageIsPaged`, `RehearsalReturns`), for which the fairness rules need ENABLED;
and the two statements of the repository that the runs refute.

## 5. What is not modelled

* *Numeric work*: fits, metrics, feature arithmetic, PSI, latency
  histograms (A-1). A model names what a number was computed from.
* *Gate eras, `rescale`, `round_budget`*: replays and arithmetic on recorded
  numbers, with no state and no step.
* *SQL and dbt*: what the publish and the analyst layer need of a query is in
  their models, the queries are not.
* *Serving parity, shadow*: numeric comparisons of two answers.
* *Backup and restore, the security scan and hooks, the milestone verifiers, the
  dashboards, the demo page and the documentation checks*: copies, pattern
  matching, acceptance scripts and text; they own no state that another part
  reads.

External systems are modelled by how the code uses them: an MLflow call is
atomic and may fail; a statement outside a transaction commits alone; Flyte looks
a cache key up when a stage starts and stores the answer when it ends, and the
container image, which is part of Flyte's key, is fixed; Optuna fails and retries
stale trials at the start of each trial; a push replaces a group; Prometheus'
`increase` is over the samples there are, an unscraped metric is 0.0 to the
scripts that read it; Redis keeps what nobody overwrites; manifests and reports
are written whole.

## 6. Plan

Done, in the order of importance: the gate and the promotion with its proofs and
its refinement; scale provenance; marts publish; pipeline; data tree and analyst
layer; the study; credentials; serving; store watch, drift board, gameday and
client signals; Feast and its comparisons; the load client.

Left:

1. Two ingests at once, with the `.part` names.
2. Gate eras and `rescale` against reference definitions at their boundaries.
