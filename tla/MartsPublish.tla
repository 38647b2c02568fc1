---------------------------- MODULE MartsPublish ----------------------------
(***************************************************************************)
(* The publish of the marts into Postgres: scripts/marts_publish.py, as    *)
(* the pipeline's last stage calls it (pipelines/tasks.py publish_marts,   *)
(* retried by Flyte) and as `make marts` does.                             *)
(*                                                                         *)
(* Every statement is a transaction of its own: the pod's connection is in *)
(* autocommit, the host runs one psql per statement.  A table is, for each *)
(* month, a bag of rows: how many it holds of each GENERATION of the       *)
(* month's data (a month is re-derived when its raw file is ingested       *)
(* again).  trips_clean is a view, so its rows are read when they are      *)
(* streamed; the aggregates are tables that `dbt build` fills.             *)
(***************************************************************************)
EXTENDS Naturals, Sequences, Functions

CONSTANTS
    Publishers,
    Months,
    RowsIn,         \* rows of a month in each generation: a sequence
    MaxRetries,     \* Flyte's budget per execution: _STAGE_RETRIES
    Quiet,          \* TRUE: no month is re-derived while a publish runs
    MaxLaunches,    \* bound on executions
    MaxFaults,      \* bound on kills and broken exports
    MaxRestates     \* bound on re-derived months

ASSUME MartsAssumption ==
    /\ RowsIn \in Seq(Nat \ {0}) /\ RowsIn # <<>>
    /\ MaxRetries \in Nat /\ MaxLaunches \in Nat
    /\ MaxFaults \in Nat /\ MaxRestates \in Nat
    /\ Quiet \in BOOLEAN

VARIABLES
    source,     \* the generation of each month in the analyst layer
    live,       \* the published tables, NoTable where there is none
    staging,    \* <mart>__staging, likewise
    restates, launches, faults,
    pc,
    months,     \* the months a publish names, {} for a full refresh
    retries,    \* retries an execution has used
    built,      \* the generations its dbt build read
    mart,       \* the mart it is at
    todo        \* the named months it has not streamed yet

tables == <<live, staging>>
counters == <<restates, launches, faults>>
job == <<months, retries>>
local == <<built, mart, todo>>
vars == <<source, tables, counters, pc, job, local>>

FactMart == "trips_clean"       \* INCREMENTAL_MART
Aggregates == "aggregates"      \* the five others, each refreshed alone
Marts == {FactMart, Aggregates}

Resting == {"idle", "failed", "done"}
Acting == {"build", "begin", "delete", "stream_month", "drop", "create",
           "stream", "swap", "index", "reconcile"}

-----------------------------------------------------------------------------
(* Rows and tables.                                                        *)

Generations == DOMAIN RowsIn
NoRows == [g \in Generations |-> 0]
NoTable == <<>>

Count(rows) == SumFunction(rows)

(* What the exporter streams of a month: everything, or, if it dies, less. *)
Whole(g) == [NoRows EXCEPT ![g] = RowsIn[g]]
Short(g) == {[NoRows EXCEPT ![g] = n] : n \in 0 .. RowsIn[g] - 1}

WholeTable(content) == [m \in Months |-> Whole(content[m])]
ShortTables(content) ==
    UNION {{[WholeTable(content) EXCEPT ![m] = rows] : rows \in Short(content[m])} :
              m \in Months}

(* COPY appends.                                                           *)
Copied(rows, more) == [g \in Generations |-> rows[g] + more[g]]
CopiedTable(table, more) == [m \in Months |-> Copied(table[m], more[m])]

-----------------------------------------------------------------------------
(* The database may hold no mart yet, or what publishes of earlier         *)
(* generations left.                                                       *)
Init ==
    /\ source \in [Months -> Generations]
    /\ \/ live = [k \in Marts |-> NoTable]
       \/ \E content \in [Months -> Generations] :
             /\ \A m \in Months : content[m] <= source[m]
             /\ live = [k \in Marts |-> WholeTable(content)]
    /\ staging = [k \in Marts |-> NoTable]
    /\ restates = 0 /\ launches = 0 /\ faults = 0
    /\ pc = [p \in Publishers |-> "idle"]
    /\ months = [p \in Publishers |-> {}]
    /\ retries = [p \in Publishers |-> 0]
    /\ built = [p \in Publishers |-> source]
    /\ mart = [p \in Publishers |-> FactMart]
    /\ todo = [p \in Publishers |-> {}]

Goto(p, label) == pc' = [pc EXCEPT ![p] = label]

(* A month is ingested again, with other rows, maybe as many as before.    *)
Restate(m) ==
    /\ restates < MaxRestates
    /\ Quiet => \A p \in Publishers : pc[p] \in Resting
    /\ source[m] + 1 \in Generations
    /\ source' = [source EXCEPT ![m] = @ + 1]
    /\ restates' = restates + 1
    /\ UNCHANGED <<tables, launches, faults, pc, job, local>>

(* An execution, for the months it names or (named = {}) for everything.   *)
Launch(p, named) ==
    /\ pc[p] \in Resting
    /\ pc[p] = "failed" => retries[p] = MaxRetries
    /\ launches < MaxLaunches
    /\ launches' = launches + 1
    /\ months' = [months EXCEPT ![p] = named]
    /\ retries' = [retries EXCEPT ![p] = 0]
    /\ Goto(p, "build")
    /\ UNCHANGED <<source, tables, restates, faults, local>>

(* Faulty variant: the budget counts retries from zero, inclusive.         *)
RetryOnceMore(p) ==
    /\ pc[p] = "failed"
    /\ retries[p] <= MaxRetries
    /\ retries' = [retries EXCEPT ![p] = @ + 1]
    /\ Goto(p, "build")
    /\ UNCHANGED <<source, tables, counters, months, local>>

(* Flyte runs a failed attempt again, from the top of the stage.           *)
Retry(p) ==
    /\ pc[p] = "failed"
    /\ retries[p] < MaxRetries
    /\ retries' = [retries EXCEPT ![p] = @ + 1]
    /\ Goto(p, "build")
    /\ UNCHANGED <<source, tables, counters, months, local>>

(* The analyst layer and `dbt build`: the aggregates take the data as it   *)
(* is now.                                                                 *)
Build(p) ==
    /\ pc[p] = "build"
    /\ built' = [built EXCEPT ![p] = source]
    /\ Goto(p, "begin")
    /\ UNCHANGED <<source, tables, counters, job, mart, todo>>

(* CREATE SCHEMA, and which tables exist: the fact table is scoped to the  *)
(* named months only if there is one.                                      *)
Begin(p) ==
    /\ pc[p] = "begin"
    /\ mart' = [mart EXCEPT ![p] = FactMart]
    /\ todo' = [todo EXCEPT ![p] = months[p]]
    /\ Goto(p, IF months[p] # {} /\ live[FactMart] # NoTable THEN "delete" ELSE "drop")
    /\ UNCHANGED <<source, tables, counters, job, built>>

(* After the fact table the aggregates, after them the indexes.            *)
NextMart(p) ==
    /\ mart' = [mart EXCEPT ![p] = Aggregates]
    /\ Goto(p, IF mart[p] = FactMart THEN "drop" ELSE "index")

-----------------------------------------------------------------------------
(* replace_months: for each named month a DELETE, then a COPY.             *)

Current(p) == CHOOSE m \in todo[p] : TRUE

Fail(p) == Goto(p, "failed") /\ UNCHANGED <<live, staging, mart, todo>>

(* Faulty variant: a month whose count agrees already is not replaced.     *)
DeleteUnlessCounted(p) ==
    LET m == Current(p)
    IN  /\ pc[p] = "delete"
        /\ IF live[FactMart] = NoTable THEN Fail(p)
           ELSE IF Count(live[FactMart][m]) = RowsIn[source[m]]
           THEN /\ NextMart(p)
                /\ UNCHANGED <<tables, todo>>
           ELSE /\ live' = [live EXCEPT ![FactMart][m] = NoRows]
                /\ Goto(p, "stream_month")
                /\ UNCHANGED <<staging, mart, todo>>
        /\ UNCHANGED <<source, counters, job, built>>

DeleteMonth(p) ==
    /\ pc[p] = "delete"
    /\ IF live[FactMart] = NoTable THEN Fail(p)
       ELSE /\ live' = [live EXCEPT ![FactMart][Current(p)] = NoRows]
            /\ Goto(p, "stream_month")
            /\ UNCHANGED <<staging, mart, todo>>
    /\ UNCHANGED <<source, counters, job, built>>

StreamMonth(p) ==
    LET m == Current(p)
    IN  /\ pc[p] = "stream_month"
        /\ IF live[FactMart] = NoTable THEN Fail(p)
           ELSE /\ live' = [live EXCEPT ![FactMart][m] = Copied(@, Whole(source[m]))]
                /\ todo' = [todo EXCEPT ![p] = @ \ {m}]
                /\ IF todo[p] = {m} THEN NextMart(p)
                                    ELSE Goto(p, "delete") /\ UNCHANGED mart
                /\ UNCHANGED staging
        /\ UNCHANGED <<source, counters, job, built>>

(* The exporter dies: COPY meets the end of a short stream and commits,    *)
(* and only then does _stream look at the exit code.                       *)
BreakMonth(p) ==
    LET m == Current(p)
    IN  /\ pc[p] = "stream_month"
        /\ faults < MaxFaults
        /\ faults' = faults + 1
        /\ live[FactMart] # NoTable
        /\ \E rows \in Short(source[m]) :
              live' = [live EXCEPT ![FactMart][m] = Copied(@, rows)]
        /\ Goto(p, "failed")
        /\ UNCHANGED <<source, staging, restates, launches, job, local>>

-----------------------------------------------------------------------------
(* full_refresh: load the staging table, swap it in.                       *)

(* Faulty variant: nothing left over is expected.                          *)
DropNothing(p) ==
    /\ pc[p] = "drop"
    /\ Goto(p, "create")
    /\ UNCHANGED <<source, tables, counters, job, local>>

DropStaging(p) ==
    /\ pc[p] = "drop"
    /\ staging' = [staging EXCEPT ![mart[p]] = NoTable]
    /\ Goto(p, "create")
    /\ UNCHANGED <<source, live, counters, job, local>>

CreateStaging(p) ==
    /\ pc[p] = "create"
    /\ IF staging[mart[p]] # NoTable THEN Fail(p)
       ELSE /\ staging' = [staging EXCEPT ![mart[p]] = [m \in Months |-> NoRows]]
            /\ Goto(p, "stream")
            /\ UNCHANGED <<live, mart, todo>>
    /\ UNCHANGED <<source, counters, job, built>>

(* What the exporter reads: the view as it is now, or the built tables.    *)
Content(p) == IF mart[p] = FactMart THEN source ELSE built[p]

StreamStaging(p) ==
    /\ pc[p] = "stream"
    /\ IF staging[mart[p]] = NoTable THEN Fail(p)
       ELSE /\ staging' = [staging EXCEPT
                              ![mart[p]] = CopiedTable(@, WholeTable(Content(p)))]
            /\ Goto(p, "swap")
            /\ UNCHANGED <<live, mart, todo>>
    /\ UNCHANGED <<source, counters, job, built>>

(* Faulty variant: the exit code of the exporter is not looked at.         *)
BreakUnnoticed(p) ==
    /\ pc[p] = "stream"
    /\ faults < MaxFaults
    /\ faults' = faults + 1
    /\ staging[mart[p]] # NoTable
    /\ \E table \in ShortTables(Content(p)) :
          staging' = [staging EXCEPT ![mart[p]] = CopiedTable(@, table)]
    /\ Goto(p, "swap")
    /\ UNCHANGED <<source, live, restates, launches, job, local>>

BreakStaging(p) ==
    /\ pc[p] = "stream"
    /\ faults < MaxFaults
    /\ faults' = faults + 1
    /\ staging[mart[p]] # NoTable
    /\ \E table \in ShortTables(Content(p)) :
          staging' = [staging EXCEPT ![mart[p]] = CopiedTable(@, table)]
    /\ Goto(p, "failed")
    /\ UNCHANGED <<source, live, restates, launches, job, local>>

(* Faulty variant: DROP and RENAME are not one transaction.                *)
SwapInTwo(p) ==
    /\ pc[p] = "swap"
    /\ live' = [live EXCEPT ![mart[p]] = staging[mart[p]]]
    /\ staging' = [staging EXCEPT ![mart[p]] = NoTable]
    /\ IF staging[mart[p]] = NoTable
       THEN Goto(p, "failed") /\ UNCHANGED mart
       ELSE NextMart(p)
    /\ UNCHANGED <<source, counters, job, built, todo>>

(* DROP the live table and RENAME the other in one transaction, which      *)
(* rolls back if there is no other.                                        *)
Swap(p) ==
    /\ pc[p] = "swap"
    /\ IF staging[mart[p]] = NoTable THEN Fail(p)
       ELSE /\ live' = [live EXCEPT ![mart[p]] = staging[mart[p]]]
            /\ staging' = [staging EXCEPT ![mart[p]] = NoTable]
            /\ NextMart(p)
            /\ UNCHANGED todo
    /\ UNCHANGED <<source, counters, job, built>>

-----------------------------------------------------------------------------
Index(p) ==
    /\ pc[p] = "index"
    /\ Goto(p, IF \E k \in Marts : live[k] = NoTable THEN "failed"
               ELSE IF months[p] # {} THEN "reconcile" ELSE "done")
    /\ UNCHANGED <<source, tables, counters, job, local>>

(* Faulty variant: only the months this publish names are reconciled.      *)
ReconcileNamed(p) ==
    /\ pc[p] = "reconcile"
    /\ Goto(p, IF /\ live[FactMart] # NoTable
                  /\ \A m \in months[p] : Count(live[FactMart][m]) = RowsIn[source[m]]
               THEN "done" ELSE "failed")
    /\ UNCHANGED <<source, tables, counters, job, local>>

(* The same count per month on both sides, for every month of either.      *)
Reconcile(p) ==
    /\ pc[p] = "reconcile"
    /\ Goto(p, IF /\ live[FactMart] # NoTable
                  /\ \A m \in Months : Count(live[FactMart][m]) = RowsIn[source[m]]
               THEN "done" ELSE "failed")
    /\ UNCHANGED <<source, tables, counters, job, local>>

(* The pod is evicted, a statement fails: what was committed stays.        *)
Kill(p) ==
    /\ pc[p] \in Acting
    /\ faults < MaxFaults
    /\ faults' = faults + 1
    /\ Goto(p, "failed")
    /\ UNCHANGED <<source, tables, restates, launches, job, local>>

-----------------------------------------------------------------------------
Progress(p) ==
    \/ Build(p) \/ Begin(p) \/ DeleteMonth(p) \/ StreamMonth(p)
    \/ DropStaging(p) \/ CreateStaging(p) \/ StreamStaging(p) \/ Swap(p)
    \/ Index(p) \/ Reconcile(p)

Break(p) == BreakMonth(p) \/ BreakStaging(p) \/ Kill(p)

Next ==
    \/ \E m \in Months : Restate(m)
    \/ \E p \in Publishers :
          \/ \E named \in SUBSET Months : Launch(p, named)
          \/ Retry(p) \/ Progress(p) \/ Break(p)

Spec == Init /\ [][Next]_vars

(* A running publish goes on, and Flyte does retry.  Nothing obliges data  *)
(* to be re-derived, publishes to be launched or faults to happen.         *)
FairSpec == Spec /\ \A p \in Publishers : WF_vars(Progress(p)) /\ WF_vars(Retry(p))

-----------------------------------------------------------------------------
Tables == {NoTable} \cup [Months -> [Generations -> Nat]]

(* Types of the variables, the retry budget among them.                    *)
TypeOK ==
    /\ source \in [Months -> Generations]
    /\ live \in [Marts -> Tables] /\ staging \in [Marts -> Tables]
    /\ restates \in Nat /\ launches \in Nat /\ faults \in Nat
    /\ pc \in [Publishers -> Resting \cup Acting]
    /\ months \in [Publishers -> SUBSET Months]
    /\ retries \in [Publishers -> 0 .. MaxRetries]
    /\ built \in [Publishers -> [Months -> Generations]]
    /\ mart \in [Publishers -> Marts]
    /\ todo \in [Publishers -> SUBSET Months]

(* full_refresh: a reader of an aggregate sees a complete old table or a   *)
(* complete new one, wherever a publish is killed and however its export   *)
(* breaks.                                                                 *)
NeverHalfLoaded ==
    live[Aggregates] # NoTable =>
        \E content \in [Months -> Generations] : live[Aggregates] = WholeTable(content)

BoardIsWhole == TypeOK /\ NeverHalfLoaded

(* A green publish means every month of the fact table has its source's    *)
(* count, those an earlier, killed publish left short included, and the    *)
(* aggregates are of the same data.                                        *)
GreenIsComplete ==
    \A p \in Publishers : pc[p] = "done" =>
        /\ \A m \in Months : Count(live[FactMart][m]) = RowsIn[built[p][m]]
        /\ live[Aggregates] = WholeTable(built[p])

(* And it means more for the months it names: exactly their present rows,  *)
(* even if a re-derived month has as many rows as before.                  *)
NamedMonthsFresh ==
    \A p \in Publishers : pc[p] = "done" =>
        \A m \in months[p] : live[FactMart][m] = Whole(built[p][m])

(* A board never loses a mart: wherever a publish is killed between its    *)
(* statements, and if two drop each other's staging tables, every          *)
(* published table stays in place.                                         *)
PublishedStays ==
    [][\A k \in Marts : live[k] # NoTable => live'[k] # NoTable]_vars

(* The months whose published count is not their source's.                 *)
Owed == IF live[FactMart] = NoTable THEN {}
        ELSE {m \in Months : Count(live[FactMart][m]) # RowsIn[source[m]]}

(* A second attempt converges: once no more data is re-derived, a publish  *)
(* that names every month it has to mend ends green, unless there are more *)
(* faults than retries.                                                    *)
Converges ==
    \A p \in Publishers :
        (/\ pc[p] = "build" /\ retries[p] = 0 /\ restates = MaxRestates
         /\ months[p] = {} \/ Owed \subseteq months[p])
            ~> pc[p] = "done" \/ faults > MaxRetries

(* "a killed attempt leaves either the old month or the new one".          *)
OldMonthOrNew ==
    \A p \in Publishers : pc[p] = "failed" /\ live[FactMart] # NoTable =>
        \A m \in Months : \E g \in Generations : live[FactMart][m] = Whole(g)
=============================================================================
