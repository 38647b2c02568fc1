------------------------------- MODULE Feast -------------------------------
(***************************************************************************)
(* The feature store: the window aggregates of taxi_mlops.features, the    *)
(* parquet sources feast_sources.py publishes from them, the Redis store   *)
(* that feast_materialize.sh fills, and Feast's two ways of answering, the *)
(* point-in-time join over the sources and the online lookup.              *)
(*                                                                         *)
(* Months are numbered; month m begins at instant m.  The median or the    *)
(* speed of a window is the set of trips it was computed from, so two      *)
(* windows have one value exactly when they hold the same trips.  A trip   *)
(* kind k stands for its pair of zones and for its pickup hour.            *)
(***************************************************************************)
EXTENDS Naturals, Sequences, FiniteSets, FiniteSetsExt, Functions

CONSTANTS
    TrainMonths,  \* configs/train.yaml: data.train_months
    Kinds,        \* of trips
    StaticFiles,  \* zone_static and calendar_day, in the order they are written
    Settled0,     \* what data/processed may hold at the start
    MaxActs       \* bound: commands started, kills and changes of the data, in all

(* The configured months are consecutive; each that is settled has a trip. *)
ASSUME FeastAssumption ==
    /\ TrainMonths \subseteq Nat \ {0}
    /\ \E last \in TrainMonths : TrainMonths = Min(TrainMonths) .. last
    /\ StaticFiles \in Seq(STRING)
    /\ Range(StaticFiles) \cap {"od_window_stats", "pu_hour_window_stats"} = {}
    /\ Settled0 \subseteq [TrainMonths -> [Kinds -> {0, 1}]]
    /\ \A trips \in Settled0, m \in TrainMonths : \E k \in Kinds : trips[m][k] # 0
    /\ MaxActs \in Nat

VARIABLES
    settled,    \* data/processed: the bytes of a month's trips of a kind, 0 for none
    reference,  \* the centroid table and the holiday table
    sources,    \* data/feast: what each parquet was built from
    build,      \* feast_sources.py under way
    online,     \* Redis: the row of each key of each view
    fill,       \* feast_materialize.sh under way
    acts        \* of MaxActs

data == <<settled, reference>>
stores == <<data, sources, build, online, fill, acts>>

Act == acts < MaxActs /\ acts' = acts + 1

Windowed == {"od_window_stats", "pu_hour_window_stats"}
Static == Range(StaticFiles)
Views == Windowed \cup Static
Files == StaticFiles \o <<"od_window_stats", "pu_hour_window_stats">>

(* Zones 264 and 265 are places nobody can point at: no row anywhere.      *)
StaticKeys == {"known", "nowhere"}
KeysOf(view) == IF view \in Windowed THEN Kinds ELSE StaticKeys

HeldOut == Max(TrainMonths) + 1     \* the validation month, and any later one
Months == Min(TrainMonths) .. HeldOut

---------------------------------------------------------------------------
(* aggregates.py                                                           *)

(* _fit_window over the months of a window; the kind of trip is missing    *)
(* where no month of the window has it.                                    *)
FitWindow(trips, window) ==
    [k \in Kinds |-> {<<m, k, trips[m][k]>> : m \in {n \in window : trips[n][k] # 0}}]

(* fit: a month is served the months before it, the first month nothing;   *)
(* everything serves the rest.                                             *)
History(fitted, m) == {n \in fitted : n < m}
Fit(trips, fitted) ==
    [by_month |-> [m \in fitted |-> FitWindow(trips, History(fitted, m))],
     full |-> FitWindow(trips, fitted)]

(* transform: the value a row of month m is given for its kind.            *)
Transform(tables, k, m) ==
    IF m \in DOMAIN tables.by_month THEN tables.by_month[m][k] ELSE tables.full[k]

---------------------------------------------------------------------------
(* feast_sources.py                                                        *)

NoSource == [is |-> "missing"]
Torn == [is |-> "torn"]             \* written halfway
Built(trips, months) == [trips |-> trips, months |-> months]
Readable(content) == content \notin {NoSource, Torn}

Windows(fitted) == ({History(fitted, m) : m \in fitted} \cup {fitted}) \ {{}}

(* A window is knowable when its last month is over.                       *)
(* Faulty variant: stamped at the start of its last month.                 *)
WindowStampEarly(window) == Max(window)
WindowStamp(window) == Max(window) + 1
StaticStamp == Min(TrainMonths)     \* STATIC_FALLBACK_STAMP, 2019-01-01

WindowRows(content) ==
    {row \in UNION {{[key |-> k, stamp |-> WindowStamp(window),
                      value |-> FitWindow(content.trips, window)[k]] : k \in Kinds} :
                    window \in Windows(content.months)} : row.value # {}}

StaticRows(content) == {[key |-> "known", stamp |-> StaticStamp, value |-> {content}]}

RowsOf(view, content) ==
    IF view \in Windowed THEN WindowRows(content) ELSE StaticRows(content.reference)

Rows(view) == RowsOf(view, sources[view])
Stamps(view) == {row.stamp : row \in Rows(view)}

NoFill == [left |-> <<>>, until |-> 0, alone |-> TRUE]
NoBuild == [left |-> <<>>, months |-> {}, fit |-> NoSource]

(* `--static-only` writes two files, `--train-months` narrows the fit.     *)
BuildSources(months) ==
    /\ build = NoBuild /\ Act
    /\ build' = [left |-> IF months = {} THEN StaticFiles ELSE Files,
                 months |-> months, fit |-> NoSource]
    /\ UNCHANGED <<data, sources, online, fill>>

(* Whether anything else has written the sources, or the store, since a    *)
(* materialization under way read its window.                              *)
Disturb == fill' = [fill EXCEPT !.alone = fill = NoFill]

(* build_window_aggregates reads and fits once, after the static files.    *)
FitSources ==
    /\ build.left # <<>> /\ Head(build.left) \in Windowed /\ build.fit = NoSource
    /\ build' = [build EXCEPT !.fit = Built(settled, build.months)]
    /\ UNCHANGED <<data, sources, online, fill, acts>>

WriteSource ==
    /\ build.left # <<>>
    /\ Head(build.left) \in Windowed => build.fit # NoSource
    /\ LET view == Head(build.left)
       IN /\ sources' = [sources EXCEPT ![view] =
                            IF view \in Static THEN [reference |-> reference] ELSE build.fit]
          /\ build' = IF Len(build.left) = 1 THEN NoBuild ELSE [build EXCEPT !.left = Tail(@)]
    /\ Disturb
    /\ UNCHANGED <<data, online, acts>>

(* Killed between two writes, or inside one.                               *)
KillBuild ==
    /\ build # NoBuild /\ Act
    /\ build' = NoBuild
    /\ sources' \in {sources, [sources EXCEPT ![Head(build.left)] = Torn]}
    /\ Disturb
    /\ UNCHANGED <<data, online>>

---------------------------------------------------------------------------
(* Feast (external), as retrieve.py, online.py and the sources use it.     *)

(* The point-in-time join: the newest row of the key not after the         *)
(* instant; none drops the entity from the answer.                         *)
Join(rows, k, instant) ==
    LET known == {row \in rows : row.key = k /\ row.stamp <= instant}
    IN {row \in known : \A other \in known : other.stamp <= row.stamp}

Value(answer) == UNION {row.value : row \in answer}

(* The lookup has one row per key and no history.                          *)
Nothing == {}
Lookup(view, k) == online[view][k]

---------------------------------------------------------------------------
(* feast_source_window.py and feast_materialize.sh                         *)

AllReadable == \A view \in Views : Readable(sources[view])

(* The window is read off the sources, never typed.                        *)
(* Faulty variant: typed when the first window was the last one.           *)
LastStampTyped(view) == Min(TrainMonths) + 1
LastStamp(view) == Max(Stamps(view))
SourceWindow == Max({LastStamp(view) : view \in Views})

Materialize ==
    /\ fill = NoFill /\ Act
    /\ AllReadable
    /\ fill' = [left |-> Files, until |-> SourceWindow, alone |-> TRUE]
    /\ UNCHANGED <<data, sources, build, online>>

(* Feast writes the newest row of each key in the window.  It deletes none.*)
Filled(view, keys) ==
    [online EXCEPT ![view] = [k \in KeysOf(view) |->
        LET newest == Join(Rows(view), k, fill.until)
        IN IF k \in keys /\ newest # {} THEN newest ELSE @[k]]]

FillView ==
    /\ fill # NoFill
    /\ LET view == Head(fill.left)
       IN /\ Readable(sources[view])
          /\ online' = Filled(view, KeysOf(view))
          /\ fill' = IF Len(fill.left) = 1 THEN NoFill ELSE [fill EXCEPT !.left = Tail(@)]
    /\ UNCHANGED <<data, sources, build, acts>>

(* Killed, or raising on an unreadable source, with some keys written.     *)
KillFill ==
    /\ fill # NoFill
    /\ LET view == Head(fill.left) IN \E keys \in SUBSET KeysOf(view) :
         IF Readable(sources[view])
         THEN Act /\ online' = Filled(view, keys)
         ELSE keys = {} /\ UNCHANGED <<acts, online>>
    /\ fill' = NoFill
    /\ UNCHANGED <<data, sources, build>>

---------------------------------------------------------------------------
(* What the store depends on changes under it: a month is settled again    *)
(* (never to nothing, ingest refuses that), `make zones` or `make holidays`*)
(* derives a new table.                                                    *)
Resettle ==
    /\ Act
    /\ \E m \in TrainMonths, k \in Kinds, bytes \in {0, 2} :
         /\ bytes # settled[m][k]
         /\ settled' = [settled EXCEPT ![m][k] = bytes]
         /\ \E other \in Kinds : settled'[m][other] # 0
    /\ UNCHANGED <<reference, sources, build, online, fill>>

Rederive ==
    /\ Act
    /\ reference' = reference + 1
    /\ UNCHANGED <<settled, sources, build, online, fill>>

(* Nothing published yet, or published, or published and materialized.     *)
Published == [view \in Views |->
                IF view \in Static THEN [reference |-> 1] ELSE Built(settled, TrainMonths)]
StoreInit ==
    /\ settled \in Settled0
    /\ reference = 1
    /\ sources \in {[view \in Views |-> NoSource], Published}
    /\ build = NoBuild
    /\ LET empty == [view \in Views |-> [k \in KeysOf(view) |-> Nothing]]
           filled == [view \in Views |-> [k \in KeysOf(view) |-> Join(Rows(view), k, HeldOut)]]
       IN online \in IF AllReadable THEN {empty, filled} ELSE {empty}
    /\ fill = NoFill
    /\ acts = 0

StoreNext ==
    \/ \E months \in SUBSET TrainMonths : BuildSources(months)
    \/ FitSources \/ WriteSource \/ KillBuild
    \/ Materialize \/ FillView \/ KillFill
    \/ Resettle \/ Rederive

---------------------------------------------------------------------------
(* Whatever months a source was fitted on, the join answers a row of any   *)
(* month with all its trips before that month and with none of that month  *)
(* or after it; on all the train months that is the value the feature path *)
(* gives, for the kinds of trips no test row has, too.                     *)
PointInTime ==
    \A view \in Windowed : Readable(sources[view]) =>
        LET content == sources[view]
            tables == Fit(content.trips, content.months)
        IN \A m \in Months, k \in Kinds :
             LET value == Value(Join(WindowRows(content), k, m))
             IN /\ value = FitWindow(content.trips, History(content.months, m))[k]
                /\ content.months = TrainMonths => value = Transform(tables, k, m)

(* A materialization that ends over the sources it took its window from    *)
(* leaves the newest row of every key they have in the store.              *)
Newest(view, k) == Join(Rows(view), k, HeldOut)
RefillIsWhole ==
    [][Len(fill.left) = 1 /\ fill.alone /\ AllReadable /\ fill' = NoFill /\ acts' = acts
       => \A view \in Views : \A k \in KeysOf(view) :
            Newest(view, k) # {} => online'[view][k] = Newest(view, k)]_stores

=============================================================================
