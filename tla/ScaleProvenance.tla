-------------------------- MODULE ScaleProvenance --------------------------
(***************************************************************************)
(* F-048: the scale a model version's count-scaled knobs were chosen at,   *)
(* kept as tags of the version.  Three writers and readers meet there:     *)
(* run._promote tags what the RUN says, scripts/backfill_version_          *)
(* provenance.py adds what the host's records say (through                 *)
(* registry.record_search_scale), and a retrain reads the champion's tags  *)
(* (retrain._scale_of), or else the host's records, which a pod lacks.     *)
(*                                                                         *)
(* Row counts and round caps are abstracted to "sampled" (some number) and *)
(* NoSearch; what a run's fit really used is TrueScale.                    *)
(***************************************************************************)
EXTENDS Naturals, Sequences

CONSTANTS
    Procs,
    Runs,
    Refits,         \* refits of a sampled search that tagged their run
    LegacyRefits,   \* refits from before F-048: only the host's records know
    MaxJobs,        \* bound on promotions and backfills together
    MaxVersions     \* bound on versions

\* Of the constants; the module that gives them values assumes it.
ProvenanceAssumption ==
    /\ Refits \subseteq Runs /\ LegacyRefits \subseteq Runs
    /\ Refits \cap LegacyRefits = {}
    /\ MaxJobs \in Nat /\ MaxVersions \in Nat

VARIABLES
    versions,   \* sequence of [run, rows, cap, source], Untagged where absent
    champion,   \* version under the alias, 0 if unset
    jobs,       \* started so far
    pc,         \* per process
    at,         \* the version a process works on
    seen,       \* the tags a backfill read of it
    verdicts    \* what each retrain has concluded of the champion: a set

vars == <<versions, champion, jobs, pc, at, seen, verdicts>>

Untagged == "untagged"
NoSearch == "none"
Keys == {"rows", "cap", "source"}
NoTags == [key \in Keys |-> Untagged]
TrueScale(r) == IF r \in Refits \cup LegacyRefits THEN "sampled" ELSE NoSearch

Tags(v) == [key \in Keys |-> versions[v][key]]
VersionsOf(r) == {v \in DOMAIN versions : versions[v].run = r}

(* search_scale_tags: an absent scale is recorded explicitly.              *)
ScaleTags(rows, source) == [rows |-> rows, cap |-> rows, source |-> source]

(* Faulty variant: every run counts as hand-configured.                    *)
HandConfigured(r) == ScaleTags(NoSearch, "run")

(* _search_scale_tags_of: a run without the tags counts as hand-configured.*)
PromotedTags(r) ==
    ScaleTags(IF r \in Refits THEN "sampled" ELSE NoSearch, "run")

(* scale_for_run: from the tracked records, which name every refit.        *)
BackfilledTags(r) == ScaleTags(TrueScale(r), "records")

Init ==
    /\ versions \in {<<>>} \cup
         {<<[run |-> r, rows |-> Untagged, cap |-> Untagged,
             source |-> Untagged]>> : r \in Runs}
    /\ champion = Len(versions)
    /\ jobs = 0
    /\ pc = [p \in Procs |-> "idle"]
    /\ at = [p \in Procs |-> 0]
    /\ seen = [p \in Procs |-> NoTags]
    /\ verdicts = {}

Goto(p, label) == pc' = [pc EXCEPT ![p] = label]

SetTag(v, key, value) == versions' = [versions EXCEPT ![v][key] = value]

Begin(p) ==
    /\ pc[p] = "idle"
    /\ jobs < MaxJobs
    /\ jobs' = jobs + 1

-----------------------------------------------------------------------------
(* registry.promote of a run that passed the gate, from the moment its     *)
(* version exists and carries the tags before the scale.                   *)
Promote(p, r) ==
    /\ Begin(p)
    /\ \/ \E v \in VersionsOf(r) :
             /\ \A w \in VersionsOf(r) : w <= v
             /\ at' = [at EXCEPT ![p] = v]
             /\ UNCHANGED versions
       \/ /\ VersionsOf(r) = {}
          /\ Len(versions) < MaxVersions
          /\ versions' = Append(versions,
                [run |-> r, rows |-> Untagged, cap |-> Untagged,
                 source |-> Untagged])
          /\ at' = [at EXCEPT ![p] = Len(versions) + 1]
    /\ Goto(p, "rows")
    /\ UNCHANGED <<champion, seen, verdicts>>

(* The tags in the order of the dictionary; they are set, whatever the     *)
(* version carries.                                                        *)
PromoteTag(p, key, next) ==
    /\ pc[p] = key
    /\ SetTag(at[p], key, PromotedTags(versions[at[p]].run)[key])
    /\ Goto(p, next)
    /\ UNCHANGED <<champion, jobs, at, seen, verdicts>>

PromoteAlias(p) ==
    /\ pc[p] = "alias"
    /\ champion' = at[p]
    /\ Goto(p, "idle")
    /\ UNCHANGED <<versions, jobs, at, seen, verdicts>>

(* The operator's raw rollback.                                            *)
Rollback(v) ==
    /\ champion' = v
    /\ champion # v
    /\ UNCHANGED <<versions, jobs, pc, at, seen, verdicts>>

-----------------------------------------------------------------------------
(* The backfill: every version in turn, read and then written.             *)
Backfill(p) ==
    /\ Begin(p)
    /\ versions # <<>>
    /\ at' = [at EXCEPT ![p] = 1]
    /\ Goto(p, "read")
    /\ UNCHANGED <<versions, champion, seen, verdicts>>

Conflicts(old, new) == {key \in Keys : old[key] \notin {Untagged, new[key]}}

(* record_search_scale: a conflict refuses, and ends the whole backfill.   *)
BackfillRead(p) ==
    LET old == Tags(at[p])
        new == BackfilledTags(versions[at[p]].run)
    IN  /\ pc[p] = "read"
        /\ seen' = [seen EXCEPT ![p] = old]
        /\ Goto(p, IF Conflicts(old, new) # {} THEN "refused" ELSE "write_cap")
        /\ UNCHANGED <<versions, champion, jobs, at, verdicts>>

(* The missing tags, sorted by key: round cap, rows, source.               *)
BackfillTag(p, label, key, next) ==
    LET wanted == BackfilledTags(versions[at[p]].run)[key]
    IN  /\ pc[p] = label
        /\ IF seen[p][key] = wanted THEN UNCHANGED versions
                                    ELSE SetTag(at[p], key, wanted)
        /\ Goto(p, next)
        /\ UNCHANGED <<champion, jobs, at, seen, verdicts>>

(* Faulty variant: one version too many.                                   *)
BackfillBeyond(p) ==
    /\ pc[p] = "next"
    /\ IF at[p] <= Len(versions)
       THEN at' = [at EXCEPT ![p] = @ + 1] /\ Goto(p, "read")
       ELSE Goto(p, "idle") /\ UNCHANGED at
    /\ UNCHANGED <<versions, champion, jobs, seen, verdicts>>

BackfillNext(p) ==
    /\ pc[p] = "next"
    /\ IF at[p] < Len(versions)
       THEN at' = [at EXCEPT ![p] = @ + 1] /\ Goto(p, "read")
       ELSE Goto(p, "idle") /\ UNCHANGED at
    /\ UNCHANGED <<versions, champion, jobs, seen, verdicts>>

(* A job dies between two calls to the registry, or gave up on a conflict. *)
Stop(p) ==
    /\ pc[p] # "idle"
    /\ Goto(p, "idle")
    /\ UNCHANGED <<versions, champion, jobs, at, seen, verdicts>>

-----------------------------------------------------------------------------
(* Faulty variant: no tag on the version means no search behind it.        *)
ScaleReadByTagOnly(v, where) ==
    LET r == versions[v].rows
    IN  IF r # Untagged THEN Tags(v)
                        ELSE [rows |-> NoSearch, cap |-> NoSearch, source |-> Untagged]

(* _scale_of and read_search_scale: the version first, without its rows    *)
(* tag the host's records, which a pod does not have (RetrainError).  A    *)
(* missing source is reported as one ("source unstated").                  *)
ScaleRead(v, where) ==
    IF versions[v].rows # Untagged
    THEN [rows |-> versions[v].rows,
          cap |-> IF versions[v].rows = NoSearch \/ versions[v].cap = Untagged
                  THEN NoSearch ELSE versions[v].cap,
          source |-> versions[v].source]
    ELSE IF where = "host"
    THEN ScaleTags(TrueScale(versions[v].run), "records")
    ELSE ScaleTags("error", Untagged)

Retrain(where) ==
    /\ champion # 0
    /\ verdicts' = {[run |-> versions[champion].run, where |-> where,
                     read |-> ScaleRead(champion, where)]}
    /\ UNCHANGED <<versions, champion, jobs, pc, at, seen>>

Next ==
    \/ \E p \in Procs :
          \/ \E r \in Runs : Promote(p, r)
          \/ PromoteTag(p, "rows", "cap")
          \/ PromoteTag(p, "cap", "source")
          \/ PromoteTag(p, "source", "alias")
          \/ PromoteAlias(p)
          \/ Backfill(p)
          \/ BackfillRead(p)
          \/ BackfillTag(p, "write_cap", "cap", "write_rows")
          \/ BackfillTag(p, "write_rows", "rows", "write_source")
          \/ BackfillTag(p, "write_source", "source", "next")
          \/ BackfillNext(p)
          \/ Stop(p)
    \/ \E v \in DOMAIN versions : Rollback(v)
    \/ \E where \in {"host", "pod"} : Retrain(where)

Spec == Init /\ [][Next]_vars

-----------------------------------------------------------------------------
TypeOK ==
    /\ versions \in Seq([run : Runs,
                         rows : {Untagged, NoSearch, "sampled"},
                         cap : {Untagged, NoSearch, "sampled"},
                         source : {Untagged, "run", "records"}])
    /\ champion \in 0 .. Len(versions)
    /\ jobs \in 0 .. MaxJobs
    /\ pc \in [Procs -> {"idle", "rows", "cap", "source", "alias", "read",
                         "write_cap", "write_rows", "write_source", "next",
                         "refused"}]
    /\ at \in [Procs -> 0 .. Len(versions)]
    /\ seen \in [Procs -> [Keys -> {Untagged, NoSearch, "sampled", "run",
                                    "records"}]]

(* A retrain that concludes "no sampled search behind this champion" is    *)
(* right, in a pod as on the host: an absence of records never reads as    *)
(* that fact (F-048), whichever writers raced or died half-way.            *)
AbsenceIsNotAFact ==
    \A v \in verdicts : v.read.rows = NoSearch => TrueScale(v.run) = NoSearch

(* A scale is two tags, and a reader may come between them, or after the   *)
(* death of who wrote the first.  But each writer, in its own order, has   *)
(* the source last: rows and cap that are read with a source are both the  *)
(* ones the fit used, whoever wrote which of them.                         *)
StatedScaleIsWhole ==
    \A v \in verdicts : v.read.source # Untagged =>
        v.read.rows = TrueScale(v.run) /\ v.read.cap = TrueScale(v.run)

ProvenanceIsSound == TypeOK /\ AbsenceIsNotAFact /\ StatedScaleIsWhole

(* Provenance never changes its mind: a recorded row count stays.          *)
ScaleNeverChanges ==
    [][\A v \in DOMAIN versions :
          versions[v].rows # Untagged => versions'[v].rows = versions[v].rows]_vars
=============================================================================
