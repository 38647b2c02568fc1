---------------------------- MODULE FeastChecks ----------------------------
(***************************************************************************)
(* What vouches for the feature store of module Feast: the retrieval       *)
(* parity (feast_retrieval.py), the online parity (feast_online_parity.py),*)
(* the server parity (feast_server_parity.py) and the red team of the      *)
(* online parity (feast_online_parity_redteam.sh, online_redteam.py), each *)
(* reading stores that a build or a refill may be writing.                 *)
(***************************************************************************)
EXTENDS Feast

CONSTANTS
    Declared,         \* retrieval_rows.csv: pairs of a kind and a month
    BoundaryKind,     \* of its month-boundary rows
    TargetKind, DonorKind     \* feast_online_pairs.redteam_pair

(* The pair that is tampered with is one of a declared row.                *)
ASSUME ChecksAssumption ==
    TargetKind \in Kinds /\ TargetKind \in {row[1] : row \in Declared}

VARIABLES
    check,      \* the comparison under way: [of, got, asOf]
    verdict,    \* the last one of each comparison
    drill       \* the red team: [at, saved]

Checks == {"retrieval", "online", "server"}
NoCheck == [of |-> "none", got |-> <<>>, asOf |-> 0, quiet |-> TRUE]
NoDrill == [at |-> "idle", saved |-> Nothing]
checks == <<check, verdict, drill>>
vars == <<stores, checks>>

OD == "od_window_stats"
Tampering == drill.at \in {"planted", "restored"}
Drilling == Tampering \/ drill.at \in {"seen", "broken"}

Asked == ~Drilling /\ Act
Begin(of, asOf) ==
    /\ check = NoCheck
    /\ check' = [of |-> of, got |-> <<>>, asOf |-> asOf, quiet |-> TRUE]
    /\ UNCHANGED <<data, sources, build, online, fill, verdict, drill>>
Take(reading) ==
    /\ check' = [check EXCEPT !.got = Append(@, reading)]
    /\ UNCHANGED <<stores, verdict, drill>>

(* What the red team makes of a parity run: red in the planted column and  *)
(* nowhere else while the plant is there, green once it is not.            *)
(* Faulty variant: the bytes it put back are all it looks at.              *)
HeardBytesOnly(failing) ==
    IF drill.at = "restored" THEN "passed"
    ELSE IF failing = {OD} THEN "seen" ELSE "broken"
Heard(failing) ==
    IF drill.at = "restored" THEN IF failing = {} THEN "passed" ELSE "failed"
    ELSE IF failing = {OD} THEN "seen" ELSE "broken"

(* The red team's parity runs write no record.                             *)
Conclude(failing) ==
    /\ check' = NoCheck
    /\ IF Tampering
       THEN /\ drill' = [drill EXCEPT !.at = Heard(failing)]
            /\ UNCHANGED verdict
       ELSE /\ verdict' = [verdict EXCEPT ![check.of] = IF failing = {} THEN "passed" ELSE "failed"]
            /\ UNCHANGED drill
    /\ UNCHANGED stores

(* A reader of a missing or torn parquet raises and says nothing.          *)
Raise ==
    /\ check.of \in {"retrieval", "online"} /\ ~AllReadable
    /\ check' = NoCheck
    /\ drill' = IF Tampering THEN [drill EXCEPT !.at = Heard(Views)] ELSE drill
    /\ UNCHANGED <<stores, verdict>>

---------------------------------------------------------------------------
(* feast_retrieval.py                                                      *)

(* retrieve.py answers for every view out of the quarantine.               *)
Retrieve == Asked /\ Begin("retrieval", HeldOut)
ReadAnswers == check.of = "retrieval" /\ check.got = <<>> /\ AllReadable /\ Take(sources)

(* _answers: by row and its instant; the naive pass is asked as of the end *)
(* of the last train month.                                                *)
Honest(read, view, row) == Value(Join(WindowRows(read[view]), row[1], row[2]))
Naive(read, view, row) == Value(Join(WindowRows(read[view]), row[1], HeldOut))

(* our_truth fits the aggregates again from the settled trees.             *)
Truth == Fit(settled, TrainMonths)

(* compare: both missing agree, one missing is a mismatch.                 *)
Agrees(read, view) ==
    \A row \in Declared : Honest(read, view, row) = Transform(Truth, row[1], row[2])
StaticAgrees(read, view) == read[view].reference = reference

(* explain_shortfall: a row the join dropped is accounted for only when it *)
(* is earlier than every row of the source.                                *)
Unexplained(read, view) ==
    {row \in Declared :
        /\ Honest(read, view, row) = {}
        /\ \E known \in Rows(view) : known.stamp <= row[2]}

(* pit_proof: the naive join is the full window, differs from the honest   *)
(* one somewhere, and no month boundary has one window on both sides.      *)
NaiveIsFull(read) ==
    \A row \in Declared : Naive(read, "od_window_stats", row) = Truth.full[row[1]]
LeaksSomewhere(read) ==
    \E row \in Declared : \E view \in Windowed :
        /\ Honest(read, view, row) # {} /\ Naive(read, view, row) # {}
        /\ Honest(read, view, row) # Naive(read, view, row)
WindowOf(read, row) ==
    {known.stamp : known \in Join(WindowRows(read["od_window_stats"]), row[1], row[2])}
BoundariesDiffer(read) ==
    \A m \in TrainMonths :
        WindowOf(read, <<BoundaryKind, m>>) # WindowOf(read, <<BoundaryKind, m + 1>>)

JudgeRetrieval ==
    /\ check.of = "retrieval" /\ check.got # <<>> /\ AllReadable
    /\ LET read == check.got[1]
           unexplained == \E view \in Windowed : Unexplained(read, view) # {}
           proven == NaiveIsFull(read) /\ LeaksSomewhere(read) /\ BoundariesDiffer(read)
       IN Conclude(IF unexplained \/ ~proven THEN Views
                   ELSE {view \in Windowed : ~Agrees(read, view)}
                        \cup {view \in Static : ~StaticAgrees(read, view)})

---------------------------------------------------------------------------
(* feast_online_parity.py and feast_server_parity.py                       *)

DeclaredKeys(view) ==
    IF view \in Windowed THEN {row[1] : row \in Declared} ELSE StaticKeys

(* The offline half is asked as of the end of the materialization window.  *)
Compare ==
    /\ AllReadable
    /\ IF Tampering THEN UNCHANGED acts ELSE Asked
    /\ Begin("online", SourceWindow)
ReadOnline == check.of = "online" /\ check.got = <<>> /\ Take(online)
ReadOffline ==
    /\ check.of = "online" /\ Len(check.got) = 1 /\ AllReadable
    /\ Take([view \in Views |-> [k \in DeclaredKeys(view) |-> Join(Rows(view), k, check.asOf)]])

(* seam_parity over every view, feature_path_anchor over the static ones:  *)
(* the window views have an inherited anchor.                              *)
Anchored(answers, view) ==
    view \in Static => \A k \in StaticKeys :
        Value(answers[view][k]) = IF k = "known" THEN {reference} ELSE {}
JudgeOnline ==
    /\ check.of = "online" /\ Len(check.got) = 2
    /\ LET there == check.got[1]
           here == check.got[2]
       IN Conclude({view \in Views :
                       \/ ~Anchored(there, view)
                       \/ \E k \in DeclaredKeys(view) : Value(there[view][k]) # Value(here[view][k])})

(* The feature server is asked for the static views alone.                 *)
AskServer == Asked /\ Begin("server", 0)
JudgeServer ==
    /\ check.of = "server"
    /\ Conclude({view \in Static : ~Anchored(online, view)})

---------------------------------------------------------------------------
(* feast_online_parity_redteam.sh and online_redteam.py                    *)

Put(rows) == online' = [online EXCEPT ![OD][TargetKind] = rows]

(* plant refuses a store without the pair, and bytes that change nothing.  *)
Plant ==
    /\ check = NoCheck /\ ~Drilling
    /\ Act
    /\ LET before == Lookup(OD, TargetKind)
           donor == Lookup(OD, DonorKind)
       IN IF before = Nothing \/ donor = Nothing \/ donor = before
          THEN drill' = [at |-> "failed", saved |-> Nothing] /\ UNCHANGED <<online, fill>>
          ELSE drill' = [at |-> "planted", saved |-> before] /\ Put(donor) /\ Disturb
    /\ UNCHANGED <<data, sources, build, check, verdict>>

(* restore, and the trap that restores when the drill stops early.         *)
Restore ==
    /\ drill.at \in {"seen", "broken"}
    /\ Put(drill.saved) /\ Disturb
    /\ drill' = [at |-> IF drill.at = "seen" THEN "restored" ELSE "failed", saved |-> Nothing]
    /\ UNCHANGED <<data, sources, build, acts, check, verdict>>

(* Killed outright: no trap runs and the saved bytes are in a lost file.   *)
KillDrill ==
    /\ Drilling
    /\ Act
    /\ drill' = [at |-> "killed", saved |-> Nothing]
    /\ check' = NoCheck
    /\ UNCHANGED <<data, sources, build, online, fill, verdict>>

Init ==
    /\ StoreInit
    /\ check = NoCheck
    /\ verdict = [of \in Checks |-> "none"]
    /\ drill = NoDrill

(* Whether anything writes the stores while a comparison is under way.     *)
Meanwhile(A) ==
    /\ A
    /\ check' = [check EXCEPT !.quiet = (check = NoCheck) \/ (@ /\ sources' = sources /\ online' = online)]
    /\ UNCHANGED <<verdict, drill>>

Next ==
    \/ Meanwhile(StoreNext)
    \/ Retrieve \/ ReadAnswers \/ JudgeRetrieval
    \/ Compare \/ ReadOnline \/ ReadOffline \/ JudgeOnline
    \/ AskServer \/ JudgeServer \/ Raise
    \/ Plant \/ Restore \/ KillDrill

Spec == Init /\ [][Next]_vars

---------------------------------------------------------------------------
(* A red team that says PASSED leaves the tampered pair as the sources     *)
(* publish it, a refill that ran between its plant and its restore, whose  *)
(* rows the restore wrote over, included; only what is written while its   *)
(* last parity run reads is left open.                                     *)
DrillLeavesTheTruth ==
    [][drill.at = "restored" /\ drill'.at = "passed" /\ check.quiet
       => Value(online[OD][TargetKind]) = Value(Newest(OD, TargetKind))]_vars

=============================================================================
