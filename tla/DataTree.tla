------------------------------ MODULE DataTree ------------------------------
(***************************************************************************)
(* The data path up to the files every reader shares: `make ingest` and    *)
(* `make ingest-scoring` (taxi_mlops.data: download, contract, clean,      *)
(* ingest).  A month's raw file is acquired and pinned by its checksum,    *)
(* refused or cleaned, and then written as three files in turn: the kept   *)
(* rows, the rejection report beside them and the sidecar of dropped rows. *)
(* The manifest of pins is read once when a run starts and saved once when *)
(* it ends, refused or not; a run that is killed saves nothing.            *)
(*                                                                         *)
(* A raw file is its bytes, a member of Bytes or Truncated (a download cut *)
(* short: urllib's sized reads end quietly), and a derived file is the     *)
(* bytes it was derived from, since the writers are deterministic.  Each   *)
(* row of a month is the set of rejection rules it violates.  The writers' *)
(* .part files are left out: a rename publishes a file whole, and a .part  *)
(* left by a kill is overwritten.  One ingest runs at a time: nothing in   *)
(* the code enforces it, but two would share the .part names.              *)
(***************************************************************************)
EXTENDS Integers, Sequences, FiniteSets, SequencesExt

CONSTANTS
    Train, HeldOut, Scoring,  \* the configured months, a set each
    Named,          \* the months an operator names with --month
    Bytes,          \* what a source file may hold
    Original,       \* the bytes the source first publishes
    RowsOf,         \* the rows of a file: a sequence of sets of rules
    Rules,          \* the rejection rules, in their configured order
    Strange,        \* bytes with a column the contract misses or lacks
    Ceiling,        \* max_rejected_fraction, in percent
    MaxFaults,      \* bound on failed or cut downloads and on kills
    MaxChanges      \* bound on backfills and deletions of raw files

Splits == Train \cup HeldOut
Months == Splits \cup Scoring
Truncated == "truncated"
NoFile == "no file"

VARIABLES
    upstream,   \* the bytes the source offers for each month
    raw,        \* data/raw
    pins,       \* data/raw_manifest.json
    kept,       \* the cleaned rows of each month, in its own tree
    report,     \* the rejection report beside them
    sidecar,    \* the rejected rows
    ingest,     \* the ingest run: step, months left, its copy of the pins
    drifted,    \* the months the last run refused as drifted: one at most
    faults, changes

treeVars == <<upstream, raw, pins, kept, report, sidecar, ingest, drifted,
              faults, changes>>

-----------------------------------------------------------------------------
(* clean: every row no rule matches is kept; a dropped one is attributed   *)
(* to the first rule it violates.                                          *)
Kept == [bytes \in Bytes |->
    Cardinality({i \in DOMAIN RowsOf[bytes] : RowsOf[bytes][i] = {}})]

FirstRule(row) == Rules[CHOOSE i \in DOMAIN Rules :
                            /\ Rules[i] \in row
                            /\ \A j \in 1 .. i - 1 : Rules[j] \notin row]

Rejected(bytes, rule) ==
    Cardinality({i \in DOMAIN RowsOf[bytes] :
                    /\ RowsOf[bytes][i] # {}
                    /\ FirstRule(RowsOf[bytes][i]) = rule})

Counts == [bytes \in Bytes |-> [rule \in Range(Rules) |-> Rejected(bytes, rule)]]

RejectedRows(bytes) == Len(RowsOf[bytes]) - Kept[bytes]

(* RejectionThresholdError: a month that thin is a broken input.           *)
TooThin(bytes) == 100 * RejectedRows(bytes) > Ceiling * Len(RowsOf[bytes])

(* The months already in place were ingested as they are; and what the     *)
(* counts of a month can tell apart, for its totals need not.              *)
ASSUME TreeAssumption ==
    /\ Train \cap HeldOut = {} /\ Splits \cap Scoring = {}
    /\ Named \subseteq Months
    /\ IsFiniteSet(Months)
    /\ Original \in Bytes \ Strange /\ Strange \subseteq Bytes
    /\ ~TooThin(Original)
    /\ Truncated \notin Bytes /\ NoFile \notin Bytes
    /\ \A b, c \in Bytes \ Strange : b # c =>
          /\ TooThin(b) \/ TooThin(c) \/ Kept[b] # Kept[c]
          /\ TooThin(b) \/ TooThin(c) \/ Counts[b] # Counts[c]
    /\ MaxFaults \in Nat /\ MaxChanges \in Nat

NoPins == [m \in Months |-> NoFile]
AtRest == [step |-> "idle", todo |-> <<>>, held |-> NoPins]
Idle == ingest.step = "idle"
Month == Head(ingest.todo)

(* Nothing yet, or every month in place; the raw files may be absent.      *)
TreeInit ==
    /\ upstream = [m \in Months |-> Original]
    /\ \E pinned, there \in {NoFile, Original} :
          /\ there # NoFile => pinned = there
          /\ pins = [m \in Months |-> pinned]
          /\ raw = [m \in Months |-> there]
          /\ kept = pins /\ report = pins /\ sidecar = pins
    /\ ingest = AtRest
    /\ drifted = {}
    /\ faults = 0 /\ changes = 0

(* The work list: the configured months of one list, or one named month.   *)
WorkLists == {SetToSeq(Splits), SetToSeq(Scoring)} \cup {<<m>> : m \in Named}

Ingest(months) ==
    /\ Idle
    /\ months # <<>>
    /\ ingest' = [step |-> "acquire", todo |-> months, held |-> pins]
    /\ drifted' = {}
    /\ UNCHANGED <<upstream, raw, pins, kept, report, sidecar, faults, changes>>

(* A run that raises still saves the manifest, in its `finally`.           *)
Refuse(how) ==
    /\ ingest' = [ingest EXCEPT !.step = "save"]
    /\ drifted' = IF how = "drift" THEN {Month} ELSE {}

(* ensure_month, once the file is there: its checksum against the pin.     *)
CheckPin(bytes) ==
    IF ingest.held[Month] \notin {NoFile, bytes}
    THEN Refuse("drift")
    ELSE /\ ingest' = [ingest EXCEPT !.held[Month] = bytes, !.step = "read"]
         /\ UNCHANGED drifted

(* Faulty variant: it pins what it is yet to check.                        *)
AdoptPresent ==
    /\ ingest.step = "acquire"
    /\ raw[Month] # NoFile
    /\ ingest' = [ingest EXCEPT !.held[Month] = raw[Month], !.step = "read"]
    /\ UNCHANGED <<upstream, raw, pins, kept, report, sidecar, drifted, faults,
                   changes>>

AcquirePresent ==
    /\ ingest.step = "acquire"
    /\ raw[Month] # NoFile
    /\ CheckPin(raw[Month])
    /\ UNCHANGED <<upstream, raw, pins, kept, report, sidecar, faults, changes>>

(* _fetch: all its attempts, one of which delivers, perhaps cut short.     *)
Download ==
    /\ ingest.step = "acquire"
    /\ raw[Month] = NoFile
    /\ \/ /\ raw' = [raw EXCEPT ![Month] = upstream[Month]]
          /\ CheckPin(upstream[Month])
          /\ UNCHANGED faults
       \/ /\ faults < MaxFaults /\ faults' = faults + 1
          /\ raw' = [raw EXCEPT ![Month] = Truncated]
          /\ CheckPin(Truncated)
    /\ UNCHANGED <<upstream, pins, kept, report, sidecar, changes>>

DownloadFailed ==
    /\ ingest.step = "acquire"
    /\ raw[Month] = NoFile
    /\ faults < MaxFaults /\ faults' = faults + 1
    /\ Refuse("failed")
    /\ UNCHANGED <<upstream, raw, pins, kept, report, sidecar, changes>>

(* Faulty variant: an unknown column is announced and let through.         *)
ValidateRows ==
    /\ ingest.step = "read"
    /\ IF raw[Month] = Truncated \/ TooThin(raw[Month])
       THEN Refuse("thin")
       ELSE ingest' = [ingest EXCEPT !.step = "keep"] /\ UNCHANGED drifted
    /\ UNCHANGED <<upstream, raw, pins, kept, report, sidecar, faults, changes>>

(* read_raw, validate_input, clean and validate_output: every refusal      *)
(* comes before anything is written.                                       *)
Validate ==
    /\ ingest.step = "read"
    /\ CASE raw[Month] = Truncated -> Refuse("corrupt")
         [] raw[Month] \in Strange -> Refuse("schema")
         [] raw[Month] \in Bytes \ Strange /\ TooThin(raw[Month]) ->
               Refuse("thin")
         [] OTHER -> /\ ingest' = [ingest EXCEPT !.step = "keep"]
                     /\ UNCHANGED drifted
    /\ UNCHANGED <<upstream, raw, pins, kept, report, sidecar, faults, changes>>

WriteKept ==
    /\ ingest.step = "keep"
    /\ kept' = [kept EXCEPT ![Month] = raw[Month]]
    /\ ingest' = [ingest EXCEPT !.step = "report"]
    /\ UNCHANGED <<upstream, raw, pins, report, sidecar, drifted, faults, changes>>

WriteReport ==
    /\ ingest.step = "report"
    /\ report' = [report EXCEPT ![Month] = raw[Month]]
    /\ ingest' = [ingest EXCEPT !.step = "reject"]
    /\ UNCHANGED <<upstream, raw, pins, kept, sidecar, drifted, faults, changes>>

(* The sidecar last; then the next month.                                  *)
WriteSidecar ==
    /\ ingest.step = "reject"
    /\ sidecar' = [sidecar EXCEPT ![Month] = raw[Month]]
    /\ IF Len(ingest.todo) > 1
       THEN ingest' = [ingest EXCEPT !.step = "acquire", !.todo = Tail(@)]
       ELSE ingest' = [ingest EXCEPT !.step = "save"]
    /\ UNCHANGED <<upstream, raw, pins, kept, report, drifted, faults, changes>>

SaveManifest ==
    /\ ingest.step = "save"
    /\ pins' = ingest.held
    /\ ingest' = AtRest
    /\ UNCHANGED <<upstream, raw, kept, report, sidecar, drifted, faults, changes>>

(* kill -9, or the machine: the `finally` does not run.                    *)
Kill ==
    /\ ~Idle
    /\ faults < MaxFaults /\ faults' = faults + 1
    /\ ingest' = AtRest
    /\ drifted' = {}
    /\ UNCHANGED <<upstream, raw, pins, kept, report, sidecar, changes>>

-----------------------------------------------------------------------------
Change ==
    /\ changes < MaxChanges /\ changes' = changes + 1
    /\ UNCHANGED <<pins, kept, report, sidecar, ingest, drifted, faults>>

(* The source replaces a month in place.                                   *)
Backfill(m) ==
    /\ Change
    /\ \E bytes \in Bytes \ {upstream[m]} :
          upstream' = [upstream EXCEPT ![m] = bytes]
    /\ UNCHANGED raw

(* "Delete the file and re-run to re-download."                            *)
DeleteRaw(m) ==
    /\ Change
    /\ Idle /\ raw[m] # NoFile
    /\ raw' = [raw EXCEPT ![m] = NoFile]
    /\ UNCHANGED upstream

(* "review the change and update data/raw_manifest.json deliberately"      *)
Repin(m) ==
    /\ Idle /\ m \in drifted /\ raw[m] # NoFile
    /\ pins' = [pins EXCEPT ![m] = raw[m]]
    /\ drifted' = {}
    /\ UNCHANGED <<upstream, raw, kept, report, sidecar, ingest, faults, changes>>

TreeNext ==
    \/ \E months \in WorkLists : Ingest(months)
    \/ AcquirePresent
    \/ Download
    \/ DownloadFailed
    \/ Validate
    \/ WriteKept
    \/ WriteReport
    \/ WriteSidecar
    \/ SaveManifest
    \/ Kill
    \/ \E m \in Months : Backfill(m) \/ DeleteRaw(m) \/ Repin(m)

-----------------------------------------------------------------------------
TreeTypeOK ==
    /\ upstream \in [Months -> Bytes]
    /\ raw \in [Months -> Bytes \cup {Truncated, NoFile}]
    /\ pins \in [Months -> Bytes \cup {Truncated, NoFile}]
    /\ kept \in [Months -> (Bytes \ Strange) \cup {NoFile}]
    /\ report \in [Months -> (Bytes \ Strange) \cup {NoFile}]
    /\ sidecar \in [Months -> (Bytes \ Strange) \cup {NoFile}]
    /\ ingest.step \in {"idle", "acquire", "read", "keep", "report", "reject",
                        "save"}
    /\ ingest.todo \in Seq(Months)
    /\ ingest.held \in [Months -> Bytes \cup {Truncated, NoFile}]
    /\ drifted \subseteq Months /\ Cardinality(drifted) <= 1
    /\ faults \in 0 .. MaxFaults /\ changes \in 0 .. MaxChanges

(* Gotcha #6: while the manifest pins a month, no run, after whatever      *)
(* kills, refusals, backfills and re-downloads, writes that month from     *)
(* other bytes than the pinned ones.                                       *)
PinnedBytesStand ==
    [][\A m \in Months :
          /\ kept'[m] # kept[m] => pins[m] \in {NoFile, kept'[m]}
          /\ sidecar'[m] # sidecar[m] => pins[m] \in {NoFile, sidecar'[m]}]_treeVars

(* VIOLATED.  "Nothing was written.  Delete the file and re-run to         *)
(* re-download" (read_raw's refusal of a corrupt file): a run is never     *)
(* refused for drifting from the pin of a file called corrupt.             *)
AdviceMends ==
    \A m \in drifted : Idle /\ raw[m] = upstream[m] => pins[m] # Truncated
=============================================================================
