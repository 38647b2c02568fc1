---------------------------- MODULE AnalystProofs ----------------------------
(***************************************************************************)
(* Proofs about Analyst and the data tree under it, for every calendar of  *)
(* months, every set of versions, whatever the source files hold, and      *)
(* every number of faults and changes.                                     *)
(***************************************************************************)
EXTENDS Analyst, FiniteSetTheorems, SequenceTheorems, TLAPS

(* What an ingest lets through.                                            *)
Good == {bytes \in Bytes \ Strange : ~TooThin(bytes)}
Derived == Good \cup {NoFile}
Files == Bytes \cup {Truncated, NoFile}

TreeTyped ==
    /\ upstream \in [Months -> Bytes]
    /\ raw \in [Months -> Files] /\ pins \in [Months -> Files]
    /\ kept \in [Months -> Derived] /\ report \in [Months -> Derived]
    /\ sidecar \in [Months -> Derived]
    /\ ingest \in [step : {"idle", "acquire", "read", "keep", "report", "reject",
                           "save"},
                   todo : Seq(Months), held : [Months -> Files]]
    /\ drifted = {} \/ \E m \in Months : drifted = {m}
    /\ faults \in 0 .. MaxFaults /\ changes \in 0 .. MaxChanges

(* A run's copy of the pins only adds to those saved; the month it is at   *)
(* is the one it checked, and is written only when it may be.              *)
IngestKnows ==
    /\ ingest.step \in {"acquire", "read", "keep", "report", "reject"} =>
          ingest.todo # <<>>
    /\ ~Idle => \A m \in Months : pins[m] \in {NoFile, ingest.held[m]}
    /\ ingest.step \in {"read", "keep", "report", "reject"} =>
          ingest.held[Month] = raw[Month] /\ raw[Month] # NoFile
    /\ ingest.step \in {"keep", "report", "reject"} => raw[Month] \in Good

TInv == TreeTyped /\ IngestKnows

Fitted == [Train -> Good]

PubTyped ==
    pub \in [step : {"idle", "load", "floor", "read", "months", "open", "close"},
             todo : Seq(Published), label : Versions \cup {0},
             by : Versions \cup {0}, floor : {NoFloor, Overridden} \cup Fitted,
             read : [Months -> Derived]]

(* A publish is of held-out months or of scoring months, and what it has   *)
(* checked still holds of what it carries.                                 *)
ForHeldOut == pub.todo \in Seq(HeldOut)
PubKnows ==
    /\ pub.step # "idle" =>
          /\ pub.todo # <<>> /\ pub.label \in Versions
          /\ ForHeldOut \/ pub.todo \in Seq(Scoring)
          /\ ~ForHeldOut => pub.floor = NoFloor
    /\ pub.step \in {"floor", "read", "months", "open", "close"} => pub.by \in Versions
    /\ pub.step = "floor" => ForHeldOut
    /\ pub.step = "months" => ~ForHeldOut
    /\ pub.step \in {"months", "open", "close"} =>
          pub.label = pub.by /\ (ForHeldOut => pub.floor = FloorTag.fit)
    /\ pub.step \in {"open", "close"} =>
          \A i \in 1 .. Len(pub.todo) : pub.read[pub.todo[i]] \in Good

RowKinds == {Unwritten(NoFile), Unwritten(Torn)} \cup
            [of : Good, label : Versions, by : Versions,
             floor : {NoFloor} \cup [Train -> Bytes]]

PInv ==
    /\ champion \in Versions
    /\ rows \in [Published -> RowKinds]
    /\ PubTyped /\ PubKnows /\ RowsBearTheirModel

AInv == TInv /\ PInv

-----------------------------------------------------------------------------
(* The list of a finite set holds members of the set, some if it has any.  *)
LEMMA WorkList ==
    ASSUME NEW S, IsFiniteSet(S)
    PROVE  SetToSeq(S) \in Seq(S) /\ (S # {} => SetToSeq(S) # <<>>)
  <1>. DEFINE n == Cardinality(S)
  <1>1. n \in Nat /\ ExistsBijection(1 .. n, S)
    BY FS_CardinalityType
  <1>2. PICK f \in [1 .. n -> S] : IsInjective(f)
    BY <1>1 DEF ExistsBijection, Bijection, Injection
  <1>3. SetToSeq(S) \in [1 .. n -> S]
    BY <1>2 DEF SetToSeq
  <1>4. SetToSeq(S) \in Seq(S) /\ Len(SetToSeq(S)) = n
    BY <1>1, <1>3
  <1>5. S # {} => n # 0
    BY FS_EmptySet
  <1>. QED
    BY <1>4, <1>5

LEMMA GoodFiles ==
    ASSUME TreeAssumption
    PROVE  /\ Original \in Good /\ Good \subseteq Bytes
           /\ Truncated \notin Bytes /\ NoFile \notin Bytes
           /\ Truncated # NoFile /\ NoFile \notin Good
  BY DEF TreeAssumption, Good, Truncated, NoFile

LEMMA InitTree ==
    ASSUME TreeAssumption, TreeInit
    PROVE  TInv
  <1>1. PICK pinned \in {NoFile, Original}, there \in {NoFile, Original} :
            /\ pins = [m \in Months |-> pinned]
            /\ raw = [m \in Months |-> there]
            /\ kept = pins /\ report = pins /\ sidecar = pins
    BY DEF TreeInit
  <1>2. /\ ingest = AtRest /\ drifted = {} /\ faults = 0 /\ changes = 0
        /\ upstream = [m \in Months |-> Original]
    BY DEF TreeInit
  <1>3. AtRest \in [step : {"idle", "acquire", "read", "keep", "report", "reject",
                            "save"},
                    todo : Seq(Months), held : [Months -> Files]]
        /\ AtRest.step = "idle"
    BY DEF AtRest, NoPins, Files
  <1>4. 0 \in 0 .. MaxFaults /\ 0 \in 0 .. MaxChanges
    BY DEF TreeAssumption
  <1>5. TreeTyped
    BY <1>1, <1>2, <1>3, <1>4, GoodFiles DEF TreeTyped, Derived, Files
  <1>6. IngestKnows
    BY <1>2, <1>3 DEF IngestKnows, Idle
  <1>. QED
    BY <1>5, <1>6 DEF TInv

-----------------------------------------------------------------------------
(* The ingest, a step at a time.                                           *)

LEMMA IngestBegins ==
    ASSUME TreeAssumption, TInv, NEW months \in WorkLists, Ingest(months)
    PROVE  TInv'
  <1>1. /\ Idle /\ months # <<>>
        /\ ingest' = [step |-> "acquire", todo |-> months, held |-> pins]
        /\ drifted' = {}
        /\ UNCHANGED <<upstream, raw, pins, kept, report, sidecar, faults, changes>>
    BY DEF Ingest
  <1>2. IsFiniteSet(Splits) /\ IsFiniteSet(Scoring)
    BY FS_Subset DEF TreeAssumption, Months
  <1>3. SetToSeq(Splits) \in Seq(Splits) /\ SetToSeq(Scoring) \in Seq(Scoring)
    BY <1>2, WorkList
  <1>4. SetToSeq(Splits) \in Seq(Months) /\ SetToSeq(Scoring) \in Seq(Months)
    BY <1>3 DEF Months
  <1>5. \A m \in Named : <<m>> \in Seq(Months)
    BY DEF TreeAssumption
  <1>6. months \in Seq(Months)
    BY <1>4, <1>5 DEF WorkLists
  <1>7. TreeTyped'
    BY <1>1, <1>6 DEF TInv, TreeTyped
  <1>8. IngestKnows'
    BY <1>1, <1>6 DEF IngestKnows, Idle, TInv, TreeTyped
  <1>. QED
    BY <1>7, <1>8 DEF TInv

(* The month a run is at is a month.                                       *)
LEMMA AtAMonth ==
    ASSUME TInv, ingest.step \in {"acquire", "read", "keep", "report", "reject"}
    PROVE  /\ Month \in Months
           /\ ingest.todo \in Seq(Months) /\ ingest.held \in [Months -> Files]
  BY HeadTailProperties DEF TInv, TreeTyped, IngestKnows, Month

(* A run that is refused keeps its copy of the pins, to be saved.          *)
LEMMA Refused ==
    ASSUME TreeAssumption, TInv, NEW how, Refuse(how),
           ingest.step \in {"acquire", "read"},
           UNCHANGED <<upstream, pins, kept, report, sidecar, changes>>,
           raw' \in [Months -> Files], faults' \in 0 .. MaxFaults
    PROVE  TInv'
  <1>1. /\ ingest' = [ingest EXCEPT !.step = "save"]
        /\ drifted' = {} \/ drifted' = {Month}
    BY DEF Refuse
  <1>2. Month \in Months
    BY AtAMonth
  <1>3. TreeTyped'
    BY <1>1, <1>2 DEF TInv, TreeTyped
  <1>4. IngestKnows'
    BY <1>1 DEF IngestKnows, TInv, TreeTyped, Idle
  <1>. QED
    BY <1>3, <1>4 DEF TInv

(* A month whose checksum is that of its pin, or that had none.            *)
LEMMA Acquired ==
    ASSUME TreeAssumption, TInv, NEW bytes \in Bytes \cup {Truncated},
           ingest.step = "acquire", CheckPin(bytes),
           raw' \in [Months -> Files], raw'[Month] = bytes, faults' \in 0 .. MaxFaults,
           UNCHANGED <<upstream, pins, kept, report, sidecar, changes>>
    PROVE  TInv'
  <1>1. CASE ingest.held[Month] \notin {NoFile, bytes}
    BY <1>1, Refused DEF CheckPin
  <1>2. CASE ingest.held[Month] \in {NoFile, bytes}
    <2>1. ingest' = [ingest EXCEPT !.held[Month] = bytes, !.step = "read"]
          /\ drifted' = drifted
      BY <1>2 DEF CheckPin
    <2>2. Month \in Months /\ ingest.held \in [Months -> Files] /\ bytes \in Files
      BY AtAMonth DEF Files
    <2>3. /\ ingest'.step = "read" /\ ingest'.todo = ingest.todo
          /\ ingest'.held = [ingest.held EXCEPT ![Month] = bytes]
          /\ ingest' \in [step : {"idle", "acquire", "read", "keep", "report",
                                  "reject", "save"},
                          todo : Seq(Months), held : [Months -> Files]]
      BY <2>1, <2>2 DEF TInv, TreeTyped
    <2>4. TreeTyped'
      BY <2>1, <2>3 DEF TInv, TreeTyped
    <2>5. \A m \in Months : pins'[m] \in {NoFile, ingest'.held[m]}
      BY <1>2, <2>2, <2>3 DEF TInv, IngestKnows, Idle
    <2>6. ingest'.held[Month'] = raw'[Month'] /\ raw'[Month'] # NoFile
      BY <2>2, <2>3, GoodFiles DEF Month
    <2>7. IngestKnows'
      BY <2>3, <2>5, <2>6 DEF IngestKnows, TInv
    <2>. QED
      BY <2>4, <2>7 DEF TInv
  <1>. QED
    BY <1>1, <1>2

LEMMA Acquires ==
    ASSUME TreeAssumption, TInv, AcquirePresent \/ Download \/ DownloadFailed
    PROVE  TInv'
  <1>0. Month \in Months /\ raw \in [Months -> Files] /\ upstream \in [Months -> Bytes]
        /\ ingest.step = "acquire" /\ faults \in 0 .. MaxFaults
    BY AtAMonth DEF AcquirePresent, Download, DownloadFailed, TInv, TreeTyped
  <1>1. CASE AcquirePresent
    <2>1. raw[Month] \in Bytes \cup {Truncated} /\ CheckPin(raw[Month])
      BY <1>0, <1>1 DEF AcquirePresent, Files
    <2>2. UNCHANGED <<upstream, raw, pins, kept, report, sidecar, faults, changes>>
      BY <1>1 DEF AcquirePresent
    <2>. QED
      BY <1>0, <2>1, <2>2, Acquired
  <1>2. CASE Download
    <2>1. UNCHANGED <<upstream, pins, kept, report, sidecar, changes>>
      BY <1>2 DEF Download
    <2>2. CASE raw' = [raw EXCEPT ![Month] = upstream[Month]]
               /\ CheckPin(upstream[Month]) /\ UNCHANGED faults
      <3>1. raw' \in [Months -> Files] /\ raw'[Month] = upstream[Month]
            /\ upstream[Month] \in Bytes \cup {Truncated}
        BY <1>0, <2>2 DEF Files
      <3>. QED
        BY <1>0, <2>1, <2>2, <3>1, Acquired
    <2>3. CASE /\ faults < MaxFaults /\ faults' = faults + 1
               /\ raw' = [raw EXCEPT ![Month] = Truncated] /\ CheckPin(Truncated)
      <3>1. raw' \in [Months -> Files] /\ raw'[Month] = Truncated
        BY <1>0, <2>3 DEF Files
      <3>2. faults' \in 0 .. MaxFaults
        BY <1>0, <2>3 DEF TreeAssumption
      <3>. QED
        BY <1>0, <2>1, <2>3, <3>1, <3>2, Acquired
    <2>. QED
      BY <1>2, <2>2, <2>3 DEF Download
  <1>3. CASE DownloadFailed
    <2>1. faults' \in 0 .. MaxFaults
      BY <1>0, <1>3 DEF DownloadFailed, TreeAssumption
    <2>. QED
      BY <1>0, <1>3, <2>1, Refused DEF DownloadFailed
  <1>. QED
    BY <1>1, <1>2, <1>3

LEMMA Validates ==
    ASSUME TreeAssumption, TInv, Validate
    PROVE  TInv'
  <1>1. /\ ingest.step = "read"
        /\ UNCHANGED <<upstream, raw, pins, kept, report, sidecar, faults, changes>>
    BY DEF Validate
  <1>2. /\ Month \in Months /\ raw \in [Months -> Files] /\ raw[Month] # NoFile
        /\ faults \in 0 .. MaxFaults
    BY <1>1, AtAMonth DEF TInv, TreeTyped, IngestKnows
  <1>3. CASE \E how \in {"corrupt", "schema", "thin"} : Refuse(how)
    BY <1>1, <1>2, <1>3, Refused
  <1>4. CASE /\ raw[Month] # Truncated /\ raw[Month] \notin Strange
             /\ ~TooThin(raw[Month])
             /\ ingest' = [ingest EXCEPT !.step = "keep"] /\ UNCHANGED drifted
    <2>1. raw[Month] \in Good
      BY <1>2, <1>4 DEF Good, Files
    <2>2. TreeTyped'
      BY <1>1, <1>4 DEF TInv, TreeTyped
    <2>3. /\ ingest'.step = "keep" /\ ingest'.todo = ingest.todo
          /\ ingest'.held = ingest.held
      BY <1>4 DEF TInv, TreeTyped
    <2>4. IngestKnows'
      BY <1>1, <2>1, <2>3 DEF IngestKnows, TInv, Month, Idle
    <2>. QED
      BY <2>2, <2>4 DEF TInv
  <1>5. raw[Month] \notin Strange /\ raw[Month] # Truncated
           => raw[Month] \in Bytes \ Strange
    BY <1>2 DEF Files
  <1>. QED
    BY <1>3, <1>4, <1>5 DEF Validate

LEMMA Writes ==
    ASSUME TreeAssumption, TInv, WriteKept \/ WriteReport \/ WriteSidecar
    PROVE  TInv'
  <1>1. /\ Month \in Months /\ raw[Month] \in Good /\ ingest.todo \in Seq(Months)
        /\ ingest.todo # <<>> /\ ~Idle
    BY AtAMonth DEF WriteKept, WriteReport, WriteSidecar, TInv, IngestKnows, Idle
  <1>2. UNCHANGED <<upstream, raw, pins, drifted, faults, changes>>
    BY DEF WriteKept, WriteReport, WriteSidecar
  <1>3. /\ kept' \in [Months -> Derived] /\ report' \in [Months -> Derived]
        /\ sidecar' \in [Months -> Derived]
    BY <1>1 DEF WriteKept, WriteReport, WriteSidecar, TInv, TreeTyped, Derived
  <1>4. CASE ingest' = [ingest EXCEPT !.step = "report"]
             \/ ingest' = [ingest EXCEPT !.step = "reject"]
    <2>1. TreeTyped'
      BY <1>2, <1>3, <1>4 DEF TInv, TreeTyped
    <2>2. /\ ingest'.step \in {"report", "reject"} /\ ingest'.todo = ingest.todo
          /\ ingest'.held = ingest.held
      BY <1>4 DEF TInv, TreeTyped
    <2>3. ingest.step \in {"keep", "report"}
      BY ZenonT(60), <1>4, <2>2 DEF WriteKept, WriteReport, WriteSidecar, TInv, TreeTyped
    <2>4. IngestKnows'
      BY <1>1, <1>2, <2>2, <2>3 DEF IngestKnows, TInv, Month, Idle
    <2>. QED
      BY <2>1, <2>4 DEF TInv
  <1>5. CASE Len(ingest.todo) > 1
             /\ ingest' = [ingest EXCEPT !.step = "acquire", !.todo = Tail(@)]
    <2>1. Tail(ingest.todo) \in Seq(Months) /\ Tail(ingest.todo) # <<>>
      BY <1>1, <1>5, HeadTailProperties
    <2>2. /\ ingest'.step = "acquire" /\ ingest'.todo = Tail(ingest.todo)
          /\ ingest'.held = ingest.held
      BY <1>5 DEF TInv, TreeTyped
    <2>3. TreeTyped'
      BY <1>2, <1>3, <1>5, <2>1 DEF TInv, TreeTyped
    <2>4. IngestKnows'
      BY <1>1, <1>2, <2>1, <2>2 DEF IngestKnows, TInv, Idle
    <2>. QED
      BY <2>3, <2>4 DEF TInv
  <1>6. CASE ingest' = [ingest EXCEPT !.step = "save"]
    <2>1. TreeTyped'
      BY <1>2, <1>3, <1>6 DEF TInv, TreeTyped
    <2>2. ingest'.step = "save" /\ ingest'.held = ingest.held
      BY <1>6 DEF TInv, TreeTyped
    <2>3. IngestKnows'
      BY <1>1, <1>2, <2>2 DEF IngestKnows, TInv, Idle
    <2>. QED
      BY <2>1, <2>3 DEF TInv
  <1>. QED
    BY <1>4, <1>5, <1>6 DEF WriteKept, WriteReport, WriteSidecar

LEMMA IngestEnds ==
    ASSUME TreeAssumption, TInv, SaveManifest \/ Kill
    PROVE  TInv'
  <1>1. /\ ingest' = AtRest /\ UNCHANGED <<upstream, raw, kept, report, sidecar, changes>>
        /\ drifted' = drifted \/ drifted' = {}
        /\ faults' = faults \/ (faults < MaxFaults /\ faults' = faults + 1)
        /\ pins' = pins \/ pins' = ingest.held
    BY DEF SaveManifest, Kill
  <1>2. ingest' \in [step : {"idle", "acquire", "read", "keep", "report", "reject",
                             "save"},
                     todo : Seq(Months), held : [Months -> Files]]
        /\ ingest'.step = "idle"
    BY <1>1 DEF AtRest, NoPins, Files
  <1>3. faults' \in 0 .. MaxFaults
    BY <1>1 DEF TInv, TreeTyped, TreeAssumption
  <1>4. TreeTyped'
    BY <1>1, <1>2, <1>3 DEF TInv, TreeTyped
  <1>5. IngestKnows'
    BY <1>2 DEF IngestKnows, Idle
  <1>. QED
    BY <1>4, <1>5 DEF TInv

(* What is done around the runs.                                           *)
LEMMA WorldMoves ==
    ASSUME TreeAssumption, TInv, NEW m \in Months,
           Backfill(m) \/ DeleteRaw(m) \/ Repin(m)
    PROVE  TInv'
  <1>1. UNCHANGED <<kept, report, sidecar, ingest, faults>>
    BY DEF Backfill, DeleteRaw, Repin, Change
  <1>2. changes' \in 0 .. MaxChanges
    BY DEF Backfill, DeleteRaw, Repin, Change, TInv, TreeTyped, TreeAssumption
  <1>3. /\ drifted' = {} \/ drifted' = drifted
        /\ upstream' \in [Months -> Bytes]
        /\ raw' \in [Months -> Files] /\ pins' \in [Months -> Files]
    BY SMTT(30) DEF Backfill, DeleteRaw, Repin, Change, TInv, TreeTyped, Files
  <1>4. TreeTyped'
    BY <1>1, <1>2, <1>3 DEF TInv, TreeTyped
  <1>5. Idle \/ UNCHANGED <<raw, pins>>
    BY DEF Backfill, DeleteRaw, Repin, Change
  <1>6. IngestKnows'
    BY <1>1, <1>5 DEF IngestKnows, TInv, Idle, Month
  <1>. QED
    BY <1>4, <1>6 DEF TInv

LEMMA TreeKeeps ==
    ASSUME TreeAssumption, TInv, TreeNext
    PROVE  TInv'
  BY IngestBegins, Acquires, Validates, Writes, IngestEnds, WorldMoves DEF TreeNext

(* A month is written from the bytes the run checked against its pin.      *)
LEMMA TreeStepStands ==
    ASSUME TreeAssumption, TInv, TreeNext, NEW m \in Months
    PROVE  /\ kept'[m] # kept[m] => pins[m] \in {NoFile, kept'[m]}
           /\ sidecar'[m] # sidecar[m] => pins[m] \in {NoFile, sidecar'[m]}
  <1>1. CASE WriteKept \/ WriteReport \/ WriteSidecar
    <2>1. ingest.step \in {"keep", "report", "reject"} /\ ~Idle
      BY <1>1 DEF WriteKept, WriteReport, WriteSidecar, Idle
    <2>2. pins[m] \in {NoFile, ingest.held[m]} /\ ingest.held[Month] = raw[Month]
      BY <2>1 DEF TInv, IngestKnows
    <2>3. kept \in [Months -> Derived] /\ sidecar \in [Months -> Derived]
      BY DEF TInv, TreeTyped
    <2>. QED
      BY <1>1, <2>2, <2>3 DEF WriteKept, WriteReport, WriteSidecar
  <1>2. CASE ~(WriteKept \/ WriteReport \/ WriteSidecar)
    <2>1. UNCHANGED <<kept, sidecar>>
      BY <1>2 DEF TreeNext, Ingest, AcquirePresent, Download, DownloadFailed,
         Validate, SaveManifest, Kill, Backfill, DeleteRaw, Repin, Change
    <2>. QED
      BY <2>1
  <1>. QED
    BY <1>1, <1>2

-----------------------------------------------------------------------------
(* The publish, a step at a time.                                          *)

(* Months that are listed are held out, or they are scoring months.        *)
LEMMA Sides ==
    ASSUME TreeAssumption, PInv, pub.step # "idle"
    PROVE  /\ ScoresHeldOut <=> ForHeldOut
           /\ pub.todo \in Seq(Published) /\ pub.todo # <<>> /\ Len(pub.todo) > 0
           /\ ForHeldOut => ToSet(pub.todo) \subseteq HeldOut
           /\ ~ForHeldOut => ToSet(pub.todo) \subseteq Scoring
  <1>1. /\ pub.todo \in Seq(Published) /\ pub.todo # <<>>
        /\ ForHeldOut \/ pub.todo \in Seq(Scoring)
    BY DEF PInv, PubTyped, PubKnows
  <1>2. Len(pub.todo) > 0 /\ 1 \in DOMAIN pub.todo
    BY <1>1
  <1>3. ForHeldOut => ToSet(pub.todo) \subseteq HeldOut
    BY DEF ForHeldOut, ToSet
  <1>4. ASSUME pub.todo \in Seq(Scoring)
        PROVE  ToSet(pub.todo) \subseteq Scoring /\ pub.todo[1] \in Scoring
    BY <1>2, <1>4 DEF ToSet
  <1>5. ScoresHeldOut => pub.todo[1] \in HeldOut
    BY <1>2 DEF ScoresHeldOut, ToSet
  <1>6. HeldOut \cap Scoring = {}
    BY DEF TreeAssumption, Splits
  <1>. QED
    BY <1>1, <1>2, <1>3, <1>4, <1>5, <1>6 DEF ScoresHeldOut

LEMMA AtRestPublish ==
    ASSUME TreeAssumption
    PROVE  /\ Resting \in [step : {"idle", "load", "floor", "read", "months", "open",
                                   "close"},
                           todo : Seq(Published), label : Versions \cup {0},
                           by : Versions \cup {0},
                           floor : {NoFloor, Overridden} \cup Fitted,
                           read : [Months -> Derived]]
           /\ Resting.step = "idle" /\ Resting.floor = NoFloor
  BY DEF Resting, NoPins, Derived

(* A publish that is refused, ends or is killed leaves the rows as it left *)
(* them.                                                                   *)
LEMMA PublishStops ==
    ASSUME TreeAssumption, PInv, pub' = Resting, UNCHANGED <<champion, rows>>
    PROVE  PInv'
  <1>1. PubTyped' /\ PubKnows'
    BY AtRestPublish DEF PubTyped, PubKnows
  <1>. QED
    BY <1>1 DEF PInv, RowsBearTheirModel

LEMMA Publishes ==
    ASSUME TreeAssumption, PInv, NEW months \in SUBSET Published, Publish(months),
           months # {}, months \subseteq HeldOut \/ months \subseteq Scoring
    PROVE  PInv'
  <1>1. pub' = [Resting EXCEPT !.step = "load", !.todo = SetToSeq(months),
                               !.label = champion]
        /\ UNCHANGED <<champion, rows>>
    BY DEF Publish, Working
  <1>2. IsFiniteSet(months)
    BY FS_Subset DEF TreeAssumption, Published, Months, Splits
  <1>3. SetToSeq(months) \in Seq(months) /\ SetToSeq(months) # <<>>
    BY <1>2, WorkList
  <1>4. SetToSeq(months) \in Seq(Published)
        /\ (SetToSeq(months) \in Seq(HeldOut) \/ SetToSeq(months) \in Seq(Scoring))
    BY <1>3
  <1>5. PubTyped'
    BY <1>1, <1>4, AtRestPublish DEF PubTyped, PInv
  <1>6. /\ pub'.step = "load" /\ pub'.todo = SetToSeq(months)
        /\ pub'.label = champion /\ pub'.floor = NoFloor
    BY <1>1, AtRestPublish
  <1>7. PubKnows'
    BY <1>3, <1>4, <1>6 DEF PubKnows, PInv, ForHeldOut
  <1>. QED
    BY <1>1, <1>5, <1>7 DEF PInv, RowsBearTheirModel

LEMMA Loads ==
    ASSUME TreeAssumption, AnalystAssumption, PInv, LoadBooster
    PROVE  PInv'
  <1>1. pub.step = "load" /\ UNCHANGED <<champion, rows>>
    BY DEF LoadBooster, Working
  <1>2. CASE pub' = Resting
    BY <1>1, <1>2, PublishStops
  <1>3. CASE pub' = [pub EXCEPT !.by = champion,
                                !.step = IF ScoresHeldOut THEN "floor" ELSE "read"]
    <2>1. PubTyped'
      BY <1>3 DEF PubTyped, PInv
    <2>2. /\ pub'.step = IF ScoresHeldOut THEN "floor" ELSE "read"
          /\ pub'.todo = pub.todo /\ pub'.label = pub.label /\ pub'.floor = pub.floor
          /\ pub'.by = champion
      BY <1>3 DEF PubTyped, PInv
    <2>3. PubKnows'
      BY <1>1, <2>2, Sides DEF PubKnows, PInv, ForHeldOut
    <2>. QED
      BY <1>1, <2>1, <2>3 DEF PInv, RowsBearTheirModel
  <1>. QED
    BY <1>2, <1>3 DEF LoadBooster

LEMMA FitsFloor ==
    ASSUME TreeAssumption, TInv, PInv, FitFloor
    PROVE  PInv'
  <1>1. pub.step = "floor" /\ UNCHANGED <<champion, rows>>
    BY DEF FitFloor, Working
  <1>2. CASE pub' = Resting
    BY <1>1, <1>2, PublishStops
  <1>3. CASE ~\E m \in Train : kept[m] = NoFile
    <2>1. PICK fit \in {[m \in Train |-> kept[m]], Overridden} :
             pub' = [pub EXCEPT !.step = "read", !.floor = fit]
      BY <1>3 DEF FitFloor
    <2>2. \A m \in Train : kept[m] \in Good
      BY <1>3 DEF TInv, TreeTyped, Derived, Months, Splits
    <2>3. fit \in {NoFloor, Overridden} \cup Fitted
      BY <2>2 DEF Fitted
    <2>4. PubTyped'
      BY <2>1, <2>3 DEF PubTyped, PInv
    <2>5. /\ pub'.step = "read" /\ pub'.todo = pub.todo /\ pub'.label = pub.label
          /\ pub'.by = pub.by
      BY <2>1 DEF PubTyped, PInv
    <2>6. PubKnows'
      BY <1>1, <2>5 DEF PubKnows, PInv, ForHeldOut
    <2>. QED
      BY <1>1, <2>4, <2>6 DEF PInv, RowsBearTheirModel
  <1>. QED
    BY <1>2, <1>3 DEF FitFloor

(* The check against the registry passes only the model that was named,    *)
(* and, of held-out months, only the floor of its gate.                    *)
LEMMA ModelChecked ==
    ASSUME TreeAssumption, AnalystAssumption, TInv, PInv, CheckModel
    PROVE  PInv'
  <1>. DEFINE months == IF ScoresHeldOut THEN ToSet(pub.todo) ELSE {Holdout}
              carried == [m \in Months |-> IF m \in months THEN kept[m] ELSE NoFile]
              next == IF ScoresHeldOut THEN "open" ELSE "months"
  <1>1. pub.step = "read" /\ UNCHANGED <<champion, rows>>
    BY DEF CheckModel, ReadAndCheck, Working
  <1>2. CASE pub' = Resting
    BY <1>1, <1>2, PublishStops
  <1>3. CASE /\ \A m \in months : kept[m] # NoFile
             /\ Reproduces(kept[Holdout]) /\ SameFloor(kept[Holdout])
             /\ pub' = [pub EXCEPT !.step = next, !.read = carried]
    <2>1. carried \in [Months -> Derived]
      BY DEF TInv, TreeTyped, Derived
    <2>2. PubTyped'
      BY <1>3, <2>1 DEF PubTyped, PInv
    <2>3. /\ pub'.step = next /\ pub'.todo = pub.todo /\ pub'.label = pub.label
          /\ pub'.by = pub.by /\ pub'.floor = pub.floor /\ pub'.read = carried
      BY <1>3 DEF PubTyped, PInv
    <2>4. pub.label = pub.by
      BY <1>3 DEF Reproduces, Tag
    <2>5. ForHeldOut => pub.floor = FloorTag.fit
      BY <1>1, <1>3, Sides DEF SameFloor, FloorTag
    <2>6. ASSUME ScoresHeldOut, NEW i \in 1 .. Len(pub.todo)
          PROVE  carried[pub.todo[i]] \in Good
      <3>1. pub.todo[i] \in months /\ pub.todo[i] \in Published
        BY <1>1, <2>6, Sides DEF ToSet
      <3>2. pub.todo[i] \in Months
        BY <3>1 DEF Published, Months, Splits
      <3>. QED
        BY <1>3, <3>1, <3>2 DEF TInv, TreeTyped, Derived
    <2>7. PubKnows'
      BY <1>1, <2>3, <2>4, <2>5, <2>6, Sides DEF PubKnows, PInv, ForHeldOut
    <2>. QED
      BY <1>1, <2>2, <2>7 DEF PInv, RowsBearTheirModel
  <1>. QED
    BY <1>2, <1>3 DEF CheckModel, ReadAndCheck

LEMMA ScoringRead ==
    ASSUME TreeAssumption, TInv, PInv, ReadScoring
    PROVE  PInv'
  <1>. DEFINE carried == [m \in Months |->
                             IF m \in ToSet(pub.todo) THEN kept[m] ELSE NoFile]
  <1>1. pub.step = "months" /\ UNCHANGED <<champion, rows>>
    BY DEF ReadScoring, Working
  <1>2. CASE pub' = Resting
    BY <1>1, <1>2, PublishStops
  <1>3. CASE /\ \A m \in ToSet(pub.todo) : kept[m] # NoFile
             /\ pub' = [pub EXCEPT !.step = "open", !.read = carried]
    <2>1. carried \in [Months -> Derived]
      BY DEF TInv, TreeTyped, Derived
    <2>2. PubTyped'
      BY <1>3, <2>1 DEF PubTyped, PInv
    <2>3. /\ pub'.step = "open" /\ pub'.todo = pub.todo /\ pub'.label = pub.label
          /\ pub'.by = pub.by /\ pub'.floor = pub.floor /\ pub'.read = carried
      BY <1>3 DEF PubTyped, PInv
    <2>4. ASSUME NEW i \in 1 .. Len(pub.todo)
          PROVE  carried[pub.todo[i]] \in Good
      <3>1. pub.todo[i] \in ToSet(pub.todo) /\ pub.todo[i] \in Published
        BY <1>1, Sides DEF ToSet
      <3>2. pub.todo[i] \in Months
        BY <3>1 DEF Published, Months, Splits
      <3>. QED
        BY <1>3, <3>1, <3>2 DEF TInv, TreeTyped, Derived
    <2>5. PubKnows'
      BY <1>1, <2>3, <2>4 DEF PubKnows, PInv, ForHeldOut
    <2>. QED
      BY <1>1, <2>2, <2>5 DEF PInv, RowsBearTheirModel
  <1>. QED
    BY <1>2, <1>3 DEF ReadScoring

(* A row set is written for a month of the publish's own side.             *)
LEMMA Written ==
    ASSUME TreeAssumption, PInv, pub.step # "idle"
    PROVE  /\ Head(pub.todo) \in Published /\ Head(pub.todo) = pub.todo[1]
           /\ ForHeldOut <=> Head(pub.todo) \in HeldOut
  <1>1. Head(pub.todo) = pub.todo[1] /\ Head(pub.todo) \in ToSet(pub.todo)
        /\ Head(pub.todo) \in Published
    BY Sides, HeadTailProperties DEF ToSet
  <1>2. HeldOut \cap Scoring = {}
    BY DEF TreeAssumption, Splits
  <1>. QED
    BY <1>1, <1>2, Sides

LEMMA Opens ==
    ASSUME TreeAssumption, PInv, OpenRows
    PROVE  PInv'
  <1>1. /\ pub.step = "open" /\ UNCHANGED champion
        /\ rows' = [rows EXCEPT ![Head(pub.todo)] = Unwritten(Torn)]
        /\ pub' = [pub EXCEPT !.step = "close"]
    BY DEF OpenRows, WriteRows
  <1>2. PubTyped'
    BY <1>1 DEF PubTyped, PInv
  <1>3. /\ pub'.step = "close" /\ pub'.todo = pub.todo /\ pub'.label = pub.label
        /\ pub'.by = pub.by /\ pub'.floor = pub.floor /\ pub'.read = pub.read
    BY <1>1 DEF PubTyped, PInv
  <1>4. PubKnows'
    BY <1>1, <1>3 DEF PubKnows, PInv, ForHeldOut
  <1>5. rows' \in [Published -> RowKinds]
    BY <1>1 DEF PInv, RowKinds
  <1>6. RowsBearTheirModel'
    BY <1>1, Written DEF PInv, RowsBearTheirModel, Unwritten
  <1>. QED
    BY <1>1, <1>2, <1>4, <1>5, <1>6 DEF PInv

LEMMA Closes ==
    ASSUME TreeAssumption, PInv, CloseRows
    PROVE  PInv'
  <1>. DEFINE month == Head(pub.todo)
              content == [of |-> pub.read[month], label |-> pub.label,
                          by |-> pub.by, floor |-> pub.floor]
  <1>1. /\ pub.step = "close" /\ UNCHANGED champion
        /\ rows' = [rows EXCEPT ![month] = content]
        /\ pub' = IF Len(pub.todo) = 1 THEN Resting
                  ELSE [pub EXCEPT !.step = "open", !.todo = Tail(@)]
    BY DEF CloseRows, WriteRows
  <1>2. /\ pub.label \in Versions /\ pub.by = pub.label
        /\ ForHeldOut => pub.floor = FloorTag.fit
        /\ ~ForHeldOut => pub.floor = NoFloor
        /\ pub.todo \in Seq(Published) /\ Len(pub.todo) > 0
        /\ \A i \in 1 .. Len(pub.todo) : pub.read[pub.todo[i]] \in Good
    BY <1>1, Sides DEF PInv, PubKnows
  <1>3. pub.read[month] \in Good
    BY <1>1, <1>2, Written
  <1>4. pub.floor \in {NoFloor} \cup [Train -> Bytes]
    BY <1>2 DEF FloorTag, TreeAssumption
  <1>5. content \in RowKinds
    BY <1>2, <1>3, <1>4 DEF RowKinds
  <1>6. rows' \in [Published -> RowKinds]
    BY <1>1, <1>5 DEF PInv
  <1>7. RowsBearTheirModel'
    BY <1>1, <1>2, Written DEF PInv, RowsBearTheirModel
  <1>8. PubTyped' /\ PubKnows'
    <2>1. CASE pub' = Resting
      BY <2>1, AtRestPublish DEF PubTyped, PubKnows
    <2>2. CASE Len(pub.todo) # 1 /\ pub' = [pub EXCEPT !.step = "open", !.todo = Tail(@)]
      <3>1. /\ Tail(pub.todo) \in Seq(Published) /\ Tail(pub.todo) # <<>>
            /\ Len(Tail(pub.todo)) = Len(pub.todo) - 1
            /\ \A i \in 1 .. Len(Tail(pub.todo)) : Tail(pub.todo)[i] = pub.todo[i + 1]
            /\ ForHeldOut => Tail(pub.todo) \in Seq(HeldOut)
            /\ pub.todo \in Seq(Scoring) => Tail(pub.todo) \in Seq(Scoring)
        <4>1. /\ Tail(pub.todo) \in Seq(Published)
              /\ Len(Tail(pub.todo)) = Len(pub.todo) - 1
              /\ Len(Tail(pub.todo)) # 0
          <5>1. Len(pub.todo) \in Nat \ {0, 1} /\ pub.todo # <<>>
            BY <1>2, <2>2
          <5>. QED
            BY <1>2, <5>1, HeadTailProperties
        <4>2. \A i \in 1 .. Len(Tail(pub.todo)) : Tail(pub.todo)[i] = pub.todo[i + 1]
          BY <1>2, <2>2, HeadTailProperties
        <4>3. pub.todo # <<>>
          BY <1>2
        <4>4. \A S : pub.todo \in Seq(S) => Tail(pub.todo) \in Seq(S)
          BY <4>3, HeadTailProperties
        <4>. QED
          BY <4>1, <4>2, <4>4, EmptySeq DEF ForHeldOut
      <3>2. PubTyped'
        BY <2>2, <3>1 DEF PubTyped, PInv
      <3>3. /\ pub'.step = "open" /\ pub'.todo = Tail(pub.todo)
            /\ pub'.label = pub.label /\ pub'.by = pub.by
            /\ pub'.floor = pub.floor /\ pub'.read = pub.read
        BY <2>2 DEF PubTyped, PInv
      <3>4. \A i \in 1 .. Len(pub'.todo) : pub'.read[pub'.todo[i]] \in Good
        BY <1>2, <3>1, <3>3
      <3>5. ForHeldOut' <=> ForHeldOut
        <4>1. CASE ForHeldOut
          BY <3>1, <3>3, <4>1 DEF ForHeldOut
        <4>2. CASE ~ForHeldOut
          <5>1. Tail(pub.todo) \in Seq(Scoring)
            BY <1>1, <3>1, <4>2 DEF PInv, PubKnows
          <5>2. Tail(pub.todo)[1] \in Scoring
            BY <3>1, <5>1
          <5>3. Tail(pub.todo) \notin Seq(HeldOut)
            BY <3>1, <5>2 DEF TreeAssumption, Splits
          <5>. QED
            BY <3>3, <4>2, <5>3 DEF ForHeldOut
        <4>. QED
          BY <4>1, <4>2
      <3>6. PubKnows'
        BY <1>1, <1>2, <3>1, <3>3, <3>4, <3>5 DEF PubKnows, PInv, ForHeldOut
      <3>. QED
        BY <3>2, <3>6
    <2>. QED
      BY <1>1, <2>1, <2>2
  <1>. QED
    BY <1>1, <1>6, <1>7, <1>8 DEF PInv

LEMMA PublishKeeps ==
    ASSUME TreeAssumption, AnalystAssumption, TInv, PInv, Next, ~TreeStep
    PROVE  PInv' /\ TInv'
  <1>1. CASE KillPublish
    <2>1. faults' \in 0 .. MaxFaults
      BY <1>1 DEF KillPublish, TInv, TreeTyped, TreeAssumption
    <2>2. TInv'
      BY <1>1, <2>1 DEF KillPublish, TInv, TreeTyped, IngestKnows, Idle, Month
    <2>. QED
      BY <1>1, <2>2, PublishStops DEF KillPublish
  <1>2. CASE ~KillPublish
    <2>1. UNCHANGED treeVars
      BY <1>2 DEF Next, Publish, LoadBooster, FitFloor, CheckModel, ReadAndCheck,
         ReadScoring, OpenRows, CloseRows, WriteRows, MoveAlias, Working
    <2>2. TInv'
      BY <2>1 DEF treeVars, TInv, TreeTyped, IngestKnows, Idle, Month
    <2>3. CASE Publish(HeldOut) \/ \E months \in (SUBSET Scoring) \ {{}} : Publish(months)
      <3>1. HeldOut # {} /\ HeldOut \in SUBSET Published
            /\ \A months \in SUBSET Scoring : months \in SUBSET Published
        BY DEF AnalystAssumption, Published
      <3>2. CASE Publish(HeldOut)
        BY <2>2, <3>1, <3>2, Publishes
      <3>3. ASSUME NEW months \in (SUBSET Scoring) \ {{}}, Publish(months)
            PROVE  PInv'
        <4>1. months \in SUBSET Published /\ months # {} /\ months \subseteq Scoring
          BY DEF Published
        <4>. QED
          BY <3>3, <4>1, Publishes
      <3>. QED
        BY <2>2, <2>3, <3>2, <3>3
    <2>4. CASE MoveAlias
      BY <2>2, <2>4 DEF MoveAlias, PInv, PubTyped, PubKnows, ForHeldOut,
         RowsBearTheirModel
    <2>. QED
      BY <1>2, <2>2, <2>3, <2>4, Loads, FitsFloor, ModelChecked, ScoringRead, Opens,
         Closes DEF Next
  <1>. QED
    BY <1>1, <1>2

LEMMA AnalystInv ==
    ASSUME TreeAssumption, AnalystAssumption
    PROVE  Spec => []AInv
  <1>1. ASSUME Init PROVE AInv
    <2>1. TInv
      BY <1>1, InitTree DEF Init
    <2>2. rows \in [Published -> RowKinds] /\ RowsBearTheirModel
      BY <1>1 DEF Init, RowKinds, RowsBearTheirModel, Unwritten
    <2>3. PubTyped /\ PubKnows
      BY <1>1, AtRestPublish DEF Init, PubTyped, PubKnows
    <2>. QED
      BY <1>1, <2>1, <2>2, <2>3 DEF Init, AInv, PInv
  <1>2. ASSUME AInv, [Next]_vars PROVE AInv'
    <2>1. CASE TreeStep
      BY <1>2, <2>1, TreeKeeps DEF TreeStep, AInv, PInv, PubTyped, PubKnows,
         ForHeldOut, RowsBearTheirModel
    <2>2. CASE Next /\ ~TreeStep
      BY <1>2, <2>2, PublishKeeps DEF AInv
    <2>3. CASE UNCHANGED vars
      BY <1>2, <2>3 DEF vars, treeVars, AInv, TInv, TreeTyped, IngestKnows, Idle,
         Month, PInv, PubTyped, PubKnows, ForHeldOut, RowsBearTheirModel
    <2>. QED
      BY <1>2, <2>1, <2>2, <2>3
  <1>. QED
    BY <1>1, <1>2, PTL DEF Spec

-----------------------------------------------------------------------------
(* What the invariant is for.                                              *)

(* Gotcha #6: while the manifest pins a month, no run of the ingest writes *)
(* that month from other bytes, whatever was killed, backfilled or deleted *)
(* before it.                                                              *)
THEOREM PinsStand ==
    ASSUME TreeAssumption, AnalystAssumption
    PROVE  Spec => PinnedBytesStand
  <1>1. ASSUME AInv, [Next]_vars
        PROVE  [\A m \in Months :
                   /\ kept'[m] # kept[m] => pins[m] \in {NoFile, kept'[m]}
                   /\ sidecar'[m] # sidecar[m] => pins[m] \in {NoFile, sidecar'[m]}]_treeVars
    <2>1. CASE TreeStep
      BY <1>1, <2>1, TreeStepStands DEF TreeStep, AInv
    <2>2. CASE ~TreeStep
      <3>1. UNCHANGED <<kept, sidecar>>
        BY <1>1, <2>2 DEF Next, vars, treeVars, Publish, LoadBooster, FitFloor,
           CheckModel, ReadAndCheck, ReadScoring, OpenRows, CloseRows, WriteRows,
           KillPublish, MoveAlias, Working
      <3>. QED
        BY <3>1
    <2>. QED
      BY <2>1, <2>2
  <1>. QED
    BY <1>1, AnalystInv, PTL DEF Spec, PinnedBytesStand

(* The published rows were computed by the version they name, and those of *)
(* held-out months beside the floor of that version's gate, although the   *)
(* alias may move between its two resolutions (F-012).                     *)
THEOREM PublishedSound ==
    ASSUME TreeAssumption, AnalystAssumption
    PROVE  Spec => []PublishedIsSound
  <1>1. ASSUME AInv PROVE PublishedIsSound
    <2>1. Cardinality(drifted) <= 1
      <3>1. drifted = {} => Cardinality(drifted) = 0
        BY FS_EmptySet
      <3>2. ASSUME NEW m \in Months, drifted = {m} PROVE Cardinality(drifted) = 1
        BY <3>2, FS_Singleton
      <3>. QED
        BY <1>1, <3>1, <3>2 DEF AInv, TInv, TreeTyped
    <2>2. Derived \subseteq (Bytes \ Strange) \cup {NoFile}
      BY DEF Derived, Good
    <2>3. /\ kept \in [Months -> (Bytes \ Strange) \cup {NoFile}]
          /\ report \in [Months -> (Bytes \ Strange) \cup {NoFile}]
          /\ sidecar \in [Months -> (Bytes \ Strange) \cup {NoFile}]
      BY <1>1, <2>2 DEF AInv, TInv, TreeTyped
    <2>4. TreeTypeOK
      BY <1>1, <2>1, <2>3 DEF AInv, TInv, TreeTyped, TreeTypeOK, Files
    <2>5. RowKinds \subseteq {Unwritten(NoFile), Unwritten(Torn)} \cup
                   [of : Bytes \ Strange, label : Versions, by : Versions,
                    floor : {NoFloor} \cup [Train -> Bytes]]
      BY DEF RowKinds, Good
    <2>6. TypeOK
      BY <1>1, <2>4, <2>5 DEF AInv, PInv, PubTyped, TypeOK
    <2>. QED
      BY <1>1, <2>6 DEF AInv, PInv, PublishedIsSound
  <1>. QED
    BY <1>1, AnalystInv, PTL

(* Two derived files that count alike are of the same bytes.               *)
LEMMA SameStory ==
    ASSUME TreeAssumption, NEW b \in Good, NEW c \in Good,
           Kept[b] = Kept[c] \/ Counts[b] = Counts[c]
    PROVE  b = c
  <1>1. b \in Bytes \ Strange /\ c \in Bytes \ Strange /\ ~TooThin(b) /\ ~TooThin(c)
    BY DEF Good
  <1>. QED
    BY <1>1 DEF TreeAssumption

(* A GREEN means that each month's rows, report, sidecar and predictions   *)
(* come from the same bytes, wherever an ingest or a publish was killed.   *)
THEOREM GreenHolds ==
    ASSUME TreeAssumption, AnalystAssumption
    PROVE  Spec => []GreenIsOneStory
  <1>1. ASSUME AInv PROVE GreenIsOneStory
    <2>1. SUFFICES ASSUME Builds, Reconciled
          PROVE  /\ \A m \in Splits \cup IngestedScoring :
                       kept[m] = report[m] /\ report[m] = sidecar[m]
                 /\ \A m \in Predicted \cup Scored :
                       rows[m].of # Torn /\ rows[m].of = kept[m]
      BY DEF GreenIsOneStory, Green
    <2>2. /\ kept \in [Months -> Derived] /\ report \in [Months -> Derived]
          /\ sidecar \in [Months -> Derived] /\ rows \in [Published -> RowKinds]
      BY <1>1 DEF AInv, TInv, TreeTyped, PInv
    <2>3. ASSUME NEW m \in Splits \cup IngestedScoring
          PROVE  /\ kept[m] = report[m] /\ report[m] = sidecar[m]
                 /\ report[m] \in Good
      <3>1. m \in Months /\ NoFile \notin {kept[m], report[m], sidecar[m]}
        BY <2>1, <2>3 DEF Builds, IngestedScoring, Months
      <3>2. kept[m] \in Good /\ report[m] \in Good /\ sidecar[m] \in Good
        BY <2>2, <3>1 DEF Derived
      <3>3. Kept[kept[m]] = Kept[report[m]] /\ Counts[sidecar[m]] = Counts[report[m]]
        BY <2>1, <2>3 DEF Reconciled, SameKept, SameCounts
      <3>. QED
        BY <3>2, <3>3, SameStory
    <2>4. ASSUME NEW m \in Predicted \cup Scored
          PROVE  rows[m].of # Torn /\ rows[m].of = kept[m]
      <3>1. /\ m \in Published /\ rows[m].of # NoFile /\ rows[m].of # Torn
            /\ Covered(m) /\ m \in Splits \cup IngestedScoring
        BY <2>1, <2>4 DEF Builds, Reconciled, Predicted, Scored, Published, Splits
      <3>2. rows[m].of \in Good
        BY <2>2, <3>1 DEF RowKinds, Unwritten
      <3>3. Kept[rows[m].of] = Kept[report[m]]
        BY <3>1 DEF Covered
      <3>. QED
        BY <2>3, <3>1, <3>2, <3>3, SameStory
    <2>. QED
      BY <2>3, <2>4
  <1>. QED
    BY <1>1, AnalystInv, PTL
=============================================================================
