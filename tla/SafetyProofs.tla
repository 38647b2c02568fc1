---------------------------- MODULE SafetyProofs ----------------------------
(***************************************************************************)
(* Proofs about MCSafety's systems, for every value of their constants:    *)
(* the feature store with its comparisons; in the second part the          *)
(* provenance of a scale; in the third the pushed signals and the load     *)
(* client.                                                                 *)
(***************************************************************************)
EXTENDS MCSafety, FiniteSetTheorems, SequenceTheorems, NaturalsInduction, TLAPS

-----------------------------------------------------------------------------
(* Least and greatest numbers.                                             *)

LEMMA MinIs ==
    ASSUME NEW S \in SUBSET Nat, S # {}
    PROVE  Min(S) \in S /\ \A y \in S : Min(S) <= y
  <1>. DEFINE R == OpToRel(<, Nat)
  <1>1. R = {ss \in Nat \X Nat : ss[1] < ss[2]}
    BY DEF OpToRel
  <1>2. IsWellFoundedOn(R, Nat)
    BY NatLessThanWellFounded
  <1>. HIDE DEF R
  <1>3. PICK x \in S : \A y \in S : ~(<<y, x>> \in R)
    BY <1>2, WFMin
  <1>4. ASSUME NEW y \in S PROVE x <= y
    <2>1. ~(<<y, x>> \in R) /\ x \in Nat /\ y \in Nat
      BY <1>3
    <2>2. ~(y < x)
      BY <1>1, <2>1
    <2>. QED
      BY <2>1, <2>2
  <1>. QED
    BY <1>4 DEF Min

LEMMA MaxIs ==
    ASSUME NEW S \in SUBSET Nat, S # {}, NEW top \in Nat, \A y \in S : y <= top
    PROVE  Max(S) \in S /\ \A y \in S : Max(S) >= y
  <1>. DEFINE T == {top - y : y \in S}
  <1>1. T \in SUBSET Nat
    BY DEF T
  <1>2. T # {}
    BY DEF T
  <1>3. PICK x \in S : Min(T) = top - x
    BY <1>1, <1>2, MinIs
  <1>4. ASSUME NEW y \in S PROVE x >= y
    <2>1. Min(T) <= top - y
      BY <1>1, <1>2, MinIs
    <2>. QED
      BY <1>3, <2>1
  <1>. QED
    BY <1>4 DEF Max

-----------------------------------------------------------------------------
(* The feature store: what a source answers.                               *)

Trips == {trips \in [TrainMonths -> [Kinds -> Nat]] :
             \A m \in TrainMonths : \E k \in Kinds : trips[m][k] # 0}
Contents == [trips : Trips, months : (SUBSET TrainMonths) \ {{}}]

LEMMA Calendar ==
    ASSUME FeastAssumption
    PROVE  /\ TrainMonths \subseteq Nat /\ TrainMonths # {}
           /\ Min(TrainMonths) \in Nat /\ Max(TrainMonths) \in Nat
           /\ TrainMonths = Min(TrainMonths) .. Max(TrainMonths)
           /\ HeldOut \in Nat /\ HeldOut = Max(TrainMonths) + 1
           /\ Months = Min(TrainMonths) .. HeldOut
  <1>1. TrainMonths \in SUBSET Nat /\ TrainMonths # {}
    BY DEF FeastAssumption
  <1>2. Min(TrainMonths) \in Nat
    BY <1>1, MinIs
  <1>3. PICK last \in TrainMonths : TrainMonths = Min(TrainMonths) .. last
    BY DEF FeastAssumption
  <1>4. last \in Nat /\ \A y \in TrainMonths : y <= last
    BY <1>1, <1>2, <1>3
  <1>5. Max(TrainMonths) \in TrainMonths /\ \A y \in TrainMonths : Max(TrainMonths) >= y
    BY <1>1, <1>4, MaxIs
  <1>6. Max(TrainMonths) = last
    <2>. DEFINE top == Max(TrainMonths)
    <2>1. top \in Nat /\ top <= last /\ last <= top
      BY <1>1, <1>4, <1>5
    <2>. HIDE DEF top
    <2>2. top = last
      BY <1>4, <2>1
    <2>. QED
      BY <2>2 DEF top
  <1>. QED
    BY <1>1, <1>2, <1>3, <1>4, <1>6 DEF HeldOut, Months

(* A set of train months has a last one.                                   *)
LEMMA LastMonth ==
    ASSUME FeastAssumption, NEW W \in SUBSET TrainMonths, W # {}
    PROVE  /\ Max(W) \in W /\ Max(W) \in Nat /\ \A y \in W : y <= Max(W)
           /\ Max(W) + 1 <= HeldOut
  <1>1. \A y \in W : y \in Nat /\ y <= Max(TrainMonths)
    BY Calendar
  <1>2. Max(W) \in W /\ \A y \in W : Max(W) >= y
    BY <1>1, MaxIs, Calendar
  <1>3. Max(W) \in Nat /\ Max(W) <= Max(TrainMonths)
    BY <1>1, <1>2
  <1>4. \A y \in W : y <= Max(W)
    BY <1>1, <1>2, <1>3
  <1>5. Max(W) + 1 <= HeldOut
    BY <1>3, Calendar
  <1>. QED
    BY <1>2, <1>3, <1>4, <1>5

(* A window is the months up to its last one.                              *)
LEMMA WindowsAre ==
    ASSUME FeastAssumption, NEW fitted \in SUBSET TrainMonths, NEW W \in Windows(fitted)
    PROVE  /\ W \in SUBSET fitted /\ W # {}
           /\ W = {n \in fitted : n <= Max(W)}
           /\ WindowStamp(W) = Max(W) + 1 /\ WindowStamp(W) \in Nat
           /\ WindowStamp(W) <= HeldOut
  <1>1. W \in SUBSET fitted /\ W # {}
        /\ (W = fitted \/ \E m \in fitted : W = {n \in fitted : n < m})
    BY DEF Windows, History
  <1>2. Max(W) \in W /\ Max(W) \in Nat /\ \A y \in W : y <= Max(W)
        /\ Max(W) + 1 <= HeldOut
    BY <1>1, LastMonth
  <1>3. \A n \in fitted : n \in Nat
    BY Calendar
  <1>4. ASSUME NEW n \in fitted, n <= Max(W) PROVE n \in W
    <2>1. CASE W = fitted
      BY <2>1
    <2>2. ASSUME NEW m \in fitted, W = {i \in fitted : i < m} PROVE n \in W
      BY <1>2, <1>3, <1>4, <2>2
    <2>. QED
      BY <1>1, <2>1, <2>2
  <1>5. W = {n \in fitted : n <= Max(W)}
    BY <1>1, <1>2, <1>4
  <1>6. WindowStamp(W) = Max(W) + 1
    BY DEF WindowStamp
  <1>7. WindowStamp(W) \in Nat /\ WindowStamp(W) <= HeldOut
    BY <1>2, <1>6
  <1>. QED
    BY <1>1, <1>5, <1>6, <1>7

(* What is known of the months before some month is a window, and it is    *)
(* over by then.                                                           *)
LEMMA HistoryIsWindow ==
    ASSUME FeastAssumption, NEW fitted \in SUBSET TrainMonths, NEW m \in Nat,
           History(fitted, m) # {}
    PROVE  History(fitted, m) \in Windows(fitted) /\ WindowStamp(History(fitted, m)) <= m
  <1>. DEFINE H == History(fitted, m)
              later == {n \in fitted : n >= m}
  <1>1. \A n \in fitted : n \in Nat
    BY Calendar
  <1>2. ASSUME later = {} PROVE H \in Windows(fitted)
    <2>1. ASSUME NEW n \in fitted PROVE n < m
      BY <1>1, <1>2, <2>1
    <2>2. H = fitted
      BY <2>1 DEF History
    <2>. QED
      BY <2>2 DEF Windows
  <1>3. ASSUME later # {} PROVE H \in Windows(fitted)
    <2>1. Min(later) \in later /\ \A y \in later : Min(later) <= y
      BY <1>1, <1>3, MinIs
    <2>2. Min(later) \in fitted /\ Min(later) \in Nat /\ Min(later) >= m
      BY <1>1, <2>1
    <2>3. ASSUME NEW n \in fitted PROVE n < m <=> n < Min(later)
      <3>1. n >= m => Min(later) <= n
        BY <2>1
      <3>. QED
        BY <1>1, <2>2, <3>1
    <2>4. H = History(fitted, Min(later))
      BY <2>3 DEF History
    <2>. QED
      BY <2>2, <2>4 DEF Windows
  <1>4. H \in Windows(fitted)
    BY <1>2, <1>3
  <1>5. Max(H) \in H /\ Max(H) \in Nat
    BY LastMonth DEF History
  <1>6. Max(H) < m
    BY <1>5 DEF History
  <1>. QED
    BY <1>4, <1>5, <1>6 DEF WindowStamp

LEMMA RowsAre ==
    ASSUME NEW content, NEW row
    PROVE  row \in WindowRows(content) <=>
             \E W \in Windows(content.months), k \in Kinds :
                /\ row = [key |-> k, stamp |-> WindowStamp(W),
                          value |-> FitWindow(content.trips, W)[k]]
                /\ row.value # {}
  BY DEF WindowRows

(* A month is answered with all that came before it and nothing else.      *)
LEMMA JoinIsHistory ==
    ASSUME FeastAssumption, NEW content \in Contents, NEW k \in Kinds, NEW m \in Nat
    PROVE  Value(Join(WindowRows(content), k, m))
             = FitWindow(content.trips, History(content.months, m))[k]
  <1>. DEFINE fitted == content.months
              H == History(fitted, m)
              Fitted(W) == FitWindow(content.trips, W)[k]
              known == {row \in WindowRows(content) : row.key = k /\ row.stamp <= m}
  <1>1. fitted \in SUBSET TrainMonths
    BY DEF Contents
  <1>2. ASSUME NEW row \in known
        PROVE  \E W \in Windows(fitted) :
                  /\ row = [key |-> k, stamp |-> WindowStamp(W), value |-> Fitted(W)]
                  /\ W \subseteq H /\ Fitted(W) # {} /\ Max(W) \in H
    <2>1. PICK W \in Windows(fitted), kind \in Kinds :
             /\ row = [key |-> kind, stamp |-> WindowStamp(W),
                       value |-> FitWindow(content.trips, W)[kind]]
             /\ row.value # {}
      BY RowsAre
    <2>2. kind = k /\ WindowStamp(W) <= m
      BY <2>1
    <2>3. /\ W \in SUBSET fitted /\ W # {} /\ W = {n \in fitted : n <= Max(W)}
          /\ WindowStamp(W) = Max(W) + 1
      BY <1>1, WindowsAre
    <2>4. \A n \in W : n \in Nat /\ n <= Max(W)
      BY <1>1, <2>3, Calendar
    <2>5. Max(W) \in W /\ Max(W) \in Nat
      BY <1>1, <2>3, LastMonth
    <2>6. ASSUME NEW n \in W PROVE n \in H
      <3>1. n \in fitted /\ n \in Nat /\ n <= Max(W) /\ Max(W) + 1 <= m
        BY <2>2, <2>3, <2>4
      <3>2. n < m
        BY <2>5, <3>1
      <3>. QED
        BY <3>1, <3>2 DEF History
    <2>. QED
      BY <2>1, <2>2, <2>5, <2>6
  <1>3. \A W : W \subseteq H => Fitted(W) \subseteq Fitted(H)
    BY DEF FitWindow
  <1>4. CASE Fitted(H) = {}
    <2>1. known = {}
      BY <1>2, <1>3, <1>4
    <2>2. Join(WindowRows(content), k, m) = {}
      BY <2>1 DEF Join
    <2>. QED
      BY <1>4, <2>2 DEF Value
  <1>5. CASE Fitted(H) # {}
    <2>. DEFINE best == [key |-> k, stamp |-> WindowStamp(H), value |-> Fitted(H)]
    <2>1. H # {}
      BY <1>5 DEF FitWindow
    <2>2. H \in Windows(fitted) /\ WindowStamp(H) <= m
      BY <1>1, <2>1, HistoryIsWindow
    <2>3. best \in known
      BY <1>5, <2>2, RowsAre
    <2>4. /\ WindowStamp(H) = Max(H) + 1 /\ WindowStamp(H) \in Nat
          /\ Max(H) \in H /\ Max(H) \in Nat /\ \A n \in H : n \in Nat /\ n <= Max(H)
      <3>1. H \in SUBSET TrainMonths
        BY <1>1 DEF History
      <3>2. /\ Max(H) \in H /\ Max(H) \in Nat /\ \A n \in H : n <= Max(H)
        BY <2>1, <3>1, LastMonth
      <3>3. WindowStamp(H) = Max(H) + 1
        BY DEF WindowStamp
      <3>4. \A n \in H : n \in Nat
        BY <3>1, Calendar
      <3>. QED
        BY <3>2, <3>3, <3>4
    <2>5. ASSUME NEW row \in known
          PROVE  row.stamp <= best.stamp /\ (row.stamp >= best.stamp => row = best)
      <3>1. PICK W \in Windows(fitted) :
               /\ row = [key |-> k, stamp |-> WindowStamp(W), value |-> Fitted(W)]
               /\ Max(W) \in H
        BY <1>2
      <3>2. /\ WindowStamp(W) = Max(W) + 1 /\ W = {n \in fitted : n <= Max(W)}
            /\ Max(W) \in Nat /\ Max(W) <= Max(H)
        BY <1>1, <2>4, <3>1, WindowsAre
      <3>3. H = {n \in fitted : n <= Max(H)}
        BY <1>1, <2>2, WindowsAre
      <3>4. Max(W) = Max(H) => W = H
        BY <3>2, <3>3
      <3>5. row.stamp = WindowStamp(W) /\ best.stamp = WindowStamp(H)
        BY <3>1
      <3>6. row.stamp <= best.stamp
        BY <2>4, <3>2, <3>5
      <3>7. ASSUME row.stamp >= best.stamp PROVE Max(W) = Max(H)
        BY <2>4, <3>2, <3>5, <3>7
      <3>. QED
        BY <3>1, <3>4, <3>6, <3>7
    <2>6. {row \in known : \A other \in known : other.stamp <= row.stamp} = {best}
      <3>1. \A row \in known : row.stamp <= best.stamp
        BY <2>5
      <3>. QED
        BY <2>3, <2>5, <3>1
    <2>7. Join(WindowRows(content), k, m) = {best}
      BY <2>6 DEF Join
    <2>. QED
      BY <2>7 DEF Value
  <1>. QED
    BY <1>4, <1>5

-----------------------------------------------------------------------------
(* The feature store: its invariant.                                       *)

Stored(view) == IF view \in Windowed THEN Contents ELSE [reference : Nat]

StoreTyped ==
    /\ settled \in Trips /\ reference \in Nat
    /\ sources \in [Views -> {NoSource, Torn} \cup Contents \cup [reference : Nat]]
    /\ \A view \in Views : sources[view] \in {NoSource, Torn} \cup Stored(view)
    /\ build \in [left : Seq(Views), months : SUBSET TrainMonths,
                  fit : {NoSource} \cup Contents]
    /\ build.months = {} => build.left \in Seq(Static)
    /\ online = [view \in Views |-> [k \in KeysOf(view) |-> online[view][k]]]
    /\ fill \in [left : Seq(Views), until : Nat, alone : BOOLEAN]
    /\ fill # NoFill => fill.left # <<>>
    /\ acts \in Nat

(* A materialization that nothing disturbed is over the sources it took    *)
(* its window from, and has written the views that are not left.           *)
IsLeft(view) == \E i \in 1 .. Len(fill.left) : fill.left[i] = view
IsFilled(view) ==
    \A k \in KeysOf(view) : Newest(view, k) # {} => online[view][k] = Newest(view, k)
FillKnows ==
    fill # NoFill /\ fill.alone =>
        /\ AllReadable /\ fill.until = SourceWindow
        /\ \A view \in Views : IsLeft(view) \/ IsFilled(view)

StoreInv == StoreTyped /\ FillKnows

(* While a red team is under way the only comparison is its own; and one   *)
(* in whose time nothing was written has read what there still is.         *)
Offline == [view \in Views |->
               [k \in DeclaredKeys(view) |-> Join(Rows(view), k, SourceWindow)]]
CheckKnows ==
    /\ check = [of |-> check.of, got |-> check.got, asOf |-> check.asOf,
                quiet |-> check.quiet]
    /\ drill = [at |-> drill.at, saved |-> drill.saved]
    /\ Tampering => check = NoCheck \/ check.of = "online"
    /\ drill.at \in {"seen", "broken"} => check = NoCheck
    /\ check.of = "online" /\ check.quiet =>
          /\ AllReadable /\ check.asOf = SourceWindow
          /\ check.got \in {<<>>, <<online>>, <<online, Offline>>}

FInv == StoreInv /\ CheckKnows

LEMMA FilesAre ==
    ASSUME FeastAssumption
    PROVE  /\ Files \in Seq(Views) /\ StaticFiles \in Seq(Static)
           /\ StaticFiles \in Seq(Views)
           /\ Static \cap Windowed = {}
           /\ Files # <<>>
           /\ \A view \in Views : \E i \in 1 .. Len(Files) : Files[i] = view
  <1>1. StaticFiles \in Seq(STRING)
    BY DEF FeastAssumption
  <1>2. StaticFiles \in Seq(Static)
    BY <1>1 DEF Static, Range
  <1>3. StaticFiles \in Seq(Views)
    BY <1>2 DEF Views
  <1>4. <<"od_window_stats", "pu_hour_window_stats">> \in Seq(Views)
    BY DEF Views, Windowed
  <1>5. Files \in Seq(Views) /\ Len(Files) = Len(StaticFiles) + 2
    BY <1>3, <1>4 DEF Files
  <1>6. ASSUME NEW view \in Static
        PROVE  \E i \in 1 .. Len(Files) : Files[i] = view
    <2>1. PICK i \in 1 .. Len(StaticFiles) : StaticFiles[i] = view
      BY <1>1 DEF Static, Range
    <2>2. Files[i] = view /\ i \in 1 .. Len(Files)
      BY <1>1, <1>5, <2>1 DEF Files
    <2>. QED
      BY <2>2
  <1>7. /\ Files[Len(StaticFiles) + 1] = "od_window_stats"
        /\ Files[Len(StaticFiles) + 2] = "pu_hour_window_stats"
        /\ Len(StaticFiles) + 1 \in 1 .. Len(Files)
        /\ Len(StaticFiles) + 2 \in 1 .. Len(Files)
    BY <1>1, <1>5 DEF Files
  <1>8. Static \cap Windowed = {}
    BY DEF FeastAssumption, Static, Windowed
  <1>9. Files # <<>>
    BY <1>5, <1>7
  <1>. QED
    BY <1>2, <1>3, <1>5, <1>6, <1>7, <1>8, <1>9 DEF Views, Windowed

(* A source that can be read has rows, and all of them are knowable by the *)
(* end of the train months.                                                *)
LEMMA RowsAreKnowable ==
    ASSUME FeastAssumption, NEW view \in Views, NEW content \in Stored(view)
    PROVE  /\ RowsOf(view, content) # {}
           /\ \A row \in RowsOf(view, content) : row.stamp \in Nat /\ row.stamp <= HeldOut
  <1>1. CASE view \in Windowed
    <2>1. content \in Contents /\ RowsOf(view, content) = WindowRows(content)
      BY <1>1 DEF Stored, RowsOf
    <2>2. content.months \in SUBSET TrainMonths /\ content.months # {}
          /\ content.trips \in Trips
      BY <2>1 DEF Contents
    <2>3. ASSUME NEW row \in WindowRows(content)
          PROVE  row.stamp \in Nat /\ row.stamp <= HeldOut
      <3>1. PICK W \in Windows(content.months), k \in Kinds :
               row = [key |-> k, stamp |-> WindowStamp(W),
                      value |-> FitWindow(content.trips, W)[k]]
        BY RowsAre
      <3>2. row.stamp = WindowStamp(W)
        BY <3>1
      <3>. QED
        BY <2>2, <3>2, WindowsAre
    <2>4. WindowRows(content) # {}
      <3>1. PICK m \in content.months : m \in TrainMonths
        BY <2>2
      <3>2. PICK k \in Kinds : content.trips[m][k] # 0
        BY <2>2, <3>1 DEF Trips
      <3>3. content.months \in Windows(content.months)
        BY <2>2 DEF Windows
      <3>4. <<m, k, content.trips[m][k]>> \in FitWindow(content.trips, content.months)[k]
        BY <3>2 DEF FitWindow
      <3>5. [key |-> k, stamp |-> WindowStamp(content.months),
             value |-> FitWindow(content.trips, content.months)[k]] \in WindowRows(content)
        BY <3>3, <3>4, RowsAre
      <3>. QED
        BY <3>5
    <2>. QED
      BY <2>1, <2>3, <2>4
  <1>2. CASE view \notin Windowed
    <2>1. RowsOf(view, content) =
             {[key |-> "known", stamp |-> Min(TrainMonths), value |-> {content.reference}]}
      BY <1>2 DEF RowsOf, StaticRows, StaticStamp
    <2>2. Min(TrainMonths) \in Nat /\ Min(TrainMonths) <= HeldOut
      BY Calendar
    <2>. QED
      BY <2>1, <2>2
  <1>. QED
    BY <1>1, <1>2

(* As of the window of the sources, every row of theirs is known: the      *)
(* answers are the newest there are.                                       *)
LEMMA NewestAnswers ==
    ASSUME FeastAssumption, StoreTyped, AllReadable
    PROVE  /\ SourceWindow \in Nat
           /\ \A view \in Views : \A k : Join(Rows(view), k, SourceWindow) = Newest(view, k)
  <1>1. ASSUME NEW view \in Views
        PROVE  /\ Rows(view) # {}
               /\ \A row \in Rows(view) : row.stamp \in Nat /\ row.stamp <= HeldOut
    <2>1. sources[view] \in Stored(view)
      BY DEF StoreTyped, AllReadable, Readable
    <2>. QED
      BY <2>1, RowsAreKnowable DEF Rows
  <1>2. ASSUME NEW view \in Views
        PROVE  /\ LastStamp(view) \in Nat /\ LastStamp(view) <= HeldOut
               /\ \A row \in Rows(view) : row.stamp <= LastStamp(view)
    <2>1. /\ Stamps(view) \in SUBSET Nat /\ Stamps(view) # {}
          /\ \A y \in Stamps(view) : y <= HeldOut
      BY <1>1 DEF Stamps
    <2>2. Max(Stamps(view)) \in Stamps(view)
          /\ \A y \in Stamps(view) : Max(Stamps(view)) >= y
      BY <2>1, MaxIs, Calendar
    <2>3. LastStamp(view) \in Stamps(view)
          /\ \A y \in Stamps(view) : LastStamp(view) >= y
      BY <2>2 DEF LastStamp
    <2>4. LastStamp(view) \in Nat /\ LastStamp(view) <= HeldOut
      BY <2>1, <2>3
    <2>5. ASSUME NEW row \in Rows(view) PROVE row.stamp <= LastStamp(view)
      <3>1. row.stamp \in Stamps(view) /\ row.stamp \in Nat
        BY <1>1 DEF Stamps
      <3>. QED
        BY <2>3, <2>4, <3>1
    <2>. QED
      BY <2>4, <2>5
  <1>. DEFINE lasts == {LastStamp(view) : view \in Views}
  <1>3. lasts \in SUBSET Nat /\ lasts # {} /\ \A y \in lasts : y <= HeldOut
    BY <1>2 DEF Views, Windowed
  <1>4. Max(lasts) \in lasts /\ \A y \in lasts : Max(lasts) >= y
    BY <1>3, MaxIs, Calendar
  <1>5. SourceWindow \in Nat /\ \A view \in Views : SourceWindow >= LastStamp(view)
    BY <1>3, <1>4 DEF SourceWindow
  <1>6. ASSUME NEW view \in Views, NEW k
        PROVE  Join(Rows(view), k, SourceWindow) = Newest(view, k)
    <2>1. \A row \in Rows(view) : row.stamp <= SourceWindow
      BY <1>1, <1>2, <1>5
    <2>2. {row \in Rows(view) : row.key = k /\ row.stamp <= SourceWindow}
            = {row \in Rows(view) : row.key = k /\ row.stamp <= HeldOut}
      BY <1>1, <2>1
    <2>. QED
      BY <2>2 DEF Join, Newest
  <1>. QED
    BY <1>5, <1>6

-----------------------------------------------------------------------------
(* The feature store, a step at a time.                                    *)

LEMMA SourcesStand ==
    ASSUME UNCHANGED sources
    PROVE  /\ AllReadable' = AllReadable /\ SourceWindow' = SourceWindow
           /\ \A view, k : Newest(view, k)' = Newest(view, k)
           /\ \A view, k, until : Join(Rows(view), k, until)' = Join(Rows(view), k, until)
  BY DEF AllReadable, SourceWindow, LastStamp, Stamps, Rows, Newest

(* What touches neither the sources nor the store keeps what a             *)
(* materialization knows.                                                  *)
LEMMA FillStands ==
    ASSUME FillKnows, UNCHANGED <<sources, online, fill>>
    PROVE  FillKnows'
  BY SourcesStand DEF FillKnows, IsLeft, IsFilled

LEMMA BuildSteps ==
    ASSUME FeastAssumption, StoreInv, NEW months \in SUBSET TrainMonths,
           BuildSources(months) \/ FitSources
    PROVE  StoreInv'
  <1>. USE DEF StoreInv
  <1>1. UNCHANGED <<settled, reference, sources, online, fill>>
    BY DEF BuildSources, FitSources, data
  <1>2. FillKnows'
    BY <1>1, FillStands
  <1>3. /\ build' \in [left : Seq(Views), months : SUBSET TrainMonths,
                       fit : {NoSource} \cup Contents]
        /\ build'.months = {} => build'.left \in Seq(Static)
        /\ acts' \in Nat
    <2>1. CASE BuildSources(months)
      <3>1. build' = [left |-> IF months = {} THEN StaticFiles ELSE Files,
                      months |-> months, fit |-> NoSource]
            /\ acts' = acts + 1
        BY <2>1 DEF BuildSources, Act
      <3>2. StaticFiles \in Seq(Views) /\ StaticFiles \in Seq(Static) /\ Files \in Seq(Views)
        BY FilesAre
      <3>3. acts' \in Nat
        BY <3>1 DEF StoreTyped
      <3>. QED
        BY <3>1, <3>2, <3>3
    <2>2. CASE FitSources
      <3>1. /\ build.left # <<>> /\ Head(build.left) \in Windowed /\ acts' = acts
            /\ build' = [build EXCEPT !.fit = Built(settled, build.months)]
        BY <2>2 DEF FitSources
      <3>2. build.months # {}
        <4>1. ASSUME build.months = {} PROVE Head(build.left) \in Static
          BY <3>1, <4>1, HeadTailProperties DEF StoreTyped
        <4>. QED
          BY <3>1, <4>1, FilesAre
      <3>3. Built(settled, build.months) \in Contents
        BY <3>2 DEF Built, Contents, StoreTyped
      <3>. QED
        BY <3>1, <3>3 DEF StoreTyped
    <2>. QED
      BY <2>1, <2>2
  <1>4. StoreTyped'
    BY <1>1, <1>3 DEF StoreTyped
  <1>. QED
    BY <1>2, <1>4

(* Whoever writes the sources or the store disturbs a materialization.     *)
LEMMA Disturbs ==
    ASSUME StoreTyped, Disturb
    PROVE  /\ FillKnows'
           /\ fill' \in [left : Seq(Views), until : Nat, alone : BOOLEAN]
           /\ fill' # NoFill => fill'.left # <<>>
           /\ fill # NoFill => fill' # NoFill
  <1>1. fill' = [fill EXCEPT !.alone = (fill = NoFill)]
    BY DEF Disturb
  <1>2. CASE fill = NoFill
    <2>1. fill' = NoFill
      BY <1>1, <1>2 DEF NoFill
    <2>. QED
      BY <1>2, <2>1 DEF FillKnows, StoreTyped
  <1>3. CASE fill # NoFill
    <2>1. /\ fill'.alone = FALSE /\ fill'.left = fill.left
          /\ fill' \in [left : Seq(Views), until : Nat, alone : BOOLEAN]
      BY <1>1, <1>3 DEF StoreTyped
    <2>2. fill.left # <<>> /\ NoFill.left = <<>>
      BY <1>3 DEF StoreTyped, NoFill
    <2>. QED
      BY <2>1, <2>2 DEF FillKnows
  <1>. QED
    BY <1>2, <1>3

LEMMA SourceWritten ==
    ASSUME FeastAssumption, StoreInv, WriteSource
    PROVE  StoreInv'
  <1>. USE DEF StoreInv
  <1>. DEFINE view == Head(build.left)
              content == IF view \in Static THEN [reference |-> reference] ELSE build.fit
  <1>1. /\ build.left # <<>> /\ (view \in Windowed => build.fit # NoSource)
        /\ sources' = [sources EXCEPT ![view] = content]
        /\ build' = IF Len(build.left) = 1 THEN NoBuild ELSE [build EXCEPT !.left = Tail(@)]
        /\ UNCHANGED <<settled, reference, online, acts>> /\ Disturb
    BY DEF WriteSource, data
  <1>2. /\ FillKnows'
        /\ fill' \in [left : Seq(Views), until : Nat, alone : BOOLEAN]
        /\ fill' # NoFill => fill'.left # <<>>
    BY <1>1, Disturbs
  <1>3. view \in Views /\ build.left \in Seq(Views)
    BY <1>1, HeadTailProperties DEF StoreTyped
  <1>4. content \in Stored(view) /\ content \in Contents \cup [reference : Nat]
    BY <1>1, <1>3, FilesAre DEF Stored, StoreTyped, Views
  <1>5. /\ sources' \in [Views -> {NoSource, Torn} \cup Contents \cup [reference : Nat]]
        /\ \A v \in Views : sources'[v] \in {NoSource, Torn} \cup Stored(v)
    BY <1>1, <1>3, <1>4 DEF StoreTyped
  <1>6. /\ build' \in [left : Seq(Views), months : SUBSET TrainMonths,
                       fit : {NoSource} \cup Contents]
        /\ build'.months = {} => build'.left \in Seq(Static)
    <2>1. NoBuild \in [left : Seq(Views), months : SUBSET TrainMonths,
                       fit : {NoSource} \cup Contents]
          /\ NoBuild.left \in Seq(Static)
      BY DEF NoBuild
    <2>2. Tail(build.left) \in Seq(Views)
          /\ (build.left \in Seq(Static) => Tail(build.left) \in Seq(Static))
      BY <1>1, <1>3, HeadTailProperties
    <2>. QED
      BY <1>1, <2>1, <2>2 DEF StoreTyped
  <1>7. UNCHANGED <<settled, reference, online, acts>>
    BY <1>1
  <1>8. StoreTyped'
    BY <1>2, <1>5, <1>6, <1>7 DEF StoreTyped
  <1>. QED
    BY <1>2, <1>8

LEMMA BuildKilled ==
    ASSUME FeastAssumption, StoreInv, KillBuild
    PROVE  StoreInv'
  <1>. USE DEF StoreInv
  <1>1. /\ build' = NoBuild /\ acts' = acts + 1 /\ Disturb
        /\ sources' \in {sources, [sources EXCEPT ![Head(build.left)] = Torn]}
        /\ UNCHANGED <<settled, reference, online>>
    BY DEF KillBuild, Act, data
  <1>2. /\ FillKnows'
        /\ fill' \in [left : Seq(Views), until : Nat, alone : BOOLEAN]
        /\ fill' # NoFill => fill'.left # <<>>
    BY <1>1, Disturbs
  <1>3. /\ sources' \in [Views -> {NoSource, Torn} \cup Contents \cup [reference : Nat]]
        /\ \A v \in Views : sources'[v] \in {NoSource, Torn} \cup Stored(v)
    BY <1>1 DEF StoreTyped
  <1>4. NoBuild \in [left : Seq(Views), months : SUBSET TrainMonths,
                     fit : {NoSource} \cup Contents]
        /\ NoBuild.left \in Seq(Static)
    BY DEF NoBuild
  <1>5. StoreTyped'
    BY SMTT(30), <1>1, <1>2, <1>3, <1>4 DEF StoreTyped
  <1>. QED
    BY <1>2, <1>5

LEMMA Materializes ==
    ASSUME FeastAssumption, StoreInv, Materialize
    PROVE  StoreInv'
  <1>. USE DEF StoreInv
  <1>1. /\ AllReadable /\ acts' = acts + 1
        /\ fill' = [left |-> Files, until |-> SourceWindow, alone |-> TRUE]
        /\ UNCHANGED <<settled, reference, sources, build, online>>
    BY DEF Materialize, Act, data
  <1>2. fill' \in [left : Seq(Views), until : Nat, alone : BOOLEAN] /\ fill'.left # <<>>
    BY <1>1, FilesAre, NewestAnswers
  <1>3. StoreTyped'
    BY <1>1, <1>2 DEF StoreTyped
  <1>4. FillKnows'
    <2>1. AllReadable' /\ fill'.until = SourceWindow'
      BY <1>1, SourcesStand
    <2>2. \A view \in Views : IsLeft(view)'
      BY <1>1, FilesAre DEF IsLeft
    <2>. QED
      BY <2>1, <2>2 DEF FillKnows
  <1>. QED
    BY <1>3, <1>4

LEMMA WorldChanges ==
    ASSUME FeastAssumption, StoreInv, Resettle \/ Rederive
    PROVE  StoreInv'
  <1>. USE DEF StoreInv
  <1>1. UNCHANGED <<sources, build, online, fill>> /\ acts' = acts + 1
    BY DEF Resettle, Rederive, Act
  <1>2. settled' \in Trips /\ reference' \in Nat
    <2>1. CASE Resettle
      <3>1. PICK m \in TrainMonths, k \in Kinds, bytes \in {0, 2} :
               /\ settled' = [settled EXCEPT ![m][k] = bytes]
               /\ \E other \in Kinds : settled'[m][other] # 0
        BY <2>1 DEF Resettle
      <3>2. settled \in [TrainMonths -> [Kinds -> Nat]]
            /\ \A n \in TrainMonths : \E other \in Kinds : settled[n][other] # 0
        BY DEF StoreTyped, Trips
      <3>. DEFINE month == [settled[m] EXCEPT ![k] = bytes]
      <3>3. month \in [Kinds -> Nat] /\ settled' = [settled EXCEPT ![m] = month]
        BY <3>1, <3>2
      <3>. HIDE DEF month
      <3>4. settled' \in [TrainMonths -> [Kinds -> Nat]]
        BY <3>2, <3>3
      <3>5. \A n \in TrainMonths : \E other \in Kinds : settled'[n][other] # 0
        BY <3>1, <3>2, <3>3
      <3>6. reference' = reference
        BY <2>1 DEF Resettle
      <3>. QED
        BY <3>4, <3>5, <3>6 DEF StoreTyped, Trips
    <2>2. CASE Rederive
      BY <2>2 DEF Rederive, StoreTyped
    <2>. QED
      BY <2>1, <2>2
  <1>3. StoreTyped'
    BY <1>1, <1>2 DEF StoreTyped
  <1>4. FillKnows'
    BY <1>1, FillStands
  <1>. QED
    BY <1>3, <1>4

LEMMA LongerThanOne ==
    ASSUME NEW S, NEW list \in Seq(S), list # <<>>, Len(list) # 1
    PROVE  /\ Tail(list) \in Seq(S) /\ Tail(list) # <<>>
           /\ Len(Tail(list)) = Len(list) - 1 /\ Len(list) > 1
           /\ \A i \in 1 .. Len(Tail(list)) : Tail(list)[i] = list[i + 1]
           /\ Head(list) = list[1]
  <1>0. Len(list) \in Nat \ {0}
    BY EmptySeq
  <1>1. Len(list) \in Nat /\ Len(list) > 1
    BY <1>0
  <1>2. Tail(list) \in Seq(S) /\ Len(Tail(list)) = Len(list) - 1
    BY HeadTailProperties
  <1>3. Len(Tail(list)) # 0
    BY <1>1, <1>2
  <1>4. Tail(list) # <<>>
    BY <1>3, EmptySeq
  <1>5. \A i \in 1 .. Len(Tail(list)) : Tail(list)[i] = list[i + 1]
    BY HeadTailProperties
  <1>. QED
    BY <1>1, <1>2, <1>4, <1>5, HeadTailProperties

(* What a materialization writes of a view, it writes over that view only. *)
LEMMA FilledIs ==
    ASSUME StoreTyped, NEW view \in Views, NEW keys
    PROVE  LET then == Filled(view, keys)
               answer(k) == Join(Rows(view), k, fill.until)
           IN /\ then = [v \in Views |-> [k \in KeysOf(v) |-> then[v][k]]]
              /\ \A v \in Views : v # view => then[v] = online[v]
              /\ \A k \in KeysOf(view) :
                    k \in keys /\ answer(k) # {} => then[view][k] = answer(k)
  <1>. DEFINE then == Filled(view, keys)
              answer(k) == Join(Rows(view), k, fill.until)
              written == [k \in KeysOf(view) |->
                             IF k \in keys /\ answer(k) # {} THEN answer(k)
                             ELSE online[view][k]]
  <1>1. online = [v \in Views |-> [k \in KeysOf(v) |-> online[v][k]]]
    BY DEF StoreTyped
  <1>2. then = [online EXCEPT ![view] = written]
    BY DEF Filled
  <1>. HIDE DEF then
  <1>3. written = [k \in KeysOf(view) |-> written[k]]
    OBVIOUS
  <1>4. \A k \in KeysOf(view) : k \in keys /\ answer(k) # {} => written[k] = answer(k)
    OBVIOUS
  <1>. HIDE DEF written, answer
  <1>5. DOMAIN online = Views
    BY <1>1
  <1>6. then[view] = written /\ \A v \in Views : v # view => then[v] = online[v]
    BY <1>2, <1>5
  <1>7. then = [v \in Views |-> then[v]]
    BY <1>2, <1>5
  <1>8. ASSUME NEW v \in Views PROVE then[v] = [k \in KeysOf(v) |-> then[v][k]]
    <2>1. CASE v = view
      BY <1>3, <1>6, <2>1
    <2>2. CASE v # view
      <3>1. online[v] = [k \in KeysOf(v) |-> online[v][k]]
        BY <1>1
      <3>. QED
        BY <1>6, <2>2, <3>1
    <2>. QED
      BY <2>1, <2>2
  <1>9. then = [v \in Views |-> [k \in KeysOf(v) |-> then[v][k]]]
    BY <1>7, <1>8
  <1>. QED
    BY <1>4, <1>6, <1>9 DEF then, answer

(* A view that an undisturbed materialization writes, it fills; those it   *)
(* had filled stay so.                                                     *)
LEMMA ViewFilled ==
    ASSUME FeastAssumption, StoreInv, FillView
    PROVE  /\ fill # NoFill /\ Head(fill.left) \in Views /\ UNCHANGED sources
           /\ online' = [v \in Views |-> [k \in KeysOf(v) |-> online'[v][k]]]
           /\ fill.alone => \A v \in Views :
                 v = Head(fill.left) \/ IsFilled(v) => IsFilled(v)'
  <1>. DEFINE view == Head(fill.left)
  <1>1. /\ fill # NoFill /\ UNCHANGED sources
        /\ online' = Filled(view, KeysOf(view))
    BY DEF FillView
  <1>2. view \in Views
    BY <1>1, HeadTailProperties DEF StoreInv, StoreTyped
  <1>3. /\ online' = [v \in Views |-> [k \in KeysOf(v) |-> online'[v][k]]]
        /\ \A v \in Views : v # view => online'[v] = online[v]
        /\ \A k \in KeysOf(view) : Join(Rows(view), k, fill.until) # {} =>
              online'[view][k] = Join(Rows(view), k, fill.until)
    BY <1>1, <1>2, FilledIs DEF StoreInv
  <1>. HIDE DEF view
  <1>4. ASSUME fill.alone, NEW v \in Views, v = view \/ IsFilled(v)
        PROVE  IsFilled(v)'
    <2>1. \A w, k : Newest(w, k)' = Newest(w, k)
      BY <1>1, SourcesStand
    <2>2. CASE v = view
      <3>1. \A k : Join(Rows(view), k, fill.until) = Newest(view, k)
        BY <1>1, <1>2, <1>4, NewestAnswers DEF StoreInv, FillKnows
      <3>. QED
        BY <1>3, <2>1, <2>2, <3>1 DEF IsFilled
    <2>3. CASE v # view
      BY <1>3, <1>4, <2>1, <2>3 DEF IsFilled
    <2>. QED
      BY <2>2, <2>3
  <1>. QED
    BY <1>1, <1>2, <1>3, <1>4 DEF view

LEMMA Fills ==
    ASSUME FeastAssumption, StoreInv, FillView
    PROVE  StoreInv'
  <1>. USE DEF StoreInv
  <1>1. /\ UNCHANGED <<settled, reference, sources, build, acts>>
        /\ fill' = IF Len(fill.left) = 1 THEN NoFill ELSE [fill EXCEPT !.left = Tail(@)]
    BY DEF FillView, data
  <1>2. /\ fill # NoFill /\ Head(fill.left) \in Views
        /\ online' = [v \in Views |-> [k \in KeysOf(v) |-> online'[v][k]]]
        /\ fill.alone => \A v \in Views :
              v = Head(fill.left) \/ IsFilled(v) => IsFilled(v)'
    BY ViewFilled
  <1>3. fill.left \in Seq(Views) /\ fill.left # <<>>
    BY <1>2 DEF StoreTyped
  <1>4. CASE fill' = NoFill
    <2>1. fill' \in [left : Seq(Views), until : Nat, alone : BOOLEAN]
      BY <1>4 DEF NoFill
    <2>2. StoreTyped'
      BY <1>1, <1>2, <1>4, <2>1 DEF StoreTyped
    <2>. QED
      BY <1>4, <2>2 DEF FillKnows
  <1>5. CASE Len(fill.left) # 1 /\ fill' = [fill EXCEPT !.left = Tail(@)]
    <2>1. /\ Tail(fill.left) \in Seq(Views)
          /\ Len(Tail(fill.left)) = Len(fill.left) - 1 /\ Len(fill.left) > 1
          /\ \A i \in 1 .. Len(Tail(fill.left)) : Tail(fill.left)[i] = fill.left[i + 1]
          /\ Head(fill.left) = fill.left[1]
      BY <1>3, <1>5, LongerThanOne
    <2>2. /\ fill'.left = Tail(fill.left) /\ fill'.alone = fill.alone
          /\ fill'.until = fill.until
          /\ fill' \in [left : Seq(Views), until : Nat, alone : BOOLEAN]
      BY <1>5, <2>1 DEF StoreTyped
    <2>3. fill'.left # <<>>
      BY <1>3, <1>5, <2>2, LongerThanOne
    <2>4. StoreTyped'
      BY <1>1, <1>2, <2>2, <2>3 DEF StoreTyped
    <2>5. ASSUME fill.alone, NEW v \in Views PROVE IsLeft(v)' \/ IsFilled(v)'
      <3>1. CASE v = Head(fill.left) \/ IsFilled(v)
        BY <1>2, <2>5, <3>1
      <3>2. CASE IsLeft(v) /\ v # Head(fill.left)
        <4>1. PICK i \in 1 .. Len(fill.left) : fill.left[i] = v
          BY <3>2 DEF IsLeft
        <4>2. i - 1 \in 1 .. Len(Tail(fill.left)) /\ Tail(fill.left)[i - 1] = v
          BY <2>1, <3>2, <4>1
        <4>. QED
          BY <2>2, <4>2 DEF IsLeft
      <3>. QED
        BY <1>2, <2>5, <3>1, <3>2 DEF FillKnows
    <2>6. FillKnows'
      BY <1>1, <1>2, <2>2, <2>5, SourcesStand DEF FillKnows
    <2>. QED
      BY <2>4, <2>6
  <1>. QED
    BY <1>1, <1>4, <1>5

LEMMA FillKilled ==
    ASSUME FeastAssumption, StoreInv, KillFill
    PROVE  StoreInv'
  <1>. USE DEF StoreInv
  <1>1. /\ fill # NoFill /\ fill' = NoFill
        /\ UNCHANGED <<settled, reference, sources, build>>
        /\ acts' = acts \/ acts' = acts + 1
        /\ online' = online \/ \E keys : online' = Filled(Head(fill.left), keys)
    BY DEF KillFill, Act, data
  <1>2. Head(fill.left) \in Views
    BY <1>1, HeadTailProperties DEF StoreTyped
  <1>3. online' = [v \in Views |-> [k \in KeysOf(v) |-> online'[v][k]]]
    <2>1. CASE online' = online
      BY <2>1 DEF StoreTyped
    <2>2. ASSUME NEW keys, online' = Filled(Head(fill.left), keys)
          PROVE  online' = [v \in Views |-> [k \in KeysOf(v) |-> online'[v][k]]]
      BY <1>2, <2>2, FilledIs
    <2>. QED
      BY <1>1, <2>1, <2>2
  <1>4. NoFill \in [left : Seq(Views), until : Nat, alone : BOOLEAN]
    BY DEF NoFill
  <1>5. acts' \in Nat
    BY <1>1 DEF StoreTyped
  <1>6. StoreTyped'
    BY <1>1, <1>3, <1>4, <1>5 DEF StoreTyped
  <1>. QED
    BY <1>1, <1>6 DEF FillKnows

LEMMA StoreKeeps ==
    ASSUME FeastAssumption, StoreInv, StoreNext
    PROVE  StoreInv'
  BY BuildSteps, SourceWritten, BuildKilled, Materializes, Fills, FillKilled,
     WorldChanges DEF StoreNext

LEMMA InitStore ==
    ASSUME FeastAssumption, StoreInit
    PROVE  StoreInv
  <1>1. settled \in Trips
    BY DEF StoreInit, FeastAssumption, Trips
  <1>2. Built(settled, TrainMonths) \in Contents
    BY <1>1, Calendar DEF Built, Contents
  <1>3. /\ sources \in [Views -> {NoSource, Torn} \cup Contents \cup [reference : Nat]]
        /\ \A view \in Views : sources[view] \in {NoSource, Torn} \cup Stored(view)
    BY <1>2, FilesAre DEF StoreInit, Published, Stored, Views
  <1>4. online = [view \in Views |-> [k \in KeysOf(view) |-> online[view][k]]]
    BY DEF StoreInit
  <1>5. /\ build \in [left : Seq(Views), months : SUBSET TrainMonths,
                      fit : {NoSource} \cup Contents]
        /\ build.left \in Seq(Static)
    BY DEF StoreInit, NoBuild
  <1>6. fill = NoFill /\ NoFill \in [left : Seq(Views), until : Nat, alone : BOOLEAN]
    BY DEF StoreInit, NoFill
  <1>7. reference \in Nat /\ acts \in Nat
    BY DEF StoreInit
  <1>8. StoreTyped
    BY <1>1, <1>3, <1>4, <1>5, <1>6, <1>7 DEF StoreTyped
  <1>. QED
    BY <1>6, <1>8 DEF StoreInv, FillKnows

-----------------------------------------------------------------------------
(* The comparisons and the red team, a step at a time.                     *)

LEMMA StoreStands ==
    ASSUME StoreInv, UNCHANGED <<data, sources, build, online, fill>>,
           acts' \in {acts, acts + 1}
    PROVE  StoreInv'
  <1>1. StoreTyped'
    BY DEF StoreInv, StoreTyped, data
  <1>2. FillKnows'
    BY FillStands DEF StoreInv
  <1>. QED
    BY <1>1, <1>2 DEF StoreInv

(* A comparison during which the stores are written is not a quiet one.    *)
LEMMA MeanwhileKnows ==
    ASSUME FeastAssumption, FInv, Meanwhile(StoreNext)
    PROVE  FInv'
  <1>1. StoreInv'
    BY StoreKeeps DEF FInv, Meanwhile
  <1>2. /\ check' = [check EXCEPT !.quiet = (check = NoCheck)
                        \/ (@ /\ sources' = sources /\ online' = online)]
        /\ UNCHANGED drill
    BY DEF Meanwhile
  <1>3. check = [of |-> check.of, got |-> check.got, asOf |-> check.asOf,
                 quiet |-> check.quiet]
    BY DEF FInv, CheckKnows
  <1>4. /\ check' = [of |-> check'.of, got |-> check'.got, asOf |-> check'.asOf,
                     quiet |-> check'.quiet]
        /\ check'.of = check.of /\ check'.got = check.got /\ check'.asOf = check.asOf
    BY <1>2, <1>3
  <1>5. check = NoCheck => check' = NoCheck
    <2>1. ASSUME check = NoCheck PROVE check' = [check EXCEPT !.quiet = TRUE]
      BY <1>2, <2>1
    <2>. QED
      BY <2>1 DEF NoCheck
  <1>6. ASSUME check'.of = "online", check'.quiet
        PROVE  /\ AllReadable' /\ check'.asOf = SourceWindow'
               /\ check'.got \in {<<>>, <<online'>>, <<online', Offline'>>}
    <2>. DEFINE still == check.quiet /\ sources' = sources /\ online' = online
    <2>0. check # NoCheck /\ check.of = "online"
      <3>1. check'.of = "online"
        BY <1>6
      <3>2. check.of = "online" /\ NoCheck.of = "none"
        BY <1>4, <3>1 DEF NoCheck
      <3>. QED
        BY <3>2
    <2>1. check' = [check EXCEPT !.quiet = still]
      BY <1>2, <2>0
    <2>2. check'.quiet = still
      BY <1>3, <2>1
    <2>3. check.quiet /\ sources' = sources /\ online' = online /\ check.of = "online"
      BY <1>6, <2>0, <2>2
    <2>4. Offline' = Offline /\ AllReadable' = AllReadable /\ SourceWindow' = SourceWindow
      BY <2>3, SourcesStand DEF Offline
    <2>. QED
      BY <1>4, <2>3, <2>4 DEF FInv, CheckKnows
  <1>7. CheckKnows'
    BY <1>2, <1>4, <1>5, <1>6 DEF FInv, CheckKnows, Tampering
  <1>. QED
    BY <1>1, <1>7 DEF FInv

LEMMA ChecksBegin ==
    ASSUME FInv, Retrieve \/ Compare \/ AskServer
    PROVE  FInv'
  <1>1. /\ UNCHANGED <<data, sources, build, online, fill, drill>>
        /\ acts' \in {acts, acts + 1}
    BY DEF Retrieve, Compare, AskServer, Asked, Act, Begin
  <1>2. StoreInv'
    BY <1>1, StoreStands DEF FInv
  <1>3. CASE Compare
    <2>1. /\ check' = [of |-> "online", got |-> <<>>, asOf |-> SourceWindow, quiet |-> TRUE]
          /\ AllReadable /\ ~(drill.at \in {"seen", "broken"})
      BY <1>3 DEF Compare, Begin, Asked, Drilling, Tampering
    <2>2. AllReadable' /\ SourceWindow' = SourceWindow
      BY <1>1, <2>1, SourcesStand
    <2>3. CheckKnows'
      BY <1>1, <2>1, <2>2 DEF FInv, CheckKnows, Tampering
    <2>. QED
      BY <1>2, <2>3 DEF FInv
  <1>4. CASE Retrieve \/ AskServer
    <2>1. /\ check'.of \in {"retrieval", "server"} /\ ~Drilling
          /\ check' = [of |-> check'.of, got |-> check'.got, asOf |-> check'.asOf,
                       quiet |-> check'.quiet]
      BY <1>4 DEF Retrieve, AskServer, Begin, Asked
    <2>2. CheckKnows'
      BY <1>1, <2>1 DEF FInv, CheckKnows, Tampering, Drilling
    <2>. QED
      BY <1>2, <2>2 DEF FInv
  <1>. QED
    BY <1>3, <1>4

LEMMA PairOf ==
    ASSUME NEW x, NEW y
    PROVE  Append(<<x>>, y) = <<x, y>>
  <1>1. <<x>> \in Seq({x, y}) /\ Len(<<x>>) = 1 /\ <<x>>[1] = x
    OBVIOUS
  <1>2. <<x, y>> \in Seq({x, y}) /\ Len(<<x, y>>) = 2
        /\ <<x, y>>[1] = x /\ <<x, y>>[2] = y
    OBVIOUS
  <1>. DEFINE pair == Append(<<x>>, y)
  <1>3. pair \in Seq({x, y}) /\ Len(pair) = 2 /\ pair[1] = x /\ pair[2] = y
    BY <1>1, AppendProperties
  <1>. HIDE DEF pair
  <1>4. \A i \in 1 .. Len(pair) : pair[i] = <<x, y>>[i]
    BY <1>2, <1>3
  <1>5. pair = <<x, y>>
    BY <1>2, <1>3, <1>4, SeqEqual
  <1>. QED
    BY <1>5 DEF pair

LEMMA ChecksRead ==
    ASSUME FInv, ReadAnswers \/ ReadOnline \/ ReadOffline
    PROVE  FInv'
  <1>. DEFINE reading == IF check.of = "retrieval" THEN sources
                         ELSE IF check.got = <<>> THEN online
                         ELSE [view \in Views |->
                                 [k \in DeclaredKeys(view) |->
                                    Join(Rows(view), k, check.asOf)]]
  <1>1. /\ UNCHANGED <<stores, drill>> /\ check.of \in {"retrieval", "online"}
        /\ check' = [check EXCEPT !.got = Append(@, reading)]
        /\ check.of = "online" => check.got = <<>> \/ Len(check.got) = 1
    <2>1. CASE ReadAnswers
      BY <2>1 DEF ReadAnswers, Take
    <2>2. CASE ReadOnline
      BY <2>2 DEF ReadOnline, Take
    <2>3. CASE ReadOffline
      <3>1. Len(check.got) = 1 /\ check.of = "online"
        BY <2>3 DEF ReadOffline
      <3>2. check.got # <<>>
        BY <3>1, EmptySeq
      <3>. QED
        BY <2>3, <3>1, <3>2 DEF ReadOffline, Take
    <2>. QED
      BY <2>1, <2>2, <2>3
  <1>2. UNCHANGED <<data, sources, build, online, fill, acts>>
    BY <1>1 DEF stores
  <1>3. StoreInv'
    BY <1>2, StoreStands DEF FInv
  <1>4. /\ check'.of = check.of /\ check'.asOf = check.asOf /\ check'.quiet = check.quiet
        /\ check'.got = Append(check.got, reading)
        /\ check' = [of |-> check'.of, got |-> check'.got, asOf |-> check'.asOf,
                     quiet |-> check'.quiet]
    BY <1>1 DEF FInv, CheckKnows
  <1>5. ASSUME check.of = "online", check.quiet
        PROVE  /\ AllReadable' /\ check'.asOf = SourceWindow'
               /\ check'.got \in {<<>>, <<online'>>, <<online', Offline'>>}
    <2>1. /\ AllReadable /\ check.asOf = SourceWindow
          /\ check.got \in {<<>>, <<online>>, <<online, Offline>>}
      BY <1>5 DEF FInv, CheckKnows
    <2>2. Offline' = Offline /\ AllReadable' = AllReadable /\ SourceWindow' = SourceWindow
      BY <1>2, SourcesStand DEF Offline
    <2>3. check.got = <<>> => check'.got = <<online>>
      BY <1>4, <1>5
    <2>4. ASSUME check.got = <<online>> PROVE check'.got = <<online, Offline>>
      <3>1. check.got # <<>> /\ check.of # "retrieval"
        BY <1>5, <2>4
      <3>2. reading = Offline
        BY <2>1, <3>1 DEF Offline
      <3>. HIDE DEF reading
      <3>3. \A x, y : Append(<<x>>, y) = <<x, y>>
        BY PairOf
      <3>4. check'.got = Append(<<online>>, Offline)
        BY <1>4, <2>4, <3>2
      <3>. QED
        BY <3>3, <3>4
    <2>. QED
      BY <1>1, <1>2, <1>4, <1>5, <2>1, <2>2, <2>3, <2>4
  <1>. HIDE DEF reading
  <1>6. check # NoCheck
    BY <1>1 DEF NoCheck
  <1>7. CheckKnows'
    BY <1>1, <1>4, <1>5, <1>6 DEF FInv, CheckKnows, Tampering
  <1>. QED
    BY <1>3, <1>7 DEF FInv

(* A comparison that says something is over, whatever the red team makes   *)
(* of it.                                                                  *)
LEMMA ChecksEnd ==
    ASSUME FInv, JudgeRetrieval \/ JudgeOnline \/ JudgeServer \/ Raise
    PROVE  FInv'
  <1>1. /\ check' = NoCheck /\ UNCHANGED stores
        /\ drill' = drill \/ \E how : drill' = [drill EXCEPT !.at = how]
    BY DEF JudgeRetrieval, JudgeOnline, JudgeServer, Raise, Conclude
  <1>2. StoreInv'
    BY <1>1, StoreStands DEF FInv, stores
  <1>3. drill' = [at |-> drill'.at, saved |-> drill'.saved]
    BY <1>1 DEF FInv, CheckKnows
  <1>4. CheckKnows'
    BY <1>1, <1>3 DEF CheckKnows, NoCheck
  <1>. QED
    BY <1>2, <1>4 DEF FInv

LEMMA DrillSteps ==
    ASSUME FInv, Plant \/ Restore \/ KillDrill
    PROVE  FInv'
  <1>0. check = NoCheck \/ KillDrill
    BY DEF FInv, CheckKnows, Plant, Restore
  <1>1. check' = NoCheck /\ drill' = [at |-> drill'.at, saved |-> drill'.saved]
    BY <1>0 DEF Plant, Restore, KillDrill
  <1>2. CheckKnows'
    BY <1>1 DEF CheckKnows, NoCheck
  <1>3. /\ UNCHANGED <<data, sources, build>> /\ acts' \in {acts, acts + 1}
        /\ \/ UNCHANGED <<online, fill>>
           \/ Disturb /\ \E rows : Put(rows)
    BY DEF Plant, Restore, KillDrill, Act
  <1>4. CASE UNCHANGED <<online, fill>>
    BY <1>2, <1>3, <1>4, StoreStands DEF FInv
  <1>5. ASSUME Disturb, NEW rows, Put(rows) PROVE StoreInv'
    <2>1. /\ FillKnows'
          /\ fill' \in [left : Seq(Views), until : Nat, alone : BOOLEAN]
          /\ fill' # NoFill => fill'.left # <<>>
      BY <1>5, Disturbs DEF FInv, StoreInv
    <2>2. online' = [online EXCEPT ![OD][TargetKind] = rows]
      BY <1>5 DEF Put
    <2>3. online = [view \in Views |-> [k \in KeysOf(view) |-> online[view][k]]]
      BY DEF FInv, StoreInv, StoreTyped
    <2>4. online' = [view \in Views |-> [k \in KeysOf(view) |-> online'[view][k]]]
      <3>. DEFINE column == [online[OD] EXCEPT ![TargetKind] = rows]
      <3>1. online' = [online EXCEPT ![OD] = column]
        BY <2>2
      <3>2. OD \in Views /\ column = [k \in KeysOf(OD) |-> column[k]]
        BY <2>3 DEF OD, Views, Windowed
      <3>. HIDE DEF column
      <3>3. online' = [view \in Views |-> online'[view]]
        BY <2>3, <3>1
      <3>4. ASSUME NEW view \in Views
            PROVE  online'[view] = [k \in KeysOf(view) |-> online'[view][k]]
        <4>1. CASE view = OD
          BY <2>3, <3>1, <3>2, <4>1
        <4>2. CASE view # OD
          <5>1. online'[view] = online[view]
            BY <2>3, <3>1, <4>2
          <5>2. online[view] = [k \in KeysOf(view) |-> online[view][k]]
            BY <2>3
          <5>. QED
            BY <5>1, <5>2
        <4>. QED
          BY <4>1, <4>2
      <3>. QED
        BY <3>3, <3>4
    <2>5. StoreTyped'
      BY <1>3, <2>1, <2>4 DEF FInv, StoreInv, StoreTyped, data
    <2>. QED
      BY <2>1, <2>5 DEF StoreInv
  <1>. QED
    BY <1>2, <1>3, <1>4, <1>5 DEF FInv

LEMMA StoreInvariant ==
    ASSUME FeastAssumption
    PROVE  Spec => []FInv
  <1>1. ASSUME Init PROVE FInv
    <2>1. CheckKnows
      BY <1>1 DEF Init, CheckKnows, NoCheck, NoDrill, Tampering
    <2>. QED
      BY <1>1, <2>1, InitStore DEF Init, FInv
  <1>2. ASSUME FInv, [Next]_vars PROVE FInv'
    <2>1. CASE UNCHANGED vars
      <3>1. StoreInv'
        BY <1>2, <2>1, StoreStands DEF FInv, vars, stores
      <3>2. UNCHANGED <<check, drill, sources, online>>
        BY <2>1 DEF vars, stores, checks
      <3>3. Offline' = Offline /\ AllReadable' = AllReadable /\ SourceWindow' = SourceWindow
        BY <3>2, SourcesStand DEF Offline
      <3>4. CheckKnows'
        BY <1>2, <3>2, <3>3 DEF FInv, CheckKnows, Tampering
      <3>. QED
        BY <3>1, <3>4 DEF FInv
    <2>2. CASE Next
      BY <1>2, <2>2, MeanwhileKnows, ChecksBegin, ChecksRead, ChecksEnd, DrillSteps
         DEF Next
    <2>. QED
      BY <1>2, <2>1, <2>2
  <1>. QED
    BY <1>1, <1>2, PTL DEF Spec

(* The join answers a row of any month with all its trips before that      *)
(* month and with none of that month or after it; over all the train       *)
(* months that is the value of the feature path.                           *)
THEOREM JoinIsPointInTime ==
    ASSUME FeastAssumption
    PROVE  Spec => []PointInTime
  <1>1. ASSUME FInv PROVE PointInTime
    <2>1. ASSUME NEW view \in Windowed, Readable(sources[view]), NEW m \in Months,
                 NEW k \in Kinds
          PROVE  LET content == sources[view]
                     tables == Fit(content.trips, content.months)
                     value == Value(Join(WindowRows(content), k, m))
                 IN /\ value = FitWindow(content.trips, History(content.months, m))[k]
                    /\ content.months = TrainMonths => value = Transform(tables, k, m)
      <3>. DEFINE content == sources[view]
                  tables == Fit(content.trips, content.months)
                  value == Value(Join(WindowRows(content), k, m))
      <3>1. content \in Contents
        BY <1>1, <2>1 DEF FInv, StoreInv, StoreTyped, Readable, Stored, Views
      <3>2. m \in Nat /\ m \in Min(TrainMonths) .. HeldOut
        BY <2>1, Calendar
      <3>3. value = FitWindow(content.trips, History(content.months, m))[k]
        BY <3>1, <3>2, JoinIsHistory
      <3>4. ASSUME content.months = TrainMonths PROVE value = Transform(tables, k, m)
        <4>1. /\ tables.by_month = [n \in TrainMonths |->
                     FitWindow(content.trips, History(TrainMonths, n))]
              /\ tables.full = FitWindow(content.trips, TrainMonths)
          BY <3>4 DEF Fit
        <4>2. CASE m \in TrainMonths
          BY <3>3, <3>4, <4>1, <4>2 DEF Transform
        <4>3. CASE m \notin TrainMonths
          <5>1. \A n \in TrainMonths : n < m
            BY <3>2, <4>3, Calendar
          <5>2. History(TrainMonths, m) = TrainMonths
            BY <5>1 DEF History
          <5>. QED
            BY <3>3, <3>4, <4>1, <4>3, <5>2 DEF Transform
        <4>. QED
          BY <4>2, <4>3
      <3>. QED
        BY <3>3, <3>4
    <2>. QED
      BY <2>1 DEF PointInTime
  <1>. QED
    BY <1>1, StoreInvariant, PTL

(* A materialization that ends over the sources it took its window from    *)
(* leaves the newest row of every key they have in the store, whatever     *)
(* was built, killed or tampered with before it.                           *)
THEOREM RefillsAreWhole ==
    ASSUME FeastAssumption
    PROVE  Spec => RefillIsWhole
  <1>. DEFINE Whole == \A view \in Views : \A k \in KeysOf(view) :
                          Newest(view, k) # {} => online'[view][k] = Newest(view, k)
              Ends == /\ Len(fill.left) = 1 /\ fill.alone /\ AllReadable
                      /\ fill' = NoFill /\ acts' = acts
  <1>1. ASSUME FInv, [Next]_vars, Ends PROVE Whole
    <2>1. fill # NoFill
      <3>1. Len(NoFill.left) = 0
        BY EmptySeq DEF NoFill
      <3>. QED
        BY SMTT(30), <1>1, <3>1
    <2>2. FillView
      <3>1. fill' # fill /\ ~Disturb
        BY <1>1, <2>1, Disturbs DEF FInv, StoreInv
      <3>2. StoreNext
        BY <1>1, <3>1 DEF Next, vars, Meanwhile, stores, Retrieve, ReadAnswers,
           JudgeRetrieval, Compare, ReadOnline, ReadOffline, JudgeOnline, AskServer,
           JudgeServer, Raise, Plant, Restore, KillDrill, Begin, Take, Conclude
      <3>3. FillView \/ KillFill \/ Materialize
        BY <3>1, <3>2 DEF StoreNext, BuildSources, FitSources, WriteSource, KillBuild,
           Resettle, Rederive
      <3>4. ~Materialize
        BY <2>1 DEF Materialize
      <3>5. ~KillFill
        <4>1. Head(fill.left) \in Views
          BY <1>1, <2>1, HeadTailProperties DEF FInv, StoreInv, StoreTyped
        <4>2. Readable(sources[Head(fill.left)]) /\ acts \in Nat /\ acts' = acts
          BY <1>1, <4>1 DEF AllReadable, FInv, StoreInv, StoreTyped
        <4>. QED
          BY <4>2 DEF KillFill, Act
      <3>. QED
        BY <3>3, <3>4, <3>5
    <2>3. \A view \in Views : view = Head(fill.left) \/ IsFilled(view) => IsFilled(view)'
      BY <1>1, <2>2, ViewFilled DEF FInv
    <2>4. ASSUME NEW view \in Views PROVE IsFilled(view)'
      <3>1. IsLeft(view) \/ IsFilled(view)
        BY <1>1, <2>1 DEF FInv, StoreInv, FillKnows
      <3>2. IsLeft(view) => view = Head(fill.left)
        <4>1. fill.left \in Seq(Views) /\ fill.left # <<>>
          BY <2>1, <1>1 DEF FInv, StoreInv, StoreTyped
        <4>2. Head(fill.left) = fill.left[1]
          BY <4>1, HeadTailProperties
        <4>. QED
          BY <1>1, <4>2 DEF IsLeft
      <3>. QED
        BY <2>3, <3>1, <3>2
    <2>5. \A view, k : Newest(view, k)' = Newest(view, k)
      BY <1>1, <2>2, ViewFilled, SourcesStand DEF FInv
    <2>. QED
      BY <2>4, <2>5 DEF IsFilled
  <1>2. ASSUME FInv, [Next]_vars PROVE [Ends => Whole]_stores
    BY <1>1, <1>2
  <1>. QED
    BY <1>2, StoreInvariant, PTL DEF Spec, RefillIsWhole

(* A red team that says PASSED leaves the tampered pair as the sources     *)
(* publish it, although its restore wrote over what a refill had put there *)
(* in between.                                                             *)
THEOREM PassedDrillsLeaveTheTruth ==
    ASSUME FeastAssumption, ChecksAssumption
    PROVE  Spec => DrillLeavesTheTruth
  <1>. DEFINE Passes == drill.at = "restored" /\ drill'.at = "passed" /\ check.quiet
              Truly == Value(online[OD][TargetKind]) = Value(Newest(OD, TargetKind))
  <1>1. ASSUME FInv, [Next]_vars, Passes PROVE Truly
    <2>1. Tampering /\ drill' # drill /\ Drilling
      BY <1>1 DEF Tampering, Drilling
    <2>2. check = NoCheck \/ check.of = "online"
      BY <1>1, <2>1 DEF FInv, CheckKnows
    <2>3. drill = [at |-> drill.at, saved |-> drill.saved]
      BY <1>1 DEF FInv, CheckKnows
    <2>4. OD \in Views /\ TargetKind \in DeclaredKeys(OD)
      BY DEF OD, Views, Windowed, DeclaredKeys, ChecksAssumption
    <2>5. ~Raise
      BY <1>1, <2>1, <2>3, <2>4 DEF Raise, Heard
    <2>6. JudgeOnline
      BY <1>1, <2>1, <2>2, <2>5 DEF Next, vars, Meanwhile, checks, Retrieve, ReadAnswers,
         JudgeRetrieval, Compare, ReadOnline, ReadOffline, AskServer, JudgeServer,
         Plant, Restore, KillDrill, Begin, Take, NoCheck, Asked
    <2>. DEFINE there == check.got[1]
                here == check.got[2]
                failing == {view \in Views :
                              \/ ~Anchored(there, view)
                              \/ \E k \in DeclaredKeys(view) :
                                    Value(there[view][k]) # Value(here[view][k])}
    <2>7. Len(check.got) = 2 /\ check.of = "online" /\ Conclude(failing)
      BY <2>6 DEF JudgeOnline
    <2>8. failing = {}
      <3>1. drill' = [drill EXCEPT !.at = Heard(failing)]
        BY <2>1, <2>7 DEF Conclude
      <3>2. drill'.at = Heard(failing)
        BY <2>3, <3>1
      <3>. HIDE DEF failing
      <3>. QED
        BY <1>1, <3>2 DEF Heard
    <2>9. AllReadable /\ check.got = <<online, Offline>>
      <3>1. AllReadable /\ check.got \in {<<>>, <<online>>, <<online, Offline>>}
        BY <1>1, <2>7 DEF FInv, CheckKnows
      <3>2. ASSUME check.got = <<>> PROVE FALSE
        BY <2>7, <3>2, EmptySeq
      <3>3. ASSUME check.got = <<online>> PROVE FALSE
        <4>1. Len(<<online>>) = 1
          OBVIOUS
        <4>2. Len(check.got) = 1
          BY <3>3, <4>1
        <4>. QED
          BY <2>7, <4>2
      <3>. QED
        BY <3>1, <3>2, <3>3
    <2>10. Value(online[OD][TargetKind]) = Value(Offline[OD][TargetKind])
      BY <2>4, <2>8, <2>9
    <2>11. Offline[OD][TargetKind] = Newest(OD, TargetKind)
      BY <1>1, <2>4, <2>9, NewestAnswers DEF FInv, StoreInv, Offline
    <2>. QED
      BY <2>10, <2>11
  <1>2. ASSUME FInv, [Next]_vars PROVE [Passes => Truly]_vars
    BY <1>1, <1>2
  <1>. QED
    BY <1>2, StoreInvariant, PTL DEF Spec, DrillLeavesTheTruth

-----------------------------------------------------------------------------
(***************************************************************************)
(* ScaleProvenance, for every set of processes and runs and every bound,   *)
(* where no run is from before the tags: LegacyRefits is empty.  Without   *)
(* that the two theorems are false: promoting such a run again writes      *)
(* "none" over what the backfill found.                                    *)
(***************************************************************************)
Scales == {P!Untagged, P!NoSearch, "sampled"}
Version == [run : Runs, rows : Scales, cap : Scales,
            source : {P!Untagged, "run", "records"}]

(* Whoever is at work has a version to work on.                            *)
Working == \A p \in Procs : pc[p] # "idle" => at[p] \in DOMAIN versions

(* A recorded row count, or cap, is the one the fit used, whoever recorded *)
(* it.                                                                     *)
TagsAreTrue ==
    \A v \in DOMAIN versions :
        /\ versions[v].rows \in {P!Untagged, P!TrueScale(versions[v].run)}
        /\ versions[v].cap \in {P!Untagged, P!TrueScale(versions[v].run)}

Has(v, key) == versions[v][key] # P!Untagged

(* No version has a source without the scale it is the source of.          *)
Sealed == \A v \in DOMAIN versions : Has(v, "source") => Has(v, "rows") /\ Has(v, "cap")

(* What a writer has tagged by each label; a tag that a backfill has seen  *)
(* is not taken away.                                                      *)
Writing == {"write_cap", "write_rows", "write_source"}
Given(label) ==
    CASE label = "cap" -> {"rows"}
      [] label = "write_rows" -> {"cap"}
      [] label \in {"source", "write_source"} -> {"rows", "cap"}
      [] OTHER -> {}

WritersKnow ==
    \A p \in Procs :
        /\ \A key \in Given(pc[p]) : Has(at[p], key)
        /\ pc[p] \in Writing => \A key \in P!Keys : seen[p][key] # P!Untagged => Has(at[p], key)

PInv ==
    /\ P!TypeOK /\ Working /\ TagsAreTrue /\ Sealed /\ WritersKnow
    /\ P!AbsenceIsNotAFact /\ P!StatedScaleIsWhole

(* What a promotion or a backfill tags a version with is of a tag's type,  *)
(* and the row count is the true one.                                      *)
LEMMA TagValues ==
    ASSUME NEW r \in Runs, NEW key \in P!Keys, LegacyRefits = {}
    PROVE  /\ key # "source" => P!PromotedTags(r)[key] \in Scales
           /\ key # "source" => P!BackfilledTags(r)[key] \in Scales
           /\ P!PromotedTags(r)["source"] = "run"
           /\ P!BackfilledTags(r)["source"] = "records"
           /\ P!PromotedTags(r)["rows"] = P!TrueScale(r)
           /\ P!BackfilledTags(r)["rows"] = P!TrueScale(r)
           /\ P!PromotedTags(r)["cap"] = P!TrueScale(r)
           /\ P!BackfilledTags(r)["cap"] = P!TrueScale(r)
           /\ P!TrueScale(r) # P!Untagged
    BY DEF P!PromotedTags, P!BackfilledTags, P!ScaleTags, P!TrueScale, Scales, P!Keys, P!NoSearch,
           P!Untagged

(* Setting one tag leaves the other versions, and the version's run, alone.*)
LEMMA TagSet ==
    ASSUME versions \in Seq(Version), NEW v \in DOMAIN versions, NEW key \in P!Keys,
           NEW value, key = "source" => value \in {"run", "records"},
           key # "source" => value \in Scales,
           P!SetTag(v, key, value)
    PROVE  /\ versions' \in Seq(Version)
           /\ DOMAIN versions' = DOMAIN versions /\ Len(versions') = Len(versions)
           /\ \A w \in DOMAIN versions : w # v => versions'[w] = versions[w]
           /\ versions'[v].run = versions[v].run
           /\ key = "rows" => versions'[v].rows = value
           /\ key # "rows" => versions'[v].rows = versions[v].rows
           /\ \A k \in P!Keys : versions'[v][k] = IF k = key THEN value ELSE versions[v][k]
  <1>. DEFINE rec == [versions[v] EXCEPT ![key] = value]
  <1>1. versions[v] \in Version
    BY ElementOfSeq
  <1>2. versions' = [versions EXCEPT ![v] = rec]
    BY DEF P!SetTag
  <1>3. rec \in Version /\ rec.run = versions[v].run
    BY <1>1 DEF Version, P!Keys
  <1>4. key = "rows" => rec.rows = value
    BY <1>1 DEF Version, P!Keys
  <1>5. /\ key # "rows" => rec.rows = versions[v].rows
        /\ \A k \in P!Keys : rec[k] = IF k = key THEN value ELSE versions[v][k]
    BY <1>1 DEF Version, P!Keys
  <1>. HIDE DEF rec
  <1>6. versions' \in Seq(Version) /\ Len(versions') = Len(versions)
        /\ \A w \in 1 .. Len(versions) : versions'[w] = IF w = v THEN rec ELSE versions[w]
    BY <1>2, <1>3, ExceptSeq
  <1>. QED
    BY <1>3, <1>4, <1>5, <1>6

(* Initially nobody works and nothing is recorded.                         *)
LEMMA InitProvenance ==
    ASSUME P!ProvenanceAssumption, P!Init
    PROVE  PInv
  <1>1. /\ versions \in Seq(Version)
        /\ \A v \in DOMAIN versions : ~Has(v, "rows") /\ ~Has(v, "cap") /\ ~Has(v, "source")
    <2>1. CASE versions = <<>>
      BY <2>1
    <2>2. ASSUME NEW r \in Runs,
                 versions = <<[run |-> r, rows |-> P!Untagged, cap |-> P!Untagged,
                               source |-> P!Untagged]>>
          PROVE  <1>1!1 /\ <1>1!2
      <3>. DEFINE rec == [run |-> r, rows |-> P!Untagged, cap |-> P!Untagged,
                          source |-> P!Untagged]
      <3>1. /\ rec \in Version /\ rec.rows = P!Untagged /\ rec.cap = P!Untagged
            /\ rec.source = P!Untagged
        BY DEF Version, Scales
      <3>. HIDE DEF rec
      <3>2. versions = <<rec>>
        BY <2>2 DEF rec
      <3>. QED
        BY <3>1, <3>2 DEF Has
    <2>. QED
      BY <2>1, <2>2 DEF P!Init
  <1>2. Len(versions) \in Nat /\ champion \in 0 .. Len(versions)
    BY <1>1 DEF P!Init
  <1>3. P!TypeOK
    BY <1>1, <1>2 DEF P!Init, P!TypeOK, Version, Scales, P!ProvenanceAssumption, P!NoTags, P!Keys
  <1>4. WritersKnow
    BY DEF P!Init, WritersKnow, Given, Writing
  <1>5. TagsAreTrue /\ Sealed
    BY <1>1 DEF TagsAreTrue, Sealed, Has
  <1>. QED
    BY <1>3, <1>4, <1>5
    DEF P!Init, PInv, Working, P!AbsenceIsNotAFact, P!StatedScaleIsWhole

(* A tag that is true leaves everything as it should be, whoever sets it   *)
(* and whatever it replaces, if the source comes last.                     *)
LEMMA TagKeeps ==
    ASSUME PInv, LegacyRefits = {}, NEW p \in Procs, pc[p] # "idle",
           NEW key \in P!Keys, NEW value, value # P!Untagged,
           key = "source" => value \in {"run", "records"},
           key # "source" => value \in Scales /\ value = P!TrueScale(versions[at[p]].run),
           key = "source" => Has(at[p], "rows") /\ Has(at[p], "cap"),
           P!SetTag(at[p], key, value) \/ (UNCHANGED versions /\ Has(at[p], key)),
           NEW onward \in {"idle", "rows", "cap", "source", "alias", "read", "write_cap",
                         "write_rows", "write_source", "next", "refused"},
           \A k \in Given(onward) : k = key \/ Has(at[p], k),
           onward \in Writing => pc[p] \in Writing,
           P!Goto(p, onward), UNCHANGED <<champion, jobs, at, seen, verdicts>>
    PROVE  PInv'
  <1>. DEFINE v == at[p]
  <1>1. versions \in Seq(Version) /\ v \in DOMAIN versions
    BY DEF PInv, P!TypeOK, Working, Version, Scales
  <1>2. /\ versions' \in Seq(Version)
        /\ DOMAIN versions' = DOMAIN versions /\ Len(versions') = Len(versions)
        /\ \A w \in DOMAIN versions : w # v => versions'[w] = versions[w]
        /\ versions'[v].run = versions[v].run
        /\ \A k \in P!Keys :
              versions'[v][k] = versions[v][k] \/ (k = key /\ versions'[v][k] = value)
        /\ versions'[v][key] # P!Untagged
    <2>1. CASE P!SetTag(v, key, value)
      <3>. HIDE DEF v
      <3>2. /\ versions' \in Seq(Version)
            /\ DOMAIN versions' = DOMAIN versions /\ Len(versions') = Len(versions)
            /\ \A w \in DOMAIN versions : w # v => versions'[w] = versions[w]
            /\ versions'[v].run = versions[v].run
            /\ \A k \in P!Keys : versions'[v][k] = IF k = key THEN value ELSE versions[v][k]
        BY <1>1, <2>1, TagSet
      <3>. QED
        BY <3>2
    <2>2. CASE UNCHANGED versions /\ Has(v, key)
      BY <1>1, <2>2 DEF Has
    <2>. QED
      BY <2>1, <2>2
  <1>3. /\ pc' = [pc EXCEPT ![p] = onward] /\ pc'[p] = onward
        /\ \A q \in Procs : q # p => pc'[q] = pc[q]
    BY DEF PInv, P!TypeOK, P!Goto
  <1>4. \A w \in DOMAIN versions : \A k \in P!Keys : Has(w, k) => versions'[w][k] # P!Untagged
    BY <1>2 DEF Has
  <1>5. /\ key # "source" => value = P!TrueScale(versions[v].run)
        /\ key = "source" => Has(v, "rows") /\ Has(v, "cap")
        /\ \A k \in Given(onward) : k = key \/ Has(v, k)
    OBVIOUS
  <1>. HIDE DEF v
  <1>6. P!TypeOK'
    BY <1>2, <1>3 DEF PInv, P!TypeOK, Version, Scales
  <1>7. Working'
    BY <1>2, <1>3 DEF PInv, Working, v
  <1>8. TagsAreTrue'
    <2>1. "rows" \in P!Keys /\ "cap" \in P!Keys
      BY DEF P!Keys
    <2>2. versions'[v]["rows"] \in {P!Untagged, P!TrueScale(versions[v].run)}
          /\ versions'[v]["cap"] \in {P!Untagged, P!TrueScale(versions[v].run)}
      BY <1>1, <1>2, <1>5, <2>1 DEF PInv, TagsAreTrue
    <2>. QED
      BY <1>1, <1>2, <2>2 DEF PInv, TagsAreTrue
  <1>9. Sealed'
    <2>1. P!Keys = {"rows", "cap", "source"}
      BY DEF P!Keys
    <2>2. versions'[v]["source"] # P!Untagged => Has(v, "rows") /\ Has(v, "cap")
      BY <1>1, <1>2, <1>5, <2>1 DEF PInv, Sealed, Has
    <2>3. ASSUME NEW w \in DOMAIN versions, versions'[w]["source"] # P!Untagged
          PROVE  versions'[w]["rows"] # P!Untagged /\ versions'[w]["cap"] # P!Untagged
      <3>1. Has(w, "rows") /\ Has(w, "cap")
        BY <1>2, <2>2, <2>3 DEF PInv, Sealed, Has
      <3>. QED
        BY <1>4, <2>1, <3>1
    <2>. QED
      BY <1>2, <2>3 DEF Sealed, Has
  <1>10. WritersKnow'
    <2>1. \A l : Given(l) \subseteq P!Keys
      BY DEF Given, P!Keys
    <2>2. ASSUME NEW q \in Procs, pc[q] # "idle", NEW k \in P!Keys, Has(at[q], k)
          PROVE  versions'[at[q]][k] # P!Untagged
      BY <1>4, <2>2 DEF PInv, Working
    <2>3. \A k \in Given(onward) : versions'[at[p]][k] # P!Untagged
      BY <1>2, <1>5, <2>1, <2>2 DEF v
    <2>4. ASSUME onward \in Writing, NEW k \in P!Keys, seen[p][k] # P!Untagged
          PROVE  versions'[at[p]][k] # P!Untagged
      BY <2>2, <2>4 DEF PInv, WritersKnow
    <2>5. ASSUME NEW q \in Procs, q # p
          PROVE  /\ \A k \in Given(pc[q]) : versions'[at[q]][k] # P!Untagged
                 /\ pc[q] \in Writing =>
                      \A k \in P!Keys : seen[q][k] # P!Untagged => versions'[at[q]][k] # P!Untagged
      <3>1. CASE pc[q] = "idle"
        BY <3>1 DEF Given, Writing
      <3>2. CASE pc[q] # "idle"
        BY <2>1, <2>2, <3>2 DEF PInv, WritersKnow
      <3>. QED
        BY <3>1, <3>2
    <2>. QED
      BY <1>3, <2>3, <2>4, <2>5 DEF WritersKnow, Has
  <1>11. P!AbsenceIsNotAFact' /\ P!StatedScaleIsWhole'
    BY DEF PInv, P!AbsenceIsNotAFact, P!StatedScaleIsWhole
  <1>. QED
    BY <1>6, <1>7, <1>8, <1>9, <1>10, <1>11 DEF PInv

(* A promotion goes to the run's newest version or mints one without tags. *)
LEMMA PromoteKeeps ==
    ASSUME PInv, P!ProvenanceAssumption, NEW p \in Procs, NEW r \in Runs, P!Promote(p, r)
    PROVE  PInv'
  <1>. DEFINE rec == [run |-> r, rows |-> P!Untagged, cap |-> P!Untagged, source |-> P!Untagged]
  <1>0. /\ rec \in Version /\ rec.rows = P!Untagged /\ rec.cap = P!Untagged
        /\ rec.source = P!Untagged
    BY DEF Version, Scales
  <1>. HIDE DEF rec
  <1>1. versions \in Seq(Version) /\ Len(versions) \in Nat
    BY DEF PInv, P!TypeOK, Version, Scales
  <1>2. /\ versions' \in Seq(Version) /\ Len(versions') \in Nat
        /\ Len(versions) <= Len(versions')
        /\ \A w \in DOMAIN versions : w \in DOMAIN versions' /\ versions'[w] = versions[w]
        /\ \A w \in DOMAIN versions' \ DOMAIN versions :
              /\ versions'[w].rows = P!Untagged /\ versions'[w].cap = P!Untagged
              /\ versions'[w].source = P!Untagged
        /\ \E v \in DOMAIN versions' : at' = [at EXCEPT ![p] = v]
    <2>1. CASE UNCHANGED versions
      BY <1>1, <2>1 DEF P!Promote, P!VersionsOf
    <2>2. CASE /\ versions' = Append(versions, rec)
               /\ at' = [at EXCEPT ![p] = Len(versions) + 1]
      <3>1. /\ versions' \in Seq(Version) /\ Len(versions') = Len(versions) + 1
            /\ \A w \in 1 .. Len(versions) : versions'[w] = versions[w]
            /\ versions'[Len(versions) + 1] = rec
        BY <1>0, <1>1, <2>2, AppendProperties
      <3>. QED
        <4>1. DOMAIN versions = 1 .. Len(versions)
              /\ DOMAIN versions' = 1 .. (Len(versions) + 1)
          BY <1>1, <3>1
        <4>2. /\ Len(versions) + 1 \in DOMAIN versions'
              /\ DOMAIN versions' \ DOMAIN versions = {Len(versions) + 1}
              /\ DOMAIN versions \subseteq DOMAIN versions'
          BY <1>1, <4>1
        <4>3. \A w \in DOMAIN versions' \ DOMAIN versions :
                 /\ versions'[w].rows = P!Untagged /\ versions'[w].cap = P!Untagged
                 /\ versions'[w].source = P!Untagged
          BY <1>0, <3>1, <4>2
        <4>4. \A w \in DOMAIN versions : w \in DOMAIN versions' /\ versions'[w] = versions[w]
          BY <3>1, <4>1, <4>2
        <4>5. \E v \in DOMAIN versions' : at' = [at EXCEPT ![p] = v]
          <5>1. Len(versions) + 1 \in DOMAIN versions'
            BY <4>2
          <5>. WITNESS Len(versions) + 1 \in DOMAIN versions'
          <5>. QED
            BY <2>2
        <4>6. Len(versions') \in Nat /\ Len(versions) <= Len(versions')
          BY <1>1, <3>1
        <4>. QED
          BY <3>1, <4>3, <4>4, <4>5, <4>6
    <2>. QED
      BY <2>1, <2>2 DEF P!Promote, rec
  <1>3. PICK v \in DOMAIN versions' : at' = [at EXCEPT ![p] = v]
    BY <1>2
  <1>4. /\ pc' = [pc EXCEPT ![p] = "rows"] /\ jobs' = jobs + 1 /\ jobs < MaxJobs
        /\ UNCHANGED <<champion, seen, verdicts>>
    BY DEF P!Promote, P!Begin, P!Goto
  <1>5. P!TypeOK'
    <2>1. champion' \in 0 .. Len(versions') /\ at' \in [Procs -> 0 .. Len(versions')]
      BY <1>1, <1>2, <1>3, <1>4 DEF PInv, P!TypeOK
    <2>2. jobs' \in 0 .. MaxJobs
      BY <1>4 DEF PInv, P!TypeOK, P!ProvenanceAssumption
    <2>. QED
      BY <1>2, <1>4, <2>1, <2>2 DEF PInv, P!TypeOK, Version, Scales
  <1>6. Working'
    BY <1>2, <1>3, <1>4 DEF PInv, P!TypeOK, Working
  <1>7. TagsAreTrue' /\ Sealed'
    BY <1>2 DEF PInv, TagsAreTrue, Sealed, Has
  <1>8. WritersKnow'
    <2>1. /\ pc'[p] = "rows"
          /\ \A q \in Procs : q # p => pc'[q] = pc[q] /\ at'[q] = at[q] /\ seen'[q] = seen[q]
      BY <1>3, <1>4 DEF PInv, P!TypeOK
    <2>2. Given("rows") = {} /\ "rows" \notin Writing
      BY DEF Given, Writing
    <2>3. ASSUME NEW q \in Procs, q # p
          PROVE  /\ \A k \in Given(pc[q]) : versions'[at[q]][k] # P!Untagged
                 /\ pc[q] \in Writing =>
                      \A k \in P!Keys : seen[q][k] # P!Untagged => versions'[at[q]][k] # P!Untagged
      <3>1. CASE pc[q] = "idle"
        BY <3>1 DEF Given, Writing
      <3>2. CASE pc[q] # "idle"
        <4>1. versions'[at[q]] = versions[at[q]]
          BY <1>2, <3>2 DEF PInv, Working
        <4>. QED
          BY <4>1 DEF PInv, WritersKnow, Has
      <3>. QED
        BY <3>1, <3>2
    <2>. QED
      BY <2>1, <2>2, <2>3 DEF WritersKnow, Has
  <1>9. P!AbsenceIsNotAFact' /\ P!StatedScaleIsWhole'
    BY <1>4 DEF PInv, P!AbsenceIsNotAFact, P!StatedScaleIsWhole
  <1>. QED
    BY <1>5, <1>6, <1>7, <1>8, <1>9 DEF PInv

(* What a retrain reads of a champion whose recorded tags are true; with a *)
(* source, of one that has them all.                                       *)
LEMMA RetrainKeeps ==
    ASSUME PInv, LegacyRefits = {}, NEW where \in {"host", "pod"}, P!Retrain(where)
    PROVE  PInv'
  <1>. DEFINE run == versions[champion].run
              read == P!ScaleRead(champion, where)
  <1>1. champion \in DOMAIN versions
    BY DEF PInv, P!TypeOK, P!Retrain
  <1>2. /\ versions[champion].rows \in {P!Untagged, P!TrueScale(run)}
        /\ versions[champion].cap \in {P!Untagged, P!TrueScale(run)}
        /\ versions[champion].source # P!Untagged =>
              versions[champion].rows # P!Untagged /\ versions[champion].cap # P!Untagged
        /\ P!TrueScale(run) \in {"sampled", P!NoSearch}
    BY <1>1 DEF PInv, TagsAreTrue, Sealed, Has, P!TrueScale
  <1>3. /\ read.rows = P!NoSearch => P!TrueScale(run) = P!NoSearch
        /\ read.source # P!Untagged => read.rows = P!TrueScale(run) /\ read.cap = P!TrueScale(run)
    BY <1>2 DEF P!ScaleRead, P!ScaleTags, P!NoSearch, P!Untagged
  <1>. HIDE DEF run, read
  <1>4. verdicts' = {[run |-> run, where |-> where, read |-> read]}
    BY DEF P!Retrain, run, read
  <1>5. P!AbsenceIsNotAFact' /\ P!StatedScaleIsWhole'
    BY <1>3, <1>4 DEF P!AbsenceIsNotAFact, P!StatedScaleIsWhole
  <1>. QED
    BY <1>5 DEF PInv, P!TypeOK, Working, TagsAreTrue, Sealed, WritersKnow, Has, P!Retrain

(* A step of one process that tags nothing, and after which nothing is     *)
(* asked of the tags but what it has just read.                            *)
LEMMA RestKeeps ==
    ASSUME PInv, NEW p \in Procs, UNCHANGED <<versions, verdicts>>, P!TypeOK',
           \A q \in Procs : q # p => pc'[q] = pc[q] /\ at'[q] = at[q] /\ seen'[q] = seen[q],
           pc'[p] \in {"idle", "read", "refused", "write_cap"},
           pc'[p] # "idle" => at'[p] \in DOMAIN versions,
           pc'[p] = "write_cap" =>
               \A key \in P!Keys : seen'[p][key] # P!Untagged => versions[at'[p]][key] # P!Untagged
    PROVE  PInv'
  <1>1. Working' /\ TagsAreTrue' /\ Sealed'
    BY DEF PInv, Working, TagsAreTrue, Sealed, Has
  <1>2. WritersKnow'
    <2>1. Given(pc'[p]) = {} /\ (pc'[p] \in Writing => pc'[p] = "write_cap")
      BY DEF Given, Writing
    <2>. QED
      BY <2>1 DEF PInv, WritersKnow, Has
  <1>3. P!AbsenceIsNotAFact' /\ P!StatedScaleIsWhole'
    BY DEF PInv, P!AbsenceIsNotAFact, P!StatedScaleIsWhole
  <1>. QED
    BY <1>1, <1>2, <1>3 DEF PInv

(* The invariant holds through every step.                                 *)
LEMMA StepKeeps ==
    ASSUME PInv, P!ProvenanceAssumption, LegacyRefits = {}, [P!Next]_P!vars
    PROVE  PInv'
  <1>1. ASSUME NEW p \in Procs, pc[p] # "idle"
        PROVE  /\ at[p] \in DOMAIN versions /\ versions[at[p]] \in Version
               /\ versions[at[p]].run \in Runs
    <2>1. versions \in Seq(Version) /\ at[p] \in DOMAIN versions
      BY <1>1 DEF PInv, P!TypeOK, Working, Version, Scales
    <2>2. at[p] \in 1 .. Len(versions)
      BY <2>1
    <2>3. versions[at[p]] \in Version
      BY <2>1, <2>2, ElementOfSeq
    <2>. QED
      BY <2>1, <2>3 DEF Version
  <1>2. CASE UNCHANGED P!vars
    BY <1>2 DEF PInv, P!TypeOK, Working, TagsAreTrue, Sealed, WritersKnow, Has,
                P!AbsenceIsNotAFact, P!StatedScaleIsWhole, P!vars
  <1>3. ASSUME NEW p \in Procs, NEW r \in Runs, P!Promote(p, r)
        PROVE  PInv'
    BY <1>3, PromoteKeeps
  <1>4. ASSUME NEW p \in Procs, NEW key \in P!Keys, NEW onward,
               <<key, onward>> \in {<<"rows", "cap">>, <<"cap", "source">>, <<"source", "alias">>},
               P!PromoteTag(p, key, onward)
        PROVE  PInv'
    <2>1. pc[p] = key /\ key # "idle" /\ onward \in {"cap", "source", "alias"}
      BY <1>4 DEF P!PromoteTag, P!Keys
    <2>. DEFINE value == P!PromotedTags(versions[at[p]].run)[key]
    <2>2. /\ value # P!Untagged
          /\ key = "source" => value \in {"run", "records"}
          /\ key # "source" => value \in Scales /\ value = P!TrueScale(versions[at[p]].run)
      <3>1. "run" # P!Untagged
        BY DEF P!Untagged
      <3>. QED
        BY <1>1, <2>1, <3>1, TagValues DEF P!Keys
    <2>3. P!SetTag(at[p], key, value) /\ P!Goto(p, onward)
          /\ UNCHANGED <<champion, jobs, at, seen, verdicts>>
      BY <1>4 DEF P!PromoteTag
    <2>4. \A k \in Given(key) : Has(at[p], k)
      BY <2>1 DEF PInv, WritersKnow
    <2>5. key = "source" => Has(at[p], "rows") /\ Has(at[p], "cap")
      BY <2>4 DEF Given
    <2>6. \A k \in Given(onward) : k = key \/ Has(at[p], k)
      BY <1>4, <2>4 DEF Given
    <2>7. onward \notin Writing
      BY <2>1 DEF Writing
    <2>. HIDE DEF value
    <2>. QED
      BY <2>1, <2>2, <2>3, <2>5, <2>6, <2>7, TagKeeps
  <1>5. ASSUME NEW p \in Procs, P!PromoteAlias(p)
        PROVE  PInv'
    <2>1. at[p] \in 0 .. Len(versions)
      BY DEF PInv, P!TypeOK
    <2>2. P!TypeOK' /\ pc'[p] = "idle" /\ \A q \in Procs : q # p => pc'[q] = pc[q]
      BY <1>5, <2>1 DEF P!PromoteAlias, P!Goto, PInv, P!TypeOK
    <2>. QED
      BY <1>5, <2>2, RestKeeps DEF P!PromoteAlias
  <1>6. ASSUME NEW p \in Procs, P!Backfill(p)
        PROVE  PInv'
    <2>1. Len(versions) \in Nat \ {0} /\ versions \in Seq(Version)
      BY <1>6, EmptySeq DEF P!Backfill, PInv, P!TypeOK, Version, Scales
    <2>2. jobs' \in 0 .. MaxJobs
      BY <1>6 DEF P!Backfill, P!Begin, PInv, P!TypeOK, P!ProvenanceAssumption
    <2>3. 1 \in DOMAIN versions /\ 1 \in 0 .. Len(versions)
      BY <2>1
    <2>4. /\ P!TypeOK' /\ pc'[p] = "read" /\ at'[p] = 1
          /\ \A q \in Procs : q # p => pc'[q] = pc[q] /\ at'[q] = at[q]
      BY <1>6, <2>2, <2>3 DEF P!Backfill, P!Begin, P!Goto, PInv, P!TypeOK
    <2>. QED
      BY <1>6, <2>3, <2>4, RestKeeps DEF P!Backfill
  <1>7. ASSUME NEW p \in Procs, P!BackfillRead(p)
        PROVE  PInv'
    <2>1. pc[p] = "read"
      BY <1>7 DEF P!BackfillRead
    <2>2. versions[at[p]] \in Version /\ at[p] \in DOMAIN versions
      BY <1>1, <2>1
    <2>3. P!Tags(at[p]) \in [P!Keys -> {P!Untagged, P!NoSearch, "sampled", "run", "records"}]
      BY <2>2 DEF P!Tags, P!Keys, Version, Scales
    <2>4. /\ P!TypeOK' /\ pc'[p] \in {"refused", "write_cap"} /\ seen'[p] = P!Tags(at[p])
          /\ \A q \in Procs : q # p => pc'[q] = pc[q] /\ seen'[q] = seen[q]
      BY <1>7, <2>3 DEF P!BackfillRead, P!Goto, PInv, P!TypeOK
    <2>5. \A key \in P!Keys : seen'[p][key] = versions[at[p]][key]
      BY <2>4 DEF P!Tags
    <2>. QED
      BY <1>7, <2>2, <2>4, <2>5, RestKeeps DEF P!BackfillRead
  <1>8. ASSUME NEW p \in Procs, NEW key \in P!Keys, NEW label \in Writing, NEW onward,
               <<label, key, onward>> \in {<<"write_cap", "cap", "write_rows">>,
                                           <<"write_rows", "rows", "write_source">>,
                                           <<"write_source", "source", "next">>},
               P!BackfillTag(p, label, key, onward)
        PROVE  PInv'
    <2>1. pc[p] = label /\ pc[p] # "idle" /\ onward \in {"write_rows", "write_source", "next"}
      BY <1>8 DEF P!BackfillTag, Writing
    <2>. DEFINE value == P!BackfilledTags(versions[at[p]].run)[key]
    <2>2. /\ value # P!Untagged
          /\ key = "source" => value \in {"run", "records"}
          /\ key # "source" => value \in Scales /\ value = P!TrueScale(versions[at[p]].run)
      <3>1. "records" # P!Untagged
        BY DEF P!Untagged
      <3>. QED
        BY <1>1, <2>1, <3>1, TagValues DEF P!Keys
    <2>3. /\ P!SetTag(at[p], key, value) \/ (UNCHANGED versions /\ seen[p][key] = value)
          /\ P!Goto(p, onward) /\ UNCHANGED <<champion, jobs, at, seen, verdicts>>
      BY <1>8 DEF P!BackfillTag
    <2>4. P!SetTag(at[p], key, value) \/ (UNCHANGED versions /\ Has(at[p], key))
      BY <2>1, <2>2, <2>3 DEF PInv, WritersKnow
    <2>5. \A k \in Given(label) : Has(at[p], k)
      BY <2>1 DEF PInv, WritersKnow
    <2>6. key = "source" => Has(at[p], "rows") /\ Has(at[p], "cap")
      BY <1>8, <2>5 DEF Given
    <2>7. \A k \in Given(onward) : k = key \/ Has(at[p], k)
      BY <1>8, <2>5 DEF Given
    <2>8. pc[p] \in Writing
      BY <2>1
    <2>. HIDE DEF value
    <2>. QED
      BY <2>1, <2>2, <2>3, <2>4, <2>6, <2>7, <2>8, TagKeeps
  <1>9. ASSUME NEW p \in Procs, P!BackfillNext(p)
        PROVE  PInv'
    <2>1. at[p] \in DOMAIN versions /\ Len(versions) \in Nat
      BY <1>1, <1>9 DEF P!BackfillNext, PInv, P!TypeOK
    <2>2. CASE at[p] < Len(versions)
      <3>1. at[p] + 1 \in DOMAIN versions /\ at[p] + 1 \in 0 .. Len(versions)
        BY <2>1, <2>2
      <3>2. /\ P!TypeOK' /\ pc'[p] = "read" /\ at'[p] = at[p] + 1
            /\ \A q \in Procs : q # p => pc'[q] = pc[q] /\ at'[q] = at[q]
        BY <1>9, <2>2, <3>1 DEF P!BackfillNext, P!Goto, PInv, P!TypeOK
      <3>. QED
        BY <1>9, <3>1, <3>2, RestKeeps DEF P!BackfillNext
    <2>3. CASE ~(at[p] < Len(versions))
      <3>1. /\ P!TypeOK' /\ pc'[p] = "idle" /\ UNCHANGED at
            /\ \A q \in Procs : q # p => pc'[q] = pc[q]
        BY <1>9, <2>3 DEF P!BackfillNext, P!Goto, PInv, P!TypeOK
      <3>. QED
        BY <1>9, <3>1, RestKeeps DEF P!BackfillNext
    <2>. QED
      BY <2>2, <2>3
  <1>10. ASSUME NEW p \in Procs, P!Stop(p)
         PROVE  PInv'
    <2>1. P!TypeOK' /\ pc'[p] = "idle" /\ \A q \in Procs : q # p => pc'[q] = pc[q]
      BY <1>10 DEF P!Stop, P!Goto, PInv, P!TypeOK
    <2>. QED
      BY <1>10, <2>1, RestKeeps DEF P!Stop
  <1>11. ASSUME NEW v \in DOMAIN versions, P!Rollback(v)
         PROVE  PInv'
    <2>1. v \in 0 .. Len(versions)
      BY <1>11 DEF PInv, P!TypeOK
    <2>. QED
      BY <1>11, <2>1 DEF P!Rollback, PInv, P!TypeOK, Working, TagsAreTrue, Sealed, WritersKnow,
                         Has, P!AbsenceIsNotAFact, P!StatedScaleIsWhole
  <1>12. ASSUME NEW where \in {"host", "pod"}, P!Retrain(where)
         PROVE  PInv'
    BY <1>12, RetrainKeeps
  <1>13. ASSUME NEW p \in Procs,
                \/ P!PromoteTag(p, "rows", "cap") \/ P!PromoteTag(p, "cap", "source")
                \/ P!PromoteTag(p, "source", "alias")
                \/ P!BackfillTag(p, "write_cap", "cap", "write_rows")
                \/ P!BackfillTag(p, "write_rows", "rows", "write_source")
                \/ P!BackfillTag(p, "write_source", "source", "next")
         PROVE  PInv'
    BY <1>4, <1>8, <1>13 DEF P!Keys, Writing
  <1>. QED
    BY <1>2, <1>3, <1>5, <1>6, <1>7, <1>9, <1>10, <1>11, <1>12, <1>13 DEF P!Next

-----------------------------------------------------------------------------
(* ScaleProvenance.TypeOK, ScaleProvenance.AbsenceIsNotAFact and           *)
(* ScaleProvenance.StatedScaleIsWhole: whichever promotions and backfills  *)
(* raced or died before it, a retrain never takes an absence of records    *)
(* for "no sampled search" (F-048), and the rows and the cap that it reads *)
(* with a source are the fit's, although they are two tags.                *)
THEOREM ScaleIsTrue ==
    ASSUME P!ProvenanceAssumption, LegacyRefits = {}
    PROVE  P!Spec => []ProvenanceIsSound
  <1>1. P!Init => PInv
    BY InitProvenance
  <1>2. PInv /\ [P!Next]_P!vars => PInv'
    BY StepKeeps
  <1>3. PInv => ProvenanceIsSound
    BY DEF PInv, ProvenanceIsSound, P!ProvenanceIsSound
  <1>. QED
    BY <1>1, <1>2, <1>3, PTL DEF P!Spec

(* A step tags one version as TagSet has it, or mints one, or neither.     *)
LEMMA Writes ==
    ASSUME PInv, LegacyRefits = {}, [P!Next]_P!vars
    PROVE  \/ UNCHANGED versions
           \/ \E rec : versions' = Append(versions, rec)
           \/ \E v \in DOMAIN versions, key \in P!Keys : \E value :
                 /\ P!SetTag(v, key, value)
                 /\ key = "source" => value \in {"run", "records"}
                 /\ key # "source" => value \in Scales
                 /\ key = "rows" => value = P!TrueScale(versions[v].run)
  <1>. DEFINE Tagged == \E v \in DOMAIN versions, key \in P!Keys : \E value :
                 /\ P!SetTag(v, key, value)
                 /\ key = "source" => value \in {"run", "records"}
                 /\ key # "source" => value \in Scales
                 /\ key = "rows" => value = P!TrueScale(versions[v].run)
  <1>1. ASSUME NEW p \in Procs, pc[p] # "idle"
        PROVE  at[p] \in DOMAIN versions /\ versions[at[p]].run \in Runs
    <2>1. versions \in Seq(Version) /\ at[p] \in 1 .. Len(versions)
      BY <1>1 DEF PInv, P!TypeOK, Working, Version, Scales
    <2>2. versions[at[p]] \in Version
      BY <2>1, ElementOfSeq
    <2>. QED
      BY <2>1, <2>2 DEF Version
  <1>2. ASSUME NEW p \in Procs, NEW key \in P!Keys, NEW onward, P!PromoteTag(p, key, onward)
        PROVE  Tagged
    <2>1. pc[p] # "idle"
      BY <1>2 DEF P!PromoteTag, P!Keys
    <2>2. at[p] \in DOMAIN versions /\ versions[at[p]].run \in Runs
      BY <1>1, <2>1
    <2>3. P!SetTag(at[p], key, P!PromotedTags(versions[at[p]].run)[key])
      BY <1>2 DEF P!PromoteTag
    <2>. QED
      BY <2>2, <2>3, TagValues
  <1>3. ASSUME NEW p \in Procs, NEW key \in P!Keys, NEW onward,
               NEW label \in {"write_cap", "write_rows", "write_source"},
               P!BackfillTag(p, label, key, onward)
        PROVE  UNCHANGED versions \/ Tagged
    <2>1. pc[p] # "idle"
      BY <1>3 DEF P!BackfillTag
    <2>2. at[p] \in DOMAIN versions /\ versions[at[p]].run \in Runs
      BY <1>1, <2>1
    <2>3. UNCHANGED versions
          \/ P!SetTag(at[p], key, P!BackfilledTags(versions[at[p]].run)[key])
      BY <1>3 DEF P!BackfillTag
    <2>. QED
      BY <2>2, <2>3, TagValues
  <1>4. ASSUME NEW p \in Procs, NEW r \in Runs, P!Promote(p, r)
        PROVE  UNCHANGED versions \/ \E rec : versions' = Append(versions, rec)
    BY <1>4 DEF P!Promote
  <1>5. ASSUME NEW p \in Procs,
               \/ P!PromoteAlias(p) \/ P!Backfill(p) \/ P!BackfillRead(p)
               \/ P!BackfillNext(p) \/ P!Stop(p)
        PROVE  UNCHANGED versions
    BY <1>5 DEF P!PromoteAlias, P!Backfill, P!BackfillRead, P!BackfillNext, P!Stop
  <1>6. ASSUME NEW v, NEW where, P!Rollback(v) \/ P!Retrain(where) \/ UNCHANGED P!vars
        PROVE  UNCHANGED versions
    BY <1>6 DEF P!Rollback, P!Retrain, P!vars
  <1>. HIDE DEF Tagged
  <1>7. UNCHANGED versions \/ (\E rec : versions' = Append(versions, rec)) \/ Tagged
    BY <1>2, <1>3, <1>4, <1>5, <1>6 DEF P!Next, P!Keys
  <1>. QED
    BY <1>7 DEF Tagged

(* ScaleProvenance.ScaleNeverChanges: a row count that a version carries   *)
(* stays, whoever tags it again and whatever they read before.             *)
THEOREM ScaleStays ==
    ASSUME P!ProvenanceAssumption, LegacyRefits = {}
    PROVE  P!Spec => ScaleNeverChanges
  <1>1. ASSUME PInv, [P!Next]_P!vars, NEW v \in DOMAIN versions, versions[v].rows # P!Untagged
        PROVE  versions'[v].rows = versions[v].rows
    <2>1. versions \in Seq(Version) /\ v \in 1 .. Len(versions)
      BY <1>1 DEF PInv, P!TypeOK, Version, Scales
    <2>2. CASE UNCHANGED versions
      BY <2>2
    <2>3. ASSUME NEW rec, versions' = Append(versions, rec)
          PROVE  versions'[v].rows = versions[v].rows
      BY <2>1, <2>3
    <2>4. ASSUME NEW w \in DOMAIN versions, NEW key \in P!Keys, NEW value,
                 P!SetTag(w, key, value),
                 key = "source" => value \in {"run", "records"},
                 key # "source" => value \in Scales,
                 key = "rows" => value = P!TrueScale(versions[w].run)
          PROVE  versions'[v].rows = versions[v].rows
      <3>1. versions[v].rows = P!TrueScale(versions[v].run)
        BY <1>1 DEF PInv, TagsAreTrue
      <3>2. CASE w # v
        BY <2>1, <2>4, <3>2, TagSet
      <3>3. CASE w = v
        <4>1. /\ key = "rows" => versions'[v].rows = value
              /\ key # "rows" => versions'[v].rows = versions[v].rows
          BY <2>1, <2>4, <3>3, TagSet
        <4>. QED
          BY <2>4, <3>1, <3>3, <4>1
      <3>. QED
        BY <3>2, <3>3
    <2>. QED
      BY <1>1, <2>2, <2>3, <2>4, Writes
  <1>2. PInv /\ [P!Next]_P!vars
            => [\A v \in DOMAIN versions :
                    versions[v].rows # P!Untagged => versions'[v].rows = versions[v].rows]_P!vars
    BY <1>1
  <1>3. P!Init => PInv
    BY InitProvenance
  <1>4. PInv /\ [P!Next]_P!vars => PInv'
    BY StepKeeps
  <1>. QED
    BY <1>2, <1>3, <1>4, PTL DEF P!Spec, ScaleNeverChanges, P!ScaleNeverChanges

-----------------------------------------------------------------------------
(* Third part: the two systems in which clients measure. ClientSignals,    *)
(* for every set of clients, every range of the rules and every bound, and *)
(* LoadClient, for every number of threads, rates and requests.            *)

(***************************************************************************)
(* ClientSignals.  A client under way counts upon a value below the bound, *)
(* and every sample is one the counter had.                                *)
(***************************************************************************)
Rules == {"a3", "a4"}
Counting == [at : {"idle", "counting"}, base : 0..MaxCount]

CountsTyped ==
    /\ counter \in 0..MaxCount /\ samples \in Seq(0..MaxCount) /\ Len(samples) = Span
    /\ client \in [Clients -> Counting]
    /\ \A c \in Clients : client[c].at = "counting" => client[c].base < MaxCount
    /\ troubles \in 0..MaxTroubles
    /\ held \in [Rules -> 0..2]

VersionsTyped ==
    /\ served \in 1..MaxVersion /\ named \in 1..MaxVersion
    /\ reader \in [at : {"idle", "asked"}, served : 0..MaxVersion]
    /\ posted \in [served : 0..MaxVersion, registry : 0..MaxVersion, age : 0..Fresh]
    /\ apart \in Nat

(* A page that is owed is on its way: before a scrape the gateway differs  *)
(* from the newest sample; after one the two newest samples differ, and    *)
(* the rule has begun to hold.                                             *)
PageIsComing ==
    /\ owed \in 0..2
    /\ owed = 1 => counter # 0 /\ samples[Span] # 0 /\ counter # samples[Span]
    /\ owed = 2 => /\ held["a3"] > 0
                   /\ samples[Span - 1] # 0 /\ samples[Span] # 0
                   /\ samples[Span - 1] # samples[Span]

(* Two versions that differ in an answer differed in the world: what the   *)
(* reader holds, and what it posted for as long as that is fresh.          *)
DifferenceWasReal ==
    /\ served # named => apart = 0
    /\ reader.at = "asked" /\ reader.served # 0 /\ reader.served # named => apart = 0
    /\ C!Differs(posted) => apart <= posted.age
    /\ held["a4"] > 1 => apart <= Fresh

SignalsInv == CountsTyped /\ VersionsTyped /\ PageIsComing /\ DifferenceWasReal

(* One step of the two conditions' sustain.                                *)
LEMMA HeldOnwards ==
    ASSUME CountsTyped, NEW rule \in Rules, NEW holds \in BOOLEAN
    PROVE  /\ C!Held(rule, holds) \in 0..2
           /\ holds => C!Held(rule, holds) > 0
           /\ holds /\ held[rule] > 0 => C!Held(rule, holds) > 1
           /\ C!Held(rule, holds) > 1 => holds
  BY DEF CountsTyped, C!Held

LEMMA SignalsStart ==
    ASSUME C!SignalsAssumption, C!Init
    PROVE  SignalsInv
  <1>1. samples \in Seq(0..MaxCount) /\ Len(samples) = Span /\ samples[Span] = 0
    BY DEF C!Init, C!SignalsAssumption, C!None
  <1>2. CountsTyped
    BY <1>1 DEF C!Init, C!SignalsAssumption, C!None, CountsTyped, C!Idle, Counting, Rules
  <1>3. VersionsTyped
    BY DEF C!Init, C!SignalsAssumption, C!None, VersionsTyped, C!NoPair
  <1>4. PageIsComing
    BY DEF C!Init, PageIsComing
  <1>5. DifferenceWasReal
    BY DEF C!Init, DifferenceWasReal, C!NoPair, C!Differs, C!SignalsAssumption
  <1>. QED
    BY <1>2, <1>3, <1>4, <1>5 DEF SignalsInv

(* A client reads the counter, counts one more or gives up, and the        *)
(* gateway loses it: the rules do not move, and what is owed stays owed    *)
(* only where the gateway still differs from the newest sample.            *)
LEMMA CountingStep ==
    ASSUME C!SignalsAssumption, SignalsInv, NEW c \in Clients,
           C!Refuse(c) \/ C!Push(c) \/ C!PushFails(c)
    PROVE  SignalsInv'
  <1>. USE DEF SignalsInv
  <1>1. /\ UNCHANGED <<samples, held, served, named, reader, posted, apart>>
        /\ troubles' \in 0..MaxTroubles
    BY DEF C!Refuse, C!Push, C!PushFails, C!versions, C!Trouble, CountsTyped,
       C!SignalsAssumption
  <1>2. VersionsTyped' /\ DifferenceWasReal'
    BY <1>1 DEF VersionsTyped, DifferenceWasReal, C!Differs
  <1>3. CASE C!Refuse(c)
    <2>1. /\ counter < MaxCount /\ UNCHANGED <<counter, owed>>
          /\ \E base \in {counter, 0} :
                client' = [client EXCEPT ![c] = [at |-> "counting", base |-> base]]
      BY <1>3 DEF C!Refuse, C!None
    <2>2. CountsTyped'
      BY <1>1, <2>1 DEF CountsTyped, Counting, C!SignalsAssumption
    <2>3. PageIsComing'
      BY <1>1, <2>1 DEF PageIsComing
    <2>. QED
      BY <1>2, <2>2, <2>3
  <1>4. CASE C!Push(c)
    <2>1. client[c].at = "counting" /\ client[c].base \in 0..MaxCount
          /\ client[c].base < MaxCount
      BY <1>4 DEF C!Push, CountsTyped, Counting
    <2>2. /\ counter' = client[c].base + 1 /\ C!Owe(client[c].base)
          /\ client' = [client EXCEPT ![c] = [at |-> "idle", base |-> 0]]
      BY <1>4 DEF C!Push, C!Counted, C!Idle, C!None
    <2>3. CountsTyped'
      BY <1>1, <2>1, <2>2 DEF CountsTyped, Counting, C!SignalsAssumption
    <2>4. samples[Span] \in Nat
      BY DEF CountsTyped, C!SignalsAssumption
    <2>5. PageIsComing'
      BY <1>1, <2>1, <2>2, <2>4 DEF PageIsComing, C!Owe, C!CarriesOn, C!None
    <2>. QED
      BY <1>2, <2>3, <2>5
  <1>5. CASE C!PushFails(c)
    <2>1. /\ UNCHANGED <<counter, owed>>
          /\ client' = [client EXCEPT ![c] = [at |-> "idle", base |-> 0]]
      BY <1>5 DEF C!PushFails, C!Idle, C!None
    <2>2. CountsTyped'
      BY <1>1, <2>1 DEF CountsTyped, Counting, C!SignalsAssumption
    <2>3. PageIsComing'
      BY <1>1, <2>1 DEF PageIsComing
    <2>. QED
      BY <1>2, <2>2, <2>3
  <1>. QED
    BY <1>3, <1>4, <1>5

LEMMA LossStep ==
    ASSUME C!SignalsAssumption, SignalsInv, C!LoseGateway
    PROVE  SignalsInv'
  <1>. USE DEF SignalsInv
  <1>1. /\ UNCHANGED <<client, samples, served, named, reader, apart, held>>
        /\ counter' \in {0, samples[Span]} /\ posted' = C!NoPair
        /\ owed' = IF owed = 1 THEN 0 ELSE owed
        /\ troubles' \in 0..MaxTroubles
    BY DEF C!LoseGateway, C!None, C!Trouble, CountsTyped, C!SignalsAssumption
  <1>2. samples[Span] \in 0..MaxCount
    BY DEF CountsTyped, C!SignalsAssumption
  <1>3. CountsTyped'
    BY <1>1, <1>2 DEF CountsTyped, C!SignalsAssumption
  <1>4. VersionsTyped'
    BY <1>1 DEF VersionsTyped, C!NoPair, C!None, C!SignalsAssumption
  <1>5. PageIsComing'
    BY <1>1 DEF PageIsComing
  <1>6. DifferenceWasReal'
    BY <1>1 DEF DifferenceWasReal, C!NoPair, C!Differs
  <1>. QED
    BY <1>3, <1>4, <1>5, <1>6

(* The reader's two questions, and the world moving between them: the      *)
(* counting side does not move.                                            *)
LEMMA VersionStep ==
    ASSUME C!SignalsAssumption, SignalsInv,
           C!AskEndpoint \/ C!AskRegistry \/ C!MoveAlias \/ C!Deploy
    PROVE  SignalsInv'
  <1>. USE DEF SignalsInv
  <1>1. /\ UNCHANGED <<counter, client, samples, owed, held>>
        /\ troubles' \in 0..MaxTroubles
    BY DEF C!AskEndpoint, C!AskRegistry, C!MoveAlias, C!Deploy, C!Pair, C!refusals, C!Trouble,
       CountsTyped, C!SignalsAssumption
  <1>2. CountsTyped' /\ PageIsComing'
    BY <1>1 DEF CountsTyped, PageIsComing
  <1>3. CASE C!AskEndpoint
    <2>1. /\ UNCHANGED <<served, named, posted, apart>>
          /\ \E v \in {served, 0} : reader' = [at |-> "asked", served |-> v]
      BY <1>3 DEF C!AskEndpoint, C!None
    <2>. QED
      BY <1>1, <1>2, <2>1 DEF VersionsTyped, DifferenceWasReal, C!Differs, C!SignalsAssumption
  <1>4. CASE C!AskRegistry
    <2>1. /\ reader.at = "asked" /\ UNCHANGED <<served, named, apart>>
          /\ reader' = [at |-> "idle", served |-> 0]
          /\ \/ UNCHANGED posted
             \/ /\ reader.served # 0
                /\ posted' = [served |-> reader.served, registry |-> named, age |-> 0]
      BY <1>4 DEF C!AskRegistry, C!Pair, C!None
    <2>. QED
      BY <1>1, <1>2, <2>1 DEF VersionsTyped, DifferenceWasReal, C!Differs, C!SignalsAssumption
  <1>5. CASE C!MoveAlias
    <2>1. /\ UNCHANGED <<served, reader, posted>>
          /\ named' \in 1..MaxVersion /\ named' # named
          /\ apart' = IF named' # served THEN 0 ELSE apart
      BY <1>5 DEF C!MoveAlias
    <2>. QED
      BY <1>1, <1>2, <2>1 DEF VersionsTyped, DifferenceWasReal, C!Differs, C!SignalsAssumption
  <1>6. CASE C!Deploy
    <2>1. UNCHANGED <<named, reader, posted, apart>> /\ served' = named
      BY <1>6 DEF C!Deploy
    <2>. QED
      BY <1>1, <1>2, <2>1 DEF VersionsTyped, DifferenceWasReal, C!Differs
  <1>. QED
    BY <1>3, <1>4, <1>5, <1>6

(* A scrape and an evaluation.  A page owed at one is at its second        *)
(* evaluation, or fires; a pair grows older with what it told of.          *)
LEMMA TickStep ==
    ASSUME C!SignalsAssumption, SignalsInv, C!Tick
    PROVE  SignalsInv'
  <1>. USE DEF SignalsInv
  <1>. DEFINE s == Append(Tail(samples), counter)
              up == C!Increased(s)
              apart2 == C!Differs(posted)
  <1>1. Span \in Nat /\ Span > 2 /\ Fresh \in Nat
    BY DEF C!SignalsAssumption
  <1>2. /\ s \in Seq(0..MaxCount) /\ Len(s) = Span
        /\ s[Span] = counter /\ s[Span - 1] = samples[Span] /\ s[Span - 2] = samples[Span - 1]
        /\ DOMAIN s = 1..Span
    <2>1. samples \in Seq(0..MaxCount) /\ Len(samples) = Span /\ counter \in 0..MaxCount
      BY DEF CountsTyped
    <2>2. samples # <<>>
      BY <1>1, <2>1, EmptySeq
    <2>3. /\ Tail(samples) \in Seq(0..MaxCount) /\ Len(Tail(samples)) = Span - 1
          /\ \A i \in 1..(Span - 1) : Tail(samples)[i] = samples[i + 1]
      BY <1>1, <2>1, <2>2, HeadTailProperties
    <2>4. /\ s \in Seq(0..MaxCount) /\ Len(s) = Span
          /\ s[Span] = counter /\ \A i \in 1..(Span - 1) : s[i] = Tail(samples)[i]
      BY <1>1, <2>1, <2>3, AppendProperties
    <2>5. s[Span - 1] = samples[Span] /\ s[Span - 2] = samples[Span - 1]
      BY <1>1, <2>3, <2>4
    <2>6. DOMAIN s = 1..Span
      BY <2>4
    <2>. QED
      BY <2>4, <2>5, <2>6
  <1>3. /\ samples' = s
        /\ held' = [a3 |-> C!Held("a3", up), a4 |-> C!Held("a4", apart2)]
        /\ owed' = IF held'["a3"] > 1 \/ owed = 0 THEN 0 ELSE owed + 1
        /\ posted' = IF posted.age < Fresh THEN [posted EXCEPT !.age = @ + 1] ELSE posted
        /\ reader.at = "idle"
        /\ UNCHANGED <<counter, client, served, named, reader, troubles>>
    BY DEF C!Tick
  <1>4. apart' \in Nat /\ apart' <= apart + 1 /\ (served # named => apart' = 0)
    BY SMTT(30) DEF C!Tick, VersionsTyped, C!SignalsAssumption
  <1>5. up \in BOOLEAN /\ apart2 \in BOOLEAN
    BY DEF C!Increased, C!Differs
  <1>6. owed \in {1, 2} => up
    <2>1. owed = 1 => s[Span] # 0 /\ s[Span - 1] # 0 /\ s[Span] # s[Span - 1]
      BY <1>2 DEF PageIsComing
    <2>2. owed = 2 => s[Span - 1] # 0 /\ s[Span - 2] # 0 /\ s[Span - 1] # s[Span - 2]
      BY <1>2 DEF PageIsComing
    <2>3. Span \in DOMAIN s /\ Span - 1 \in DOMAIN s /\ Span - 2 \in DOMAIN s
      BY <1>1, <1>2
    <2>. HIDE DEF s
    <2>. QED
      BY <2>1, <2>2, <2>3 DEF C!Increased, C!None
  <1>. HIDE DEF s, up, apart2
  <1>7. /\ held' \in [Rules -> 0..2]
        /\ held'["a3"] = C!Held("a3", up) /\ held'["a4"] = C!Held("a4", apart2)
    BY <1>3, <1>5, HeldOnwards DEF Rules
  <1>8. CountsTyped'
    BY <1>2, <1>3, <1>7 DEF CountsTyped
  <1>9. posted' \in [served : 0..MaxVersion, registry : 0..MaxVersion, age : 0..Fresh]
        /\ posted'.served = posted.served /\ posted'.registry = posted.registry
        /\ posted'.age = IF posted.age < Fresh THEN posted.age + 1 ELSE posted.age
    BY <1>1, <1>3 DEF VersionsTyped
  <1>10. VersionsTyped'
    BY <1>3, <1>4, <1>9 DEF VersionsTyped
  <1>11. PageIsComing'
    <2>1. up => held'["a3"] > 0 /\ (held["a3"] > 0 => held'["a3"] > 1)
      BY <1>5, <1>7, HeldOnwards DEF Rules
    <2>2. owed = 1 => samples'[Span - 1] # 0 /\ samples'[Span] # 0
                      /\ samples'[Span - 1] # samples'[Span]
      BY <1>2, <1>3 DEF PageIsComing
    <2>. QED
      BY <1>3, <1>6, <2>1, <2>2 DEF PageIsComing
  <1>12. DifferenceWasReal'
    <2>1. apart2 => posted.age < Fresh /\ apart <= posted.age
      BY DEF DifferenceWasReal, C!Differs, apart2
    <2>2. held'["a4"] > 1 => apart2
      BY <1>5, <1>7, HeldOnwards DEF Rules
    <2>3. C!Differs(posted)' => apart2
      BY <1>1, <1>9 DEF C!Differs, apart2, VersionsTyped
    <2>4. posted.age \in Nat /\ apart \in Nat
      BY DEF VersionsTyped
    <2>. QED
      BY <1>1, <1>3, <1>4, <1>9, <2>1, <2>2, <2>3, <2>4 DEF DifferenceWasReal
  <1>. QED
    BY <1>8, <1>10, <1>11, <1>12

LEMMA SignalsKept ==
    ASSUME C!SignalsAssumption
    PROVE  C!Spec => []SignalsInv
  <1>1. C!Init => SignalsInv
    BY SignalsStart
  <1>2. SignalsInv /\ [C!Next]_C!vars => SignalsInv'
    <2>. SUFFICES ASSUME SignalsInv, [C!Next]_C!vars
                  PROVE  SignalsInv'
      OBVIOUS
    <2>1. ASSUME NEW c \in Clients, C!Refuse(c) \/ C!Push(c) \/ C!PushFails(c)
          PROVE  SignalsInv'
      BY <2>1, CountingStep
    <2>2. CASE C!LoseGateway
      BY <2>2, LossStep
    <2>3. CASE C!AskEndpoint \/ C!AskRegistry \/ C!MoveAlias \/ C!Deploy
      BY <2>3, VersionStep
    <2>4. CASE C!Tick
      BY <2>4, TickStep
    <2>5. CASE UNCHANGED C!vars
      BY <2>5 DEF C!vars, C!refusals, C!versions, SignalsInv, CountsTyped, VersionsTyped,
         PageIsComing, DifferenceWasReal, C!Differs
    <2>. QED
      BY <2>1, <2>2, <2>3, <2>4, <2>5 DEF C!Next
  <1>. QED
    BY <1>1, <1>2, PTL DEF C!Spec

(* A refusal counted on a series Prometheus has seen is paged after its    *)
(* sustain, whichever clients overwrite each other, and A-4 pages only of  *)
(* a disagreement there was in its half hour, also when a side could not   *)
(* be read, the alias moved between the two questions or the gateway lost  *)
(* the pair (client_counters.py, push_serving_version.py).                 *)
THEOREM SignalsHonest ==
    ASSUME C!SignalsAssumption
    PROVE  C!Spec => []SignalsAreHonest
  <1>1. SignalsInv => SignalsAreHonest
    BY DEF SignalsInv, CountsTyped, VersionsTyped, PageIsComing, DifferenceWasReal,
       SignalsAreHonest, C!SignalsAreHonest, C!TypeOK, C!RefusalIsPaged, C!MismatchWasReal,
       C!Firing, Counting
  <1>. QED
    BY <1>1, SignalsKept, PTL

-----------------------------------------------------------------------------
(* LoadClient.                                                             *)

Steps == [rate : Nat, clean : BOOLEAN, held : BOOLEAN, hot : BOOLEAN]
Attempts == [index : Nat, sent : Nat, done : Nat, ok : BOOLEAN, version : {"v1", "v2", "none"}]
Pods == [object : Nat, phase : {"up", "dying", "down"}, version : {"v1", "v2"}, since : Nat]

LoadTyped ==
    /\ phase \in {"preflight", "ramp", "selfheal", "done", "raised"}
    /\ steps \in Seq(Steps)
    /\ clock \in Nat /\ next \in 0..Total
    /\ worker = [w \in Workers |-> worker[w]]
    /\ \A w \in Workers : worker[w].at \in {"idle", "due", "sent", "done"}
    /\ attempts \subseteq Attempts /\ IsFiniteSet(attempts)
    /\ pod \in Pods /\ alias \in {"v1", "v2"}
    /\ driver \in [tick : Nat, killed : Int]
    /\ faults \in 0..MaxFaults

Flying(w) == worker[w].at \in {"due", "sent"}
Attempted(i) == \E a \in attempts : a.index = i

(* Every index below the counter is with one thread or attempted once, and *)
(* a thread is done only when there is none above it.                      *)
Requests ==
    /\ \A a, b \in attempts : a.index = b.index => a = b
    /\ \A a \in attempts : a.index < next
    /\ \A w \in Workers : Flying(w) =>
          worker[w].index \in 0..(next - 1) /\ ~Attempted(worker[w].index)
    /\ \A v, w \in Workers : Flying(v) /\ Flying(w) /\ worker[v].index = worker[w].index => v = w
    /\ \A i \in 0..(next - 1) :
          Attempted(i) \/ \E w \in Workers : Flying(w) /\ worker[w].index = i
    /\ \A w \in Workers : worker[w].at = "done" => next = Total
    /\ phase = "done" => \A w \in Workers : worker[w].at = "done"

(* No request is sent before its second, and none is answered later than   *)
(* now.                                                                    *)
Times ==
    /\ \A w \in Workers : worker[w].at = "sent" =>
          worker[w].sent \in Nat /\ worker[w].index <= clock
    /\ \A a \in attempts : a.index <= a.done /\ a.done <= clock

(* The pod is replaced once, within a second of the kill's; what answers   *)
(* after that is the replacement.                                          *)
Kills ==
    /\ clock <= driver.tick + 1
    /\ driver.killed = -1 => driver.tick <= KillAt /\ pod.object = 0 /\ pod.phase = "up"
    /\ pod.phase = "dying" => pod.object = 0 /\ clock <= KillAt + 1
    /\ pod.phase = "down" =>
          pod.object # 0 /\ \A a \in attempts : a.ok => a.done <= KillAt + 1
    /\ pod.phase = "up" /\ pod.object # 0 =>
          \A a \in attempts : a.ok /\ a.done > KillAt + 1 => a.version = pod.version

Replaced ==
    /\ record = [passed |-> record.passed, recovered |-> record.recovered, up |-> record.up]
    /\ record.passed \in BOOLEAN
    /\ record.passed =>
          phase = "done" /\ pod.object # 0 /\ pod.phase = "up" /\ L!Versions = {pod.version}

LoadInv == LoadTyped /\ Requests /\ Times /\ Kills /\ Replaced

-----------------------------------------------------------------------------
(* Ranks.  In a finite set of pairs, ordered by their first and then by    *)
(* their second, every rank up to the size of the set is some element's.   *)

Lower(S, pair) ==
    {other \in S : other[1] < pair[1] \/ (other[1] = pair[1] /\ other[2] <= pair[2])}

LEMMA LowerDiffers ==
    ASSUME NEW S, IsFiniteSet(S), S \subseteq Int \X Int, NEW x \in S, NEW y \in S,
           x[1] < y[1] \/ (x[1] = y[1] /\ x[2] < y[2])
    PROVE  Cardinality(Lower(S, x)) # Cardinality(Lower(S, y))
  <1>1. x[1] \in Int /\ x[2] \in Int /\ y[1] \in Int /\ y[2] \in Int
    OBVIOUS
  <1>2. Lower(S, x) \subseteq Lower(S, y)
    <2>. SUFFICES ASSUME NEW z \in Lower(S, x) PROVE z \in Lower(S, y)
      OBVIOUS
    <2>1. z \in S /\ z[1] \in Int /\ z[2] \in Int
      BY DEF Lower
    <2>. QED
      BY <1>1, <2>1 DEF Lower
  <1>3. y \in Lower(S, y) /\ y \notin Lower(S, x)
    BY <1>1 DEF Lower
  <1>4. IsFiniteSet(Lower(S, y))
    BY FS_Subset DEF Lower
  <1>. QED
    BY <1>2, <1>3, <1>4, FS_Subset

LEMMA RankTaken ==
    ASSUME NEW S, IsFiniteSet(S), S \subseteq Int \X Int, NEW k \in 1..Cardinality(S)
    PROVE  \E x \in S : Cardinality(Lower(S, x)) = k
  <1>. DEFINE n == Cardinality(S)
              f == [x \in S |-> Cardinality(Lower(S, x))]
  <1>1. n \in Nat /\ IsFiniteSet(1..n) /\ Cardinality(1..n) = n
    BY FS_CardinalityType, FS_Interval
  <1>2. ASSUME NEW x \in S PROVE Cardinality(Lower(S, x)) \in 1..n
    <2>1. x[1] \in Int /\ x[2] \in Int
      OBVIOUS
    <2>2. Lower(S, x) \subseteq S /\ {x} \subseteq Lower(S, x)
      BY <2>1 DEF Lower
    <2>3. IsFiniteSet(Lower(S, x)) /\ Cardinality(Lower(S, x)) <= n
      BY <2>2, FS_Subset
    <2>4. Cardinality({x}) <= Cardinality(Lower(S, x))
      BY <2>2, <2>3, FS_Subset
    <2>5. Cardinality({x}) = 1 /\ Cardinality(Lower(S, x)) \in Nat
      BY <2>3, FS_Singleton, FS_CardinalityType
    <2>. QED
      BY <1>1, <2>3, <2>4, <2>5
  <1>3. ASSUME NEW x \in S, NEW y \in S, x # y
        PROVE  Cardinality(Lower(S, x)) # Cardinality(Lower(S, y))
    <2>1. x \in Int \X Int /\ y \in Int \X Int
      OBVIOUS
    <2>2. x[1] \in Int /\ x[2] \in Int /\ y[1] \in Int /\ y[2] \in Int
          /\ x = <<x[1], x[2]>> /\ y = <<y[1], y[2]>>
      BY <2>1
    <2>3. x[1] # y[1] \/ x[2] # y[2]
      BY <1>3, <2>2
    <2>4. \/ x[1] < y[1] \/ (x[1] = y[1] /\ x[2] < y[2])
          \/ y[1] < x[1] \/ (y[1] = x[1] /\ y[2] < x[2])
      BY <2>2, <2>3
    <2>. QED
      BY <2>4, LowerDiffers
  <1>4. f \in Injection(S, 1..n)
    BY <1>2, <1>3 DEF Injection, IsInjective
  <1>5. f \in Surjection(S, 1..n)
    BY <1>1, <1>4, FS_Injection
  <1>6. \E x \in S : f[x] = k
    BY <1>5 DEF Surjection
  <1>. QED
    BY <1>6

(* Of a finite set of numbers that is not empty, Max is an element.        *)
LEMMA MaxIsOne ==
    ASSUME NEW S, IsFiniteSet(S), S \subseteq Int, S # {}
    PROVE  Max(S) \in S
  <1>. DEFINE f == [x \in S |-> <<x, 0>>]
              pairs == {<<x, 0>> : x \in S}
  <1>1. f \in Surjection(S, pairs)
    BY DEF Surjection
  <1>2. IsFiniteSet(pairs) /\ pairs \subseteq Int \X Int
    BY <1>1, FS_Surjection
  <1>3. Cardinality(pairs) \in 1..Cardinality(pairs)
    <2>1. pairs # {}
      OBVIOUS
    <2>. HIDE DEF pairs
    <2>2. Cardinality(pairs) \in Nat
      BY <1>2, FS_CardinalityType
    <2>3. Cardinality(pairs) # 0
      BY <1>2, <2>1, FS_EmptySet
    <2>. QED
      BY <2>2, <2>3
  <1>4. PICK top \in pairs : Cardinality(Lower(pairs, top)) = Cardinality(pairs)
    BY <1>2, <1>3, RankTaken
  <1>5. Lower(pairs, top) = pairs
    <2>1. Lower(pairs, top) \subseteq pairs
      BY DEF Lower
    <2>. HIDE DEF pairs
    <2>. QED
      BY <1>2, <1>4, <2>1, FS_Subset
  <1>6. PICK x \in S : top = <<x, 0>>
    OBVIOUS
  <1>7. ASSUME NEW y \in S PROVE x >= y
    <2>1. <<y, 0>> \in Lower(pairs, top)
      BY <1>5
    <2>. QED
      BY <1>6, <2>1 DEF Lower
  <1>. QED
    BY <1>7 DEF Max

(* LoadClient counts as this module does.                                  *)
LEMMA SameCount == \A S : L!Cardinality(S) = Cardinality(S)
  BY DEF L!Cardinality, Cardinality, L!IsFiniteSet, IsFiniteSet

(* The latency that Percentile chooses is one of those measured, and the   *)
(* share q of them is not above it.                                        *)
LEMMA PercentileBounds ==
    ASSUME NEW q \in {50, 95}, IsFiniteSet(L!Latencies), L!Latencies \subseteq Int \X Int,
           L!Latencies # {}
    PROVE  100 * Cardinality({l \in L!Latencies : l[1] <= L!Percentile(q)})
              >= q * Cardinality(L!Latencies)
  <1>. DEFINE n == L!Cardinality(L!Latencies)
              rank == IF q * n < 100 THEN 1 ELSE (q * n + 99) \div 100
              chosen == CHOOSE l \in L!Latencies : L!Cardinality(L!Below(l)) = rank
              low == {l \in L!Latencies : l[1] <= L!Percentile(q)}
  <1>1. n = Cardinality(L!Latencies)
    BY SameCount
  <1>2. n \in Nat /\ n # 0
    BY <1>1, FS_CardinalityType, FS_EmptySet
  <1>3. rank \in 1..n /\ 100 * rank >= q * n
    <2>. HIDE DEF n
    <2>1. CASE q = 50
      BY <1>2, <2>1
    <2>2. CASE q = 95
      BY <1>2, <2>2
    <2>. QED
      BY <2>1, <2>2
  <1>4. L!Percentile(q) = chosen[1]
    BY DEF L!Percentile
  <1>5. \A l \in L!Latencies : L!Below(l) = Lower(L!Latencies, l)
    BY DEF L!Below, Lower
  <1>. HIDE DEF rank
  <1>6. PICK l \in L!Latencies : Cardinality(Lower(L!Latencies, l)) = rank
    BY <1>1, <1>3, RankTaken
  <1>7. L!Cardinality(L!Below(l)) = rank
    BY <1>5, <1>6, SameCount
  <1>8. chosen \in L!Latencies /\ L!Cardinality(L!Below(chosen)) = rank
    BY <1>7
  <1>9. Cardinality(L!Below(chosen)) = rank
    BY <1>8, SameCount
  <1>. HIDE DEF chosen
  <1>10. L!Below(chosen) \subseteq low
    <2>. SUFFICES ASSUME NEW m \in L!Below(chosen) PROVE m \in low
      OBVIOUS
    <2>1. m \in L!Latencies /\ m[1] \in Int /\ chosen[1] \in Int
      BY <1>8 DEF L!Below
    <2>. QED
      BY <1>4, <2>1 DEF L!Below
  <1>11. IsFiniteSet(low) /\ Cardinality(L!Below(chosen)) <= Cardinality(low)
    <2>1. low \subseteq L!Latencies
      OBVIOUS
    <2>. HIDE DEF low
    <2>. QED
      BY <1>10, <2>1, FS_Subset
  <1>12. Cardinality(low) \in Nat
    BY <1>11, FS_CardinalityType
  <1>. HIDE DEF n, low
  <1>13. 100 * Cardinality(low) >= q * n
    BY <1>2, <1>3, <1>9, <1>11, <1>12
  <1>. QED
    BY <1>1, <1>13 DEF low

(* What was measured in a typed state is finitely many numbers.            *)
LEMMA LatenciesFinite ==
    ASSUME LoadTyped
    PROVE  /\ IsFiniteSet(L!Latencies) /\ L!Latencies \subseteq Int \X Int
           /\ attempts # L!Errors => L!Latencies # {}
  <1>. DEFINE ok == attempts \ L!Errors
              f == [a \in ok |-> <<a.done - a.index, a.index>>]
  <1>1. L!Latencies = {<<a.done - a.index, a.index>> : a \in ok}
    BY DEF L!Latencies
  <1>2. IsFiniteSet(ok) /\ \A a \in ok : a.done \in Nat /\ a.index \in Nat
    BY FS_Subset DEF LoadTyped, Attempts
  <1>3. attempts # L!Errors => ok # {}
    BY DEF L!Errors
  <1>. HIDE DEF ok
  <1>4. f \in Surjection(ok, L!Latencies)
    BY <1>1 DEF Surjection
  <1>. QED
    BY <1>1, <1>2, <1>3, <1>4, FS_Surjection

LEMMA HeadlineIsFits ==
    ASSUME LoadTyped
    PROVE  L!HeadlineIsMeasured
  <1>. DEFINE fit == {i \in DOMAIN steps : steps[i].clean /\ steps[i].held /\ ~steps[i].hot}
              rates == {steps[i].rate : i \in fit}
              f == [i \in fit |-> steps[i].rate]
  <1>1. ASSUME fit # {} PROVE \E i \in fit : steps[i].rate = L!HeadlineRate
    <2>1. L!HeadlineRate = Max(rates)
      BY <1>1 DEF L!HeadlineRate, L!Measured, L!Max, Max
    <2>2. steps \in Seq(Steps)
      BY DEF LoadTyped
    <2>3. DOMAIN steps = 1..Len(steps) /\ Len(steps) \in Nat
      BY <2>2, LenProperties
    <2>4. ASSUME NEW i \in DOMAIN steps PROVE steps[i].rate \in Int
      <3>1. steps[i] \in Steps
        BY <2>2, <2>3, ElementOfSeq
      <3>. QED
        BY <3>1 DEF Steps
    <2>5. fit \subseteq 1..Len(steps) /\ fit \subseteq DOMAIN steps
      BY <2>3
    <2>. HIDE DEF fit
    <2>6. IsFiniteSet(fit)
      <3>1. IsFiniteSet(1..Len(steps))
        BY <2>3, FS_Interval
      <3>. QED
        BY <2>5, <3>1, FS_Subset
    <2>7. f \in Surjection(fit, rates)
      BY DEF Surjection
    <2>8. IsFiniteSet(rates)
      BY <2>6, <2>7, FS_Surjection
    <2>9. rates \subseteq Int /\ rates # {}
      BY <1>1, <2>4, <2>5
    <2>. HIDE DEF rates
    <2>10. Max(rates) \in rates
      BY <2>8, <2>9, MaxIsOne
    <2>. QED
      BY <2>1, <2>10 DEF rates
  <1>2. phase = "ramp" /\ Len(steps) = Len(Rates) =>
           (fit # {} => \E i \in fit : steps[i].rate = L!HeadlineRate)
    BY <1>1
  <1>3. phase = "done" /\ attempts # L!Errors =>
           \A q \in {50, 95} :
              100 * Cardinality({l \in L!Latencies : l[1] <= L!Percentile(q)})
                 >= q * Cardinality(L!Latencies)
    BY LatenciesFinite, PercentileBounds
  <1>. QED
    BY <1>2, <1>3, SameCount DEF L!HeadlineIsMeasured

-----------------------------------------------------------------------------
(* The load client's steps.                                                *)

LEMMA LoadStart ==
    ASSUME L!LoadAssumption, L!Init
    PROVE  LoadInv
  <1>1. LoadTyped
    BY FS_EmptySet DEF L!Init, L!LoadAssumption, LoadTyped, L!Idle, Pods
  <1>2. Requests
    BY DEF L!Init, L!LoadAssumption, Requests, Flying, Attempted, L!Idle
  <1>3. Times
    BY DEF L!Init, Times, L!Idle
  <1>4. Kills
    BY DEF L!Init, L!LoadAssumption, Kills
  <1>5. Replaced
    BY DEF L!Init, Replaced, L!NoRecord
  <1>. QED
    BY <1>1, <1>2, <1>3, <1>4, <1>5 DEF LoadInv

(* Preflight, ramp and headline come before the first request.             *)
LEMMA RampSteps ==
    ASSUME L!LoadAssumption, LoadInv, L!Preflight \/ L!RampStep \/ L!Headline
    PROVE  LoadInv'
  <1>. USE DEF LoadInv
  <1>1. /\ UNCHANGED <<clock, next, worker, attempts, pod, alias, driver, record>>
        /\ phase \in {"preflight", "ramp"} /\ phase' \in {"ramp", "raised", "selfheal"}
        /\ faults' \in 0..MaxFaults
    BY SMTT(30) DEF L!Preflight, L!RampStep, L!Headline, L!load, L!world, L!Fault, LoadTyped,
       L!LoadAssumption
  <1>2. steps' \in Seq(Steps)
    <2>1. steps \in Seq(Steps)
      BY DEF LoadTyped
    <2>2. CASE L!Preflight
      BY <2>1, <2>2 DEF L!Preflight
    <2>3. CASE L!Headline
      BY <2>3 DEF L!Headline
    <2>4. CASE L!RampStep
      <3>1. Len(steps) \in Nat /\ Len(steps) < Len(Rates) /\ Rates \in Seq(Nat)
        BY <2>1, <2>4, LenProperties DEF L!RampStep, L!LoadAssumption
      <3>2. Rates[Len(steps) + 1] \in Nat
        BY <3>1, ElementOfSeq, LenProperties
      <3>3. PICK clean \in BOOLEAN, held0 \in BOOLEAN, cpu \in L!Saturation :
               steps' = Append(steps, [rate |-> Rates[Len(steps) + 1], clean |-> clean,
                                       held |-> held0, hot |-> cpu.hot])
        BY <2>4 DEF L!RampStep
      <3>4. cpu.hot \in BOOLEAN
        <4>1. cpu = [hot |-> FALSE] \/ cpu = [hot |-> TRUE]
          BY DEF L!Saturation
        <4>2. cpu = [hot |-> FALSE] => cpu.hot = FALSE
          OBVIOUS
        <4>3. cpu = [hot |-> TRUE] => cpu.hot = TRUE
          OBVIOUS
        <4>. QED
          BY <4>1, <4>2, <4>3, Zenon
      <3>5. [rate |-> Rates[Len(steps) + 1], clean |-> clean, held |-> held0, hot |-> cpu.hot]
               \in Steps
        BY <3>2, <3>4 DEF Steps
      <3>. QED
        BY <2>1, <3>3, <3>5, AppendProperties
    <2>. QED
      BY <2>2, <2>3, <2>4
  <1>3. LoadTyped'
    BY <1>1, <1>2 DEF LoadTyped
  <1>4. Requests' /\ Times' /\ Kills' /\ Replaced'
    BY <1>1 DEF Requests, Times, Kills, Replaced, Flying, Attempted
  <1>. QED
    BY <1>3, <1>4

(* A thread takes the counter's index, or there is none left.              *)
LEMMA TakeStep ==
    ASSUME L!LoadAssumption, LoadInv, NEW w \in Workers, L!TakeIndex(w)
    PROVE  LoadInv'
  <1>. USE DEF LoadInv
  <1>1. /\ UNCHANGED <<phase, steps, clock, attempts, pod, alias, driver, record, faults>>
        /\ phase = "selfheal" /\ worker[w].at = "idle"
    BY DEF L!TakeIndex, L!Take, L!world
  <1>2. worker = [v \in Workers |-> worker[v]] /\ next \in 0..Total /\ Total \in Nat
    BY DEF LoadTyped, L!LoadAssumption
  <1>3. Kills' /\ Replaced'
    BY <1>1 DEF Kills, Replaced, L!Versions, L!Errors
  <1>4. CASE next >= Total
    <2>1. worker' = [worker EXCEPT ![w] = [at |-> "done"]] /\ next' = next /\ next = Total
      BY <1>2, <1>4 DEF L!TakeIndex, L!Take
    <2>2. LoadTyped' /\ Times'
      BY <1>1, <1>2, <2>1 DEF LoadTyped, Times
    <2>3. Requests'
      BY SMTT(30), <1>1, <1>2, <2>1 DEF Requests, Flying, Attempted
    <2>. QED
      BY <1>3, <2>2, <2>3
  <1>5. CASE ~ (next >= Total)
    <2>1. /\ worker' = [worker EXCEPT ![w] = [at |-> "due", index |-> next]]
          /\ next' = next + 1 /\ next < Total
      BY <1>2, <1>5 DEF L!TakeIndex, L!Take
    <2>2. LoadTyped' /\ Times'
      BY <1>1, <1>2, <2>1 DEF LoadTyped, Times
    <2>3. /\ worker'[w].at = "due" /\ worker'[w].index = next
          /\ \A v \in Workers : v # w => worker'[v] = worker[v]
      BY <1>2, <2>1
    <2>4. /\ \A v \in Workers : Flying(v) => v # w
          /\ \A v \in Workers : Flying(v)' <=> (v = w \/ Flying(v))
      BY <1>1, <2>3 DEF Flying
    <2>5. \A i : Attempted(i)' <=> Attempted(i)
      BY <1>1 DEF Attempted
    <2>6. ~ Attempted(next) /\ \A v \in Workers : Flying(v) => worker[v].index \in 0..(next - 1)
      BY <1>2 DEF Requests, Attempted, LoadTyped, Attempts
    <2>7. \A a, b \in attempts' : a.index = b.index => a = b
      BY <1>1 DEF Requests
    <2>8. \A a \in attempts' : a.index < next'
      BY <1>1, <1>2, <2>1 DEF Requests, LoadTyped, Attempts
    <2>9. \A v \in Workers : Flying(v)' =>
             worker'[v].index \in 0..(next' - 1) /\ ~Attempted(worker[v].index)'
      BY <1>1, <1>2, <2>1, <2>3, <2>4, <2>6 DEF Requests, Attempted
    <2>10. \A u, v \in Workers :
              Flying(u)' /\ Flying(v)' /\ worker'[u].index = worker'[v].index => u = v
      BY <1>2, <2>3, <2>4, <2>6 DEF Requests
    <2>11. ASSUME NEW i \in 0..(next' - 1)
           PROVE  Attempted(i)' \/ \E v \in Workers : Flying(v)' /\ worker'[v].index = i
      <3>1. CASE i = next
        BY <2>3, <2>4, <3>1
      <3>2. CASE i # next
        <4>1. i \in 0..(next - 1)
          BY <1>2, <2>1, <3>2
        <4>. QED
          BY <2>3, <2>4, <2>5, <4>1 DEF Requests
      <3>. QED
        BY <3>1, <3>2
    <2>12. \A v \in Workers : worker'[v].at # "done"
      BY <1>2, <2>1, <2>3 DEF Requests
    <2>13. Requests'
      BY <1>1, <2>7, <2>8, <2>9, <2>10, <2>11, <2>12 DEF Requests
    <2>. QED
      BY <1>3, <2>2, <2>13
  <1>. QED
    BY <1>4, <1>5

LEMMA SendStep ==
    ASSUME L!LoadAssumption, LoadInv, NEW w \in Workers, L!Send(w)
    PROVE  LoadInv'
  <1>. USE DEF LoadInv
  <1>1. /\ UNCHANGED <<phase, steps, clock, next, attempts, pod, alias, driver, record, faults>>
        /\ worker[w].at = "due" /\ clock >= worker[w].index
        /\ worker' = [worker EXCEPT ![w] = [at |-> "sent", index |-> worker[w].index,
                                            sent |-> clock]]
    BY DEF L!Send, L!world
  <1>2. worker = [v \in Workers |-> worker[v]] /\ clock \in Nat /\ next \in Nat
    BY DEF LoadTyped
  <1>3. Kills' /\ Replaced'
    BY <1>1 DEF Kills, Replaced, L!Versions, L!Errors
  <1>4. LoadTyped'
    BY <1>1, <1>2 DEF LoadTyped
  <1>5. worker[w].index \in Nat
    BY <1>1 DEF Requests, Flying
  <1>6. Times'
    BY <1>1, <1>2, <1>5 DEF Times
  <1>7. /\ \A v \in Workers : Flying(v)' <=> Flying(v)
        /\ \A v \in Workers : Flying(v) => worker'[v].index = worker[v].index
        /\ \A v \in Workers : worker'[v].at = "done" <=> worker[v].at = "done"
        /\ \A i : Attempted(i)' <=> Attempted(i)
    BY <1>1, <1>2 DEF Flying, Attempted
  <1>8. Requests'
    BY <1>1, <1>7 DEF Requests
  <1>. QED
    BY <1>3, <1>4, <1>6, <1>8

(* Whatever happens to a request, it becomes an attempt and its thread is  *)
(* free.                                                                   *)
LEMMA AnswerStep ==
    ASSUME L!LoadAssumption, LoadInv, NEW w \in Workers, L!Answer(w)
    PROVE  LoadInv'
  <1>. USE DEF LoadInv
  <1>1. /\ UNCHANGED <<phase, steps, clock, next, pod, alias, driver, record>>
        /\ worker[w].at = "sent" /\ worker' = [worker EXCEPT ![w] = [at |-> "idle"]]
        /\ faults' \in 0..MaxFaults
    <2>1. UNCHANGED faults \/ L!Fault
      BY DEF L!Answer
    <2>2. faults' \in 0..MaxFaults
      BY SMTT(30), <2>1 DEF L!Fault, LoadTyped, L!LoadAssumption
    <2>. QED
      BY <2>2 DEF L!Answer, L!world, L!Idle
  <1>2. /\ worker = [v \in Workers |-> worker[v]] /\ clock \in Nat /\ next \in 0..Total
        /\ Total \in Nat /\ pod \in Pods
    BY DEF LoadTyped, L!LoadAssumption
  <1>3. /\ worker[w].index \in 0..(next - 1) /\ worker[w].sent \in Nat
        /\ worker[w].index <= clock /\ ~ Attempted(worker[w].index) /\ Flying(w)
    BY <1>1 DEF Requests, Times, Flying
  <1>4. PICK a \in Attempts :
           /\ attempts' = attempts \cup {a}
           /\ a.index = worker[w].index /\ a.done = clock
           /\ a.ok => L!Up /\ a.version = pod.version
    <2>1. PICK ok \in BOOLEAN : attempts' = attempts \cup {L!Attempt(w, ok)} /\ (ok => L!Up)
      BY DEF L!Answer
    <2>2. L!Attempt(w, ok) \in Attempts
      BY <1>2, <1>3 DEF L!Attempt, Attempts, Pods
    <2>. QED
      BY <2>1, <2>2 DEF L!Attempt
  <1>5. LoadTyped'
    <2>1. IsFiniteSet(attempts')
      BY <1>4, FS_AddElement DEF LoadTyped
    <2>. QED
      BY <1>1, <1>2, <1>4, <2>1 DEF LoadTyped
  <1>6. Times'
    BY <1>1, <1>2, <1>3, <1>4 DEF Times
  <1>7. Kills'
    <2>1. L!Up => pod.phase # "down" /\ (pod.phase = "dying" => clock <= KillAt + 1)
      BY DEF L!Up, Kills
    <2>. QED
      BY <1>1, <1>4, <2>1 DEF Kills, L!Up
  <1>8. ~ record.passed
    BY <1>1 DEF Replaced, Requests
  <1>9. Replaced'
    BY <1>1, <1>8 DEF Replaced
  <1>10. /\ worker'[w].at = "idle" /\ \A v \in Workers : v # w => worker'[v] = worker[v]
    BY <1>1, <1>2
  <1>11. /\ \A v \in Workers : Flying(v)' <=> (v # w /\ Flying(v))
         /\ \A v \in Workers : worker'[v].at = "done" <=> worker[v].at = "done"
    BY <1>1, <1>10 DEF Flying
  <1>12. \A i : Attempted(i)' <=> (Attempted(i) \/ i = worker[w].index)
    BY <1>4 DEF Attempted
  <1>13. \A a1, a2 \in attempts' : a1.index = a2.index => a1 = a2
    BY <1>3, <1>4 DEF Requests, Attempted
  <1>14. \A a1 \in attempts' : a1.index < next'
    BY <1>1, <1>2, <1>3, <1>4 DEF Requests
  <1>15. \A v \in Workers : Flying(v)' =>
            worker'[v].index \in 0..(next' - 1) /\ ~Attempted(worker[v].index)'
    <2>. SUFFICES ASSUME NEW v \in Workers, Flying(v)'
                  PROVE  worker'[v].index \in 0..(next' - 1) /\ ~Attempted(worker[v].index)'
      OBVIOUS
    <2>1. v # w /\ Flying(v) /\ worker'[v] = worker[v]
      BY <1>10, <1>11
    <2>2. worker[v].index \in 0..(next - 1) /\ ~ Attempted(worker[v].index)
          /\ worker[v].index # worker[w].index
      BY <1>3, <2>1 DEF Requests
    <2>3. ~ Attempted(worker[v].index)'
      BY <1>4, <2>1, <2>2 DEF Attempted
    <2>. QED
      BY <1>1, <2>1, <2>2, <2>3
  <1>16. \A u, v \in Workers :
            Flying(u)' /\ Flying(v)' /\ worker'[u].index = worker'[v].index => u = v
    BY <1>10, <1>11 DEF Requests
  <1>17. \A i \in 0..(next' - 1) :
            Attempted(i)' \/ \E v \in Workers : Flying(v)' /\ worker'[v].index = i
    BY <1>1, <1>10, <1>11, <1>12 DEF Requests
  <1>18. Requests'
    <2>1. \A v \in Workers : worker'[v].at = "done" => next' = Total
      BY <1>1, <1>11 DEF Requests
    <2>2. phase' # "done"
      BY <1>1 DEF Requests
    <2>. QED
      BY <1>13, <1>14, <1>15, <1>16, <1>17, <2>1, <2>2 DEF Requests
  <1>. QED
    BY <1>5, <1>6, <1>7, <1>9, <1>18

(* The callback of a second: once it deletes the pod, and that is at the   *)
(* second KillAt, which the clock is at most one past.                     *)
LEMMA SecondStep ==
    ASSUME L!LoadAssumption, LoadInv, L!OnSecond
    PROVE  LoadInv'
  <1>. USE DEF LoadInv
  <1>1. /\ UNCHANGED <<phase, steps, clock, next, worker, attempts, alias, record>>
        /\ phase = "selfheal" /\ L!Strike
    BY DEF L!OnSecond, L!load
  <1>2. /\ driver \in [tick : Nat, killed : Int] /\ clock \in Nat /\ pod \in Pods
        /\ KillAt \in Nat
    BY DEF LoadTyped, L!LoadAssumption
  <1>3. Requests' /\ Times'
    BY <1>1 DEF Requests, Times, Flying, Attempted
  <1>4. ~ record.passed /\ Replaced'
    BY <1>1 DEF Replaced
  <1>5. CASE driver.killed = -1 /\ driver.tick >= KillAt
    <2>1. /\ driver' = [tick |-> driver.tick + 1, killed |-> driver.tick]
          /\ \/ pod' = [pod EXCEPT !.phase = "dying"] /\ UNCHANGED faults
             \/ UNCHANGED pod /\ L!Fault
      BY <1>1, <1>5 DEF L!Strike
    <2>2. LoadTyped'
      <3>1. pod' \in Pods
        BY <1>2, <2>1 DEF Pods
      <3>2. driver' \in [tick : Nat, killed : Int]
        BY <1>2, <2>1
      <3>3. UNCHANGED faults \/ L!Fault
        BY <2>1
      <3>4. faults' \in 0..MaxFaults
        BY SMTT(30), <3>3 DEF L!Fault, LoadTyped, L!LoadAssumption
      <3>. QED
        BY <1>1, <3>1, <3>2, <3>4 DEF LoadTyped
    <2>3. clock <= KillAt + 1 /\ pod.object = 0 /\ pod.phase = "up"
      BY <1>2, <1>5 DEF Kills
    <2>4. pod'.object = 0 /\ pod'.phase \in {"up", "dying"}
      BY <1>2, <2>1, <2>3 DEF Pods
    <2>5. driver'.killed # -1 /\ driver'.tick = driver.tick + 1
      BY <1>2, <2>1
    <2>6. clock <= driver.tick + 1
      BY DEF Kills
    <2>7. Kills'
      BY <1>1, <1>2, <2>3, <2>4, <2>5, <2>6 DEF Kills
    <2>. QED
      BY <1>3, <1>4, <2>2, <2>7
  <1>6. CASE ~ (driver.killed = -1 /\ driver.tick >= KillAt)
    <2>1. driver' = [driver EXCEPT !.tick = driver.tick + 1] /\ UNCHANGED <<pod, faults>>
      BY <1>1, <1>6 DEF L!Strike
    <2>2. LoadTyped'
      BY <1>1, <1>2, <2>1 DEF LoadTyped
    <2>3. Kills'
      BY <1>1, <1>2, <1>6, <2>1 DEF Kills
    <2>. QED
      BY <1>3, <1>4, <2>2, <2>3
  <1>. QED
    BY <1>5, <1>6

(* The pod dies, the replacement comes up, the alias moves.                *)
LEMMA PodSteps ==
    ASSUME L!LoadAssumption, LoadInv, L!Die \/ L!Heal \/ L!MoveAlias
    PROVE  LoadInv'
  <1>. USE DEF LoadInv
  <1>1. /\ UNCHANGED <<phase, steps, clock, next, worker, attempts, driver, record>>
        /\ faults' \in 0..MaxFaults
    BY SMTT(30) DEF L!Die, L!Heal, L!MoveAlias, L!load, L!Fault, LoadTyped, L!LoadAssumption
  <1>2. /\ clock \in Nat /\ pod \in Pods /\ KillAt \in Nat /\ alias \in {"v1", "v2"}
        /\ attempts \subseteq Attempts
    BY DEF LoadTyped, L!LoadAssumption
  <1>3. Requests' /\ Times'
    BY <1>1 DEF Requests, Times, Flying, Attempted
  <1>4. CASE L!Die
    <2>1. /\ pod.phase = "dying" /\ UNCHANGED alias
          /\ pod' = [object |-> pod.object + 1, phase |-> "down", version |-> pod.version,
                     since |-> clock]
      BY <1>2, <1>4 DEF L!Die, Pods
    <2>2. LoadTyped'
      BY <1>1, <1>2, <2>1 DEF LoadTyped, Pods
    <2>3. pod'.object # 0 /\ pod'.phase = "down" /\ driver.killed # -1
      BY <1>2, <2>1 DEF Kills, Pods
    <2>4. \A a \in attempts : a.done <= KillAt + 1
      BY <1>2, <2>1 DEF Kills, Times, Attempts
    <2>5. Kills'
      BY <1>1, <2>3, <2>4 DEF Kills
    <2>6. Replaced'
      BY <1>1, <2>1 DEF Replaced
    <2>. QED
      BY <1>3, <2>2, <2>5, <2>6
  <1>5. CASE L!Heal
    <2>1. /\ pod.phase = "down" /\ UNCHANGED alias
          /\ pod' = [object |-> pod.object, phase |-> "up", version |-> alias, since |-> clock]
      BY <1>2, <1>5 DEF L!Heal, Pods
    <2>2. LoadTyped'
      BY <1>1, <1>2, <2>1 DEF LoadTyped, Pods
    <2>3. \A a \in attempts : ~ (a.ok /\ a.done > KillAt + 1)
      BY <1>2, <2>1 DEF Kills, Attempts
    <2>4. pod'.object # 0 /\ pod'.phase = "up" /\ driver.killed # -1
      BY <2>1 DEF Kills
    <2>5. Kills'
      BY <1>1, <2>3, <2>4 DEF Kills
    <2>6. Replaced'
      BY <1>1, <2>1 DEF Replaced
    <2>. QED
      BY <1>3, <2>2, <2>5, <2>6
  <1>6. CASE L!MoveAlias
    <2>1. alias' = "v2" /\ UNCHANGED pod
      BY <1>6 DEF L!MoveAlias
    <2>2. LoadTyped'
      BY <1>1, <2>1 DEF LoadTyped
    <2>3. Kills' /\ Replaced'
      BY <1>1, <2>1 DEF Kills, Replaced, L!Versions, L!Errors
    <2>. QED
      BY <1>3, <2>2, <2>3
  <1>. QED
    BY <1>4, <1>5, <1>6

LEMMA SecondPasses ==
    ASSUME L!LoadAssumption, LoadInv, L!Tick
    PROVE  LoadInv'
  <1>. USE DEF LoadInv
  <1>1. /\ UNCHANGED <<phase, steps, next, worker, attempts, pod, alias, driver, record>>
        /\ clock' = clock + 1 /\ driver.tick >= clock /\ pod.phase # "dying"
        /\ UNCHANGED faults \/ L!Fault
    BY DEF L!Tick, L!world
  <1>2. faults' \in 0..MaxFaults
    BY SMTT(30), <1>1 DEF L!Fault, LoadTyped, L!LoadAssumption
  <1>3. clock \in Nat /\ driver.tick \in Nat /\ attempts \subseteq Attempts
    BY DEF LoadTyped
  <1>4. LoadTyped'
    BY <1>1, <1>2 DEF LoadTyped
  <1>5. Requests' /\ Replaced'
    BY <1>1 DEF Requests, Flying, Attempted, Replaced, L!Versions, L!Errors
  <1>6. Times'
    <2>1. \A w \in Workers : worker[w].at = "sent" =>
             worker[w].sent \in Nat /\ worker[w].index \in Int /\ worker[w].index <= clock
      BY DEF Times, Requests, Flying
    <2>. QED
      BY <1>1, <1>3, <2>1 DEF Times, Attempts
  <1>7. Kills'
    BY <1>1, <1>3 DEF Kills
  <1>. QED
    BY <1>4, <1>5, <1>6, <1>7

(* What is written into a record, whatever was recorded before.            *)
LEMMA RecordWritten ==
    ASSUME NEW S, NEW old \in [passed : BOOLEAN, recovered : S, up : S],
           NEW p \in BOOLEAN, NEW r \in S, NEW u \in S, NEW new,
           \/ new = [old EXCEPT !.passed = p, !.recovered = r, !.up = u]
           \/ new = [old EXCEPT !.recovered = r]
    PROVE  /\ new \in [passed : BOOLEAN, recovered : S, up : S]
           /\ new.passed = p \/ new.passed = old.passed
  <1>1. CASE new = [old EXCEPT !.passed = p, !.recovered = r, !.up = u]
    <2>1. new \in [passed : BOOLEAN, recovered : S, up : S]
      BY <1>1
    <2>2. new.passed = p
      BY <1>1
    <2>. QED
      BY <2>1, <2>2
  <1>2. CASE new = [old EXCEPT !.recovered = r]
    <2>1. new \in [passed : BOOLEAN, recovered : S, up : S]
      BY <1>2
    <2>2. new.passed = old.passed
      BY <1>2
    <2>. QED
      BY <2>1, <2>2
  <1>. QED
    BY <1>1, <1>2

(* A drill that passes saw the last second answered, which is after the    *)
(* replacement came, and answered by one version.                          *)
LEMMA FinishStep ==
    ASSUME L!LoadAssumption, LoadInv, L!Finish
    PROVE  LoadInv'
  <1>. USE DEF LoadInv
  <1>1. /\ UNCHANGED <<steps, clock, next, worker, attempts, pod, alias, driver>>
        /\ phase = "selfheal" /\ phase' = "done"
        /\ \A w \in Workers : worker[w].at = "done"
        /\ UNCHANGED faults \/ L!Fault
    BY DEF L!Finish, L!load, L!world
  <1>2. faults' \in 0..MaxFaults
    BY SMTT(30), <1>1 DEF L!Fault, LoadTyped, L!LoadAssumption
  <1>3. LoadTyped'
    BY <1>1, <1>2 DEF LoadTyped
  <1>4. Requests' /\ Times' /\ Kills'
    BY <1>1 DEF Requests, Times, Kills, Flying, Attempted
  <1>5. ~ record.passed
    BY <1>1 DEF Replaced
  <1>. DEFINE p == L!Passed(L!Up)
              r == L!Recovered(driver.killed)
              u == IF pod.object > 0 /\ pod.phase = "up" THEN pod.since ELSE -1
              S == {record.recovered, record.up, r, u}
  <1>6. /\ record' \in [passed : BOOLEAN, recovered : S, up : S]
        /\ record'.passed = p \/ record'.passed = FALSE
    <2>1. \/ record' = [record EXCEPT !.passed = p, !.recovered = r, !.up = u]
          \/ record' = [record EXCEPT !.recovered = r]
      BY DEF L!Finish
    <2>2. p \in BOOLEAN
      BY DEF L!Passed
    <2>. HIDE DEF p, r, u
    <2>3. r \in S /\ u \in S
      OBVIOUS
    <2>4. record \in [passed : BOOLEAN, recovered : S, up : S]
      BY DEF Replaced
    <2>. HIDE DEF S
    <2>5. /\ record' \in [passed : BOOLEAN, recovered : S, up : S]
          /\ record'.passed = p \/ record'.passed = record.passed
      BY <2>1, <2>2, <2>3, <2>4, RecordWritten
    <2>6. record.passed = FALSE
      BY <1>5, <2>4
    <2>. QED
      BY <2>5, <2>6
  <1>. HIDE DEF r, u, S
  <1>7. L!Passed(L!Up) => pod.object # 0 /\ pod.phase = "up" /\ L!Versions = {pod.version}
    <2>. SUFFICES ASSUME L!Passed(L!Up)
                  PROVE  pod.object # 0 /\ pod.phase = "up" /\ L!Versions = {pod.version}
      OBVIOUS
    <2>1. /\ pod.object # 0 /\ pod.phase = "up" /\ L!Dead = {}
          /\ L!Cardinality(L!Versions) = 1
      BY DEF L!Passed
    <2>2. /\ Total \in Nat /\ KillAt \in Nat /\ TailLength \in Nat /\ TailLength > 1
          /\ KillAt + TailLength < Total
      BY DEF L!LoadAssumption
    <2>3. Total - 1 \in (Total - TailLength)..(Total - 1)
      BY <2>2
    <2>4. PICK a \in attempts : a.index = Total - 1 /\ a.ok
      BY <2>1, <2>3 DEF L!Dead
    <2>5. a.done \in Nat /\ a.done >= a.index
      BY DEF LoadTyped, Times, Attempts
    <2>6. a.done > KillAt + 1
      BY <2>2, <2>4, <2>5
    <2>7. a.version = pod.version
      BY <2>1, <2>4, <2>6 DEF Kills
    <2>8. pod.version \in L!Versions
      BY <2>4, <2>7 DEF L!Versions, L!Errors
    <2>9. IsFiniteSet(L!Versions)
      <3>1. L!Versions \subseteq {"v1", "v2", "none"}
        BY DEF L!Versions, LoadTyped, Attempts
      <3>2. IsFiniteSet({"v1", "v2", "none"})
        <4>1. {"v1", "v2", "none"} = ({"v1"} \cup {"v2"}) \cup {"none"}
          OBVIOUS
        <4>2. IsFiniteSet({"v1"} \cup {"v2"})
          BY FS_Singleton, FS_AddElement
        <4>3. IsFiniteSet(({"v1"} \cup {"v2"}) \cup {"none"})
          BY <4>2, FS_AddElement
        <4>. QED
          BY <4>1, <4>3
      <3>. QED
        BY <3>1, <3>2, FS_Subset
    <2>10. Cardinality(L!Versions) = 1
      BY <2>1, SameCount
    <2>11. PICK v : L!Versions = {v}
      BY <2>9, <2>10, FS_Singleton
    <2>. QED
      BY <2>1, <2>8, <2>11
  <1>8. Replaced'
    <2>1. L!Versions' = L!Versions
      BY <1>1 DEF L!Versions, L!Errors
    <2>2. record'.passed => pod.object # 0 /\ pod.phase = "up" /\ L!Versions = {pod.version}
      BY <1>6, <1>7
    <2>3. record' = [passed |-> record'.passed, recovered |-> record'.recovered,
                     up |-> record'.up]
      BY <1>6
    <2>4. record'.passed \in BOOLEAN
      BY <1>6
    <2>. QED
      BY <1>1, <2>1, <2>2, <2>3, <2>4 DEF Replaced
  <1>. QED
    BY <1>3, <1>4, <1>8

LEMMA LoadKept ==
    ASSUME L!LoadAssumption
    PROVE  L!Spec => []LoadInv
  <1>1. L!Init => LoadInv
    BY LoadStart
  <1>2. LoadInv /\ [L!Next]_L!vars => LoadInv'
    <2>. SUFFICES ASSUME LoadInv, [L!Next]_L!vars
                  PROVE  LoadInv'
      OBVIOUS
    <2>1. CASE L!Preflight \/ L!RampStep \/ L!Headline
      BY <2>1, RampSteps
    <2>2. ASSUME NEW w \in Workers, L!TakeIndex(w) \/ L!Send(w) \/ L!Answer(w)
          PROVE  LoadInv'
      BY <2>2, TakeStep, SendStep, AnswerStep
    <2>3. CASE L!Tick
      BY <2>3, SecondPasses
    <2>4. CASE L!OnSecond
      BY <2>4, SecondStep
    <2>5. CASE L!Die \/ L!Heal \/ L!MoveAlias
      BY <2>5, PodSteps
    <2>6. CASE L!Finish
      BY <2>6, FinishStep
    <2>7. CASE UNCHANGED L!vars
      <3>1. UNCHANGED <<phase, steps, clock, next, worker, attempts, pod, alias, driver,
                        record, faults>>
        BY <2>7 DEF L!vars, L!load, L!world
      <3>2. LoadTyped'
        BY <3>1 DEF LoadInv, LoadTyped
      <3>3. Requests' /\ Times'
        BY <3>1 DEF LoadInv, Requests, Times, Flying, Attempted
      <3>4. Kills' /\ Replaced'
        BY <3>1 DEF LoadInv, Kills, Replaced, L!Versions, L!Errors
      <3>. QED
        BY <3>2, <3>3, <3>4 DEF LoadInv
    <2>. QED
      BY <2>1, <2>2, <2>3, <2>4, <2>5, <2>6, <2>7 DEF L!Next, L!Serve
  <1>. QED
    BY <1>1, <1>2, PTL DEF L!Spec

(* However the threads interleave, every request is attempted once; a      *)
(* self-heal drill that passed replaced the pod object and left it serving *)
(* the version the whole window was served with, whatever kubectl, the     *)
(* alias or the client did; the headline is a rate that was measured and   *)
(* its percentile a latency that was (load.py, serving_load_drill.py).     *)
THEOREM LoadMeasured ==
    ASSUME L!LoadAssumption
    PROVE  L!Spec => []LoadIsMeasured
  <1>1. LoadInv => L!TypeOK
    BY DEF LoadInv, LoadTyped, L!TypeOK, Pods
  <1>2. LoadInv => L!EveryRequestOnce
    <2>. SUFFICES ASSUME LoadInv PROVE L!EveryRequestOnce
      OBVIOUS
    <2>1. \A w \in {v \in Workers : worker[v].at \in {"due", "sent"}} :
             ~ \E a \in attempts : a.index = worker[w].index
      BY DEF LoadInv, Requests, Flying, Attempted
    <2>2. phase = "done" => {a.index : a \in attempts} = 0..(Total - 1)
      <3>. SUFFICES ASSUME phase = "done" PROVE {a.index : a \in attempts} = 0..(Total - 1)
        OBVIOUS
      <3>1. next = Total /\ Total \in Nat
        BY DEF LoadInv, Requests, L!LoadAssumption
      <3>2. \A i \in 0..(Total - 1) : Attempted(i)
        BY <3>1 DEF LoadInv, Requests, Flying
      <3>3. \A a \in attempts : a.index \in 0..(Total - 1)
        BY <3>1 DEF LoadInv, LoadTyped, Attempts, Requests
      <3>. QED
        BY <3>2, <3>3 DEF Attempted
    <2>3. /\ \A a, b \in attempts : a.index = b.index => a = b
          /\ \A v, w \in {v \in Workers : worker[v].at \in {"due", "sent"}} :
                worker[v].index = worker[w].index => v = w
      BY DEF LoadInv, Requests, Flying
    <2>. QED
      BY <2>1, <2>2, <2>3 DEF L!EveryRequestOnce
  <1>3. LoadInv => L!PassedMeansReplaced
    BY DEF LoadInv, LoadTyped, Pods, Replaced, L!PassedMeansReplaced
  <1>4. LoadInv => L!HeadlineIsMeasured
    BY HeadlineIsFits DEF LoadInv
  <1>5. LoadInv => LoadIsMeasured
    BY <1>1, <1>2, <1>3, <1>4 DEF LoadIsMeasured, L!LoadIsMeasured
  <1>. QED
    BY <1>5, LoadKept, PTL

-----------------------------------------------------------------------------
(***************************************************************************)
(* The four together, as MCSafety runs them.                               *)
(***************************************************************************)
LEMMA OneOfTheFour ==
    ASSUME [AnyNext]_any
    PROVE  [Next]_vars /\ [L!Next]_L!vars /\ [P!Next]_P!vars /\ [C!Next]_C!vars
  <1>. USE DEF load, provenance, signals
  <1>1. UNCHANGED load => UNCHANGED L!vars
    BY DEF L!vars, L!load, L!world
  <1>2. UNCHANGED provenance => UNCHANGED P!vars
    BY DEF P!vars
  <1>3. UNCHANGED signals => UNCHANGED C!vars
    BY DEF C!vars, C!refusals, C!versions
  <1>. USE DEF InFeatures, InLoad, InProvenance, InSignals
  <1>4. CASE UNCHANGED any
    BY <1>1, <1>2, <1>3, <1>4 DEF any
  <1>5. CASE of = "features"
    <2>1. AnyNext => UNCHANGED <<load, provenance, signals>> /\ Next
      BY <1>5 DEF AnyNext, Next, Meanwhile, StoreNext
    <2>. QED
      BY <1>1, <1>2, <1>3, <1>4, <2>1
  <1>6. CASE of = "load"
    <2>1. AnyNext => UNCHANGED <<vars, provenance, signals>> /\ L!Next
      BY <1>6 DEF AnyNext, L!Next, L!Serve
    <2>. QED
      BY <1>1, <1>2, <1>3, <1>4, <2>1
  <1>7. CASE of = "provenance"
    <2>1. AnyNext => UNCHANGED <<vars, load, signals>> /\ P!Next
      BY <1>7 DEF AnyNext, P!Next
    <2>. QED
      BY <1>1, <1>2, <1>3, <1>4, <2>1
  <1>8. CASE of = "signals"
    <2>1. AnyNext => UNCHANGED <<vars, load, provenance>> /\ C!Next
      BY <1>8 DEF AnyNext, C!Next
    <2>. QED
      BY <1>1, <1>2, <1>3, <1>4, <2>1
  <1>9. AnyNext => of \in {"features", "load", "provenance", "signals"}
    BY DEF AnyNext
  <1>. QED
    BY <1>4, <1>5, <1>6, <1>7, <1>8, <1>9

(* Whichever of the four takes the next step, each of them behaves as its  *)
(* own specification allows.                                               *)
THEOREM SafetyIsAllFour == AnySpec => Spec /\ L!Spec /\ P!Spec /\ C!Spec
  <1>1. AnyInit => Init /\ L!Init /\ P!Init /\ C!Init
    BY DEF AnyInit
  <1>2. [AnyNext]_any =>
            [Next]_vars /\ [L!Next]_L!vars /\ [P!Next]_P!vars /\ [C!Next]_C!vars
    BY OneOfTheFour
  <1>. QED
    BY <1>1, <1>2, PTL DEF AnySpec, Spec, L!Spec, P!Spec, C!Spec

(* So every behaviour of the system that MCSafety checks is safe in all    *)
(* that the run states of it.                                              *)
THEOREM SafetyIsSafe ==
    ASSUME FeastAssumption, ChecksAssumption, L!LoadAssumption, P!ProvenanceAssumption,
           C!SignalsAssumption, LegacyRefits = {}
    PROVE  AnySpec => /\ [](PointInTime /\ LoadIsMeasured /\ ProvenanceIsSound /\ SignalsAreHonest)
                      /\ RefillIsWhole /\ DrillLeavesTheTruth /\ ScaleNeverChanges
  BY SafetyIsAllFour, JoinIsPointInTime, RefillsAreWhole, PassedDrillsLeaveTheTruth,
     ScaleIsTrue, ScaleStays, SignalsHonest, LoadMeasured, PTL
=============================================================================
