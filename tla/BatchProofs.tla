---------------------------- MODULE BatchProofs ----------------------------
(***************************************************************************)
(* Proofs about MartsPublish, for every set of months and publishers, every*)
(* number of generations, retries and faults; and about Pipeline, whose    *)
(* last stage it is, for every set of executions and of champions, every   *)
(* sequence of data generations, every relation Beats, every budget of     *)
(* retries, and every number of launches, lost pods and changes.           *)
(***************************************************************************)
EXTENDS MCPipeline, FiniteSetTheorems, TLAPS

Filled == [Months -> [Generations -> Nat]]

(* What an exporter streams is rows of the month's generation, and a COPY  *)
(* into a filled table leaves a filled table.                              *)
LEMMA Streams ==
    ASSUME NEW content \in [Months -> Generations]
    PROVE  /\ \A m \in Months : Whole(content[m]) \in [Generations -> Nat]
           /\ WholeTable(content) \in Filled
           /\ \A m \in Months : Short(content[m]) \subseteq [Generations -> Nat]
           /\ ShortTables(content) \subseteq Filled
           /\ [m \in Months |-> NoRows] \in Filled
  <1>1. \A g \in Generations : RowsIn[g] \in Nat
    BY MartsAssumption DEF Generations
  <1>2. \A m \in Months : Whole(content[m]) \in [Generations -> Nat]
    BY <1>1 DEF Whole, NoRows
  <1>3. \A m \in Months : Short(content[m]) \subseteq [Generations -> Nat]
    BY <1>1 DEF Short, NoRows
  <1>4. WholeTable(content) \in Filled
    BY <1>2 DEF WholeTable, Filled
  <1>5. ShortTables(content) \subseteq Filled
    BY <1>3, <1>4 DEF ShortTables, Filled
  <1>. QED
    BY <1>2, <1>3, <1>4, <1>5 DEF NoRows, Filled

LEMMA Copies ==
    /\ \A rows, more \in [Generations -> Nat] : Copied(rows, more) \in [Generations -> Nat]
    /\ \A table, more \in Filled : CopiedTable(table, more) \in Filled
  <1>1. \A rows, more \in [Generations -> Nat] : Copied(rows, more) \in [Generations -> Nat]
    BY DEF Copied
  <1>. QED
    BY <1>1 DEF CopiedTable, Filled

(* A table that is there is a filled one, and stays so when one month of   *)
(* it gets other rows.                                                     *)
LEMMA MonthReplaced ==
    ASSUME TypeOK, NEW k \in Marts, live[k] # NoTable, NEW m, NEW rows,
           m \in Months => rows \in [Generations -> Nat],
           live' = [live EXCEPT ![k][m] = rows]
    PROVE  /\ live' \in [Marts -> Tables]
           /\ live'[k] \in Filled
           /\ \A j \in Marts : j # k => live'[j] = live[j]
  <1>1. live[k] \in Filled
    BY DEF TypeOK, Tables, Filled
  <1>2. [live[k] EXCEPT ![m] = rows] \in Filled
    BY <1>1 DEF Filled
  <1>3. live' = [live EXCEPT ![k] = [live[k] EXCEPT ![m] = rows]]
    OBVIOUS
  <1>. QED
    BY <1>2, <1>3 DEF TypeOK, Tables, Filled

-----------------------------------------------------------------------------
(* What each kind of step does to the published tables.                    *)

(* The statements that replace a month.                                    *)
LEMMA MonthSteps ==
    ASSUME TypeOK, NEW p \in Publishers,
           DeleteMonth(p) \/ StreamMonth(p) \/ BreakMonth(p)
    PROVE  /\ live' \in [Marts -> Tables] /\ UNCHANGED <<staging, source, built, live[Aggregates]>>
           /\ live[FactMart] = NoTable \/ live'[FactMart] \in Filled
           /\ live[FactMart] = NoTable => UNCHANGED live
  <1>. DEFINE m == Current(p)
  <1>1. FactMart \in Marts /\ Aggregates \in Marts /\ FactMart # Aggregates
    BY DEF Marts, FactMart, Aggregates
  <1>2. /\ NoRows \in [Generations -> Nat]
        /\ m \in Months => /\ Whole(source[m]) \in [Generations -> Nat]
                           /\ Short(source[m]) \subseteq [Generations -> Nat]
    BY Streams DEF TypeOK, NoRows
  <1>3. m \in Months /\ live[FactMart] # NoTable => live[FactMart][m] \in [Generations -> Nat]
    BY <1>1 DEF TypeOK, Tables
  <1>. HIDE DEF m
  <1>4. CASE live[FactMart] = NoTable
    BY <1>4 DEF DeleteMonth, StreamMonth, BreakMonth, Fail, TypeOK
  <1>5. CASE live[FactMart] # NoTable
    <2>1. \E rows : /\ m \in Months => rows \in [Generations -> Nat]
                    /\ live' = [live EXCEPT ![FactMart][m] = rows]
      <3>1. CASE DeleteMonth(p)
        BY <1>2, <1>5, <3>1 DEF DeleteMonth, m
      <3>2. CASE StreamMonth(p)
        <4>1. live' = [live EXCEPT ![FactMart][m] = Copied(live[FactMart][m], Whole(source[m]))]
          BY <1>5, <3>2 DEF StreamMonth, m
        <4>2. m \in Months => Copied(live[FactMart][m], Whole(source[m])) \in [Generations -> Nat]
          BY <1>2, <1>3, <1>5, Copies
        <4>. QED
          BY <4>1, <4>2
      <3>3. CASE BreakMonth(p)
        <4>1. PICK rows \in Short(source[m]) :
                 live' = [live EXCEPT ![FactMart][m] = Copied(live[FactMart][m], rows)]
          BY <3>3 DEF BreakMonth, m
        <4>2. m \in Months => Copied(live[FactMart][m], rows) \in [Generations -> Nat]
          BY <1>2, <1>3, <1>5, Copies
        <4>. QED
          BY <4>1, <4>2
      <3>. QED
        BY <3>1, <3>2, <3>3
    <2>2. /\ live' \in [Marts -> Tables] /\ live'[FactMart] \in Filled
          /\ live'[Aggregates] = live[Aggregates]
      BY <1>1, <1>5, <2>1, MonthReplaced
    <2>. QED
      BY <1>5, <2>2 DEF DeleteMonth, StreamMonth, BreakMonth, local
  <1>. QED
    BY <1>4, <1>5

(* The steps that load a staging table.                                    *)
LEMMA StagingSteps ==
    ASSUME TypeOK, NEW p \in Publishers,
           \/ DropStaging(p) \/ CreateStaging(p)
           \/ StreamStaging(p) \/ BreakStaging(p)
    PROVE  /\ staging' \in [Marts -> Tables]
           /\ UNCHANGED <<live, source, built>>
           /\ \A k \in Marts : k # mart[p] => staging'[k] = staging[k]
  <1>1. mart[p] \in Marts /\ Content(p) \in [Months -> Generations]
    BY DEF TypeOK, Content
  <1>2. CASE DropStaging(p)
    BY <1>1, <1>2 DEF DropStaging, TypeOK, Tables, local
  <1>3. CASE CreateStaging(p)
    <2>1. [m \in Months |-> NoRows] \in Tables
      BY <1>1, Streams DEF Tables, Filled
    <2>. QED
      BY <1>1, <1>3, <2>1 DEF CreateStaging, Fail, TypeOK
  <1>4. ASSUME NEW more \in Filled, staging[mart[p]] # NoTable,
               staging' = [staging EXCEPT ![mart[p]] = CopiedTable(staging[mart[p]], more)]
        PROVE  /\ staging' \in [Marts -> Tables]
               /\ \A k \in Marts : k # mart[p] => staging'[k] = staging[k]
    <2>1. staging[mart[p]] \in Filled
      BY <1>1, <1>4 DEF TypeOK, Tables, Filled
    <2>2. CopiedTable(staging[mart[p]], more) \in Tables
      BY <2>1, Copies DEF Tables, Filled
    <2>. QED
      BY <1>1, <1>4, <2>2 DEF TypeOK
  <1>5. CASE StreamStaging(p)
    <2>1. CASE staging[mart[p]] = NoTable
      BY <1>5, <2>1 DEF StreamStaging, Fail, TypeOK
    <2>2. CASE staging[mart[p]] # NoTable
      <3>1. staging' = [staging EXCEPT
                            ![mart[p]] = CopiedTable(staging[mart[p]], WholeTable(Content(p)))]
        BY <1>5, <2>2 DEF StreamStaging
      <3>2. WholeTable(Content(p)) \in Filled
        BY <1>1, Streams
      <3>. QED
        BY <1>4, <1>5, <2>2, <3>1, <3>2 DEF StreamStaging
    <2>. QED
      BY <2>1, <2>2
  <1>6. CASE BreakStaging(p)
    <2>1. PICK table \in ShortTables(Content(p)) :
             staging' = [staging EXCEPT ![mart[p]] = CopiedTable(staging[mart[p]], table)]
      BY <1>6 DEF BreakStaging
    <2>2. table \in Filled
      BY <1>1, Streams
    <2>. QED
      BY <1>4, <1>6, <2>1, <2>2 DEF BreakStaging, local
  <1>. QED
    BY <1>2, <1>3, <1>5, <1>6

(* The swap publishes the staging table it finds, or fails.                *)
LEMMA SwapStep ==
    ASSUME TypeOK, NEW p \in Publishers, Swap(p)
    PROVE  /\ live' \in [Marts -> Tables] /\ staging' \in [Marts -> Tables]
           /\ UNCHANGED <<source, built>>
           /\ \A k \in Marts : k # mart[p] => UNCHANGED <<live[k], staging[k]>>
           /\ \/ UNCHANGED <<live, staging>>
              \/ /\ staging[mart[p]] # NoTable /\ live'[mart[p]] = staging[mart[p]]
                 /\ staging'[mart[p]] = NoTable
  <1>1. mart[p] \in Marts
    BY DEF TypeOK
  <1>. QED
    BY ZenonT(60), <1>1 DEF Swap, Fail, TypeOK, Tables

-----------------------------------------------------------------------------
LEMMA InitTyped == Init => TypeOK
  <1>. SUFFICES ASSUME Init PROVE TypeOK
    OBVIOUS
  <1>1. live \in [Marts -> Tables]
    <2>1. \A content \in [Months -> Generations] : WholeTable(content) \in Tables
      BY Streams DEF Tables, Filled
    <2>. QED
      BY <2>1 DEF Init, Tables
  <1>. QED
    BY <1>1, MartsAssumption
    DEF Init, TypeOK, Tables, Resting, Marts

(* The labels and the mart a step goes to.                                 *)
LEMMA Moves ==
    ASSUME TypeOK, NEW p \in Publishers, NextMart(p)
    PROVE  /\ pc' \in [Publishers -> Resting \cup Acting]
           /\ mart' \in [Publishers -> Marts]
  BY DEF TypeOK, NextMart, Goto, Marts, Acting

LEMMA TypeStep ==
    ASSUME TypeOK, [Next]_vars
    PROVE  TypeOK'
  <1>. USE MartsAssumption
  <1>1. CASE UNCHANGED vars
    BY <1>1 DEF TypeOK, vars, tables, counters, job, local
  <1>2. ASSUME NEW m \in Months, Restate(m)
        PROVE  TypeOK'
    BY <1>2 DEF Restate, TypeOK, tables, job, local
  <1>3. ASSUME NEW p \in Publishers, NEW named \in SUBSET Months, Launch(p, named)
        PROVE  TypeOK'
    BY <1>3 DEF Launch, Goto, TypeOK, tables, local, Acting
  <1>4. ASSUME NEW p \in Publishers, Retry(p)
        PROVE  TypeOK'
    <2>1. retries[p] + 1 \in 0 .. MaxRetries
      BY <1>4 DEF Retry, TypeOK
    <2>. QED
      BY <1>4, <2>1 DEF Retry, Goto, TypeOK, tables, counters, local, Acting
  <1>5. ASSUME NEW p \in Publishers, Build(p) \/ Begin(p)
        PROVE  TypeOK'
    BY ZenonT(60), <1>5 DEF Build, Begin, Goto, TypeOK, tables, counters, job, Acting, Marts
  <1>6. ASSUME NEW p \in Publishers, DeleteMonth(p)
        PROVE  TypeOK'
    BY <1>6, MonthSteps DEF DeleteMonth, Fail, Goto, TypeOK, counters, job, Acting, Resting
  <1>7. ASSUME NEW p \in Publishers, StreamMonth(p)
        PROVE  TypeOK'
    <2>1. live' \in [Marts -> Tables] /\ UNCHANGED <<staging, source, built>>
      BY <1>7, MonthSteps
    <2>2. /\ pc' \in [Publishers -> Resting \cup Acting]
          /\ mart' \in [Publishers -> Marts]
      BY <1>7, Moves DEF StreamMonth, Fail, Goto, TypeOK, Acting, Resting
    <2>3. todo' \in [Publishers -> SUBSET Months]
      <3>1. todo' = todo \/ todo' = [todo EXCEPT ![p] = todo[p] \ {Current(p)}]
        BY <1>7 DEF StreamMonth, Fail
      <3>2. todo \in [Publishers -> SUBSET Months]
        BY DEF TypeOK
      <3>3. todo[p] \in SUBSET Months
        BY <3>2
      <3>4. todo[p] \ {Current(p)} \in SUBSET Months
        BY <3>3
      <3>. HIDE DEF Current
      <3>. QED
        BY <3>1, <3>2, <3>4
    <2>. QED
      BY <1>7, <2>1, <2>2, <2>3 DEF StreamMonth, TypeOK, counters, job
  <1>8. ASSUME NEW p \in Publishers, BreakMonth(p)
        PROVE  TypeOK'
    <2>1. /\ faults' = faults + 1 /\ pc' = [pc EXCEPT ![p] = "failed"]
          /\ UNCHANGED <<source, staging, restates, launches, job, local>>
      BY <1>8 DEF BreakMonth, Goto
    <2>2. live' \in [Marts -> Tables]
      BY <1>8, MonthSteps
    <2>. QED
      BY <2>1, <2>2 DEF TypeOK, job, local, Resting
  <1>9. ASSUME NEW p \in Publishers, DropStaging(p) \/ CreateStaging(p)
        PROVE  TypeOK'
    BY <1>9, StagingSteps
    DEF DropStaging, CreateStaging, Fail, Goto, TypeOK, counters, job, local, Acting, Resting
  <1>10. ASSUME NEW p \in Publishers, StreamStaging(p) \/ BreakStaging(p)
         PROVE  TypeOK'
    <2>1. /\ faults' \in {faults, faults + 1}
          /\ \E label \in {"failed", "swap"} : pc' = [pc EXCEPT ![p] = label]
          /\ UNCHANGED <<source, live, restates, launches, job, local>>
      <3>1. CASE StreamStaging(p)
        BY <3>1 DEF StreamStaging, Fail, Goto, counters, local
      <3>2. CASE BreakStaging(p)
        BY <3>2 DEF BreakStaging, Goto
      <3>. QED
        BY <1>10, <3>1, <3>2
    <2>2. staging' \in [Marts -> Tables]
      BY <1>10, StagingSteps
    <2>. QED
      BY <2>1, <2>2 DEF TypeOK, job, local, Resting, Acting
  <1>11. ASSUME NEW p \in Publishers, Swap(p)
         PROVE  TypeOK'
    <2>1. /\ pc' \in [Publishers -> Resting \cup Acting]
          /\ mart' \in [Publishers -> Marts] /\ UNCHANGED todo
      BY <1>11, Moves DEF Swap, Fail, Goto, TypeOK, Resting
    <2>. QED
      BY <1>11, <2>1, SwapStep DEF Swap, TypeOK, counters, job
  <1>12. ASSUME NEW p \in Publishers, Index(p) \/ Reconcile(p) \/ Kill(p)
         PROVE  TypeOK'
    <2>1. /\ faults' \in {faults, faults + 1}
          /\ \E label \in {"failed", "done", "reconcile"} : pc' = [pc EXCEPT ![p] = label]
          /\ UNCHANGED <<source, tables, restates, launches, job, local>>
      <3>1. CASE Index(p)
        BY <3>1 DEF Index, Goto, counters
      <3>2. CASE Reconcile(p)
        BY <3>2 DEF Reconcile, Goto, counters
      <3>3. CASE Kill(p)
        BY <3>3 DEF Kill, Goto
      <3>. QED
        BY <1>12, <3>1, <3>2, <3>3
    <2>. QED
      BY <2>1 DEF TypeOK, tables, job, local, Acting, Resting
  <1>. QED
    BY <1>1, <1>2, <1>3, <1>4, <1>5, <1>6, <1>7, <1>8, <1>9, <1>10, <1>11, <1>12
    DEF Next, Progress, Break

(* MartsPublish.TypeOK: whatever publishes overlap, die or are run again.  *)
THEOREM MartsTyped == Spec => []TypeOK
  <1>. QED
    BY InitTyped, TypeStep, PTL DEF Spec

-----------------------------------------------------------------------------
(* A step that changes a published table puts rows there.                  *)
LEMMA StepPublishes ==
    ASSUME TypeOK, [Next]_vars, NEW k \in Marts, live[k] # NoTable
    PROVE  live'[k] = live[k] \/ live'[k] \in Filled \/ live'[k] \in Tables \ {NoTable}
  <1>1. k \in {FactMart, Aggregates} /\ FactMart # Aggregates
    BY DEF Marts, FactMart, Aggregates
  <1>2. CASE UNCHANGED live
    BY <1>2
  <1>3. ASSUME NEW p \in Publishers, DeleteMonth(p) \/ StreamMonth(p) \/ BreakMonth(p)
        PROVE  live'[k] = live[k] \/ live'[k] \in Filled
    BY <1>1, <1>3, MonthSteps
  <1>4. ASSUME NEW p \in Publishers, Swap(p)
        PROVE  live'[k] = live[k] \/ live'[k] \in Tables \ {NoTable}
    <2>1. staging[mart[p]] \in Tables
      BY DEF TypeOK
    <2>. QED
      BY <1>4, <2>1, SwapStep
  <1>5. ASSUME NEW p \in Publishers, Progress(p) \/ Break(p) \/ Retry(p)
        PROVE  \/ DeleteMonth(p) \/ StreamMonth(p) \/ BreakMonth(p) \/ Swap(p)
               \/ UNCHANGED live
    <2>1. CASE Build(p) \/ Begin(p) \/ Index(p) \/ Reconcile(p) \/ Kill(p) \/ Retry(p)
      BY <2>1 DEF Build, Begin, Index, Reconcile, Kill, Retry, tables
    <2>2. CASE DropStaging(p) \/ CreateStaging(p) \/ StreamStaging(p) \/ BreakStaging(p)
      BY <2>2, StagingSteps
    <2>. QED
      BY <1>5, <2>1, <2>2 DEF Progress, Break
  <1>6. ASSUME NEW p \in Publishers, NEW m \in Months, NEW named \in SUBSET Months,
               Restate(m) \/ Launch(p, named)
        PROVE  UNCHANGED live
    BY <1>6 DEF Restate, Launch, tables
  <1>7. \A m \in Months : Restate(m) => UNCHANGED live
    BY DEF Restate, tables
  <1>8. UNCHANGED vars => UNCHANGED live
    BY DEF vars, tables
  <1>9. \A p \in Publishers : \A named \in SUBSET Months : Launch(p, named) => UNCHANGED live
    BY DEF Launch, tables
  <1>. QED
    BY <1>2, <1>3, <1>4, <1>5, <1>7, <1>8, <1>9 DEF Next

(* MartsPublish.PublishedStays: no publisher's statement, whoever else     *)
(* drops, fills or swaps the same staging table, takes a mart off the      *)
(* board.                                                                  *)
THEOREM MartsStay ==
    ASSUME Months # {}
    PROVE  Spec => PublishedStays
  <1>1. NoTable \notin Filled
    <2>1. DOMAIN NoTable = {}
      BY DEF NoTable
    <2>. QED
      BY <2>1 DEF Filled
  <1>2. TypeOK /\ [Next]_vars
            => [\A k \in Marts : live[k] # NoTable => live'[k] # NoTable]_vars
    BY <1>1, StepPublishes
  <1>. QED
    BY <1>2, InitTyped, TypeStep, PTL DEF Spec, PublishedStays

(* Each behaviour that MCMartsPublish checks is one of MartsPublish.        *)
THEOREM MartsRunIsMarts ==
    ASSUME Publishers # {}
    PROVE  MCSpec => Spec
  <1>1. MCInit => Init
    BY DEF MCInit
  <1>2. [MCNext]_MCvars => [Next]_vars
    <2>1. One \in Publishers
      BY DEF One
    <2>. QED
      BY <2>1 DEF MCNext, MCvars, Both, Alone, Next, Progress, Break
  <1>. QED
    BY <1>1, <1>2, PTL DEF MCSpec, Spec

(* So a table that is on the board stays there, beside one publisher or    *)
(* two, whatever fails and is re-derived.                                  *)
THEOREM MartsStayInTheRun ==
    ASSUME Months # {}, Publishers # {}
    PROVE  MCSpec => PublishedStays
  BY MartsRunIsMarts, MartsStay, PTL

-----------------------------------------------------------------------------
(* A publisher on its own: what it finds in the staging table of the       *)
(* aggregates is what it put there.  From the creation to the stream the   *)
(* table is empty, from the stream to the swap it holds what was built.    *)
Loaded(p) ==
    mart[p] = Aggregates =>
        /\ pc[p] = "stream" =>
              staging[Aggregates] \in {NoTable, [m \in Months |-> NoRows]}
        /\ pc[p] = "swap" =>
              staging[Aggregates] \in {NoTable, WholeTable(built[p])}

WInv(p) == TypeOK /\ Loaded(p) /\ NeverHalfLoaded

(* What happens where only publisher p does anything.                      *)
NextOf(p) ==
    \/ \E m \in Months : Restate(m)
    \/ \E named \in SUBSET Months : Launch(p, named)
    \/ Retry(p) \/ Progress(p) \/ Break(p)

(* Rows copied into an empty table are the rows.                           *)
LEMMA CopiedIntoEmpty ==
    ASSUME NEW content \in [Months -> Generations]
    PROVE  CopiedTable([m \in Months |-> NoRows], WholeTable(content)) = WholeTable(content)
  <1>1. \A m \in Months : Whole(content[m]) \in [Generations -> Nat]
    BY Streams
  <1>2. \A rows \in [Generations -> Nat] : Copied(NoRows, rows) = rows
    <2>. TAKE rows \in [Generations -> Nat]
    <2>1. \A g \in Generations : 0 + rows[g] = rows[g]
      OBVIOUS
    <2>2. Copied(NoRows, rows) = [g \in Generations |-> 0 + rows[g]]
      BY DEF Copied, NoRows
    <2>3. rows = [g \in Generations |-> rows[g]]
      OBVIOUS
    <2>. QED
      BY <2>1, <2>2, <2>3
  <1>. QED
    BY <1>1, <1>2 DEF CopiedTable, WholeTable

(* Steps that leave the aggregates' staging table, what was built and the  *)
(* mart at hand alone, and go neither to the stream nor to the swap.       *)
LEMMA LoadedKeeps ==
    ASSUME NEW p \in Publishers, WInv(p), TypeOK',
           UNCHANGED live[Aggregates], pc'[p] \notin {"stream", "swap"}
    PROVE  WInv(p)'
  BY DEF WInv, Loaded, NeverHalfLoaded

LEMMA BoardStep ==
    ASSUME NEW p \in Publishers, WInv(p), [NextOf(p)]_vars
    PROVE  WInv(p)'
  <1>1. TypeOK /\ TypeOK'
    BY TypeStep DEF WInv, NextOf, Next
  <1>. FactMart \in Marts /\ Aggregates \in Marts /\ FactMart # Aggregates
    BY DEF Marts, FactMart, Aggregates
  <1>2. mart[p] \in Marts /\ built[p] \in [Months -> Generations]
    BY <1>1 DEF TypeOK
  <1>3. CASE UNCHANGED <<live, staging, built, mart>>
             /\ (UNCHANGED pc \/ pc'[p] \notin {"stream", "swap"})
    BY <1>1, <1>3 DEF WInv, Loaded, NeverHalfLoaded
  <1>4. CASE UNCHANGED vars
    BY <1>3, <1>4 DEF vars, tables, local
  <1>5. ASSUME NEW m \in Months, Restate(m)
        PROVE  WInv(p)'
    BY <1>3, <1>5 DEF Restate, tables, local
  <1>6. ASSUME NEW named \in SUBSET Months,
               \/ Launch(p, named) \/ Retry(p) \/ Build(p) \/ Begin(p)
               \/ Index(p) \/ Reconcile(p) \/ Kill(p) \/ DropStaging(p)
        PROVE  WInv(p)'
    <2>1. UNCHANGED live
      BY <1>6 DEF Launch, Retry, Build, Begin, Index, Reconcile, Kill, DropStaging, tables
    <2>2. pc'[p] \notin {"stream", "swap"}
      BY <1>1, <1>6 DEF Launch, Retry, Build, Begin, Index, Reconcile, Kill, DropStaging,
                        Goto, TypeOK
    <2>. QED
      BY <1>1, <2>1, <2>2, LoadedKeeps
  <1>7. CASE DeleteMonth(p) \/ StreamMonth(p) \/ BreakMonth(p)
    <2>1. UNCHANGED live[Aggregates]
      BY <1>1, <1>7, MonthSteps
    <2>2. pc'[p] \notin {"stream", "swap"}
      BY <1>1, <1>7 DEF DeleteMonth, StreamMonth, BreakMonth, Fail, NextMart, Goto, TypeOK
    <2>. QED
      BY <1>1, <2>1, <2>2, LoadedKeeps
  <1>8. CASE CreateStaging(p)
    <2>1. UNCHANGED <<live, built, mart>>
      BY <1>8 DEF CreateStaging, Fail
    <2>2. pc'[p] # "swap"
      BY <1>1, <1>8 DEF CreateStaging, Fail, Goto, TypeOK
    <2>3. pc'[p] = "stream" => staging'[mart[p]] = [m \in Months |-> NoRows]
      BY <1>1, <1>2, <1>8 DEF CreateStaging, Fail, Goto, TypeOK
    <2>. QED
      BY <1>1, <2>1, <2>2, <2>3 DEF WInv, Loaded, NeverHalfLoaded
  <1>9. CASE StreamStaging(p)
    <2>1. UNCHANGED <<live, built, mart>>
      BY <1>9 DEF StreamStaging, Fail
    <2>2. pc'[p] # "stream"
      BY <1>1, <1>9 DEF StreamStaging, Fail, Goto, TypeOK
    <2>3. ASSUME pc'[p] = "swap", mart[p] = Aggregates
          PROVE  staging'[Aggregates] = WholeTable(built[p])
      <3>1. /\ pc[p] = "stream" /\ staging[Aggregates] # NoTable
            /\ staging' = [staging EXCEPT ![Aggregates] =
                             CopiedTable(staging[Aggregates], WholeTable(built[p]))]
        BY <1>1, <1>9, <2>3 DEF StreamStaging, Fail, Goto, TypeOK, Content
      <3>2. staging[Aggregates] = [m \in Months |-> NoRows]
        BY <2>3, <3>1 DEF WInv, Loaded
      <3>. QED
        BY <1>1, <1>2, <3>1, <3>2, CopiedIntoEmpty DEF TypeOK
    <2>. QED
      BY <1>1, <2>1, <2>2, <2>3 DEF WInv, Loaded, NeverHalfLoaded
  <1>10. CASE BreakStaging(p)
    BY <1>1, <1>10, LoadedKeeps DEF BreakStaging, Goto, TypeOK
  <1>11. CASE Swap(p)
    <2>1. pc'[p] \notin {"stream", "swap"} /\ pc[p] = "swap"
      BY <1>1, <1>11 DEF Swap, Fail, NextMart, Goto, TypeOK
    <2>2. \/ UNCHANGED live[Aggregates]
          \/ /\ mart[p] = Aggregates /\ staging[Aggregates] # NoTable
             /\ live'[Aggregates] = staging[Aggregates]
      BY <1>1, <1>2, <1>11, SwapStep
    <2>3. CASE UNCHANGED live[Aggregates]
      BY <1>1, <2>1, <2>3, LoadedKeeps
    <2>4. CASE /\ mart[p] = Aggregates /\ staging[Aggregates] # NoTable
               /\ live'[Aggregates] = staging[Aggregates]
      <3>1. live'[Aggregates] = WholeTable(built[p])
        BY <2>1, <2>4 DEF WInv, Loaded
      <3>2. NeverHalfLoaded'
        BY <1>2, <3>1 DEF NeverHalfLoaded
      <3>. QED
        BY <1>1, <2>1, <3>2 DEF WInv, Loaded
    <2>. QED
      BY <2>2, <2>3, <2>4
  <1>. QED
    BY <1>4, <1>5, <1>6, <1>7, <1>8, <1>9, <1>10, <1>11 DEF NextOf, Progress, Break

LEMMA BoardInit ==
    ASSUME Init
    PROVE  \A p \in Publishers : WInv(p)
  <1>1. ASSUME NEW p \in Publishers
        PROVE  TypeOK /\ Loaded(p)
    BY InitTyped DEF Init, Loaded
  <1>2. NeverHalfLoaded
    BY DEF Init, NeverHalfLoaded, Marts, Aggregates
  <1>. QED
    BY <1>1, <1>2 DEF WInv

(* MartsPublish.BoardIsWhole, of one publisher: a reader of an aggregate   *)
(* sees a whole table of one generation, or none, wherever the publish is  *)
(* killed and however its export breaks.                                   *)
THEOREM BoardStaysWhole ==
    ASSUME NEW p, Publishers = {p}
    PROVE  Spec => []BoardIsWhole
  <1>1. p \in Publishers
    OBVIOUS
  <1>2. Init => WInv(p)
    BY <1>1, BoardInit
  <1>3. WInv(p) /\ [Next]_vars => WInv(p)'
    <2>1. Next => NextOf(p)
      BY DEF Next, NextOf
    <2>. QED
      BY <1>1, <2>1, BoardStep
  <1>4. WInv(p) => BoardIsWhole
    BY DEF WInv, BoardIsWhole
  <1>. QED
    BY <1>2, <1>3, <1>4, PTL DEF Spec

(* The same of the behaviours that the run of the two instances checks:    *)
(* as long as there is one publisher, the others resting, the board is     *)
(* whole at every moment, also while months are re-derived.                *)
THEOREM AloneBoardStaysWhole ==
    ASSUME Publishers # {}
    PROVE  MCSpec => [](~together => BoardIsWhole)
  <1>1. One \in Publishers
    BY DEF One
  <1>. DEFINE AInv == ~together => WInv(One)
  <1>2. MCInit => AInv
    BY <1>1, BoardInit DEF MCInit
  <1>3. AInv /\ [MCNext]_MCvars => AInv'
    <2>. SUFFICES ASSUME AInv, [MCNext]_MCvars, ~together'
                  PROVE  WInv(One)'
      OBVIOUS
    <2>1. ~together /\ UNCHANGED together
      BY DEF MCNext, Both, Alone, MCvars
    <2>2. [NextOf(One)]_vars
      BY <2>1 DEF MCNext, MCvars, Both, Alone, NextOf, Progress, Break
    <2>. QED
      BY <1>1, <2>1, <2>2, BoardStep
  <1>4. AInv => (~together => BoardIsWhole)
    BY DEF WInv, BoardIsWhole
  <1>. QED
    BY <1>2, <1>3, <1>4, PTL DEF MCSpec

-----------------------------------------------------------------------------
(* The refinement.  Every month of every generation has rows, so a whole   *)
(* table is of one content.                                                *)
LEMMA OneContent ==
    ASSUME NEW c \in [Months -> Generations], NEW d \in [Months -> Generations],
           WholeTable(c) = WholeTable(d)
    PROVE  c = d
  <1>1. ASSUME NEW m \in Months
        PROVE  c[m] = d[m]
    <2>1. c[m] \in Generations /\ d[m] \in Generations
      OBVIOUS
    <2>2. Whole(c[m]) = Whole(d[m])
      BY DEF WholeTable
    <2>3. RowsIn[c[m]] # 0
      BY <2>1, MartsAssumption DEF Generations
    <2>4. Whole(c[m])[c[m]] = RowsIn[c[m]]
      BY <2>1 DEF Whole, NoRows
    <2>5. c[m] # d[m] => Whole(d[m])[c[m]] = 0
      BY <2>1 DEF Whole, NoRows
    <2>. QED
      BY <2>2, <2>3, <2>4, <2>5
  <1>. QED
    BY <1>1

LEMMA ShownIs ==
    ASSUME NEW c \in [Months -> Generations], live[Aggregates] = WholeTable(c)
    PROVE  Shown = {c}
  BY OneContent DEF Shown

(* The initial states are initial states of AtomicPublish.                 *)
LEMMA PublishInit ==
    ASSUME Publishers # {}, Init
    PROVE  Board!Init
  <1>1. One \in Publishers /\ Aggregates \in Marts
    BY DEF One, Marts
  <1>2. source \in [Months -> Generations] /\ built[One] = source
    BY <1>1 DEF Init
  <1>3. CASE live = [k \in Marts |-> NoTable]
    <2>1. live[Aggregates] = NoTable
      BY <1>1, <1>3
    <2>2. Months # {} => Shown = {}
      <3>1. ASSUME NEW c \in [Months -> Generations], NoTable = WholeTable(c)
            PROVE  Months = {}
        <4>1. DOMAIN NoTable = Months
          BY <3>1 DEF WholeTable
        <4>2. DOMAIN NoTable = {}
          BY DEF NoTable
        <4>. QED
          BY <4>1, <4>2
      <3>. QED
        BY <2>1, <3>1 DEF Shown
    <2>3. Months = {} => Shown \in {{}, {source}}
      <3>1. \A c \in [Months -> Generations] : Months = {} => c = source
        BY <1>2
      <3>. QED
        BY <3>1 DEF Shown
    <2>4. Months = {} => Board!Older(source, source)
      BY DEF Board!Older
    <2>. QED
      BY <1>2, <2>2, <2>3, <2>4 DEF Board!Init, Board!Contents
  <1>4. ASSUME NEW content \in [Months -> Generations],
               \A m \in Months : content[m] <= source[m],
               live = [k \in Marts |-> WholeTable(content)]
        PROVE  Board!Init
    <2>1. Shown = {content}
      BY <1>1, <1>4, ShownIs
    <2>2. Board!Older(content, source)
      BY <1>4 DEF Board!Older
    <2>. QED
      BY <1>2, <2>1, <2>2 DEF Board!Init, Board!Contents
  <1>. QED
    BY <1>3, <1>4 DEF Init

(* Each step of the publisher is a step of AtomicPublish, or none.         *)
LEMMA PublishStep ==
    ASSUME Publishers # {}, WInv(One), [NextOf(One)]_vars
    PROVE  [Board!Next]_(Board!vars)
  <1>. DEFINE p == One
  <1>1. /\ p \in Publishers /\ TypeOK
        /\ Aggregates \in Marts /\ FactMart \in Marts /\ FactMart # Aggregates
    BY DEF One, WInv, Marts, FactMart, Aggregates
  <1>2. built[p] \in [Months -> Generations] /\ mart[p] \in Marts
    BY <1>1 DEF TypeOK
  <1>. HIDE DEF p
  <1>3. CASE UNCHANGED <<source, built[p], live[Aggregates]>>
    <2>1. Shown' = Shown
      BY <1>3 DEF Shown
    <2>. QED
      BY <1>3, <2>1 DEF Board!vars, p
  <1>4. ASSUME NEW m \in Months, Restate(m)
        PROVE  Board!Next
    <2>1. UNCHANGED <<live, built>> /\ source[m] + 1 \in Generations
          /\ source' = [source EXCEPT ![m] = source[m] + 1]
      BY <1>4 DEF Restate, tables, local
    <2>2. Shown' = Shown
      BY <2>1 DEF Shown
    <2>. QED
      BY <2>1, <2>2 DEF Board!Next, Board!Derive
  <1>5. CASE Build(p)
    <2>1. UNCHANGED <<source, live>> /\ built'[p] = source
      BY <1>1, <1>5 DEF Build, tables, TypeOK
    <2>2. Shown' = Shown
      BY <2>1 DEF Shown
    <2>. QED
      BY <2>1, <2>2 DEF Board!Next, Board!Take, p
  <1>6. CASE Swap(p)
    <2>1. /\ UNCHANGED <<source, built>>
          /\ \/ UNCHANGED live[Aggregates]
             \/ /\ mart[p] = Aggregates /\ staging[Aggregates] # NoTable
                /\ live'[Aggregates] = staging[Aggregates]
      BY <1>1, <1>2, <1>6, SwapStep
    <2>2. CASE UNCHANGED live[Aggregates]
      BY <1>3, <2>1, <2>2
    <2>3. CASE /\ mart[p] = Aggregates /\ staging[Aggregates] # NoTable
               /\ live'[Aggregates] = staging[Aggregates]
      <3>1. live'[Aggregates] = WholeTable(built[p])
        BY <1>6, <2>3 DEF Swap, WInv, Loaded, p
      <3>2. Shown' = {built[p]}
        <4>1. \A c \in [Months -> Generations] :
                 live'[Aggregates] = WholeTable(c) <=> c = built[p]
          BY <1>2, <3>1, OneContent
        <4>. QED
          BY <1>2, <4>1 DEF Shown
      <3>. QED
        BY <2>1, <3>2 DEF Board!Next, Board!Publish, p
    <2>. QED
      BY <2>1, <2>2, <2>3
  <1>7. CASE DeleteMonth(p) \/ StreamMonth(p) \/ BreakMonth(p)
    <2>1. UNCHANGED live[Aggregates]
      BY <1>1, <1>7, MonthSteps
    <2>2. UNCHANGED <<source, built>>
      BY <1>7 DEF DeleteMonth, StreamMonth, BreakMonth, local
    <2>. QED
      BY <1>3, <2>1, <2>2
  <1>8. ASSUME NEW named \in SUBSET Months,
               \/ Launch(p, named) \/ Retry(p) \/ Begin(p) \/ DropStaging(p)
               \/ CreateStaging(p) \/ StreamStaging(p) \/ BreakStaging(p)
               \/ Index(p) \/ Reconcile(p) \/ Kill(p)
        PROVE  [Board!Next]_(Board!vars)
    <2>1. UNCHANGED <<source, built, live>>
      BY <1>8 DEF Launch, Retry, Begin, DropStaging, CreateStaging, StreamStaging, BreakStaging,
                  Index, Reconcile, Kill, Fail, tables, local
    <2>. QED
      BY <1>3, <2>1
  <1>9. CASE UNCHANGED vars
    BY <1>3, <1>9 DEF vars, tables, local
  <1>10. [NextOf(p)]_vars
    BY DEF p
  <1>. QED
    BY <1>4, <1>5, <1>6, <1>7, <1>8, <1>9, <1>10 DEF NextOf, Progress, Break

(* With one publisher MartsPublish implements AtomicPublish, for every set *)
(* of months, number of generations, retries and faults, and also while    *)
(* months are re-derived: a reader of the aggregates sees at every moment  *)
(* the data of one moment, and a publish replaces it in one step by what   *)
(* its build found.                                                        *)
THEOREM PublishesAtomically ==
    ASSUME Publishers # {}
    PROVE  MCSpec => AlonePublishes
  <1>1. One \in Publishers
    BY DEF One
  <1>. DEFINE AInv == ~together => WInv(One)
  <1>2. MCInit => AInv /\ (~together => Board!Init)
    BY <1>1, BoardInit, PublishInit DEF MCInit
  <1>3. AInv /\ [MCNext]_MCvars => AInv' /\ [~together => [Board!Next]_(Board!vars)]_MCvars
    <2>. SUFFICES ASSUME AInv, [MCNext]_MCvars, ~together \/ ~together'
                  PROVE  WInv(One)' /\ [Board!Next]_(Board!vars)
      OBVIOUS
    <2>1. ~together /\ UNCHANGED together
      BY DEF MCNext, Both, Alone, MCvars
    <2>2. [NextOf(One)]_vars
      BY <2>1 DEF MCNext, MCvars, Both, Alone, NextOf, Progress, Break
    <2>. QED
      BY <1>1, <2>1, <2>2, BoardStep, PublishStep
  <1>. QED
    BY <1>2, <1>3, PTL DEF MCSpec, AlonePublishes

(* What is shown is no newer than what was built, and that no newer than   *)
(* the source; so what is shown next is no older.                          *)
Ages ==
    /\ source \in Board!Contents /\ built[One] \in Board!Contents
    /\ Board!Older(built[One], source)
    /\ \A old \in Shown : old \in Board!Contents /\ Board!Older(old, built[One])

LEMMA OlderIsAnOrder ==
    /\ \A c \in Board!Contents : Board!Older(c, c)
    /\ \A c, d, e \in Board!Contents :
          Board!Older(c, d) /\ Board!Older(d, e) => Board!Older(c, e)
  <1>1. Generations \subseteq Nat
    BY MartsAssumption DEF Generations
  <1>2. \A c \in Board!Contents, m \in Months : c[m] \in Nat
    BY <1>1 DEF Board!Contents
  <1>3. ASSUME NEW c \in Board!Contents
        PROVE  Board!Older(c, c)
    BY <1>2 DEF Board!Older
  <1>4. ASSUME NEW c \in Board!Contents, NEW d \in Board!Contents, NEW e \in Board!Contents,
               Board!Older(c, d), Board!Older(d, e)
        PROVE  Board!Older(c, e)
    <2>1. ASSUME NEW m \in Months
          PROVE  c[m] <= e[m]
      <3>1. c[m] \in Nat /\ d[m] \in Nat /\ e[m] \in Nat
        BY <1>2
      <3>2. c[m] <= d[m] /\ d[m] <= e[m]
        BY <1>4 DEF Board!Older
      <3>. QED
        BY <3>1, <3>2
    <2>. QED
      BY <2>1 DEF Board!Older
  <1>. QED
    BY <1>3, <1>4

LEMMA AgesInit == ASSUME Board!Init PROVE Ages
  BY OlderIsAnOrder DEF Board!Init, Ages

LEMMA AgesStep ==
    ASSUME Ages, [Board!Next]_(Board!vars)
    PROVE  Ages' /\ \A old \in Shown : \E new \in Shown' : Board!Older(old, new)
  <1>1. CASE UNCHANGED <<source, built[One], Shown>>
    BY <1>1, OlderIsAnOrder DEF Ages, Board!Older, Board!Contents
  <1>2. ASSUME NEW m \in Months, Board!Derive(m)
        PROVE  Ages' /\ \A old \in Shown : \E new \in Shown' : Board!Older(old, new)
    <2>1. /\ source[m] + 1 \in Generations /\ source' = [source EXCEPT ![m] = source[m] + 1]
          /\ UNCHANGED <<built[One], Shown>>
      BY <1>2 DEF Board!Derive
    <2>2. source' \in Board!Contents
      BY <2>1 DEF Ages, Board!Contents
    <2>3. Board!Older(source, source')
      <3>1. ASSUME NEW n \in Months
            PROVE  source[n] \in Nat /\ source'[n] \in {source[n], source[n] + 1}
        BY <2>1, MartsAssumption DEF Ages, Board!Contents, Generations
      <3>2. \A n \in Months : source[n] <= source'[n]
        BY <3>1
      <3>. QED
        BY <3>2 DEF Board!Older
    <2>4. Board!Older(built[One], source')
      BY <2>2, <2>3, OlderIsAnOrder DEF Ages
    <2>. QED
      BY <2>1, <2>2, <2>4, OlderIsAnOrder DEF Ages, Board!Older, Board!Contents
  <1>3. CASE Board!Take
    <2>1. built'[One] = source /\ UNCHANGED <<source, Shown>>
      BY <1>3 DEF Board!Take
    <2>. QED
      BY <2>1, OlderIsAnOrder DEF Ages, Board!Older, Board!Contents
  <1>4. CASE Board!Publish
    <2>1. Shown' = {built[One]} /\ UNCHANGED <<source, built[One]>>
      BY <1>4 DEF Board!Publish
    <2>. QED
      BY <2>1, OlderIsAnOrder DEF Ages, Board!Older, Board!Contents
  <1>. QED
    BY <1>1, <1>2, <1>3, <1>4 DEF Board!Next, Board!vars

(* No reader ever sees older data than before, month by month, or loses    *)
(* the table: what AtomicPublish promises, MartsPublish keeps.             *)
THEOREM ReadersNeverGoBack ==
    ASSUME Publishers # {}
    PROVE  MCSpec =>
             [][~together => \A old \in Shown : \E new \in Shown' : Board!Older(old, new)]_MCvars
  <1>. DEFINE AInv == ~together => WInv(One) /\ Ages
  <1>1. One \in Publishers
    BY DEF One
  <1>2. MCInit => AInv
    BY <1>1, BoardInit, PublishInit, AgesInit DEF MCInit
  <1>3. ASSUME AInv, [MCNext]_MCvars, ~together \/ ~together'
        PROVE  /\ WInv(One)' /\ Ages'
               /\ \A old \in Shown : \E new \in Shown' : Board!Older(old, new)
    <2>1. ~together /\ UNCHANGED together
      BY <1>3 DEF MCNext, Both, Alone, MCvars
    <2>2. [NextOf(One)]_vars
      BY <1>3, <2>1 DEF MCNext, MCvars, Both, Alone, NextOf, Progress, Break
    <2>3. WInv(One)' /\ [Board!Next]_(Board!vars)
      BY <1>1, <1>3, <2>1, <2>2, BoardStep, PublishStep
    <2>. QED
      BY <1>3, <2>1, <2>3, AgesStep
  <1>4. AInv /\ [MCNext]_MCvars =>
          /\ AInv'
          /\ [~together => \A old \in Shown : \E new \in Shown' : Board!Older(old, new)]_MCvars
    BY <1>3
  <1>. QED
    BY <1>2, <1>4, PTL DEF MCSpec

-----------------------------------------------------------------------------
(* What a publisher on its own has done of a publish, while no data is     *)
(* re-derived beside it: what it built is the data; the named months that  *)
(* it has streamed are whole; then the fact table is mended, then the      *)
(* aggregates; and it is done when every month's count is the source's.    *)
Filling == {"drop", "create", "stream", "swap"}
Past == {"index", "reconcile", "done"}
AfterFact(p) ==
    \/ pc[p] \in Past
    \/ pc[p] \in Filling /\ mart[p] = Aggregates
Mended(p) ==
    /\ \A m \in months[p] : live[FactMart][m] = Whole(built[p][m])
    /\ months[p] = {} => live[FactMart] = WholeTable(built[p])
Replacing(p) ==
    pc[p] \in {"delete", "stream_month"} =>
        /\ mart[p] = FactMart /\ todo[p] # {} /\ todo[p] \subseteq months[p]
        /\ \A m \in months[p] \ todo[p] : live[FactMart][m] = Whole(source[m])
        /\ pc[p] = "stream_month" =>
              live[FactMart] # NoTable /\ live[FactMart][Current(p)] = NoRows
Staging(p) ==
    /\ pc[p] = "stream" => staging[mart[p]] = [m \in Months |-> NoRows]
    /\ pc[p] = "swap" => staging[mart[p]] = WholeTable(built[p])

Progressing(p) ==
    /\ pc[p] \in Acting \ {"build"} => built[p] = source
    /\ Replacing(p) /\ Staging(p)
    /\ AfterFact(p) => Mended(p)
    /\ pc[p] \in Past => live[Aggregates] = WholeTable(built[p])
    /\ pc[p] = "done" /\ months[p] # {} =>
          \A m \in Months : Count(live[FactMart][m]) = RowsIn[built[p][m]]

GInv(p) == TypeOK /\ Progressing(p)

LEMMA RowsIntoNone ==
    ASSUME NEW g \in Generations
    PROVE  Copied(NoRows, Whole(g)) = Whole(g)
  <1>1. RowsIn[g] \in Nat
    BY MartsAssumption DEF Generations
  <1>2. Whole(g) \in [Generations -> Nat]
    BY <1>1 DEF Whole, NoRows
  <1>3. \A h \in Generations : NoRows[h] + Whole(g)[h] = Whole(g)[h]
    BY <1>2 DEF NoRows
  <1>4. Whole(g) = [h \in Generations |-> Whole(g)[h]]
    BY <1>2
  <1>. QED
    BY <1>3, <1>4 DEF Copied

(* The statements that replace the named months, one after the other.      *)
LEMMA MonthsProgress ==
    ASSUME NEW p \in Publishers, GInv(p), TypeOK', DeleteMonth(p) \/ StreamMonth(p)
    PROVE  Progressing(p)'
  <1>. DEFINE m == Current(p)
  <1>. FactMart \in Marts /\ Aggregates \in Marts /\ FactMart # Aggregates
    BY DEF Marts, FactMart, Aggregates
  <1>1. /\ TypeOK /\ pc \in [Publishers -> Resting \cup Acting]
        /\ pc[p] \in {"delete", "stream_month"}
        /\ UNCHANGED <<source, built, months>>
        /\ todo \in [Publishers -> SUBSET Months] /\ mart \in [Publishers -> Marts]
    BY DEF GInv, TypeOK, DeleteMonth, StreamMonth, job
  <1>2. /\ mart[p] = FactMart /\ todo[p] # {} /\ todo[p] \subseteq months[p]
        /\ \A n \in months[p] \ todo[p] : live[FactMart][n] = Whole(source[n])
        /\ built[p] = source
    BY <1>1 DEF GInv, Progressing, Replacing, Acting
  <1>3. m \in todo[p] /\ m \in Months
    BY <1>1, <1>2 DEF Current
  <1>4. CASE live[FactMart] = NoTable
    <2>1. pc' = [pc EXCEPT ![p] = "failed"]
      BY <1>4 DEF DeleteMonth, StreamMonth, Fail, Goto
    <2>. QED
      BY <1>1, <2>1 DEF Progressing, Replacing, Staging, AfterFact, Acting, Filling, Past
  <1>5. ASSUME live[FactMart] # NoTable, NEW rows,
               live' = [live EXCEPT ![FactMart][m] = rows]
        PROVE  /\ live'[FactMart][m] = rows
               /\ \A n \in Months : n # m => live'[FactMart][n] = live[FactMart][n]
    <2>1. live[FactMart] \in Filled /\ live \in [Marts -> Tables]
      BY <1>1, <1>5 DEF TypeOK, Tables, Filled
    <2>2. live'[FactMart] = [live[FactMart] EXCEPT ![m] = rows]
      BY <1>5, <2>1
    <2>. QED
      BY <1>3, <2>1, <2>2 DEF Filled
  <1>6. CASE live[FactMart] # NoTable /\ DeleteMonth(p)
    <2>1. /\ live' = [live EXCEPT ![FactMart][m] = NoRows]
          /\ pc' = [pc EXCEPT ![p] = "stream_month"] /\ UNCHANGED <<mart, todo>>
      BY <1>6 DEF DeleteMonth, Goto
    <2>2. /\ live'[FactMart][m] = NoRows
          /\ \A n \in Months : n # m => live'[FactMart][n] = live[FactMart][n]
      BY <1>5, <1>6, <2>1
    <2>3. live'[FactMart] # NoTable
      <3>1. live[FactMart] \in Filled
        BY <1>1, <1>6 DEF TypeOK, Tables, Filled
      <3>2. live'[FactMart] \in Filled
        BY <1>1, <1>6, MonthSteps
      <3>3. DOMAIN live'[FactMart] = Months /\ DOMAIN NoTable = {}
        BY <3>2 DEF Filled, NoTable
      <3>. QED
        BY <1>3, <3>3
    <2>4. pc'[p] = "stream_month" /\ Current(p)' = m
      BY <1>1, <2>1 DEF Current
    <2>5. \A n \in months[p] \ todo[p] : n \in Months /\ n # m
      BY <1>1, <1>3 DEF TypeOK
    <2>6. Replacing(p)'
      BY <1>1, <1>2, <2>1, <2>2, <2>3, <2>4, <2>5 DEF Replacing
    <2>. QED
      BY <1>1, <1>2, <2>4, <2>6 DEF Progressing, Staging, AfterFact, Filling, Past
  <1>7. CASE live[FactMart] # NoTable /\ StreamMonth(p)
    <2>1. /\ live' = [live EXCEPT ![FactMart][m] = Copied(live[FactMart][m], Whole(source[m]))]
          /\ todo' = [todo EXCEPT ![p] = todo[p] \ {m}]
          /\ IF todo[p] = {m} THEN NextMart(p) ELSE Goto(p, "delete") /\ UNCHANGED mart
      BY <1>7 DEF StreamMonth
    <2>2. live[FactMart][m] = NoRows /\ source[m] \in Generations
      BY <1>1, <1>3, <1>7 DEF GInv, Progressing, Replacing, StreamMonth, TypeOK
    <2>3. /\ live'[FactMart][m] = Whole(source[m])
          /\ \A n \in Months : n # m => live'[FactMart][n] = live[FactMart][n]
      <3>1. live'[FactMart][m] = Copied(live[FactMart][m], Whole(source[m]))
            /\ \A n \in Months : n # m => live'[FactMart][n] = live[FactMart][n]
        BY <1>5, <1>7, <2>1
      <3>. QED
        BY <2>2, <3>1, RowsIntoNone
    <2>4. todo'[p] = todo[p] \ {m}
      BY <1>1, <2>1
    <2>. HIDE DEF m
    <2>5. \A n \in months[p] \ todo'[p] : live'[FactMart][n] = Whole(source[n])
      <3>1. \A n \in months[p] : n \in Months
        BY <1>1 DEF TypeOK
      <3>. QED
        BY <1>2, <2>3, <2>4, <3>1
    <2>6. CASE todo[p] = {m}
      <3>1. pc'[p] = "drop" /\ mart'[p] = Aggregates /\ todo'[p] = {} /\ months[p] # {}
        BY <1>1, <1>2, <2>1, <2>4, <2>6 DEF NextMart, Goto
      <3>2. Mended(p)'
        BY <1>1, <1>2, <2>5, <3>1 DEF Mended
      <3>. QED
        BY <1>1, <1>2, <3>1, <3>2 DEF Progressing, Replacing, Staging, Filling, Past, AfterFact
    <2>7. CASE todo[p] # {m}
      <3>1. pc'[p] = "delete" /\ mart'[p] = FactMart /\ todo'[p] # {}
            /\ todo'[p] \subseteq months[p]
        BY <1>1, <1>2, <2>1, <2>4, <2>7 DEF Goto
      <3>2. Replacing(p)'
        BY <1>1, <2>5, <3>1 DEF Replacing
      <3>. QED
        BY <1>1, <1>2, <3>1, <3>2 DEF Progressing, Staging, Filling, Past, AfterFact
    <2>. QED
      BY <2>6, <2>7
  <1>. QED
    BY <1>4, <1>6, <1>7

(* The steps that load a staging table and swap it in.                     *)
LEMMA RefreshProgress ==
    ASSUME NEW p \in Publishers, GInv(p), TypeOK',
           DropStaging(p) \/ CreateStaging(p) \/ StreamStaging(p) \/ Swap(p)
    PROVE  Progressing(p)'
  <1>. FactMart \in Marts /\ Aggregates \in Marts /\ FactMart # Aggregates
    BY DEF Marts, FactMart, Aggregates
  <1>1. /\ TypeOK /\ pc \in [Publishers -> Resting \cup Acting]
        /\ mart \in [Publishers -> Marts] /\ mart[p] \in {FactMart, Aggregates}
        /\ staging \in [Marts -> Tables] /\ live \in [Marts -> Tables]
        /\ pc[p] \in Filling /\ UNCHANGED <<source, built, months>>
    BY DEF GInv, TypeOK, DropStaging, CreateStaging, StreamStaging, Swap, job, local,
           Filling, Marts
  <1>2. built[p] = source /\ built[p] \in [Months -> Generations]
    BY <1>1 DEF GInv, Progressing, Acting, Filling, TypeOK
  <1>3. mart[p] = Aggregates => Mended(p)
    BY <1>1 DEF GInv, Progressing, AfterFact
  <1>4. ASSUME UNCHANGED <<live, mart>>, Staging(p)', pc'[p] \in Filling
        PROVE  Progressing(p)'
    <2>1. mart'[p] = Aggregates => Mended(p)'
      BY <1>1, <1>3, <1>4 DEF Mended
    <2>. QED
      BY <1>1, <1>2, <1>4, <2>1 DEF Progressing, Replacing, AfterFact, Filling, Past
  <1>5. ASSUME Fail(p)
        PROVE  Progressing(p)'
    <2>1. pc'[p] = "failed"
      BY <1>1, <1>5 DEF Fail, Goto
    <2>. QED
      BY <2>1 DEF Progressing, Replacing, Staging, AfterFact, Acting, Filling, Past
  <1>6. CASE DropStaging(p)
    <2>1. pc'[p] = "create" /\ UNCHANGED <<live, mart>>
      BY <1>1, <1>6 DEF DropStaging, Goto, local
    <2>. QED
      BY <1>4, <2>1 DEF Staging, Filling
  <1>7. CASE CreateStaging(p) /\ ~Fail(p)
    <2>1. /\ pc'[p] = "stream" /\ UNCHANGED <<live, mart>>
          /\ staging'[mart[p]] = [m \in Months |-> NoRows]
      BY <1>1, <1>7 DEF CreateStaging, Goto
    <2>. QED
      BY <1>4, <2>1 DEF Staging, Filling
  <1>8. CASE StreamStaging(p) /\ ~Fail(p)
    <2>1. /\ pc'[p] = "swap" /\ UNCHANGED <<live, mart>>
          /\ staging'[mart[p]] = CopiedTable(staging[mart[p]], WholeTable(Content(p)))
      BY <1>1, <1>8 DEF StreamStaging, Goto
    <2>2. staging[mart[p]] = [m \in Months |-> NoRows] /\ Content(p) = built[p]
      BY <1>2, <1>8 DEF GInv, Progressing, Staging, StreamStaging, Content
    <2>3. staging'[mart[p]] = WholeTable(built[p])
      BY <1>2, <2>1, <2>2, CopiedIntoEmpty
    <2>. QED
      BY <1>1, <1>4, <2>1, <2>3 DEF Staging, Filling
  <1>9. CASE Swap(p) /\ ~Fail(p)
    <2>1. /\ live'[mart[p]] = WholeTable(built[p])
          /\ mart[p] = Aggregates => live'[FactMart] = live[FactMart]
      BY <1>1, <1>9 DEF Swap, GInv, Progressing, Staging
    <2>2. NextMart(p)
      BY <1>9 DEF Swap
    <2>3. \A m \in months[p] : m \in Months
      BY <1>1 DEF TypeOK
    <2>4. Mended(p)'
      <3>1. CASE mart[p] = FactMart
        <4>1. live'[FactMart] = WholeTable(built[p])
          BY <2>1, <3>1
        <4>2. \A m \in months[p] : live'[FactMart][m] = Whole(built[p][m])
          BY <2>3, <4>1 DEF WholeTable
        <4>. QED
          BY <1>1, <4>1, <4>2 DEF Mended
      <3>2. CASE mart[p] = Aggregates
        BY <1>1, <1>3, <2>1, <3>2 DEF Mended
      <3>. QED
        BY <1>1, <3>1, <3>2
    <2>5. \/ /\ mart[p] = FactMart /\ pc'[p] = "drop"
          \/ /\ mart[p] = Aggregates /\ pc'[p] = "index"
      BY <1>1, <2>2 DEF NextMart, Goto
    <2>6. pc'[p] = "index" => live'[Aggregates] = WholeTable(built[p])
      BY <2>1, <2>5
    <2>. QED
      BY <1>1, <1>2, <2>4, <2>5, <2>6 DEF Progressing, Replacing, Staging, AfterFact, Past, Filling
  <1>. QED
    BY <1>5, <1>6, <1>7, <1>8, <1>9

LEMMA GreenStep ==
    ASSUME Quiet, NEW p \in Publishers, GInv(p), [NextOf(p)]_vars
    PROVE  GInv(p)'
  <1>1. /\ TypeOK /\ TypeOK' /\ Progressing(p)
        /\ pc \in [Publishers -> Resting \cup Acting]
        /\ mart \in [Publishers -> Marts] /\ todo \in [Publishers -> SUBSET Months]
        /\ months \in [Publishers -> SUBSET Months]
    BY TypeStep DEF GInv, NextOf, Next, TypeOK
  <1>. USE DEF GInv
  <1>2. ASSUME pc'[p] \in {"build", "failed"}
        PROVE  Progressing(p)'
    BY <1>2 DEF Progressing, Replacing, Staging, AfterFact, Acting, Filling, Past
  <1>3. CASE UNCHANGED vars
    BY <1>1, <1>3 DEF vars, tables, job, local, Progressing, Replacing, Staging, AfterFact,
                      Mended, Current
  <1>4. ASSUME NEW m \in Months, Restate(m)
        PROVE  Progressing(p)'
    <2>1. pc[p] \in Resting /\ UNCHANGED <<tables, pc, job, local>>
      BY <1>4 DEF Restate
    <2>. QED
      BY <1>1, <2>1 DEF tables, job, local, Progressing, Replacing, Staging, AfterFact,
                        Mended, Resting, Acting, Filling, Past
  <1>5. ASSUME NEW named \in SUBSET Months,
               Launch(p, named) \/ Retry(p) \/ Break(p)
        PROVE  Progressing(p)'
    <2>1. pc'[p] \in {"build", "failed"}
      BY <1>1, <1>5 DEF Launch, Retry, Break, BreakMonth, BreakStaging, Kill, Goto
    <2>. QED
      BY <1>2, <2>1
  <1>6. CASE Build(p)
    <2>1. pc'[p] = "begin" /\ built'[p] = source /\ UNCHANGED source
      BY <1>1, <1>6 DEF Build, Goto, TypeOK
    <2>. QED
      BY <1>1, <2>1 DEF Progressing, Replacing, Staging, AfterFact, Filling, Past
  <1>7. CASE Begin(p)
    <2>1. /\ pc[p] = "begin" /\ mart'[p] = FactMart /\ todo'[p] = months[p]
          /\ UNCHANGED <<source, months, built>>
          /\ \/ pc'[p] = "delete" /\ months[p] # {}
             \/ pc'[p] = "drop"
      BY <1>1, <1>7 DEF Begin, Goto, job
    <2>2. Replacing(p)'
      BY <2>1 DEF Replacing
    <2>. QED
      BY <1>1, <2>1, <2>2 DEF Progressing, Staging, AfterFact, Filling, Past, Acting,
                              FactMart, Aggregates
  <1>8. CASE Index(p) \/ Reconcile(p)
    <2>1. /\ pc[p] \in {"index", "reconcile"} /\ UNCHANGED <<source, live, months, built>>
      BY <1>8 DEF Index, Reconcile, tables, job, local
    <2>2. /\ pc'[p] \in {"failed", "reconcile", "done"}
          /\ pc'[p] = "done" /\ months[p] # {} =>
                \A m \in Months : Count(live[FactMart][m]) = RowsIn[source[m]]
      BY <1>1, <1>8 DEF Index, Reconcile, Goto
    <2>3. built[p] = source /\ Mended(p) /\ live[Aggregates] = WholeTable(built[p])
      BY <1>1, <2>1 DEF Progressing, AfterFact, Past, Acting
    <2>4. Mended(p)'
      BY <2>1, <2>3 DEF Mended
    <2>. QED
      BY <1>1, <2>1, <2>2, <2>3, <2>4 DEF Progressing, Replacing, Staging, AfterFact, Acting,
                                    Filling, Past
  <1>. QED
    BY <1>1, <1>3, <1>4, <1>5, <1>6, <1>7, <1>8, MonthsProgress, RefreshProgress
    DEF NextOf, Progress

-----------------------------------------------------------------------------
(***************************************************************************)
(* Counting rows.  Count is a fold; what it adds up to is the cardinality  *)
(* of a set of units.                                                      *)
(***************************************************************************)
(* One unit for each thing that f counts of each element of S.             *)
Units(f, S) == UNION {{i} \X (1 .. f[i]) : i \in S}

LEMMA UnitsAreFinite ==
    ASSUME NEW S, IsFiniteSet(S), NEW f, \A i \in S : f[i] \in Nat
    PROVE  IsFiniteSet(Units(f, S))
  <1>. DEFINE T == {{i} \X (1 .. f[i]) : i \in S}
  <1>1. [i \in S |-> {i} \X (1 .. f[i])] \in Surjection(S, T)
    BY DEF Surjection
  <1>2. IsFiniteSet(T)
    BY <1>1, FS_Surjection
  <1>3. \A i \in S : IsFiniteSet({i} \X (1 .. f[i]))
    <2>. TAKE i \in S
    <2>1. IsFiniteSet({i})
      BY FS_Singleton
    <2>2. IsFiniteSet(1 .. f[i])
      BY FS_Interval
    <2>. QED
      BY <2>1, <2>2, FS_Product
  <1>. QED
    BY <1>2, <1>3, FS_UNION DEF Units

(* An element adds what f counts of it.                                    *)
LEMMA UnitsOfOneMore ==
    ASSUME NEW S, IsFiniteSet(S), NEW f, \A i \in S : f[i] \in Nat, NEW x \in S
    PROVE  Cardinality(Units(f, S)) = f[x] + Cardinality(Units(f, S \ {x}))
  <1>. DEFINE Own == {x} \X (1 .. f[x])
              Rest == Units(f, S \ {x})
  <1>1. IsFiniteSet(Own) /\ Cardinality(Own) = f[x]
    <2>1. IsFiniteSet({x}) /\ Cardinality({x}) = 1
      BY FS_Singleton
    <2>2. IsFiniteSet(1 .. f[x]) /\ Cardinality(1 .. f[x]) = f[x]
      BY FS_Interval
    <2>. QED
      BY <2>1, <2>2, FS_Product
  <1>2. IsFiniteSet(Rest)
    BY FS_RemoveElement, UnitsAreFinite
  <1>3. Units(f, S) = Own \cup Rest /\ Own \cap Rest = {}
    BY DEF Units
  <1>4. Cardinality({}) = 0 /\ Cardinality(Rest) \in Nat
    BY <1>2, FS_EmptySet, FS_CardinalityType
  <1>. HIDE DEF Own, Rest
  <1>5. Cardinality(Own \cup Rest) = Cardinality(Own) + Cardinality(Rest) - Cardinality(Own \cap Rest)
    BY <1>1, <1>2, FS_Union
  <1>6. Cardinality(Own \cap Rest) = 0
    BY <1>3, <1>4
  <1>7. Cardinality(Own \cup Rest) = f[x] + Cardinality(Rest)
    BY <1>1, <1>4, <1>5, <1>6
  <1>. QED
    BY <1>3, <1>7 DEF Rest

(* g satisfies the recursion by which Functions!SumFunctionOnSet is        *)
(* defined.                                                                *)
Sums(f, S, g) ==
    g = [s \in SUBSET S |->
            IF s = {} THEN 0
            ELSE f[CHOOSE x \in s : TRUE] + g[s \ {CHOOSE x \in s : TRUE}]]

(* Counting units is a solution of the recursion, and by induction over    *)
(* the subsets of S (of those at which a solution is off, one is minimal)  *)
(* it is the only one.                                                     *)
LEMMA CountsSum ==
    ASSUME NEW S, IsFiniteSet(S), NEW f, \A i \in S : f[i] \in Nat
    PROVE  Sums(f, S, [s \in SUBSET S |-> Cardinality(Units(f, s))])
  <1>. DEFINE g == [s \in SUBSET S |-> Cardinality(Units(f, s))]
  <1>1. ASSUME NEW s \in SUBSET S, s = {} PROVE g[s] = 0
    <2>1. Units(f, s) = {}
      BY <1>1 DEF Units
    <2>. QED
      BY <2>1, FS_EmptySet
  <1>2. ASSUME NEW s \in SUBSET S, NEW x \in s PROVE g[s] = f[x] + g[s \ {x}]
    <2>1. IsFiniteSet(s) /\ s \ {x} \in SUBSET S
      BY FS_Subset
    <2>2. Cardinality(Units(f, s)) = f[x] + Cardinality(Units(f, s \ {x}))
      BY <2>1, UnitsOfOneMore
    <2>. QED
      BY <2>1, <2>2
  <1>. HIDE DEF g
  <1>3. \A s \in SUBSET S : s # {} => (CHOOSE x \in s : TRUE) \in s
    OBVIOUS
  <1>4. g = [s \in SUBSET S |-> g[s]]
    BY DEF g
  <1>5. \A s \in SUBSET S :
            g[s] = IF s = {} THEN 0
                   ELSE f[CHOOSE x \in s : TRUE] + g[s \ {CHOOSE x \in s : TRUE}]
    BY <1>1, <1>2, <1>3
  <1>6. Sums(f, S, g)
    BY <1>4, <1>5 DEF Sums
  <1>. QED
    BY <1>6 DEF g

LEMMA SumsAreCounts ==
    ASSUME NEW S, IsFiniteSet(S), NEW f, \A i \in S : f[i] \in Nat, NEW g, Sums(f, S, g)
    PROVE  g[S] = Cardinality(Units(f, S))
  <1>. DEFINE Off == {s \in SUBSET S : g[s] # Cardinality(Units(f, s))}
  <1>1. Off \subseteq FiniteSubsetsOf(S)
    BY FS_Subset DEF FiniteSubsetsOf
  <1>2. ASSUME NEW s \in Off, \A t \in Off : <<t, s>> \notin StrictSubsetOrdering(S)
        PROVE  FALSE
    <2>1. s \in SUBSET S /\ IsFiniteSet(s)
      BY FS_Subset
    <2>2. CASE s = {}
      <3>1. Units(f, s) = {} /\ g[s] = 0
        BY <2>2 DEF Units, Sums
      <3>. QED
        BY <3>1, FS_EmptySet
    <2>3. CASE s # {}
      <3>1. PICK x \in s : x = CHOOSE y \in s : TRUE
        BY <2>3
      <3>2. g[s] = f[x] + g[s \ {x}]
        BY <2>1, <2>3, <3>1 DEF Sums
      <3>3. s \ {x} \notin Off
        <4>1. s \ {x} \in SUBSET S /\ s \ {x} \subseteq s /\ s \ {x} # s
          BY <2>1
        <4>2. <<s \ {x}, s>> \in StrictSubsetOrdering(S)
          BY <2>1, <4>1 DEF StrictSubsetOrdering
        <4>. QED
          BY <1>2, <4>2
      <3>4. g[s \ {x}] = Cardinality(Units(f, s \ {x}))
        BY <2>1, <3>3
      <3>5. Cardinality(Units(f, s)) = f[x] + Cardinality(Units(f, s \ {x}))
        BY <2>1, UnitsOfOneMore
      <3>. QED
        BY <3>2, <3>4, <3>5
    <2>. QED
      BY <2>2, <2>3
  <1>3. Off = {}
    <2>1. IsWellFoundedOn(StrictSubsetOrdering(S), FiniteSubsetsOf(S))
      BY FS_StrictSubsetOrderingWellFounded
    <2>. HIDE DEF Off
    <2>. QED
      BY <1>1, <1>2, <2>1, WFMin
  <1>. QED
    BY <1>3

(* So what the fold computes does not depend on what it chooses.           *)
LEMMA SumIsCount ==
    ASSUME NEW S, IsFiniteSet(S), NEW f, \A i \in S : f[i] \in Nat
    PROVE  SumFunctionOnSet(f, S) = Cardinality(Units(f, S))
  <1>1. SumFunctionOnSet(f, S) = (CHOOSE g : Sums(f, S, g))[S]
    BY DEF SumFunctionOnSet, FoldFunctionOnSet, MapThenFoldSet, Sums
  <1>2. Sums(f, S, CHOOSE g : Sums(f, S, g))
    BY CountsSum
  <1>. QED
    BY <1>1, <1>2, SumsAreCounts

(* A month streamed whole counts the rows that it has.                     *)
LEMMA WholeCounts == ASSUME NEW g \in Generations PROVE Count(Whole(g)) = RowsIn[g]
  <1>1. /\ \A h \in Generations : RowsIn[h] \in Nat
        /\ IsFiniteSet(Generations)
    <2>1. Generations = 1 .. Len(RowsIn) /\ Len(RowsIn) \in Nat
      BY MartsAssumption DEF Generations
    <2>2. IsFiniteSet(Generations)
      BY <2>1, FS_Interval
    <2>. QED
      BY <2>2, MartsAssumption DEF Generations
  <1>2. /\ DOMAIN Whole(g) = Generations
        /\ \A h \in Generations : Whole(g)[h] = IF h = g THEN RowsIn[g] ELSE 0
    BY DEF Whole, NoRows
  <1>3. \A h \in Generations : Whole(g)[h] \in Nat
    BY <1>1, <1>2
  <1>4. Count(Whole(g)) = Cardinality(Units(Whole(g), Generations))
    <2>1. Count(Whole(g)) = SumFunctionOnSet(Whole(g), Generations)
      BY <1>2 DEF Count, SumFunction
    <2>. QED
      BY <1>1, <1>3, <2>1, SumIsCount
  <1>5. Units(Whole(g), Generations) = {g} \X (1 .. RowsIn[g])
    BY <1>2 DEF Units
  <1>6. Cardinality({g} \X (1 .. RowsIn[g])) = RowsIn[g]
    <2>1. IsFiniteSet({g}) /\ Cardinality({g}) = 1
      BY FS_Singleton
    <2>2. IsFiniteSet(1 .. RowsIn[g]) /\ Cardinality(1 .. RowsIn[g]) = RowsIn[g]
      BY <1>1, FS_Interval
    <2>. DEFINE G == {g}
                R == 1 .. RowsIn[g]
    <2>. HIDE DEF G, R
    <2>3. Cardinality(G \X R) = Cardinality(G) * Cardinality(R)
      BY <2>1, <2>2, FS_Product DEF G, R
    <2>4. Cardinality(G) * Cardinality(R) = RowsIn[g]
      BY <1>1, <2>1, <2>2 DEF G, R
    <2>. QED
      BY <2>3, <2>4 DEF G, R
  <1>. QED
    BY <1>4, <1>5, <1>6

-----------------------------------------------------------------------------
(* Beside BoardIsWhole, MartsPublish.NamedMonthsFresh and GreenIsComplete, *)
(* of a publisher that is alone and beside which no month is re-derived:   *)
(* the board is whole at every moment, and green means that                *)
(* every month of the fact table counts what its source does, those left   *)
(* short by an earlier, killed publish included, that the named months     *)
(* hold exactly the rows of their source, and that the aggregates are of   *)
(* the same data.                                                          *)
THEOREM AloneBoardStaysTrue ==
    ASSUME Publishers # {}, Quiet
    PROVE  MCSpec => []AloneBoardIsTrue
  <1>1. One \in Publishers
    BY DEF One
  <1>. DEFINE Others == \A q \in Publishers : q # One => pc[q] = "idle"
              AInv == ~together => GInv(One) /\ Others
  <1>2. MCInit => AInv
    <2>1. Init => TypeOK
      BY InitTyped
    <2>2. Init => Progressing(One) /\ Others
      BY <1>1 DEF Init, Progressing, Replacing, Staging, AfterFact, Acting, Filling, Past
    <2>. QED
      BY <2>1, <2>2 DEF MCInit, GInv
  <1>3. AInv /\ [MCNext]_MCvars => AInv'
    <2>. SUFFICES ASSUME AInv, [MCNext]_MCvars, ~together'
                  PROVE  GInv(One)' /\ Others'
      OBVIOUS
    <2>1. ~together /\ UNCHANGED together
      BY DEF MCNext, Both, Alone, MCvars
    <2>2. [NextOf(One)]_vars
      BY <2>1 DEF MCNext, MCvars, Both, Alone, NextOf, Progress, Break
    <2>3. GInv(One)'
      BY <1>1, <2>1, <2>2, GreenStep
    <2>4. pc \in [Publishers -> Resting \cup Acting]
      BY <2>1 DEF GInv, TypeOK
    <2>5. \E label : pc' = [pc EXCEPT ![One] = label] \/ UNCHANGED pc
      BY <2>2 DEF NextOf, vars, Restate, Launch, Retry, Progress, Build, Begin, DeleteMonth,
                  StreamMonth, DropStaging, CreateStaging, StreamStaging, Swap, Index,
                  Reconcile, Break, BreakMonth, BreakStaging, Kill, NextMart, Fail, Goto
    <2>. QED
      BY <1>1, <2>1, <2>3, <2>4, <2>5
  <1>4. AInv => (~together => GreenIsComplete /\ NamedMonthsFresh)
    <2>. SUFFICES ASSUME ~together, GInv(One), Others, NEW p \in Publishers, pc[p] = "done"
                  PROVE  /\ \A m \in Months : Count(live[FactMart][m]) = RowsIn[built[p][m]]
                         /\ live[Aggregates] = WholeTable(built[p])
                         /\ \A m \in months[p] : live[FactMart][m] = Whole(built[p][m])
      BY DEF GreenIsComplete, NamedMonthsFresh
    <2>1. p = One /\ Progressing(p)
      BY DEF GInv
    <2>2. Mended(p) /\ live[Aggregates] = WholeTable(built[p])
      BY <2>1 DEF Progressing, AfterFact, Past
    <2>3. ASSUME months[p] = {}, NEW m \in Months
          PROVE  Count(live[FactMart][m]) = RowsIn[built[p][m]]
      <3>1. live[FactMart][m] = Whole(built[p][m])
        BY <2>2, <2>3 DEF Mended, WholeTable
      <3>2. built[p][m] \in Generations
        BY DEF GInv, TypeOK
      <3>. QED
        BY <3>1, <3>2, WholeCounts
    <2>. QED
      BY <2>1, <2>2, <2>3 DEF Progressing, Mended
  <1>. QED
    BY <1>2, <1>3, <1>4, AloneBoardStaysWhole, PTL DEF MCSpec, AloneBoardIsTrue

-----------------------------------------------------------------------------
(* The pipeline.                                                           *)

Inputs == [months : {"full", "sampled"}, judge : BOOLEAN]
Early == {"ingest", "validate", "features"}
Later == {"evaluate", "register", "marts", "done"}
Judged(manifest) == manifest.decision \in {"PROMOTE", "REFUSE"}
Judgeable(e) == input[e].judge => input[e].months = "full"
OfPin(result, g) == {result.rows, result.manifest.data} \subseteq {P!None, g}

(* An answer that any execution with this key may be given.                *)
RightAnswer(key, result) ==
    /\ Staged => OfPin(result, key.salt)
    /\ key.stage \in Early => result.manifest = P!NoManifest
    /\ key.stage = "train" =>
          (Judged(result.manifest) <=> key.declared.months = "full" /\ key.declared.judge)
    /\ key.stage = "evaluate" => result = key.declared.passed

CacheInv ==
    /\ \A entry \in cache :
          entry.result \in P!Results /\ RightAnswer(entry.key, entry.result)
    /\ \A entry, other \in cache : entry.key = other.key => entry = other

(* A running execution holds answers of its own data, which is the volume's *)
(* and the host's while it runs; it has a manifest from train on, with a   *)
(* verdict exactly if it is entitled to one; and it fails no more often    *)
(* than pods are lost, if the gate may judge it.                           *)
Account(e) ==
    /\ stage[e] \in P!Acting =>
          /\ tries[e] <= MaxRetries
          /\ Judgeable(e) => tries[e] <= lost
          /\ Staged => pin[e] = pinned /\ volume = pinned /\ OfPin(passed[e], pin[e])
    /\ stage[e] = "failed" /\ Judgeable(e) => lost > MaxRetries
    /\ stage[e] \in Early \cup {"train"} => passed[e].manifest = P!NoManifest
    /\ stage[e] \in Later \cup {"report"} => (Judged(passed[e].manifest) <=> P!Entitled(e))

WorldInv ==
    /\ {pinned, volume} \subseteq DOMAIN Sizes
    /\ alias \in Champions
    /\ {executed, lost, changes} \subseteq Nat

ExecInv ==
    /\ stage \in [Executions -> P!Resting \cup P!Acting]
    /\ input \in [Executions -> Inputs]
    /\ pin \in [Executions -> DOMAIN Sizes]
    /\ tries \in [Executions -> 0 .. MaxRetries + 1]
    /\ passed \in [Executions -> P!Results]
    /\ \A e \in Executions : Account(e)

EInv == WorldInv /\ CacheInv /\ ExecInv

-----------------------------------------------------------------------------
(* The labels, spelled out for the provers.                                *)
LEMMA Stages ==
    /\ DOMAIN P!Following = {"ingest", "validate", "features", "train", "evaluate",
                           "register", "marts"}
    /\ \A s \in DOMAIN P!Following : P!Following[s] \in P!Resting \cup P!Acting
    /\ \A s \in {"ingest", "validate"} : P!Following[s] \in Early
    /\ P!Following["features"] = "train"
    /\ \A s \in {"train", "evaluate", "register", "marts"} : P!Following[s] \in Later
    /\ P!Acting = Early \cup {"train", "report", "evaluate", "register", "marts"}
  BY DEF P!Following, P!Resting, P!Acting, Early, Later

LEMMA InitPipeline ==
    ASSUME P!PipelineAssumption, P!Init
    PROVE  EInv
  <1>1. P!Path \in P!Results /\ P!Path.manifest = P!NoManifest
    BY DEF P!Path, P!Results, P!Manifests, P!NoManifest
  <1>2. WorldInv /\ CacheInv
    BY DEF P!Init, WorldInv, CacheInv
  <1>3. ExecInv
    BY <1>1, Stages DEF P!PipelineAssumption, P!Init, ExecInv, Inputs, Account, Early, Later, P!Resting
  <1>. QED
    BY <1>2, <1>3 DEF EInv

(* What one execution does leaves the account of the others alone, and     *)
(* more lost pods are a better excuse.                                     *)
LEMMA OthersKeep ==
    ASSUME EInv, NEW e \in Executions, NEW s \in P!Resting \cup P!Acting,
           NEW n \in 0 .. MaxRetries + 1, NEW result \in P!Results,
           stage' = [stage EXCEPT ![e] = s],
           tries' = [tries EXCEPT ![e] = n],
           passed' = [passed EXCEPT ![e] = result],
           UNCHANGED <<P!world, P!launch>>, lost' \in Nat, lost' >= lost,
           Account(e)', MaxRetries \in Nat
    PROVE  ExecInv'
  <1>. USE DEF EInv, ExecInv
  <1>1. ASSUME NEW f \in Executions, f # e
        PROVE  Account(f)'
    <2>1. stage'[f] = stage[f] /\ tries'[f] = tries[f] /\ passed'[f] = passed[f]
      BY <1>1
    <2>2. tries[f] \in Nat /\ lost \in Nat
      BY DEF WorldInv
    <2>. QED
      BY <2>1, <2>2 DEF Account, Judgeable, P!Entitled, P!world, P!launch
  <1>2. /\ stage' \in [Executions -> P!Resting \cup P!Acting]
        /\ tries' \in [Executions -> 0 .. MaxRetries + 1]
        /\ passed' \in [Executions -> P!Results]
    OBVIOUS
  <1>. QED
    BY <1>1, <1>2 DEF P!launch

(* A stage that returns a right answer.                                    *)
LEMMA ReturnKeeps ==
    ASSUME P!PipelineAssumption, EInv, NEW e \in Executions, NEW s \in DOMAIN P!Following,
           NEW result \in P!Results, stage[e] \in P!Acting, P!Return(e, s, result),
           UNCHANGED <<P!world, P!counters, P!launch>>,
           Staged => OfPin(result, pin[e]),
           s \in Early => result.manifest = P!NoManifest,
           s \notin Early => (Judged(result.manifest) <=> P!Entitled(e))
    PROVE  WorldInv' /\ ExecInv'
  <1>1. /\ stage' = [stage EXCEPT ![e] = P!Following[s]]
        /\ tries' = [tries EXCEPT ![e] = 0]
        /\ passed' = [passed EXCEPT ![e] = result]
    BY DEF P!Return
  <1>2. stage'[e] = P!Following[s] /\ tries'[e] = 0 /\ passed'[e] = result
    BY <1>1 DEF EInv, ExecInv
  <1>3. lost' = lost /\ lost \in Nat /\ MaxRetries \in Nat
    BY DEF P!counters, EInv, WorldInv, P!PipelineAssumption
  <1>4. Account(e)
    BY DEF EInv, ExecInv
  <1>5. Account(e)'
    <2>1. stage'[e] # "failed"
      BY <1>2, Stages DEF Early, Later
    <2>2. stage'[e] \in Early \cup {"train"} => s \in Early
      BY <1>2, Stages DEF Early, Later
    <2>3. stage'[e] \in Later \cup {"report"} => s \notin Early
      BY <1>2, Stages DEF Early, Later
    <2>. QED
      BY <1>2, <1>3, <1>4, <2>1, <2>2, <2>3
      DEF Account, Judgeable, P!Entitled, P!world, P!launch
  <1>6. /\ P!Following[s] \in P!Resting \cup P!Acting /\ 0 \in 0 .. MaxRetries + 1
        /\ lost' \in Nat /\ lost' >= lost /\ UNCHANGED <<P!world, P!launch>>
    BY <1>3, Stages
  <1>7. ExecInv'
    BY <1>1, <1>3, <1>5, <1>6, OthersKeep
  <1>. QED
    BY <1>7 DEF EInv, WorldInv, P!world, P!counters

LEMMA StoreKeeps ==
    ASSUME CacheInv, NEW key, NEW result \in P!Results, RightAnswer(key, result),
           P!Store(key, result)
    PROVE  CacheInv'
  BY DEF CacheInv, P!Store, RightAnswer, OfPin

(* An attempt that ends in an exception or with its pod.                   *)
LEMMA RaiseKeeps ==
    ASSUME P!PipelineAssumption, EInv, NEW e \in Executions, NEW s \in DOMAIN P!Following,
           NEW result \in P!Results, stage[e] \in P!Acting,
           tries' = [tries EXCEPT ![e] = tries[e] + 1],
           stage' = [stage EXCEPT ![e] = IF tries[e] < MaxRetries THEN s ELSE "failed"],
           passed' = [passed EXCEPT ![e] = result],
           UNCHANGED <<P!world, P!launch>>, lost' \in Nat, lost' >= lost,
           Judgeable(e) => lost' = lost + 1,
           Staged => OfPin(result, pin[e]),
           s \in Early \cup {"train"} => result.manifest = P!NoManifest,
           s \notin Early \cup {"train"} => (Judged(result.manifest) <=> P!Entitled(e))
    PROVE  ExecInv'
  <1>1. Account(e) /\ tries[e] \in Nat /\ lost \in Nat /\ MaxRetries \in Nat
    BY DEF EInv, ExecInv, WorldInv, P!PipelineAssumption
  <1>. DEFINE label == IF tries[e] < MaxRetries THEN s ELSE "failed"
  <1>2. label \in P!Resting \cup P!Acting
    BY Stages DEF P!Acting, P!Resting
  <1>3. tries[e] + 1 \in 0 .. MaxRetries + 1
    BY <1>1 DEF Account
  <1>4. /\ stage'[e] = label /\ tries'[e] = tries[e] + 1 /\ passed'[e] = result
    BY DEF EInv, ExecInv
  <1>5. Account(e)'
    BY SMTT(30), <1>1, <1>4, Stages
    DEF Account, Judgeable, P!Entitled, P!world, P!launch, Early, Later
  <1>. QED
    BY <1>1, <1>2, <1>3, <1>5, OthersKeep

-----------------------------------------------------------------------------
(* The stages.                                                             *)

(* An execution hands on what it was handed, read from the cache.          *)
LEMMA HitKeeps ==
    ASSUME P!PipelineAssumption, EInv, NEW e \in Executions, NEW s \in P!Cached, P!Hit(e, s)
    PROVE  EInv'
  <1>1. PICK entry \in cache : entry.key = P!Key(e, s) /\ P!Return(e, s, entry.result)
    BY DEF P!Hit
  <1>2. stage[e] = s /\ s \in DOMAIN P!Following /\ s \in P!Acting
        /\ UNCHANGED <<P!world, cache, P!counters, P!launch>>
    BY Stages DEF P!Hit, P!Cached, Early
  <1>3. /\ entry.result \in P!Results /\ RightAnswer(P!Key(e, s), entry.result)
        /\ Account(e)
    BY <1>1 DEF EInv, CacheInv, ExecInv
  <1>4. Staged => OfPin(entry.result, pin[e])
    BY <1>3 DEF RightAnswer, P!Key
  <1>5. s \in Early => entry.result.manifest = P!NoManifest
    BY <1>3 DEF RightAnswer, P!Key
  <1>6. s \notin Early => (Judged(entry.result.manifest) <=> P!Entitled(e))
    <2>1. CASE s = "train"
      BY <1>3, <2>1 DEF RightAnswer, P!Key, P!Declared, P!Entitled
    <2>2. CASE s = "evaluate"
      BY <1>2, <1>3, <2>2 DEF RightAnswer, P!Key, P!Declared, Account, Later
    <2>. QED
      BY <2>1, <2>2 DEF P!Cached, Early
  <1>7. WorldInv' /\ ExecInv'
    BY <1>1, <1>2, <1>3, <1>4, <1>5, <1>6, ReturnKeeps
  <1>. QED
    BY <1>2, <1>7 DEF EInv, CacheInv

LEMMA RunKeeps ==
    ASSUME P!PipelineAssumption, EInv, NEW e \in Executions,
           NEW s \in Early \cup {"evaluate"}, NEW result \in P!Results, P!Run(e, s, result),
           Staged => OfPin(result, pin[e]),
           s \in Early => result.manifest = P!NoManifest,
           s = "evaluate" => result = passed[e]
    PROVE  EInv'
  <1>1. /\ stage[e] = s /\ s \in DOMAIN P!Following /\ s \in P!Acting
        /\ P!Store(P!Key(e, s), result) /\ P!Return(e, s, result)
        /\ UNCHANGED <<P!world, P!counters, P!launch>>
    BY Stages DEF P!Run, Early
  <1>2. RightAnswer(P!Key(e, s), result)
    BY DEF RightAnswer, P!Key, P!Declared, Early
  <1>3. CacheInv'
    BY <1>1, <1>2, StoreKeeps DEF EInv
  <1>4. s \notin Early => (Judged(result.manifest) <=> P!Entitled(e))
    BY <1>1 DEF EInv, ExecInv, Account, Later
  <1>5. WorldInv' /\ ExecInv'
    BY <1>1, <1>4, ReturnKeeps
  <1>. QED
    BY <1>3, <1>5 DEF EInv

LEMMA RunSteps ==
    ASSUME P!PipelineAssumption, EInv, NEW e \in Executions,
           P!Ingest(e) \/ P!Validate(e) \/ P!BuildFeatures(e) \/ P!Evaluate(e)
    PROVE  EInv'
  <1>1. P!Path \in P!Results /\ P!Path.manifest = P!NoManifest /\ P!Path.rows = P!None
        /\ P!NoManifest.data = P!None
    BY DEF P!Path, P!Results, P!Manifests, P!NoManifest
  <1>2. [P!Path EXCEPT !.rows = volume] \in P!Results
        /\ [P!Path EXCEPT !.rows = volume].manifest = P!NoManifest
        /\ [P!Path EXCEPT !.rows = volume].rows = volume
    BY <1>1 DEF EInv, WorldInv, P!Path, P!Results
  <1>3. passed[e] \in P!Results /\ Account(e)
    BY DEF EInv, ExecInv
  <1>4. ASSUME stage[e] \in P!Acting, Staged
        PROVE  OfPin(passed[e], pin[e]) /\ pin[e] = volume
    BY <1>3, <1>4 DEF Account
  <1>5. CASE P!Ingest(e)
    <2>1. P!Run(e, "ingest", P!Path) /\ OfPin(P!Path, pin[e])
      BY <1>1, <1>5 DEF P!Ingest, OfPin
    <2>. QED
      BY <1>1, <2>1, RunKeeps DEF Early
  <1>6. CASE P!Validate(e) \/ P!BuildFeatures(e)
    <2>1. PICK s \in {"validate", "features"} : P!Run(e, s, [P!Path EXCEPT !.rows = volume])
      BY <1>6 DEF P!Validate, P!BuildFeatures
    <2>2. Staged => OfPin([P!Path EXCEPT !.rows = volume], pin[e])
      BY <1>1, <1>2, <1>4, <2>1, Stages DEF P!Run, OfPin, Early
    <2>. QED
      BY <1>2, <2>1, <2>2, RunKeeps DEF Early
  <1>7. CASE P!Evaluate(e)
    <2>1. P!Run(e, "evaluate", passed[e]) /\ (Staged => OfPin(passed[e], pin[e]))
      BY <1>4, <1>7, Stages DEF P!Evaluate, P!Run
    <2>. QED
      BY <1>3, <2>1, RunKeeps DEF Early
  <1>. QED
    BY <1>5, <1>6, <1>7

(* Only a run on the full months that asks for a verdict gets one.         *)
LEMMA DecisionIsEntitled ==
    ASSUME NEW e \in Executions, input \in [Executions -> Inputs],
           ~(input[e].months = "sampled" /\ input[e].judge)
    PROVE  /\ P!DecisionOf(e) \in {"NO_VERDICT", "PROMOTE", "REFUSE"}
           /\ P!DecisionOf(e) \in {"PROMOTE", "REFUSE"} <=> P!Entitled(e)
  BY DEF P!DecisionOf, P!Entitled, Inputs

LEMMA TrainKeeps ==
    ASSUME P!PipelineAssumption, EInv, NEW e \in Executions, P!Train(e)
    PROVE  EInv'
  <1>1. /\ stage[e] = "train" /\ passed[e] \in P!Results /\ Account(e)
        /\ UNCHANGED <<P!world, cache, P!counters, P!launch>>
        /\ MaxRetries \in Nat /\ lost \in Nat
        /\ input \in [Executions -> Inputs] /\ passed \in [Executions -> P!Results]
    BY DEF P!Train, EInv, ExecInv, WorldInv, P!PipelineAssumption
  <1>2. lost' \in Nat /\ lost' >= lost /\ UNCHANGED <<P!world, P!launch>>
    BY <1>1 DEF P!counters
  <1>3. passed[e].manifest = P!NoManifest /\ stage[e] \in P!Acting
    BY <1>1, Stages DEF Account
  <1>4. CASE input[e].months = "sampled" /\ input[e].judge
    <2>1. P!Raise(e, "train") /\ ~Judgeable(e)
      BY <1>4 DEF P!Train, Judgeable
    <2>2. passed' = [passed EXCEPT ![e] = passed[e]]
      BY <1>1, <2>1 DEF P!Raise
    <2>3. Staged => OfPin(passed[e], pin[e])
      BY <1>1, <1>3 DEF Account
    <2>4. ExecInv'
      BY <1>1, <1>2, <1>3, <2>1, <2>2, <2>3, Stages, RaiseKeeps DEF P!Raise, Early
    <2>. QED
      BY <1>1, <2>4 DEF EInv, WorldInv, CacheInv, P!world, P!counters
  <1>5. CASE ~(input[e].months = "sampled" /\ input[e].judge)
    <2>. DEFINE manifest == [data |-> volume, decision |-> P!DecisionOf(e),
                             incumbent |-> alias, champion |-> P!None]
                result == [passed[e] EXCEPT !.manifest = manifest]
    <2>1. /\ passed' = [passed EXCEPT ![e].manifest = manifest]
          /\ stage' = [stage EXCEPT ![e] = "report"] /\ tries' = tries
      BY <1>5 DEF P!Train
    <2>2. manifest \in P!Manifests
      BY <1>1, <1>5, DecisionIsEntitled DEF P!Manifests, EInv, WorldInv
    <2>3. result \in P!Results /\ result.manifest = manifest
          /\ result.rows = passed[e].rows
      BY <1>1, <2>2 DEF P!Results
    <2>4. passed' = [passed EXCEPT ![e] = result]
          /\ tries' = [tries EXCEPT ![e] = tries[e]]
      BY <1>1, <2>1 DEF EInv, ExecInv
    <2>5. /\ stage'[e] = "report" /\ tries'[e] = tries[e] /\ passed'[e] = result
          /\ tries[e] \in 0 .. MaxRetries + 1 /\ "report" \in P!Resting \cup P!Acting
      BY <1>1, <2>1, <2>4, Stages DEF EInv, ExecInv
    <2>6. Judged(manifest) <=> P!Entitled(e)
      BY <1>1, <1>5, DecisionIsEntitled DEF Judged
    <2>7. Staged => OfPin(result, pin[e])
      BY <1>1, <1>3, <2>3 DEF Account, OfPin
    <2>. HIDE DEF manifest, result
    <2>8. Account(e)'
      BY <1>1, <1>2, <1>3, <2>3, <2>5, <2>6, <2>7
      DEF Account, Judgeable, P!Entitled, P!world, P!launch, P!counters, Early, Later
    <2>9. ExecInv'
      BY <1>1, <1>2, <2>1, <2>3, <2>4, <2>5, <2>8, OthersKeep
    <2>. QED
      BY <1>1, <2>9 DEF EInv, WorldInv, CacheInv, P!world, P!counters
  <1>. QED
    BY <1>4, <1>5

LEMMA ReportKeeps ==
    ASSUME P!PipelineAssumption, EInv, NEW e \in Executions, P!Report(e)
    PROVE  EInv'
  <1>1. PICK champion \in {alias, P!None} :
           LET manifest == [passed[e].manifest EXCEPT !.champion = champion]
               key == [P!Key(e, "train") EXCEPT !.declared.passed.manifest = P!NoManifest]
               result == [rows |-> P!None, manifest |-> manifest]
           IN  P!Store(key, result) /\ P!Return(e, "train", result)
    BY DEF P!Report
  <1>2. /\ stage[e] = "report" /\ UNCHANGED <<P!world, P!counters, P!launch>>
        /\ passed[e] \in P!Results /\ Account(e) /\ stage[e] \in P!Acting
        /\ "train" \in DOMAIN P!Following
    BY Stages DEF P!Report, EInv, ExecInv
  <1>. DEFINE manifest == [passed[e].manifest EXCEPT !.champion = champion]
              key == [P!Key(e, "train") EXCEPT !.declared.passed.manifest = P!NoManifest]
              result == [rows |-> P!None, manifest |-> manifest]
  <1>3. /\ manifest \in P!Manifests /\ manifest.decision = passed[e].manifest.decision
        /\ manifest.data = passed[e].manifest.data
    BY <1>2 DEF P!Results, P!Manifests, EInv, WorldInv
  <1>4. /\ key.stage = "train" /\ key.salt = pin[e]
        /\ key.declared.months = input[e].months
        /\ key.declared.judge = input[e].judge
    BY <1>2 DEF P!Key, P!Declared, EInv, ExecInv, Inputs
  <1>5. result \in P!Results /\ result.manifest = manifest /\ result.rows = P!None
    BY <1>3 DEF P!Results
  <1>6. Judged(result.manifest) <=> P!Entitled(e)
    BY <1>2, <1>3, <1>5 DEF Account, Judged
  <1>7. Staged => OfPin(result, pin[e])
    BY <1>2, <1>3, <1>5 DEF Account, OfPin
  <1>8. P!Store(key, result) /\ P!Return(e, "train", result)
    BY <1>1
  <1>. HIDE DEF manifest, key, result
  <1>9. RightAnswer(key, result)
    BY <1>4, <1>6, <1>7 DEF RightAnswer, P!Entitled, Early
  <1>10. CacheInv'
    BY <1>5, <1>8, <1>9, StoreKeeps DEF EInv
  <1>11. WorldInv' /\ ExecInv'
    BY <1>2, <1>5, <1>6, <1>7, <1>8, ReturnKeeps DEF Early
  <1>. QED
    BY <1>10, <1>11 DEF EInv

LEMMA HandOnKeeps ==
    ASSUME P!PipelineAssumption, EInv, NEW e \in Executions, P!Register(e) \/ P!Publish(e)
    PROVE  EInv'
  <1>1. PICK s \in {"register", "marts"} :
           stage[e] = s /\ P!Return(e, s, passed[e])
           /\ UNCHANGED <<P!world, cache, P!counters, P!launch>>
    BY DEF P!Register, P!Publish
  <1>2. passed[e] \in P!Results /\ Account(e) /\ stage[e] \in P!Acting /\ s \in DOMAIN P!Following
    BY <1>1, Stages DEF EInv, ExecInv
  <1>3. /\ Staged => OfPin(passed[e], pin[e])
        /\ Judged(passed[e].manifest) <=> P!Entitled(e)
    BY <1>1, <1>2 DEF Account, Later
  <1>4. WorldInv' /\ ExecInv'
    BY <1>1, <1>2, <1>3, ReturnKeeps DEF Early
  <1>. QED
    BY <1>1, <1>4 DEF EInv, CacheInv

LEMMA LoseKeeps ==
    ASSUME P!PipelineAssumption, EInv, NEW e \in Executions, P!Lose(e)
    PROVE  EInv'
  <1>1. /\ stage[e] \in P!Acting /\ lost' = lost + 1 /\ lost \in Nat
        /\ UNCHANGED <<P!world, cache, executed, changes, P!launch>>
        /\ passed[e] \in P!Results /\ Account(e) /\ passed \in [Executions -> P!Results]
    BY DEF P!Lose, EInv, WorldInv, ExecInv
  <1>2. /\ lost' \in Nat /\ lost' >= lost /\ UNCHANGED <<P!world, P!launch>>
        /\ Staged => OfPin(passed[e], pin[e])
    BY <1>1 DEF Account
  <1>3. ExecInv'
    <2>1. CASE stage[e] = "report"
      <3>. DEFINE result == [passed[e] EXCEPT !.manifest = P!NoManifest]
      <3>1. result \in P!Results /\ result.manifest = P!NoManifest
            /\ result.rows = passed[e].rows /\ P!NoManifest.data = P!None
        BY <1>1 DEF P!Results, P!Manifests, P!NoManifest
      <3>2. /\ tries' = [tries EXCEPT ![e] = tries[e] + 1]
            /\ stage' = [stage EXCEPT ![e] = IF tries[e] < MaxRetries THEN "train"
                                                                      ELSE "failed"]
            /\ passed' = [passed EXCEPT ![e] = result]
        BY <1>1, <2>1 DEF P!Lose
      <3>3. Staged => OfPin(result, pin[e])
        BY <1>2, <3>1 DEF OfPin
      <3>. HIDE DEF result
      <3>. QED
        BY <1>1, <1>2, <3>1, <3>2, <3>3, Stages, RaiseKeeps DEF Early
    <2>2. CASE stage[e] # "report"
      <3>. DEFINE s == stage[e]
      <3>1. s \in DOMAIN P!Following
        BY <1>1, <2>2, Stages DEF Early
      <3>2. /\ tries' = [tries EXCEPT ![e] = tries[e] + 1]
            /\ stage' = [stage EXCEPT ![e] = IF tries[e] < MaxRetries THEN s ELSE "failed"]
            /\ passed' = [passed EXCEPT ![e] = passed[e]]
        BY <1>1, <2>2 DEF P!Lose, P!Raise
      <3>3. /\ s \in Early \cup {"train"} => passed[e].manifest = P!NoManifest
            /\ s \notin Early \cup {"train"} => (Judged(passed[e].manifest) <=> P!Entitled(e))
        BY <1>1, <3>1, Stages DEF Account, Later, Early
      <3>. HIDE DEF s
      <3>. QED
        BY <1>1, <1>2, <3>1, <3>2, <3>3, RaiseKeeps
    <2>. QED
      BY <2>1, <2>2
  <1>. QED
    BY <1>1, <1>3 DEF EInv, WorldInv, CacheInv, P!world

LEMMA LaunchKeeps ==
    ASSUME P!PipelineAssumption, EInv, NEW e \in Executions,
           NEW selected \in {"full", "sampled"}, NEW judge \in BOOLEAN,
           P!Launch(e, selected, judge)
    PROVE  EInv'
  <1>. DEFINE asked == [months |-> selected, judge |-> judge]
  <1>1. /\ stage' = [stage EXCEPT ![e] = "ingest"] /\ tries' = [tries EXCEPT ![e] = 0]
        /\ passed' = [passed EXCEPT ![e] = P!Path] /\ pin' = [pin EXCEPT ![e] = pinned]
        /\ input' = [input EXCEPT ![e] = asked] /\ executed' = executed + 1
        /\ UNCHANGED <<P!world, cache, lost, changes>>
        /\ Staged => volume = pinned
    BY DEF P!Launch
  <1>2. asked \in Inputs /\ pinned \in DOMAIN Sizes /\ lost \in Nat
        /\ MaxRetries \in Nat
    BY DEF Inputs, EInv, WorldInv, P!PipelineAssumption
  <1>3. P!Path \in P!Results /\ P!Path.manifest = P!NoManifest /\ OfPin(P!Path, pinned)
    BY DEF P!Path, P!Results, P!Manifests, P!NoManifest, OfPin
  <1>. HIDE DEF asked
  <1>4. /\ stage' \in [Executions -> P!Resting \cup P!Acting] /\ input' \in [Executions -> Inputs]
        /\ pin' \in [Executions -> DOMAIN Sizes]
        /\ tries' \in [Executions -> 0 .. MaxRetries + 1]
        /\ passed' \in [Executions -> P!Results]
    <2>1. "ingest" \in P!Resting \cup P!Acting /\ 0 \in 0 .. MaxRetries + 1
      BY <1>2, Stages DEF Early
    <2>. QED
      BY <1>1, <1>2, <1>3, <2>1 DEF EInv, ExecInv, P!launch
  <1>5. ASSUME NEW f \in Executions
        PROVE  Account(f)'
    <2>1. CASE f = e
      <3>1. /\ stage'[f] = "ingest" /\ tries'[f] = 0 /\ passed'[f] = P!Path
            /\ pin'[f] = pinned
        BY <1>1, <2>1 DEF EInv, ExecInv
      <3>. QED
        BY <1>1, <1>2, <1>3, <3>1 DEF Account, Later, P!world
    <2>2. CASE f # e
      <3>1. /\ stage'[f] = stage[f] /\ tries'[f] = tries[f] /\ passed'[f] = passed[f]
            /\ pin'[f] = pin[f] /\ input'[f] = input[f] /\ Account(f)
        BY <1>1, <2>2 DEF EInv, ExecInv
      <3>. QED
        BY <1>1, <3>1 DEF Account, Judgeable, P!Entitled, P!world
    <2>. QED
      BY <2>1, <2>2
  <1>6. ExecInv'
    BY <1>4, <1>5 DEF ExecInv
  <1>. QED
    BY SMTT(30), <1>1, <1>6 DEF EInv, WorldInv, CacheInv, P!world

(* The data changes and is staged only while every execution rests, and    *)
(* the champion may move at any time.                                      *)
LEMMA WorldKeeps ==
    ASSUME P!PipelineAssumption, EInv,
           \/ \E g \in DOMAIN Sizes : P!MakeData(g)
           \/ \E force \in BOOLEAN : P!StageData(force)
           \/ \E v \in Champions : P!MoveAlias(v)
           \/ UNCHANGED P!vars
    PROVE  EInv'
  <1>1. /\ UNCHANGED <<cache, executed, lost, stage, P!launch, tries, passed>>
        /\ {pinned', volume'} \subseteq DOMAIN Sizes
        /\ alias' \in Champions /\ changes' \in Nat
    <2>1. CASE \E g \in DOMAIN Sizes : P!MakeData(g)
      BY SMTT(30), <2>1 DEF P!MakeData, P!Change, EInv, WorldInv
    <2>2. CASE \E force \in BOOLEAN : P!StageData(force)
      BY <2>2 DEF P!StageData, P!counters, EInv, WorldInv
    <2>3. CASE \E v \in Champions : P!MoveAlias(v)
      BY SMTT(30), <2>3 DEF P!MoveAlias, P!Change, EInv, WorldInv
    <2>4. CASE UNCHANGED P!vars
      BY <2>4 DEF P!vars, P!world, P!counters, EInv, WorldInv
    <2>. QED
      BY <2>1, <2>2, <2>3, <2>4
  <1>2. ASSUME Staged, NEW e \in Executions, stage[e] \in P!Acting
        PROVE  UNCHANGED <<pinned, volume>>
    <2>1. stage[e] \notin P!Resting /\ volume = pinned
      BY <1>2, Stages DEF P!Resting, Early, EInv, ExecInv, Account
    <2>. QED
      BY <1>2, <2>1 DEF P!MakeData, P!StageData, P!MoveAlias, P!vars, P!world
  <1>3. ASSUME NEW e \in Executions
        PROVE  Account(e)'
    BY <1>1, <1>2 DEF EInv, ExecInv, Account, Judgeable, P!Entitled, P!launch
  <1>. QED
    BY <1>1, <1>3 DEF EInv, WorldInv, CacheInv, ExecInv, P!launch

LEMMA PipelineSteps ==
    ASSUME P!PipelineAssumption, EInv, [P!Next]_(P!vars)
    PROVE  EInv'
  <1>1. ASSUME NEW e \in Executions, P!Step(e) PROVE EInv'
    BY <1>1, HitKeeps, RunSteps, TrainKeeps, ReportKeeps, HandOnKeeps DEF P!Step
  <1>. QED
    BY <1>1, WorldKeeps, LaunchKeeps, LoseKeeps DEF P!Next

LEMMA BesideSteps ==
    ASSUME BesideNext
    PROVE  P!Next
  <1>1. CASE \E g \in DOMAIN Sizes : Beside(P!MakeData(g))
    BY <1>1 DEF Beside, P!Next
  <1>2. CASE \E force \in BOOLEAN : Beside(P!StageData(force))
    BY <1>2 DEF Beside, P!Next
  <1>3. CASE \E v \in Champions : Beside(P!MoveAlias(v))
    BY <1>3 DEF Beside, P!Next
  <1>4. ASSUME NEW e \in Executions, NEW selected \in {"full", "sampled"},
               NEW judge \in BOOLEAN, P!Launch(e, selected, judge)
        PROVE  P!Next
    BY <1>4 DEF P!Next
  <1>5. ASSUME NEW e \in Executions, P!Step(e) \/ P!Lose(e)
        PROVE  P!Next
    BY <1>5 DEF P!Next
  <1>6. ASSUME NEW e \in Executions,
               \/ \E s \in P!Cached : P!Hit(e, s)
               \/ P!Ingest(e) \/ P!Validate(e) \/ P!BuildFeatures(e) \/ P!Train(e)
               \/ P!Report(e) \/ P!Evaluate(e) \/ P!Register(e) \/ P!Publish(e)
        PROVE  P!Next
    BY <1>5, <1>6 DEF P!Step
  <1>. QED
    BY <1>1, <1>2, <1>3, <1>4, <1>5, <1>6 DEF BesideNext, Beside

LEMMA PipelineInvariant == BesideSpec => []EInv
  <1>1. BesideInit => EInv
    BY InitPipeline, ConstantsAssumption DEF BesideInit
  <1>2. EInv /\ [BesideNext]_beside => EInv'
    BY BesideSteps, PipelineSteps, ConstantsAssumption DEF beside, pipeline
  <1>. QED
    BY <1>1, <1>2, PTL DEF BesideSpec

-----------------------------------------------------------------------------
(* With the data staged before a launch and left alone while one runs, an  *)
(* answer in Flyte's cache is of the data that its key pins, and an        *)
(* execution that the gate may judge fails only if pods are lost more      *)
(* often than a stage retries: a refusal is data.                          *)
THEOREM ExecutionsSound ==
    ASSUME Staged
    PROVE  BesideSpec => []ExecutionsAreSound
  <1>1. EInv => P!TypeOK
    BY DEF EInv, WorldInv, CacheInv, ExecInv, P!TypeOK, Inputs
  <1>2. EInv => P!CachedUnderItsPin
    BY DEF EInv, CacheInv, RightAnswer, OfPin, P!CachedUnderItsPin
  <1>3. EInv => P!RefusalIsData
    BY DEF EInv, ExecInv, Account, Judgeable, P!RefusalIsData
  <1>4. EInv => ExecutionsAreSound
    BY <1>1, <1>2, <1>3 DEF ExecutionsAreSound, P!ExecutionsAreSound
  <1>. QED
    BY <1>4, PipelineInvariant, PTL

(* F-008 holds through the cache, whatever happens to the data: an         *)
(* execution ends with the gate's verdict exactly if it asked for one on   *)
(* the full months, and never with the verdict of another execution that   *)
(* was not entitled to it.                                                 *)
THEOREM VerdictsEntitled == BesideSpec => []VerdictIsEntitled
  <1>1. EInv => VerdictIsEntitled
    <2>. SUFFICES ASSUME EInv, NEW e \in Executions, stage[e] \in {"marts", "done"}
                  PROVE  (passed[e].manifest.decision \in {"PROMOTE", "REFUSE"}) = P!Entitled(e)
      BY DEF VerdictIsEntitled, P!VerdictIsEntitled
    <2>1. Judged(passed[e].manifest) <=> P!Entitled(e)
      BY DEF EInv, ExecInv, Account, Later
    <2>. QED
      BY <2>1 DEF Judged, P!Entitled
  <1>. QED
    BY <1>1, PipelineInvariant, PTL
=============================================================================
