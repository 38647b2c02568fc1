-------------------------- MODULE PromotionProofs --------------------------
(***************************************************************************)
(* Proofs about Promotion, for every set of processes, runs and scores,    *)
(* every floor and gate configuration, and every bound: what it keeps,     *)
(* and, in the second part, that it implements ChampionLineage wherever    *)
(* promotions do not overlap and reads do not fail.                        *)
(***************************************************************************)
EXTENDS PromotionRefinement, SequenceTheorems, TLAPS

(* Rounding to the registry's precision yields a natural number.           *)
LEMMA RecordedNat ==
    ASSUME NEW x \in Nat
    PROVE  Recorded(x) \in Nat
  <1>1. Scale \in Nat \ {0}
    BY ScaleAssumption
  <1>2. Scale \div 2 \in Nat
    BY <1>1
  <1>3. x + (Scale \div 2) \in Nat
    BY <1>2
  <1>4. (x + (Scale \div 2)) \div Scale \in Nat
    BY <1>1, <1>3
  <1>. QED
    BY <1>1, <1>4 DEF Recorded

(* A run's measurements are pairs of naturals.                             *)
LEMMA ScoreNat ==
    ASSUME TypeOK, NEW r \in Runs
    PROVE  /\ score[r] \in Scores
           /\ score[r].mae \in Nat /\ score[r].within \in Nat
           /\ Recorded(score[r].mae) \in Nat /\ Recorded(score[r].mae) # NoTag
           /\ Recorded(score[r].within) \in Nat
  <1>1. score[r] \in Scores
    BY DEF TypeOK
  <1>2. score[r] \in [mae : Nat, within : Nat]
    BY <1>1, PromotionAssumption
  <1>3. score[r].mae \in Nat /\ score[r].within \in Nat
    BY <1>2
  <1>. QED
    BY <1>1, <1>3, RecordedNat DEF NoTag

(* The verdict PROMOTE implies both floor conditions, with or without an   *)
(* incumbent: the incumbent's conditions are added, never substituted.     *)
LEMMA PromoteClears ==
    ASSUME NEW r, NEW v, Verdict(r, v) = "PROMOTE"
    PROVE  Cleared(r)
  <1>. DEFINE ch == Metrics(r, score[r])
              fl == Metrics(GateCfg.floor, Floor)
              inc == IncumbentAt(v)
  <1>1. Decide(ch, fl, GateCfg, inc) = "PROMOTE"
    BY DEF Verdict
  <1>2. Passed(ch, fl, GateCfg, inc)
    BY <1>1 DEF Decide
  <1>3. ClearsFloor(ch, fl, GateCfg) /\ KeepsFloorRate(ch, fl, GateCfg)
    BY <1>2 DEF Passed
  <1>4. /\ ch.mae = score[r].mae /\ ch.within = score[r].within
        /\ fl.mae = Floor.mae /\ fl.within = Floor.within
    BY DEF Metrics
  <1>. QED
    BY <1>3, <1>4 DEF Cleared, ClearsFloor, KeepsFloorRate

(* Writing one version's tags leaves the other versions as they are.       *)
LEMMA TagVersion ==
    ASSUME TypeOK, NEW i \in DOMAIN versions, NEW rec \in Version,
           versions' = [versions EXCEPT ![i] = rec]
    PROVE  /\ versions' \in Seq(Version)
           /\ DOMAIN versions' = DOMAIN versions
           /\ \A j \in DOMAIN versions :
                 versions'[j] = IF j = i THEN rec ELSE versions[j]
  <1>1. versions \in Seq(Version) /\ i \in 1 .. Len(versions)
    BY DEF TypeOK
  <1>. QED
    BY <1>1, ExceptSeq

(* A new version goes after those that exist and leaves them as they are.  *)
LEMMA MintVersion ==
    ASSUME TypeOK, NEW rec \in Version, versions' = Append(versions, rec)
    PROVE  /\ versions' \in Seq(Version)
           /\ DOMAIN versions' = DOMAIN versions \cup {Len(versions) + 1}
           /\ Len(versions) + 1 \notin DOMAIN versions
           /\ \A j \in DOMAIN versions : versions'[j] = versions[j]
           /\ versions'[Len(versions) + 1] = rec
  <1>1. versions \in Seq(Version) /\ Len(versions) \in Nat
    BY DEF TypeOK
  <1>. QED
    BY <1>1, AppendProperties

-----------------------------------------------------------------------------
(* The initial states: an empty registry, or one that holds the champion   *)
(* promoted before KPI-10 was tagged.                                      *)
LEMMA InitIInv == Init => IInv
  <1>. SUFFICES ASSUME Init PROVE IInv
    OBVIOUS
  <1>1. PICK r0 \in Runs : TRUE
    BY PromotionAssumption
  <1>2. versions \in Seq(Version) /\ VersionInv /\ PointerInv /\ alias \in Nat
    <2>1. CASE versions = <<>> /\ alias = NoVersion
      BY <2>1 DEF Init, VersionInv, PointerInv, NoVersion
    <2>2. CASE \E r \in Runs :
                 /\ artifact[r] = "whole"
                 /\ versions = <<Legacy(r)>>
                 /\ alias = 1
                 /\ Passed(Metrics(r, score[r]), Metrics(GateCfg.floor, Floor),
                           GateCfg, NoIncumbent)
      <3>1. PICK r \in Runs :
               /\ artifact[r] = "whole"
               /\ versions = <<Legacy(r)>>
               /\ alias = 1
               /\ Passed(Metrics(r, score[r]), Metrics(GateCfg.floor, Floor),
                         GateCfg, NoIncumbent)
        BY <2>2
      <3>2. score[r] \in [mae : Nat, within : Nat]
        BY PromotionAssumption DEF Init
      <3>3. Recorded(score[r].mae) \in Nat
        BY <3>2, RecordedNat
      <3>4. Legacy(r) \in Version
        BY <3>3 DEF Legacy, Version, NoTag, NoVersion
      <3>5. /\ DOMAIN versions = {1} /\ versions[1] = Legacy(r)
            /\ versions \in Seq(Version)
        BY <3>1, <3>4
      <3>6. Cleared(r)
        BY <3>1 DEF Passed, Cleared, ClearsFloor, KeepsFloorRate, Metrics
      <3>7. VersionInv
        BY <3>1, <3>3, <3>5, <3>6 DEF VersionInv, Defensible, TellsTheTruth, Legacy, NoTag
      <3>8. PointerInv
        BY <3>1, <3>5 DEF Init, PointerInv, Legacy
      <3>. QED
        BY <3>1, <3>5, <3>7, <3>8
    <2>. QED
      BY <2>1, <2>2 DEF Init
  <1>3. TypeOK
    <2>1. (CHOOSE r \in Runs : TRUE) \in Runs
      BY <1>1
    <2>2. run \in [Procs -> Runs]
      BY <2>1 DEF Init
    <2>. QED
      BY <1>2, <2>2 DEF Init, TypeOK, Resting, NoVersion
  <1>4. ProcessInv /\ AckInv
    BY DEF Init, ProcessInv, Established, AckInv, Exclusive, Promoting, Acting,
           Resting, Tagging
  <1>. QED
    BY <1>2, <1>3, <1>4 DEF IInv

-----------------------------------------------------------------------------
(* Steps that leave the versions alone leave what is known of them.        *)
LEMMA VersionInvKept ==
    ASSUME VersionInv, UNCHANGED <<score, artifact, versions>>
    PROVE  VersionInv'
  BY DEF VersionInv, Defensible, TellsTheTruth, Cleared, ClearsFloor,
         KeepsFloorRate

(* What holds of the other processes still does after a step of process p  *)
(* that leaves runs, artifacts and the versions they work on as they were. *)
LEMMA LocalStep ==
    ASSUME IInv, NEW p \in Procs,
           NEW label \in Resting \cup Acting, Goto(p, label),
           UNCHANGED <<score, artifact, versions, alias, operator, launches>>,
           modelExists' \in BOOLEAN,
           run' \in [Procs -> Runs],
           incumbent' \in [Procs -> Nat],
           version' \in [Procs -> Nat],
           \A q \in Procs \ {p} : /\ run'[q] = run[q]
                                  /\ incumbent'[q] = incumbent[q]
                                  /\ version'[q] = version[q],
           Established(p)',
           Alone /\ ~FaultyReads => Exclusive(p)'
    PROVE  IInv'
  <1>1. TypeOK'
    BY DEF IInv, TypeOK, Goto, operator
  <1>2. VersionInv'
    BY VersionInvKept DEF IInv
  <1>3. \A q \in Procs \ {p} : pc'[q] = pc[q]
    BY DEF IInv, TypeOK, Goto
  <1>4. ProcessInv'
    <2>1. SUFFICES ASSUME NEW q \in Procs \ {p} PROVE Established(q)'
      BY DEF ProcessInv
    <2>2. Established(q)
      BY DEF IInv, ProcessInv
    <2>3. Cleared(run[q])' <=> Cleared(run[q])
      BY DEF Cleared, ClearsFloor, KeepsFloorRate
    <2>. QED
      BY <1>3, <2>2, <2>3 DEF Established
  <1>5. PointerInv'
    BY DEF IInv, PointerInv, operator
  <1>6. AckInv'
    <2>1. SUFFICES ASSUME Alone, ~FaultyReads, NEW q \in Procs \ {p},
                          pc'[q] \in Promoting
                   PROVE  Exclusive(q)'
      BY DEF AckInv, Exclusive
    <2>2. Exclusive(q) /\ pc[q] \in Promoting
      BY <1>3, <2>1 DEF IInv, AckInv
    <2>3. pc'[p] \notin Promoting
      BY <2>1 DEF Exclusive
    <2>. QED
      BY <1>3, <2>2, <2>3 DEF Exclusive
  <1>. QED
    BY <1>1, <1>2, <1>4, <1>5, <1>6 DEF IInv

(* A process between launch and the check of the incumbent, or at rest,    *)
(* has established nothing about the registry.                             *)
LEMMA OutsideStep ==
    ASSUME TypeOK', NEW p \in Procs, pc'[p] \in Resting \cup {"judge"}
    PROVE  Established(p)' /\ Exclusive(p)'
  BY DEF Established, Exclusive, Promoting, Acting, Resting, Tagging

(* A tag written on the version a process works on, with its run's value   *)
(* and no tag taken back, keeps the invariant.                             *)
LEMMA TagStep ==
    ASSUME IInv, NEW p \in Procs,
           NEW from \in Tagging, NEW to \in Tagging, NEW rec,
           SetTag(p, from, to, rec),
           rec \in Version,
           rec.run = run[p],
           rec.mae = versions[version[p]].mae
              \/ rec.mae = Recorded(score[run[p]].mae),
           rec.within = versions[version[p]].within
              \/ rec.within = Recorded(score[run[p]].within),
           versions[version[p]].features => rec.features,
           rec.features => rec.mae # NoTag,
           to \in Tagging \ {"tag_mae"} => rec.mae # NoTag,
           to \in {"reread", "move"} => rec.features
    PROVE  IInv'
  <1>. DEFINE i == version[p]
  <1>1. /\ Established(p) /\ TypeOK /\ pc[p] = from
        /\ Tagging \subseteq Promoting \ {"servable"}
        /\ Promoting \subseteq Acting
    BY DEF IInv, ProcessInv, SetTag, Tagging, Promoting, Acting
  <1>2. i \in DOMAIN versions /\ versions[i].run = run[p]
    BY <1>1 DEF Established
  <1>3. versions' = [versions EXCEPT ![i] = rec]
    BY DEF SetTag
  <1>4. /\ versions' \in Seq(Version)
        /\ DOMAIN versions' = DOMAIN versions
        /\ \A j \in DOMAIN versions :
              versions'[j] = IF j = i THEN rec ELSE versions[j]
    BY <1>1, <1>2, <1>3, TagVersion
  <1>5. TypeOK'
    BY <1>1, <1>4 DEF TypeOK, SetTag, Goto, operator, local
  <1>6. \A r : Cleared(r)' <=> Cleared(r)
    BY DEF SetTag, Cleared, ClearsFloor, KeepsFloorRate
  <1>7. VersionInv'
    <2>1. SUFFICES ASSUME NEW j \in DOMAIN versions PROVE Defensible(j)'
      BY <1>4 DEF VersionInv
    <2>2. Defensible(j)
      BY DEF IInv, VersionInv
    <2>3. versions'[j].run = versions[j].run
      BY <1>2, <1>4
    <2>4. TellsTheTruth(j)'
      <3>1. CASE j = i
        BY <1>2, <1>4, <2>2, <3>1 DEF Defensible, TellsTheTruth, SetTag
      <3>2. CASE j # i
        BY <1>4, <2>2, <3>2 DEF Defensible, TellsTheTruth, SetTag
      <3>. QED
        BY <3>1, <3>2
    <2>5. versions'[j].features => versions'[j].mae # NoTag
      BY <1>4, <2>2 DEF Defensible
    <2>6. Cleared(versions[j].run)'
      BY <2>2, <2>3 DEF Defensible, SetTag, Cleared, ClearsFloor, KeepsFloorRate
    <2>. QED
      BY <2>2, <2>3, <2>4, <2>5, <2>6 DEF Defensible, SetTag
  <1>8. \A j \in DOMAIN versions :
            /\ versions'[j].run = versions[j].run
            /\ versions[j].mae # NoTag => versions'[j].mae # NoTag
            /\ versions[j].features => versions'[j].features
    <2>1. Recorded(score[run[p]].mae) # NoTag
      BY <1>1, ScoreNat DEF TypeOK
    <2>. QED
      BY <1>2, <1>4, <2>1
  <1>9. ProcessInv'
    <2>1. SUFFICES ASSUME NEW q \in Procs PROVE Established(q)'
      BY DEF ProcessInv
    <2>2. Established(q)
      BY DEF IInv, ProcessInv
    <2>3. CASE q # p
      <3>1. pc'[q] = pc[q] /\ run'[q] = run[q] /\ version'[q] = version[q]
        BY <1>1, <2>3 DEF SetTag, Goto, local, TypeOK
      <3>2. artifact' = artifact
        BY DEF SetTag
      <3>. QED
        BY <1>4, <1>6, <1>8, <2>2, <3>1, <3>2 DEF Established, Tagging
    <2>4. CASE q = p
      <3>1. pc'[p] = to /\ run'[p] = run[p] /\ version'[p] = i
        BY <1>1 DEF SetTag, Goto, local, TypeOK
      <3>2. artifact' = artifact
        BY DEF SetTag
      <3>3. versions'[i] = rec
        BY <1>2, <1>4
      <3>4. Cleared(run[p]) /\ artifact[run[p]] = "whole"
        BY <1>1 DEF Established
      <3>. QED
        BY <1>2, <1>4, <1>6, <2>4, <3>1, <3>2, <3>3, <3>4 DEF Established
    <2>. QED
      BY <2>3, <2>4
  <1>10. PointerInv'
    BY <1>4, <1>8 DEF IInv, PointerInv, SetTag, operator
  <1>11. AckInv'
    <2>1. \A q \in Procs : pc'[q] \in Promoting <=> pc[q] \in Promoting
      BY <1>1 DEF SetTag, Goto, TypeOK
    <2>. QED
      BY <2>1 DEF IInv, AckInv, Exclusive, SetTag, local
  <1>. QED
    BY <1>5, <1>7, <1>9, <1>10, <1>11 DEF IInv

(* Where p is inside promote(), or about to enter it, after a step that    *)
(* leaves the registry's versions and the alias alone: it keeps what it    *)
(* had, if it was there before.                                            *)
LEMMA InsideStep ==
    ASSUME IInv, NEW p \in Procs, NEW label \in Promoting \ Tagging,
           pc[p] \in Promoting, Goto(p, label),
           UNCHANGED <<score, artifact, registry, run, incumbent>>,
           label # "servable" => artifact[run[p]] = "whole"
    PROVE  Established(p)' /\ (Alone /\ ~FaultyReads => Exclusive(p)')
  <1>1. Established(p) /\ TypeOK /\ pc'[p] = label
    BY DEF IInv, ProcessInv, TypeOK, Goto
  <1>2. Cleared(run[p])'
    BY <1>1 DEF Established, Cleared, ClearsFloor, KeepsFloorRate
  <1>3. Established(p)'
    BY <1>1, <1>2 DEF Established, Tagging, registry
  <1>4. ASSUME Alone, ~FaultyReads PROVE Exclusive(p)'
    <2>1. Exclusive(p)
      BY <1>4 DEF IInv, AckInv
    <2>. QED
      BY <1>1, <2>1 DEF Exclusive, Goto, TypeOK, registry
  <1>. QED
    BY <1>3, <1>4

(* The inductive step, one action at a time.                               *)
LEMMA StepIInv == IInv /\ [Next]_vars => IInv'
  <1>. SUFFICES ASSUME IInv, [Next]_vars PROVE IInv'
    OBVIOUS
  <1>. USE DEF operator, registry, local
  <1>0. TypeOK /\ VersionInv /\ ProcessInv /\ PointerInv /\ AckInv
    BY DEF IInv
  <1>1. ASSUME NEW p \in Procs, NEW r \in Runs, Launch(p, r) PROVE IInv'
    <2>1. TypeOK'
      BY <1>0, <1>1 DEF Launch, TypeOK, Goto, Acting, NoVersion
    <2>2. Established(p)' /\ Exclusive(p)'
      BY <1>0, <1>1, <2>1, OutsideStep DEF Launch, Goto, TypeOK
    <2>3. \A q \in Procs \ {p} :
             /\ pc'[q] = pc[q] /\ run'[q] = run[q]
             /\ incumbent'[q] = incumbent[q] /\ version'[q] = version[q]
      BY <1>0, <1>1 DEF Launch, Goto, TypeOK
    <2>4. VersionInv' /\ PointerInv'
      BY <1>0, <1>1, VersionInvKept DEF Launch, PointerInv
    <2>5. ProcessInv'
      <3>1. SUFFICES ASSUME NEW q \in Procs \ {p} PROVE Established(q)'
        BY <2>2 DEF ProcessInv
      <3>2. Cleared(run[q])' <=> Cleared(run[q])
        BY <1>1, <2>3 DEF Launch, Cleared, ClearsFloor, KeepsFloorRate
      <3>. QED
        BY <1>0, <1>1, <2>3, <3>2 DEF Launch, ProcessInv, Established
    <2>6. AckInv'
      <3>1. pc'[p] \notin Promoting
        BY <1>0, <1>1 DEF Launch, Goto, TypeOK, Promoting
      <3>. QED
        BY <1>0, <1>1, <2>3, <3>1 DEF Launch, AckInv, Exclusive
    <2>. QED
      BY <2>1, <2>4, <2>5, <2>6 DEF IInv
  <1>2. ASSUME NEW p \in Procs, Judge(p) PROVE IInv'
    <2>1. PICK label \in {"ack", "refused", "errored"}, seen \in AliasReads :
             /\ Goto(p, label)
             /\ incumbent' = [incumbent EXCEPT ![p] = seen]
             /\ label = "ack" => Verdict(run[p], seen) = "PROMOTE"
      BY <1>2 DEF Judge, VerdictBefore
    <2>2. label \in Resting \cup Acting /\ label \notin Promoting
      BY DEF Resting, Acting, Promoting
    <2>3. seen \in Nat
      BY <1>0, <2>1 DEF AliasReads, TypeOK, NoVersion
    <2>4. pc'[p] = label
      BY <1>0, <2>1 DEF Goto, TypeOK
    <2>5. label = "ack" => Cleared(run[p])
      BY <2>1, PromoteClears
    <2>6. label = "ack" => Cleared(run[p])'
      BY <1>2, <2>5 DEF Judge, Cleared, ClearsFloor, KeepsFloorRate
    <2>7. Established(p)'
      BY <2>1, <2>2, <2>4, <2>6 DEF Established, Tagging, Promoting, Acting
    <2>8. Exclusive(p)'
      BY <2>2, <2>4 DEF Exclusive
    <2>. QED
      BY <1>0, <1>2, <2>1, <2>2, <2>3, <2>7, <2>8, LocalStep DEF Judge, TypeOK
  <1>3. ASSUME NEW p \in Procs, ReportOnly(p) \/ Crash(p) PROVE IInv'
    <2>1. PICK label \in {"skipped", "crashed"} : Goto(p, label)
      BY <1>3 DEF ReportOnly, Crash
    <2>2. label \in Resting
      BY DEF Resting
    <2>3. TypeOK' /\ pc'[p] = label
      BY <1>0, <1>3, <2>1, <2>2 DEF ReportOnly, Crash, TypeOK, Goto
    <2>4. Established(p)' /\ Exclusive(p)'
      BY <2>2, <2>3, OutsideStep
    <2>. QED
      BY <1>0, <1>3, <2>1, <2>2, <2>4, LocalStep DEF ReportOnly, Crash, TypeOK
  <1>4. ASSUME NEW p \in Procs, Ack(p) PROVE IInv'
    <2>1. PICK live \in AliasReads :
             Goto(p, IF artifact[run[p]] # "none" /\ live = incumbent[p]
                     THEN "servable" ELSE "refused")
      BY <1>4 DEF Ack
    <2>2. CASE artifact[run[p]] # "none" /\ live = incumbent[p]
      <3>1. Goto(p, "servable") /\ pc'[p] = "servable"
        BY <1>0, <2>1, <2>2 DEF Goto, TypeOK
      <3>2. Cleared(run[p])
        BY <1>0, <1>4 DEF Ack, ProcessInv, Established
      <3>3. Cleared(run[p])'
        BY <1>4, <3>2 DEF Ack, Cleared, ClearsFloor, KeepsFloorRate
      <3>4. Established(p)'
        BY <3>1, <3>3 DEF Established, Tagging
      <3>5. ASSUME Alone, ~FaultyReads PROVE Exclusive(p)'
        <4>1. live = alias
          BY <3>5 DEF AliasReads
        <4>2. \A q \in Procs : pc[q] \notin Promoting
          BY <1>4, <3>5 DEF Ack, MayTouchAlias
        <4>. QED
          BY <1>0, <1>4, <2>2, <3>1, <4>1, <4>2 DEF Ack, Exclusive, Goto, TypeOK
      <3>6. "servable" \in Acting
        BY DEF Acting
      <3>. QED
        BY <1>0, <1>4, <3>1, <3>4, <3>5, <3>6, LocalStep DEF Ack, TypeOK
    <2>3. CASE ~(artifact[run[p]] # "none" /\ live = incumbent[p])
      <3>1. Goto(p, "refused") /\ pc'[p] = "refused" /\ "refused" \in Resting
        BY <1>0, <2>1, <2>3 DEF Goto, TypeOK, Resting
      <3>2. TypeOK'
        BY <1>0, <1>4, <3>1 DEF Ack, TypeOK, Goto
      <3>3. Established(p)' /\ Exclusive(p)'
        BY <3>1, <3>2, OutsideStep
      <3>. QED
        BY <1>0, <1>4, <3>1, <3>3, LocalStep DEF Ack, TypeOK
    <2>. QED
      BY <2>2, <2>3
  <1>5. ASSUME NEW p \in Procs, AssertServable(p) PROVE IInv'
    <2>1. pc[p] \in Promoting
      BY <1>5 DEF AssertServable, Promoting, Acting
    <2>2. CASE artifact[run[p]] = "whole"
      <3>1. Goto(p, "ensure") /\ "ensure" \in Promoting \ Tagging /\ "ensure" \in Acting
        BY <1>5, <2>2 DEF AssertServable, Promoting, Acting, Tagging
      <3>2. Established(p)' /\ (Alone /\ ~FaultyReads => Exclusive(p)')
        BY <1>5, <2>1, <2>2, <3>1, InsideStep DEF AssertServable
      <3>. QED
        BY <1>0, <1>5, <3>1, <3>2, LocalStep DEF AssertServable, TypeOK
    <2>3. CASE artifact[run[p]] # "whole"
      <3>1. Goto(p, "refused") /\ "refused" \in Resting
        BY <1>5, <2>3 DEF AssertServable, Resting
      <3>2. TypeOK' /\ pc'[p] = "refused"
        BY <1>0, <1>5, <3>1 DEF AssertServable, TypeOK, Goto
      <3>3. Established(p)' /\ Exclusive(p)'
        BY <3>1, <3>2, OutsideStep
      <3>. QED
        BY <1>0, <1>5, <3>1, <3>3, LocalStep DEF AssertServable, TypeOK
    <2>. QED
      BY <2>2, <2>3
  <1>6. ASSUME NEW p \in Procs, GetModel(p) PROVE IInv'
    <2>1. pc[p] \in Promoting \ {"servable"}
      BY <1>6 DEF GetModel, Promoting, Acting
    <2>2. PICK label \in {"search", "create"} : Goto(p, label)
      BY <1>6 DEF GetModel
    <2>3. label \in Promoting \ Tagging /\ label \in Acting
      BY DEF Promoting, Acting, Tagging
    <2>4. artifact[run[p]] = "whole"
      BY <1>0, <2>1 DEF ProcessInv, Established
    <2>5. Established(p)' /\ (Alone /\ ~FaultyReads => Exclusive(p)')
      BY <1>6, <2>1, <2>2, <2>3, <2>4, InsideStep DEF GetModel
    <2>. QED
      BY <1>0, <1>6, <2>2, <2>3, <2>5, LocalStep DEF GetModel, TypeOK
  <1>7. ASSUME NEW p \in Procs, CreateModel(p) PROVE IInv'
    <2>1. PICK label \in {"errored", "search"} : Goto(p, label)
      BY <1>7 DEF CreateModel
    <2>2. TypeOK' /\ pc'[p] = label
      BY <1>0, <1>7, <2>1 DEF CreateModel, TypeOK, Goto, Resting, Acting
    <2>3. Established(p) /\ pc[p] = "create"
      BY <1>0, <1>7 DEF CreateModel, ProcessInv
    <2>4. Cleared(run[p])'
      BY <1>7, <2>3 DEF CreateModel, Established, Promoting, Acting, Cleared,
         ClearsFloor, KeepsFloorRate
    <2>5. Established(p)'
      BY <1>7, <2>2, <2>3, <2>4
         DEF CreateModel, Established, Promoting, Acting, Tagging
    <2>6. ASSUME Alone, ~FaultyReads PROVE Exclusive(p)'
      <3>1. Exclusive(p)
        BY <1>0, <2>6 DEF AckInv
      <3>. QED
        BY <1>0, <1>7, <2>2, <2>3, <3>1
           DEF CreateModel, Exclusive, Goto, TypeOK, Promoting, Acting
    <2>7. label \in Resting \cup Acting
      BY DEF Resting, Acting
    <2>. QED
      BY <1>0, <1>7, <2>1, <2>5, <2>6, <2>7, LocalStep DEF CreateModel, TypeOK
  <1>8. ASSUME NEW p \in Procs, Search(p) PROVE IInv'
    <2>1. Established(p) /\ pc[p] = "search"
      BY <1>0, <1>8 DEF Search, ProcessInv
    <2>2. Cleared(run[p])' /\ artifact[run[p]] = "whole"
      BY <1>8, <2>1 DEF Search, Established, Promoting, Acting, Cleared,
         ClearsFloor, KeepsFloorRate
    <2>3. ASSUME Alone, ~FaultyReads,
                 pc' = [pc EXCEPT ![p] = "mint"] \/ pc' = [pc EXCEPT ![p] = "tag_mae"]
          PROVE  Exclusive(p)'
      <3>1. Exclusive(p)
        BY <1>0, <2>3 DEF AckInv
      <3>. QED
        BY <1>0, <1>8, <2>1, <2>3, <3>1
           DEF Search, Exclusive, TypeOK, Promoting, Acting
    <2>4. CASE VersionsOf(run[p]) = {} /\ Goto(p, "mint") /\ UNCHANGED version
      <3>1. pc'[p] = "mint" /\ "mint" \in Acting
        BY <1>0, <2>4 DEF Goto, TypeOK, Acting
      <3>2. Established(p)'
        BY <1>8, <2>2, <3>1 DEF Search, Established, Tagging
      <3>. QED
        BY <1>0, <1>8, <2>3, <2>4, <3>1, <3>2, LocalStep DEF Search, TypeOK, Goto
    <2>5. ASSUME NEW v \in VersionsOf(run[p]),
                 version' = [version EXCEPT ![p] = v], Goto(p, "tag_mae")
          PROVE  IInv'
      <3>1. pc'[p] = "tag_mae" /\ version'[p] = v /\ "tag_mae" \in Acting
        BY <1>0, <2>5 DEF Goto, TypeOK, Acting
      <3>2. v \in DOMAIN versions /\ versions[v].run = run[p] /\ v \in Nat
        BY <1>0 DEF VersionsOf, TypeOK
      <3>3. Established(p)'
        BY <1>8, <2>2, <3>1, <3>2 DEF Search, Established, Tagging
      <3>. QED
        BY <1>0, <1>8, <2>3, <2>5, <3>1, <3>2, <3>3, LocalStep
           DEF Search, TypeOK, Goto
    <2>. QED
      BY <1>8, <2>4, <2>5 DEF Search
  <1>9. ASSUME NEW p \in Procs, Mint(p) PROVE IInv'
    <2>. DEFINE n == Len(versions) + 1
    <2>1. Established(p) /\ pc[p] = "mint"
      BY <1>0, <1>9 DEF Mint, ProcessInv
    <2>2. Cleared(run[p]) /\ artifact[run[p]] = "whole"
      BY <2>1 DEF Established, Promoting, Acting
    <2>3. Fresh(run[p]) \in Version
      BY <1>0 DEF Fresh, Version, TypeOK, NoTag
    <2>4. /\ versions' \in Seq(Version)
          /\ DOMAIN versions' = DOMAIN versions \cup {n}
          /\ n \notin DOMAIN versions /\ n \in Nat
          /\ \A j \in DOMAIN versions : versions'[j] = versions[j]
          /\ versions'[n] = Fresh(run[p])
      BY <1>0, <1>9, <2>3, MintVersion DEF Mint, TypeOK
    <2>5. TypeOK'
      BY <1>0, <1>9, <2>4 DEF Mint, TypeOK, Goto, Acting
    <2>6. \A r : Cleared(r)' <=> Cleared(r)
      BY <1>9 DEF Mint, Cleared, ClearsFloor, KeepsFloorRate
    <2>7. VersionInv'
      <3>1. SUFFICES ASSUME NEW j \in DOMAIN versions' PROVE Defensible(j)'
        BY DEF VersionInv
      <3>2. CASE j = n
        <4>1. Cleared(versions[j].run)'
          BY <1>9, <2>2, <2>4, <3>2
             DEF Mint, Fresh, Cleared, ClearsFloor, KeepsFloorRate
        <4>. QED
          BY <1>9, <2>2, <2>4, <3>2, <4>1
             DEF Mint, Defensible, TellsTheTruth, Fresh
      <3>3. CASE j # n
        <4>1. j \in DOMAIN versions /\ Defensible(j)
          BY <1>0, <2>4, <3>1, <3>3 DEF VersionInv
        <4>2. Cleared(versions[j].run)'
          BY <1>9, <2>4, <4>1
             DEF Mint, Defensible, Cleared, ClearsFloor, KeepsFloorRate
        <4>. QED
          BY <1>9, <2>4, <4>1, <4>2 DEF Mint, Defensible, TellsTheTruth
      <3>. QED
        BY <3>2, <3>3
    <2>8. pc'[p] = "tag_mae" /\ version'[p] = n
      BY <1>0, <1>9 DEF Mint, Goto, TypeOK
    <2>9. ProcessInv'
      <3>1. SUFFICES ASSUME NEW q \in Procs PROVE Established(q)'
        BY DEF ProcessInv
      <3>2. CASE q = p
        BY <1>9, <2>2, <2>4, <2>6, <2>8, <3>2 DEF Mint, Established, Tagging, Fresh
      <3>3. CASE q # p
        <4>1. pc'[q] = pc[q] /\ version'[q] = version[q] /\ Established(q)
          BY <1>0, <1>9, <3>3 DEF Mint, Goto, TypeOK, ProcessInv
        <4>. QED
          BY <1>9, <2>4, <2>6, <4>1 DEF Mint, Established, Tagging
      <3>. QED
        BY <3>2, <3>3
    <2>10. PointerInv'
      BY <1>0, <1>9, <2>4 DEF Mint, PointerInv
    <2>11. AckInv'
      <3>1. \A q \in Procs : pc'[q] \in Promoting <=> pc[q] \in Promoting
        BY <1>0, <1>9, <2>1 DEF Mint, Goto, TypeOK, Promoting, Acting
      <3>. QED
        BY <1>0, <1>9, <3>1 DEF Mint, AckInv, Exclusive
    <2>. QED
      BY <2>5, <2>7, <2>9, <2>10, <2>11 DEF IInv
  <1>10. ASSUME NEW p \in Procs,
                TagMae(p) \/ TagWithin(p) \/ TagIncumbent(p) \/ TagFeatures(p)
         PROVE  IInv'
    <2>1. pc[p] \in Tagging /\ Established(p)
      BY <1>0, <1>10
         DEF TagMae, TagWithin, TagIncumbent, TagFeatures, SetTag, Tagging, ProcessInv
    <2>2. /\ version[p] \in DOMAIN versions
          /\ versions[version[p]].run = run[p]
          /\ versions[version[p]] \in Version
          /\ Defensible(version[p])
      BY <1>0, <2>1, ElementOfSeq DEF Established, VersionInv, TypeOK
    <2>3. /\ run[p] \in Runs /\ incumbent[p] \in Nat
          /\ Recorded(score[run[p]].mae) \in Nat
          /\ Recorded(score[run[p]].mae) # NoTag
          /\ Recorded(score[run[p]].within) \in Nat
      BY <1>0, ScoreNat DEF TypeOK
    <2>4. /\ "tag_mae" \in Tagging /\ "tag_within" \in Tagging
          /\ "tag_incumbent" \in Tagging /\ "tag_features" \in Tagging
          /\ "reread" \in Tagging
      BY DEF Tagging
    <2>. DEFINE old == versions[version[p]]
    <2>5. CASE TagMae(p)
      <3>. DEFINE rec == [old EXCEPT !.mae = Recorded(score[run[p]].mae)]
      <3>1. /\ rec \in Version /\ rec.run = old.run
            /\ rec.mae = Recorded(score[run[p]].mae)
            /\ rec.within = old.within /\ rec.features = old.features
        BY <2>2, <2>3 DEF Version
      <3>2. SetTag(p, "tag_mae", "tag_within", rec)
        BY <2>5 DEF TagMae
      <3>. HIDE DEF rec
      <3>. QED
        BY <2>2, <2>3, <2>4, <3>1, <3>2, TagStep
    <2>6. CASE TagWithin(p)
      <3>. DEFINE rec == [old EXCEPT !.within = Recorded(score[run[p]].within)]
      <3>1. /\ rec \in Version /\ rec.run = old.run /\ rec.mae = old.mae
            /\ rec.within = Recorded(score[run[p]].within)
            /\ rec.features = old.features
        BY <2>2, <2>3 DEF Version
      <3>2. SetTag(p, "tag_within", "tag_incumbent", rec) /\ pc[p] = "tag_within"
        BY <2>6 DEF TagWithin, SetTag
      <3>3. rec.mae # NoTag
        BY <2>1, <3>1, <3>2 DEF Established, Tagging
      <3>. HIDE DEF rec
      <3>. QED
        BY <2>2, <2>3, <2>4, <3>1, <3>2, <3>3, TagStep
    <2>7. CASE TagIncumbent(p)
      <3>. DEFINE rec == [old EXCEPT !.judged = incumbent[p]]
      <3>1. /\ rec \in Version /\ rec.run = old.run /\ rec.mae = old.mae
            /\ rec.within = old.within /\ rec.features = old.features
        BY <2>2, <2>3 DEF Version
      <3>2. /\ SetTag(p, "tag_incumbent", "tag_features", rec)
            /\ pc[p] = "tag_incumbent"
        BY <2>7 DEF TagIncumbent, SetTag
      <3>3. rec.mae # NoTag
        BY <2>1, <3>1, <3>2 DEF Established, Tagging
      <3>. HIDE DEF rec
      <3>. QED
        BY <2>2, <2>3, <2>4, <3>1, <3>2, <3>3, TagStep
    <2>8. CASE TagFeatures(p)
      <3>. DEFINE rec == [old EXCEPT !.features = TRUE]
      <3>1. /\ rec \in Version /\ rec.run = old.run /\ rec.mae = old.mae
            /\ rec.within = old.within /\ rec.features
        BY <2>2, <2>3 DEF Version
      <3>2. SetTag(p, "tag_features", "reread", rec) /\ pc[p] = "tag_features"
        BY <2>8 DEF TagFeatures, SetTag
      <3>3. rec.mae # NoTag
        BY <2>1, <3>1, <3>2 DEF Established, Tagging
      <3>. HIDE DEF rec
      <3>. QED
        BY <2>2, <2>3, <2>4, <3>1, <3>2, <3>3, TagStep
    <2>. QED
      BY <1>10, <2>5, <2>6, <2>7, <2>8
  <1>11. ASSUME NEW p \in Procs, Reread(p) PROVE IInv'
    <2>1. Established(p) /\ pc[p] = "reread"
      BY <1>0, <1>11 DEF Reread, ProcessInv
    <2>2. PICK label \in {"done", "move"} : Goto(p, label)
      BY <1>11 DEF Reread
    <2>3. label \in Resting \cup Acting
      BY DEF Resting, Acting
    <2>4. TypeOK' /\ pc'[p] = label
      BY <1>0, <1>11, <2>2, <2>3 DEF Reread, TypeOK, Goto
    <2>5. CASE label = "done"
      <3>1. Established(p)' /\ Exclusive(p)'
        BY <2>4, <2>5, OutsideStep DEF Resting
      <3>. QED
        BY <1>0, <1>11, <2>2, <2>3, <3>1, LocalStep DEF Reread, TypeOK
    <2>6. CASE label = "move"
      <3>1. Cleared(run[p])'
        BY <1>11, <2>1 DEF Reread, Established, Promoting, Acting, Cleared,
           ClearsFloor, KeepsFloorRate
      <3>2. Established(p)'
        BY <1>11, <2>1, <2>4, <2>6, <3>1
           DEF Reread, Established, Tagging, Promoting, Acting
      <3>3. ASSUME Alone, ~FaultyReads PROVE Exclusive(p)'
        <4>1. Exclusive(p)
          BY <1>0, <3>3 DEF AckInv
        <4>. QED
          BY <1>0, <1>11, <2>1, <2>2, <4>1
             DEF Reread, Exclusive, TypeOK, Promoting, Acting, Goto
      <3>. QED
        BY <1>0, <1>11, <2>2, <2>3, <3>2, <3>3, LocalStep DEF Reread, TypeOK
    <2>. QED
      BY <2>5, <2>6
  <1>12. ASSUME NEW p \in Procs, MoveAlias(p) PROVE IInv'
    <2>1. Established(p) /\ pc[p] = "move"
      BY <1>0, <1>12 DEF MoveAlias, ProcessInv
    <2>2. alias' \in DOMAIN versions /\ versions[alias'].features /\ alias' \in Nat
      BY <1>0, <1>12, <2>1 DEF MoveAlias, Established, Tagging, TypeOK
    <2>3. TypeOK'
      BY <1>0, <1>12, <2>2 DEF MoveAlias, TypeOK, Goto, Resting
    <2>4. VersionInv' /\ PointerInv'
      BY <1>0, <1>12, <2>2, VersionInvKept DEF MoveAlias, PointerInv
    <2>5. pc'[p] = "done" /\ \A q \in Procs \ {p} : pc'[q] = pc[q]
      BY <1>0, <1>12 DEF MoveAlias, Goto, TypeOK
    <2>6. Established(p)' /\ Exclusive(p)'
      BY <2>3, <2>5, OutsideStep DEF Resting
    <2>7. ProcessInv'
      <3>1. SUFFICES ASSUME NEW q \in Procs \ {p} PROVE Established(q)'
        BY <2>6 DEF ProcessInv
      <3>2. Cleared(run[q])' <=> Cleared(run[q])
        BY <1>12 DEF MoveAlias, Cleared, ClearsFloor, KeepsFloorRate
      <3>. QED
        BY <1>0, <1>12, <2>5, <3>2 DEF MoveAlias, ProcessInv, Established
    <2>8. AckInv'
      <3>1. SUFFICES ASSUME Alone, ~FaultyReads, NEW q \in Procs \ {p}
                     PROVE  pc'[q] \notin Promoting
        BY <2>6 DEF AckInv, Exclusive
      <3>2. Exclusive(p)
        BY <1>0, <3>1 DEF AckInv
      <3>. QED
        BY <2>1, <2>5, <3>2 DEF Exclusive, Promoting, Acting
    <2>. QED
      BY <2>3, <2>4, <2>7, <2>8 DEF IInv
  <1>13. ASSUME \/ \E v \in DOMAIN versions : Rollback(v)
                \/ DrillRead \/ DrillDrop \/ DrillRestore
         PROVE  IInv'
    <2>1. /\ UNCHANGED <<score, artifact, modelExists, versions, launches, pc, local>>
          /\ overrides' \in Nat
          /\ MayTouchAlias \/ UNCHANGED alias
          /\ {alias', drill'} \subseteq {alias, drill, NoVersion} \cup
                {v \in DOMAIN versions : versions[v].features}
      BY <1>0, <1>13
         DEF Rollback, DrillRead, DrillDrop, DrillRestore, Override, TypeOK,
             NoVersion, registry, operator, local
    <2>2. TypeOK'
      BY <1>0, <2>1 DEF TypeOK, NoVersion
    <2>3. VersionInv' /\ PointerInv'
      BY <1>0, <2>1, VersionInvKept DEF PointerInv
    <2>4. ProcessInv'
      <3>1. SUFFICES ASSUME NEW q \in Procs PROVE Established(q)'
        BY DEF ProcessInv
      <3>2. Cleared(run[q])' <=> Cleared(run[q])
        BY <2>1 DEF Cleared, ClearsFloor, KeepsFloorRate
      <3>. QED
        BY <1>0, <2>1, <3>2 DEF ProcessInv, Established
    <2>5. AckInv'
      BY <1>0, <2>1 DEF AckInv, Exclusive, MayTouchAlias
    <2>. QED
      BY <2>2, <2>3, <2>4, <2>5 DEF IInv
  <1>14. CASE UNCHANGED vars
    <2>1. VersionInv'
      BY <1>0, <1>14, VersionInvKept DEF vars
    <2>2. TypeOK' /\ PointerInv' /\ AckInv'
      BY <1>0, <1>14 DEF vars, TypeOK, PointerInv, AckInv, Exclusive
    <2>3. ProcessInv'
      <3>1. SUFFICES ASSUME NEW q \in Procs PROVE Established(q)'
        BY DEF ProcessInv
      <3>2. Cleared(run[q])' <=> Cleared(run[q])
        BY <1>14 DEF vars, Cleared, ClearsFloor, KeepsFloorRate
      <3>. QED
        BY <1>0, <1>14, <3>2 DEF vars, ProcessInv, Established
    <2>. QED
      BY <2>1, <2>2, <2>3 DEF IInv
  <1>. QED
    BY <1>1, <1>2, <1>3, <1>4, <1>5, <1>6, <1>7, <1>8, <1>9, <1>10, <1>11,
       <1>12, <1>13, <1>14 DEF Next, Step
-----------------------------------------------------------------------------
(* The inductive invariant holds in every reachable state.                 *)
THEOREM Inductive == Spec => []IInv
  BY InitIInv, StepIInv, PTL DEF Spec

(* Type correctness of every variable, in every interleaving of promoters, *)
(* rollbacks, drill and crashes.                                           *)
THEOREM TypeCorrect == Spec => []TypeOK
  <1>1. IInv => TypeOK
    BY DEF IInv
  <1>. QED
    BY <1>1, Inductive, PTL

(* No version ever carries numbers that are not its own run's.             *)
THEOREM TruthfulVersions == Spec => []VersionsTellTheTruth
  <1>1. IInv => VersionsTellTheTruth
    BY DEF IInv, VersionInv, Defensible, VersionsTellTheTruth
  <1>. QED
    BY <1>1, Inductive, PTL

(* A champion is registered and quotable: neither a crash between two tags *)
(* nor an override leaves @champion on a half-tagged version.              *)
THEOREM QuotableChampion == Spec => []ChampionQuotable
  <1>1. IInv => ChampionQuotable
    <2>1. SUFFICES ASSUME IInv, alias # NoVersion PROVE ChampionQuotable
      BY DEF ChampionQuotable
    <2>2. alias \in DOMAIN versions /\ versions[alias].features
      BY <2>1 DEF IInv, PointerInv
    <2>3. Defensible(alias)
      BY <2>1, <2>2 DEF IInv, VersionInv
    <2>. QED
      BY <2>2, <2>3 DEF Defensible, TellsTheTruth, ChampionQuotable
  <1>. QED
    BY <1>1, Inductive, PTL

(* A champion cleared the honest floor and is servable, whatever raced,    *)
(* failed to read, or was rolled back.                                     *)
THEOREM EarnedChampion == Spec => []ChampionEarned
  <1>1. IInv => ChampionEarned
    <2>1. SUFFICES ASSUME IInv, alias # NoVersion PROVE ChampionEarned
      BY DEF ChampionEarned
    <2>2. alias \in DOMAIN versions
      BY <2>1 DEF IInv, PointerInv
    <2>3. Defensible(alias)
      BY <2>1, <2>2 DEF IInv, VersionInv
    <2>. QED
      BY <2>3 DEF Defensible, Cleared, ChampionEarned
  <1>. QED
    BY <1>1, Inductive, PTL

(* Provided promotions neither overlap nor misread the alias, an alias     *)
(* only moves off the version that the decision moving it consulted: the   *)
(* check of the incumbent at the head of promote() is then enough.         *)
THEOREM AcknowledgedMoves ==
    ASSUME Alone, ~FaultyReads
    PROVE  Spec => ReplacesWhatItJudged
  <1>1. ASSUME IInv, [Next]_vars
        PROVE  [\A p \in Procs :
                  MoveAlias(p) /\ alias # version[p] => alias = incumbent[p]]_vars
    <2>1. SUFFICES ASSUME NEW p \in Procs, MoveAlias(p)
                   PROVE  alias = incumbent[p]
      OBVIOUS
    <2>2. Exclusive(p)
      BY <1>1 DEF IInv, AckInv
    <2>. QED
      BY <2>1, <2>2 DEF Exclusive, MoveAlias, Promoting, Acting
  <1>. QED
    BY <1>1, Inductive, PTL DEF Spec, ReplacesWhatItJudged

-----------------------------------------------------------------------------
(* The search for the run's version and the minting are two calls; alone   *)
(* inside promote(), nothing is minted in between.                         *)
LEMMA StepMint == IInv /\ MintInv /\ [Next]_vars => MintInv'
  <1>. SUFFICES ASSUME IInv, \A p \in Procs : MintsOnce(p), OneVersionPerRun,
                       [Next]_vars, Alone
                PROVE  (\A p \in Procs : MintsOnce(p)') /\ OneVersionPerRun'
    BY DEF MintInv
  <1>. USE DEF operator, registry, local, Goto
  <1>. DEFINE Kept(q) == /\ pc'[q] \in Promoting => pc[q] \in Promoting
                         /\ pc'[q] = "mint" => pc[q] = "mint" /\ run'[q] = run[q]
              SameRuns == /\ DOMAIN versions' = DOMAIN versions
                          /\ \A v \in DOMAIN versions : versions'[v].run = versions[v].run
  <1>1. TypeOK
    BY DEF IInv
  <1>2. ASSUME SameRuns
        PROVE  OneVersionPerRun' /\ \A r : VersionsOf(r)' = VersionsOf(r)
    BY <1>2 DEF OneVersionPerRun, VersionsOf
  <1>3. ASSUME SameRuns, \A q \in Procs : Kept(q)
        PROVE  \A p \in Procs : MintsOnce(p)'
    BY <1>2, <1>3 DEF MintsOnce, VersionsOf
  <1>4. ASSUME UNCHANGED versions, \A q \in Procs : Kept(q)
        PROVE  (\A p \in Procs : MintsOnce(p)') /\ OneVersionPerRun'
    BY <1>2, <1>3, <1>4
  <1>5. ASSUME NEW p \in Procs, NEW r \in Runs, Launch(p, r)
        PROVE  UNCHANGED versions /\ \A q \in Procs : Kept(q)
    BY <1>1, <1>5 DEF Launch, TypeOK, Promoting, Acting
  <1>6. ASSUME NEW p \in Procs,
               \/ Judge(p) \/ ReportOnly(p) \/ AssertServable(p) \/ GetModel(p)
               \/ CreateModel(p) \/ Reread(p) \/ MoveAlias(p) \/ Crash(p)
        PROVE  UNCHANGED versions /\ \A q \in Procs : Kept(q)
    BY <1>1, <1>6 DEF Judge, ReportOnly, AssertServable, GetModel, CreateModel,
       Reread, MoveAlias, Crash, TypeOK, Promoting, Acting
  <1>7. ASSUME NEW p \in Procs, Ack(p)
        PROVE  (\A q \in Procs : MintsOnce(q)') /\ OneVersionPerRun'
    <2>1. \A q \in Procs : pc[q] \notin Promoting
      BY <1>7 DEF Ack, MayTouchAlias
    <2>2. UNCHANGED versions
      BY <1>7 DEF Ack
    <2>3. \A q \in Procs : pc'[q] \in Promoting => q = p /\ pc'[q] # "mint"
      BY <1>1, <1>7, <2>1 DEF Ack, TypeOK, Promoting, Acting
    <2>4. \A q \in Procs : pc'[q] = "mint" => pc'[q] \in Promoting
      BY DEF Promoting, Acting
    <2>. QED
      BY <1>2, <2>2, <2>3, <2>4 DEF MintsOnce
  <1>8. ASSUME NEW p \in Procs, Search(p)
        PROVE  (\A q \in Procs : MintsOnce(q)') /\ OneVersionPerRun'
    <2>1. UNCHANGED versions /\ pc[p] \in Promoting
      BY <1>8 DEF Search, Promoting, Acting
    <2>2. \A q \in Procs : (pc'[q] \in Promoting => q = p) /\ run'[q] = run[q]
      <3>1. \A q \in Procs : pc[q] \in Promoting => q = p
        BY <2>1 DEF MintsOnce
      <3>. QED
        BY <1>1, <1>8, <3>1 DEF Search, TypeOK
    <2>3. pc'[p] = "mint" => VersionsOf(run[p]) = {}
      BY <1>1, <1>8 DEF Search, TypeOK
    <2>4. \A q \in Procs : pc'[q] = "mint" => pc'[q] \in Promoting
      BY DEF Promoting, Acting
    <2>. QED
      BY <1>2, <2>1, <2>2, <2>3, <2>4 DEF MintsOnce, VersionsOf
  <1>9. ASSUME NEW p \in Procs, Mint(p)
        PROVE  (\A q \in Procs : MintsOnce(q)') /\ OneVersionPerRun'
    <2>. DEFINE n == Len(versions) + 1
    <2>1. run[p] \in Runs /\ Fresh(run[p]) \in Version
      BY <1>1 DEF TypeOK, Fresh, Version, NoTag
    <2>2. /\ DOMAIN versions' = DOMAIN versions \cup {n}
          /\ n \notin DOMAIN versions
          /\ \A j \in DOMAIN versions : versions'[j] = versions[j]
          /\ versions'[n].run = run[p]
      BY <1>1, <1>9, <2>1, MintVersion DEF Mint, Fresh
    <2>3. \A j \in DOMAIN versions : versions[j].run # run[p]
      BY <1>9 DEF Mint, MintsOnce, VersionsOf
    <2>4. OneVersionPerRun'
      BY <2>2, <2>3 DEF OneVersionPerRun
    <2>5. \A q \in Procs : pc'[q] \in Promoting => q = p
      <3>1. pc[p] \in Promoting
        BY <1>9 DEF Mint, Promoting, Acting
      <3>2. \A q \in Procs : pc[q] \in Promoting => q = p
        BY <3>1 DEF MintsOnce
      <3>. QED
        BY <1>1, <1>9, <3>2 DEF Mint, TypeOK
    <2>6. \A q \in Procs : pc'[q] # "mint"
      BY <1>1, <1>9, <2>5 DEF Mint, TypeOK, Promoting, Acting
    <2>. QED
      BY <2>4, <2>5, <2>6 DEF MintsOnce
  <1>10. ASSUME NEW p \in Procs,
                TagMae(p) \/ TagWithin(p) \/ TagIncumbent(p) \/ TagFeatures(p)
         PROVE  SameRuns /\ \A q \in Procs : Kept(q)
    <2>1. pc[p] \in Tagging /\ Established(p)
      BY <1>10 DEF TagMae, TagWithin, TagIncumbent, TagFeatures, SetTag, Tagging,
         IInv, ProcessInv
    <2>2. version[p] \in DOMAIN versions /\ versions[version[p]] \in Version
      BY <1>1, <2>1, ElementOfSeq DEF Established, TypeOK
    <2>3. SameRuns
      BY <1>1, <1>10, <2>2 DEF TagMae, TagWithin, TagIncumbent, TagFeatures,
         SetTag, TypeOK, Version
    <2>4. \A q \in Procs : Kept(q)
      BY <1>1, <1>10 DEF TagMae, TagWithin, TagIncumbent, TagFeatures, SetTag,
         TypeOK, Promoting, Acting
    <2>. QED
      BY <2>3, <2>4
  <1>11. ASSUME \/ \E v \in DOMAIN versions : Rollback(v)
                \/ DrillRead \/ DrillDrop \/ DrillRestore
         PROVE  UNCHANGED versions /\ \A q \in Procs : Kept(q)
    BY <1>11 DEF Rollback, Override, DrillRead, DrillDrop, DrillRestore
  <1>12. CASE UNCHANGED vars
    BY <1>4, <1>12 DEF vars
  <1>. HIDE DEF Kept, SameRuns
  <1>13. CASE Next
    BY <1>2, <1>3, <1>4, <1>5, <1>6, <1>7, <1>8, <1>9, <1>10, <1>11, <1>13
       DEF Next, Step
  <1>. QED
    BY <1>12, <1>13

(* Promotions that do not overlap mint one version per run, however often  *)
(* they crash, are repeated, or misread the alias.                         *)
THEOREM OneVersion ==
    ASSUME Alone
    PROVE  Spec => []OneVersionPerRun
  <1>1. Init => MintInv
    <2>1. SUFFICES ASSUME Init, Alone
                   PROVE  (\A p \in Procs : MintsOnce(p)) /\ OneVersionPerRun
      BY DEF MintInv
    <2>2. \A p \in Procs : MintsOnce(p)
      BY <2>1 DEF Init, MintsOnce, Promoting, Acting
    <2>3. \A v, w \in DOMAIN versions : v = w
      BY <2>1 DEF Init
    <2>. QED
      BY <2>2, <2>3 DEF OneVersionPerRun
  <1>2. MintInv => OneVersionPerRun
    BY DEF MintInv
  <1>. QED
    BY <1>1, <1>2, StepMint, Inductive, PTL DEF Spec

(* A version stays, with its run and the numbers once recorded on it,      *)
(* whatever is promoted again or overlaps.                                 *)
THEOREM NothingIsDeleted == Spec => NothingDeleted
  <1>. DEFINE Stays(v) ==
         /\ v \in DOMAIN versions'
         /\ versions'[v].run = versions[v].run
         /\ versions[v].mae # NoTag => versions'[v].mae = versions[v].mae
         /\ versions[v].features => versions'[v].features
  <1>1. ASSUME IInv, [Next]_vars, NEW v \in DOMAIN versions PROVE Stays(v)
    <2>1. TypeOK
      BY <1>1 DEF IInv
    <2>2. CASE UNCHANGED versions
      BY <2>2
    <2>3. ASSUME NEW p \in Procs, Mint(p) PROVE Stays(v)
      <3>1. Fresh(run[p]) \in Version
        BY <2>1 DEF TypeOK, Fresh, Version, NoTag
      <3>. QED
        BY <1>1, <2>1, <2>3, <3>1, MintVersion DEF Mint
    <2>4. ASSUME NEW p \in Procs,
                 TagMae(p) \/ TagWithin(p) \/ TagIncumbent(p) \/ TagFeatures(p)
          PROVE  Stays(v)
      <3>1. pc[p] \in Tagging /\ Established(p)
        BY <1>1, <2>4 DEF TagMae, TagWithin, TagIncumbent, TagFeatures, SetTag,
           Tagging, IInv, ProcessInv
      <3>2. /\ version[p] \in DOMAIN versions
            /\ versions[version[p]].run = run[p]
            /\ versions[version[p]] \in Version
        BY <2>1, <3>1, ElementOfSeq DEF Established, TypeOK
      <3>3. versions[version[p]].mae \in {NoTag, Recorded(score[run[p]].mae)}
        BY <1>1, <3>2 DEF IInv, VersionInv, Defensible, TellsTheTruth
      <3>. QED
        BY ZenonT(60), <1>1, <2>1, <2>4, <3>2, <3>3 DEF TagMae, TagWithin, TagIncumbent,
           TagFeatures, SetTag, TypeOK, Version
    <2>5. ASSUME ~ UNCHANGED versions
          PROVE  \E p \in Procs : \/ Mint(p) \/ TagMae(p) \/ TagWithin(p)
                                   \/ TagIncumbent(p) \/ TagFeatures(p)
      BY <1>1, <2>5 DEF Next, Step, vars, registry, operator, local, Launch,
         Judge, ReportOnly, Ack, AssertServable, GetModel, CreateModel, Search,
         Reread, MoveAlias, Crash, Rollback, Override, DrillRead, DrillDrop,
         DrillRestore
    <2>. HIDE DEF Stays
    <2>. QED
      BY <2>2, <2>3, <2>4, <2>5
  <1>2. IInv /\ [Next]_vars => [\A v \in DOMAIN versions : Stays(v)]_vars
    BY <1>1
  <1>. QED
    BY <1>2, Inductive, PTL DEF Spec, NothingDeleted
-----------------------------------------------------------------------------
(* Promotion implements ChampionLineage.                                   *)

(* Rounding to nearest never passes a recorded value that is no smaller:   *)
(* a challenger that kept up with a measured KPI-10 keeps up with it once  *)
(* it is recorded.                                                         *)
LEMMA RecordedBound ==
    ASSUME NEW x \in Nat, NEW y \in Nat, Recorded(x) >= y
    PROVE  Recorded(x) >= Recorded(y)
  <1>. DEFINE h == Scale \div 2
              k == (x + h) \div Scale
              m == (y + h) \div Scale
  <1>1. Scale \in Nat \ {0} /\ h \in Nat /\ Scale = 2 * h + 1
    BY ScaleAssumption
  <1>2. k \in Nat /\ m \in Nat
    BY <1>1
  <1>3. Scale * m <= y + h
    BY <1>1, <1>2
  <1>4. Recorded(x) = Scale * k /\ Recorded(y) = Scale * m
    BY DEF Recorded
  <1>. HIDE DEF h, k, m
  <1>5. Scale * k >= y
    BY <1>4
  <1>6. ASSUME k + 1 <= m PROVE FALSE
    <2>1. Scale * (k + 1) <= Scale * m
      BY <1>1, <1>2, <1>6
    <2>2. Scale * (k + 1) = Scale * k + Scale
      BY <1>1, <1>2
    <2>3. Scale * k \in Nat /\ Scale * m \in Nat
      BY <1>1, <1>2
    <2>. QED
      BY <1>1, <1>3, <1>5, <2>1, <2>2, <2>3
  <1>7. m <= k
    BY <1>2, <1>6
  <1>8. Scale * m <= Scale * k
    BY <1>1, <1>2, <1>7
  <1>. QED
    BY <1>4, <1>8

-----------------------------------------------------------------------------
(* The vocabulary of ChampionLineage is that of the gate.                  *)
LEMMA SameGate ==
    /\ \A x : Lineage!Recorded(x) = Recorded(x)
    /\ \A r : Lineage!Earned(r) <=> Cleared(r)
    /\ \A r, c : Lineage!Beats(r, c) <=>
          /\ GateCfg.margins # {}
          /\ BeatsIncumbent(score[r], [mae |-> Recorded(score[c.run].mae)], GateCfg)
          /\ KeepsIncumbentRate(score[r], c)
  BY DEF Lineage!Recorded, Recorded, Lineage!Earned, Cleared,
         Lineage!ClearsFloor, ClearsFloor, Lineage!KeepsFloorRate,
         KeepsFloorRate, Lineage!ImprovesBy, ImprovesBy, Lineage!Beats,
         Lineage!BeatsIncumbent, BeatsIncumbent, Lineage!KeepsIncumbentRate,
         KeepsIncumbentRate

(* The title once the version's KPI-10 is recorded.                        *)
Settled(title) == [title EXCEPT !.within = Recorded(score[title.run].within)]

(* A version's title: of a run, with that run's KPI-10, recorded or not.   *)
LEMMA TitleOf ==
    ASSUME IInv, NEW v \in DOMAIN versions
    PROVE  /\ versions[v].run \in Runs
           /\ Title(v).run = versions[v].run
           /\ Title(v) \in Lineage!Titles(versions[v].run)
           /\ Title(v).within \in Nat
           /\ Settled(Title(v)) =
                 [run |-> versions[v].run,
                  within |-> Recorded(score[versions[v].run].within)]
           /\ versions[v].within # NoTag => Title(v) = Settled(Title(v))
  <1>1. TypeOK /\ Defensible(v)
    BY DEF IInv, VersionInv
  <1>2. versions[v] \in Version
    BY <1>1, ElementOfSeq DEF TypeOK
  <1>3. versions[v].run \in Runs
    BY <1>2 DEF Version
  <1>4. /\ score[versions[v].run].within \in Nat
        /\ Recorded(score[versions[v].run].within) \in Nat
    BY <1>1, <1>3, ScoreNat
  <1>5. versions[v].within \in {NoTag, Recorded(score[versions[v].run].within)}
    BY <1>1 DEF Defensible, TellsTheTruth
  <1>6. Title(v).run = versions[v].run
    BY DEF Title
  <1>7. Title(v).within \in {score[versions[v].run].within,
                              Recorded(score[versions[v].run].within)}
    BY <1>5 DEF Title
  <1>8. Title(v) = [run |-> Title(v).run, within |-> Title(v).within]
    BY DEF Title
  <1>9. Title(v) \in Lineage!Titles(versions[v].run)
    BY <1>6, <1>7, <1>8, SameGate DEF Lineage!Titles
  <1>10. Settled(Title(v)) =
            [run |-> versions[v].run,
             within |-> Recorded(score[versions[v].run].within)]
    BY <1>6, <1>8 DEF Settled
  <1>11. versions[v].within # NoTag => Title(v) = Settled(Title(v))
    BY <1>5, <1>10 DEF Title
  <1>. QED
    BY <1>3, <1>4, <1>6, <1>7, <1>9, <1>10, <1>11

(* A run that beats a version's title still does once it is recorded.      *)
LEMMA BeatsSettled ==
    ASSUME IInv, NEW r \in Runs, NEW v \in DOMAIN versions,
           Lineage!Beats(r, Title(v))
    PROVE  Lineage!Beats(r, Settled(Title(v)))
  <1>1. /\ score[r].within \in Nat
        /\ score[versions[v].run].within \in Nat
    BY TitleOf, ScoreNat DEF IInv
  <1>2. Title(v).within \in {score[versions[v].run].within,
                              Recorded(score[versions[v].run].within)}
    BY TitleOf, SameGate DEF Lineage!Titles
  <1>3. Recorded(score[r].within) >= Title(v).within
    BY SameGate DEF KeepsIncumbentRate
  <1>4. Recorded(score[r].within) >= Recorded(score[versions[v].run].within)
    BY <1>1, <1>2, <1>3, RecordedBound
  <1>5. /\ Settled(Title(v)).run = Title(v).run
        /\ Settled(Title(v)).within = Recorded(score[versions[v].run].within)
    BY TitleOf
  <1>. QED
    BY <1>4, <1>5, SameGate DEF KeepsIncumbentRate

-----------------------------------------------------------------------------
(* The gate's PROMOTE against a version is a win over its title.           *)
LEMMA PromoteBeats ==
    ASSUME IInv, NEW r \in Runs, NEW v \in DOMAIN versions,
           versions[v].mae # NoTag, Verdict(r, v) = "PROMOTE"
    PROVE  Lineage!Beats(r, Title(v))
  <1>. DEFINE ch == Metrics(r, score[r])
              fl == Metrics(GateCfg.floor, Floor)
              inc == IncumbentAt(v)
  <1>1. v # NoVersion
    BY DEF IInv, TypeOK, NoVersion
  <1>2. /\ inc.version = v /\ inc.mae = versions[v].mae
        /\ inc.within = Title(v).within
    BY <1>1 DEF IncumbentAt, RateOf, Title
  <1>3. Meaningful(ch, fl, GateCfg, inc) /\ Passed(ch, fl, GateCfg, inc)
    BY DEF Verdict, Decide
  <1>4. /\ GateCfg.margins # {}
        /\ BeatsIncumbent(ch, inc, GateCfg)
        /\ KeepsIncumbentRate(ch, inc)
    BY <1>1, <1>2, <1>3 DEF Meaningful, IncumbentComparable, Passed
  <1>5. versions[v].mae = Recorded(score[Title(v).run].mae)
    BY DEF IInv, VersionInv, Defensible, TellsTheTruth, Title
  <1>6. ch.mae = score[r].mae /\ ch.within = score[r].within
    BY DEF Metrics
  <1>7. BeatsIncumbent(score[r], [mae |-> Recorded(score[Title(v).run].mae)], GateCfg)
    BY <1>2, <1>4, <1>5, <1>6 DEF BeatsIncumbent
  <1>8. KeepsIncumbentRate(score[r], Title(v))
    BY <1>2, <1>4, <1>6 DEF KeepsIncumbentRate
  <1>. QED
    BY <1>4, <1>7, <1>8, SameGate

-----------------------------------------------------------------------------
(* A step leaves the measurements and the runs of the versions alone, and  *)
(* the one tag of theirs that a title shows is at most recorded.           *)
LEMMA StepKeepsVersions ==
    ASSUME IInv, [Next]_vars
    PROVE  /\ score' = score
           /\ \A v \in DOMAIN versions :
                 /\ v \in DOMAIN versions'
                 /\ versions'[v].run = versions[v].run
                 /\ versions'[v].within \in
                       {versions[v].within, Recorded(score[versions[v].run].within)}
  <1>. USE DEF operator, registry, local
  <1>1. TypeOK
    BY DEF IInv
  <1>2. CASE UNCHANGED <<score, versions>>
    BY <1>2
  <1>3. ASSUME NEW p \in Procs, Mint(p)
        PROVE  score' = score /\ \A v \in DOMAIN versions :
                  v \in DOMAIN versions' /\ versions'[v] = versions[v]
    <2>1. run[p] \in Runs
      BY <1>1 DEF TypeOK
    <2>2. Fresh(run[p]) \in Version
      BY <2>1 DEF Fresh, Version, NoTag
    <2>. QED
      BY <1>1, <1>3, <2>2, MintVersion DEF Mint
  <1>4. ASSUME NEW p \in Procs,
               TagMae(p) \/ TagWithin(p) \/ TagIncumbent(p) \/ TagFeatures(p)
        PROVE  /\ score' = score
               /\ \A v \in DOMAIN versions :
                     /\ v \in DOMAIN versions'
                     /\ versions'[v].run = versions[v].run
                     /\ versions'[v].within \in
                           {versions[v].within, Recorded(score[versions[v].run].within)}
    <2>. DEFINE i == version[p]
    <2>1. pc[p] \in Tagging /\ Established(p)
      BY <1>4 DEF TagMae, TagWithin, TagIncumbent, TagFeatures, SetTag, Tagging,
         IInv, ProcessInv
    <2>2. i \in DOMAIN versions /\ versions[i].run = run[p] /\ versions[i] \in Version
      BY <1>1, <2>1, ElementOfSeq DEF Established, TypeOK
    <2>3. /\ run[p] \in Runs /\ incumbent[p] \in Nat
          /\ Recorded(score[run[p]].mae) \in Nat
          /\ Recorded(score[run[p]].within) \in Nat
      BY <1>1, ScoreNat DEF TypeOK
    <2>4. PICK rec \in Version :
             /\ versions' = [versions EXCEPT ![i] = rec]
             /\ rec.run = run[p]
             /\ rec.within \in {versions[i].within, Recorded(score[run[p]].within)}
      <3>1. CASE TagMae(p)
        <4>. DEFINE rec == [versions[i] EXCEPT !.mae = Recorded(score[run[p]].mae)]
        <4>1. rec \in Version /\ rec.run = run[p] /\ rec.within = versions[i].within
          BY <2>2, <2>3 DEF Version
        <4>. QED
          BY <3>1, <4>1 DEF TagMae, SetTag
      <3>2. CASE TagWithin(p)
        <4>. DEFINE rec == [versions[i] EXCEPT !.within = Recorded(score[run[p]].within)]
        <4>1. /\ rec \in Version /\ rec.run = run[p]
              /\ rec.within = Recorded(score[run[p]].within)
          BY <2>2, <2>3 DEF Version
        <4>. QED
          BY <3>2, <4>1 DEF TagWithin, SetTag
      <3>3. CASE TagIncumbent(p)
        <4>. DEFINE rec == [versions[i] EXCEPT !.judged = incumbent[p]]
        <4>1. rec \in Version /\ rec.run = run[p] /\ rec.within = versions[i].within
          BY <2>2, <2>3 DEF Version
        <4>. QED
          BY <3>3, <4>1 DEF TagIncumbent, SetTag
      <3>4. CASE TagFeatures(p)
        <4>. DEFINE rec == [versions[i] EXCEPT !.features = TRUE]
        <4>1. rec \in Version /\ rec.run = run[p] /\ rec.within = versions[i].within
          BY <2>2, <2>3 DEF Version
        <4>. QED
          BY <3>4, <4>1 DEF TagFeatures, SetTag
      <3>. QED
        BY <1>4, <3>1, <3>2, <3>3, <3>4
    <2>5. /\ DOMAIN versions' = DOMAIN versions
          /\ \A j \in DOMAIN versions :
                versions'[j] = IF j = i THEN rec ELSE versions[j]
      BY <1>1, <2>2, <2>4, TagVersion
    <2>6. score' = score
      BY <1>4 DEF TagMae, TagWithin, TagIncumbent, TagFeatures, SetTag
    <2>. QED
      BY <2>2, <2>4, <2>5, <2>6
  <1>5. ASSUME ~ UNCHANGED <<score, versions>>
        PROVE  \E p \in Procs : \/ Mint(p) \/ TagMae(p) \/ TagWithin(p)
                                 \/ TagIncumbent(p) \/ TagFeatures(p)
    BY <1>5 DEF Next, Step, vars, Launch, Judge, ReportOnly, Ack, AssertServable,
       GetModel, CreateModel, Search, Reread, MoveAlias, Crash, Rollback,
       Override, DrillRead, DrillDrop, DrillRestore
  <1>. QED
    BY <1>2, <1>3, <1>4, <1>5

(* In terms of titles.                                                     *)
LEMMA StepKeepsTitles ==
    ASSUME IInv, IInv', [Next]_vars, NEW v \in DOMAIN versions
    PROVE  /\ v \in DOMAIN versions'
           /\ Title(v)' \in {Title(v), Settled(Title(v))}
  <1>1. /\ score' = score /\ v \in DOMAIN versions'
        /\ versions'[v].run = versions[v].run
        /\ versions'[v].within \in
              {versions[v].within, Recorded(score[versions[v].run].within)}
    BY StepKeepsVersions
  <1>2. Settled(Title(v)) = [run |-> versions[v].run,
                             within |-> Recorded(score[versions[v].run].within)]
    BY TitleOf
  <1>3. Recorded(score[versions[v].run].within) # NoTag
    BY TitleOf, ScoreNat DEF IInv, NoTag
  <1>4. CASE versions'[v].within = versions[v].within
    BY <1>1, <1>4 DEF Title
  <1>5. CASE versions'[v].within = Recorded(score[versions[v].run].within)
    BY <1>1, <1>2, <1>3, <1>5 DEF Title
  <1>. QED
    BY <1>1, <1>4, <1>5

-----------------------------------------------------------------------------
(* A process gets to the alias only through a verdict, and past its KPI-10 *)
(* tag only by writing it; meanwhile its run, its incumbent and, once it   *)
(* tags, its version stay what they are.                                   *)
LEMMA StepProgress ==
    ASSUME IInv, [Next]_vars, NEW q \in Procs
    PROVE  /\ \/ pc'[q] \notin Promoting \cup {"ack"}
              \/ /\ pc[q] \in Promoting \cup {"ack"}
                 /\ run'[q] = run[q] /\ incumbent'[q] = incumbent[q]
              \/ Judge(q)
           /\ \/ pc'[q] \notin Tagging \ {"tag_mae", "tag_within"}
              \/ /\ pc[q] \in Tagging \ {"tag_mae", "tag_within"}
                 /\ version'[q] = version[q]
              \/ TagWithin(q)
  <1>. DEFINE Goal ==
         /\ \/ pc'[q] \notin Promoting \cup {"ack"}
            \/ /\ pc[q] \in Promoting \cup {"ack"}
               /\ run'[q] = run[q] /\ incumbent'[q] = incumbent[q]
            \/ Judge(q)
         /\ \/ pc'[q] \notin Tagging \ {"tag_mae", "tag_within"}
            \/ /\ pc[q] \in Tagging \ {"tag_mae", "tag_within"}
               /\ version'[q] = version[q]
            \/ TagWithin(q)
  <1>. SUFFICES Goal
    OBVIOUS
  <1>. USE DEF operator, registry, local, Goto, Promoting, Acting, Tagging
  <1>1. TypeOK
    BY DEF IInv
  <1>2. ASSUME NEW p \in Procs, p # q, Step(p) \/ \E r \in Runs : Launch(p, r)
        PROVE  Goal
    BY <1>1, <1>2 DEF TypeOK, Step, Launch, Judge, ReportOnly, Ack,
       AssertServable, GetModel, CreateModel, Search, Mint, SetTag, TagMae,
       TagWithin, TagIncumbent, TagFeatures, Reread, MoveAlias, Crash
  <1>3. ASSUME NEW r \in Runs, Launch(q, r) PROVE Goal
    BY <1>1, <1>3 DEF TypeOK, Launch
  <1>4. CASE Judge(q)
    BY <1>1, <1>4 DEF TypeOK, Judge
  <1>5. CASE ReportOnly(q) \/ Crash(q) \/ MoveAlias(q)
    BY <1>1, <1>5 DEF TypeOK, ReportOnly, Crash, MoveAlias
  <1>6. CASE Ack(q) \/ AssertServable(q) \/ GetModel(q) \/ CreateModel(q)
    BY <1>1, <1>6 DEF TypeOK, Ack, AssertServable, GetModel, CreateModel
  <1>7. CASE Search(q) \/ Mint(q)
    BY <1>1, <1>7 DEF TypeOK, Search, Mint
  <1>8. CASE TagMae(q) \/ TagWithin(q) \/ TagIncumbent(q) \/ TagFeatures(q)
    BY <1>1, <1>8
       DEF TypeOK, SetTag, TagMae, TagWithin, TagIncumbent, TagFeatures
  <1>9. CASE Reread(q)
    BY <1>1, <1>9 DEF TypeOK, Reread
  <1>10. CASE UNCHANGED <<pc, local>>
    BY <1>10
  <1>11. ASSUME NEW p \in Procs, Step(p) \/ \E r \in Runs : Launch(p, r)
         PROVE  Goal
    BY <1>2, <1>3, <1>4, <1>5, <1>6, <1>7, <1>8, <1>9, <1>11 DEF Step
  <1>12. ASSUME \/ \E v \in DOMAIN versions : Rollback(v)
                \/ DrillRead \/ DrillDrop \/ DrillRestore
         PROVE  UNCHANGED <<pc, local>>
    BY <1>12 DEF Rollback, Override, DrillRead, DrillDrop, DrillRestore
  <1>. HIDE DEF Goal
  <1>13. CASE UNCHANGED vars
    BY <1>10, <1>13 DEF vars
  <1>14. CASE Next
    BY <1>10, <1>11, <1>12, <1>14 DEF Next
  <1>. QED
    BY <1>13, <1>14

LEMMA InitJudged == Init => JudgedInv
  BY DEF Init, JudgedInv, Judged, Promoting, Acting, Tagging, Resting

(* A verdict outlives the tags that are written under it.                  *)
LEMMA StepJudged == IInv /\ IInv' /\ JudgedInv /\ [Next]_vars => JudgedInv'
  <1>. SUFFICES ASSUME IInv, IInv', JudgedInv, [Next]_vars, NEW q \in Procs
                PROVE  Judged(q)'
    BY DEF JudgedInv
  <1>1. TypeOK /\ Judged(q) /\ score' = score
    BY StepKeepsVersions DEF IInv, JudgedInv
  <1>2. ASSUME pc'[q] \in Promoting \cup {"ack"},
               NEW v \in {incumbent'[q]} \ {NoVersion}
        PROVE  v \in DOMAIN versions' /\ Lineage!Beats(run[q], Title(v))'
               /\ run'[q] = run[q]
    <2>1. v \in DOMAIN versions /\ Lineage!Beats(run[q], Title(v)) /\ run'[q] = run[q]
      <3>1. CASE Judge(q)
        <4>1. PICK seen \in AliasReads :
                 /\ incumbent' = [incumbent EXCEPT ![q] = seen]
                 /\ seen # NoVersion => versions[seen].mae # NoTag
                 /\ Verdict(run[q], seen) = "PROMOTE"
          BY <1>1, <1>2, <3>1
             DEF Judge, Goto, TypeOK, VerdictBefore, Promoting, Acting
        <4>2. v = seen /\ v = alias
          BY <1>1, <1>2, <4>1 DEF TypeOK, AliasReads
        <4>3. v \in DOMAIN versions
          BY <1>2, <4>2 DEF IInv, PointerInv
        <4>4. run[q] \in Runs /\ run'[q] = run[q]
          BY <1>1, <3>1 DEF TypeOK, Judge
        <4>. QED
          BY <1>2, <4>1, <4>2, <4>3, <4>4, PromoteBeats
      <3>2. CASE /\ pc[q] \in Promoting \cup {"ack"}
                 /\ run'[q] = run[q] /\ incumbent'[q] = incumbent[q]
        BY <1>1, <1>2, <3>2 DEF Judged
      <3>. QED
        BY <1>2, <3>1, <3>2, StepProgress
    <2>2. v \in DOMAIN versions' /\ Title(v)' \in {Title(v), Settled(Title(v))}
      BY <2>1, StepKeepsTitles
    <2>3. run[q] \in Runs
      BY <1>1 DEF TypeOK
    <2>4. Lineage!Beats(run[q], Title(v)')
      BY <2>1, <2>2, <2>3, BeatsSettled
    <2>. QED
      BY <1>1, <2>1, <2>2, <2>4, SameGate DEF BeatsIncumbent, KeepsIncumbentRate,
         Lineage!Beats
  <1>3. ASSUME pc'[q] \in Tagging \ {"tag_mae", "tag_within"}
        PROVE  versions'[version'[q]].within # NoTag
    <2>1. CASE /\ pc[q] \in Tagging \ {"tag_mae", "tag_within"}
               /\ version'[q] = version[q]
      <3>1. version[q] \in DOMAIN versions /\ versions[version[q]].within # NoTag
        BY <1>1, <2>1 DEF IInv, ProcessInv, Established, Judged
      <3>2. Recorded(score[versions[version[q]].run].within) # NoTag
        BY <3>1, TitleOf, ScoreNat DEF IInv, NoTag
      <3>. QED
        BY <2>1, <3>1, <3>2, StepKeepsVersions
    <2>2. CASE TagWithin(q)
      <3>1. version[q] \in DOMAIN versions /\ version'[q] = version[q]
        BY <2>2 DEF IInv, ProcessInv, Established, TagWithin, SetTag, Tagging, local
      <3>2. Recorded(score[run[q]].within) \in Nat
        BY <1>1, ScoreNat DEF TypeOK
      <3>3. /\ versions[version[q]] \in Version
            /\ versions' = [versions EXCEPT ![version[q]] =
                   [versions[version[q]] EXCEPT !.within = Recorded(score[run[q]].within)]]
        BY <1>1, <2>2, <3>1, ElementOfSeq DEF TypeOK, TagWithin, SetTag
      <3>4. versions'[version[q]].within = Recorded(score[run[q]].within)
        BY <1>1, <3>1, <3>3 DEF TypeOK, Version
      <3>. QED
        BY <3>1, <3>2, <3>4 DEF NoTag
    <2>. QED
      BY <1>3, <2>1, <2>2, StepProgress
  <1>. QED
    BY <1>2, <1>3 DEF Judged

(* A verdict taken on the way to the alias is still a win over that        *)
(* champion when the alias gets there.                                     *)
THEOREM VerdictsKeep == Spec => []JudgedInv
  BY InitJudged, StepJudged, Inductive, PTL DEF Spec

-----------------------------------------------------------------------------
(* The initial states map to initial states.                               *)
LEMMA InitLineage == Init => Lineage!Init
  <1>. SUFFICES ASSUME Init PROVE Lineage!Init
    OBVIOUS
  <1>1. score \in [Runs -> Scores] /\ Seat(drill) = {} /\ overrides = 0
    BY DEF Init, Seat
  <1>2. CASE versions = <<>> /\ alias = NoVersion
    BY <1>1, <1>2 DEF Seat, Lineage!Init
  <1>3. ASSUME NEW r \in Runs, versions = <<Legacy(r)>>, alias = 1,
               Passed(Metrics(r, score[r]), Metrics(GateCfg.floor, Floor),
                      GateCfg, NoIncumbent)
        PROVE  Lineage!Init
    <2>1. Cleared(r)
      BY <1>3 DEF Passed, Cleared, ClearsFloor, KeepsFloorRate, Metrics
    <2>2. versions[1] = Legacy(r) /\ alias # NoVersion
      BY <1>3 DEF NoVersion
    <2>3. Title(alias) = [run |-> r, within |-> score[r].within]
      BY <1>3, <2>2 DEF Title, Legacy
    <2>4. Seat(alias) = {[run |-> r, within |-> score[r].within]}
      BY <2>2, <2>3 DEF Seat
    <2>. QED
      BY <1>1, <1>3, <2>1, <2>4, SameGate DEF Lineage!Init
  <1>. QED
    BY <1>2, <1>3 DEF Init

(* A step that leaves the alias and the drill where they are is seen, if   *)
(* at all, as a champion's KPI-10 being recorded.                          *)
LEMMA QuietStep ==
    ASSUME IInv, IInv', [Next]_vars, UNCHANGED <<alias, operator>>
    PROVE  Lineage!Settle
  <1>1. ASSUME NEW v \in {alias, drill} \ {NoVersion}
        PROVE  Title(v)' \in {Title(v), Settled(Title(v))}
    BY StepKeepsTitles DEF IInv, PointerInv
  <1>2. score' = score
    BY StepKeepsVersions
  <1>3. Lineage!Settles(Seat(alias), Seat(alias)')
    <2>1. CASE alias = NoVersion
      BY <2>1 DEF Seat, operator, Lineage!Settles
    <2>2. CASE alias # NoVersion
      <3>1. Seat(alias) = {Title(alias)} /\ Seat(alias)' = {Title(alias)'}
        BY <2>2 DEF Seat
      <3>2. Title(alias)' \in {Title(alias), Settled(Title(alias))}
        BY <1>1, <2>2 DEF Title
      <3>. QED
        BY <3>1, <3>2, SameGate DEF Lineage!Settles, Settled
    <2>. QED
      BY <2>1, <2>2
  <1>4. Lineage!Settles(Seat(drill), Seat(drill)')
    <2>1. CASE drill = NoVersion
      BY <2>1 DEF Seat, operator, Lineage!Settles
    <2>2. CASE drill # NoVersion
      <3>1. Seat(drill) = {Title(drill)} /\ Seat(drill)' = {Title(drill)'}
        BY <2>2 DEF Seat, operator
      <3>2. Title(drill)' \in {Title(drill), Settled(Title(drill))}
        BY <1>1, <2>2 DEF Title, operator
      <3>. QED
        BY <3>1, <3>2, SameGate DEF Lineage!Settles, Settled
    <2>. QED
      BY <2>1, <2>2
  <1>. QED
    BY <1>2, <1>3, <1>4 DEF Lineage!Settle, operator

(* The move of the alias is the promotion, all of it.                      *)
LEMMA MoveIsPromote ==
    ASSUME IInv, JudgedInv, Alone, ~FaultyReads, NEW p \in Procs, MoveAlias(p)
    PROVE  Lineage!Promote(run[p])
  <1>1. /\ pc[p] = "move" /\ alias' = version[p]
        /\ UNCHANGED <<score, versions, operator>>
    BY DEF MoveAlias
  <1>2. Established(p) /\ Exclusive(p) /\ Judged(p)
    BY DEF IInv, ProcessInv, AckInv, JudgedInv
  <1>3. /\ Cleared(run[p]) /\ alias = incumbent[p]
        /\ version[p] \in DOMAIN versions
        /\ versions[version[p]].run = run[p]
        /\ versions[version[p]].within # NoTag
    BY <1>1, <1>2
       DEF Established, Exclusive, Judged, Promoting, Acting, Tagging
  <1>4. \A c \in Seat(alias) : Lineage!Beats(run[p], c)
    <2>1. \A v \in {alias} \ {NoVersion} : Lineage!Beats(run[p], Title(v))
      BY <1>1, <1>2, <1>3 DEF Judged, Promoting, Acting
    <2>. QED
      BY <2>1 DEF Seat
  <1>5. Seat(alias)' = {[run |-> run[p], within |-> Recorded(score[run[p]].within)]}
    <2>1. version[p] # NoVersion
      BY <1>3 DEF IInv, TypeOK, NoVersion
    <2>2. Title(version[p]) =
             [run |-> run[p], within |-> Recorded(score[run[p]].within)]
      BY <1>3, TitleOf
    <2>3. Seat(alias)' = {Title(alias)'}
      BY <1>1, <2>1 DEF Seat
    <2>4. Title(alias)' = Title(version[p])
      BY <1>1 DEF Title
    <2>. QED
      BY <2>2, <2>3, <2>4
  <1>6. Seat(drill)' = Seat(drill) /\ UNCHANGED <<score, overrides>>
    BY <1>1 DEF Seat, Title, operator
  <1>. QED
    BY <1>3, <1>4, <1>5, <1>6, SameGate DEF Lineage!Promote

(* A rollback is an override, by a run that earned its place.              *)
LEMMA RollbackIsOverride ==
    ASSUME IInv, NEW v \in DOMAIN versions, Rollback(v)
    PROVE  Lineage!Override(versions[v].run)
  <1>1. /\ alias' = v /\ overrides' = overrides + 1
        /\ UNCHANGED <<score, versions, drill>>
    BY DEF Rollback, Override
  <1>2. v # NoVersion /\ Cleared(versions[v].run)
    BY DEF IInv, TypeOK, NoVersion, VersionInv, Defensible
  <1>3. Seat(alias)' = {Title(v)} /\ Seat(drill)' = Seat(drill)
    BY <1>1, <1>2 DEF Seat, Title
  <1>4. Title(v) \in Lineage!Titles(versions[v].run)
    BY TitleOf
  <1>. QED
    BY <1>1, <1>2, <1>3, <1>4, SameGate DEF Lineage!Override

(* The drill's steps are those of the abstract drill.                      *)
LEMMA DrillIsDrill ==
    ASSUME DrillRead \/ DrillDrop \/ DrillRestore
    PROVE  Lineage!Note \/ Lineage!Vacate \/ Lineage!Restore
  <1>1. \A v : v # NoVersion => Seat(v) = {Title(v)}
    BY DEF Seat
  <1>2. Seat(NoVersion) = {}
    BY DEF Seat
  <1>3. CASE DrillRead
    <2>1. /\ drill = NoVersion /\ drill' = alias /\ alias # NoVersion
          /\ UNCHANGED <<score, versions, alias>>
          /\ overrides' = overrides + 1
      BY <1>3 DEF DrillRead, registry
    <2>2. Seat(drill)' = Seat(alias) /\ Seat(alias)' = Seat(alias)
      BY <2>1 DEF Seat, Title
    <2>. QED
      BY <1>1, <1>2, <2>1, <2>2 DEF Lineage!Note
  <1>4. CASE DrillDrop
    <2>1. /\ drill # NoVersion /\ alias' = NoVersion
          /\ UNCHANGED <<score, versions, drill, overrides>>
      BY <1>4 DEF DrillDrop, operator
    <2>2. Seat(drill)' = Seat(drill) /\ Seat(alias)' = {}
      BY <2>1 DEF Seat, Title
    <2>. QED
      BY <1>1, <2>1, <2>2 DEF Lineage!Vacate
  <1>5. CASE DrillRestore
    <2>1. /\ drill # NoVersion /\ alias' = drill /\ drill' = NoVersion
          /\ UNCHANGED <<score, versions, overrides>>
      BY <1>5 DEF DrillRestore
    <2>2. Seat(alias)' = Seat(drill) /\ Seat(drill)' = {}
      BY <2>1 DEF Seat, Title
    <2>. QED
      BY <1>1, <2>1, <2>2 DEF Lineage!Restore
  <1>. QED
    BY <1>3, <1>4, <1>5

(* Every step of a promotion, a rollback or the drill is a step of the     *)
(* lineage or a stutter.                                                   *)
LEMMA StepLineage ==
    ASSUME Alone, ~FaultyReads
    PROVE  IInv /\ IInv' /\ JudgedInv /\ [Next]_vars => [Lineage!Next]_(Lineage!vars)
  <1>. SUFFICES ASSUME IInv, IInv', JudgedInv, [Next]_vars
                PROVE  Lineage!Next
    OBVIOUS
  <1>1. CASE UNCHANGED <<alias, operator>>
    BY <1>1, QuietStep DEF Lineage!Next
  <1>2. ASSUME NEW p \in Procs, MoveAlias(p) PROVE Lineage!Next
    <2>1. run[p] \in Runs
      BY DEF IInv, TypeOK
    <2>. QED
      BY <1>2, <2>1, MoveIsPromote DEF Lineage!Next
  <1>3. ASSUME NEW v \in DOMAIN versions, Rollback(v) PROVE Lineage!Next
    BY <1>3, RollbackIsOverride, TitleOf DEF Lineage!Next
  <1>4. CASE DrillRead \/ DrillDrop \/ DrillRestore
    BY <1>4, DrillIsDrill DEF Lineage!Next
  <1>5. ASSUME ~ UNCHANGED <<alias, operator>>
        PROVE  \/ \E p \in Procs : MoveAlias(p)
               \/ \E v \in DOMAIN versions : Rollback(v)
               \/ DrillRead \/ DrillDrop \/ DrillRestore
    BY <1>5 DEF Next, Step, vars, registry, Launch, Judge, ReportOnly, Ack,
       AssertServable, GetModel, CreateModel, Search, Mint, TagMae, TagWithin,
       TagIncumbent, TagFeatures, SetTag, Reread, Crash
  <1>. QED
    BY <1>1, <1>2, <1>3, <1>4, <1>5

(* Provided promotions neither overlap nor misread the alias, the dozen    *)
(* calls of a promotion are one step of the lineage: the champion that     *)
(* serves is replaced by a run that beats it, as it is recorded then.      *)
THEOREM PromotionRefinesLineage ==
    ASSUME Alone, ~FaultyReads
    PROVE  Spec => RefinesLineage
  BY InitLineage, StepLineage, Inductive, VerdictsKeep, PTL
     DEF Spec, RefinesLineage, Lineage!Spec

(* What it buys, on the registry itself: the recorded KPI-09 of @champion  *)
(* falls by the margin and its KPI-10 does not, against the champion that  *)
(* serves when the alias moves.                                            *)
THEOREM PromotionsImprove ==
    ASSUME Alone, ~FaultyReads
    PROVE  Spec => PromotionImproves
  <1>1. ASSUME IInv, JudgedInv, NEW p \in Procs, MoveAlias(p), alias # NoVersion
        PROVE  /\ \A m \in GateCfg.margins :
                     ImprovesBy(versions[alias'].mae, versions[alias].mae, m)
               /\ versions[alias'].within >= RateOf(alias)
    <2>1. pc[p] = "move" /\ alias' = version[p]
      BY <1>1 DEF MoveAlias
    <2>2. Established(p) /\ Exclusive(p) /\ Judged(p)
      BY <1>1 DEF IInv, ProcessInv, AckInv, JudgedInv
    <2>3. /\ alias = incumbent[p] /\ version[p] \in DOMAIN versions
          /\ versions[version[p]].run = run[p]
          /\ versions[version[p]].mae # NoTag
          /\ versions[version[p]].within # NoTag
          /\ Lineage!Beats(run[p], Title(alias))
      BY <1>1, <2>1, <2>2
         DEF Established, Exclusive, Judged, Promoting, Acting, Tagging
    <2>4. /\ alias \in DOMAIN versions /\ versions[alias].mae # NoTag
          /\ TellsTheTruth(alias) /\ TellsTheTruth(version[p])
      BY <1>1, <2>3 DEF IInv, PointerInv, VersionInv, Defensible
    <2>5. /\ versions[alias].mae = Recorded(score[Title(alias).run].mae)
          /\ versions[version[p]].mae = Recorded(score[run[p]].mae)
          /\ versions[version[p]].within = Recorded(score[run[p]].within)
      BY <2>3, <2>4 DEF TellsTheTruth, Title
    <2>6. RateOf(alias) = Title(alias).within
      BY DEF RateOf, Title
    <2>7. /\ BeatsIncumbent(score[run[p]],
                [mae |-> Recorded(score[Title(alias).run].mae)], GateCfg)
          /\ KeepsIncumbentRate(score[run[p]], Title(alias))
      BY <2>3, SameGate
    <2>. QED
      BY <2>1, <2>5, <2>6, <2>7 DEF BeatsIncumbent, KeepsIncumbentRate
  <1>2. IInv /\ JudgedInv /\ [Next]_vars =>
           [\A p \in Procs : MoveAlias(p) /\ alias # NoVersion =>
              /\ \A m \in GateCfg.margins :
                    ImprovesBy(versions[alias'].mae, versions[alias].mae, m)
              /\ versions[alias'].within >= RateOf(alias)]_vars
    BY <1>1
  <1>. QED
    BY <1>2, Inductive, VerdictsKeep, PTL DEF Spec, PromotionImproves
=============================================================================
