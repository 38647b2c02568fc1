------------------------------ MODULE MCSafety ------------------------------
(***************************************************************************)
(* One run for four systems of which only safety is claimed: the feature   *)
(* sources, materialization and their comparisons, the load client, the    *)
(* scale provenance of the registry, and what clients push to the gateway. *)
(* They share no state, so a behaviour is of one of them, the others'      *)
(* variables staying as they are.                                          *)
(***************************************************************************)
EXTENDS FeastChecks

CONSTANTS
    Workers, Rates, Total, KillAt, Timeout, TailLength, MaxFaults,
    Procs, Runs, Refits, LegacyRefits, MaxJobs, MaxVersions,
    Clients, Span, Fresh, MaxCount, MaxVersion, MaxTroubles

VARIABLES
    of,     \* "features", "load", "provenance" or "signals"
    phase, steps, clock, next, worker, attempts, pod, alias, driver, record, faults,
    versions, champion, jobs, pc, at, seen, verdicts,
    counter, client, samples, served, named, reader, posted, held, troubles, owed, apart

load == <<phase, steps, clock, next, worker, attempts, pod, alias, driver,
          record, faults>>
provenance == <<versions, champion, jobs, pc, at, seen, verdicts>>
signals == <<counter, client, samples, served, named, reader, posted, held,
             troubles, owed, apart>>
any == <<of, vars, load, provenance, signals>>

L == INSTANCE LoadClient
P == INSTANCE ScaleProvenance
C == INSTANCE ClientSignals WITH champion <- named

ASSUME ConstantsAssumption ==
    L!LoadAssumption /\ P!ProvenanceAssumption /\ C!SignalsAssumption

(* Kind a is settled in both months, kind b from the second on.            *)
MCSettled0 == {<<[a |-> 1, b |-> 0], [a |-> 1, b |-> 1]>>}
MCStaticFiles == <<"zone_static">>
MCDeclared == {<<"a", 1>>, <<"a", 2>>, <<"a", 3>>, <<"b", 3>>}
MCRates == <<2, 4>>

AnyInit ==
    /\ of \in {"features", "load", "provenance", "signals"}
    /\ Init /\ L!Init /\ P!Init /\ C!Init
    /\ of # "features" => \A view \in Views : sources[view] = NoSource
    /\ of # "provenance" => versions = <<>>

InFeatures(A) == of = "features" /\ A /\ UNCHANGED <<of, load, provenance, signals>>
InLoad(A) == of = "load" /\ A /\ UNCHANGED <<of, vars, provenance, signals>>
InProvenance(A) == of = "provenance" /\ A /\ UNCHANGED <<of, vars, load, signals>>
InSignals(A) == of = "signals" /\ A /\ UNCHANGED <<of, vars, load, provenance>>

AnyNext ==
    \/ \E months \in SUBSET TrainMonths : InFeatures(Meanwhile(BuildSources(months)))
    \/ InFeatures(Meanwhile(FitSources)) \/ InFeatures(Meanwhile(WriteSource))
    \/ InFeatures(Meanwhile(KillBuild)) \/ InFeatures(Meanwhile(Materialize))
    \/ InFeatures(Meanwhile(FillView)) \/ InFeatures(Meanwhile(KillFill))
    \/ InFeatures(Meanwhile(Resettle)) \/ InFeatures(Meanwhile(Rederive))
    \/ InFeatures(Retrieve) \/ InFeatures(ReadAnswers) \/ InFeatures(JudgeRetrieval)
    \/ InFeatures(Compare) \/ InFeatures(ReadOnline) \/ InFeatures(ReadOffline)
    \/ InFeatures(JudgeOnline) \/ InFeatures(AskServer) \/ InFeatures(JudgeServer)
    \/ InFeatures(Raise) \/ InFeatures(Plant) \/ InFeatures(Restore)
    \/ InFeatures(KillDrill)
    \/ InLoad(L!Preflight) \/ InLoad(L!RampStep) \/ InLoad(L!Headline)
    \/ \E w \in Workers : InLoad(L!TakeIndex(w)) \/ InLoad(L!Send(w)) \/ InLoad(L!Answer(w))
    \/ InLoad(L!Tick) \/ InLoad(L!OnSecond) \/ InLoad(L!Die) \/ InLoad(L!Heal)
    \/ InLoad(L!MoveAlias) \/ InLoad(L!Finish)
    \/ \E p \in Procs :
          \/ \E r \in Runs : InProvenance(P!Promote(p, r))
          \/ InProvenance(P!PromoteTag(p, "rows", "cap"))
          \/ InProvenance(P!PromoteTag(p, "cap", "source"))
          \/ InProvenance(P!PromoteTag(p, "source", "alias"))
          \/ InProvenance(P!PromoteAlias(p))
          \/ InProvenance(P!Backfill(p)) \/ InProvenance(P!BackfillRead(p))
          \/ InProvenance(P!BackfillTag(p, "write_cap", "cap", "write_rows"))
          \/ InProvenance(P!BackfillTag(p, "write_rows", "rows", "write_source"))
          \/ InProvenance(P!BackfillTag(p, "write_source", "source", "next"))
          \/ InProvenance(P!BackfillNext(p)) \/ InProvenance(P!Stop(p))
    \/ \E v \in DOMAIN versions : InProvenance(P!Rollback(v))
    \/ \E where \in {"host", "pod"} : InProvenance(P!Retrain(where))
    \/ \E c \in Clients : \/ InSignals(C!Refuse(c)) \/ InSignals(C!Push(c))
                          \/ InSignals(C!PushFails(c))
    \/ InSignals(C!LoseGateway) \/ InSignals(C!AskEndpoint) \/ InSignals(C!AskRegistry)
    \/ InSignals(C!MoveAlias) \/ InSignals(C!Deploy) \/ InSignals(C!Tick)

AnySpec == AnyInit /\ [][AnyNext]_any

(* LoadClient.LoadIsMeasured.                                              *)
LoadIsMeasured == L!LoadIsMeasured
(* ScaleProvenance.ProvenanceIsSound.                                      *)
ProvenanceIsSound == P!ProvenanceIsSound
(* ClientSignals.SignalsAreHonest.                                         *)
SignalsAreHonest == C!SignalsAreHonest
(* ScaleProvenance.ScaleNeverChanges.                                      *)
ScaleNeverChanges == P!ScaleNeverChanges
=============================================================================
