--------------------------- MODULE MCMartsPublish ---------------------------
(***************************************************************************)
(* Two instances of MartsPublish in one run: one publisher with faults and *)
(* re-derived months, of which everything is asked; and two publishers at  *)
(* once (`make marts` beside the pipeline's) on data that stays, of which  *)
(* only that no published table is lost.                                   *)
(***************************************************************************)
EXTENDS MartsPublish

VARIABLE together   \* whether there are two publishers

(* A month re-derived once has more rows, re-derived twice as many.        *)
MCRowsIn == <<1, 2, 2>>

One == CHOOSE p \in Publishers : TRUE

MCInit ==
    /\ Init
    /\ together \in BOOLEAN
    /\ together => \A m \in Months : source[m] = 1

Both(A) == A /\ UNCHANGED together
Alone(A) == ~together /\ A /\ UNCHANGED together

MCNext ==
    \/ \E m \in Months : Alone(Restate(m))
    \/ \E p \in IF together THEN Publishers ELSE {One} :
          \/ \E named \in SUBSET Months : Both(Launch(p, named))
          \/ Both(Retry(p)) \/ Both(Build(p)) \/ Both(Begin(p))
          \/ Both(DeleteMonth(p)) \/ Both(StreamMonth(p)) \/ Both(DropStaging(p))
          \/ Both(CreateStaging(p)) \/ Both(StreamStaging(p)) \/ Both(Swap(p))
          \/ Both(Index(p)) \/ Both(Reconcile(p))
          \/ Alone(BreakMonth(p)) \/ Alone(BreakStaging(p)) \/ Alone(Kill(p))

MCvars == <<vars, together>>

(* The fairness of MartsPublish.FairSpec, of a publisher that is alone:    *)
(* Converges speaks of it, as nothing is re-derived beside two.            *)
MCSpec ==
    /\ MCInit /\ [][MCNext]_MCvars
    /\ WF_MCvars(Alone(Progress(One))) /\ WF_MCvars(Alone(Retry(One)))

(* MartsPublish.BoardIsWhole, MartsPublish.GreenIsComplete and             *)
(* MartsPublish.NamedMonthsFresh, with one publisher.                      *)
AloneBoardIsTrue == ~together => BoardIsWhole /\ GreenIsComplete /\ NamedMonthsFresh

(* What a reader of the aggregates sees, if what is there is of one        *)
(* content.                                                                *)
Shown == {content \in [Months -> Generations] : live[Aggregates] = WholeTable(content)}

Board == INSTANCE AtomicPublish WITH taken <- built[One], board <- Shown

(* With one publisher MartsPublish implements AtomicPublish: a reader      *)
(* always sees the data of one moment, wherever a publish is killed and    *)
(* whatever its retry finds, and a publish replaces it by what its build   *)
(* found, never by older data.                                             *)
AlonePublishes ==
    /\ ~together => Board!Init
    /\ [][~together => [Board!Next]_(Board!vars)]_MCvars
=============================================================================
