----------------------------- MODULE StoreWatch -----------------------------
(***************************************************************************)
(* The online feature store behind the transformer, the reader that asks   *)
(* it the canary questions and pushes what it saw to a gateway, the rules   *)
(* A-12 and A-13 over that reading, and the drill that breaks the store,    *)
(* the feature server and the reading, one after another.                   *)
(*                                                                         *)
(* One unit of time is the `for` of A-12 (two minutes): Tick is a scrape    *)
(* of the gateway and an evaluation of the rules.                           *)
(***************************************************************************)
EXTENDS Integers, Sequences, FiniteSets

CONSTANTS Sustain12, Sustain13,   \* the `for` of A-12 and of A-13, in ticks
          Fresh,                  \* the age at which A-12 ignores a reading
          Patience,               \* the drill's waits: what |-> ticks
          MaxEvents               \* bounds requests, commands, drills and troubles

ASSUME TimesAssumption ==
  /\ Sustain12 \in Nat /\ Sustain13 \in Nat /\ Fresh \in Nat
  /\ Sustain12 < Sustain13 /\ Sustain13 < Fresh
  /\ DOMAIN Patience = {"health", "a12", "a13", "server"}
  /\ \A w \in DOMAIN Patience : Patience[w] \in Nat

\* What the sources define, told apart as far as an answer can: the zones'
\* centroids, the calendar's first day, the day everybody asks for, the rest.
Parts == {"zones", "sentinel", "day", "rest"}
\* A pickup date the calendar covers, and one past its horizon.
Dates == {"day", "beyond"}
Checks == {"store_reachable", "zone_answers", "nonplace_declines", "calendar_answers"}
Rules == Checks \cup {"incomplete", "absent"}
Clients == {"operator", "drill"}

\* The timeouts the drill waits with outlast the `for` of the rule waited for,
\* and its first look at the rules a scrape.
ASSUME WaitsAssumption ==
  /\ Patience["health"] >= 1
  /\ Patience["a12"] > Sustain12 /\ Patience["a13"] > Sustain13
  /\ MaxEvents \in Nat

VARIABLES store,    \* what the online store holds
          server,   \* whether the feature server has a replica
          quote,    \* one request inside the transformer
          reader,   \* client |-> its run of the reader
          refill,   \* client |-> what its `feast materialize` still has to write
          board,    \* the reader's group on the push gateway
          rule,     \* rule |-> evaluations it has held for
          drill,    \* the drill: its step and what it noted
          left      \* how much may still happen from outside

world == <<store, server>>
vars == <<store, server, quote, reader, refill, board, rule, drill, left>>

NoQuote == [pc |-> "idle", dates |-> {}, located |-> FALSE, status |-> 0, seen |-> {}]
NoReader == [pc |-> "idle", keys |-> -1, failing |-> {}, truth |-> TRUE]
NoBoard == [keys |-> -1, failing |-> {}, truth |-> TRUE, age |-> -1]
NoDrill == [step |-> 0, red |-> FALSE, before |-> 0, replicas |-> "up", waited |-> 0,
            sound |-> TRUE, meddled |-> FALSE]

Holding(s) == CASE s = Parts -> "whole" [] s = {} -> "empty" [] OTHER -> "partial"
Conditions(s, v) == {Holding(s)} \cup ({v} \ {"up"})
Healthy == store = Parts /\ server = "up"

\* A change of the world under the request in flight; a store fills behind a
\* server that is down, too.
Change(s, v) ==
  /\ store' = s
  /\ server' = v
  /\ quote' = [quote EXCEPT !.seen = IF quote.pc = "idle" THEN @ ELSE @ \cup Conditions(s, v)]

Spend == left > 0 /\ left' = left - 1
\* What anybody else does while the drill runs.
Meddle == drill' = [drill EXCEPT !.meddled = drill.step # 0]

-----------------------------------------------------------------------------
(* A request: lookups_for asks the zones, then the calendar.               *)

\* What the calendar view answers to the dates asked of it.
Answered(dates) == dates \cap store

Ask(dates) ==
  /\ quote.pc = "idle"
  /\ Spend
  /\ quote' = [NoQuote EXCEPT !.pc = "zones", !.dates = dates, !.seen = Conditions(store, server)]
  /\ UNCHANGED <<world, reader, refill, board, rule, drill>>

Answer(status) == quote' = [quote EXCEPT !.pc = "answered", !.status = status]

\* zone_table_from_store: a null stays a NaN, it refuses nothing.
LookUpZones ==
  /\ quote.pc = "zones"
  /\ IF server = "down" THEN Answer(503)
     ELSE quote' = [quote EXCEPT !.pc = "calendar", !.located = "zones" \in store]
  /\ UNCHANGED <<world, reader, refill, board, rule, drill, left>>

\* Faulty variant: an unanswered date is the caller's, and no second question is asked.
RefuseUnasked ==
  /\ quote.pc = "calendar"
  /\ CASE server = "down" -> Answer(503)
       [] server = "up" /\ quote.dates \subseteq store -> quote' = [quote EXCEPT !.pc = "predict"]
       [] OTHER -> Answer(422)
  /\ UNCHANGED <<world, reader, refill, board, rule, drill, left>>

\* calendar_from_store: a date it cannot answer refuses the request; whose
\* refusal it is takes a date that was answered, or a second question.
LookUpCalendar ==
  /\ quote.pc = "calendar"
  /\ CASE server = "down" -> Answer(503)
       [] server = "up" /\ quote.dates \subseteq store -> quote' = [quote EXCEPT !.pc = "predict"]
       [] server = "up" /\ ~(quote.dates \subseteq store) /\ Answered(quote.dates) # {} -> Answer(422)
       [] OTHER -> quote' = [quote EXCEPT !.pc = "sentinel"]
  /\ UNCHANGED <<world, reader, refill, board, rule, drill, left>>

\* _calendar_is_alive.
AskSentinel ==
  /\ quote.pc = "sentinel"
  /\ Answer(IF server = "up" /\ "sentinel" \in store THEN 422 ELSE 503)
  /\ UNCHANGED <<world, reader, refill, board, rule, drill, left>>

\* The predictor answers the matrix; when it does not, the handler says 500.
Predict ==
  /\ quote.pc = "predict"
  /\ Answer(200) \/ Answer(500)
  /\ UNCHANGED <<world, reader, refill, board, rule, drill, left>>

Hear ==
  /\ quote.pc = "answered"
  /\ quote' = NoQuote
  /\ UNCHANGED <<world, reader, refill, board, rule, drill, left>>

\* The status a request gets when nothing changes while it is answered.
StatusNow(dates) ==
  CASE server = "down" -> 503
    [] server = "up" /\ dates \subseteq store -> 200
    [] server = "up" /\ ~(dates \subseteq store)
         /\ (Answered(dates) # {} \/ "sentinel" \in store) -> 422
    [] OTHER -> 503

-----------------------------------------------------------------------------
(* The reader: store_watch.py.                                             *)

StartReader(c) ==
  /\ reader[c].pc \in {"idle", "failed"}
  /\ reader' = [reader EXCEPT ![c] = [NoReader EXCEPT !.pc = "keys"]]

\* read_dbsize: an unreadable count is no count, and the check says so.
ReadKeys(c) ==
  /\ reader[c].pc = "keys"
  /\ \/ /\ reader' = [reader EXCEPT ![c].pc = "zones", ![c].keys = Cardinality(store)]
        /\ UNCHANGED <<left, drill>>
     \/ /\ reader' = [reader EXCEPT ![c].pc = "zones", ![c].failing = {"store_reachable"}]
        /\ Spend
        /\ Meddle
  /\ UNCHANGED <<world, quote, refill, board, rule>>

\* Faulty variant: checks that could not be asked are left out of the push.
LookupUnknown(r) == [r EXCEPT !.pc = "push", !.truth = FALSE]
\* A question the server did not answer fails every answer-shaped check.
LookupFailed(r) == [r EXCEPT !.pc = "push", !.truth = FALSE,
                             !.failing = @ \cup (Checks \ {"store_reachable"})]
\* A check that failed because the store had nothing to say.
Failing(r, check, part) == [r EXCEPT !.failing = @ \cup {check : p \in {part} \ store},
                                     !.truth = @ /\ part \in store]

\* read_canary, its two calls; evaluate_canary turns them into the checks.
ReadZones(c) ==
  /\ reader[c].pc = "zones"
  /\ reader' = [reader EXCEPT ![c] =
       IF server = "down" THEN LookupFailed(@)
       ELSE Failing([@ EXCEPT !.pc = "days"], "zone_answers", "zones")]
  /\ UNCHANGED <<world, quote, refill, board, rule, drill, left>>
ReadDays(c) ==
  /\ reader[c].pc = "days"
  /\ reader' = [reader EXCEPT ![c] =
       IF server = "down" THEN LookupFailed(@)
       ELSE Failing([@ EXCEPT !.pc = "push"], "calendar_answers", "day")]
  /\ UNCHANGED <<world, quote, refill, board, rule, drill, left>>

\* push_metrics is a PUT: the group is replaced whole, stamped with the time.
Push(c) ==
  /\ reader[c].pc = "push"
  /\ \/ /\ reader' = [reader EXCEPT ![c] = NoReader]
        /\ board' = [keys |-> reader[c].keys, failing |-> reader[c].failing,
                     truth |-> reader[c].truth, age |-> 0]
        /\ UNCHANGED <<left, drill>>
     \/ /\ reader' = [reader EXCEPT ![c] = [NoReader EXCEPT !.pc = "failed"]]
        /\ Spend
        /\ Meddle
        /\ UNCHANGED board
  /\ UNCHANGED <<world, quote, refill, rule>>

\* `make store-watch`.
Watch ==
  /\ Spend
  /\ StartReader("operator")
  /\ Meddle
  /\ UNCHANGED <<world, quote, refill, board, rule>>

-----------------------------------------------------------------------------
(* Filling the store and losing it.                                        *)

\* `feast materialize` writes the views key by key, in no order it promises.
Write(c) ==
  \E p \in refill[c] :
    /\ refill' = [refill EXCEPT ![c] = @ \ {p}]
    /\ Change(store \cup {p}, server)
    /\ UNCHANGED <<reader, board, rule, drill, left>>
\* ... and can die on the way.
Abandon(c) ==
  /\ refill[c] # {}
  /\ refill' = [refill EXCEPT ![c] = {}]
  /\ Spend
  /\ Meddle
  /\ UNCHANGED <<world, quote, reader, board, rule>>
\* `make feast-materialize`.
Materialize ==
  /\ refill["operator"] = {}
  /\ Spend
  /\ refill' = [refill EXCEPT !["operator"] = Parts]
  /\ Meddle
  /\ UNCHANGED <<world, quote, reader, board, rule>>

Lose ==
  /\ \/ store # {} /\ Change({}, server) /\ UNCHANGED board
     \/ server = "up" /\ Change(store, "down") /\ UNCHANGED board
     \/ board # NoBoard /\ board' = NoBoard /\ UNCHANGED <<store, server, quote>>
  /\ Spend
  /\ Meddle
  /\ UNCHANGED <<reader, refill, rule>>

-----------------------------------------------------------------------------
(* The rules.                                                              *)

IsFresh == board # NoBoard /\ board.age < Fresh
Holds(r) ==
  CASE r \in Checks -> IsFresh /\ r \in board.failing
    [] r = "incomplete" -> IsFresh /\ board.keys # -1 /\ board.keys < Cardinality(Parts)
    [] r = "absent" -> board = NoBoard

Sustain(r) == IF r = "absent" THEN Sustain13 ELSE Sustain12
Firing(r) == rule[r] > Sustain(r)
Inactive(r) == rule[r] = 0

Least(m, n) == IF m < n THEN m ELSE n

Waiting == {"fires", "quiet", "answers"}

-----------------------------------------------------------------------------
(* The drill: what each phase does and checks, in order.                   *)

Op(op, who, arg) == [op |-> op, who |-> who, arg |-> arg]
Canary == Checks
A12 == Checks \cup {"incomplete"}

PhaseHealth ==
  << Op("keys", "none", {}), Op("reader", "must", {}), Op("quote", 200, {"day"}),
     Op("quote", 422, {"beyond"}), Op("quiet", "health", Rules) >>
\* Faulty variant: nobody reads the store again after the refill.
PhaseEmptyUnread ==
  << Op("flush", "none", {}), Op("quote", 503, {"day"}), Op("quote", 503, {"beyond"}),
     Op("reader", "may", {}), Op("fires", "a12", Canary), Op("fires", "a12", {"incomplete"}),
     Op("names", "none", {"zone_answers", "calendar_answers"}), Op("silent", "none", {"absent"}),
     Op("refill", "none", {}), Op("restored", "none", {}),
     Op("quiet", "a12", Canary), Op("quiet", "a12", {"incomplete"}), Op("quote", 200, {"day"}) >>
PhaseEmpty ==
  << Op("flush", "none", {}), Op("quote", 503, {"day"}), Op("quote", 503, {"beyond"}),
     Op("reader", "may", {}), Op("fires", "a12", Canary), Op("fires", "a12", {"incomplete"}),
     Op("names", "none", {"zone_answers", "calendar_answers"}), Op("silent", "none", {"absent"}),
     Op("refill", "none", {}), Op("restored", "none", {}), Op("reader", "may", {}),
     Op("quiet", "a12", Canary), Op("quiet", "a12", {"incomplete"}), Op("quote", 200, {"day"}) >>
PhaseUnreachable ==
  << Op("scale", "down", {}), Op("quote", 503, {"day"}), Op("scale", "back", {}),
     Op("answers", "server", {"day"}) >>
PhaseAbsent ==
  << Op("inactive", "none", {"absent"}), Op("delete", "none", {}), Op("keys", "none", {}),
     Op("fires", "a13", {"absent"}), Op("silent", "none", Canary), Op("reader", "may", {}),
     Op("quiet", "a12", {"absent"}) >>
Script == PhaseHealth \o PhaseEmpty \o PhaseUnreachable \o PhaseAbsent

Running == drill.step \in 1..Len(Script)
Step == Script[drill.step]
At(op) == Running /\ Step.op = op
\* Faulty variant: a failed check skips what follows it.
CheckOrSkip(ok) ==
  drill' = [drill EXCEPT !.step = @ + (IF ok THEN 1 ELSE 2), !.waited = 0, !.red = @ \/ ~ok]
\* Checks.__call__ notes a failure and the drill goes on.
Check(ok) == drill' = [drill EXCEPT !.step = @ + 1, !.waited = 0, !.red = @ \/ ~ok]

StartDrill ==
  /\ drill.step = 0
  /\ Spend
  /\ drill' = [NoDrill EXCEPT !.step = 1, !.sound = store = Parts /\ server = "up",
                 !.meddled = reader["operator"].pc \notin {"idle", "failed"} \/ refill["operator"] # {}]
  /\ UNCHANGED <<world, quote, reader, refill, board, rule>>

\* A check of what can be read at once.
Look ==
  /\ \/ At("keys") /\ Check(store # {})
     \/ At("quote") /\ Check(/\ StatusNow(Step.arg) = Step.who
                             /\ Step.who = 200 => "zones" \in store)
     \/ At("names") /\ Check(\A r \in Step.arg : Firing(r))
     \/ At("silent") /\ Check(\A r \in Step.arg : ~Firing(r))
     \/ At("inactive") /\ Check(\A r \in Step.arg : Inactive(r))
     \/ At("restored") /\ Check(Cardinality(store) = drill.before)
  /\ UNCHANGED <<world, quote, reader, refill, board, rule, left>>

\* run_reader: started, waited for; only the first phase reads its exit code.
RunReader ==
  /\ At("reader")
  /\ \/ /\ drill.waited = 0
        /\ StartReader("drill")
        /\ drill' = [drill EXCEPT !.waited = 1]
        /\ UNCHANGED board
     \/ /\ drill.waited = 1
        /\ reader["drill"].pc \in {"idle", "failed"}
        /\ Check(Step.who = "must" => reader["drill"].pc = "idle")
        /\ UNCHANGED <<reader, board>>
  /\ UNCHANGED <<world, quote, refill, rule, left>>

Inject ==
  /\ \/ /\ At("flush")
        /\ Change({}, server)
        /\ drill' = [drill EXCEPT !.step = @ + 1, !.before = Cardinality(store)]
        /\ UNCHANGED board
     \/ /\ At("scale") /\ Step.who = "down"
        /\ Change(store, "down")
        /\ drill' = [drill EXCEPT !.step = @ + 1, !.replicas = server, !.red = @ \/ server = "down"]
        /\ UNCHANGED board
     \/ /\ At("delete")
        /\ board' = NoBoard
        /\ drill' = [drill EXCEPT !.step = @ + 1]
        /\ UNCHANGED <<store, server, quote>>
  /\ UNCHANGED <<reader, refill, rule, left>>

Undo ==
  /\ \/ /\ At("refill") /\ drill.waited = 0
        /\ refill' = [refill EXCEPT !["drill"] = Parts]
        /\ drill' = [drill EXCEPT !.waited = 1]
        /\ UNCHANGED <<store, server, quote>>
     \/ /\ At("refill") /\ drill.waited = 1 /\ refill["drill"] = {}
        /\ drill' = [drill EXCEPT !.step = @ + 1, !.waited = 0]
        /\ UNCHANGED <<store, server, quote, refill>>
     \/ /\ At("scale") /\ Step.who = "back"
        /\ Change(store, drill.replicas)
        /\ drill' = [drill EXCEPT !.step = @ + 1]
        /\ UNCHANGED refill
  /\ UNCHANGED <<reader, board, rule, left>>

\* wait_for: what it polls for, or its timeout.
Reached == CASE Step.op = "fires" -> \E r \in Step.arg : Firing(r)
             [] Step.op = "quiet" -> \A r \in Step.arg : Inactive(r)
             [] Step.op = "answers" -> StatusNow(Step.arg) = 200
Wait ==
  /\ Running /\ Step.op \in Waiting
  /\ Reached \/ drill.waited = Patience[Step.who]
  /\ Check(Reached)
  /\ UNCHANGED <<world, quote, reader, refill, board, rule, left>>

\* Nothing catches a kill: what was broken stays broken.
KillDrill ==
  /\ Running
  /\ Spend
  /\ drill' = NoDrill
  /\ reader' = [reader EXCEPT !["drill"] = NoReader]
  /\ refill' = [refill EXCEPT !["drill"] = {}]
  /\ UNCHANGED <<world, quote, board, rule>>

Passed == drill.step = Len(Script) + 1 /\ ~drill.red
Red == drill.step = Len(Script) + 1 /\ drill.red
CloseDrill ==
  /\ Passed \/ Red
  /\ drill' = NoDrill
  /\ UNCHANGED <<world, quote, reader, refill, board, rule, left>>

\* Time passes between commands and while the drill waits: a request takes
\* milliseconds, a reader and a refill seconds, nothing on the scale of a tick.
Quiet ==
  /\ quote.pc = "idle"
  /\ \A c \in Clients : reader[c].pc \in {"idle", "failed"} /\ refill[c] = {}
Tick ==
  /\ Quiet
  /\ Running => (Step.op \in Waiting /\ ~Reached /\ drill.waited < Patience[Step.who])
  /\ drill.step <= Len(Script)
  /\ rule' = [r \in Rules |-> IF Holds(r) THEN Least(rule[r] + 1, Sustain(r) + 1) ELSE 0]
  /\ board' = IF board = NoBoard THEN board ELSE [board EXCEPT !.age = Least(@ + 1, Fresh)]
  /\ drill' = IF Running THEN [drill EXCEPT !.waited = @ + 1] ELSE drill
  /\ UNCHANGED <<world, quote, reader, refill, left>>

-----------------------------------------------------------------------------
Init ==
  /\ store = Parts
  /\ server = "up"
  /\ quote = NoQuote
  /\ reader = [c \in Clients |-> NoReader]
  /\ refill = [c \in Clients |-> {}]
  /\ board = [keys |-> Cardinality(Parts), failing |-> {}, truth |-> TRUE, age |-> Fresh]
  /\ rule = [r \in Rules |-> 0]
  /\ drill = NoDrill
  /\ left = MaxEvents

Handling == LookUpZones \/ LookUpCalendar \/ AskSentinel \/ Predict \/ Hear
ReadOn(c) == ReadKeys(c) \/ ReadZones(c) \/ ReadDays(c) \/ Push(c)
Drilling == Look \/ RunReader \/ Inject \/ Undo \/ Wait \/ CloseDrill

Next ==
  \/ \E dates \in (SUBSET Dates) \ {{}} : Ask(dates)
  \/ Handling
  \/ \E c \in Clients : ReadOn(c) \/ Write(c) \/ Abandon(c)
  \/ Watch \/ Materialize \/ Lose
  \/ StartDrill \/ Drilling \/ KillDrill
  \/ Tick

Spec == Init /\ [][Next]_vars
\* Prometheus evaluates on its own clock; a command that was started goes on.
FairSpec == Spec /\ WF_vars(Tick) /\ WF_vars(Drilling) /\ WF_vars(Handling)
                 /\ \A c \in Clients : WF_vars(ReadOn(c)) /\ WF_vars(Write(c))
-----------------------------------------------------------------------------
(* Properties.                                                             *)

Reading == [keys : -1..Cardinality(Parts), failing : SUBSET Checks, truth : BOOLEAN]

\* Every variable keeps its type.
TypeOK ==
  /\ store \subseteq Parts
  /\ server \in {"up", "down"}
  /\ quote.pc \in {"idle", "zones", "calendar", "sentinel", "predict", "answered"}
  /\ quote.dates \subseteq Dates /\ quote.located \in BOOLEAN
  /\ quote.status \in {0, 200, 422, 500, 503}
  /\ quote.seen \subseteq {"whole", "partial", "empty", "down"}
  /\ \A c \in Clients :
       /\ reader[c].pc \in {"idle", "keys", "zones", "days", "push", "failed"}
       /\ [f \in {"keys", "failing", "truth"} |-> reader[c][f]] \in Reading
       /\ refill[c] \subseteq Parts
  /\ [f \in {"keys", "failing", "truth"} |-> board[f]] \in Reading
  /\ board.age \in -1..Fresh
  /\ \A r \in Rules : rule[r] \in 0..Sustain(r) + 1
  /\ drill.step \in 0..Len(Script) + 1
  /\ Running /\ Step.op \in Waiting => drill.waited <= Patience[Step.who]
  /\ left \in 0..MaxEvents

\* F-019 and F-062. Past the horizon nobody is ever quoted. And unless the store
\* was half filled at some moment of the request, a number rests on the zone's
\* own centroid, a covered date is never the caller's fault, and a 503 means the
\* store was lost: whatever is lost, filled or scaled between the two lookups.
HonestAnswers ==
  quote.pc = "answered" =>
    /\ quote.status = 200 => quote.dates \subseteq {"day"}
    /\ "partial" \notin quote.seen =>
         /\ quote.status = 200 => quote.located
         /\ quote.status = 422 => "beyond" \in quote.dates
         /\ quote.status = 503 => quote.seen \cap {"empty", "down"} # {}

\* The drill's verdict, when nobody else acted during it: PASSED means that the
\* store is whole, the server up and the reading on the board a healthy one,
\* whatever an earlier drill that was killed left behind; and a drill that began
\* on a sound platform is never RED, so its predictions are those of the code.
VerdictIsEarned ==
  ~drill.meddled =>
    /\ Passed => Healthy /\ board.failing = {} /\ board.keys = Cardinality(Parts)
    /\ Red => ~drill.sound

DrillIsSound == TypeOK /\ VerdictIsEarned

\* A reading that met a loss pages: unless it is replaced by a sound one or the
\* board is lost first, a canary rule fires before the reading grows stale.
LossIsPaged ==
  (board.age = 0 /\ ~board.truth) ~> \/ board = NoBoard \/ board.truth
                                     \/ \E r \in Checks : Firing(r)

\* alerting_rules.yml says the `for 2m` of A-12 covers a reader that ran during a
\* refill: a page starts only while something is wrong.
PagesOnTrouble ==
  [][\A r \in A12 : ~Firing(r) /\ Firing(r)' => ~Healthy]_vars

=============================================================================
