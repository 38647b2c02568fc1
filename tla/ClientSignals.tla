----------------------------- MODULE ClientSignals -----------------------------
(***************************************************************************)
(* Two facts no server exports, pushed to the gateway by whoever knows      *)
(* them: a quote client counts the quotes it refused, by reading the        *)
(* counter back and pushing one more, and a reader pushes the version the   *)
(* endpoint answers with beside the one the registry names.  The client     *)
(* half of A-3 pages on any increase in the hour, A-4 on a fresh pair that  *)
(* differs.                                                                 *)
(*                                                                         *)
(* Tick is a scrape and an evaluation of the rules; Span of them make the   *)
(* hour of A-3, Fresh of them the half hour of A-4.                        *)
(***************************************************************************)
EXTENDS Integers, Sequences, FiniteSets

CONSTANTS Clients,
          Span,        \* scrapes in A-3's range
          Fresh,       \* evaluations for which a pushed pair may page
          MaxCount,    \* bounds the counter
          MaxVersion,  \* bounds the versions
          MaxTroubles  \* unreadable answers, failed pushes, lost gateways

\* Of the constants; the module that gives them values assumes it.
SignalsAssumption ==
  /\ Span \in Nat /\ Span > 2 /\ Fresh \in Nat /\ Fresh > 2
  /\ MaxCount \in Nat /\ MaxVersion \in Nat \ {0} /\ MaxTroubles \in Nat

None == 0             \* no sample; a counter starts at one
NoPair == [served |-> None, registry |-> None, age |-> Fresh]

VARIABLES counter,    \* the refusals the gateway holds
          client,     \* client |-> what it does
          samples,    \* what the last scrapes found, the newest last
          served,     \* the version the endpoint answers with
          champion,   \* the version the alias names
          reader,     \* one run of the version reader
          posted,     \* the pair on the gateway, and its age
          held,       \* rule |-> evaluations it has held for
          troubles,
          owed,       \* ghost: evaluations a counted refusal has waited for its page
          apart       \* ghost: evaluations since endpoint and alias last differed

refusals == <<counter, client, samples, owed>>
versions == <<served, champion, reader, posted, apart>>
vars == <<refusals, versions, held, troubles>>

Trouble == troubles > 0 /\ troubles' = troubles - 1
Idle == [at |-> "idle", base |-> None]

-----------------------------------------------------------------------------
(* The quote client.                                                       *)

\* record_refusal, up to the answer: absent or unreadable reads as zero.
Refuse(c) ==
  /\ client[c].at = "idle" /\ counter < MaxCount
  /\ \/ client' = [client EXCEPT ![c] = [at |-> "counting", base |-> counter]] /\ UNCHANGED troubles
     \/ client' = [client EXCEPT ![c] = [at |-> "counting", base |-> None]] /\ Trouble
  /\ UNCHANGED <<counter, samples, owed, versions, held>>

\* Faulty variant: a refusal is pushed as an event, not as a count.
OneMore(base) == 1
Counted(base) == base + 1

\* The ghost owes a page for a refusal counted upon a value that was read back and
\* that carries on from what the last scrape found; it owes none for the first of a
\* series, or when one is counted from zero before the next scrape.
CarriesOn(base) == samples[Span] # None /\ base >= samples[Span]
Owe(base) == owed' = IF CarriesOn(base) THEN IF owed = 0 THEN 1 ELSE owed
                     ELSE IF owed = 1 THEN 0 ELSE owed
Push(c) ==
  /\ client[c].at # "idle"
  /\ counter' = Counted(client[c].base)
  /\ Owe(client[c].base)
  /\ client' = [client EXCEPT ![c] = Idle]
  /\ UNCHANGED <<samples, versions, held, troubles>>

\* A push that fails is a line on the terminal: the quote's exit is its own.
PushFails(c) ==
  /\ client[c].at # "idle"
  /\ Trouble
  /\ client' = [client EXCEPT ![c] = Idle]
  /\ UNCHANGED <<counter, samples, owed, versions, held>>

\* The gateway's pod is replaced: it holds its last checkpoint, or nothing.
LoseGateway ==
  /\ counter # None \/ posted # NoPair
  /\ Trouble
  /\ counter' \in {None, samples[Span]}
  /\ posted' = NoPair
  /\ owed' = IF owed = 1 THEN 0 ELSE owed
  /\ UNCHANGED <<client, samples, served, champion, reader, apart, held>>

-----------------------------------------------------------------------------
(* The version reader.                                                     *)

\* served_version: the stamp on one answer.
AskEndpoint ==
  /\ reader.at = "idle"
  /\ \/ reader' = [at |-> "asked", served |-> served] /\ UNCHANGED troubles
     \/ reader' = [at |-> "asked", served |-> None] /\ Trouble
  /\ UNCHANGED <<refusals, served, champion, posted, apart, held>>

\* Faulty variant: a side that could not be read is pushed as a zero.
PairOrZero(version) == posted' = [served |-> reader.served, registry |-> version, age |-> 0]
\* A missing reading is not pushed.
Pair(version) ==
  IF reader.served = None \/ version = None THEN UNCHANGED posted
  ELSE posted' = [served |-> reader.served, registry |-> version, age |-> 0]

\* registry_version, through the resolver, and the push.
AskRegistry ==
  /\ reader.at = "asked"
  /\ \/ Pair(champion) /\ UNCHANGED troubles
     \/ Pair(None) /\ Trouble
  /\ reader' = [at |-> "idle", served |-> None]
  /\ UNCHANGED <<refusals, served, champion, apart, held>>

\* A promotion or a rollback moves the alias; the deployment follows later.
MoveAlias ==
  /\ \E v \in 1..MaxVersion : v # champion /\ champion' = v
  /\ apart' = IF champion' # served THEN 0 ELSE apart
  /\ Trouble
  /\ UNCHANGED <<refusals, served, reader, posted, held>>

Deploy ==
  /\ served # champion
  /\ served' = champion
  /\ UNCHANGED <<refusals, champion, reader, posted, apart, held, troubles>>

-----------------------------------------------------------------------------
(* Prometheus.                                                             *)

\* increase(): the steps between the samples there are; after a fall the counter is
\* taken to have started again, so any two that differ make an increase.
Increased(s) == \E i, j \in DOMAIN s : s[i] # None /\ s[j] # None /\ s[i] # s[j]
Differs(pair) == pair.served # pair.registry /\ pair.age < Fresh

\* Both sustain beyond one evaluation.
Firing(rule) == held[rule] > 1
Held(rule, holds) == IF ~holds THEN 0 ELSE IF held[rule] > 1 THEN held[rule] ELSE held[rule] + 1

\* A client's two calls, and the reader's, take less than the time of a scrape.
Tick ==
  /\ samples' = Append(Tail(samples), counter)
  /\ held' = [a3 |-> Held("a3", Increased(samples')), a4 |-> Held("a4", Differs(posted))]
  /\ owed' = IF held'["a3"] > 1 \/ owed = 0 THEN 0 ELSE owed + 1
  /\ posted' = IF posted.age < Fresh THEN [posted EXCEPT !.age = @ + 1] ELSE posted
  /\ apart' = IF served # champion THEN 0 ELSE IF apart > Fresh + 1 THEN apart ELSE apart + 1
  /\ \A c \in Clients : client[c].at = "idle"
  /\ reader.at = "idle"
  /\ UNCHANGED <<counter, client, served, champion, reader, troubles>>

Init ==
  /\ counter = None /\ client = [c \in Clients |-> Idle]
  /\ samples = [i \in 1..Span |-> None] /\ owed = 0
  /\ served = 1 /\ champion = 1 /\ reader = [at |-> "idle", served |-> None]
  /\ posted = NoPair /\ apart = Fresh + 2
  /\ held = [a3 |-> 0, a4 |-> 0] /\ troubles = MaxTroubles

Next ==
  \/ \E c \in Clients : Refuse(c) \/ Push(c) \/ PushFails(c)
  \/ LoseGateway \/ AskEndpoint \/ AskRegistry \/ MoveAlias \/ Deploy \/ Tick

Spec == Init /\ [][Next]_vars
\* Prometheus scrapes, and a command that was started goes on.
FairSpec == Spec /\ WF_vars(Tick) /\ WF_vars(AskRegistry) /\ \A c \in Clients : WF_vars(Push(c))

-----------------------------------------------------------------------------
(* Properties.                                                             *)

TypeOK ==
  /\ counter \in 0..MaxCount /\ Len(samples) = Span /\ owed \in Nat
  /\ \A c \in Clients : client[c].at \in {"idle", "counting"}
  /\ served \in 1..MaxVersion /\ champion \in 1..MaxVersion
  /\ reader.at \in {"idle", "asked"} /\ troubles \in 0..MaxTroubles

\* "losing one of two simultaneous refusals cannot change its verdict": a refusal
\* counted on a series Prometheus has seen is paged after its sustain, whichever
\* clients overwrite each other. (client_counters.py, the read-modify-write.)
RefusalIsPaged == owed <= 2

\* A-4 pages of a disagreement there was, inside its half hour, also when a side
\* could not be read, the alias moved between the two questions or the gateway
\* lost the pair. (push_serving_version.py.)
MismatchWasReal == Firing("a4") => apart <= Fresh

\* What the gateway says for others is so.
SignalsAreHonest == TypeOK /\ RefusalIsPaged /\ MismatchWasReal

\* "a single event IS the event": every refusal that was pushed is paged. The
\* series that appears with its first count shows no increase.
EveryRefusalIsPaged ==
  (counter # None /\ samples[Span] = None) ~> (Firing("a3") \/ counter = None)

\* "This condition has no transient form": A-4 fires while the two disagree.
MismatchIsNow == Firing("a4") => served # champion
=============================================================================
