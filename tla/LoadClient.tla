----------------------------- MODULE LoadClient -----------------------------
(***************************************************************************)
(* The open-loop load client and the self-heal drill that kills the         *)
(* predictor inside its window. One unit of time is a second and one        *)
(* request is due at each; worker threads take indices under a lock, and    *)
(* the driver calls back once a second, with the second it should have      *)
(* been. What the drill says of the outage is computed from the attempts.   *)
(***************************************************************************)
EXTENDS Integers, Sequences, FiniteSets, FiniteSetsExt

CONSTANTS Workers,
          Rates,      \* the ramp's steps
          Total,      \* requests in the self-heal window, one a second
          KillAt,
          Timeout,    \* seconds a request may take
          TailLength, \* the last seconds in which no second may be dead
          MaxFaults   \* blips, slow restarts, failed deletes, moved aliases

\* Of the constants; the module that gives them values assumes it. The kill is well
\* before the last seconds that are looked at (30 of 180, and the last 30).
LoadAssumption ==
  /\ Workers # {}
  /\ Total \in Nat /\ KillAt \in Nat /\ Timeout \in Nat \ {0} /\ MaxFaults \in Nat
  /\ TailLength \in Nat /\ TailLength > 1 /\ KillAt + TailLength < Total
  /\ Rates \in Seq(Nat) /\ Rates # <<>>

VARIABLES phase,     \* of the drill
          steps,     \* of the ramp
          clock, next,
          worker,    \* thread |-> what it does
          attempts,
          pod,       \* the predictor: its object, its phase and its version
          alias,
          driver,    \* the callback's next second, and when it killed
          record,
          faults

load == <<clock, next, worker, attempts>>
world == <<pod, alias>>
vars == <<phase, steps, load, world, driver, record, faults>>

Idle == [at |-> "idle"]
NoRecord == [passed |-> FALSE, recovered |-> -1, up |-> -1]
Fault == faults > 0 /\ faults' = faults - 1
Up == pod.phase \in {"up", "dying"}

-----------------------------------------------------------------------------
(* Preflight, ramp, headline.                                              *)

\* A warm-up that fails, or no ready pod, raises.
Preflight ==
  /\ phase = "preflight"
  /\ \/ phase' = "ramp" /\ UNCHANGED faults
     \/ phase' = "raised" /\ Fault
  /\ UNCHANGED <<steps, load, world, driver, record>>

\* Whether the container's own CPU counter, over the window, is near its limit.
Saturation == {[hot |-> FALSE], [hot |-> TRUE]}
\* One short window per rate: errors, the rate held, the share of its CPU limit.
RampStep ==
  /\ phase = "ramp" /\ Len(steps) < Len(Rates)
  /\ \E clean \in BOOLEAN, held \in BOOLEAN, cpu \in Saturation :
       steps' = Append(steps, [rate |-> Rates[Len(steps) + 1], clean |-> clean, held |-> held,
                               hot |-> cpu.hot])
  /\ UNCHANGED <<phase, load, world, driver, record, faults>>

\* Faulty variant: a step at the throttle ceiling may be the headline.
MeasuredHot(step) == step.clean /\ step.held
Measured(step) == step.clean /\ step.held /\ ~step.hot
\* choose_headline_rate; with no step fit to be it, the first.
HeadlineRate ==
  LET fit == {i \in DOMAIN steps : Measured(steps[i])}
  IN  IF fit = {} THEN steps[1].rate ELSE Max({steps[i].rate : i \in fit})

Headline ==
  /\ phase = "ramp" /\ Len(steps) = Len(Rates)
  /\ phase' = "selfheal"
  /\ steps' = <<>>                         \* on disk; nothing below reads them
  /\ UNCHANGED <<load, world, driver, record, faults>>

-----------------------------------------------------------------------------
(* run_load.                                                               *)

\* Faulty variant: the index is read outside the lock, and another has it too.
TakeUnlocked(w) ==
  /\ worker[w].at = "idle"
  /\ \E index \in {next, IF next > 0 THEN next - 1 ELSE next} :
       IF index >= Total
       THEN worker' = [worker EXCEPT ![w] = [at |-> "done"]] /\ UNCHANGED next
       ELSE /\ worker' = [worker EXCEPT ![w] = [at |-> "due", index |-> index]]
            /\ next' = index + 1
Take(w) ==
  /\ worker[w].at = "idle"
  /\ IF next >= Total
     THEN worker' = [worker EXCEPT ![w] = [at |-> "done"]] /\ UNCHANGED next
     ELSE /\ worker' = [worker EXCEPT ![w] = [at |-> "due", index |-> next]]
          /\ next' = next + 1

TakeIndex(w) ==
  /\ phase = "selfheal" /\ Take(w)
  /\ UNCHANGED <<phase, steps, clock, attempts, world, driver, record, faults>>

\* Not before its second; after it when the worker was late.
Send(w) ==
  /\ worker[w].at = "due" /\ clock >= worker[w].index
  /\ worker' = [worker EXCEPT ![w] = [at |-> "sent", index |-> @.index, sent |-> clock]]
  /\ UNCHANGED <<phase, steps, clock, next, attempts, world, driver, record, faults>>

Attempt(w, ok) ==
  [index |-> worker[w].index, sent |-> worker[w].sent, done |-> clock, ok |-> ok,
   version |-> IF ok THEN pod.version ELSE "none"]

\* Whatever happens to a request is an attempt: an answer, an error, a timeout.
Answer(w) ==
  /\ worker[w].at = "sent"
  /\ \/ Up /\ attempts' = attempts \cup {Attempt(w, TRUE)} /\ UNCHANGED faults
     \/ ~Up /\ attempts' = attempts \cup {Attempt(w, FALSE)} /\ UNCHANGED faults
     \/ Up /\ attempts' = attempts \cup {Attempt(w, FALSE)} /\ Fault   \* one dropped
  /\ worker' = [worker EXCEPT ![w] = Idle]
  /\ UNCHANGED <<phase, steps, clock, next, world, driver, record>>

\* phase_selfheal's own callback: once, at the first second past the kill's; what
\* kubectl answers is kept and not looked at.
Strike ==
  IF driver.killed = -1 /\ driver.tick >= KillAt
  THEN /\ driver' = [tick |-> driver.tick + 1, killed |-> driver.tick]
       /\ \/ pod' = [pod EXCEPT !.phase = "dying"] /\ UNCHANGED faults
          \/ UNCHANGED pod /\ Fault
  ELSE driver' = [driver EXCEPT !.tick = @ + 1] /\ UNCHANGED <<pod, faults>>

\* The driver calls back for every second that has passed; the kill is at the
\* second it was meant for, not at the one it happens in.
OnSecond ==
  /\ phase = "selfheal" /\ driver.tick <= clock
  /\ \E w \in Workers : worker[w].at # "done"
  /\ Strike
  /\ UNCHANGED <<phase, steps, load, alias, record>>

\* A deleted pod answers for a moment more.
Die ==
  /\ pod.phase = "dying"
  /\ pod' = [pod EXCEPT !.phase = "down", !.object = @ + 1, !.since = clock]
  /\ UNCHANGED <<phase, steps, load, alias, driver, record, faults>>

\* The replacement downloads what the alias names.
Heal ==
  /\ pod.phase = "down" /\ clock > pod.since
  /\ pod' = [pod EXCEPT !.phase = "up", !.version = alias, !.since = clock]
  /\ UNCHANGED <<phase, steps, load, alias, driver, record, faults>>

MoveAlias ==
  /\ phase = "selfheal" /\ alias = "v1"
  /\ Fault
  /\ alias' = "v2"
  /\ UNCHANGED <<phase, steps, load, pod, driver, record>>

\* Threads are prompt and a request is over within its timeout; the driver may be
\* a second behind.
Tick ==
  /\ phase = "selfheal" /\ \E w \in Workers : worker[w].at # "done"
  /\ \A w \in Workers :
       /\ worker[w].at # "idle"
       /\ worker[w].at = "due" => worker[w].index > clock
       /\ worker[w].at = "sent" => clock - worker[w].sent < Timeout
  /\ driver.tick >= clock
  /\ pod.phase # "dying"
  /\ IF pod.phase = "down" /\ clock > pod.since THEN Fault ELSE UNCHANGED faults
  /\ clock' = clock + 1
  /\ UNCHANGED <<phase, steps, next, worker, attempts, world, driver, record>>

-----------------------------------------------------------------------------
(* What the drill makes of it.                                             *)

Errors == {a \in attempts : ~a.ok}
First(as) == CHOOSE a \in as : \A b \in as : a.index <= b.index

\* measure_recovery: anchored on the first failure after the kill.
Recovered(kill) ==
  LET after == {a \in attempts : a.index >= kill}
      failed == after \cap Errors
      back == {a \in after \ Errors : failed = {} \/ a.index > First(failed).index}
  IN  IF back = {} THEN -1 ELSE First(back).done

Dead == {second \in (Total - TailLength)..(Total - 1) :
           ~\E a \in attempts : a.index = second /\ a.ok}
Versions == {a.version : a \in attempts \ Errors}

\* Faulty variant: the callback ran, so the pod was deleted.
PassedUnidentified(clean) ==
  LET back == Recovered(driver.killed)
  IN  /\ driver.killed # -1 /\ pod.phase = "up"
      /\ Errors # {} /\ back # -1 /\ back < Total /\ Dead = {}
      /\ Cardinality(Versions) = 1 /\ clean
\* The checks of phase_selfheal; ready_pod, and identity by object.
Passed(clean) ==
  LET back == Recovered(driver.killed)
  IN  /\ driver.killed # -1 /\ pod.phase = "up" /\ pod.object # 0
      /\ Errors # {} /\ back # -1 /\ back < Total /\ Dead = {}
      /\ Cardinality(Versions) = 1 /\ clean

Latencies == {<<a.done - a.index, a.index>> : a \in attempts \ Errors}
Below(pair) == {other \in Latencies : other[1] < pair[1] \/ (other[1] = pair[1] /\ other[2] <= pair[2])}
\* Faulty variant: the rank is rounded down.
PercentileDown(q) ==
  LET n == Cardinality(Latencies)
      rank == IF q * n < 100 THEN 1 ELSE (q * n) \div 100
  IN  (CHOOSE l \in Latencies : Cardinality(Below(l)) = rank)[1]
\* Nearest rank: no interpolation, so the number is one that was observed.
Percentile(q) ==
  LET n == Cardinality(Latencies)
      rank == IF q * n < 100 THEN 1 ELSE (q * n + 99) \div 100
  IN  (CHOOSE l \in Latencies : Cardinality(Below(l)) = rank)[1]

Finish ==
  /\ phase = "selfheal" /\ \A w \in Workers : worker[w].at = "done"
  /\ pod.phase # "dying"
  /\ phase' = "done"
  /\ \/ record' = [record EXCEPT !.passed = Passed(Up), !.recovered = Recovered(driver.killed),
                                 !.up = IF pod.object > 0 /\ pod.phase = "up" THEN pod.since ELSE -1]
        /\ UNCHANGED faults
     \/ record' = [record EXCEPT !.recovered = Recovered(driver.killed)] /\ Fault
  /\ UNCHANGED <<steps, load, world, driver>>

Init ==
  /\ phase = "preflight" /\ steps = <<>>
  /\ clock = 0 /\ next = 0 /\ worker = [w \in Workers |-> Idle] /\ attempts = {}
  /\ pod = [object |-> 0, phase |-> "up", version |-> "v1", since |-> 0] /\ alias = "v1"
  /\ driver = [tick |-> 0, killed |-> -1]
  /\ record = NoRecord
  /\ faults = MaxFaults

Serve == (\E w \in Workers : TakeIndex(w) \/ Send(w) \/ Answer(w)) \/ Tick \/ OnSecond \/ Die \/ Heal
Next == Preflight \/ RampStep \/ Headline \/ Serve \/ MoveAlias \/ Finish

Spec == Init /\ [][Next]_vars

-----------------------------------------------------------------------------
(* Properties.                                                             *)

TypeOK ==
  /\ phase \in {"preflight", "ramp", "selfheal", "done", "raised"}
  /\ clock \in Nat /\ next \in 0..Total
  /\ \A w \in Workers : worker[w].at \in {"idle", "due", "sent", "done"}
  /\ pod.phase \in {"up", "dying", "down"} /\ alias \in {"v1", "v2"} /\ faults \in 0..MaxFaults

\* However the threads interleave, a request is attempted once, and none is
\* missing when they have joined. (run_load's counter and its lock.)
EveryRequestOnce ==
  LET Flying == {w \in Workers : worker[w].at \in {"due", "sent"}}
  IN  /\ \A a, b \in attempts : a.index = b.index => a = b
      /\ \A v, w \in Flying : worker[v].index = worker[w].index => v = w
      /\ \A w \in Flying : ~\E a \in attempts : a.index = worker[w].index
      /\ phase = "done" => {a.index : a \in attempts} = 0..(Total - 1)

\* A drill that passed replaced the pod object and left it serving the version the
\* whole window was served with, whatever kubectl, the alias or the client did.
PassedMeansReplaced ==
  record.passed => pod.object > 0 /\ pod.phase = "up" /\ Versions = {pod.version}

\* The headline rate is that of a step that measured the service, if there was one;
\* the percentile beside it is an observed latency that the share is not above.
HeadlineIsMeasured ==
  /\ phase = "ramp" /\ Len(steps) = Len(Rates) =>
       LET fit == {i \in DOMAIN steps : steps[i].clean /\ steps[i].held /\ ~steps[i].hot}
       IN  fit # {} => \E i \in fit : steps[i].rate = HeadlineRate
  /\ phase = "done" /\ attempts # Errors =>
       \A q \in {50, 95} :
         100 * Cardinality({l \in Latencies : l[1] <= Percentile(q)}) >= q * Cardinality(Latencies)

\* The record of a drill, with the attempts it was made of.
LoadIsMeasured == TypeOK /\ EveryRequestOnce /\ PassedMeansReplaced /\ HeadlineIsMeasured

\* "This is self-heal time, and it is what the runbook and the PRR quote": the
\* recovery a drill that passed reports is not before the replacement answered.
RecoveryIsTheReplacements == record.passed => record.recovered >= record.up
=============================================================================
