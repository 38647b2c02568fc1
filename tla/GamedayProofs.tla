---------------------------- MODULE GamedayProofs ----------------------------
(***************************************************************************)
(* Proofs about Gameday, for every number of invocations and of troubles.  *)
(***************************************************************************)
EXTENDS MCGameday, SequenceTheorems, TLAPS

(* The plans of an invocation: what is left of a whole day, or one         *)
(* scenario alone.                                                         *)
Plans == {Order, <<"kill", "storage", "saturation", "report">>,
          <<"storage", "saturation", "report">>, <<"saturation", "report">>}
         \cup {<<s>> : s \in Scenarios \cup {"report"}}

(* What the plans are like: the kill of a whole day comes fourth from last.*)
LEMMA PlansAre ==
    ASSUME NEW plan \in Plans
    PROVE  /\ Len(plan) \in 1..5
           /\ Head(plan) \in Scenarios \cup {"report"}
           /\ Len(plan) = 5 => Head(plan) = "control"
           /\ Head(plan) = "kill" /\ Len(plan) # 1 => Len(plan) = 4
           /\ Len(plan) # 1 => Tail(plan) \in Plans /\ Len(Tail(plan)) = Len(plan) - 1
  <1>1. CASE plan = Order
    BY <1>1 DEF Order, Plans, Scenarios
  <1>2. CASE plan = <<"kill", "storage", "saturation", "report">>
    BY <1>2 DEF Plans, Scenarios
  <1>3. CASE plan = <<"storage", "saturation", "report">>
    BY <1>3 DEF Plans, Scenarios
  <1>4. CASE plan = <<"saturation", "report">>
    BY <1>4 DEF Plans, Scenarios
  <1>5. CASE plan \in {<<s>> : s \in Scenarios \cup {"report"}}
    <2>1. PICK s \in Scenarios \cup {"report"} : plan = <<s>>
      BY <1>5
    <2>2. Len(plan) = 1 /\ Head(plan) = s
      BY <2>1
    <2>. QED
      BY <2>1, <2>2
  <1>6. \/ plan \in {<<s>> : s \in Scenarios \cup {"report"}}
        \/ plan = Order \/ plan = <<"kill", "storage", "saturation", "report">>
        \/ plan = <<"storage", "saturation", "report">> \/ plan = <<"saturation", "report">>
    BY DEF Plans
  <1>. QED
    BY <1>1, <1>2, <1>3, <1>4, <1>5, <1>6

Pods == {"ready", "starting", "stuck", "absent"}
Secrets == {"good", "wrong"}
Minutes == [sent : Nat, bad : Nat, rejected : Nat]

(* Where each scenario can be.                                             *)
Where == [control |-> {"inject", "clear"},
          kill |-> {"settle", "kill", "load", "watch", "judge"},
          storage |-> {"settle", "storage", "break", "broken", "undo", "serve", "mend",
                       "rollout", "rest", "judge"},
          saturation |-> {"settle", "saturation", "press", "judge"},
          report |-> {}]
Places == {"idle", "preflight"} \cup UNION {Where[s] : s \in DOMAIN Where}
Firsts == [Alerts -> Nat]
Drills == [todo : Plans \cup {<<>>}, at : Places, due : BOOLEAN, minutes : Nat,
           fired : Firsts, held : Secrets, replaced : BOOLEAN, spared : BOOLEAN,
           errors : Nat, peak : BOOLEAN, raised : BOOLEAN]

GTyped ==
    /\ pod \in Pods /\ secret \in Secrets /\ stopped \in BOOLEAN /\ wiring \subseteq Links
    /\ window \in Seq(Minutes) /\ Len(window) = 5
    /\ over \in Firsts /\ \A a \in Alerts : over[a] <= Sustain[a] + 1
    /\ drill \in Drills
    /\ rehearsal \in {"none", "stopped"}
    /\ files = [s \in Range(Order) |-> files[s]]
    /\ day \in 0..MaxRuns /\ left \in 0..MaxTroubles

(* What a gameday under way knows. Past the control of a whole day the     *)
(* alerting is wired: the control saw its two alerts at Alertmanager. A    *)
(* storage scenario that has undone what it did serves with the right      *)
(* credential, if at all: the pod it leaves behind has read it.            *)
DayKnows ==
    /\ drill.at # "idle" =>
          drill.todo \in Plans /\ drill.at \in {"preflight"} \cup Where[Scenario]
    /\ Len(drill.todo) \in 2..4 => wiring = Links
    /\ drill.at = "clear" /\ drill.spared => wiring = Links
    /\ drill.at = "serve" => secret = "good"
    /\ drill.at \in {"rollout", "rest"} \/ (drill.at = "judge" /\ Scenario = "storage") =>
          (Answers => secret = "good")

(* The minutes with errors that the window holds: none, or one, for as     *)
(* long as the rule has seen it.                                           *)
Errors ==
    /\ hurt \in 0..2
    /\ hurt = 0 => over["a2"] = 0 /\ \A i \in 1..5 : window[i].bad = 0
    /\ hurt = 1 => \E k \in 1..5 : /\ over["a2"] <= 6 - k
                                   /\ \A i \in 1..5 : i # k => window[i].bad = 0

GInv == GTyped /\ DayKnows /\ Errors /\ NegativesAreReadable /\ StorageVerdictIsTrue

(* The alerts, the scenarios and their places.                             *)
LEMMA AlertsAre ==
    /\ Alerts = {"a2", "a3", "a5", "a6", "a7"} /\ Sustain["a2"] = 5
    /\ \A a \in Alerts : Sustain[a] \in Nat
    /\ Range(Order) = Scenarios \cup {"report"}
    /\ DOMAIN Where = Scenarios \cup {"report"}
  <1>1. Alerts = {"a2", "a3", "a5", "a6", "a7"} /\ Sustain["a2"] = 5
        /\ \A a \in Alerts : Sustain[a] \in Nat
    BY DEF Alerts, Sustain
  <1>2. Range(Order) = Scenarios \cup {"report"}
    BY DEF Order, Range, Scenarios
  <1>3. DOMAIN Where = Scenarios \cup {"report"}
    BY DEF Where, Scenarios
  <1>. QED
    BY <1>1, <1>2, <1>3

(* A window slides by one minute.                                          *)
LEMMA Slides ==
    ASSUME NEW A, NEW w \in Seq(A), Len(w) = 5, NEW m \in A
    PROVE  /\ Append(Tail(w), m) \in Seq(A) /\ Len(Append(Tail(w), m)) = 5
           /\ Append(Tail(w), m)[5] = m
           /\ \A i \in 1..4 : Append(Tail(w), m)[i] = w[i + 1]
  <1>1. w # <<>>
    BY EmptySeq
  <1>. DEFINE t == Tail(w)
  <1>2. t \in Seq(A) /\ Len(t) = 4 /\ \A i \in 1..Len(t) : t[i] = w[i + 1]
    BY <1>1, HeadTailProperties
  <1>. HIDE DEF t
  <1>3. t \in Seq(A)
    BY <1>2
  <1>4. Append(t, m) \in Seq(A)
    BY <1>3, AppendProperties
  <1>5. Len(Append(t, m)) = Len(t) + 1
    BY <1>3, AppendProperties
  <1>6. \A i \in 1..Len(t) : Append(t, m)[i] = t[i]
    BY <1>3, AppendProperties
  <1>7. Append(t, m)[Len(t) + 1] = m
    BY <1>3, AppendProperties
  <1>8. /\ Append(t, m) \in Seq(A) /\ Len(Append(t, m)) = 5
        /\ Append(t, m)[5] = m
        /\ \A i \in 1..4 : Append(t, m)[i] = w[i + 1]
    BY <1>2, <1>4, <1>5, <1>6, <1>7
  <1>. QED
    BY <1>8 DEF t

(* No gameday is under way.                                                *)
LEMMA NoDrillTyped == NoDrill \in Drills /\ NoDrill.todo = <<>> /\ NoDrill.at = "idle"
  <1>1. Never \in Firsts
    BY DEF Never, Firsts
  <1>2. "idle" \in Places /\ "good" \in Secrets
    BY DEF Places, Secrets
  <1>. QED
    BY <1>1, <1>2 DEF NoDrill, Drills

(* The first day: nothing recorded, no traffic yet.                        *)
LEMMA InitGameday ==
    ASSUME Init
    PROVE  GInv
  <1>1. Len(<<>>) = 0
    OBVIOUS
  <1>2. Quiet \in Minutes /\ Quiet.bad = 0
    BY DEF Quiet, Minutes
  <1>3. window \in Seq(Minutes) /\ Len(window) = 5 /\ \A i \in 1..5 : window[i].bad = 0
    BY <1>2 DEF Init
  <1>4. over \in Firsts /\ \A a \in Alerts : over[a] = 0
    BY DEF Init, Never, Firsts
  <1>5. files = [s \in Range(Order) |-> files[s]] /\ \A s \in Range(Order) : files[s].day = 0
    BY DEF Init, NoFile
  <1>6. GTyped
    <2>1. \A a \in Alerts : over[a] <= Sustain[a] + 1
      BY <1>4, AlertsAre
    <2>2. day \in 0..MaxRuns /\ left \in 0..MaxTroubles
      BY GamedayAssumption DEF Init
    <2>3. pod \in Pods /\ secret \in Secrets /\ stopped \in BOOLEAN /\ wiring \subseteq Links
          /\ drill \in Drills /\ rehearsal \in {"none", "stopped"}
      BY NoDrillTyped DEF Init, Pods, Secrets
    <2>. QED
      BY <1>3, <1>4, <1>5, <2>1, <2>2, <2>3 DEF GTyped
  <1>7. DayKnows
    BY <1>1, NoDrillTyped DEF Init, DayKnows
  <1>8. Errors
    BY <1>3, <1>4, AlertsAre DEF Init, Errors
  <1>9. files["kill"].day = 0 /\ files["storage"].day = 0
    BY <1>5, AlertsAre DEF Scenarios
  <1>. QED
    BY <1>6, <1>7, <1>8, <1>9 DEF GInv, NegativesAreReadable, StorageVerdictIsTrue

(* The sums over a window.                                                 *)
LEMMA Sums ==
    ASSUME NEW w \in Seq(Minutes), Len(w) = 5
    PROVE  /\ Sent(w) \in Nat /\ Bad(w) \in Nat
           /\ OverTheBar(w) => Bad(w) # 0
           /\ Bad(w) = 0 <=> \A i \in 1..5 : w[i].bad = 0
  <1>1. \A i \in 1..5 : w[i] \in Minutes
    BY ElementOfSeq
  <1>2. ASSUME NEW i \in 1..5 PROVE w[i].sent \in Nat /\ w[i].bad \in Nat
    BY <1>1 DEF Minutes
  <1>. DEFINE s1 == w[1].sent
              s2 == w[2].sent
              s3 == w[3].sent
              s4 == w[4].sent
              s5 == w[5].sent
              b1 == w[1].bad
              b2 == w[2].bad
              b3 == w[3].bad
              b4 == w[4].bad
              b5 == w[5].bad
  <1>3. /\ s1 \in Nat /\ s2 \in Nat /\ s3 \in Nat /\ s4 \in Nat /\ s5 \in Nat
        /\ b1 \in Nat /\ b2 \in Nat /\ b3 \in Nat /\ b4 \in Nat /\ b5 \in Nat
        /\ Sent(w) = s1 + s2 + s3 + s4 + s5 /\ Bad(w) = b1 + b2 + b3 + b4 + b5
    BY <1>2 DEF Sent, Bad, Total
  <1>4. (\A i \in 1..5 : w[i].bad = 0) <=> b1 = 0 /\ b2 = 0 /\ b3 = 0 /\ b4 = 0 /\ b5 = 0
    <2>1. \A i \in 1..5 : i = 1 \/ i = 2 \/ i = 3 \/ i = 4 \/ i = 5
      OBVIOUS
    <2>. QED
      BY <2>1
  <1>. HIDE DEF s1, s2, s3, s4, s5, b1, b2, b3, b4, b5
  <1>5. Sent(w) \in Nat /\ Bad(w) \in Nat
    BY <1>3
  <1>6. OverTheBar(w) => Bad(w) # 0
    BY <1>5 DEF OverTheBar
  <1>7. Bad(w) = 0 <=> b1 = 0 /\ b2 = 0 /\ b3 = 0 /\ b4 = 0 /\ b5 = 0
    BY <1>3
  <1>. QED
    BY <1>4, <1>5, <1>6, <1>7

(* What passes in a minute, whatever the gameday is at: the pod, the       *)
(* window and the rules take their step, the gameday only what it notes.   *)
LEMMA MinutePasses ==
    ASSUME GInv, NEW next \in Pods, NEW quarters \in 1..2, Minute(next, quarters)
    PROVE  /\ pod' = next /\ Errors'
           /\ window' \in Seq(Minutes) /\ Len(window') = 5
           /\ over' \in Firsts /\ \A a \in Alerts : over'[a] <= Sustain[a] + 1
           /\ drill' \in Drills
           /\ drill'.todo = drill.todo /\ drill'.at = drill.at /\ drill'.spared = drill.spared
  <1>1. Traffic \in Minutes
    BY DEF Traffic, Quiet, Minutes
  <1>2. Lost(pod, next, quarters) \in Nat
    BY <1>1 DEF Lost, Minutes
  <1>. DEFINE lost == Lost(pod, next, quarters)
              minute == [sent |-> Traffic.sent, bad |-> lost,
                         rejected |-> IF pod = "ready" THEN Traffic.rejected ELSE 0]
              w == Append(Tail(window), minute)
              holding == Holding(w, next)
  <1>3. minute \in Minutes /\ minute.bad = lost
    BY <1>1, <1>2 DEF Minutes
  <1>4. /\ pod' = next /\ window' = w
        /\ over' = [a \in Alerts |-> IF a \notin holding THEN 0
                                     ELSE IF over[a] > Sustain[a] THEN over[a] ELSE over[a] + 1]
        /\ hurt' = IF Bad(w) = 0 THEN 0 ELSE IF lost > 0 /\ hurt < 2 THEN hurt + 1 ELSE hurt
        /\ drill' = IF drill.at = "idle" THEN drill
                    ELSE [drill EXCEPT !.due = TRUE, !.minutes = @ + 1,
                                       !.errors = IF @ + lost > 2 THEN 2 ELSE @ + lost,
                                       !.peak = @ \/ ("scrape" \in wiring /\ OverTheBar(w))]
    BY DEF Minute
  <1>5. "a2" \in holding => OverTheBar(w)
    BY DEF Holding
  <1>. HIDE DEF minute, holding
  <1>6. /\ w \in Seq(Minutes) /\ Len(w) = 5 /\ w[5] = minute
        /\ \A i \in 1..4 : w[i] = window[i + 1]
    BY <1>3, Slides DEF GInv, GTyped
  <1>. HIDE DEF w, lost
  <1>7. /\ over' \in Firsts /\ \A a \in Alerts : over'[a] <= Sustain[a] + 1
    <2>1. \A a \in Alerts : over[a] \in Nat /\ over[a] <= Sustain[a] + 1 /\ Sustain[a] \in Nat
      BY AlertsAre DEF GInv, GTyped, Firsts
    <2>2. ASSUME NEW a \in Alerts PROVE over'[a] \in Nat /\ over'[a] <= Sustain[a] + 1
      BY <1>4, <2>1
    <2>3. over' = [a \in Alerts |-> over'[a]]
      BY <1>4
    <2>. QED
      BY <2>2, <2>3 DEF Firsts
  <1>8. /\ drill' \in Drills
        /\ drill'.todo = drill.todo /\ drill'.at = drill.at /\ drill'.spared = drill.spared
    <2>1. drill.minutes + 1 \in Nat /\ (IF drill.errors + lost > 2 THEN 2 ELSE drill.errors + lost) \in Nat
      BY <1>2 DEF GInv, GTyped, Drills, lost
    <2>2. (drill.peak \/ ("scrape" \in wiring /\ OverTheBar(w))) \in BOOLEAN
      OBVIOUS
    <2>. QED
      BY <1>4, <2>1, <2>2 DEF GInv, GTyped, Drills
  <1>9. Errors'
    <2>1. Bad(w) \in Nat /\ (OverTheBar(w) => Bad(w) # 0) /\ lost \in Nat
          /\ (Bad(w) = 0 <=> \A i \in 1..5 : w[i].bad = 0)
      BY <1>2, <1>6, Sums DEF lost
    <2>2. /\ over["a2"] \in Nat /\ over'["a2"] \in Nat
          /\ over'["a2"] <= over["a2"] + 1 /\ (Bad(w) = 0 => over'["a2"] = 0)
      <3>1. "a2" \in Alerts /\ Sustain["a2"] = 5
        BY AlertsAre
      <3>2. over["a2"] \in Nat
        BY <3>1 DEF GInv, GTyped, Firsts
      <3>3. over'["a2"] = IF "a2" \notin holding THEN 0
                          ELSE IF over["a2"] > Sustain["a2"] THEN over["a2"] ELSE over["a2"] + 1
        BY <1>4, <3>1
      <3>4. Bad(w) = 0 => "a2" \notin holding
        BY <1>5, <2>1
      <3>. QED
        BY <3>2, <3>3, <3>4
    <2>3. /\ w[5].bad = lost /\ \A i \in 1..4 : w[i].bad = window[i + 1].bad
      BY <1>3, <1>6
    <2>4. CASE Bad(w) = 0
      BY <1>4, <2>1, <2>2, <2>4 DEF Errors
    <2>5. CASE Bad(w) # 0 /\ hurt = 0
      <3>1. over["a2"] = 0 /\ \A i \in 1..5 : window[i].bad = 0
        BY <2>5 DEF GInv, Errors
      <3>2. \A i \in 1..5 : i # 5 => w[i].bad = 0
        BY <2>3, <3>1
      <3>3. lost > 0
        BY <2>1, <2>3, <2>5, <3>2
      <3>4. hurt' = 1 /\ over'["a2"] <= 6 - 5
        BY <1>4, <2>2, <2>5, <3>1, <3>3
      <3>. QED
        BY <1>4, <3>2, <3>4 DEF Errors
    <2>6. CASE Bad(w) # 0 /\ hurt = 1 /\ lost = 0
      <3>1. PICK k \in 1..5 : /\ over["a2"] <= 6 - k
                              /\ \A i \in 1..5 : i # k => window[i].bad = 0
        BY <2>6 DEF GInv, Errors
      <3>2. \A i \in 1..5 : i # k - 1 => w[i].bad = 0
        BY <2>3, <2>6, <3>1
      <3>3. k - 1 \in 1..5
        BY <2>1, <2>6, <3>2
      <3>4. hurt' = 1 /\ over'["a2"] <= 6 - (k - 1)
        BY <1>4, <2>2, <2>6, <3>1
      <3>. QED
        BY <1>4, <3>2, <3>3, <3>4 DEF Errors
    <2>7. CASE Bad(w) # 0 /\ (hurt = 2 \/ (hurt = 1 /\ lost # 0))
      <3>1. hurt' = 2
        BY <1>4, <2>1, <2>7
      <3>. QED
        BY <3>1 DEF Errors
    <2>. QED
      BY <2>4, <2>5, <2>6, <2>7 DEF GInv, Errors
  <1>. QED
    BY <1>4, <1>6, <1>7, <1>8, <1>9

-----------------------------------------------------------------------------
(* The steps. What is said of a record is kept while the records are.      *)

(* Records that stay say the same.                                         *)
LEMMA SameFiles ==
    ASSUME GInv, UNCHANGED files
    PROVE  /\ files' = [s \in Range(Order) |-> files'[s]]
           /\ NegativesAreReadable' /\ StorageVerdictIsTrue'
  BY DEF GInv, GTyped, NegativesAreReadable, StorageVerdictIsTrue

(* A minute passes.                                                        *)
LEMMA TickStep == ASSUME GInv, Tick PROVE GInv'
  <1>1. PICK next \in Pods, quarters \in 1..2 :
           /\ Minute(next, quarters)
           /\ next = Becomes(pod) \/ (next = pod /\ pod = "starting")
    <2>1. Becomes(pod) \in Pods
      BY DEF Becomes, Pods, GInv, GTyped
    <2>2. pod \in Pods /\ 1 \in 1..2
      BY DEF GInv, GTyped
    <2>. QED
      BY <2>1, <2>2 DEF Tick
  <1>2. /\ pod' = next /\ Errors'
        /\ window' \in Seq(Minutes) /\ Len(window') = 5
        /\ over' \in Firsts /\ \A a \in Alerts : over'[a] <= Sustain[a] + 1
        /\ drill' \in Drills
        /\ drill'.todo = drill.todo /\ drill'.at = drill.at /\ drill'.spared = drill.spared
    BY <1>1, MinutePasses
  <1>3. /\ UNCHANGED <<secret, stopped, wiring, rehearsal, files, day>>
        /\ left' = left \/ (left > 0 /\ left' = left - 1)
    BY DEF Tick, Trouble
  <1>4. GTyped'
    <2>1. left' \in 0..MaxTroubles /\ pod' \in Pods
      BY <1>2, <1>3, GamedayAssumption DEF GInv, GTyped
    <2>. QED
      BY <1>2, <1>3, <2>1, SameFiles DEF GInv, GTyped
  <1>5. pod' = "ready" => pod = "ready" \/ secret = "good"
    BY <1>1, <1>2 DEF Becomes
  <1>6. DayKnows'
    BY <1>2, <1>3, <1>5 DEF GInv, DayKnows, Scenario, Answers
  <1>. QED
    BY <1>2, <1>3, <1>4, <1>6, SameFiles DEF GInv

(* A gameday under way is at a place of its scenario.                      *)
LEMMA AtHome ==
    ASSUME GInv, drill.at # "idle"
    PROVE  /\ drill.todo \in Plans
           /\ Scenario \in Scenarios \cup {"report"}
           /\ drill.at # "preflight" => Scenario # "report"
           /\ drill.at \in {"inject", "clear"} => Scenario = "control"
           /\ drill.at \in {"settle", "judge"} => Scenario \in {"kill", "storage", "saturation"}
           /\ drill.at \in {"kill", "load", "watch"} => Scenario = "kill"
           /\ drill.at \in {"storage", "break", "broken", "undo", "serve", "mend", "rollout",
                            "rest"} => Scenario = "storage"
           /\ drill.at \in {"saturation", "press"} => Scenario = "saturation"
  <1>1. /\ drill.todo \in Plans /\ drill.at \in {"preflight"} \cup Where[Scenario]
        /\ Scenario \in {"control", "kill", "storage", "saturation", "report"}
    BY PlansAre DEF GInv, DayKnows, Scenario, Scenarios
  <1>. QED
    BY <1>1 DEF Where, Scenarios

(* Every place is one.                                                     *)
LEMMA PlacesAre ==
    /\ {"idle", "preflight", "inject", "clear", "settle", "kill", "load", "watch", "judge",
        "storage", "break", "broken", "undo", "serve", "mend", "rollout", "rest",
        "saturation", "press"} \subseteq Places
    /\ {"inject", "clear"} \subseteq Where["control"]
    /\ {"settle", "kill", "load", "watch", "judge"} \subseteq Where["kill"]
    /\ {"settle", "storage", "break", "broken", "undo", "serve", "mend", "rollout", "rest",
        "judge"} \subseteq Where["storage"]
    /\ {"settle", "saturation", "press", "judge"} \subseteq Where["saturation"]
  BY DEF Places, Where

(* The minutes at which the alerts were first seen.                        *)
LEMMA SeenTyped == ASSUME GInv PROVE Seen \in Firsts
  BY DEF GInv, GTyped, Drills, Firsts, Seen

(* A step that leaves the rules and the records alone.                     *)
LEMMA QuietStep ==
    ASSUME GInv, UNCHANGED <<rules, files, wiring>>,
           pod' \in Pods, secret' \in Secrets, stopped' \in BOOLEAN,
           rehearsal' \in {"none", "stopped"}, day' \in 0..MaxRuns,
           left' = left \/ Trouble, drill' \in Drills, DayKnows'
    PROVE  GInv'
  <1>1. UNCHANGED <<window, over, hurt, files, wiring>>
    BY DEF rules
  <1>2. left' \in 0..MaxTroubles
    BY GamedayAssumption DEF Trouble, GInv, GTyped
  <1>3. GTyped'
    BY <1>1, <1>2, SameFiles DEF GInv, GTyped
  <1>4. Errors'
    BY <1>1 DEF GInv, Errors
  <1>. QED
    BY <1>1, <1>3, <1>4, SameFiles DEF GInv

(* A step of the gameday alone, within its scenario.                       *)
LEMMA WithinScenario ==
    ASSUME GInv, drill.at # "idle", UNCHANGED <<pod, secret, wiring>>,
           drill'.todo = drill.todo, drill'.at \in {"preflight"} \cup Where[Scenario],
           drill'.at = "clear" /\ drill'.spared => wiring = Links,
           drill'.at = "serve" => secret = "good",
           drill'.at = "rest" \/ (drill'.at = "judge" /\ Scenario = "storage") =>
              (Answers => secret = "good"),
           drill'.at # "rollout" \/ drill.at = "rollout"
    PROVE  DayKnows'
  <1>1. drill.todo \in Plans
    BY DEF GInv, DayKnows
  <1>. QED
    BY <1>1 DEF GInv, DayKnows, Scenario, Answers

(* A poll stays at its place or goes on to the next.                       *)
LEMMA Polled ==
    ASSUME GInv, NEW place \in Places, NEW minutes, NEW done, NEW next \in Places,
           Poll(place, minutes, done, next)
    PROVE  /\ drill' \in Drills
           /\ drill.at = place /\ drill'.at \in {place, next}
           /\ drill'.todo = drill.todo /\ drill'.spared = drill.spared
  <1>1. Seen \in Firsts
    BY SeenTyped
  <1>2. (done \/ drill.minutes >= minutes) \in BOOLEAN
    OBVIOUS
  <1>. QED
    BY <1>1, <1>2 DEF Poll, GInv, GTyped, Drills

(* A gameday that ends, and one that goes on to its next scenario.         *)
LEMMA Stopped ==
    ASSUME GInv, drill' = NoDrill
    PROVE  drill' \in Drills /\ DayKnows'
  <1>1. Len(<<>>) = 0
    OBVIOUS
  <1>. QED
    BY <1>1, NoDrillTyped DEF DayKnows

LEMMA Continued ==
    ASSUME GInv, drill.at # "idle", Continue, UNCHANGED wiring,
           Len(drill.todo) = 5 => wiring = Links
    PROVE  drill' \in Drills /\ DayKnows'
  <1>1. drill.todo \in Plans
    BY AtHome
  <1>2. CASE Len(drill.todo) = 1
    BY <1>2, Stopped DEF Continue
  <1>3. CASE Len(drill.todo) # 1
    <2>1. /\ Tail(drill.todo) \in Plans /\ Len(Tail(drill.todo)) = Len(drill.todo) - 1
          /\ Len(drill.todo) \in 1..5
      BY <1>1, <1>3, PlansAre
    <2>2. drill' = [NoDrill EXCEPT !.todo = Tail(drill.todo), !.at = "preflight", !.due = TRUE]
      BY <1>3 DEF Continue
    <2>3. drill' \in Drills /\ drill'.todo = Tail(drill.todo) /\ drill'.at = "preflight"
      BY <2>1, <2>2, NoDrillTyped, PlacesAre DEF Drills
    <2>4. Len(drill'.todo) \in 2..4 => wiring = Links
      BY <2>1, <2>3 DEF GInv, DayKnows
    <2>. QED
      BY <2>1, <2>3, <2>4 DEF DayKnows
  <1>. QED
    BY <1>2, <1>3

(* The gameday's own steps, one lemma per scenario.                        *)

(* An invocation begins.                                                   *)
LEMMA BeginStep == ASSUME GInv, Begin PROVE GInv'
  <1>1. /\ drill.at = "idle" /\ day < MaxRuns /\ day' = day + 1
        /\ UNCHANGED <<endpoint, wiring, rules, rehearsal, left, files>>
    BY DEF Begin, world
  <1>2. PICK todo \in {Order} \cup {<<s>> : s \in Scenarios} :
           drill' = [NoDrill EXCEPT !.todo = todo, !.at = "preflight", !.due = TRUE]
    BY DEF Begin
  <1>3. todo \in Plans /\ Len(todo) \in {1, 5}
    <2>1. Len(Order) = 5
      BY DEF Order
    <2>2. \A s \in Scenarios : Len(<<s>>) = 1
      OBVIOUS
    <2>. QED
      BY <2>1, <2>2 DEF Plans
  <1>4. drill' \in Drills /\ drill'.todo = todo /\ drill'.at = "preflight"
    BY <1>2, <1>3, NoDrillTyped, PlacesAre DEF Drills
  <1>5. DayKnows'
    BY <1>3, <1>4 DEF DayKnows
  <1>6. day' \in 0..MaxRuns
    BY <1>1, GamedayAssumption DEF GInv, GTyped
  <1>. QED
    BY <1>1, <1>4, <1>5, <1>6, QuietStep DEF endpoint, GInv, GTyped

(* The preflight refuses, or lets the scenario begin.                      *)
LEMMA PreflightStep == ASSUME GInv, Preflight PROVE GInv'
  <1>1. /\ drill.at = "preflight" /\ Scenario # "report"
        /\ UNCHANGED <<pod, secret, stopped, wiring, rules, rehearsal, left, files, day>>
        /\ \/ drill' = NoDrill
           \/ drill' = [drill EXCEPT !.at = IF Scenario = "control" THEN "inject" ELSE "settle",
                                     !.due = Scenario # "control"]
    BY DEF Preflight, rest, world, endpoint, Stop
  <1>2. CASE drill' = NoDrill
    BY <1>1, <1>2, Stopped, QuietStep DEF GInv, GTyped
  <1>3. CASE drill' = [drill EXCEPT !.at = IF Scenario = "control" THEN "inject" ELSE "settle",
                                    !.due = Scenario # "control"]
    <2>1. /\ drill' \in Drills /\ drill'.todo = drill.todo
          /\ drill'.at = IF Scenario = "control" THEN "inject" ELSE "settle"
      BY <1>3, PlacesAre DEF GInv, GTyped, Drills
    <2>2. Scenario \in {"control", "kill", "storage", "saturation"}
      BY <1>1, AtHome DEF Scenarios
    <2>3. drill'.at \in Where[Scenario]
      BY <2>1, <2>2, PlacesAre
    <2>4. DayKnows'
      BY <1>1, <2>1, <2>3, WithinScenario
    <2>. QED
      BY <1>1, <2>1, <2>4, QuietStep DEF GInv, GTyped
  <1>. QED
    BY <1>1, <1>2, <1>3

(* A poll that keeps what is known at its two places.                      *)
LEMMA PollStep ==
    ASSUME GInv, NEW place \in Places, NEW minutes, NEW done, NEW next \in Places,
           place # "idle", Poll(place, minutes, done, next), rest' = rest,
           drill.at = place =>
              /\ {place, next} \subseteq Where[Scenario] \ {"clear", "rollout"}
              /\ next = "serve" \/ place = "serve" => secret = "good"
              /\ next = "rest" => (Answers => secret = "good")
              /\ next = "judge" => Scenario # "storage"
              /\ place \notin {"rest", "judge"}
    PROVE  GInv'
  <1>1. /\ drill' \in Drills
        /\ drill.at = place /\ drill'.at \in {place, next}
        /\ drill'.todo = drill.todo /\ drill'.spared = drill.spared
    BY Polled
  <1>2. UNCHANGED <<pod, secret, stopped, wiring, rules, rehearsal, left, files, day>>
    BY DEF rest, world, endpoint
  <1>3. DayKnows'
    BY <1>1, <1>2, WithinScenario
  <1>. QED
    BY <1>1, <1>2, <1>3, QuietStep DEF GInv, GTyped

(* The polls of the scenarios.                                             *)
LEMMA PollSteps ==
    ASSUME GInv, Settle \/ Load \/ Watch \/ Broken \/ Served \/ Pressed
    PROVE  GInv'
  <1>. USE PlacesAre, AtHome
  <1>1. CASE Settle
    <2>1. drill.at = "settle" /\ Scenario \in {"kill", "storage", "saturation"}
      BY <1>1 DEF Settle, Poll
    <2>2. {"settle", Scenario} \subseteq Where[Scenario]
      BY <2>1
    <2>. QED
      BY <1>1, <2>1, <2>2, PollStep DEF Settle
  <1>2. CASE Load
    BY <1>2, PollStep DEF Load
  <1>3. CASE Watch
    BY <1>3, PollStep DEF Watch
  <1>4. CASE Broken
    BY <1>4, PollStep DEF Broken
  <1>5. CASE Served
    <2>1. drill.at = "serve" /\ secret = "good"
      BY <1>5 DEF Served, Poll, GInv, DayKnows
    <2>. QED
      BY <1>5, <2>1, PollStep DEF Served
  <1>6. CASE Pressed
    BY <1>6, PollStep DEF Pressed
  <1>. QED
    BY <1>1, <1>2, <1>3, <1>4, <1>5, <1>6

(* The control leaves its injection only on what has reached Alertmanager, *)
(* or with a mark against it.                                              *)
LEMMA InjectStep == ASSUME GInv, Inject PROVE GInv'
  <1>. DEFINE both == {"a2", "a3"} \subseteq EverFired(Seen)
              done == both \/ drill.minutes >= 7
              spared == /\ drill.spared /\ (drill.minutes # 1 \/ Answers)
                        /\ ~done \/ AtAlertmanager \cap {"a2", "a3"} = {"a2", "a3"}
  <1>1. /\ drill.at = "inject"
        /\ drill' = [drill EXCEPT
             !.fired = Seen, !.due = done, !.at = IF done THEN "clear" ELSE @,
             !.minutes = IF done THEN 0 ELSE @, !.spared = spared]
        /\ UNCHANGED <<pod, secret, stopped, wiring, rules, rehearsal, left, files, day>>
    BY DEF Inject, rest, world, endpoint
  <1>2. done /\ spared => wiring = Links
    BY DEF AtAlertmanager
  <1>3. done \in BOOLEAN /\ spared \in BOOLEAN
    OBVIOUS
  <1>. HIDE DEF done, spared
  <1>4. /\ drill' \in Drills /\ drill'.todo = drill.todo /\ drill'.spared = spared
        /\ drill'.at = IF done THEN "clear" ELSE "inject"
    BY <1>1, <1>3, SeenTyped, PlacesAre DEF GInv, GTyped, Drills
  <1>5. drill'.at \in Where[Scenario] /\ drill.at # "idle"
    BY <1>1, <1>4, AtHome, PlacesAre
  <1>6. DayKnows'
    BY <1>1, <1>2, <1>4, <1>5, WithinScenario
  <1>. QED
    BY <1>1, <1>4, <1>6, QuietStep DEF GInv, GTyped

(* What a record changes: the one it is written to.                        *)
LEMMA Recorded ==
    ASSUME GInv, NEW s \in Range(Order), NEW r, files' = [files EXCEPT ![s] = r],
           s = "kill" => (r.day > 0 => (r.all /\ r.quiet => r.wired)),
           s = "storage" => (r.day > 0 => (r.ok => r.sound))
    PROVE  /\ files' = [t \in Range(Order) |-> files'[t]]
           /\ NegativesAreReadable' /\ StorageVerdictIsTrue'
  <1>1. files = [t \in Range(Order) |-> files[t]]
    BY DEF GInv, GTyped
  <1>2. \A t \in Range(Order) : files'[t] = IF t = s THEN r ELSE files[t]
    BY <1>1
  <1>3. files'["kill"] = (IF s = "kill" THEN r ELSE files["kill"])
        /\ files'["storage"] = (IF s = "storage" THEN r ELSE files["storage"])
    BY <1>2, AlertsAre DEF Scenarios
  <1>4. NegativesAreReadable'
    BY <1>3 DEF GInv, NegativesAreReadable
  <1>5. StorageVerdictIsTrue'
    BY <1>3 DEF GInv, StorageVerdictIsTrue
  <1>. QED
    BY <1>1, <1>4, <1>5

(* A step that writes a record and ends a scenario.                        *)
LEMMA RecordStep ==
    ASSUME GInv, UNCHANGED world, UNCHANGED day,
           files' = [t \in Range(Order) |-> files'[t]],
           NegativesAreReadable', StorageVerdictIsTrue', drill' \in Drills, DayKnows'
    PROVE  GInv'
  <1>1. UNCHANGED <<pod, secret, stopped, wiring, window, over, hurt, rehearsal, left, day>>
    BY DEF world, endpoint, rules
  <1>2. GTyped'
    BY <1>1 DEF GInv, GTyped
  <1>3. Errors'
    BY <1>1 DEF GInv, Errors
  <1>. QED
    BY <1>2, <1>3 DEF GInv

(* The control ends; the day goes on only if it held.                      *)
LEMMA ClearStep == ASSUME GInv, Clear PROVE GInv'
  <1>1. drill.at = "clear" /\ UNCHANGED world /\ UNCHANGED day
    BY DEF Clear
  <1>2. Scenario = "control" /\ drill.at # "idle" /\ "control" \in Range(Order) /\ UNCHANGED wiring
    BY <1>1, AtHome, AlertsAre DEF Scenarios, world
  <1>3. ASSUME NEW cleared, Delegated(ControlHeld(cleared)) PROVE GInv'
    <2>1. /\ files' = [t \in Range(Order) |-> files'[t]]
          /\ NegativesAreReadable' /\ StorageVerdictIsTrue'
      BY <1>2, <1>3, Recorded DEF Delegated, Record
    <2>2. drill' \in Drills /\ DayKnows'
      <3>1. CASE ControlHeld(cleared) /\ Continue
        <4>1. wiring = Links
          BY <1>1, <3>1 DEF ControlHeld, GInv, DayKnows
        <4>. QED
          BY <1>2, <3>1, <4>1, Continued
      <3>2. CASE Stop
        BY <3>2, Stopped DEF Stop
      <3>. QED
        BY <1>3, <3>1, <3>2 DEF Delegated
    <2>. QED
      BY <1>1, <2>1, <2>2, RecordStep
  <1>4. CASE drill' = [drill EXCEPT !.due = FALSE] /\ UNCHANGED files
    <2>1. /\ drill' \in Drills /\ drill'.todo = drill.todo /\ drill'.at = "clear"
          /\ drill'.spared = drill.spared
      BY <1>1, <1>4 DEF GInv, GTyped, Drills
    <2>2. DayKnows'
      <3>1. UNCHANGED <<pod, secret, wiring>> /\ "clear" \in Where[Scenario]
        BY <1>1, <1>2, PlacesAre DEF world, endpoint
      <3>2. drill'.at = "clear" /\ drill'.spared => wiring = Links
        BY <1>1, <2>1 DEF GInv, DayKnows
      <3>. QED
        BY <1>2, <2>1, <3>1, <3>2, WithinScenario
    <2>. QED
      BY <1>1, <1>4, <2>1, <2>2, SameFiles, RecordStep
  <1>. QED
    BY <1>3, <1>4 DEF Clear

(* The kill replaces the pod.                                              *)
LEMMA KillStep == ASSUME GInv, Kill PROVE GInv'
  <1>1. /\ drill.at = "kill"
        /\ UNCHANGED <<secret, stopped, wiring, rules, rehearsal, files, day, left>>
    BY DEF Kill
  <1>2. CASE Stop /\ UNCHANGED pod
    BY <1>1, <1>2, Stopped, QuietStep DEF Stop, GInv, GTyped
  <1>3. CASE /\ pod' = "starting"
             /\ drill' = [drill EXCEPT !.at = "load", !.minutes = 0, !.due = FALSE, !.errors = 0,
                            !.replaced = TRUE,
                            !.peak = OverTheBar(window) /\ "scrape" \in wiring]
    <2>1. (OverTheBar(window) /\ "scrape" \in wiring) \in BOOLEAN
      OBVIOUS
    <2>2. drill' \in Drills /\ drill'.todo = drill.todo /\ drill'.at = "load"
      BY <1>3, <2>1, PlacesAre DEF GInv, GTyped, Drills
    <2>3. drill.todo \in Plans /\ Scenario = "kill" /\ "load" \in Where[Scenario]
      BY <1>1, AtHome, PlacesAre
    <2>4. DayKnows'
      BY <1>1, <2>2, <2>3 DEF GInv, DayKnows, Scenario
    <2>. QED
      BY <1>1, <1>3, <2>2, <2>4, QuietStep DEF GInv, GTyped, Pods
  <1>. QED
    BY <1>2, <1>3 DEF Kill

(* The storage scenario holds one of the two credentials, and is done only *)
(* with a pod that has read the good one or does not serve.                *)
LEMMA StorageStep ==
    ASSUME GInv, Capture \/ Break \/ MakeServe \/ Mend \/ Rollout \/ Rest
    PROVE  GInv'
  <1>1. /\ drill.at \in {"storage", "break", "undo", "mend", "rollout", "rest"}
        /\ UNCHANGED <<stopped, wiring, rules, rehearsal, files, day>>
        /\ left' = left \/ Trouble
    BY DEF Capture, Break, MakeServe, Mend, Rollout, Rest, rest, world, endpoint
  <1>2. /\ drill.todo \in Plans /\ Scenario = "storage"
        /\ drill \in Drills /\ drill.held \in Secrets /\ secret \in Secrets /\ pod \in Pods
        /\ "starting" \in Pods /\ {"good", "wrong"} = Secrets
        /\ stopped \in BOOLEAN /\ rehearsal \in {"none", "stopped"} /\ day \in 0..MaxRuns
    BY <1>1, AtHome DEF GInv, GTyped, Drills, Secrets, Pods
  <1>3. CASE Stop /\ pod' = pod /\ secret' \in Secrets
    BY <1>1, <1>2, <1>3, Stopped, QuietStep DEF Stop
  <1>4. ASSUME NEW place \in Where["storage"], place \notin {"clear", "idle"},
               drill' \in Drills, drill'.todo = drill.todo, drill'.at = place,
               pod' \in Pods, secret' \in Secrets,
               place = "serve" => secret' = "good",
               place \in {"rollout", "rest", "judge"} => (pod' = "ready" => secret' = "good")
        PROVE  GInv'
    <2>1. drill'.at \in Where[Scenario] /\ drill'.todo \in Plans
      BY <1>2, <1>4
    <2>2. DayKnows'
      BY <1>1, <1>2, <1>4, <2>1 DEF GInv, DayKnows, Scenario, Answers
    <2>. QED
      BY <1>1, <1>2, <1>4, <2>2, QuietStep
  <1>5. ASSUME NEW place \in {"serve", "mend", "rest", "rollout"}, Goto(place)
        PROVE  drill' \in Drills /\ drill'.todo = drill.todo /\ drill'.at = place
    BY <1>2, <1>5, PlacesAre DEF Goto, Drills
  <1>6. CASE Capture
    <2>1. /\ secret' = "wrong" /\ pod' = pod
          /\ drill' = [drill EXCEPT !.held = secret, !.at = "break"]
      BY <1>6 DEF Capture
    <2>2. drill' \in Drills /\ drill'.todo = drill.todo /\ drill'.at = "break"
      BY <1>2, <2>1, PlacesAre DEF Drills
    <2>. QED
      BY <1>2, <1>4, <2>1, <2>2, PlacesAre
  <1>7. CASE Break
    <2>1. /\ secret' = secret
          /\ \/ drill' = [drill EXCEPT !.raised = TRUE, !.at = "undo"] /\ pod' = pod
             \/ /\ pod' = "starting"
                /\ drill' = [drill EXCEPT !.at = "broken", !.minutes = 0, !.due = FALSE]
      BY <1>7 DEF Break
    <2>2. CASE drill' = [drill EXCEPT !.raised = TRUE, !.at = "undo"] /\ pod' = pod
      <3>1. drill' \in Drills /\ drill'.todo = drill.todo /\ drill'.at = "undo"
        BY <1>2, <2>2, PlacesAre DEF Drills
      <3>. QED
        BY <1>2, <1>4, <2>1, <2>2, <3>1, PlacesAre
    <2>3. CASE /\ pod' = "starting"
               /\ drill' = [drill EXCEPT !.at = "broken", !.minutes = 0, !.due = FALSE]
      <3>1. drill' \in Drills /\ drill'.todo = drill.todo /\ drill'.at = "broken"
        BY <1>2, <2>3, PlacesAre DEF Drills
      <3>. QED
        BY <1>2, <1>4, <2>1, <2>3, <3>1, PlacesAre
    <2>. QED
      BY <2>1, <2>2, <2>3
  <1>8. CASE MakeServe
    <2>1. /\ pod' = pod /\ secret' \in Secrets
          /\ \/ secret' = "good" /\ Goto("serve")
             \/ Goto("mend")
      BY <1>2, <1>8 DEF MakeServe
    <2>. QED
      BY <1>2, <1>4, <1>5, <2>1, PlacesAre
  <1>9. CASE Mend
    <2>1. /\ secret' = drill.held
          /\ \/ Stop /\ pod' = pod
             \/ pod' = "starting" /\ Goto("rollout")
      BY <1>9 DEF Mend
    <2>2. CASE pod' = "starting" /\ Goto("rollout")
      BY <1>2, <1>4, <1>5, <2>1, <2>2, PlacesAre
    <2>. QED
      BY <1>2, <1>3, <2>1, <2>2
  <1>10. CASE Rollout
    <2>1. /\ drill.at = "rollout" /\ pod' = pod /\ secret' = secret
          /\ Goto("rest") \/ drill' = [drill EXCEPT !.due = FALSE] \/ Stop
      BY <1>10 DEF Rollout, rest, world, endpoint
    <2>2. pod' = "ready" => secret' = "good"
      BY <2>1 DEF GInv, DayKnows, Answers
    <2>3. CASE Goto("rest")
      BY <1>2, <1>4, <1>5, <2>1, <2>2, <2>3, PlacesAre
    <2>4. CASE drill' = [drill EXCEPT !.due = FALSE]
      <3>1. drill' \in Drills /\ drill'.todo = drill.todo /\ drill'.at = "rollout"
        BY <1>2, <2>1, <2>4 DEF Drills
      <3>. QED
        BY <1>2, <1>4, <2>1, <2>2, <3>1, PlacesAre
    <2>. QED
      BY <1>2, <1>3, <2>1, <2>3, <2>4
  <1>11. CASE Rest
    <2>1. /\ drill.at = "rest" /\ pod' = pod /\ secret' = secret
          /\ \/ Stop
             \/ drill' = [drill EXCEPT !.due = drill.minutes >= 3,
                                       !.at = IF drill.minutes >= 3 THEN "judge" ELSE @]
      BY <1>11 DEF Rest, rest, world, endpoint
    <2>2. pod' = "ready" => secret' = "good"
      BY <2>1 DEF GInv, DayKnows, Answers
    <2>3. CASE drill' = [drill EXCEPT !.due = drill.minutes >= 3,
                                      !.at = IF drill.minutes >= 3 THEN "judge" ELSE @]
      <3>1. (drill.minutes >= 3) \in BOOLEAN
        OBVIOUS
      <3>2. drill' \in Drills /\ drill'.todo = drill.todo
        BY <1>2, <2>3, <3>1, PlacesAre DEF Drills
      <3>3. drill'.at \in {"rest", "judge"}
        BY <1>2, <2>1, <2>3 DEF Drills
      <3>. QED
        BY <1>2, <1>4, <2>1, <2>2, <3>2, <3>3, PlacesAre
    <2>. QED
      BY <1>2, <1>3, <2>1, <2>3
  <1>. QED
    BY <1>6, <1>7, <1>8, <1>9, <1>10, <1>11

(* The pressure begins.                                                    *)
LEMMA PressStep == ASSUME GInv, Press PROVE GInv'
  <1>1. /\ drill.at = "saturation"
        /\ UNCHANGED <<pod, secret, stopped, wiring, rules, rehearsal, files, day, left>>
        /\ drill' = [drill EXCEPT !.at = "press", !.minutes = 0, !.due = FALSE, !.errors = 0]
    BY DEF Press, rest, world, endpoint
  <1>2. drill' \in Drills /\ drill'.todo = drill.todo /\ drill'.at = "press"
    BY <1>1, PlacesAre DEF GInv, GTyped, Drills
  <1>3. "press" \in Where[Scenario]
    BY <1>1, AtHome, PlacesAre
  <1>4. DayKnows'
    BY <1>1, <1>2, <1>3, WithinScenario
  <1>. QED
    BY <1>1, <1>2, <1>4, QuietStep DEF GInv, GTyped

(* A record of a kill is of a whole day only past that day's control; one  *)
(* of a storage scenario says that the pod answers only if it does.        *)
LEMMA FinishStep == ASSUME GInv, Finish PROVE GInv'
  <1>1. drill.at = "judge" /\ UNCHANGED world /\ UNCHANGED day /\ Continue
    BY DEF Finish
  <1>2. /\ Scenario \in {"kill", "storage", "saturation"} /\ drill.at # "idle"
        /\ drill.todo \in Plans /\ Scenario \in Range(Order) /\ UNCHANGED wiring
    BY <1>1, AtHome, AlertsAre DEF Scenarios, world
  <1>3. /\ Len(drill.todo) # 5 /\ Len(drill.todo) \in 1..5
        /\ Scenario = "kill" /\ Len(drill.todo) # 1 => wiring = Links
    BY <1>2, PlansAre DEF Scenario, GInv, DayKnows
  <1>. DEFINE ok == CASE Scenario = "kill" -> KillHeld
                      [] Scenario = "storage" -> StorageHeld
                      [] Scenario = "saturation" -> SaturationHeld
              r == [day |-> day, ok |-> ok, all |-> All, wired |-> wiring = Links,
                    quiet |-> EverFired(Seen) = {} /\ AtAlertmanager = {},
                    short |-> drill.errors = 1, under |-> ~drill.peak,
                    sound |-> Answers /\ secret = "good"]
  <1>4. files' = [files EXCEPT ![Scenario] = r]
    BY DEF Finish, Record
  <1>5. /\ r.all = All /\ r.wired = (wiring = Links) /\ r.ok = ok
        /\ r.sound = (Answers /\ secret = "good")
    OBVIOUS
  <1>6. Scenario = "kill" => (r.all => r.wired)
    BY <1>3, <1>5 DEF All
  <1>7. Scenario = "storage" => (r.ok => r.sound)
    <2>1. Scenario = "storage" => (ok => Answers)
      BY DEF StorageHeld
    <2>2. Scenario = "storage" => (Answers => secret = "good")
      BY <1>1 DEF GInv, DayKnows
    <2>. QED
      BY <1>5, <2>1, <2>2
  <1>. HIDE DEF r
  <1>8. /\ files' = [t \in Range(Order) |-> files'[t]]
        /\ NegativesAreReadable' /\ StorageVerdictIsTrue'
    BY <1>2, <1>4, <1>6, <1>7, Recorded
  <1>9. drill' \in Drills /\ DayKnows'
    BY <1>1, <1>2, <1>3, Continued
  <1>. QED
    BY <1>1, <1>8, <1>9, RecordStep

(* The report assembles what is on disk and touches no other record.       *)
LEMMA ReportStep == ASSUME GInv, Report PROVE GInv'
  <1>1. /\ drill.at = "preflight" /\ Scenario = "report" /\ UNCHANGED world /\ UNCHANGED day
        /\ Continue
        /\ \E r : files' = [files EXCEPT !["report"] = r]
    BY DEF Report
  <1>2. drill.todo \in Plans /\ "report" \in Range(Order) /\ UNCHANGED wiring
    BY <1>1, AtHome, AlertsAre DEF world
  <1>3. Len(drill.todo) # 5
    BY <1>1, <1>2, PlansAre DEF Scenario
  <1>4. /\ files' = [t \in Range(Order) |-> files'[t]]
        /\ NegativesAreReadable' /\ StorageVerdictIsTrue'
    BY <1>1, <1>2, Recorded
  <1>5. drill' \in Drills /\ DayKnows'
    BY <1>1, <1>2, <1>3, Continued
  <1>. QED
    BY <1>1, <1>4, <1>5, RecordStep

(* The rehearsal at the same endpoint, and what is killed.                 *)
LEMMA OthersStep ==
    ASSUME GInv, StopService \/ StartService \/ RehearsalKilled \/ DrillKilled
    PROVE  GInv'
  <1>1. /\ UNCHANGED <<rules, files, wiring, secret, day>>
        /\ left' = left \/ Trouble
        /\ pod' = pod \/ pod' \in {"absent", "starting"}
        /\ stopped' \in BOOLEAN /\ rehearsal' \in {"none", "stopped"}
        /\ \/ UNCHANGED drill \/ Stop
           \/ drill' = [drill EXCEPT !.replaced = drill.at # "idle"]
    BY DEF StopService, StartService, RehearsalKilled, DrillKilled, endpoint, GInv, GTyped
  <1>2. pod' \in Pods /\ secret' \in Secrets /\ day' \in 0..MaxRuns
    BY <1>1 DEF GInv, GTyped, Pods
  <1>3. CASE Stop
    BY <1>1, <1>2, <1>3, Stopped, QuietStep DEF Stop
  <1>4. CASE UNCHANGED drill \/ drill' = [drill EXCEPT !.replaced = drill.at # "idle"]
    <2>1. (drill.at # "idle") \in BOOLEAN
      OBVIOUS
    <2>2. /\ drill' \in Drills /\ drill'.todo = drill.todo /\ drill'.at = drill.at
          /\ drill'.spared = drill.spared
      BY <1>4, <2>1 DEF GInv, GTyped, Drills
    <2>3. pod' = "ready" => pod = "ready"
      BY <1>1
    <2>4. DayKnows'
      BY <1>1, <2>2, <2>3 DEF GInv, DayKnows, Scenario, Answers
    <2>. QED
      BY <1>1, <1>2, <2>2, <2>4, QuietStep
  <1>. QED
    BY <1>1, <1>3, <1>4

(* Every step keeps the invariant.                                         *)
LEMMA GamedayStep == ASSUME GInv, [Next]_vars PROVE GInv'
  <1>1. CASE UNCHANGED vars
    <2>1. UNCHANGED <<pod, secret, stopped, wiring, rules, drill, rehearsal, files, day, left>>
      BY <1>1 DEF vars, endpoint
    <2>2. DayKnows'
      BY <2>1 DEF GInv, DayKnows, Scenario, Answers
    <2>. QED
      BY <2>1, <2>2, QuietStep DEF GInv, GTyped
  <1>2. CASE Next
    BY <1>2, TickStep, BeginStep, PreflightStep, PollSteps, InjectStep, ClearStep, KillStep,
       StorageStep, PressStep, FinishStep, ReportStep, OthersStep DEF Next, DrillStep
  <1>. QED
    BY <1>1, <1>2

(* Errors confined to one minute never page A-2, in every order of traffic,*)
(* scenarios, slow starts, kills and rehearsals (Gameday's Minute, from    *)
(* alerting_rules.yml and gameday_m6.py).                                  *)
THEOREM OneMinuteIsQuiet ==
    ASSUME GamedayAssumption
    PROVE  Spec => []OneMinuteNeverPages
  <1>1. ASSUME GInv PROVE OneMinuteNeverPages
    <2>1. over["a2"] \in Nat /\ Sustain["a2"] = 5
      BY <1>1, AlertsAre DEF GInv, GTyped, Firsts
    <2>. QED
      BY <1>1, <2>1 DEF GInv, Errors, OneMinuteNeverPages, Firing
  <1>2. Init => GInv
    BY InitGameday
  <1>3. GInv /\ [Next]_vars => GInv'
    BY GamedayStep
  <1>. QED
    BY <1>1, <1>2, <1>3, PTL DEF Spec

(* What the records of a gameday say held is so: a whole day's quiet kill  *)
(* was watched by alerting that worked, and a storage scenario recorded as *)
(* predicted left the credential restored and the endpoint answering.      *)
THEOREM RecordsStayTrue ==
    ASSUME GamedayAssumption
    PROVE  Spec => []RecordsAreTrue
  <1>1. ASSUME GInv PROVE RecordsAreTrue
    <2>1. ASSUME NEW a \in Alerts PROVE over[a] \in 0..(Sustain[a] + 1)
      <3>1. over[a] \in Nat /\ over[a] <= Sustain[a] + 1
        BY <1>1 DEF GInv, GTyped, Firsts
      <3>2. Sustain[a] \in Nat
        BY AlertsAre
      <3>. QED
        BY <3>1, <3>2
    <2>2. TypeOK
      BY <1>1, <2>1 DEF GInv, GTyped, Errors, TypeOK, Pods, Secrets
    <2>. QED
      BY <1>1, <2>2 DEF GInv, RecordsAreTrue
  <1>2. Init => GInv
    BY InitGameday
  <1>3. GInv /\ [Next]_vars => GInv'
    BY GamedayStep
  <1>. QED
    BY <1>1, <1>2, <1>3, PTL DEF Spec
=============================================================================
