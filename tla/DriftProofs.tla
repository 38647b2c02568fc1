----------------------------- MODULE DriftProofs -----------------------------
(***************************************************************************)
(* Proofs about DriftBoard: the verdicts of the two drills, for every set  *)
(* of months, every sequence of months that a drill pushes of which one is *)
(* predicted to fire, all data and reference, every deployment, all waits  *)
(* that outlast what they wait for, and any number of events outside.      *)
(*                                                                         *)
(* A verdict sums up a script of some three steps per month, so the        *)
(* invariant says, for every position in the script, what the steps before *)
(* it have established: on whatever platform (FireKnows, PersistenceKnows),*)
(* which is why PASSED is earned, and on one that is as predicted          *)
(* (FireSound, PersistenceSound), which is why RED is never said of it.    *)
(***************************************************************************)
EXTENDS MCDriftBoard, FiniteSetTheorems, SequenceTheorems, TLAPS

\* The months of a drill, and the one that is predicted to fire.
N == Len(DrillMonths)
Drilled == Range(DrillMonths)
Fires == CHOOSE m \in Drilled : Predicted = {m}

\* The first k months of a drill.
Begun(k) == {DrillMonths[i] : i \in {j \in 1..N : j <= k}}

Drills ==
  [name : {"none", "fire", "persistence"}, step : Nat, red : BOOLEAN, waited : Nat,
   wire : BOOLEAN, before : Nat, fired : SUBSET Series, owes : SUBSET Months,
   sound : BOOLEAN, meddled : BOOLEAN, end : {"none", "aborted", "killed", "done"}]

Typed ==
  /\ \A m \in Months : data[m] = <<>> \/ DOMAIN data[m] = DOMAIN Trips[m]
  /\ DOMAIN data = Months
  /\ board \in [Months -> Groups] /\ disk \in [Months -> Groups]
  /\ volume \in Volumes /\ wiring \subseteq {"rules", "alertmanager"}
  /\ pod \in {"up", "down"}
  /\ job \in [todo : SUBSET Months, wire : BOOLEAN]
  /\ drill \in Drills
  /\ drill.name = "none" <=> drill.step = 0
  /\ drill.step <= Len(Script) + 1
  /\ rule \in [Series -> Nat]
  /\ \A s \in Series : rule[s] <= Sustain(s) + 1
  /\ \A s \in Series : rule[s] > 0 => "rules" \in wiring
  /\ left \in 0..MaxEvents

Alone == drill.step # 0 /\ ~drill.meddled
In(name) == Alone /\ drill.name = name
n == drill.step

\* What the steps done have put on the board, whatever the platform.
FireKnows == In("fire") =>
  /\ job.todo = {} /\ drill.wire /\ pod = "up"
  /\ \A i \in 1..N : (N + 2 + i < n /\ ~(n \in {2*N + 7, 2*N + 8} /\ DrillMonths[i] \in Predicted))
        => board[DrillMonths[i]] = Group(DrillMonths[i])
  /\ n > 2*N + 5 /\ ~drill.red => wiring = {"rules", "alertmanager"}

PersistenceKnows == In("persistence") =>
  /\ job.todo = {}
  /\ n # N + 5 => drill.wire /\ pod = "up"
  /\ n \in {N + 5, N + 6} /\ volume # "written" => board = Empty
  /\ n > N + 6 /\ ~drill.red => volume = "written"
  /\ n > 2*N + 10 /\ ~drill.red => wiring = {"rules", "alertmanager"}
  /\ \A i \in 1..N : 2*N + 10 + i < n => board[DrillMonths[i]] = Group(DrillMonths[i])

\* On a platform that is as predicted.
AsPredicted ==
  /\ ~drill.red
  /\ volume = "written" /\ wiring = {"rules", "alertmanager"}
  /\ \A m \in Drilled : /\ Computable(m) /\ (Low(m) <=> m \in Predicted)
                        /\ Shifted(m) < 2

Quiet == \A a \in Alerts, m \in Months : rule[<<a, m>>] = 0
Collapse == <<"volume", Fires>>
OnlyCollapse == \A a \in Alerts, m \in Months : <<a, m>> # Collapse => rule[<<a, m>>] = 0
Loss == <<"absent", "">>

FireSound == In("fire") /\ drill.sound =>
  /\ AsPredicted
  /\ n <= N + 1 => Held \subseteq Drilled /\ \A i \in 1..N : i < n => DrillMonths[i] \notin Held
  /\ n \in N + 2 .. 2*N + 6 => Held = Begun(n - N - 3)
  /\ n < 2*N + 4 => drill.fired = {}
  /\ n = N + 1 /\ drill.waited >= 1 => Quiet
  /\ n \in N + 2 .. 2*N + 3 => Quiet
  /\ n \in {2*N + 4, 2*N + 5} =>
       /\ OnlyCollapse
       /\ \A s \in drill.fired : s[1] \in Alerts => s = Collapse
  /\ n = 2*N + 4 => /\ rule[Collapse] = Least(drill.waited, 2)
                    /\ drill.waited >= 2 => Collapse \in drill.fired
  /\ n = 2*N + 5 => rule[Collapse] = 2 /\ Collapse \in drill.fired
  /\ n = 2*N + 7 => /\ Held \subseteq Drilled \ Predicted
                    /\ drill.waited >= 1 => \A m \in Months : rule[<<"volume", m>>] = 0

PersistenceSound == In("persistence") /\ drill.sound =>
  /\ AsPredicted
  /\ n <= N + 3 => Held \subseteq Drilled
  /\ n \in 3 .. N + 3 => Begun(n - 3) \subseteq Held
  /\ n > N + 3 => drill.before = Cardinality(Drilled)
  /\ n \in N + 4 .. N + 7 /\ ~(n = N + 5 /\ pod = "down") => Held = Drilled
  /\ n = N + 5 /\ pod = "down" => {m \in Months : disk[m] # NoGroup} = Drilled
  /\ n = N + 7 /\ drill.waited >= 1 => rule[Loss] = 0
  /\ n \in N + 8 .. 2*N + 8 =>
       Held \subseteq Drilled /\ \A i \in 1..N : N + 7 + i < n => DrillMonths[i] \notin Held
  /\ n \in N + 8 .. 2*N + 8 => rule[Loss] = 0
  /\ n \in {2*N + 9, 2*N + 10} => Held = {}
  /\ n = 2*N + 9 => rule[Loss] = Least(drill.waited, 3)
  /\ n = 2*N + 9 /\ drill.waited >= 1 => Quiet
  /\ n = 2*N + 10 => rule[Loss] = 3 /\ Quiet
  /\ n >= 2*N + 11 => Held = Begun(n - 2*N - 11)
  /\ n = 3*N + 12 /\ drill.waited >= 1 => rule[Loss] = 0
  /\ n = 3*N + 13 /\ drill.waited >= 1 => rule[Collapse] > 0

DrillKnows == FireKnows /\ PersistenceKnows /\ FireSound /\ PersistenceSound
DInv == Typed /\ DrillKnows

\* The months of a drill are numbered from 1, and one of them fires.
LEMMA DrillsAre ==
    /\ N \in Nat /\ N >= 1
    /\ DrillMonths \in [1..N -> Months] /\ DOMAIN DrillMonths = 1..N
    /\ Drilled = {DrillMonths[i] : i \in 1..N}
    /\ \A i, j \in 1..N : DrillMonths[i] = DrillMonths[j] => i = j
    /\ Fires \in Drilled /\ Predicted = {Fires} /\ Drilled \subseteq Months
    /\ IsFiniteSet(Drilled) /\ Cardinality(Drilled) = N
  <1>1. /\ N \in Nat /\ DrillMonths \in [1..N -> Months] /\ DOMAIN DrillMonths = 1..N
     BY MonthsAssumption, LenProperties DEF N
  <1>2. Drilled = {DrillMonths[i] : i \in 1..N}
     BY <1>1 DEF Drilled, Range
  <1>3. \A i, j \in 1..N : DrillMonths[i] = DrillMonths[j] => i = j
     BY <1>1, MonthsAssumption DEF IsInjective
  <1>4. Fires \in Drilled /\ Predicted = {Fires}
     BY MonthsAssumption DEF Fires, Drilled
  <1>5. N >= 1
     BY <1>1, <1>2, <1>4
  <1>6. Drilled \subseteq Months
     BY <1>1, <1>2
  <1>7. DrillMonths \in Bijection(1..N, Drilled)
     BY <1>1, <1>2, <1>3 DEF Bijection, Injection, Surjection, IsInjective
  <1>8. IsFiniteSet(1..N) /\ Cardinality(1..N) = N
     BY <1>1, FS_Interval
  <1>9. IsFiniteSet(Drilled) /\ Cardinality(Drilled) = N
     BY <1>7, <1>8, FS_Bijection DEF ExistsBijection
  <1> QED BY <1>1, <1>2, <1>3, <1>4, <1>5, <1>6, <1>9

OpNames == {"reset", "settle", "clean", "push", "scraped", "observe", "judge", "delete",
            "cleared", "bound", "named", "count", "terminate", "newpod", "recount",
            "settled", "emptied", "absent", "blind", "returns"}
Ops == [op : OpNames, arg : SUBSET Months]

\* A sequence of operations, entry by entry.
Is(s, k) == s \in Seq(Ops) /\ Len(s) = k

\* One operation per month.
LEMMA EachIs ==
    ASSUME NEW op \in OpNames
    PROVE  /\ Is(Each(op), N)
           /\ \A i \in 1..N : Each(op)[i] = Op(op, {DrillMonths[i]})
  <1>1. \A i \in 1..N : Op(op, {DrillMonths[i]}) \in Ops
     BY DrillsAre DEF Op, Ops
  <1> QED BY <1>1, DrillsAre DEF Each, N, Is

\* u is s followed by t.
Joins(u, s, t, k, l) ==
    /\ Is(u, k + l)
    /\ \A i \in 1..k : u[i] = s[i]
    /\ \A i \in 1..l : u[k + i] = t[i]

\* Concatenation, entry by entry.
LEMMA Joined ==
    ASSUME NEW s, NEW t, NEW k \in Nat, NEW l \in Nat, Is(s, k), Is(t, l)
    PROVE  Joins(s \o t, s, t, k, l)
  <1>1. s \in Seq(Ops) /\ t \in Seq(Ops) /\ Len(s) = k /\ Len(t) = l
     BY DEF Is
  <1>2. /\ s \o t \in Seq(Ops) /\ Len(s \o t) = Len(s) + Len(t)
        /\ \A i \in 1..Len(s) + Len(t) : (s \o t)[i] = IF i <= Len(s) THEN s[i] ELSE t[i - Len(s)]
     BY <1>1, ConcatProperties
  <1> QED BY <1>1, <1>2 DEF Is, Joins

\* The script of the fire drill, by position.
LEMMA FireScriptIs ==
    /\ Is(FireScript, 2*N + 8)
    /\ \A i \in 1..N : FireScript[i] = Op("reset", {DrillMonths[i]})
    /\ FireScript[N + 1] = Op("settle", {}) /\ FireScript[N + 2] = Op("clean", {})
    /\ \A i \in 1..N : FireScript[N + 2 + i] = Op("push", {DrillMonths[i]})
    /\ FireScript[2*N + 3] = Op("scraped", {})
    /\ FireScript[2*N + 4] = Op("observe", {})
    /\ FireScript[2*N + 5] = Op("judge", {})
    /\ FireScript[2*N + 6] = Op("delete", Predicted)
    /\ FireScript[2*N + 7] = Op("cleared", {})
    /\ FireScript[2*N + 8] = Op("push", Predicted)
  <1> DEFINE r == Each("reset")
             s == << Op("settle", {}), Op("clean", {}) >>
             p == Each("push")
             o == << Op("scraped", {}), Op("observe", {}), Op("judge", {}) >>
             e == << Op("delete", Predicted), Op("cleared", {}), Op("push", Predicted) >>
  <1>1. /\ Is(r, N)
        /\ \A i \in 1..N : r[i] = Op("reset", {DrillMonths[i]})
     BY EachIs DEF OpNames
  <1>2. /\ Is(p, N)
        /\ \A i \in 1..N : p[i] = Op("push", {DrillMonths[i]})
     BY EachIs DEF OpNames
  <1>3. /\ Is(s, 2) /\ s[1] = Op("settle", {}) /\ s[2] = Op("clean", {})
     BY DEF Op, Ops, OpNames, Is
  <1>4. /\ Is(o, 3) /\ o[1] = Op("scraped", {})
        /\ o[2] = Op("observe", {}) /\ o[3] = Op("judge", {})
     BY DEF Op, Ops, OpNames, Is
  <1>5. /\ Is(e, 3) /\ e[1] = Op("delete", Predicted)
        /\ e[2] = Op("cleared", {}) /\ e[3] = Op("push", Predicted)
     BY DrillsAre DEF Op, Ops, OpNames, Is
  <1>6. FireScript = (((r \o s) \o p) \o o) \o e
     BY DEF FireScript
  <1> HIDE DEF r, s, p, o, e
  <1> DEFINE a == r \o s
             b == a \o p
             c == b \o o
  <1>7. Joins(a, r, s, N, 2)
     BY <1>1, <1>3, DrillsAre, Joined
  <1>8. Joins(b, a, p, N + 2, N)
    <2>1. Is(a, N + 2)
       BY <1>7 DEF Joins
    <2> HIDE DEF a
    <2> QED BY <1>2, <2>1, DrillsAre, Joined
  <1>9. Joins(c, b, o, 2*N + 2, 3)
    <2>1. Is(b, 2*N + 2)
       BY <1>8, DrillsAre DEF Joins
    <2> HIDE DEF b
    <2> QED BY <1>4, <2>1, DrillsAre, Joined
  <1>10. Joins(FireScript, c, e, 2*N + 5, 3)
    <2>1. Is(c, 2*N + 5)
       BY <1>9, DrillsAre DEF Joins
    <2>2. FireScript = c \o e
       BY DEF FireScript, r, s, p, o, e
    <2> HIDE DEF c
    <2>3. Joins(c \o e, c, e, 2*N + 5, 3)
       BY <1>5, <2>1, DrillsAre, Joined
    <2> QED BY <2>2, <2>3
  <1> HIDE DEF a, b, c
  <1>11. N \in Nat
     BY DrillsAre
  <1>12. \A i \in 1..N : FireScript[i] = Op("reset", {DrillMonths[i]})
    <2> TAKE i \in 1..N
    <2>1. i \in 1..N + 2 /\ i \in 1..2*N + 2 /\ i \in 1..2*N + 5
       BY <1>11
    <2> QED BY <2>1, <1>1, <1>7, <1>8, <1>9, <1>10 DEF Joins
  <1>13. \A i \in 1..2 : FireScript[N + i] = s[i]
    <2> TAKE i \in 1..2
    <2>1. N + i \in 1..N + 2 /\ N + i \in 1..2*N + 2 /\ N + i \in 1..2*N + 5
       BY <1>11
    <2> QED BY <2>1, <1>7, <1>8, <1>9, <1>10 DEF Joins
  <1>14. \A i \in 1..N : FireScript[N + 2 + i] = Op("push", {DrillMonths[i]})
    <2> TAKE i \in 1..N
    <2>1. N + 2 + i \in 1..2*N + 2 /\ N + 2 + i \in 1..2*N + 5
       BY <1>11
    <2> QED BY <2>1, <1>2, <1>8, <1>9, <1>10 DEF Joins
  <1>15. \A i \in 1..3 : FireScript[2*N + 2 + i] = o[i]
    <2> TAKE i \in 1..3
    <2>1. 2*N + 2 + i \in 1..2*N + 5
       BY <1>11
    <2> QED BY <2>1, <1>9, <1>10 DEF Joins
  <1>16. \A i \in 1..3 : FireScript[2*N + 5 + i] = e[i]
     BY <1>10 DEF Joins
  <1>17. FireScript[N + 1] = s[1] /\ FireScript[N + 2] = s[2]
     BY <1>13
  <1>18. /\ FireScript[2*N + 3] = o[1] /\ FireScript[2*N + 4] = o[2]
         /\ FireScript[2*N + 5] = o[3]
     BY <1>11, <1>15
  <1>19. /\ FireScript[2*N + 6] = e[1] /\ FireScript[2*N + 7] = e[2]
         /\ FireScript[2*N + 8] = e[3]
     BY <1>11, <1>16
  <1>20. Is(FireScript, 2*N + 8)
     BY <1>10, <1>11 DEF Joins
  <1> QED BY <1>3, <1>4, <1>5, <1>12, <1>14, <1>17, <1>18, <1>19, <1>20

\* The script of the persistence drill, by position.
LEMMA PersistenceScriptIs ==
    /\ Is(PersistenceScript, 3*N + 13)
    /\ PersistenceScript[1] = Op("bound", {}) /\ PersistenceScript[2] = Op("named", {})
    /\ \A i \in 1..N : PersistenceScript[2 + i] = Op("push", {DrillMonths[i]})
    /\ PersistenceScript[N + 3] = Op("count", {})
    /\ PersistenceScript[N + 4] = Op("terminate", {})
    /\ PersistenceScript[N + 5] = Op("newpod", {})
    /\ PersistenceScript[N + 6] = Op("recount", {})
    /\ PersistenceScript[N + 7] = Op("settled", {})
    /\ \A i \in 1..N : PersistenceScript[N + 7 + i] = Op("delete", {DrillMonths[i]})
    /\ PersistenceScript[2*N + 8] = Op("emptied", {})
    /\ PersistenceScript[2*N + 9] = Op("absent", {})
    /\ PersistenceScript[2*N + 10] = Op("blind", {})
    /\ \A i \in 1..N : PersistenceScript[2*N + 10 + i] = Op("push", {DrillMonths[i]})
    /\ PersistenceScript[3*N + 11] = Op("recount", {})
    /\ PersistenceScript[3*N + 12] = Op("settled", {})
    /\ PersistenceScript[3*N + 13] = Op("returns", {})
  <1> DEFINE h == << Op("bound", {}), Op("named", {}) >>
             p == Each("push")
             o == << Op("count", {}), Op("terminate", {}), Op("newpod", {}),
                     Op("recount", {}), Op("settled", {}) >>
             d == Each("delete")
             e == << Op("emptied", {}), Op("absent", {}), Op("blind", {}) >>
             q == << Op("recount", {}), Op("settled", {}), Op("returns", {}) >>
  <1>1. Is(h, 2) /\ h[1] = Op("bound", {}) /\ h[2] = Op("named", {})
     BY DEF Op, Ops, OpNames, Is
  <1>2. /\ Is(p, N)
        /\ \A i \in 1..N : p[i] = Op("push", {DrillMonths[i]})
     BY EachIs DEF OpNames
  <1>3. /\ Is(o, 5) /\ o[1] = Op("count", {}) /\ o[2] = Op("terminate", {})
        /\ o[3] = Op("newpod", {}) /\ o[4] = Op("recount", {}) /\ o[5] = Op("settled", {})
     BY DEF Op, Ops, OpNames, Is
  <1>4. /\ Is(d, N)
        /\ \A i \in 1..N : d[i] = Op("delete", {DrillMonths[i]})
     BY EachIs DEF OpNames
  <1>5. Is(e, 3) /\ e[1] = Op("emptied", {}) /\ e[2] = Op("absent", {}) /\ e[3] = Op("blind", {})
     BY DEF Op, Ops, OpNames, Is
  <1>6. Is(q, 3) /\ q[1] = Op("recount", {}) /\ q[2] = Op("settled", {}) /\ q[3] = Op("returns", {})
     BY DEF Op, Ops, OpNames, Is
  <1> HIDE DEF h, p, o, d, e, q
  <1> DEFINE a == h \o p
             b == a \o o
             c == b \o d
             f == c \o e
             g == f \o p
  <1>7. Joins(a, h, p, 2, N)
     BY <1>1, <1>2, DrillsAre, Joined
  <1>8. Joins(b, a, o, N + 2, 5)
    <2>1. Is(a, N + 2)
       BY <1>7, DrillsAre DEF Joins
    <2> HIDE DEF a
    <2> QED BY <1>3, <2>1, DrillsAre, Joined
  <1>9. Joins(c, b, d, N + 7, N)
    <2>1. Is(b, N + 7)
       BY <1>8, DrillsAre DEF Joins
    <2> HIDE DEF b
    <2> QED BY <1>4, <2>1, DrillsAre, Joined
  <1>10. Joins(f, c, e, 2*N + 7, 3)
    <2>1. Is(c, 2*N + 7)
       BY <1>9, DrillsAre DEF Joins
    <2> HIDE DEF c
    <2> QED BY <1>5, <2>1, DrillsAre, Joined
  <1>11. Joins(g, f, p, 2*N + 10, N)
    <2>1. Is(f, 2*N + 10)
       BY <1>10, DrillsAre DEF Joins
    <2> HIDE DEF f
    <2> QED BY <1>2, <2>1, DrillsAre, Joined
  <1>12. Joins(PersistenceScript, g, q, 3*N + 10, 3)
    <2>1. Is(g, 3*N + 10)
       BY <1>11, DrillsAre DEF Joins
    <2>2. PersistenceScript = g \o q
       BY DEF PersistenceScript, h, p, o, d, e, q
    <2> HIDE DEF g
    <2>3. Joins(g \o q, g, q, 3*N + 10, 3)
       BY <1>6, <2>1, DrillsAre, Joined
    <2> QED BY <2>2, <2>3
  <1> HIDE DEF a, b, c, f, g
  <1>13. N \in Nat
     BY DrillsAre
  <1>14. \A i \in 1..2 : PersistenceScript[i] = h[i]
    <2> TAKE i \in 1..2
    <2>1. /\ i \in 1..2 /\ i \in 1..N + 2 /\ i \in 1..N + 7
          /\ i \in 1..2*N + 7 /\ i \in 1..2*N + 10 /\ i \in 1..3*N + 10
       BY <1>13
    <2> QED BY <2>1, <1>7, <1>8, <1>9, <1>10, <1>11, <1>12 DEF Joins
  <1>15. \A i \in 1..N : PersistenceScript[2 + i] = Op("push", {DrillMonths[i]})
    <2> TAKE i \in 1..N
    <2>1. /\ 2 + i \in 1..N + 2 /\ 2 + i \in 1..N + 7 /\ 2 + i \in 1..2*N + 7
          /\ 2 + i \in 1..2*N + 10 /\ 2 + i \in 1..3*N + 10
       BY <1>13
    <2> QED BY <2>1, <1>2, <1>7, <1>8, <1>9, <1>10, <1>11, <1>12 DEF Joins
  <1>16. \A i \in 1..5 : PersistenceScript[N + 2 + i] = o[i]
    <2> TAKE i \in 1..5
    <2>1. /\ N + 2 + i \in 1..N + 7 /\ N + 2 + i \in 1..2*N + 7
          /\ N + 2 + i \in 1..2*N + 10 /\ N + 2 + i \in 1..3*N + 10
       BY <1>13
    <2> QED BY <2>1, <1>8, <1>9, <1>10, <1>11, <1>12 DEF Joins
  <1>17. \A i \in 1..N : PersistenceScript[N + 7 + i] = Op("delete", {DrillMonths[i]})
    <2> TAKE i \in 1..N
    <2>1. N + 7 + i \in 1..2*N + 7 /\ N + 7 + i \in 1..2*N + 10 /\ N + 7 + i \in 1..3*N + 10
       BY <1>13
    <2> QED BY <2>1, <1>4, <1>9, <1>10, <1>11, <1>12 DEF Joins
  <1>18. \A i \in 1..3 : PersistenceScript[2*N + 7 + i] = e[i]
    <2> TAKE i \in 1..3
    <2>1. 2*N + 7 + i \in 1..2*N + 10 /\ 2*N + 7 + i \in 1..3*N + 10
       BY <1>13
    <2> QED BY <2>1, <1>10, <1>11, <1>12 DEF Joins
  <1>19. \A i \in 1..N : PersistenceScript[2*N + 10 + i] = Op("push", {DrillMonths[i]})
    <2> TAKE i \in 1..N
    <2>1. 2*N + 10 + i \in 1..3*N + 10
       BY <1>13
    <2> QED BY <2>1, <1>2, <1>11, <1>12 DEF Joins
  <1>20. \A i \in 1..3 : PersistenceScript[3*N + 10 + i] = q[i]
    <2> TAKE i \in 1..3
    <2> QED BY <1>12 DEF Joins
  <1>21. PersistenceScript[1] = Op("bound", {}) /\ PersistenceScript[2] = Op("named", {})
     BY <1>13, <1>14, <1>1
  <1>22. /\ PersistenceScript[N + 3] = Op("count", {})
         /\ PersistenceScript[N + 4] = Op("terminate", {})
         /\ PersistenceScript[N + 5] = Op("newpod", {})
         /\ PersistenceScript[N + 6] = Op("recount", {})
         /\ PersistenceScript[N + 7] = Op("settled", {})
     BY <1>13, <1>16, <1>3
  <1>23. /\ PersistenceScript[2*N + 8] = Op("emptied", {})
         /\ PersistenceScript[2*N + 9] = Op("absent", {})
         /\ PersistenceScript[2*N + 10] = Op("blind", {})
     BY <1>13, <1>18, <1>5
  <1>24. /\ PersistenceScript[3*N + 11] = Op("recount", {})
         /\ PersistenceScript[3*N + 12] = Op("settled", {})
         /\ PersistenceScript[3*N + 13] = Op("returns", {})
     BY <1>13, <1>20, <1>6
  <1>25. Is(PersistenceScript, 3*N + 13)
     BY <1>12, <1>13 DEF Joins
  <1> QED BY <1>21, <1>15, <1>22, <1>17, <1>23, <1>19, <1>24, <1>25

\* What the fire drill is at.
LEMMA AtFire ==
    ASSUME Typed, drill.name = "fire"
    PROVE  /\ n \in 1..2*N + 9 /\ Len(Script) = 2*N + 8 /\ (Running <=> n # 2*N + 9)
           /\ n \in 1..N => Step.op = "reset" /\ Step.arg = {DrillMonths[n]}
           /\ n = N + 1 => Step.op = "settle"
           /\ n = N + 2 => Step.op = "clean"
           /\ n \in N + 3..2*N + 2 => Step.op = "push" /\ Step.arg = {DrillMonths[n - N - 2]}
           /\ n = 2*N + 3 => Step.op = "scraped"
           /\ n = 2*N + 4 => Step.op = "observe"
           /\ n = 2*N + 5 => Step.op = "judge"
           /\ n = 2*N + 6 => Step.op = "delete" /\ Step.arg = Predicted
           /\ n = 2*N + 7 => Step.op = "cleared"
           /\ n = 2*N + 8 => Step.op = "push" /\ Step.arg = Predicted
  <1>1. Script = FireScript /\ N \in Nat
     BY DrillsAre DEF Script
  <1>2. Len(Script) = 2*N + 8 /\ n \in 1..2*N + 9 /\ (Running <=> n # 2*N + 9)
    <2>1. drill.step \in Nat /\ drill.step # 0 /\ drill.step <= Len(Script) + 1
       BY DEF Typed, Drills
    <2>2. Len(Script) = 2*N + 8
       BY <1>1, FireScriptIs DEF Is
    <2> QED BY <1>1, <2>1, <2>2 DEF n, Running
  <1>3. n \in N + 3..2*N + 2 => Step = Op("push", {DrillMonths[n - N - 2]})
    <2> SUFFICES ASSUME n \in N + 3..2*N + 2 PROVE Step = Op("push", {DrillMonths[n - N - 2]})
       OBVIOUS
    <2>1. n - N - 2 \in 1..N /\ n = N + 2 + (n - N - 2)
       BY <1>1, <1>2
    <2> QED BY <1>1, <2>1, FireScriptIs DEF Step, n
  <1>4. n \in 1..N => Step = Op("reset", {DrillMonths[n]})
     BY <1>1, FireScriptIs DEF Step, n
  <1>5. /\ n = N + 1 => Step = Op("settle", {})
        /\ n = N + 2 => Step = Op("clean", {})
        /\ n = 2*N + 3 => Step = Op("scraped", {})
        /\ n = 2*N + 4 => Step = Op("observe", {})
        /\ n = 2*N + 5 => Step = Op("judge", {})
        /\ n = 2*N + 6 => Step = Op("delete", Predicted)
        /\ n = 2*N + 7 => Step = Op("cleared", {})
        /\ n = 2*N + 8 => Step = Op("push", Predicted)
     BY <1>1, FireScriptIs DEF Step, n
  <1> QED BY <1>2, <1>3, <1>4, <1>5 DEF Op

\* What the persistence drill is at.
LEMMA AtPersistence ==
    ASSUME Typed, drill.name = "persistence"
    PROVE  /\ n \in 1..3*N + 14 /\ Len(Script) = 3*N + 13 /\ (Running <=> n # 3*N + 14)
           /\ n = 1 => Step.op = "bound"
           /\ n = 2 => Step.op = "named"
           /\ n \in 3..N + 2 => Step.op = "push" /\ Step.arg = {DrillMonths[n - 2]}
           /\ n = N + 3 => Step.op = "count"
           /\ n = N + 4 => Step.op = "terminate"
           /\ n = N + 5 => Step.op = "newpod"
           /\ n = N + 6 => Step.op = "recount"
           /\ n = N + 7 => Step.op = "settled"
           /\ n \in N + 8..2*N + 7 => Step.op = "delete" /\ Step.arg = {DrillMonths[n - N - 7]}
           /\ n = 2*N + 8 => Step.op = "emptied"
           /\ n = 2*N + 9 => Step.op = "absent"
           /\ n = 2*N + 10 => Step.op = "blind"
           /\ n \in 2*N + 11..3*N + 10 =>
                 Step.op = "push" /\ Step.arg = {DrillMonths[n - 2*N - 10]}
           /\ n = 3*N + 11 => Step.op = "recount"
           /\ n = 3*N + 12 => Step.op = "settled"
           /\ n = 3*N + 13 => Step.op = "returns"
  <1>1. Script = PersistenceScript /\ N \in Nat
     BY DrillsAre DEF Script
  <1>2. Len(Script) = 3*N + 13 /\ n \in 1..3*N + 14 /\ (Running <=> n # 3*N + 14)
    <2>1. drill.step \in Nat /\ drill.step # 0 /\ drill.step <= Len(Script) + 1
       BY DEF Typed, Drills
    <2>2. Len(Script) = 3*N + 13
       BY <1>1, PersistenceScriptIs DEF Is
    <2> QED BY <1>1, <2>1, <2>2 DEF n, Running
  <1>3. n \in 3..N + 2 => Step = Op("push", {DrillMonths[n - 2]})
    <2> SUFFICES ASSUME n \in 3..N + 2 PROVE Step = Op("push", {DrillMonths[n - 2]})
       OBVIOUS
    <2>1. n - 2 \in 1..N /\ n = 2 + (n - 2)
       BY <1>1, <1>2
    <2> QED BY <1>1, <2>1, PersistenceScriptIs DEF Step, n
  <1>4. n \in N + 8..2*N + 7 => Step = Op("delete", {DrillMonths[n - N - 7]})
    <2> SUFFICES ASSUME n \in N + 8..2*N + 7 PROVE Step = Op("delete", {DrillMonths[n - N - 7]})
       OBVIOUS
    <2>1. n - N - 7 \in 1..N /\ n = N + 7 + (n - N - 7)
       BY <1>1, <1>2
    <2> QED BY <1>1, <2>1, PersistenceScriptIs DEF Step, n
  <1>5. n \in 2*N + 11..3*N + 10 => Step = Op("push", {DrillMonths[n - 2*N - 10]})
    <2> SUFFICES ASSUME n \in 2*N + 11..3*N + 10
                 PROVE  Step = Op("push", {DrillMonths[n - 2*N - 10]})
       OBVIOUS
    <2>1. n - 2*N - 10 \in 1..N /\ n = 2*N + 10 + (n - 2*N - 10)
       BY <1>1, <1>2
    <2> QED BY <1>1, <2>1, PersistenceScriptIs DEF Step, n
  <1>6. /\ n = 1 => Step = Op("bound", {})
        /\ n = 2 => Step = Op("named", {})
        /\ n = N + 3 => Step = Op("count", {})
        /\ n = N + 4 => Step = Op("terminate", {})
        /\ n = N + 5 => Step = Op("newpod", {})
        /\ n = N + 6 => Step = Op("recount", {})
        /\ n = N + 7 => Step = Op("settled", {})
     BY <1>1, PersistenceScriptIs DEF Step, n
  <1>7. /\ n = 2*N + 8 => Step = Op("emptied", {})
        /\ n = 2*N + 9 => Step = Op("absent", {})
        /\ n = 2*N + 10 => Step = Op("blind", {})
        /\ n = 3*N + 11 => Step = Op("recount", {})
        /\ n = 3*N + 12 => Step = Op("settled", {})
        /\ n = 3*N + 13 => Step = Op("returns", {})
     BY <1>1, PersistenceScriptIs DEF Step, n
  <1> QED BY <1>2, <1>3, <1>4, <1>5, <1>6, <1>7 DEF Op

\* No drill runs when none was started.
LEMMA AtRest == ASSUME Typed, drill.name = "none" PROVE n = 0 /\ ~Running
  BY DEF Typed, Running, n

\* Nothing has been asked yet.
LEMMA InitDrift == Init => DInv
  <1> SUFFICES ASSUME Init PROVE DInv
     OBVIOUS
  <1>1. Empty \in [Months -> Groups]
     BY DEF Empty, NoGroup, Groups
  <1>2. drill = NoDrill /\ drill.name = "none" /\ drill.step = 0
     BY DEF Init, NoDrill
  <1>3. \A s \in Series : 0 <= Sustain(s) + 1
     BY DEF Sustain
  <1>4. PICK dep \in Deployments : volume = dep.volume /\ wiring = dep.wiring
     BY DEF Init
  <1>5. volume \in Volumes /\ wiring \subseteq {"rules", "alertmanager"}
     BY <1>4, DeploymentsAssumption
  <1>6. \A m \in Months : data[m] = <<>> \/ DOMAIN data[m] = DOMAIN Trips[m]
     BY DEF Init
  <1>7. DOMAIN data = Months
     BY DEF Init
  <1>8. drill.step <= Len(Script) + 1
     BY <1>2 DEF Script
  <1>9. NoDrill \in Drills
     BY DEF NoDrill, Drills
  <1>10. NoJob \in [todo : SUBSET Months, wire : BOOLEAN]
     BY DEF NoJob
  <1>11. rule \in [Series -> Nat] /\ left \in 0..MaxEvents /\ \A s \in Series : rule[s] = 0
     BY WaitsAssumption DEF Init
  <1>12. Typed
     BY <1>1, <1>2, <1>3, <1>5, <1>6, <1>7, <1>8, <1>9, <1>10, <1>11 DEF Typed, Init
  <1> QED BY <1>2, <1>12 DEF DInv, DrillKnows, FireKnows, PersistenceKnows, FireSound,
             PersistenceSound, In, Alone

\* A group that is pushed is one, and is not the absence of one.
LEMMA GroupTyped == \A m \in Months : Group(m) \in Groups /\ Group(m) # NoGroup
  <1> TAKE m \in Months
  <1>1. IsFiniteSet(Moved[m] \ {Target})
     BY MonthsAssumption, FS_Subset
  <1>2. Shifted(m) \in Nat
     BY <1>1, FS_CardinalityType DEF Shifted
  <1>3. Low(m) \in BOOLEAN
     BY DEF Low
  <1> QED BY <1>2, <1>3 DEF Group, Groups, NoGroup

\* The absence of a group, of all groups.
LEMMA NoGroupTyped ==
    NoGroup \in Groups /\ Empty \in [Months -> Groups] /\ Held \subseteq Months
  BY DEF NoGroup, Groups, Empty, Held

\* A drill keeps its script.
LEMMA SameName ==
    ASSUME drill'.name = drill.name
    PROVE  Script' = Script
  BY DEF Script

\* What a step of a drill leaves the drill as.
LEMMA GoesOn ==
    ASSUME Typed, Running
    PROVE  /\ drill.name # "none" /\ drill.step # 0
           /\ Going \in Drills /\ Going.name = drill.name /\ Going.step = drill.step + 1
           /\ Going.step <= Len(Script) + 1
           /\ Going.waited = 0 /\ Going.meddled = drill.meddled /\ Going.sound = drill.sound
           /\ Going.red = drill.red /\ Going.wire = drill.wire /\ Going.fired = drill.fired
           /\ Going.before = drill.before
           /\ \A ok \in BOOLEAN :
                 [Going EXCEPT !.red = @ \/ ~ok] \in Drills
           /\ [NoDrill EXCEPT !.owes = drill.owes, !.end = "aborted"] \in Drills
  <1>1. drill \in Drills /\ drill.step \in 1..Len(Script) /\ (drill.name = "none" <=> drill.step = 0)
     BY DEF Typed, Running
  <1>2. drill.step # 0 /\ drill.name # "none"
     BY <1>1
  <1>3. Len(Script) \in Nat
     BY <1>1, <1>2, AtFire, AtPersistence, DrillsAre DEF Drills
  <1>4. /\ Going \in Drills /\ Going.name = drill.name /\ Going.step = drill.step + 1
        /\ Going.waited = 0 /\ Going.meddled = drill.meddled /\ Going.sound = drill.sound
        /\ Going.red = drill.red /\ Going.wire = drill.wire /\ Going.fired = drill.fired
        /\ Going.before = drill.before
    <2>1. Going \in Drills
      <3> DEFINE k == drill.step + 1
      <3>1. k \in Nat /\ 0 \in Nat
         BY <1>1 DEF Drills
      <3>2. Going = [drill EXCEPT !.step = k, !.waited = 0]
         BY DEF Going
      <3> HIDE DEF k
      <3>3. [drill EXCEPT !.step = k] \in Drills
         BY <1>1, <3>1 DEF Drills
      <3> QED BY <1>1, <3>1, <3>2, <3>3 DEF Drills
    <2>2. /\ Going.name = drill.name /\ Going.step = drill.step + 1
          /\ Going.waited = 0 /\ Going.fired = drill.fired /\ Going.before = drill.before
       BY <1>1 DEF Going, Drills
    <2>3. Going.meddled = drill.meddled /\ Going.sound = drill.sound
       BY <1>1 DEF Going, Drills
    <2>4. Going.red = drill.red /\ Going.wire = drill.wire
       BY <1>1 DEF Going, Drills
    <2> QED BY <2>1, <2>2, <2>3, <2>4
  <1>5. ASSUME NEW ok \in BOOLEAN
        PROVE  [Going EXCEPT !.red = @ \/ ~ok] \in Drills
    <2>1. (Going.red \/ ~ok) \in BOOLEAN
       OBVIOUS
    <2> DEFINE r == Going.red \/ ~ok
    <2> HIDE DEF r
    <2>2. [Going EXCEPT !.red = r] \in Drills
       BY <1>4, <2>1 DEF Drills, r
    <2> QED BY <2>2 DEF r
  <1>6. [NoDrill EXCEPT !.owes = drill.owes, !.end = "aborted"] \in Drills
     BY <1>1 DEF NoDrill, Drills
  <1> QED BY <1>1, <1>2, <1>3, <1>4, <1>5, <1>6

\* The job keeps the types.
LEMMA JobTyped ==
    ASSUME Typed, \/ \E ms \in (SUBSET Months) \ {{}} : JobStart(ms)
                  \/ \E m \in Months : JobStep(m)
    PROVE  Typed'
  <1>1. CASE \E ms \in (SUBSET Months) \ {{}} : JobStart(ms)
    <2> PICK ms \in (SUBSET Months) \ {{}} : JobStart(ms)
       BY <1>1
    <2>1. left' \in 0..MaxEvents
       BY WaitsAssumption DEF Typed, JobStart, Spend
    <2>2. job' \in [todo : SUBSET Months, wire : BOOLEAN]
       BY DEF JobStart
    <2>3. drill' \in Drills /\ drill'.name = drill.name /\ drill'.step = drill.step
       BY DEF Typed, JobStart, Meddle, Drills
    <2> QED BY <2>1, <2>2, <2>3, SameName DEF Typed, JobStart, gateway, deployment
  <1>2. CASE \E m \in Months : JobStep(m)
    <2> PICK m \in Months : JobStep(m)
       BY <1>2
    <2>1. job' \in [todo : SUBSET Months, wire : BOOLEAN]
      <3>1. job \in [todo : SUBSET Months, wire : BOOLEAN]
         BY DEF Typed
      <3>2. job' = [job EXCEPT !.todo = @ \ {m}] \/ job' = NoJob
         BY DEF JobStep
      <3>3. [job EXCEPT !.todo = @ \ {m}] \in [todo : SUBSET Months, wire : BOOLEAN]
         BY <3>1
      <3>4. NoJob \in [todo : SUBSET Months, wire : BOOLEAN]
         BY DEF NoJob
      <3> QED BY <3>2, <3>3, <3>4
    <2>2. board' \in [Months -> Groups]
       BY GroupTyped DEF JobStep, Typed, PutGroup
    <2> QED BY <2>1, <2>2, SameName DEF Typed, JobStep, gateway, deployment
  <1> QED BY <1>1, <1>2

\* So do the data, the gateway and the time that goes by.
LEMMA WorldTyped ==
    ASSUME Typed, \/ \E m \in Months : Ingest(m)
                  \/ Checkpoint \/ Crash \/ Restart \/ Age
    PROVE  Typed'
  <1>1. CASE \E m \in Months : Ingest(m)
    <2> PICK m \in Months : Ingest(m)
       BY <1>1
    <2>1. left' \in 0..MaxEvents
       BY WaitsAssumption DEF Typed, Ingest, Spend
    <2>2. DOMAIN data' = Months /\ \A k \in Months : data'[k] = <<>> \/ DOMAIN data'[k] = DOMAIN Trips[k]
       BY DEF Typed, Ingest
    <2>3. drill' \in Drills /\ drill'.name = drill.name /\ drill'.step = drill.step
       BY DEF Typed, Ingest, Meddle, Drills
    <2> QED BY <2>1, <2>2, <2>3, SameName DEF Typed, Ingest, gateway, deployment
  <1>2. CASE Checkpoint
     BY <1>2, SameName DEF Typed, Checkpoint, deployment
  <1>3. CASE Crash
    <2>1. left' \in 0..MaxEvents
       BY <1>3, WaitsAssumption DEF Typed, Crash, Spend
    <2>2. job' \in [todo : SUBSET Months, wire : BOOLEAN]
       BY <1>3 DEF Crash, Typed
    <2>3. drill' \in Drills /\ drill'.name = drill.name /\ drill'.step = drill.step
       BY <1>3 DEF Typed, Crash, MeddleAndCut, Drills
    <2> QED BY <1>3, <2>1, <2>2, <2>3, SameName, NoGroupTyped DEF Typed, Crash, deployment
  <1>4. CASE Restart
     BY <1>4, SameName, NoGroupTyped DEF Typed, Restart, deployment
  <1>5. CASE Age
    <2>1. left' \in 0..MaxEvents
       BY <1>5, WaitsAssumption DEF Typed, Age, Spend
    <2>2. \A g \in [Months -> Groups] : Aged(g) \in [Months -> Groups]
       BY NoGroupTyped DEF Aged, Groups
    <2>3. board' \in [Months -> Groups] /\ disk' \in [Months -> Groups]
       BY <1>5, <2>2 DEF Age, Typed
    <2> QED BY <1>5, <2>1, <2>3, SameName DEF Typed, Age, deployment
  <1> QED BY <1>1, <1>2, <1>3, <1>4, <1>5

\* A step of a drill goes to the next one of its script, or ends the drill.
LEMMA StepBound ==
    ASSUME Typed, Running, drill' \in Drills,
           \/ drill'.name = drill.name /\ drill'.step = drill.step + 1
           \/ drill'.name = "none" /\ drill'.step = 0
    PROVE  /\ drill'.name = "none" <=> drill'.step = 0
           /\ drill'.step <= Len(Script') + 1
  <1>1. CASE drill'.name = drill.name /\ drill'.step = drill.step + 1
    <2>1. drill.step \in Nat /\ drill.name # "none" /\ Going.step <= Len(Script) + 1
       BY GoesOn DEF Typed, Drills
    <2> QED BY <1>1, <2>1, GoesOn, SameName
  <1>2. CASE drill'.name = "none" /\ drill'.step = 0
     BY <1>2 DEF Script
  <1> QED BY <1>1, <1>2

\* An exception ends the drill.
LEMMA Aborted ==
    ASSUME Abort, Typed, Running
    PROVE  drill' \in Drills /\ drill'.name = "none" /\ drill'.step = 0
  BY GoesOn DEF Abort, NoDrill

\* The steps of a drill that touch the board keep the types.
LEMMA BoardMovesTyped ==
    ASSUME Typed, Reset \/ PushMonth \/ DeleteGroup \/ Terminate
    PROVE  Typed'
  <1>1. Running
     BY DEF Reset, PushMonth, DeleteGroup, Terminate, At
  <1>2. Going \in Drills /\ Going.name = drill.name /\ Going.step = drill.step + 1
     BY <1>1, GoesOn
  <1>3. Held \subseteq Months
     BY DEF Held
  <1>4. \A S \in SUBSET Months :
           /\ [Going EXCEPT !.owes = S] \in Drills
           /\ [Going EXCEPT !.owes = S].name = drill.name
           /\ [Going EXCEPT !.owes = S].step = drill.step + 1
     BY <1>2 DEF Drills
  <1>5. Going.owes \in SUBSET Months
     BY <1>2 DEF Drills
  <1>6. CASE Reset
    <2>1. board' \in [Months -> Groups]
       BY <1>6, NoGroupTyped DEF Reset, Typed
    <2>2. \E S \in SUBSET Months : drill' = [Going EXCEPT !.owes = S]
       BY <1>6, <1>3, <1>5 DEF Reset
    <2> QED BY <1>1, <1>4, <1>6, <2>1, <2>2, StepBound DEF Reset, Typed, deployment
  <1>7. CASE PushMonth
    <2>1. PICK m \in Step.arg :
            IF drill.wire /\ Computable(m)
            THEN PutGroup(m) /\ drill' = [Going EXCEPT !.owes = @ \ {m}]
            ELSE Abort /\ UNCHANGED board
       BY <1>7 DEF PushMonth
    <2>2. board' \in [Months -> Groups]
       BY <2>1, GroupTyped DEF PutGroup, Typed
    <2>3. drill' \in Drills /\ \/ drill'.name = drill.name /\ drill'.step = drill.step + 1
                               \/ drill'.name = "none" /\ drill'.step = 0
      <3>1. CASE drill' = [Going EXCEPT !.owes = @ \ {m}]
        <4>1. Going.owes \ {m} \in SUBSET Months
           BY <1>5
        <4> QED BY <1>4, <3>1, <4>1
      <3>2. CASE Abort
         BY <3>2, <1>1, Aborted
      <3> QED BY <2>1, <3>1, <3>2
    <2> QED BY <1>1, <1>7, <2>2, <2>3, StepBound DEF PushMonth, Typed, deployment
  <1>8. CASE DeleteGroup
    <2>1. PICK m \in Step.arg :
            IF drill.wire
            THEN /\ board' = [board EXCEPT ![m] = NoGroup]
                 /\ drill' = [Going EXCEPT !.owes = @ \cup ({m} \cap Held)]
            ELSE Abort /\ UNCHANGED board
       BY <1>8 DEF DeleteGroup
    <2>2. board' \in [Months -> Groups]
       BY <2>1, NoGroupTyped DEF Typed
    <2>3. drill' \in Drills /\ \/ drill'.name = drill.name /\ drill'.step = drill.step + 1
                               \/ drill'.name = "none" /\ drill'.step = 0
      <3>1. CASE drill' = [Going EXCEPT !.owes = @ \cup ({m} \cap Held)]
        <4>1. Going.owes \cup ({m} \cap Held) \in SUBSET Months
           BY <1>3, <1>5
        <4> QED BY <1>4, <3>1, <4>1
      <3>2. CASE Abort
         BY <3>2, <1>1, Aborted
      <3> QED BY <2>1, <3>1, <3>2
    <2> QED BY <1>1, <1>8, <2>2, <2>3, StepBound DEF DeleteGroup, Typed, deployment
  <1>9. CASE Terminate
    <2>1. drill' \in Drills /\ drill'.name = drill.name /\ drill'.step = drill.step + 1
       BY <1>2, <1>9 DEF Terminate, Drills
    <2>2. job' \in [todo : SUBSET Months, wire : BOOLEAN]
       BY <1>9 DEF Terminate, Typed
    <2>3. board' \in [Months -> Groups] /\ disk' \in [Months -> Groups]
       BY <1>9, NoGroupTyped DEF Terminate, Typed
    <2> QED BY <1>1, <1>9, <2>1, <2>2, <2>3, StepBound DEF Terminate, Typed, deployment
  <1> QED BY <1>6, <1>7, <1>8, <1>9

\* What only asks leaves the world as it is.
LEMMA Asking ==
    ASSUME Typed, drill' \in Drills, Running,
           \/ drill'.name = drill.name /\ drill'.step = drill.step + 1
           \/ drill'.name = "none" /\ drill'.step = 0,
           UNCHANGED <<data, gateway, deployment, job, rule, left>>
    PROVE  Typed'
  BY StepBound DEF Typed, gateway, deployment

\* A check moves the drill on, and can only make it red.
LEMMA Checked ==
    ASSUME Typed, Running, NEW ok \in BOOLEAN, Check(ok)
    PROVE  drill' \in Drills /\ drill'.name = drill.name /\ drill'.step = drill.step + 1
           /\ drill'.red = (drill.red \/ ~ok) /\ drill'.waited = 0 /\ drill'.wire = drill.wire
           /\ drill'.before = drill.before /\ drill'.fired = drill.fired
           /\ drill'.sound = drill.sound /\ drill'.meddled = drill.meddled
  <1>1. drill' = [Going EXCEPT !.red = @ \/ ~ok] /\ drill' \in Drills
     BY GoesOn DEF Check
  <1>2. Going \in Drills
     BY GoesOn
  <1>3. drill'.red = (Going.red \/ ~ok)
     BY <1>1, <1>2 DEF Drills
  <1>4. /\ drill'.name = Going.name /\ drill'.step = Going.step /\ drill'.waited = Going.waited
        /\ drill'.before = Going.before /\ drill'.fired = Going.fired
     BY <1>1, <1>2 DEF Drills
  <1>5. /\ drill'.wire = Going.wire /\ drill'.sound = Going.sound
        /\ drill'.meddled = Going.meddled
     BY <1>1, <1>2 DEF Drills
  <1> QED BY <1>1, <1>3, <1>4, <1>5, GoesOn

\* The steps that only ask keep the types.
LEMMA AsksTyped ==
    ASSUME Typed, AskGateway \/ Look \/ Judge \/ Wait
    PROVE  Typed'
  <1>1. Running /\ UNCHANGED <<data, gateway, deployment, job, rule, left>>
     BY DEF AskGateway, Look, Judge, Wait, At
  <1>2. \/ \E ok \in BOOLEAN : Check(ok)
        \/ Abort
        \/ drill' = Going
        \/ drill' = [Going EXCEPT !.before = Cardinality(Held), !.red = @ \/ Held = {}]
        \/ drill' = [Going EXCEPT !.wire = TRUE]
    <2>1. CASE AskGateway
       BY <2>1 DEF AskGateway, At
    <2>2. CASE Look
      <3>1. CASE Check(volume # "none")
         BY <3>1, Zenon
      <3>2. CASE Check(volume \in {"elsewhere", "written"})
        <4> DEFINE ok == volume \in {"elsewhere", "written"}
        <4>1. ok \in BOOLEAN
           OBVIOUS
        <4> HIDE DEF ok
        <4>2. Check(ok)
           BY <3>2 DEF ok
        <4> QED BY <4>1, <4>2
      <3>3. CASE Check(\A a \in Alerts : Inactive(a))
         BY <3>3, Zenon
      <3>4. CASE Check(Cardinality(Held) >= Len(DrillMonths))
        <4> DEFINE ok == Cardinality(Held) >= Len(DrillMonths)
        <4>1. ok \in BOOLEAN
           OBVIOUS
        <4> HIDE DEF ok
        <4>2. Check(ok)
           BY <3>4 DEF ok
        <4> QED BY <4>1, <4>2
      <3>5. CASE Check(Inactive("stale") /\ Inactive("volume") /\ AtAlertmanager("absent"))
         BY <3>5, Zenon
      <3> QED BY <2>2, <3>1, <3>2, <3>3, <3>4, <3>5 DEF Look
    <2>3. CASE Judge
       BY <2>3 DEF Judge
    <2>4. CASE Wait
      <3>1. Reached \in BOOLEAN
         BY <2>4 DEF Wait, Waiting, Reached, Inactive, Firing, Stirring
      <3>2. CASE Check(Reached)
         BY <3>1, <3>2
      <3> QED BY <2>4, <3>2 DEF Wait
    <2> QED BY <2>1, <2>2, <2>3, <2>4
  <1>3. CASE \E ok \in BOOLEAN : Check(ok)
     BY <1>1, <1>3, Checked, Asking
  <1>4. CASE Abort
     BY <1>1, <1>4, Aborted, Asking
  <1>5. CASE drill' = Going
     BY <1>1, <1>5, GoesOn, Asking
  <1>6. CASE drill' = [Going EXCEPT !.before = Cardinality(Held), !.red = @ \/ Held = {}]
    <2>1. Cardinality(Held) \in Nat
      <3>1. IsFiniteSet(Held)
         BY MonthsAssumption, FS_Subset DEF Held
      <3> QED BY <3>1, FS_CardinalityType
    <2>2. drill' \in Drills /\ drill'.name = drill.name /\ drill'.step = drill.step + 1
      <3> DEFINE r == Going.red \/ Held = {}
                 c == Cardinality(Held)
      <3>1. r \in BOOLEAN /\ c \in Nat
         BY <2>1
      <3>2. drill' = [Going EXCEPT !.before = c, !.red = r]
         BY <1>6
      <3>3. Going \in Drills /\ Going.name = drill.name /\ Going.step = drill.step + 1
         BY <1>1, GoesOn
      <3> HIDE DEF r, c
      <3> QED BY <3>1, <3>2, <3>3 DEF Drills
    <2> QED BY <1>1, <2>2, Asking
  <1>7. CASE drill' = [Going EXCEPT !.wire = TRUE]
    <2>1. Going \in Drills /\ Going.name = drill.name /\ Going.step = drill.step + 1
       BY <1>1, GoesOn
    <2>2. drill' \in Drills /\ drill'.name = drill.name /\ drill'.step = drill.step + 1
       BY <1>7, <2>1 DEF Drills
    <2> QED BY <1>1, <2>2, Asking
  <1> QED BY <1>2, <1>3, <1>4, <1>5, <1>6, <1>7

\* So do the beginning and the end of a drill.
LEMMA EndsTyped ==
    ASSUME Typed, \/ \E name \in {"fire", "persistence"} : StartDrill(name)
                  \/ KillDrill \/ CloseDrill
    PROVE  Typed'
  <1>1. CASE \E name \in {"fire", "persistence"} : StartDrill(name)
    <2> PICK name \in {"fire", "persistence"} : StartDrill(name)
       BY <1>1
    <2>1. left' \in 0..MaxEvents
       BY WaitsAssumption DEF Typed, StartDrill, Spend
    <2>2. drill' \in Drills /\ drill'.name = name /\ drill'.step = 1
      <3> DEFINE ok == Sound
                 busy == job.todo # {}
      <3>1. ok \in BOOLEAN /\ busy \in BOOLEAN
         BY DEF Sound
      <3>2. drill' = [NoDrill EXCEPT !.name = name, !.step = 1, !.wire = TRUE,
                                     !.sound = ok, !.meddled = busy]
         BY DEF StartDrill
      <3> HIDE DEF ok, busy
      <3> QED BY <3>1, <3>2 DEF NoDrill, Drills
    <2>3. Len(Script') + 1 >= 1
      <3>1. name = "fire" => Script' = FireScript
         BY <2>2 DEF Script
      <3>2. name = "persistence" => Script' = PersistenceScript
         BY <2>2 DEF Script
      <3> QED BY <3>1, <3>2, FireScriptIs, PersistenceScriptIs, DrillsAre DEF Is
    <2> QED BY <2>1, <2>2, <2>3 DEF Typed, StartDrill, gateway, deployment
  <1>2. CASE KillDrill
    <2>1. left' \in 0..MaxEvents
       BY <1>2, WaitsAssumption DEF Typed, KillDrill, Spend
    <2>2. drill' \in Drills /\ drill'.name = "none" /\ drill'.step = 0
       BY <1>2 DEF KillDrill, NoDrill, Drills, Typed
    <2>3. Len(Script') + 1 = 1
       BY <2>2 DEF Script
    <2> QED BY <1>2, <2>1, <2>2, <2>3 DEF Typed, KillDrill, gateway, deployment
  <1>3. CASE CloseDrill
    <2>1. drill' \in Drills /\ drill'.name = "none" /\ drill'.step = 0
       BY <1>3 DEF CloseDrill, NoDrill, Drills, Typed
    <2>2. Len(Script') + 1 = 1
       BY <2>1 DEF Script
    <2> QED BY <1>3, <2>1, <2>2 DEF Typed, CloseDrill, gateway, deployment
  <1> QED BY <1>1, <1>2, <1>3

\* What a scrape and an evaluation do to a rule.
LEMMA Evaluated ==
    ASSUME Typed, Tick, NEW s \in Series
    PROVE  /\ rule' \in [Series -> Nat] /\ rule'[s] <= Sustain(s) + 1
           /\ rule'[s] = IF "rules" \in wiring /\ Holds(s)
                         THEN Least(rule[s] + 1, Sustain(s) + 1) ELSE 0
  <1>1. \A t \in Series : Sustain(t) \in Nat
     BY DEF Sustain
  <1>2. \A t \in Series : rule[t] \in Nat
     BY DEF Typed
  <1>3. \A t \in Series : /\ Least(rule[t] + 1, Sustain(t) + 1) \in Nat
                          /\ Least(rule[t] + 1, Sustain(t) + 1) <= Sustain(t) + 1
     BY <1>1, <1>2 DEF Least
  <1>4. rule' = [t \in Series |-> IF "rules" \in wiring /\ Holds(t)
                                  THEN Least(rule[t] + 1, Sustain(t) + 1) ELSE 0]
     BY DEF Tick
  <1> QED BY <1>1, <1>3, <1>4

\* And a scrape.
LEMMA TickTyped ==
    ASSUME Typed, Tick
    PROVE  Typed'
  <1>1. drill' \in Drills /\ drill'.name = drill.name /\ drill'.step = drill.step
    <2>1. CASE ~Running
       BY <2>1 DEF Tick, Typed
    <2>2. CASE Running
      <3>1. drill' = [drill EXCEPT !.waited = @ + 1,
                      !.fired = IF Step.op = "observe" THEN @ \cup FiringNow' ELSE @]
         BY <2>2 DEF Tick
      <3>2. FiringNow' \subseteq Series
         BY DEF FiringNow
      <3> DEFINE w == drill.waited + 1
                 f == IF Step.op = "observe" THEN drill.fired \cup FiringNow' ELSE drill.fired
      <3>3. w \in Nat /\ f \in SUBSET Series /\ drill \in Drills
         BY <3>2 DEF Typed, Drills
      <3>4. drill' = [drill EXCEPT !.waited = w, !.fired = f]
         BY <3>1
      <3> HIDE DEF w, f
      <3> QED BY <3>3, <3>4 DEF Drills
    <2> QED BY <2>1, <2>2
  <1>2. /\ rule' \in [Series -> Nat]
        /\ \A s \in Series : rule'[s] <= Sustain(s) + 1 /\ (rule'[s] > 0 => "rules" \in wiring)
    <2>1. \A s \in Series : rule'[s] <= Sustain(s) + 1 /\ (rule'[s] > 0 => "rules" \in wiring)
       BY Evaluated
    <2> QED BY <2>1, Evaluated DEF Series
  <1> QED BY <1>1, <1>2, SameName DEF Typed, Tick, gateway, deployment

\* Every step keeps the types.
LEMMA TypedStep == ASSUME Typed, [Next]_vars PROVE Typed'
  <1>1. CASE Next
     BY <1>1, JobTyped, WorldTyped, BoardMovesTyped, AsksTyped, EndsTyped, TickTyped
     DEF Next, Drilling
  <1>2. CASE UNCHANGED vars
     BY <1>2, SameName DEF Typed, vars, gateway, deployment
  <1> QED BY <1>1, <1>2

Within(name, first, last) == drill.name = name /\ n \in first..last

\* Where in its script a drill is when it is at an operation.
LEMMA Where ==
    ASSUME Typed
    PROVE  /\ At("reset") => Within("fire", 1, N) /\ Step.arg = {DrillMonths[n]}
           /\ At("settle") => Within("fire", N + 1, N + 1)
           /\ At("clean") => Within("fire", N + 2, N + 2)
           /\ At("scraped") => Within("fire", 2*N + 3, 2*N + 3)
           /\ At("observe") => Within("fire", 2*N + 4, 2*N + 4)
           /\ At("judge") => Within("fire", 2*N + 5, 2*N + 5)
           /\ At("cleared") => Within("fire", 2*N + 7, 2*N + 7)
           /\ At("push") =>
                 \/ Within("fire", N + 3, 2*N + 2) /\ Step.arg = {DrillMonths[n - N - 2]}
                 \/ Within("fire", 2*N + 8, 2*N + 8) /\ Step.arg = Predicted
                 \/ Within("persistence", 3, N + 2) /\ Step.arg = {DrillMonths[n - 2]}
                 \/ Within("persistence", 2*N + 11, 3*N + 10) /\ Step.arg = {DrillMonths[n - 2*N - 10]}
           /\ At("delete") =>
                 \/ Within("fire", 2*N + 6, 2*N + 6) /\ Step.arg = Predicted
                 \/ Within("persistence", N + 8, 2*N + 7) /\ Step.arg = {DrillMonths[n - N - 7]}
           /\ At("bound") => Within("persistence", 1, 1)
           /\ At("named") => Within("persistence", 2, 2)
           /\ At("count") => Within("persistence", N + 3, N + 3)
           /\ At("terminate") => Within("persistence", N + 4, N + 4)
           /\ At("newpod") => Within("persistence", N + 5, N + 5)
           /\ At("recount") => \/ Within("persistence", N + 6, N + 6)
                               \/ Within("persistence", 3*N + 11, 3*N + 11)
           /\ At("settled") => \/ Within("persistence", N + 7, N + 7)
                               \/ Within("persistence", 3*N + 12, 3*N + 12)
           /\ At("emptied") => Within("persistence", 2*N + 8, 2*N + 8)
           /\ At("absent") => Within("persistence", 2*N + 9, 2*N + 9)
           /\ At("blind") => Within("persistence", 2*N + 10, 2*N + 10)
           /\ At("returns") => Within("persistence", 3*N + 13, 3*N + 13)
  <1>1. drill.name \in {"none", "fire", "persistence"} /\ N \in Nat
     BY DrillsAre DEF Typed, Drills
  <1>2. CASE drill.name = "none"
     BY <1>2, AtRest DEF At
  <1>3. CASE drill.name = "fire"
    <2> DEFINE op == Step.op
               arg == Step.arg
    <2>1. /\ n \in 1..2*N + 9 /\ (Running <=> n # 2*N + 9)
          /\ n \in 1..N => op = "reset" /\ arg = {DrillMonths[n]}
          /\ n = N + 1 => op = "settle"
          /\ n = N + 2 => op = "clean"
          /\ n \in N + 3..2*N + 2 => op = "push" /\ arg = {DrillMonths[n - N - 2]}
          /\ n = 2*N + 3 => op = "scraped"
          /\ n = 2*N + 4 => op = "observe"
          /\ n = 2*N + 5 => op = "judge"
          /\ n = 2*N + 6 => op = "delete" /\ arg = Predicted
          /\ n = 2*N + 7 => op = "cleared"
          /\ n = 2*N + 8 => op = "push" /\ arg = Predicted
       BY <1>3, AtFire
    <2>2. n \in Int /\ \A o : At(o) <=> Running /\ op = o
       BY <2>1 DEF At
    <2> HIDE DEF op, arg
    <2> QED BY <1>1, <1>3, <2>1, <2>2 DEF Within, arg
  <1>4. CASE drill.name = "persistence"
    <2> DEFINE op == Step.op
               arg == Step.arg
    <2>1. /\ n \in 1..3*N + 14 /\ (Running <=> n # 3*N + 14)
          /\ n = 1 => op = "bound"
          /\ n = 2 => op = "named"
          /\ n \in 3..N + 2 => op = "push" /\ arg = {DrillMonths[n - 2]}
          /\ n = N + 3 => op = "count"
          /\ n = N + 4 => op = "terminate"
          /\ n = N + 5 => op = "newpod"
          /\ n = N + 6 => op = "recount"
          /\ n = N + 7 => op = "settled"
          /\ n \in N + 8..2*N + 7 => op = "delete" /\ arg = {DrillMonths[n - N - 7]}
          /\ n = 2*N + 8 => op = "emptied"
          /\ n = 2*N + 9 => op = "absent"
          /\ n = 2*N + 10 => op = "blind"
          /\ n \in 2*N + 11..3*N + 10 => op = "push" /\ arg = {DrillMonths[n - 2*N - 10]}
          /\ n = 3*N + 11 => op = "recount"
          /\ n = 3*N + 12 => op = "settled"
          /\ n = 3*N + 13 => op = "returns"
       BY <1>4, AtPersistence
    <2>2. n \in Int /\ \A o : At(o) <=> Running /\ op = o
       BY <2>1 DEF At
    <2> HIDE DEF op, arg
    <2> QED BY <1>1, <1>4, <2>1, <2>2 DEF Within, arg
  <1> QED BY <1>1, <1>2, <1>3, <1>4

\* The first months of a drill, one more, all.
LEMMA BegunIs ==
    /\ \A k \in Int : Begun(k) \subseteq Drilled
    /\ \A k \in Int : k < 1 => Begun(k) = {}
    /\ \A k \in 1..N : Begun(k) = Begun(k - 1) \cup {DrillMonths[k]}
    /\ \A k \in Int : k >= N => Begun(k) = Drilled
  <1>1. N \in Nat /\ Drilled = {DrillMonths[i] : i \in 1..N}
     BY DrillsAre
  <1>2. \A k \in Int : \A m : m \in Begun(k) <=> \E i \in 1..N : i <= k /\ m = DrillMonths[i]
     BY DEF Begun
  <1>3. \A k \in 1..N : Begun(k) = Begun(k - 1) \cup {DrillMonths[k]}
    <2> TAKE k \in 1..N
    <2>1. ASSUME NEW m \in Begun(k) PROVE m \in Begun(k - 1) \cup {DrillMonths[k]}
      <3>1. PICK i \in 1..N : i <= k /\ m = DrillMonths[i]
         BY <1>1, <1>2, <2>1
      <3>2. i <= k - 1 \/ i = k
         BY <1>1, <3>1
      <3> QED BY <1>1, <1>2, <3>1, <3>2
    <2>2. ASSUME NEW m \in Begun(k - 1) \cup {DrillMonths[k]} PROVE m \in Begun(k)
       BY <1>1, <1>2
    <2> QED BY <2>1, <2>2
  <1> QED BY <1>1, <1>2, <1>3

\* What a push would carry depends on the data alone.
LEMMA Frozen ==
    ASSUME data' = data
    PROVE  \A m : /\ Group(m)' = Group(m) /\ (Low(m)' <=> Low(m))
                  /\ (Computable(m)' <=> Computable(m)) /\ Shifted(m)' = Shifted(m)
  BY DEF Group, Low, Computable, Shifted, Rows

\* A platform stays as predicted if the data and the deployment do.
LEMMA StillAsPredicted ==
    ASSUME AsPredicted, ~drill'.red, UNCHANGED <<data, deployment>>
    PROVE  AsPredicted'
  <1>1. volume' = volume /\ wiring' = wiring /\ data' = data
     BY DEF deployment
  <1> QED BY <1>1, Frozen DEF AsPredicted

\* Nothing is claimed of a drill that somebody has disturbed.
LEMMA NotAlone == ASSUME ~Alone' PROVE DrillKnows'
  BY DEF DrillKnows, FireKnows, PersistenceKnows, FireSound, PersistenceSound, In

\* A month that is reset is off the board.
LEMMA ResetKnows == ASSUME DInv, Reset PROVE DrillKnows'
  <1> SUFFICES ASSUME Alone' PROVE DrillKnows'
     BY NotAlone
  <1>1. /\ Typed /\ Running /\ N \in Nat
        /\ drill.name = "fire" /\ n \in 1..N /\ Step.arg = {DrillMonths[n]}
     BY Where, DrillsAre DEF DInv, Reset, At, Within
  <1>2. /\ drill'.name = "fire" /\ drill'.step = drill.step + 1 /\ drill'.waited = 0
        /\ drill'.red = drill.red /\ drill'.fired = drill.fired /\ drill'.sound = drill.sound
        /\ drill'.meddled = drill.meddled /\ drill'.wire = drill.wire
     BY <1>1, GoesOn DEF Reset, Drills
  <1>3. In("fire") /\ drill.wire /\ pod = "up" /\ job.todo = {}
    <2>1. In("fire")
       BY <1>1, <1>2, GoesOn DEF In, Alone
    <2> QED BY <2>1 DEF DInv, DrillKnows, FireKnows
  <1>4. board' = [m \in Months |-> IF m = DrillMonths[n] THEN NoGroup ELSE board[m]]
     BY <1>1, <1>3 DEF Reset
  <1>5. UNCHANGED <<data, disk, pod, deployment, job, rule, left>>
     BY DEF Reset
  <1>6. FireKnows'
     BY <1>1, <1>2, <1>3, <1>5 DEF FireKnows, n
  <1>7. Held' = Held \ {DrillMonths[n]}
     BY <1>4 DEF Held
  <1>8. FireSound'
    <2> SUFFICES ASSUME drill.sound PROVE FireSound'
       BY <1>2 DEF FireSound
    <2>1. /\ AsPredicted /\ Held \subseteq Drilled /\ drill.fired = {}
          /\ \A i \in 1..N : i < n => DrillMonths[i] \notin Held
       BY <1>1, <1>3 DEF DInv, DrillKnows, FireSound, n
    <2>2. AsPredicted'
       BY <1>2, <1>5, <2>1, StillAsPredicted DEF AsPredicted
    <2>3. Held' \subseteq Drilled /\ \A i \in 1..N : i < n + 1 => DrillMonths[i] \notin Held'
       BY <1>1, <1>7, <2>1
    <2> QED BY <1>1, <1>2, <2>1, <2>2, <2>3 DEF FireSound, n
  <1> QED BY <1>2, <1>6, <1>8 DEF DrillKnows, PersistenceKnows, PersistenceSound, In

\* A push that did not abort put one month on the board.
LEMMA PushFacts ==
    ASSUME DInv, PushMonth, Alone'
    PROVE  /\ Typed /\ Running /\ In(drill.name) /\ N \in Nat
           /\ drill'.name = drill.name /\ drill'.step = drill.step + 1 /\ drill'.waited = 0
           /\ drill'.red = drill.red /\ drill'.fired = drill.fired /\ drill'.sound = drill.sound
           /\ drill'.meddled = drill.meddled /\ drill'.wire = drill.wire
           /\ drill'.before = drill.before
           /\ UNCHANGED <<data, disk, pod, deployment, job, rule>>
           /\ \E m \in Step.arg : /\ m \in Months => Held' = Held \cup {m}
                                  /\ board' = [board EXCEPT ![m] = Group(m)]
  <1>1. Typed /\ Running /\ N \in Nat
     BY DrillsAre DEF DInv, PushMonth, At
  <1>2. drill'.step # 0
     BY DEF Alone
  <1>3. ~Abort
     BY <1>1, <1>2, Aborted
  <1>4. PICK m \in Step.arg : PutGroup(m) /\ drill' = [Going EXCEPT !.owes = @ \ {m}]
     BY <1>3 DEF PushMonth
  <1>5. Going \in Drills
     BY <1>1, GoesOn
  <1>6. /\ drill'.name = drill.name /\ drill'.step = drill.step + 1 /\ drill'.waited = 0
        /\ drill'.fired = drill.fired /\ drill'.before = drill.before
     BY <1>1, <1>4, <1>5, GoesOn DEF Drills
  <1>7. /\ drill'.red = drill.red /\ drill'.sound = drill.sound
        /\ drill'.meddled = drill.meddled /\ drill'.wire = drill.wire
     BY <1>1, <1>4, <1>5, GoesOn DEF Drills
  <1>8. In(drill.name)
     BY <1>1, <1>7, GoesOn DEF In, Alone
  <1>9. board' = [board EXCEPT ![m] = Group(m)]
     BY <1>4 DEF PutGroup
  <1>10. m \in Months => Held' = Held \cup {m}
    <2> SUFFICES ASSUME m \in Months PROVE Held' = Held \cup {m}
       OBVIOUS
    <2>1. Group(m) # NoGroup /\ DOMAIN board = Months
       BY <1>1, GroupTyped DEF Typed
    <2> QED BY <1>9, <2>1 DEF Held
  <1>11. UNCHANGED <<data, disk, pod, deployment, job, rule>>
     BY DEF PushMonth
  <1> QED BY <1>1, <1>4, <1>6, <1>7, <1>8, <1>9, <1>10, <1>11

\* The fire drill pushes its months, and at the end the cleared one.
LEMMA FirePushes ==
    ASSUME DInv, PushMonth, Alone', drill.name = "fire"
    PROVE  FireKnows' /\ FireSound'
  <1>1. /\ Typed /\ Running /\ In("fire") /\ N \in Nat
        /\ drill'.name = "fire" /\ drill'.step = drill.step + 1 /\ drill'.waited = 0
        /\ drill'.red = drill.red /\ drill'.fired = drill.fired /\ drill'.sound = drill.sound
        /\ drill'.meddled = drill.meddled /\ drill'.wire = drill.wire
        /\ UNCHANGED <<data, disk, pod, deployment, job, rule>>
     BY PushFacts
  <1>2. PICK m \in Step.arg : /\ m \in Months => Held' = Held \cup {m}
                              /\ board' = [board EXCEPT ![m] = Group(m)]
     BY PushFacts
  <1>3. FireKnows /\ FireSound
     BY DEF DInv, DrillKnows
  <1>4. \A k : Group(k)' = Group(k)
     BY <1>1, Frozen
  <1>5. DOMAIN board = Months /\ \A i \in 1..N : DrillMonths[i] \in Months
     BY <1>1, DrillsAre DEF Typed
  <1>6. drill.sound => AsPredicted'
     BY <1>1, <1>3, StillAsPredicted DEF FireSound, AsPredicted
  <1>7. CASE Within("fire", N + 3, 2*N + 2) /\ Step.arg = {DrillMonths[n - N - 2]}
    <2>1. m = DrillMonths[n - N - 2] /\ n - N - 2 \in 1..N
       BY <1>1, <1>2, <1>7 DEF Within
    <2>2. n \in N + 3..2*N + 2
       BY <1>7 DEF Within
    <2>3. \A i \in 1..N : N + 2 + i < n + 1 => board'[DrillMonths[i]] = Group(DrillMonths[i])
      <3> SUFFICES ASSUME NEW i \in 1..N, N + 2 + i < n + 1
                   PROVE  board'[DrillMonths[i]] = Group(DrillMonths[i])
         OBVIOUS
      <3>1. CASE DrillMonths[i] = m
         BY <1>2, <1>5, <3>1
      <3>2. CASE DrillMonths[i] # m
        <4>1. N + 2 + i < n
           BY <1>1, <2>1, <2>2, <3>2
        <4>2. board[DrillMonths[i]] = Group(DrillMonths[i])
           BY <1>1, <1>3, <2>2, <4>1 DEF FireKnows, n
        <4> QED BY <1>2, <1>5, <3>2, <4>2
      <3> QED BY <3>1, <3>2
    <2>4. FireKnows'
       BY <1>1, <1>3, <1>4, <2>2, <2>3 DEF FireKnows, n
    <2>5. ASSUME drill.sound PROVE Held' = Begun(n + 1 - N - 3)
      <3>1. Held = Begun(n - N - 3)
         BY <1>1, <1>3, <2>2, <2>5 DEF FireSound, n
      <3>2. n - N - 2 \in 1..N /\ (n - N - 2) - 1 = n - N - 3 /\ n + 1 - N - 3 = n - N - 2
         BY <1>1, <2>1, <2>2
      <3> QED BY <1>2, <1>5, <2>1, <3>1, <3>2, BegunIs
    <2>6. FireSound'
      <3> SUFFICES ASSUME drill.sound PROVE FireSound'
         BY <1>1 DEF FireSound
      <3>1. drill.fired = {} /\ Quiet
         BY <1>1, <1>3, <2>2 DEF FireSound, n
      <3>2. Quiet'
         BY <1>1, <3>1 DEF Quiet
      <3> QED BY <1>1, <1>6, <2>2, <2>5, <3>1, <3>2 DEF FireSound, n
    <2> QED BY <2>4, <2>6
  <1>8. CASE Within("fire", 2*N + 8, 2*N + 8) /\ Step.arg = Predicted
    <2>1. n = 2*N + 8 /\ m \in Predicted /\ Predicted = {m}
       BY <1>1, <1>2, <1>8, DrillsAre DEF Within
    <2>2. \A i \in 1..N : board'[DrillMonths[i]] = Group(DrillMonths[i])
      <3> TAKE i \in 1..N
      <3>1. CASE DrillMonths[i] = m
         BY <1>2, <1>5, <3>1
      <3>2. CASE DrillMonths[i] # m
        <4>1. DrillMonths[i] \notin Predicted /\ N + 2 + i < n
           BY <1>1, <2>1, <3>2
        <4>2. board[DrillMonths[i]] = Group(DrillMonths[i])
           BY <1>1, <1>3, <4>1 DEF FireKnows, n
        <4> QED BY <1>2, <1>5, <3>2, <4>2
      <3> QED BY <3>1, <3>2
    <2>3. FireKnows'
       BY <1>1, <1>3, <1>4, <2>1, <2>2 DEF FireKnows, n, deployment
    <2>4. FireSound'
       BY <1>1, <1>6, <2>1 DEF FireSound, n
    <2> QED BY <2>3, <2>4
  <1> QED BY <1>1, <1>7, <1>8, Where DEF PushMonth, Within

\* The persistence drill pushes its months, twice.
LEMMA PersistencePushes ==
    ASSUME DInv, PushMonth, Alone', drill.name = "persistence"
    PROVE  PersistenceKnows' /\ PersistenceSound'
  <1>1. /\ Typed /\ Running /\ In("persistence") /\ N \in Nat
        /\ drill'.name = "persistence" /\ drill'.step = drill.step + 1 /\ drill'.waited = 0
        /\ drill'.red = drill.red /\ drill'.sound = drill.sound
        /\ drill'.meddled = drill.meddled /\ drill'.wire = drill.wire
        /\ drill'.before = drill.before
        /\ UNCHANGED <<data, disk, pod, deployment, job, rule>>
     BY PushFacts
  <1>2. PICK m \in Step.arg : /\ m \in Months => Held' = Held \cup {m}
                              /\ board' = [board EXCEPT ![m] = Group(m)]
     BY PushFacts
  <1>3. PersistenceKnows /\ PersistenceSound
     BY DEF DInv, DrillKnows
  <1>4. \A k : Group(k)' = Group(k)
     BY <1>1, Frozen
  <1>5. DOMAIN board = Months /\ \A i \in 1..N : DrillMonths[i] \in Months
     BY <1>1, DrillsAre DEF Typed
  <1>6. drill.sound => AsPredicted'
     BY <1>1, <1>3, StillAsPredicted DEF PersistenceSound, AsPredicted
  <1>7. CASE Within("persistence", 3, N + 2) /\ Step.arg = {DrillMonths[n - 2]}
    <2>1. n \in 3..N + 2 /\ m = DrillMonths[n - 2] /\ n - 2 \in 1..N /\ (n - 2) - 1 = n - 3
       BY <1>1, <1>2, <1>7 DEF Within
    <2>2. PersistenceKnows'
       BY <1>1, <1>3, <2>1 DEF PersistenceKnows, n
    <2>3. ASSUME drill.sound PROVE Begun(n - 2) \subseteq Held' /\ Held' \subseteq Drilled
      <3>1. Begun(n - 3) \subseteq Held /\ Held \subseteq Drilled
         BY <1>1, <1>3, <2>1, <2>3 DEF PersistenceSound, n
      <3> QED BY <1>2, <1>5, <2>1, <3>1, BegunIs, DrillsAre
    <2>4. PersistenceSound'
      <3> SUFFICES ASSUME drill.sound PROVE PersistenceSound'
         BY <1>1 DEF PersistenceSound
      <3>1. n' = n + 1 /\ n' - 3 = n - 2 /\ n' \in 4..N + 3
         BY <1>1, <2>1 DEF n
      <3>2. Begun(n' - 3) \subseteq Held'
         BY <2>3, <3>1
      <3> QED BY <1>1, <1>6, <2>3, <3>1, <3>2 DEF PersistenceSound
    <2> QED BY <2>2, <2>4
  <1>8. CASE Within("persistence", 2*N + 11, 3*N + 10) /\ Step.arg = {DrillMonths[n - 2*N - 10]}
    <2>1. /\ n \in 2*N + 11..3*N + 10 /\ m = DrillMonths[n - 2*N - 10]
          /\ n - 2*N - 10 \in 1..N /\ (n - 2*N - 10) - 1 = n - 2*N - 11
       BY <1>1, <1>2, <1>8 DEF Within
    <2>2. \A i \in 1..N : 2*N + 10 + i < n + 1 => board'[DrillMonths[i]] = Group(DrillMonths[i])
      <3> SUFFICES ASSUME NEW i \in 1..N, 2*N + 10 + i < n + 1
                   PROVE  board'[DrillMonths[i]] = Group(DrillMonths[i])
         OBVIOUS
      <3>1. CASE DrillMonths[i] = m
         BY <1>2, <1>5, <3>1
      <3>2. CASE DrillMonths[i] # m
        <4>1. 2*N + 10 + i < n
           BY <1>1, <2>1, <3>2
        <4>2. board[DrillMonths[i]] = Group(DrillMonths[i])
           BY <1>1, <1>3, <2>1, <4>1 DEF PersistenceKnows, n
        <4> QED BY <1>2, <1>5, <3>2, <4>2
      <3> QED BY <3>1, <3>2
    <2>3. PersistenceKnows'
       BY <1>1, <1>3, <1>4, <2>1, <2>2 DEF PersistenceKnows, n, deployment
    <2>4. ASSUME drill.sound PROVE Held' = Begun(n - 2*N - 10)
      <3>1. Held = Begun(n - 2*N - 11)
         BY <1>1, <1>3, <2>1, <2>4 DEF PersistenceSound, n
      <3> QED BY <1>2, <1>5, <2>1, <3>1, BegunIs
    <2>5. PersistenceSound'
      <3> SUFFICES ASSUME drill.sound PROVE PersistenceSound'
         BY <1>1 DEF PersistenceSound
      <3>1. n' = n + 1 /\ n' - 2*N - 11 = n - 2*N - 10 /\ n' \in 2*N + 12..3*N + 11
         BY <1>1, <2>1 DEF n
      <3>2. Held' = Begun(n' - 2*N - 11)
         BY <2>4, <3>1
      <3>3. drill'.before = Cardinality(Drilled)
         BY <1>1, <1>3, <2>1 DEF PersistenceSound, n
      <3> QED BY <1>1, <1>6, <3>1, <3>2, <3>3 DEF PersistenceSound
    <2> QED BY <2>3, <2>5
  <1> QED BY <1>1, <1>7, <1>8, Where DEF PushMonth, Within

\* A push keeps what is known.
LEMMA PushKnows == ASSUME DInv, PushMonth PROVE DrillKnows'
  <1> SUFFICES ASSUME Alone' PROVE DrillKnows'
     BY NotAlone
  <1>1. drill.name \in {"fire", "persistence"} /\ drill'.name = drill.name
     BY PushFacts, Where DEF PushMonth, Within
  <1>2. CASE drill.name = "fire"
     BY <1>1, <1>2, FirePushes DEF DrillKnows, PersistenceKnows, PersistenceSound, In
  <1>3. CASE drill.name = "persistence"
     BY <1>1, <1>3, PersistencePushes DEF DrillKnows, FireKnows, FireSound, In
  <1> QED BY <1>1, <1>2, <1>3

\* A delete that did not abort took one month off the board.
LEMMA DeleteFacts ==
    ASSUME DInv, DeleteGroup, Alone'
    PROVE  /\ Typed /\ Running /\ In(drill.name) /\ N \in Nat
           /\ drill'.name = drill.name /\ drill'.step = drill.step + 1 /\ drill'.waited = 0
           /\ drill'.red = drill.red /\ drill'.fired = drill.fired /\ drill'.sound = drill.sound
           /\ drill'.meddled = drill.meddled /\ drill'.wire = drill.wire
           /\ drill'.before = drill.before
           /\ UNCHANGED <<data, disk, pod, deployment, job, rule>>
           /\ \E m \in Step.arg : /\ Held' = Held \ {m}
                                  /\ board' = [board EXCEPT ![m] = NoGroup]
  <1>1. Typed /\ Running /\ N \in Nat
     BY DrillsAre DEF DInv, DeleteGroup, At
  <1>2. drill'.step # 0
     BY DEF Alone
  <1>3. ~Abort
     BY <1>1, <1>2, Aborted
  <1>4. PICK m \in Step.arg : /\ board' = [board EXCEPT ![m] = NoGroup]
                              /\ drill' = [Going EXCEPT !.owes = @ \cup ({m} \cap Held)]
     BY <1>3 DEF DeleteGroup
  <1>5. Going \in Drills
     BY <1>1, GoesOn
  <1>6. /\ drill'.name = drill.name /\ drill'.step = drill.step + 1 /\ drill'.waited = 0
        /\ drill'.fired = drill.fired /\ drill'.before = drill.before
     BY <1>1, <1>4, <1>5, GoesOn DEF Drills
  <1>7. /\ drill'.red = drill.red /\ drill'.sound = drill.sound
        /\ drill'.meddled = drill.meddled /\ drill'.wire = drill.wire
     BY <1>1, <1>4, <1>5, GoesOn DEF Drills
  <1>8. In(drill.name)
     BY <1>1, <1>7, GoesOn DEF In, Alone
  <1>9. Held' = Held \ {m}
    <2>1. DOMAIN board = Months
       BY <1>1 DEF Typed
    <2> QED BY <1>4, <2>1 DEF Held
  <1>10. UNCHANGED <<data, disk, pod, deployment, job, rule>>
     BY DEF DeleteGroup
  <1> QED BY <1>1, <1>4, <1>6, <1>7, <1>8, <1>9, <1>10

\* The fire drill clears the month that fires.
LEMMA FireDeletes ==
    ASSUME DInv, DeleteGroup, Alone', drill.name = "fire"
    PROVE  FireKnows' /\ FireSound'
  <1>1. /\ Typed /\ Running /\ In("fire") /\ N \in Nat
        /\ drill'.name = "fire" /\ drill'.step = drill.step + 1 /\ drill'.waited = 0
        /\ drill'.red = drill.red /\ drill'.fired = drill.fired /\ drill'.sound = drill.sound
        /\ drill'.meddled = drill.meddled /\ drill'.wire = drill.wire
        /\ UNCHANGED <<data, disk, pod, deployment, job, rule>>
     BY DeleteFacts
  <1>2. PICK m \in Step.arg : /\ Held' = Held \ {m}
                              /\ board' = [board EXCEPT ![m] = NoGroup]
     BY DeleteFacts
  <1>3. FireKnows /\ FireSound
     BY DEF DInv, DrillKnows
  <1>4. \A k : Group(k)' = Group(k)
     BY <1>1, Frozen
  <1>5. DOMAIN board = Months /\ \A i \in 1..N : DrillMonths[i] \in Months
     BY <1>1, DrillsAre DEF Typed
  <1>6. drill.sound => AsPredicted'
     BY <1>1, <1>3, StillAsPredicted DEF FireSound, AsPredicted
  <1>7. n = 2*N + 6 /\ Step.arg = Predicted
     BY <1>1, Where DEF DeleteGroup, Within
  <1>8. \A i \in 1..N : DrillMonths[i] \notin Predicted => board'[DrillMonths[i]] = Group(DrillMonths[i])
    <2> SUFFICES ASSUME NEW i \in 1..N, DrillMonths[i] \notin Predicted
                 PROVE  board'[DrillMonths[i]] = Group(DrillMonths[i])
       OBVIOUS
    <2>1. board[DrillMonths[i]] = Group(DrillMonths[i])
       BY <1>1, <1>3, <1>7 DEF FireKnows, n
    <2> QED BY <1>2, <1>5, <1>7, <2>1
  <1>9. FireKnows'
     BY <1>1, <1>3, <1>4, <1>7, <1>8 DEF FireKnows, n, deployment
  <1>10. ASSUME drill.sound PROVE Held' \subseteq Drilled \ Predicted
    <2>1. Held = Begun(n - N - 3)
       BY <1>1, <1>3, <1>7, <1>10 DEF FireSound, n
    <2>2. Held \subseteq Drilled
       BY <1>1, <1>7, <2>1, BegunIs
    <2> QED BY <1>2, <1>7, <2>2, DrillsAre
  <1>11. FireSound'
     BY <1>1, <1>6, <1>7, <1>10 DEF FireSound, n
  <1> QED BY <1>9, <1>11

\* The persistence drill empties the board.
LEMMA PersistenceDeletes ==
    ASSUME DInv, DeleteGroup, Alone', drill.name = "persistence"
    PROVE  PersistenceKnows' /\ PersistenceSound'
  <1>1. /\ Typed /\ Running /\ In("persistence") /\ N \in Nat
        /\ drill'.name = "persistence" /\ drill'.step = drill.step + 1 /\ drill'.waited = 0
        /\ drill'.red = drill.red /\ drill'.sound = drill.sound
        /\ drill'.meddled = drill.meddled /\ drill'.wire = drill.wire
        /\ drill'.before = drill.before
        /\ UNCHANGED <<data, disk, pod, deployment, job, rule>>
     BY DeleteFacts
  <1>2. PICK m \in Step.arg : /\ Held' = Held \ {m}
                              /\ board' = [board EXCEPT ![m] = NoGroup]
     BY DeleteFacts
  <1>3. PersistenceKnows /\ PersistenceSound
     BY DEF DInv, DrillKnows
  <1>4. drill.sound => AsPredicted'
     BY <1>1, <1>3, StillAsPredicted DEF PersistenceSound, AsPredicted
  <1>5. n \in N + 8..2*N + 7 /\ Step.arg = {DrillMonths[n - N - 7]}
     BY <1>1, Where DEF DeleteGroup, Within
  <1>6. PersistenceKnows'
     BY <1>1, <1>3, <1>5 DEF PersistenceKnows, n, deployment
  <1>7. PersistenceSound'
    <2> SUFFICES ASSUME drill.sound PROVE PersistenceSound'
       BY <1>1 DEF PersistenceSound
    <2>1. /\ Held \subseteq Drilled /\ rule[Loss] = 0 /\ drill.before = Cardinality(Drilled)
          /\ \A i \in 1..N : N + 7 + i < n => DrillMonths[i] \notin Held
       BY <1>1, <1>3, <1>5 DEF PersistenceSound, n
    <2>2. /\ Held' \subseteq Drilled
          /\ \A i \in 1..N : N + 7 + i < n + 1 => DrillMonths[i] \notin Held'
      <3>1. \A i \in 1..N : N + 7 + i < n + 1 => N + 7 + i < n \/ i = n - N - 7
         BY <1>1, <1>5
      <3> QED BY <1>2, <1>5, <2>1, <3>1
    <2> QED BY <1>1, <1>4, <1>5, <2>1, <2>2 DEF PersistenceSound, n
  <1> QED BY <1>6, <1>7

\* A delete keeps what is known.
LEMMA DeleteKnows == ASSUME DInv, DeleteGroup PROVE DrillKnows'
  <1> SUFFICES ASSUME Alone' PROVE DrillKnows'
     BY NotAlone
  <1>1. drill.name \in {"fire", "persistence"} /\ drill'.name = drill.name
     BY DeleteFacts, Where DEF DeleteGroup, Within
  <1>2. CASE drill.name = "fire"
     BY <1>1, <1>2, FireDeletes DEF DrillKnows, PersistenceKnows, PersistenceSound, In
  <1>3. CASE drill.name = "persistence"
     BY <1>1, <1>3, PersistenceDeletes DEF DrillKnows, FireKnows, FireSound, In
  <1> QED BY <1>1, <1>2, <1>3

\* The pod is killed: memory is empty, and the file holds all months.
LEMMA TerminateKnows == ASSUME DInv, Terminate PROVE DrillKnows'
  <1> SUFFICES ASSUME Alone' PROVE DrillKnows'
     BY NotAlone
  <1>1. /\ Typed /\ Running /\ N \in Nat
        /\ drill.name = "persistence" /\ n = N + 4
     BY Where, DrillsAre DEF DInv, Terminate, At, Within
  <1>2. Going \in Drills
     BY <1>1, GoesOn
  <1>3. /\ drill'.name = "persistence" /\ drill'.step = drill.step + 1
        /\ drill'.before = drill.before
     BY <1>1, <1>2, GoesOn DEF Terminate, Drills
  <1>4. /\ drill'.red = drill.red /\ drill'.sound = drill.sound
        /\ drill'.meddled = drill.meddled
     BY <1>1, <1>2, GoesOn DEF Terminate, Drills
  <1>5. In("persistence") /\ PersistenceKnows /\ PersistenceSound
     BY <1>1, <1>4, GoesOn DEF In, Alone, DInv, DrillKnows
  <1>6. UNCHANGED <<data, deployment, rule, left>> /\ pod' = "down" /\ board' = Empty
        /\ job'.todo = job.todo
     BY <1>1 DEF Terminate, Typed
  <1>7. PersistenceKnows'
     BY <1>1, <1>3, <1>5, <1>6 DEF PersistenceKnows, n, Empty
  <1>8. PersistenceSound'
    <2> SUFFICES ASSUME drill.sound PROVE PersistenceSound'
       BY <1>4 DEF PersistenceSound
    <2>1. /\ AsPredicted /\ Held = Drilled /\ drill.before = Cardinality(Drilled)
       BY <1>1, <1>5 DEF PersistenceSound, n
    <2>2. AsPredicted'
       BY <1>4, <1>6, <2>1, StillAsPredicted DEF AsPredicted
    <2>3. disk' = board
       BY <2>1 DEF Terminate, AsPredicted
    <2>4. {m \in Months : disk'[m] # NoGroup} = Drilled
       BY <2>1, <2>3 DEF Held
    <2> QED BY <1>1, <1>3, <1>6, <2>1, <2>2, <2>4 DEF PersistenceSound, n
  <1> QED BY <1>3, <1>7, <1>8 DEF DrillKnows, FireKnows, FireSound, In

\* Asking changes nothing but the drill.
LEMMA Unmoved ==
    ASSUME UNCHANGED <<data, gateway, deployment, job, rule, left>>
    PROVE  /\ Held' = Held /\ \A m : Group(m)' = Group(m)
           /\ UNCHANGED <<data, board, disk, pod, volume, wiring, deployment, job, rule>>
           /\ (Quiet' <=> Quiet) /\ (OnlyCollapse' <=> OnlyCollapse)
  <1>1. UNCHANGED <<data, board, disk, pod, volume, wiring, deployment, job, rule>>
     BY DEF gateway, deployment
  <1> QED BY <1>1, Frozen DEF Held, Quiet, OnlyCollapse

\* The months are counted before the kill.
LEMMA CountKnows == ASSUME DInv, AskGateway, At("count") PROVE DrillKnows'
  <1> SUFFICES ASSUME Alone' PROVE DrillKnows'
     BY NotAlone
  <1>1. /\ Typed /\ Running /\ N \in Nat
        /\ drill.name = "persistence" /\ n = N + 3
     BY Where, DrillsAre DEF DInv, AskGateway, At, Within
  <1>2. ~Abort
     BY <1>1, Aborted DEF Alone
  <1>3. drill' = [Going EXCEPT !.before = Cardinality(Held), !.red = @ \/ Held = {}]
     BY <1>2 DEF AskGateway, At
  <1>4. Going \in Drills
     BY <1>1, GoesOn
  <1>5. /\ drill'.name = "persistence" /\ drill'.step = drill.step + 1
        /\ drill'.before = Cardinality(Held)
     BY <1>1, <1>3, <1>4, GoesOn DEF Drills
  <1>6. /\ drill'.sound = drill.sound /\ drill'.meddled = drill.meddled
        /\ drill'.wire = drill.wire
     BY <1>1, <1>3, <1>4, GoesOn DEF Drills
  <1>7. drill'.red = (drill.red \/ Held = {})
     BY <1>1, <1>3, <1>4, GoesOn DEF Drills
  <1>8. In("persistence") /\ PersistenceKnows /\ PersistenceSound
     BY <1>1, <1>6, GoesOn DEF In, Alone, DInv, DrillKnows
  <1>9. /\ Held' = Held /\ UNCHANGED <<data, board, disk, pod, volume, deployment, job, rule>>
     BY Unmoved DEF AskGateway
  <1>10. PersistenceKnows'
     BY <1>1, <1>5, <1>6, <1>8, <1>9 DEF PersistenceKnows, n
  <1>11. PersistenceSound'
    <2> SUFFICES ASSUME drill.sound PROVE PersistenceSound'
       BY <1>6 DEF PersistenceSound
    <2>1. AsPredicted /\ Held \subseteq Drilled /\ Begun(n - 3) \subseteq Held
       BY <1>1, <1>8 DEF PersistenceSound, n
    <2>2. Held = Drilled /\ Held # {}
      <3>1. n - 3 = N /\ Begun(N) = Drilled
         BY <1>1, BegunIs
      <3> QED BY <2>1, <3>1, DrillsAre
    <2>3. AsPredicted'
       BY <1>7, <1>9, <2>1, <2>2, StillAsPredicted DEF AsPredicted
    <2> QED BY <1>1, <1>5, <1>9, <2>2, <2>3 DEF PersistenceSound, n
  <1> QED BY <1>5, <1>10, <1>11 DEF DrillKnows, FireKnows, FireSound, In

\* A check of either drill that came out as ok.
PersistenceGoesOn(ok) ==
    /\ N \in Nat /\ In("persistence") /\ PersistenceKnows /\ PersistenceSound
    /\ drill'.name = "persistence" /\ n' = n + 1 /\ drill'.waited = 0
    /\ drill'.wire = drill.wire /\ drill'.before = drill.before
    /\ drill'.sound = drill.sound
    /\ drill.sound => AsPredicted /\ (ok => AsPredicted')
    /\ drill'.red <=> drill.red \/ ~ok
FireGoesOn(ok) ==
    /\ N \in Nat /\ In("fire") /\ FireKnows /\ FireSound
    /\ drill'.name = "fire" /\ n' = n + 1 /\ drill'.waited = 0
    /\ drill'.wire = drill.wire /\ drill'.fired = drill.fired
    /\ drill'.sound = drill.sound
    /\ drill.sound => AsPredicted /\ (ok => AsPredicted')
    /\ drill'.red <=> drill.red \/ ~ok

\* A check of the persistence drill.
LEMMA PersistenceChecked ==
    ASSUME DInv, Running, Alone', drill.name = "persistence",
           UNCHANGED <<data, gateway, deployment, job, rule, left>>,
           NEW ok \in BOOLEAN, Check(ok)
    PROVE  PersistenceGoesOn(ok)
  <1>1. Typed /\ N \in Nat
     BY DrillsAre DEF DInv
  <1>2. /\ drill'.name = drill.name /\ drill'.step = drill.step + 1
        /\ drill'.red = (drill.red \/ ~ok) /\ drill'.waited = 0 /\ drill'.wire = drill.wire
        /\ drill'.before = drill.before
        /\ drill'.sound = drill.sound /\ drill'.meddled = drill.meddled
     BY <1>1, Checked
  <1>3. In("persistence") /\ PersistenceKnows /\ PersistenceSound
     BY <1>2, GoesOn, <1>1 DEF In, Alone, DInv, DrillKnows
  <1>4. drill.sound => AsPredicted
     BY <1>3 DEF PersistenceSound
  <1>5. drill.sound /\ ok => AsPredicted'
     BY <1>2, <1>4, StillAsPredicted DEF AsPredicted
  <1>6. n' = n + 1
     BY <1>2 DEF n
  <1>7. drill'.red <=> drill.red \/ ~ok
     BY <1>2
  <1> QED BY <1>1, <1>2, <1>3, <1>4, <1>5, <1>6, <1>7 DEF PersistenceGoesOn

\* A check of the fire drill.
LEMMA FireChecked ==
    ASSUME DInv, Running, Alone', drill.name = "fire",
           UNCHANGED <<data, gateway, deployment, job, rule, left>>,
           NEW ok \in BOOLEAN, Check(ok)
    PROVE  FireGoesOn(ok)
  <1>1. Typed /\ N \in Nat
     BY DrillsAre DEF DInv
  <1>2. /\ drill'.name = drill.name /\ drill'.step = drill.step + 1
        /\ drill'.red = (drill.red \/ ~ok) /\ drill'.waited = 0 /\ drill'.wire = drill.wire
        /\ drill'.fired = drill.fired
        /\ drill'.sound = drill.sound /\ drill'.meddled = drill.meddled
     BY <1>1, Checked
  <1>3. In("fire") /\ FireKnows /\ FireSound
     BY <1>2, GoesOn, <1>1 DEF In, Alone, DInv, DrillKnows
  <1>4. drill.sound => AsPredicted
     BY <1>3 DEF FireSound
  <1>5. drill.sound /\ ok => AsPredicted'
     BY <1>2, <1>4, StillAsPredicted DEF AsPredicted
  <1>6. n' = n + 1
     BY <1>2 DEF n
  <1>7. drill'.red <=> drill.red \/ ~ok
     BY <1>2
  <1> QED BY <1>1, <1>2, <1>3, <1>4, <1>5, <1>6, <1>7 DEF FireGoesOn

\* The new pod is asked what it holds; without a file it holds nothing.
LEMMA RecountKnows == ASSUME DInv, AskGateway, At("recount") PROVE DrillKnows'
  <1> SUFFICES ASSUME Alone' PROVE DrillKnows'
     BY NotAlone
  <1> DEFINE ok == Cardinality(Held) = drill.before /\ Held # {}
  <1>1. /\ Typed /\ Running /\ drill.name = "persistence"
        /\ UNCHANGED <<data, gateway, deployment, job, rule, left>>
     BY Where DEF DInv, AskGateway, At, Within
  <1>2. ~Abort
     BY <1>1, Aborted DEF Alone
  <1>3. ok \in BOOLEAN /\ Check(ok)
     BY <1>2 DEF AskGateway, At
  <1> HIDE DEF ok
  <1>4. PersistenceGoesOn(ok)
     BY <1>1, <1>3, PersistenceChecked
  <1>5. drill'.red <=> drill.red \/ ~ok
     BY <1>4 DEF PersistenceGoesOn
  <1>6. /\ Held' = Held /\ \A m : Group(m)' = Group(m)
        /\ UNCHANGED <<board, disk, pod, volume, wiring, job, rule>>
     BY <1>1, Unmoved
  <1>7. ASSUME n = N + 6 PROVE PersistenceKnows' /\ PersistenceSound'
    <2>1. volume # "written" => drill'.red
      <3> SUFFICES ASSUME volume # "written" PROVE ~ok
         BY <1>5
      <3>1. board = Empty
         BY <1>4, <1>7 DEF PersistenceKnows, PersistenceGoesOn
      <3> QED BY <3>1 DEF Held, Empty, ok
    <2>2. PersistenceKnows'
       BY <1>4, <1>6, <1>7, <2>1 DEF PersistenceKnows, PersistenceGoesOn
    <2>3. PersistenceSound'
      <3> SUFFICES ASSUME drill.sound PROVE PersistenceSound'
         BY <1>4 DEF PersistenceSound, PersistenceGoesOn
      <3>1. Held = Drilled /\ drill.before = Cardinality(Drilled)
         BY <1>4, <1>7 DEF PersistenceSound, PersistenceGoesOn
      <3>2. ok
         BY <3>1, DrillsAre DEF ok
      <3> QED BY <1>4, <1>6, <1>7, <3>1, <3>2 DEF PersistenceSound, PersistenceGoesOn
    <2> QED BY <2>2, <2>3
  <1>8. ASSUME n = 3*N + 11 PROVE PersistenceKnows' /\ PersistenceSound'
    <2>1. PersistenceKnows'
       BY <1>4, <1>5, <1>6, <1>8 DEF PersistenceKnows, PersistenceGoesOn
    <2>2. PersistenceSound'
      <3> SUFFICES ASSUME drill.sound PROVE PersistenceSound'
         BY <1>4 DEF PersistenceSound, PersistenceGoesOn
      <3>1. Held = Begun(n - 2*N - 11) /\ drill.before = Cardinality(Drilled)
         BY <1>4, <1>8 DEF PersistenceSound, PersistenceGoesOn
      <3>2. Held = Drilled /\ Begun(n' - 2*N - 11) = Drilled
        <4>1. n - 2*N - 11 = N /\ n' - 2*N - 11 = N + 1
           BY <1>4, <1>8 DEF PersistenceGoesOn
        <4>2. Begun(N) = Drilled /\ Begun(N + 1) = Drilled
           BY <1>4, BegunIs DEF PersistenceGoesOn
        <4> QED BY <3>1, <4>1, <4>2
      <3>3. ok
         BY <3>1, <3>2, DrillsAre DEF ok
      <3> QED BY <1>4, <1>6, <1>8, <3>1, <3>2, <3>3 DEF PersistenceSound, PersistenceGoesOn
    <2> QED BY <2>1, <2>2
  <1> QED BY <1>1, <1>4, <1>7, <1>8, Where DEF DrillKnows, FireKnows, FireSound, In, Within, PersistenceGoesOn

\* The board is empty.
LEMMA EmptiedKnows == ASSUME DInv, AskGateway, At("emptied") PROVE DrillKnows'
  <1> SUFFICES ASSUME Alone' PROVE DrillKnows'
     BY NotAlone
  <1> DEFINE ok == Held = {}
  <1>1. /\ Typed /\ Running /\ drill.name = "persistence" /\ n \in 2*N + 8..2*N + 8
        /\ UNCHANGED <<data, gateway, deployment, job, rule, left>>
     BY Where DEF DInv, AskGateway, At, Within
  <1>2. ~Abort
     BY <1>1, Aborted DEF Alone
  <1>3. ok \in BOOLEAN /\ Check(ok)
     BY <1>2 DEF AskGateway, At
  <1> HIDE DEF ok
  <1>4. PersistenceGoesOn(ok)
     BY <1>1, <1>3, PersistenceChecked
  <1>5. drill'.red <=> drill.red \/ ~ok
     BY <1>4 DEF PersistenceGoesOn
  <1>6. /\ Held' = Held /\ UNCHANGED <<board, disk, pod, volume, wiring, job, rule>>
     BY <1>1, Unmoved
  <1>7. n = 2*N + 8
     BY <1>1, <1>4 DEF PersistenceGoesOn
  <1>8. PersistenceKnows'
     BY <1>4, <1>5, <1>6, <1>7 DEF PersistenceKnows, PersistenceGoesOn
  <1>9. PersistenceSound'
    <2> SUFFICES ASSUME drill.sound PROVE PersistenceSound'
       BY <1>4 DEF PersistenceSound, PersistenceGoesOn
    <2>1. /\ Held \subseteq Drilled /\ \A i \in 1..N : N + 7 + i < n => DrillMonths[i] \notin Held
          /\ rule[Loss] = 0 /\ drill.before = Cardinality(Drilled)
       BY <1>4, <1>7 DEF PersistenceSound, PersistenceGoesOn
    <2>2. Held = {}
       BY <1>7, <2>1, DrillsAre
    <2>3. ok /\ Least(0, 3) = 0
       BY <2>2 DEF ok, Least
    <2> QED BY <1>4, <1>6, <1>7, <2>1, <2>2, <2>3 DEF PersistenceSound, PersistenceGoesOn
  <1> QED BY <1>4, <1>8, <1>9 DEF DrillKnows, FireKnows, FireSound, In, PersistenceGoesOn

\* The series of an alert.
LEMMA NamedAre ==
    /\ \A a \in Alerts : Named(a) = {<<a, m>> : m \in Months}
    /\ Named("absent") = {Loss} /\ Loss \in Series
    /\ \A a \in Alerts, m \in Months : <<a, m>> \in Series
    /\ \A s \in Series : s[1] \in Alerts => \E m \in Months : s = <<s[1], m>>
  <1>1. \A a \in Alerts, m \in Months : <<a, m>> \in Series /\ <<a, m>>[1] = a
     BY DEF Series
  <1>2. Loss \in Series /\ Loss[1] = "absent" /\ "absent" \notin Alerts
     BY DEF Series, Loss, Alerts
  <1>3. \A s \in Series : s = Loss \/ (s[1] \in Alerts /\ \E m \in Months : s = <<s[1], m>>)
    <2> TAKE s \in Series
    <2>1. CASE s \in Alerts \X Months
      <3>1. PICK a \in Alerts, m \in Months : s = <<a, m>>
         BY <2>1
      <3>2. s[1] = a
         BY <3>1
      <3> QED BY <3>1, <3>2
    <2> QED BY <2>1 DEF Series, Loss
  <1>4. \A a \in Alerts : Named(a) = {<<a, m>> : m \in Months}
     BY <1>1, <1>2, <1>3 DEF Named
  <1>5. Named("absent") = {Loss}
     BY <1>2, <1>3 DEF Named
  <1> QED BY <1>1, <1>2, <1>3, <1>4, <1>5

\* Where the rules are loaded, quiet is inactive.
LEMMA QuietIs ==
    ASSUME Quiet, "rules" \in wiring
    PROVE  \A a \in Alerts : Inactive(a)
  BY NamedAre DEF Quiet, Inactive

\* What has reached the Alertmanager was loaded and is delivered.
LEMMA HeardIs ==
    ASSUME Typed, NEW a, AtAlertmanager(a)
    PROVE  wiring = {"rules", "alertmanager"}
  <1>1. "alertmanager" \in wiring
     BY DEF AtAlertmanager
  <1>2. PICK s \in Named(a) : Firing(s)
     BY DEF AtAlertmanager
  <1>3. s \in Series /\ rule[s] > Sustain(s) /\ Sustain(s) \in Nat /\ rule[s] \in Nat
     BY <1>2 DEF Named, Firing, Sustain, Typed
  <1>4. rule[s] > 0
     BY <1>3
  <1>5. "rules" \in wiring /\ wiring \subseteq {"rules", "alertmanager"}
     BY <1>3, <1>4 DEF Typed
  <1> QED BY <1>1, <1>5

\* What the persistence drill reads at once.
LEMMA LookPersistence ==
    ASSUME DInv, Look, drill.name = "persistence", Alone'
    PROVE  PersistenceKnows' /\ PersistenceSound'
  <1>1. Typed /\ Running /\ UNCHANGED <<data, gateway, deployment, job, rule, left>>
     BY DEF DInv, Look, At
  <1>2. /\ Held' = Held /\ \A m : Group(m)' = Group(m)
        /\ UNCHANGED <<board, disk, pod, volume, wiring, job, rule>>
        /\ (Quiet' <=> Quiet)
     BY <1>1, Unmoved
  <1>3. ASSUME NEW ok \in BOOLEAN, Check(ok) PROVE PersistenceGoesOn(ok)
     BY <1>1, <1>3, PersistenceChecked
  <1>4. ASSUME At("bound"), Check(volume # "none") PROVE PersistenceKnows' /\ PersistenceSound'
    <2> DEFINE ok == volume # "none"
    <2>1. ok \in BOOLEAN /\ (AsPredicted => ok)
       BY DEF AsPredicted
    <2>2. Check(ok)
       BY <1>4
    <2>3. n = 1
       BY <1>1, <1>4, Where DEF Within
    <2> HIDE DEF ok
    <2>4. PersistenceGoesOn(ok)
       BY <1>3, <2>1, <2>2
    <2>5. PersistenceKnows'
       BY <1>2, <2>3, <2>4 DEF PersistenceKnows, PersistenceGoesOn
    <2>6. PersistenceSound'
       BY <1>2, <2>1, <2>3, <2>4 DEF PersistenceSound, PersistenceGoesOn
    <2> QED BY <2>5, <2>6
  <1>5. ASSUME At("named"), Check(volume \in {"elsewhere", "written"})
        PROVE  PersistenceKnows' /\ PersistenceSound'
    <2> DEFINE ok == volume \in {"elsewhere", "written"}
    <2>1. ok \in BOOLEAN /\ (AsPredicted => ok)
       BY DEF AsPredicted
    <2>2. Check(ok)
       BY <1>5
    <2>3. n = 2
       BY <1>1, <1>5, Where DEF Within
    <2> HIDE DEF ok
    <2>4. PersistenceGoesOn(ok)
       BY <1>3, <2>1, <2>2
    <2>5. PersistenceKnows'
       BY <1>2, <2>3, <2>4 DEF PersistenceKnows, PersistenceGoesOn
    <2>6. Begun(0) = {}
       BY BegunIs
    <2>7. PersistenceSound'
       BY <1>2, <2>1, <2>6, <2>3, <2>4 DEF PersistenceSound, PersistenceGoesOn
    <2> QED BY <2>5, <2>7
  <1>6. ASSUME At("blind"),
               Check(Inactive("stale") /\ Inactive("volume") /\ AtAlertmanager("absent"))
        PROVE  PersistenceKnows' /\ PersistenceSound'
    <2> DEFINE ok == Inactive("stale") /\ Inactive("volume") /\ AtAlertmanager("absent")
    <2>1. PersistenceGoesOn(ok)
       BY <1>3, <1>6
    <2>2. n = 2*N + 10
       BY <1>1, <1>6, Where, DrillsAre DEF Within
    <2>3. ok => wiring = {"rules", "alertmanager"}
       BY <1>1, HeardIs
    <2>4. AsPredicted /\ Quiet /\ rule[Loss] = 3 => ok
      <3> SUFFICES ASSUME AsPredicted, Quiet, rule[Loss] = 3 PROVE ok
         OBVIOUS
      <3>1. wiring = {"rules", "alertmanager"}
         BY DEF AsPredicted
      <3>2. Inactive("stale") /\ Inactive("volume")
         BY <3>1, QuietIs DEF Alerts
      <3>3. Sustain(Loss) = 2 /\ Loss \in Named("absent")
         BY NamedAre DEF Sustain, Loss
      <3>4. AtAlertmanager("absent")
         BY <3>1, <3>3 DEF AtAlertmanager, Firing
      <3> QED BY <3>2, <3>4
    <2> HIDE DEF ok
    <2>5. PersistenceKnows'
       BY <1>2, <2>1, <2>2, <2>3 DEF PersistenceKnows, PersistenceGoesOn
    <2>6. PersistenceSound'
      <3> SUFFICES ASSUME drill.sound PROVE PersistenceSound'
         BY <2>1 DEF PersistenceSound, PersistenceGoesOn
      <3>1. /\ AsPredicted /\ Held = {} /\ Quiet /\ rule[Loss] = 3
            /\ drill.before = Cardinality(Drilled)
         BY <2>1, <2>2 DEF PersistenceSound, PersistenceGoesOn
      <3>2. n' - 2*N - 11 = 0 /\ Begun(0) = {}
         BY <2>1, <2>2, BegunIs DEF PersistenceGoesOn
      <3> QED BY <1>2, <2>1, <2>2, <2>4, <3>1, <3>2 DEF PersistenceSound, PersistenceGoesOn
    <2> QED BY <2>5, <2>6
  <1> QED BY <1>1, <1>4, <1>5, <1>6, Where DEF Look, Within


\* What the fire drill reads at once.
LEMMA LookFire ==
    ASSUME DInv, Look, drill.name = "fire", Alone'
    PROVE  FireKnows' /\ FireSound'
  <1>1. Typed /\ Running /\ UNCHANGED <<data, gateway, deployment, job, rule, left>>
     BY DEF DInv, Look, At
  <1>2. /\ Held' = Held /\ \A m : Group(m)' = Group(m)
        /\ UNCHANGED <<board, disk, pod, volume, wiring, job, rule>>
        /\ (Quiet' <=> Quiet) /\ (OnlyCollapse' <=> OnlyCollapse)
     BY <1>1, Unmoved
  <1>3. ASSUME NEW ok \in BOOLEAN, Check(ok) PROVE FireGoesOn(ok)
     BY <1>1, <1>3, FireChecked
  <1>4. N \in Nat /\ N >= 1
     BY DrillsAre
  <1>5. ASSUME At("clean"), Check(\A a \in Alerts : Inactive(a)) PROVE FireKnows' /\ FireSound'
    <2> DEFINE ok == \A a \in Alerts : Inactive(a)
    <2>1. AsPredicted /\ Quiet => ok
       BY QuietIs DEF AsPredicted
    <2>2. ok \in BOOLEAN /\ Check(ok)
       BY <1>5
    <2>3. n = N + 2
       BY <1>1, <1>5, Where, DrillsAre DEF Within
    <2> HIDE DEF ok
    <2>4. FireGoesOn(ok)
       BY <1>3, <2>2
    <2>5. FireKnows'
       BY <1>2, <2>3, <2>4 DEF FireKnows, FireGoesOn
    <2>6. FireSound'
      <3> SUFFICES ASSUME drill.sound PROVE FireSound'
         BY <2>4 DEF FireSound, FireGoesOn
      <3>1. AsPredicted /\ Held = Begun(n - N - 3) /\ Quiet /\ drill.fired = {}
        <4>1. n \in N + 2..2*N + 6 /\ n \in N + 2..2*N + 3 /\ n < 2*N + 4
           BY <1>4, <2>3
        <4> QED BY <2>4, <4>1 DEF FireSound, FireGoesOn
      <3>2. n' = N + 3 /\ N + 3 < 2*N + 4
         BY <2>3, <2>4 DEF FireGoesOn
      <3>3. Held = Begun(n' - N - 3)
        <4>1. n - N - 3 = -1 /\ n' - N - 3 = 0
           BY <2>3, <2>4 DEF FireGoesOn
        <4>2. Begun(-1) = {} /\ Begun(0) = {}
           BY BegunIs
        <4> QED BY <3>1, <4>1, <4>2
      <3> QED BY <1>2, <2>1, <2>4, <3>1, <3>2, <3>3, DrillsAre DEF FireSound, FireGoesOn
    <2> QED BY <2>5, <2>6
  <1>6. ASSUME At("scraped"), Check(Cardinality(Held) >= Len(DrillMonths))
        PROVE  FireKnows' /\ FireSound'
    <2> DEFINE ok == Cardinality(Held) >= Len(DrillMonths)
    <2>1. Held = Drilled => ok
      <3>1. Cardinality(Drilled) = Len(DrillMonths) /\ Len(DrillMonths) \in Nat
         BY DrillsAre DEF N
      <3> QED BY <3>1
    <2>2. ok \in BOOLEAN /\ Check(ok)
       BY <1>6
    <2>3. n = 2*N + 3
       BY <1>1, <1>6, Where, DrillsAre DEF Within
    <2> HIDE DEF ok
    <2>4. FireGoesOn(ok)
       BY <1>3, <2>2
    <2>5. FireKnows'
       BY <1>2, <2>3, <2>4 DEF FireKnows, FireGoesOn
    <2>6. FireSound'
      <3> SUFFICES ASSUME drill.sound PROVE FireSound'
         BY <2>4 DEF FireSound, FireGoesOn
      <3>1. AsPredicted /\ Held = Begun(n - N - 3) /\ Quiet /\ drill.fired = {}
        <4>1. n \in N + 2..2*N + 6 /\ n \in N + 2..2*N + 3 /\ n < 2*N + 4
           BY <1>4, <2>3
        <4> QED BY <2>4, <4>1 DEF FireSound, FireGoesOn
      <3>2. Held = Drilled /\ Begun(n' - N - 3) = Drilled
        <4>1. n - N - 3 = N /\ n' - N - 3 = N + 1
           BY <2>3, <2>4 DEF FireGoesOn
        <4>2. Begun(N) = Drilled /\ Begun(N + 1) = Drilled
           BY BegunIs, DrillsAre
        <4> QED BY <3>1, <4>1, <4>2
      <3>3. OnlyCollapse /\ rule[Collapse] = Least(0, 2)
         BY <3>1, DrillsAre DEF OnlyCollapse, Quiet, Collapse, Least, Alerts
      <3>4. n' = 2*N + 4
         BY <2>3, <2>4 DEF FireGoesOn
      <3> QED BY <1>2, <1>4, <2>1, <2>4, <3>1, <3>2, <3>3, <3>4 DEF FireSound, FireGoesOn
    <2> QED BY <2>5, <2>6
  <1> QED BY <1>1, <1>5, <1>6, Where DEF Look, Within

\* A look keeps what is known.
LEMMA LookKnows == ASSUME DInv, Look PROVE DrillKnows'
  <1> SUFFICES ASSUME Alone' PROVE DrillKnows'
     BY NotAlone
  <1>1. drill.name \in {"fire", "persistence"}
     BY Where DEF DInv, Look, Within
  <1>2. drill'.name = drill.name
    <2>1. \E ok \in BOOLEAN : Check(ok)
      <3>1. CASE Check(volume \in {"elsewhere", "written"})
        <4> DEFINE ok == volume \in {"elsewhere", "written"}
        <4>1. ok \in BOOLEAN
           OBVIOUS
        <4> HIDE DEF ok
        <4>2. Check(ok)
           BY <3>1 DEF ok
        <4> QED BY <4>1, <4>2
      <3>2. CASE Check(Cardinality(Held) >= Len(DrillMonths))
        <4> DEFINE ok == Cardinality(Held) >= Len(DrillMonths)
        <4>1. ok \in BOOLEAN
           OBVIOUS
        <4> HIDE DEF ok
        <4>2. Check(ok)
           BY <3>2 DEF ok
        <4> QED BY <4>1, <4>2
      <3>3. CASE Check(volume # "none")
         BY <3>3, Zenon
      <3>4. CASE Check(\A a \in Alerts : Inactive(a))
         BY <3>4, Zenon
      <3>5. CASE Check(Inactive("stale") /\ Inactive("volume") /\ AtAlertmanager("absent"))
         BY <3>5, Zenon
      <3> QED BY <3>1, <3>2, <3>3, <3>4, <3>5 DEF Look
    <2>2. Typed /\ Running
       BY DEF DInv, Look, At
    <2> QED BY <2>1, <2>2, Checked
  <1>3. CASE drill.name = "fire"
     BY <1>2, <1>3, LookFire DEF DrillKnows, PersistenceKnows, PersistenceSound, In
  <1>4. CASE drill.name = "persistence"
     BY <1>2, <1>4, LookPersistence DEF DrillKnows, FireKnows, FireSound, In
  <1> QED BY <1>1, <1>3, <1>4

\* The verdict of the fire drill.
LEMMA JudgeKnows == ASSUME DInv, Judge PROVE DrillKnows'
  <1> SUFFICES ASSUME Alone' PROVE DrillKnows'
     BY NotAlone
  <1> DEFINE ok == /\ \A m \in Predicted : <<"volume", m>> \in drill.fired
                   /\ AtAlertmanager("volume")
                   /\ \A m \in Range(DrillMonths) \ Predicted : <<"volume", m>> \notin drill.fired
                   /\ drill.fired \cap Named("stale") = {}
  <1>1. /\ Typed /\ Running /\ drill.name = "fire"
        /\ UNCHANGED <<data, gateway, deployment, job, rule, left>>
     BY Where DEF DInv, Judge, At, Within
  <1>2. ok \in BOOLEAN /\ Check(ok)
     BY DEF Judge
  <1>3. ok => wiring = {"rules", "alertmanager"}
     BY <1>1, HeardIs
  <1>4. n = 2*N + 5
     BY <1>1, Where, DrillsAre DEF Judge, Within
  <1>5. ASSUME In("fire"), FireSound, drill.sound PROVE ok
    <2>1. /\ AsPredicted /\ rule[Collapse] = 2 /\ Collapse \in drill.fired
          /\ \A s \in drill.fired : s[1] \in Alerts => s = Collapse
       BY <1>4, <1>5, DrillsAre DEF FireSound
    <2>2. \A m \in Predicted : <<"volume", m>> \in drill.fired
       BY <2>1, DrillsAre DEF Collapse
    <2>3. AtAlertmanager("volume")
      <3>1. Collapse \in Named("volume") /\ Sustain(Collapse) = 1
         BY NamedAre, DrillsAre DEF Collapse, Sustain, Alerts
      <3>2. wiring = {"rules", "alertmanager"} /\ Firing(Collapse)
         BY <2>1, <3>1 DEF AsPredicted, Firing
      <3> QED BY <3>1, <3>2 DEF AtAlertmanager
    <2>4. ASSUME NEW m \in Range(DrillMonths) \ Predicted PROVE <<"volume", m>> \notin drill.fired
      <3>1. m # Fires
         BY DrillsAre
      <3>2. <<"volume", m>> # Collapse
         BY <3>1 DEF Collapse
      <3> QED BY <2>1, <3>2 DEF Alerts
    <2>5. ASSUME NEW s \in drill.fired, s \in Named("stale") PROVE FALSE
      <3>1. s[1] = "stale"
         BY <2>5 DEF Named
      <3>2. s = Collapse
         BY <2>1, <3>1 DEF Alerts
      <3> QED BY <3>1, <3>2 DEF Collapse
    <2> QED BY <2>2, <2>3, <2>4, <2>5
  <1> HIDE DEF ok
  <1>6. FireGoesOn(ok)
     BY <1>1, <1>2, FireChecked
  <1>7. /\ Held' = Held /\ \A m : Group(m)' = Group(m)
        /\ UNCHANGED <<board, disk, pod, volume, wiring, job, rule>>
     BY <1>1, Unmoved
  <1>8. FireKnows'
     BY <1>3, <1>4, <1>6, <1>7 DEF FireKnows, FireGoesOn
  <1>9. FireSound'
    <2> SUFFICES ASSUME drill.sound PROVE FireSound'
       BY <1>6 DEF FireSound, FireGoesOn
    <2>1. ok /\ n' = 2*N + 6 /\ n - N - 3 = N + 2 /\ n' - N - 3 = N + 3
       BY <1>4, <1>5, <1>6 DEF FireGoesOn
    <2>2. Held = Begun(n - N - 3)
      <3>1. n \in N + 2..2*N + 6
         BY <1>4, DrillsAre
      <3> QED BY <1>6, <3>1 DEF FireSound, FireGoesOn
    <2>3. Held = Begun(n' - N - 3)
      <3>1. n - N - 3 >= N /\ n' - N - 3 >= N /\ n - N - 3 \in Int /\ n' - N - 3 \in Int
         BY <2>1, DrillsAre
      <3>2. Begun(n - N - 3) = Drilled /\ Begun(n' - N - 3) = Drilled
         BY <3>1, BegunIs
      <3> QED BY <2>2, <3>2
    <2>4. N \in Nat /\ N >= 1
       BY DrillsAre
    <2> QED BY <1>6, <1>7, <2>1, <2>3, <2>4 DEF FireSound, FireGoesOn
  <1> QED BY <1>6, <1>8, <1>9 DEF DrillKnows, PersistenceKnows, PersistenceSound, In, FireGoesOn


\* A step of the fire drill that checks nothing.
LEMMA FireMoved ==
    ASSUME DInv, Running, Alone', drill.name = "fire", drill' = Going,
           UNCHANGED <<data, gateway, deployment, job, rule, left>>
    PROVE  FireGoesOn(TRUE)
  <1>1. Typed /\ N \in Nat
     BY DrillsAre DEF DInv
  <1>2. /\ drill'.name = drill.name /\ drill'.step = drill.step + 1
        /\ drill'.red = drill.red /\ drill'.waited = 0 /\ drill'.wire = drill.wire
        /\ drill'.fired = drill.fired
        /\ drill'.sound = drill.sound /\ drill'.meddled = drill.meddled
     BY <1>1, GoesOn
  <1>3. In("fire") /\ FireKnows /\ FireSound
     BY <1>2, GoesOn, <1>1 DEF In, Alone, DInv, DrillKnows
  <1>4. drill.sound => AsPredicted
     BY <1>3 DEF FireSound
  <1>5. drill.sound => AsPredicted'
     BY <1>2, <1>4, StillAsPredicted DEF AsPredicted
  <1>6. n' = n + 1
     BY <1>2 DEF n
  <1> QED BY <1>1, <1>2, <1>3, <1>4, <1>5, <1>6 DEF FireGoesOn

\* When a wait ends on an evaluation, that evaluation has been heard.
LEMMA WaitEnds ==
    ASSUME Typed, Wait
    PROVE  /\ Running /\ drill.waited \in Nat
           /\ UNCHANGED <<data, gateway, deployment, job, rule, left>>
           /\ \A w \in {"settle", "cleared", "settled", "returns"} :
                At(w) => Reached \/ drill.waited >= 1
           /\ At("observe") => drill.waited >= 2
           /\ At("absent") => Reached \/ drill.waited >= 3
  <1>1. Running /\ drill.waited \in Nat /\ UNCHANGED <<data, gateway, deployment, job, rule, left>>
     BY DEF Wait, Typed, Drills
  <1>2. Reached \/ drill.waited = Patience[Step.op]
     BY DEF Wait
  <1>3. At("observe") => ~Reached
     BY DEF At, Reached
  <1> QED BY <1>1, <1>2, <1>3, WaitsAssumption DEF At

\* The waits of the fire drill.
LEMMA WaitFire ==
    ASSUME DInv, Wait, drill.name = "fire", Alone'
    PROVE  FireKnows' /\ FireSound'
  <1>1. /\ Typed /\ Running /\ UNCHANGED <<data, gateway, deployment, job, rule, left>>
        /\ N \in Nat /\ N >= 1
     BY WaitEnds, DrillsAre DEF DInv
  <1>2. /\ Held' = Held /\ \A m : Group(m)' = Group(m)
        /\ UNCHANGED <<board, disk, pod, volume, wiring, job, rule>>
        /\ (Quiet' <=> Quiet) /\ (OnlyCollapse' <=> OnlyCollapse)
     BY <1>1, Unmoved
  <1>3. \A s \in Series : rule[s] \in Nat
     BY <1>1 DEF Typed
  <1>4. ASSUME At("settle") PROVE FireKnows' /\ FireSound'
    <2>1. n = N + 1
       BY <1>1, <1>4, Where DEF Within
    <2>2. FireGoesOn(TRUE)
       BY <1>1, <1>4, FireMoved DEF Wait, At
    <2>3. FireKnows'
       BY <1>2, <2>1, <2>2 DEF FireKnows, FireGoesOn
    <2>4. Reached => Quiet
       BY <1>4, NamedAre DEF Reached, At, Inactive, Quiet
    <2>5. FireSound'
      <3> SUFFICES ASSUME drill.sound PROVE FireSound'
         BY <2>2 DEF FireSound, FireGoesOn
      <3>1. /\ AsPredicted /\ Held \subseteq Drilled /\ drill.fired = {}
            /\ \A i \in 1..N : i < n => DrillMonths[i] \notin Held
            /\ drill.waited >= 1 => Quiet
         BY <1>1, <2>1, <2>2 DEF FireSound, FireGoesOn
      <3>2. Held = {}
         BY <1>1, <2>1, <3>1, DrillsAre
      <3>3. Quiet
         BY <1>1, <1>4, <2>4, <3>1, WaitEnds
      <3>4. n' = N + 2 /\ Held = Begun(n' - N - 3)
        <4>1. n' = N + 2 /\ n' - N - 3 = -1
           BY <1>1, <2>1, <2>2 DEF FireGoesOn
        <4>2. Begun(-1) = {}
           BY BegunIs
        <4> QED BY <3>2, <4>1, <4>2
      <3> QED BY <1>1, <1>2, <2>2, <3>1, <3>3, <3>4 DEF FireSound, FireGoesOn
    <2> QED BY <2>3, <2>5
  <1>5. ASSUME At("observe") PROVE FireKnows' /\ FireSound'
    <2>1. n = 2*N + 4
       BY <1>1, <1>5, Where DEF Within
    <2>2. FireGoesOn(TRUE)
       BY <1>1, <1>5, FireMoved DEF Wait, At
    <2>3. FireKnows'
       BY <1>2, <2>1, <2>2 DEF FireKnows, FireGoesOn
    <2>4. FireSound'
      <3> SUFFICES ASSUME drill.sound PROVE FireSound'
         BY <2>2 DEF FireSound, FireGoesOn
      <3>1. /\ AsPredicted /\ Held = Begun(n - N - 3) /\ OnlyCollapse
            /\ \A s \in drill.fired : s[1] \in Alerts => s = Collapse
            /\ rule[Collapse] = Least(drill.waited, 2)
            /\ drill.waited >= 2 => Collapse \in drill.fired
        <4>1. n \in N + 2..2*N + 6 /\ n \in {2*N + 4, 2*N + 5}
           BY <1>1, <2>1
        <4> QED BY <2>1, <2>2, <4>1 DEF FireSound, FireGoesOn
      <3>2. drill.waited >= 2 /\ drill.waited \in Nat
         BY <1>1, <1>5, WaitEnds
      <3>3. rule[Collapse] = 2 /\ Collapse \in drill.fired
         BY <3>1, <3>2 DEF Least
      <3>4. n' = 2*N + 5 /\ Held = Begun(n' - N - 3)
        <4>1. n' = 2*N + 5 /\ n' - N - 3 = N + 2 /\ n - N - 3 = N + 1
           BY <1>1, <2>1, <2>2 DEF FireGoesOn
        <4>2. Begun(N + 1) = Drilled /\ Begun(N + 2) = Drilled
           BY <1>1, BegunIs
        <4> QED BY <3>1, <4>1, <4>2
      <3> QED BY <1>1, <1>2, <2>2, <3>1, <3>3, <3>4 DEF FireSound, FireGoesOn
    <2> QED BY <2>3, <2>4
  <1>6. ASSUME At("cleared") PROVE FireKnows' /\ FireSound'
    <2> DEFINE ok == Reached
    <2>1. n = 2*N + 7
       BY <1>1, <1>6, Where DEF Within
    <2>2. ok \in BOOLEAN /\ Check(ok)
       BY <1>6 DEF Wait, At, Reached, Inactive
    <2>3. "rules" \in wiring /\ (\A m \in Months : rule[<<"volume", m>>] = 0) => ok
       BY <1>6, NamedAre DEF Reached, At, Inactive, Alerts
    <2>4. ok \/ drill.waited >= 1
       BY <1>1, <1>6, WaitEnds
    <2> HIDE DEF ok
    <2>5. FireGoesOn(ok)
       BY <1>1, <2>2, FireChecked
    <2>6. FireKnows'
       BY <1>1, <1>2, <2>1, <2>5 DEF FireKnows, FireGoesOn
    <2>7. drill.sound => ok
       BY <1>1, <2>1, <2>3, <2>4, <2>5 DEF FireSound, FireGoesOn, AsPredicted
    <2>8. FireSound'
       BY <1>1, <2>1, <2>5, <2>7 DEF FireSound, FireGoesOn
    <2> QED BY <2>6, <2>8
  <1>7. At("settle") \/ At("observe") \/ At("cleared")
    <2>1. \E w \in Waiting : At(w)
       BY DEF Wait, At
    <2> QED BY <1>1, <2>1, Where DEF Waiting, Within
  <1> QED BY <1>4, <1>5, <1>6, <1>7


\* The waits of the persistence drill.
LEMMA WaitPersistence ==
    ASSUME DInv, Wait, drill.name = "persistence", Alone'
    PROVE  PersistenceKnows' /\ PersistenceSound'
  <1>1. /\ Typed /\ Running /\ UNCHANGED <<data, gateway, deployment, job, rule, left>>
        /\ N \in Nat /\ N >= 1
     BY WaitEnds, DrillsAre DEF DInv
  <1>2. /\ Held' = Held /\ \A m : Group(m)' = Group(m)
        /\ UNCHANGED <<board, disk, pod, volume, wiring, job, rule>>
        /\ (Quiet' <=> Quiet)
     BY <1>1, Unmoved
  <1>3. rule[Loss] \in Nat /\ Sustain(Loss) = 2 /\ rule[Loss] <= 3
    <2>1. Loss[1] = "absent"
       BY DEF Loss
    <2>2. Sustain(Loss) = 2
       BY <2>1 DEF Sustain
    <2>3. rule[Loss] \in Nat /\ rule[Loss] <= Sustain(Loss) + 1
       BY <1>1, NamedAre DEF Typed
    <2> QED BY <2>2, <2>3
  <1>4. ASSUME At("newpod") PROVE PersistenceKnows' /\ PersistenceSound'
    <2>1. n = N + 5
       BY <1>1, <1>4, Where DEF Within
    <2>2. ~Abort
       BY <1>1, Aborted DEF Alone
    <2>3. pod = "up" /\ drill' = [Going EXCEPT !.wire = TRUE]
       BY <1>4, <2>2 DEF Wait, At, Reached
    <2>4. Going \in Drills
       BY <1>1, GoesOn
    <2>5. /\ drill'.name = drill.name /\ drill'.step = drill.step + 1 /\ drill'.waited = 0
          /\ drill'.before = drill.before /\ drill'.wire
       BY <1>1, <2>3, <2>4, GoesOn DEF Drills
    <2>6. /\ drill'.red = drill.red /\ drill'.sound = drill.sound
          /\ drill'.meddled = drill.meddled
       BY <1>1, <2>3, <2>4, GoesOn DEF Drills
    <2>7. In("persistence") /\ PersistenceKnows /\ PersistenceSound
       BY <1>1, <2>6, GoesOn DEF In, Alone, DInv, DrillKnows
    <2>8. PersistenceKnows'
       BY <1>1, <1>2, <2>1, <2>3, <2>5, <2>6, <2>7 DEF PersistenceKnows, n
    <2>9. PersistenceSound'
      <3> SUFFICES ASSUME drill.sound PROVE PersistenceSound'
         BY <2>6 DEF PersistenceSound
      <3>1. AsPredicted /\ Held = Drilled /\ drill.before = Cardinality(Drilled)
         BY <1>1, <2>1, <2>3, <2>7 DEF PersistenceSound, n
      <3>2. AsPredicted'
         BY <1>1, <2>6, <3>1, StillAsPredicted DEF AsPredicted
      <3> QED BY <1>1, <1>2, <2>1, <2>5, <3>1, <3>2 DEF PersistenceSound, n
    <2> QED BY <2>8, <2>9
  <1>5. ASSUME At("settled") PROVE PersistenceKnows' /\ PersistenceSound'
    <2> DEFINE ok == Reached
    <2>1. n = N + 7 \/ n = 3*N + 12
       BY <1>1, <1>5, Where DEF Within
    <2>2. ok \in BOOLEAN /\ Check(ok)
       BY <1>5 DEF Wait, At, Reached, Inactive
    <2>3. "rules" \in wiring => (rule[Loss] = 0 <=> ok)
       BY <1>5, NamedAre DEF Reached, At, Inactive
    <2>4. ok \/ drill.waited >= 1
       BY <1>1, <1>5, WaitEnds
    <2> HIDE DEF ok
    <2>5. PersistenceGoesOn(ok)
       BY <1>1, <2>2, PersistenceChecked
    <2>6. PersistenceKnows'
       BY <1>1, <1>2, <2>1, <2>5 DEF PersistenceKnows, PersistenceGoesOn
    <2>7. drill.sound => ok /\ rule[Loss] = 0
       BY <1>1, <2>1, <2>3, <2>4, <2>5 DEF PersistenceSound, PersistenceGoesOn, AsPredicted
    <2>8. PersistenceSound'
      <3> SUFFICES ASSUME drill.sound PROVE PersistenceSound'
         BY <2>5 DEF PersistenceSound, PersistenceGoesOn
      <3>1. CASE n = N + 7
        <4>1. Held = Drilled /\ drill.before = Cardinality(Drilled)
           BY <1>1, <2>5, <3>1 DEF PersistenceSound, PersistenceGoesOn
        <4> QED BY <1>1, <1>2, <2>5, <2>7, <3>1, <4>1 DEF PersistenceSound, PersistenceGoesOn
      <3>2. CASE n = 3*N + 12
        <4>1. Held = Begun(n - 2*N - 11) /\ drill.before = Cardinality(Drilled)
           BY <1>1, <2>5, <3>2 DEF PersistenceSound, PersistenceGoesOn
        <4>2. n' = 3*N + 13 /\ n - 2*N - 11 = N + 1 /\ n' - 2*N - 11 = N + 2
           BY <1>1, <2>5, <3>2 DEF PersistenceGoesOn
        <4>3. Begun(N + 1) = Drilled /\ Begun(N + 2) = Drilled
           BY <1>1, BegunIs
        <4> QED BY <1>1, <1>2, <2>5, <2>7, <4>1, <4>2, <4>3 DEF PersistenceSound, PersistenceGoesOn
      <3> QED BY <2>1, <3>1, <3>2
    <2> QED BY <2>6, <2>8
  <1>6. ASSUME At("absent") PROVE PersistenceKnows' /\ PersistenceSound'
    <2> DEFINE ok == Reached
    <2>1. n = 2*N + 9
       BY <1>1, <1>6, Where DEF Within
    <2>2. ok \in BOOLEAN /\ Check(ok)
       BY <1>6 DEF Wait, At, Reached
    <2>3. ok <=> rule[Loss] = 3
       BY <1>3, <1>6, NamedAre DEF Reached, At, Firing
    <2>4. (ok \/ drill.waited >= 3) /\ drill.waited \in Nat
       BY <1>1, <1>6, WaitEnds
    <2> HIDE DEF ok
    <2>5. PersistenceGoesOn(ok)
       BY <1>1, <2>2, PersistenceChecked
    <2>6. PersistenceKnows'
       BY <1>1, <1>2, <2>1, <2>5 DEF PersistenceKnows, PersistenceGoesOn
    <2>7. PersistenceSound'
      <3> SUFFICES ASSUME drill.sound PROVE PersistenceSound'
         BY <2>5 DEF PersistenceSound, PersistenceGoesOn
      <3>1. /\ Held = {} /\ rule[Loss] = Least(drill.waited, 3)
            /\ drill.before = Cardinality(Drilled) /\ (drill.waited >= 1 => Quiet)
         BY <1>1, <2>1, <2>5 DEF PersistenceSound, PersistenceGoesOn
      <3>2. rule[Loss] = 3 /\ Quiet /\ ok
         BY <2>3, <2>4, <3>1 DEF Least
      <3> QED BY <1>1, <1>2, <2>1, <2>5, <3>1, <3>2 DEF PersistenceSound, PersistenceGoesOn
    <2> QED BY <2>6, <2>7
  <1>7. ASSUME At("returns") PROVE PersistenceKnows' /\ PersistenceSound'
    <2> DEFINE ok == Reached
    <2>1. n = 3*N + 13
       BY <1>1, <1>7, Where DEF Within
    <2>2. ok \in BOOLEAN /\ Check(ok)
       BY <1>7 DEF Wait, At, Reached, Stirring
    <2>3. rule[Collapse] > 0 => ok
       BY <1>7, NamedAre, DrillsAre DEF Reached, At, Stirring, Collapse, Alerts
    <2>4. ok \/ drill.waited >= 1
       BY <1>1, <1>7, WaitEnds
    <2> HIDE DEF ok
    <2>5. PersistenceGoesOn(ok)
       BY <1>1, <2>2, PersistenceChecked
    <2>6. PersistenceKnows'
       BY <1>1, <1>2, <2>1, <2>5 DEF PersistenceKnows, PersistenceGoesOn
    <2>7. PersistenceSound'
      <3> SUFFICES ASSUME drill.sound PROVE PersistenceSound'
         BY <2>5 DEF PersistenceSound, PersistenceGoesOn
      <3>1. ok
         BY <1>1, <2>1, <2>3, <2>4, <2>5 DEF PersistenceSound, PersistenceGoesOn
      <3>2. Held = Begun(n - 2*N - 11) /\ drill.before = Cardinality(Drilled)
         BY <1>1, <2>1, <2>5 DEF PersistenceSound, PersistenceGoesOn
      <3>3. n' = 3*N + 14 /\ n - 2*N - 11 = N + 2 /\ n' - 2*N - 11 = N + 3
         BY <1>1, <2>1, <2>5 DEF PersistenceGoesOn
      <3>4. Begun(N + 2) = Drilled /\ Begun(N + 3) = Drilled
         BY <1>1, BegunIs
      <3> QED BY <1>1, <1>2, <2>5, <3>1, <3>2, <3>3, <3>4 DEF PersistenceSound, PersistenceGoesOn
    <2> QED BY <2>6, <2>7
  <1>8. At("newpod") \/ At("settled") \/ At("absent") \/ At("returns")
    <2>1. \E w \in Waiting : At(w)
       BY DEF Wait, At
    <2> QED BY <1>1, <2>1, Where DEF Waiting, Within
  <1> QED BY <1>4, <1>5, <1>6, <1>7, <1>8

\* A wait keeps what is known.
LEMMA WaitKnows == ASSUME DInv, Wait PROVE DrillKnows'
  <1> SUFFICES ASSUME Alone' PROVE DrillKnows'
     BY NotAlone
  <1>1. Typed /\ Running
     BY WaitEnds DEF DInv
  <1>2. drill.name \in {"fire", "persistence"}
     BY <1>1, GoesOn DEF Typed, Drills
  <1>3. drill'.name = drill.name
    <2>1. ~Abort
       BY <1>1, Aborted DEF Alone
    <2>2. Going \in Drills
       BY <1>1, GoesOn
    <2>3. CASE drill' = Going
       BY <1>1, <2>3, GoesOn
    <2>4. CASE drill' = [Going EXCEPT !.wire = TRUE]
       BY <1>1, <2>2, <2>4, GoesOn DEF Drills
    <2>5. CASE Check(Reached)
      <3>1. Reached \in BOOLEAN
         BY DEF Wait, Waiting, Reached, Inactive, Firing, Stirring
      <3> QED BY <1>1, <2>5, <3>1, Checked
    <2> QED BY <2>1, <2>3, <2>4, <2>5 DEF Wait
  <1>4. CASE drill.name = "fire"
     BY <1>3, <1>4, WaitFire DEF DrillKnows, PersistenceKnows, PersistenceSound, In
  <1>5. CASE drill.name = "persistence"
     BY <1>3, <1>5, WaitPersistence DEF DrillKnows, FireKnows, FireSound, In
  <1> QED BY <1>2, <1>4, <1>5


\* A drill that starts has taken the platform as it is.
LEMMA StartKnows ==
    ASSUME DInv, NEW name \in {"fire", "persistence"}, StartDrill(name)
    PROVE  DrillKnows'
  <1> SUFFICES ASSUME Alone' PROVE DrillKnows'
     BY NotAlone
  <1> DEFINE ok == Sound
             busy == job.todo # {}
  <1>1. Sound => /\ volume = "written" /\ wiring = {"rules", "alertmanager"}
                 /\ Held \subseteq Drilled
                 /\ \A m \in Drilled : /\ Computable(m) /\ (Low(m) <=> m \in Predicted)
                                       /\ Shifted(m) < 2
     BY DEF Sound, Drilled
  <1>2. /\ pod = "up" /\ UNCHANGED <<data, gateway, deployment, job, rule>>
        /\ drill' = [NoDrill EXCEPT !.name = name, !.step = 1, !.wire = TRUE,
                                    !.sound = ok, !.meddled = busy]
     BY DEF StartDrill
  <1>3. ok \in BOOLEAN /\ busy \in BOOLEAN
     BY DEF Sound
  <1> HIDE DEF ok, busy
  <1>4. /\ drill'.name = name /\ drill'.step = 1 /\ drill'.wire /\ drill'.waited = 0
        /\ drill'.fired = {} /\ drill'.red = FALSE
        /\ drill'.sound = ok /\ drill'.meddled = busy
     BY <1>2, <1>3 DEF NoDrill
  <1>5. job.todo = {}
     BY <1>4 DEF Alone, busy
  <1>6. /\ Held' = Held
        /\ UNCHANGED <<data, board, disk, pod, volume, wiring, deployment, job, rule>>
     BY <1>2 DEF gateway, deployment, Held
  <1>7. ok => AsPredicted' /\ Held \subseteq Drilled
     BY <1>1, <1>4, <1>6, Frozen DEF ok, AsPredicted
  <1>8. n' = 1 /\ N \in Nat /\ N >= 1
     BY <1>4, DrillsAre DEF n
  <1>9. CASE name = "fire"
    <2>1. FireKnows'
       BY <1>2, <1>4, <1>5, <1>6, <1>8 DEF FireKnows
    <2>2. FireSound'
       BY <1>4, <1>6, <1>7, <1>8 DEF FireSound
    <2> QED BY <1>4, <1>9, <2>1, <2>2 DEF DrillKnows, PersistenceKnows, PersistenceSound, In
  <1>10. CASE name = "persistence"
    <2>1. PersistenceKnows'
       BY <1>2, <1>4, <1>5, <1>6, <1>8 DEF PersistenceKnows
    <2>2. PersistenceSound'
       BY <1>4, <1>6, <1>7, <1>8 DEF PersistenceSound
    <2> QED BY <1>4, <1>10, <2>1, <2>2 DEF DrillKnows, FireKnows, FireSound, In
  <1> QED BY <1>9, <1>10

\* Whoever acts on the side is noticed, waits for the drill, or changes nothing
\* the drill has looked at.
LEMMA OthersKnow ==
    ASSUME DInv, \/ \E ms \in (SUBSET Months) \ {{}} : JobStart(ms)
                 \/ \E m \in Months : JobStep(m) \/ Ingest(m)
                 \/ Crash \/ Age \/ KillDrill \/ CloseDrill
    PROVE  DrillKnows'
  <1> SUFFICES ASSUME Alone' PROVE FALSE
     BY NotAlone
  <1>1. Typed /\ drill \in Drills /\ drill.name \in {"none", "fire", "persistence"}
     BY DEF DInv, Typed, Drills
  <1>2. drill.step # 0 => drill.name # "none"
     BY <1>1 DEF Typed
  <1>3. Alone => job.todo = {}
     BY <1>1, <1>2 DEF DInv, DrillKnows, FireKnows, PersistenceKnows, In, Alone
  <1>4. ASSUME Meddle \/ MeddleAndCut PROVE FALSE
    <2> DEFINE busy == drill.step # 0
    <2>1. busy \in BOOLEAN
       OBVIOUS
    <2> HIDE DEF busy
    <2>2. CASE drill' = [drill EXCEPT !.meddled = busy]
      <3>1. drill'.step = drill.step /\ drill'.meddled = busy
         BY <1>1, <2>1, <2>2 DEF Drills
      <3> QED BY <3>1 DEF Alone, busy
    <2>3. CASE drill' = [drill EXCEPT !.meddled = busy, !.wire = FALSE]
      <3>1. drill'.step = drill.step /\ drill'.meddled = busy
         BY <1>1, <2>1, <2>3 DEF Drills
      <3> QED BY <3>1 DEF Alone, busy
    <2> QED BY <1>4, <2>2, <2>3 DEF Meddle, MeddleAndCut, busy
  <1>5. CASE \E m \in Months : JobStep(m)
    <2>1. drill' = drill /\ job.todo # {}
       BY <1>5 DEF JobStep
    <2> QED BY <1>3, <2>1 DEF Alone
  <1>6. CASE Age
     BY <1>6 DEF Age, Alone
  <1>7. CASE KillDrill \/ CloseDrill
     BY <1>7 DEF KillDrill, CloseDrill, NoDrill, Alone
  <1>8. CASE (\E ms \in (SUBSET Months) \ {{}} : JobStart(ms)) \/ (\E m \in Months : Ingest(m)) \/ Crash
     BY <1>4, <1>8 DEF JobStart, Ingest, Crash
  <1> QED BY <1>5, <1>6, <1>7, <1>8

\* The file is written while the pod is up, and read when it comes back.
LEMMA GatewayKnows ==
    ASSUME DInv, Checkpoint \/ Restart \/ UNCHANGED vars
    PROVE  DrillKnows'
  <1>1. /\ Typed /\ N \in Nat /\ N >= 1 /\ drill.name \in {"none", "fire", "persistence"}
        /\ FireKnows /\ FireSound /\ PersistenceKnows /\ PersistenceSound
     BY DrillsAre DEF DInv, DrillKnows, Typed, Drills
  <1>2. UNCHANGED <<data, volume, wiring, drill, rule>> /\ job'.todo = job.todo
     BY DEF Checkpoint, Restart, vars, deployment
  <1>3. /\ n' = n /\ \A m : Group(m)' = Group(m)
        /\ (Quiet' <=> Quiet) /\ (OnlyCollapse' <=> OnlyCollapse)
        /\ (AsPredicted' <=> AsPredicted)
     BY <1>2, Frozen DEF n, Quiet, OnlyCollapse, AsPredicted
  <1>4. (In("fire")' <=> In("fire")) /\ (In("persistence")' <=> In("persistence"))
     BY <1>2 DEF In, Alone
  <1>5. CASE pod' = pod /\ board' = board /\ (pod = "up" \/ disk' = disk)
    <2>1. Held' = Held
       BY <1>5 DEF Held
    <2>2. FireKnows'
       BY <1>1, <1>2, <1>3, <1>4, <1>5 DEF FireKnows
    <2>3. FireSound'
       BY <1>1, <1>2, <1>3, <1>4, <2>1 DEF FireSound
    <2>4. PersistenceKnows'
       BY <1>1, <1>2, <1>3, <1>4, <1>5 DEF PersistenceKnows
    <2>5. PersistenceSound'
       BY <1>1, <1>2, <1>3, <1>4, <1>5, <2>1 DEF PersistenceSound
    <2> QED BY <2>2, <2>3, <2>4, <2>5 DEF DrillKnows
  <1>6. CASE Restart
    <2> SUFFICES ASSUME Alone' PROVE DrillKnows'
       BY NotAlone
    <2>1. /\ pod = "down" /\ pod' = "up" /\ disk' = disk
          /\ board' = IF volume = "written" THEN disk ELSE Empty
       BY <1>6 DEF Restart
    <2>2. In("persistence") /\ n = N + 5
       BY <1>1, <1>2, <2>1 DEF In, Alone, FireKnows, PersistenceKnows, Typed
    <2>3. PersistenceKnows'
       BY <1>1, <1>2, <1>3, <1>4, <2>1, <2>2 DEF PersistenceKnows
    <2>4. PersistenceSound'
      <3> SUFFICES ASSUME drill.sound PROVE PersistenceSound'
         BY <1>2 DEF PersistenceSound
      <3>1. /\ AsPredicted /\ drill.before = Cardinality(Drilled)
            /\ {m \in Months : disk[m] # NoGroup} = Drilled
         BY <1>1, <2>1, <2>2 DEF PersistenceSound
      <3>2. Held' = Drilled
         BY <2>1, <3>1 DEF Held, AsPredicted
      <3> QED BY <1>1, <1>2, <1>3, <2>1, <2>2, <3>1, <3>2 DEF PersistenceSound
    <2> QED BY <1>2, <2>2, <2>3, <2>4 DEF DrillKnows, FireKnows, FireSound, In
  <1>7. Checkpoint \/ UNCHANGED vars => pod' = pod /\ board' = board /\ (pod = "up" \/ disk' = disk)
     BY DEF Checkpoint, vars, gateway
  <1> QED BY <1>5, <1>6, <1>7


\* What the board makes the rules hold.
LEMMA Showing ==
    ASSUME Typed
    PROVE  /\ \A m \in Months : m \notin Held => \A a \in Alerts : ~Holds(<<a, m>>)
           /\ \A m \in Months : board[m] = Group(m) =>
                 /\ Holds(<<"volume", m>>) <=> Low(m)
                 /\ Holds(<<"shape", m>>) <=> Shifted(m) >= 2
                 /\ ~Holds(<<"stale", m>>)
           /\ Holds(Loss) <=> Held = {}
  <1>1. /\ \A m : Holds(<<"volume", m>>) <=> board[m].low
        /\ \A m : Holds(<<"shape", m>>) <=> board[m].moved >= 2
        /\ \A m : Holds(<<"stale", m>>) <=> board[m].stamp = "old"
        /\ Holds(Loss) <=> board = Empty
     BY DEF Holds, Loss
  <1>2. ASSUME NEW m \in Months, m \notin Held PROVE \A a \in Alerts : ~Holds(<<a, m>>)
    <2>1. board[m].low = FALSE /\ board[m].moved = 0 /\ board[m].stamp = "none"
       BY <1>2 DEF Held, NoGroup
    <2> QED BY <1>1, <2>1 DEF Alerts
  <1>3. ASSUME NEW m \in Months, board[m] = Group(m)
        PROVE  /\ Holds(<<"volume", m>>) <=> Low(m)
               /\ Holds(<<"shape", m>>) <=> Shifted(m) >= 2
               /\ ~Holds(<<"stale", m>>)
     BY <1>1, <1>3 DEF Group
  <1>4. board = Empty <=> Held = {}
    <2>1. DOMAIN board = Months /\ board = [m \in Months |-> board[m]]
       BY DEF Typed
    <2>2. Held = {} => board = Empty
       BY <2>1 DEF Held, Empty
    <2>3. board = Empty => Held = {}
       BY DEF Held, Empty
    <2> QED BY <2>2, <2>3
  <1> QED BY <1>1, <1>2, <1>3, <1>4

\* What an evaluation leaves of the rules.
LEMMA Evaluation ==
    ASSUME Typed, Tick
    PROVE  /\ \A s \in Series : ~Holds(s) => rule'[s] = 0
           /\ \A s \in Series : Holds(s) /\ "rules" \in wiring =>
                 rule'[s] = Least(rule[s] + 1, Sustain(s) + 1)
           /\ \A m \in Months : m \notin Held => \A a \in Alerts : rule'[<<a, m>>] = 0
           /\ Held # {} => rule'[Loss] = 0
  <1>1. \A s \in Series : ~Holds(s) => rule'[s] = 0
     BY Evaluated
  <1>2. \A s \in Series : Holds(s) /\ "rules" \in wiring =>
                 rule'[s] = Least(rule[s] + 1, Sustain(s) + 1)
     BY Evaluated
  <1>3. \A a \in Alerts, m \in Months : <<a, m>> \in Series
     BY NamedAre
  <1>4. Loss \in Series
     BY NamedAre
  <1> QED BY <1>1, <1>2, <1>3, <1>4, Showing

\* A scrape while a drill nobody disturbs waits.
LEMMA TickFacts ==
    ASSUME DInv, Tick, Alone'
    PROVE  /\ Typed /\ Running /\ In(drill.name) /\ N \in Nat /\ N >= 1
           /\ Step.op \in Waiting /\ ~Reached
           /\ UNCHANGED <<data, board, disk, pod, volume, wiring, deployment, job>>
           /\ Held' = Held /\ n' = n /\ pod = "up" /\ drill.waited \in Nat
           /\ drill'.name = drill.name /\ drill'.step = drill.step
           /\ drill'.waited = drill.waited + 1
           /\ drill'.red = drill.red /\ drill'.sound = drill.sound
           /\ drill'.meddled = drill.meddled /\ drill'.wire = drill.wire
           /\ drill'.before = drill.before
           /\ drill'.fired = IF At("observe") THEN drill.fired \cup FiringNow' ELSE drill.fired
  <1>1. Typed /\ drill \in Drills /\ N \in Nat /\ N >= 1
     BY DrillsAre DEF DInv, Typed
  <1>2. Running
    <2> SUFFICES ASSUME ~Running PROVE FALSE
       OBVIOUS
    <2>1. drill' = drill /\ ~Finished
       BY DEF Tick
    <2>2. drill.step # 0 /\ drill.name # "none"
       BY <1>1, <2>1 DEF Alone, Typed
    <2>3. drill.step <= Len(Script) + 1 /\ drill.step # Len(Script) + 1 /\ drill.step \in Nat
       BY <1>1, <2>1, <2>2 DEF Typed, Finished, Drills
    <2>4. Len(Script) \in Nat
       BY <1>1, <2>2, AtFire, AtPersistence DEF Drills
    <2> QED BY <2>2, <2>3, <2>4 DEF Running
  <1>3. /\ Step.op \in Waiting /\ ~Reached /\ pod = "up"
        /\ drill' = [drill EXCEPT !.waited = @ + 1,
                       !.fired = IF Step.op = "observe" THEN @ \cup FiringNow' ELSE @]
     BY <1>2 DEF Tick
  <1> DEFINE f == IF Step.op = "observe" THEN drill.fired \cup FiringNow' ELSE drill.fired
             w == drill.waited + 1
  <1>4. drill' = [drill EXCEPT !.waited = w, !.fired = f]
     BY <1>3
  <1>5. f = IF At("observe") THEN drill.fired \cup FiringNow' ELSE drill.fired
     BY <1>2 DEF At
  <1>6. w = drill.waited + 1
     OBVIOUS
  <1> HIDE DEF f, w
  <1>7. /\ drill'.name = drill.name /\ drill'.step = drill.step
        /\ drill'.waited = w /\ drill'.fired = f /\ drill'.before = drill.before
     BY <1>1, <1>4 DEF Drills
  <1>8. /\ drill'.red = drill.red /\ drill'.sound = drill.sound
        /\ drill'.meddled = drill.meddled /\ drill'.wire = drill.wire
     BY <1>1, <1>4 DEF Drills
  <1>9. In(drill.name)
     BY <1>7, <1>8 DEF In, Alone
  <1>10. UNCHANGED <<data, board, disk, pod, volume, wiring, deployment, job>> /\ Held' = Held
     BY DEF Tick, gateway, deployment, Held
  <1>11. drill.waited \in Nat /\ n' = n
     BY <1>1, <1>7 DEF Drills, n
  <1> QED BY <1>1, <1>2, <1>3, <1>5, <1>6, <1>7, <1>8, <1>9, <1>10, <1>11

\* Scrapes while the fire drill waits: only the predicted month fires.
LEMMA TickFire ==
    ASSUME DInv, Tick, Alone', drill.name = "fire"
    PROVE  FireKnows' /\ FireSound'
  <1>1. /\ Typed /\ Running /\ In("fire") /\ N \in Nat /\ N >= 1 /\ Step.op \in Waiting
        /\ UNCHANGED <<data, board, disk, pod, volume, wiring, deployment, job>>
        /\ Held' = Held /\ n' = n /\ drill.waited \in Nat
        /\ drill'.name = "fire" /\ drill'.waited = drill.waited + 1
        /\ drill'.red = drill.red /\ drill'.sound = drill.sound
        /\ drill'.wire = drill.wire
        /\ drill'.fired = IF At("observe") THEN drill.fired \cup FiringNow' ELSE drill.fired
     BY TickFacts
  <1>2. FireKnows /\ FireSound
     BY DEF DInv, DrillKnows
  <1>3. \A m : Group(m)' = Group(m)
     BY <1>1, Frozen
  <1>4. FireKnows'
     BY <1>1, <1>2, <1>3 DEF FireKnows
  <1>5. SUFFICES ASSUME drill.sound PROVE FireSound'
     BY <1>1, <1>4 DEF FireSound
  <1>6. AsPredicted /\ AsPredicted'
     BY <1>1, <1>2, <1>5, StillAsPredicted DEF FireSound, AsPredicted
  <1>7. /\ \A m \in Months : m \notin Held => \A a \in Alerts : rule'[<<a, m>>] = 0
        /\ \A s \in Series : ~Holds(s) => rule'[s] = 0
        /\ \A s \in Series : Holds(s) /\ "rules" \in wiring =>
                 rule'[s] = Least(rule[s] + 1, Sustain(s) + 1)
     BY <1>1, Evaluation
  <1>8. ASSUME At("settle") PROVE FireSound'
    <2>1. n = N + 1
       BY <1>1, <1>8, Where DEF Within
    <2>2. /\ Held \subseteq Drilled /\ drill.fired = {}
          /\ \A i \in 1..N : i < n => DrillMonths[i] \notin Held
       BY <1>1, <1>2, <1>5, <2>1 DEF FireSound
    <2>3. Held = {}
       BY <1>1, <2>1, <2>2, DrillsAre
    <2>4. Quiet'
       BY <1>7, <2>3 DEF Quiet
    <2>5. drill'.fired = {}
       BY <1>1, <2>1, <2>2, Where DEF Within
    <2> QED BY <1>1, <1>6, <2>1, <2>2, <2>3, <2>4, <2>5 DEF FireSound
  <1>9. ASSUME At("observe") PROVE FireSound'
    <2>1. n = 2*N + 4
       BY <1>1, <1>9, Where DEF Within
    <2>2. /\ Held = Begun(n - N - 3) /\ OnlyCollapse
          /\ \A s \in drill.fired : s[1] \in Alerts => s = Collapse
          /\ rule[Collapse] = Least(drill.waited, 2)
      <3>1. n \in N + 2..2*N + 6 /\ n \in {2*N + 4, 2*N + 5}
         BY <1>1, <2>1
      <3> QED BY <1>1, <1>2, <1>5, <2>1, <3>1 DEF FireSound
    <2>3. Held = Drilled
      <3>1. n - N - 3 = N + 1 /\ Begun(N + 1) = Drilled
         BY <1>1, <2>1, BegunIs
      <3> QED BY <2>2, <3>1
    <2>4. \A m \in Drilled : board[m] = Group(m)
      <3>1. \A i \in 1..N : board[DrillMonths[i]] = Group(DrillMonths[i])
         BY <1>1, <1>2, <2>1 DEF FireKnows
      <3> QED BY <3>1, DrillsAre
    <2>5. OnlyCollapse'
      <3> SUFFICES ASSUME NEW a \in Alerts, NEW m \in Months, <<a, m>> # Collapse
                   PROVE  rule'[<<a, m>>] = 0
         BY DEF OnlyCollapse, Collapse
      <3>1. CASE m \notin Held
         BY <1>7, <3>1
      <3>2. CASE m \in Drilled
        <4>1. /\ Low(m) <=> m = Fires
              /\ ~(Shifted(m) >= 2)
          <5>1. Shifted(m) \in Nat /\ Shifted(m) < 2
             BY <1>6, <3>2, GroupTyped DEF AsPredicted, Group, Groups
          <5>2. Low(m) <=> m = Fires
             BY <1>6, <3>2, DrillsAre DEF AsPredicted
          <5> QED BY <5>1, <5>2
        <4>2. /\ Holds(<<"volume", m>>) <=> Low(m)
              /\ Holds(<<"shape", m>>) <=> Shifted(m) >= 2
              /\ ~Holds(<<"stale", m>>)
           BY <1>1, <2>4, <3>2, Showing
        <4>3. ~Holds(<<a, m>>)
           BY <4>1, <4>2 DEF Collapse, Alerts
        <4> QED BY <1>7, <4>3, NamedAre
      <3> QED BY <2>3, <3>1, <3>2
    <2>6. rule'[Collapse] = Least(drill.waited + 1, 2)
      <3>1. Collapse \in Series /\ Sustain(Collapse) = 1 /\ Fires \in Months
         BY NamedAre, DrillsAre DEF Collapse, Sustain, Alerts
      <3>2. Holds(Collapse) /\ "rules" \in wiring
        <4>1. Low(Fires) /\ board[Fires] = Group(Fires)
           BY <1>6, <2>4, DrillsAre DEF AsPredicted
        <4> QED BY <1>1, <1>6, <3>1, <4>1, Showing DEF Collapse, AsPredicted
      <3>3. rule'[Collapse] = Least(Least(drill.waited, 2) + 1, 2)
         BY <1>7, <2>2, <3>1, <3>2
      <3> QED BY <1>1, <3>3 DEF Least
    <2>7. \A s \in drill'.fired : s[1] \in Alerts => s = Collapse
      <3> SUFFICES ASSUME NEW s \in FiringNow', s[1] \in Alerts PROVE s = Collapse
         BY <1>1, <1>9, <2>2
      <3>1. s \in Series /\ rule'[s] > Sustain(s) /\ Sustain(s) \in Nat
         BY DEF FiringNow, Firing, Sustain
      <3>2. PICK m \in Months : s = <<s[1], m>>
         BY <3>1, NamedAre
      <3>3. rule'[s] # 0
         BY <3>1
      <3> QED BY <2>5, <3>2, <3>3 DEF OnlyCollapse, Collapse
    <2>8. drill.waited + 1 >= 2 => Collapse \in drill'.fired
      <3>1. Collapse \in Series /\ Sustain(Collapse) = 1
         BY NamedAre, DrillsAre DEF Collapse, Sustain, Alerts
      <3>2. drill.waited + 1 >= 2 => rule'[Collapse] = 2
         BY <1>1, <2>6 DEF Least
      <3>3. drill.waited + 1 >= 2 => Collapse \in FiringNow'
         BY <3>1, <3>2 DEF FiringNow, Firing, Collapse
      <3> QED BY <1>1, <1>9, <3>3
    <2>9. Held' = Begun(n' - N - 3)
       BY <1>1, <2>2
    <2> QED BY <1>1, <1>6, <2>1, <2>5, <2>6, <2>7, <2>8, <2>9 DEF FireSound, Collapse
  <1>10. ASSUME At("cleared") PROVE FireSound'
    <2>1. n = 2*N + 7
       BY <1>1, <1>10, Where DEF Within
    <2>2. Held \subseteq Drilled \ Predicted
       BY <1>1, <1>2, <1>5, <2>1 DEF FireSound
    <2>3. ASSUME NEW m \in Months PROVE rule'[<<"volume", m>>] = 0
      <3>1. CASE m \notin Held
         BY <1>7, <3>1 DEF Alerts
      <3>2. CASE m \in Held
        <4>1. PICK i \in 1..N : m = DrillMonths[i]
           BY <2>2, <3>2, DrillsAre
        <4>2. board[m] = Group(m)
          <5>1. N + 2 + i < n /\ DrillMonths[i] \notin Predicted
             BY <1>1, <2>1, <2>2, <3>2, <4>1
          <5> QED BY <1>1, <1>2, <4>1, <5>1 DEF FireKnows
        <4>3. ~Low(m)
           BY <1>6, <2>2, <3>2 DEF AsPredicted
        <4>4. ~Holds(<<"volume", m>>)
           BY <1>1, <4>2, <4>3, Showing
        <4> QED BY <1>7, <4>4, NamedAre DEF Alerts
      <3> QED BY <3>1, <3>2
    <2> QED BY <1>1, <1>6, <2>1, <2>2, <2>3 DEF FireSound
  <1>11. At("settle") \/ At("observe") \/ At("cleared")
    <2>1. \E w \in Waiting : At(w)
       BY <1>1 DEF At
    <2> QED BY <1>1, <2>1, Where DEF Waiting, Within
  <1> QED BY <1>8, <1>9, <1>10, <1>11


\* Scrapes while the persistence drill waits.
LEMMA TickPersistence ==
    ASSUME DInv, Tick, Alone', drill.name = "persistence"
    PROVE  PersistenceKnows' /\ PersistenceSound'
  <1>1. /\ Typed /\ Running /\ In("persistence") /\ N \in Nat /\ N >= 1
        /\ Step.op \in Waiting /\ ~Reached
        /\ UNCHANGED <<data, board, disk, pod, volume, wiring, deployment, job>>
        /\ Held' = Held /\ n' = n /\ pod = "up" /\ drill.waited \in Nat
        /\ drill'.name = "persistence" /\ drill'.waited = drill.waited + 1
        /\ drill'.red = drill.red /\ drill'.sound = drill.sound
        /\ drill'.wire = drill.wire /\ drill'.before = drill.before
     BY TickFacts
  <1>2. PersistenceKnows /\ PersistenceSound
     BY DEF DInv, DrillKnows
  <1>3. \A m : Group(m)' = Group(m)
     BY <1>1, Frozen
  <1>4. PersistenceKnows'
     BY <1>1, <1>2, <1>3 DEF PersistenceKnows
  <1>5. SUFFICES ASSUME drill.sound PROVE PersistenceSound'
     BY <1>1, <1>4 DEF PersistenceSound
  <1>6. AsPredicted /\ AsPredicted'
     BY <1>1, <1>2, <1>5, StillAsPredicted DEF PersistenceSound, AsPredicted
  <1>7. /\ \A m \in Months : m \notin Held => \A a \in Alerts : rule'[<<a, m>>] = 0
        /\ \A s \in Series : Holds(s) /\ "rules" \in wiring =>
                 rule'[s] = Least(rule[s] + 1, Sustain(s) + 1)
        /\ Held # {} => rule'[Loss] = 0
     BY <1>1, Evaluation
  <1>8. ASSUME At("settled") PROVE PersistenceSound'
    <2>1. CASE n = N + 7
      <3>1. Held = Drilled /\ drill.before = Cardinality(Drilled)
         BY <1>1, <1>2, <1>5, <2>1 DEF PersistenceSound
      <3>2. rule'[Loss] = 0
         BY <1>1, <1>7, <3>1, DrillsAre
      <3> QED BY <1>1, <1>6, <2>1, <3>1, <3>2 DEF PersistenceSound
    <2>2. CASE n = 3*N + 12
      <3>1. Held = Begun(n - 2*N - 11) /\ drill.before = Cardinality(Drilled)
         BY <1>1, <1>2, <1>5, <2>2 DEF PersistenceSound
      <3>2. n - 2*N - 11 = N + 1 /\ Begun(N + 1) = Drilled
         BY <1>1, <2>2, BegunIs
      <3>3. rule'[Loss] = 0
         BY <1>1, <1>7, <3>1, <3>2, DrillsAre
      <3>4. Held' = Begun(n' - 2*N - 11)
         BY <1>1, <3>1
      <3> QED BY <1>1, <1>6, <2>2, <3>1, <3>3, <3>4 DEF PersistenceSound
    <2> QED BY <1>1, <1>8, <2>1, <2>2, Where DEF Within
  <1>9. ASSUME At("absent") PROVE PersistenceSound'
    <2>1. n = 2*N + 9
       BY <1>1, <1>9, Where DEF Within
    <2>2. /\ Held = {} /\ rule[Loss] = Least(drill.waited, 3)
          /\ drill.before = Cardinality(Drilled)
       BY <1>1, <1>2, <1>5, <2>1 DEF PersistenceSound
    <2>3. Quiet'
       BY <1>7, <2>2 DEF Quiet
    <2>4. rule'[Loss] = Least(drill.waited + 1, 3)
      <3>1. Loss[1] = "absent"
         BY DEF Loss
      <3>2. Sustain(Loss) = 2
         BY <3>1 DEF Sustain
      <3>3. Holds(Loss) /\ "rules" \in wiring
         BY <1>1, <1>6, <2>2, Showing DEF AsPredicted
      <3>4. rule'[Loss] = Least(Least(drill.waited, 3) + 1, 3)
         BY <1>7, <2>2, <3>2, <3>3, NamedAre
      <3> QED BY <1>1, <3>4 DEF Least
    <2> QED BY <1>1, <1>6, <2>1, <2>2, <2>3, <2>4 DEF PersistenceSound
  <1>10. ASSUME At("returns") PROVE PersistenceSound'
    <2>1. n = 3*N + 13
       BY <1>1, <1>10, Where DEF Within
    <2>2. Held = Begun(n - 2*N - 11) /\ drill.before = Cardinality(Drilled)
       BY <1>1, <1>2, <1>5, <2>1 DEF PersistenceSound
    <2>3. board[Fires] = Group(Fires)
      <3>1. PICK i \in 1..N : Fires = DrillMonths[i]
         BY DrillsAre
      <3> QED BY <1>1, <1>2, <2>1, <3>1 DEF PersistenceKnows
    <2>4. rule'[Collapse] > 0
      <3>1. Collapse \in Series /\ Sustain(Collapse) = 1 /\ Fires \in Months
         BY NamedAre, DrillsAre DEF Collapse, Sustain, Alerts
      <3>2. Low(Fires)
         BY <1>6, DrillsAre DEF AsPredicted
      <3>3. Holds(Collapse) /\ "rules" \in wiring
         BY <1>1, <1>6, <2>3, <3>1, <3>2, Showing DEF Collapse, AsPredicted
      <3>4. rule'[Collapse] = Least(rule[Collapse] + 1, 2) /\ rule[Collapse] \in Nat
         BY <1>1, <1>7, <3>1, <3>3 DEF Typed
      <3> QED BY <3>4 DEF Least
    <2>5. Held' = Begun(n' - 2*N - 11)
       BY <1>1, <2>2
    <2> QED BY <1>1, <1>6, <2>1, <2>2, <2>4, <2>5 DEF PersistenceSound, Collapse
  <1>11. At("settled") \/ At("absent") \/ At("returns")
    <2>1. \E w \in Waiting : At(w)
       BY <1>1 DEF At
    <2>2. ~At("newpod")
       BY <1>1 DEF At, Reached
    <2> QED BY <1>1, <2>1, <2>2, Where DEF Waiting, Within
  <1> QED BY <1>8, <1>9, <1>10, <1>11

\* A scrape keeps what is known.
LEMMA TickKnows == ASSUME DInv, Tick PROVE DrillKnows'
  <1> SUFFICES ASSUME Alone' PROVE DrillKnows'
     BY NotAlone
  <1>1. drill'.name = drill.name /\ drill.name \in {"fire", "persistence"}
    <2>1. Typed /\ Running
       BY TickFacts
    <2> QED BY <2>1, TickFacts, GoesOn DEF Typed, Drills
  <1>2. CASE drill.name = "fire"
     BY <1>1, <1>2, TickFire DEF DrillKnows, PersistenceKnows, PersistenceSound, In
  <1>3. CASE drill.name = "persistence"
     BY <1>1, <1>3, TickPersistence DEF DrillKnows, FireKnows, FireSound, In
  <1> QED BY <1>1, <1>2, <1>3

\* Every step keeps the invariant.
LEMMA DriftStep == ASSUME DInv, [Next]_vars PROVE DInv'
  <1>1. Typed'
     BY TypedStep DEF DInv
  <1>2. ASSUME AskGateway PROVE DrillKnows'
     BY <1>2, CountKnows, RecountKnows, EmptiedKnows DEF AskGateway
  <1>3. ASSUME Drilling PROVE DrillKnows'
     BY <1>2, <1>3, ResetKnows, PushKnows, DeleteKnows, TerminateKnows, LookKnows, JudgeKnows,
        WaitKnows, OthersKnow DEF Drilling
  <1>4. ASSUME Next PROVE DrillKnows'
     BY <1>3, <1>4, OthersKnow, GatewayKnows, StartKnows, TickKnows DEF Next
  <1>5. DrillKnows'
     BY <1>4, GatewayKnows
  <1> QED BY <1>1, <1>5 DEF DInv

\* What the two drills say of the platform is true of it.
LEMMA DInvIsSound == DInv => DrillIsSound
  <1> SUFFICES ASSUME DInv PROVE DrillIsSound
     OBVIOUS
  <1>1. Typed /\ FireKnows /\ PersistenceKnows /\ FireSound /\ PersistenceSound
     BY DEF DInv, DrillKnows
  <1>2. N \in Nat /\ N >= 1 /\ Drilled = {DrillMonths[i] : i \in 1..N}
     BY DrillsAre
  <1>3. TypeOK
    <2>1. drill \in Drills
       BY <1>1 DEF Typed
    <2>2. /\ drill.name \in {"none", "fire", "persistence"} /\ drill.step \in Nat
          /\ drill.fired \subseteq Series /\ drill.owes \subseteq Months
       BY <2>1 DEF Drills
    <2>3. Len(Script) \in Nat
      <3>1. CASE drill.name = "none"
         BY <3>1 DEF Script
      <3> QED BY <1>1, <2>2, <3>1, AtFire, AtPersistence
    <2>4. drill.step \in 0..Len(Script) + 1
       BY <1>1, <2>2, <2>3 DEF Typed
    <2>5. \A s \in Series : rule[s] \in 0..Sustain(s) + 1
      <3> TAKE s \in Series
      <3>1. rule[s] \in Nat /\ rule[s] <= Sustain(s) + 1 /\ Sustain(s) \in Nat
         BY <1>1 DEF Typed, Sustain
      <3> QED BY <3>1
    <2>6. job.todo \subseteq Months /\ job.wire \in BOOLEAN
       BY <1>1 DEF Typed
    <2> QED BY <1>1, <2>2, <2>4, <2>5, <2>6 DEF Typed, TypeOK
  <1>4. VerdictIsEarned
    <2> SUFFICES ASSUME Finished, ~drill.meddled
                 PROVE  /\ Passed => /\ wiring = {"rules", "alertmanager"}
                                     /\ \A m \in Range(DrillMonths) : board[m] = Group(m)
                                     /\ drill.name = "persistence" => volume = "written"
                        /\ drill.red => ~drill.sound
       BY DEF VerdictIsEarned
    <2>1. drill.name \in {"fire", "persistence"}
       BY <1>1 DEF Finished, Typed, Drills
    <2>2. n # 0 /\ n = Len(Script) + 1
       BY <1>1, <2>1 DEF Finished, Typed, n
    <2>3. CASE drill.name = "fire"
      <3>1. Len(Script) = 2*N + 8
         BY <2>3, FireScriptIs DEF Script, Is
      <3>2. In("fire") /\ n = 2*N + 9
         BY <1>2, <2>2, <2>3, <3>1 DEF In, Alone, n
      <3>3. \A i \in 1..N : board[DrillMonths[i]] = Group(DrillMonths[i])
         BY <1>1, <1>2, <3>2 DEF FireKnows
      <3>4. ~drill.red => wiring = {"rules", "alertmanager"}
         BY <1>1, <1>2, <3>2 DEF FireKnows
      <3>5. drill.red => ~drill.sound
         BY <1>1, <3>2 DEF FireSound, AsPredicted
      <3> QED BY <1>2, <2>3, <3>3, <3>4, <3>5 DEF Passed, Drilled
    <2>4. CASE drill.name = "persistence"
      <3>1. Len(Script) = 3*N + 13
         BY <2>4, PersistenceScriptIs DEF Script, Is
      <3>2. In("persistence") /\ n = 3*N + 14
         BY <1>2, <2>2, <2>4, <3>1 DEF In, Alone, n
      <3>3. \A i \in 1..N : board[DrillMonths[i]] = Group(DrillMonths[i])
         BY <1>1, <1>2, <3>2 DEF PersistenceKnows
      <3>4. ~drill.red => wiring = {"rules", "alertmanager"} /\ volume = "written"
         BY <1>1, <1>2, <3>2 DEF PersistenceKnows
      <3>5. drill.red => ~drill.sound
         BY <1>1, <3>2 DEF PersistenceSound, AsPredicted
      <3> QED BY <1>2, <3>3, <3>4, <3>5 DEF Passed, Drilled
    <2> QED BY <2>1, <2>3, <2>4
  <1> QED BY <1>3, <1>4 DEF DrillIsSound

-----------------------------------------------------------------------------
\* The verdict of a drill that nobody disturbed is earned: one that passed shows
\* rules that are loaded and delivered, a board that holds every month of the drill
\* with its own numbers and, for the persistence drill, a file that really is on the
\* volume; and none is red on a platform that is as predicted.
THEOREM DriftDrillsAreSound == Spec => []DrillIsSound
  <1>1. Init => DInv
     BY InitDrift
  <1>2. DInv /\ [Next]_vars => DInv'
     BY DriftStep
  <1>3. DInv => DrillIsSound
     BY DInvIsSound
  <1> QED BY <1>1, <1>2, <1>3, PTL DEF Spec
=============================================================================
