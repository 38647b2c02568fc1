---------------------------- MODULE AtomicPublish ----------------------------
(***************************************************************************)
(* What a full refresh promises (scripts/marts_publish.py: "A reader       *)
(* either sees the old table or the new one"), without staging tables,     *)
(* streams, kills and retries: the table is at every moment the data as it *)
(* was at ONE moment, and a publish replaces it, in one step, by the data  *)
(* as the build of that publish found it.                                  *)
(***************************************************************************)
EXTENDS Naturals

CONSTANTS
    Months,
    Generations     \* numbers, the later ones greater

VARIABLES
    source,     \* the generation of each month
    taken,      \* the data as the last build found it
    board       \* what a reader sees: no table yet, or {the data it is of}

vars == <<source, taken, board>>

Contents == [Months -> Generations]
Older(old, new) == \A m \in Months : old[m] <= new[m]

Init ==
    /\ source \in Contents
    /\ taken = source
    /\ board \in {{}} \cup {{content} : content \in {c \in Contents : Older(c, source)}}

(* A month is derived again.                                               *)
Derive(m) ==
    /\ source[m] + 1 \in Generations
    /\ source' = [source EXCEPT ![m] = @ + 1]
    /\ UNCHANGED <<taken, board>>

Take == taken' = source /\ UNCHANGED <<source, board>>

Publish == board' = {taken} /\ UNCHANGED <<source, taken>>

Next == (\E m \in Months : Derive(m)) \/ Take \/ Publish

Spec == Init /\ [][Next]_vars
=============================================================================
