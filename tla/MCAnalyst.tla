----------------------------- MODULE MCAnalyst -----------------------------
(* Small instances of Analyst for TLC.                                     *)
EXTENDS Analyst, TLC

(* The backfilled month has as many rejected rows as the original, under   *)
(* other rules; the thin one is refused; the columns of the last are not   *)
(* the contract's, so its rows do not matter.                              *)
MCRowsOf ==
    [original |-> <<{}, {}, {"short"}, {"short", "far"}>>,
     backfilled |-> <<{}, {}, {}, {"short"}, {"far"}>>,
     thin |-> <<{}, {"far"}, {"far"}, {"short"}>>,
     renamed |-> <<>>]

MCSymmetry == Permutations(Versions)

MCRules == <<"short", "far">>
=============================================================================
