----------------------------- MODULE MCGameday -----------------------------
(* Two days of the gameday, with two troubles between them. *)
EXTENDS Gameday
=============================================================================
