---------------------------- MODULE MCRaffleDraw ----------------------------
(* A small instance of RaffleDraw for TLC. *)
EXTENDS RaffleDraw

\* No prize, fewer and as many prizes as members, and a negative number.
Counts == -1..2
=============================================================================
