------------------------------ MODULE MCRewards ------------------------------
(* Two operators, two codes and a visitor. *)
EXTENDS Rewards

CONSTANTS o1, o2, v1, c1, c2

Pasted == {<<c1>>, <<c2>>, <<c1, c2>>}
=============================================================================
