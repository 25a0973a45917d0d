---------------------------- MODULE MCBoundedQueue ----------------------------
(* A small instance of BoundedQueue for TLC: every policy and every capacity *)
(* of MCCapacities is an initial state.                                      *)
EXTENDS BoundedQueue

MCCapacities == {1, 2}
===============================================================================
