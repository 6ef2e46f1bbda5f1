----------------------------- MODULE MCControl -----------------------------
(* Small instances of Control: workers w1..w3, pools p1 to p3, algorithms a1 *)
(* and a2.                                                                  *)
EXTENDS Control, TLC

CONSTANTS w1, w2, w3, p1, p2, p3, a1, a2, none

(* Workers differ in nothing the safety properties can see. *)
WorkerSymmetry == Permutations(Worker)
=============================================================================
