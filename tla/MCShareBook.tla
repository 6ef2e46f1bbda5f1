---------------------------- MODULE MCShareBook ----------------------------
(* Two mining threads, a ring of two entries, three submit ids.             *)
EXTENDS ShareBook, TLC

CONSTANTS w1, w2

(* Mining threads differ in nothing the properties can see. *)
WorkerSymmetry == Permutations(Worker)
=============================================================================
