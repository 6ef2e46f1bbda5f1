--------------------------- MODULE MCSharedTable ---------------------------
(* Two workers of one device. *)
EXTENDS SharedTable, TLC

CONSTANTS w1, w2

WorkerSymmetry == Permutations(Worker)
=============================================================================
