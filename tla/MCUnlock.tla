------------------------------- MODULE MCUnlock -------------------------------
(* Unlock for TLC: process numbers and clients are interchangeable.          *)
EXTENDS Unlock, TLC

Symmetry == Permutations(Pids) \cup Permutations(Clients)
=============================================================================
