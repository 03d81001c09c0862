---------------------------- MODULE MCUnlockLease ----------------------------
(* UnlockLease for TLC: two processes, two spellings of one Codex home, one *)
(* thread, and two inodes for each of the directory and the lease file.     *)
EXTENDS UnlockLease, TLC

CONSTANTS a, b, home, alias, d1, d2, f1, f2, thread, none, noone

MCResolves == [h \in {home, alias} |-> home]

Symmetry == Permutations({a, b}) \cup Permutations({d1, d2})
              \cup Permutations({f1, f2})
=============================================================================
