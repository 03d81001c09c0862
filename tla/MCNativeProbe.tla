---------------------------- MODULE MCNativeProbe ----------------------------
(* NativeProbe for TLC.  Inodes are reused as soon as nothing refers to      *)
(* them, so three thread inodes are enough for one unlinked file per actor.  *)
EXTENDS NativeProbe, TLC

Symmetry == Permutations(GuardInodes) \cup Permutations(Parents)
=============================================================================
