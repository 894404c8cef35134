--------------------------- MODULE MCSlotLifecycle ---------------------------
(* Small instances of SlotLifecycle for TLC. *)
EXTENDS SlotLifecycle, TLC

Symmetry == Permutations(Threads) \cup Permutations(Sessions) \cup Permutations(Slots)
=============================================================================
