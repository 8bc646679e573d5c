------------------------------ MODULE MCSignal ------------------------------
(* Signal for TLC: an ordinary and a single-shot connection to the same slot. *)
EXTENDS Signal, TLC

CONSTANTS plain, shot

SameSlotPairs == {<<plain, shot>>, <<shot, plain>>} \cap (Conns \X Conns)
Symmetry == Permutations(Emissions)

=============================================================================
