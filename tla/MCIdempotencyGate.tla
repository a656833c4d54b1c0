--------------------------- MODULE MCIdempotencyGate ---------------------------
(***************************************************************************)
(* Instances of IdempotencyGate for TLC.                                   *)
(***************************************************************************)
EXTENDS IdempotencyGate, TLC

Symmetry == Permutations(Requests) \cup Permutations(Fingerprints)

=============================================================================
