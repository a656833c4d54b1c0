--------------------------- MODULE MCOutboundClient ---------------------------
(***************************************************************************)
(* Instances of OutboundClient for TLC.                                    *)
(***************************************************************************)
EXTENDS OutboundClient, TLC

Symmetry == Permutations(Callers)

=============================================================================
