-------------------------- MODULE MCRequestAdmission --------------------------
(***************************************************************************)
(* Instances of RequestAdmission for TLC.                                  *)
(***************************************************************************)
EXTENDS RequestAdmission, TLC

CONSTANTS t1

\* Every user is of one tenant; requests may name another.
HomeTenant == [u \in Users |-> t1]

BurstValue == [d \in Dimensions |-> 1]

Symmetry == Permutations(Requests) \cup Permutations(Keys)

=============================================================================
