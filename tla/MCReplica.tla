------------------------------- MODULE MCReplica -------------------------------
(***************************************************************************)
(* Instances of Replica for TLC.                                           *)
(***************************************************************************)
EXTENDS Replica

CONSTANTS r1, r2

\* An old replica and a new one, as in a rolling update.
OldAndNew == [r \in Replicas |-> IF r = r1 THEN 1 ELSE 2]

=============================================================================
