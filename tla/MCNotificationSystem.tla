------------------------ MODULE MCNotificationSystem ------------------------
(***************************************************************************)
(* Instances of NotificationSystem for TLC.  Each cfg picks the actors and *)
(* bounds for the question it asks.                                        *)
(***************************************************************************)
EXTENDS NotificationSystem, TLC

\* Deliveries, and the actors of a kind, are interchangeable.
Symmetry ==
    Permutations(Ids) \cup Permutations(Workers) \cup Permutations(Senders)
        \cup Permutations(Reporters) \cup Permutations(Cleaners) \cup Permutations(Keys)

=============================================================================
