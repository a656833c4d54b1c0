-------------------------- MODULE DeliveryLifecycle --------------------------
(***************************************************************************)
(* What the notification service promises about a delivery, whatever       *)
(* replicas, clients, providers and the database do: the life every        *)
(* delivery leads.  It is accepted once, tried at most MaxAttempts times,  *)
(* ends sent or dead, takes at most one receipt after it was sent, and is  *)
(* forgotten only from sent or dead.                                       *)
(***************************************************************************)
EXTENDS Naturals

CONSTANTS Ids, MaxAttempts

VARIABLES
    phase,      \* where each delivery is in its life
    tries       \* how often its sending was begun; forgotten with the delivery

Phases == {"absent", "waiting", "trying", "sent", "dead_letter",
           "delivered", "bounced", "failed", "purged"}

lifecycleVars == <<phase, tries>>

Init ==
    /\ phase = [d \in Ids |-> "absent"]
    /\ tries = [d \in Ids |-> 0]

Move(d, from, to) == phase[d] = from /\ phase' = [phase EXCEPT ![d] = to]

Accept(d) == Move(d, "absent", "waiting") /\ UNCHANGED tries

\* A worker claims a batch in one transaction.
Try(S) ==
    /\ \A d \in S : phase[d] = "waiting" /\ tries[d] < MaxAttempts
    /\ phase' = [d \in Ids |-> IF d \in S THEN "trying" ELSE phase[d]]
    /\ tries' = [d \in Ids |-> IF d \in S THEN tries[d] + 1 ELSE tries[d]]

Succeed(d) == Move(d, "trying", "sent") /\ UNCHANGED tries

Retry(d) == tries[d] < MaxAttempts /\ Move(d, "trying", "waiting") /\ UNCHANGED tries

GiveUp(d) == tries[d] >= MaxAttempts /\ Move(d, "trying", "dead_letter") /\ UNCHANGED tries

Acknowledge(d) ==
    /\ \E to \in {"delivered", "bounced", "failed"} : Move(d, "sent", to)
    /\ UNCHANGED tries

Purge(S) ==
    /\ \A d \in S : phase[d] \in {"sent", "dead_letter"}
    /\ phase' = [d \in Ids |-> IF d \in S THEN "purged" ELSE phase[d]]
    /\ tries' = [d \in Ids |-> IF d \in S THEN 0 ELSE tries[d]]

Next ==
    \/ \E d \in Ids : Accept(d) \/ Succeed(d) \/ Retry(d) \/ GiveUp(d) \/ Acknowledge(d)
    \/ \E S \in SUBSET Ids : Try(S) \/ Purge(S)

Spec == Init /\ [][Next]_lifecycleVars

=============================================================================
