------------------------------ MODULE OutboxRelay ------------------------------
(***************************************************************************)
(* internal/app/eventbus.go: the event runtime of each replica, which      *)
(* relays the rows of notification_outbox_events to a JetStream stream and *)
(* deletes the published ones.                                             *)
(*                                                                         *)
(* RunOnce of the dispatcher and of the cleaner, the store and the bus are *)
(* libraries, modelled by what the runtime configures: a round leases a    *)
(* batch, publishes each event and marks it; the stream drops a copy it    *)
(* gets within duplicate_window of another.  Times are events: a lease, a  *)
(* window or a retention ends at some point.                               *)
(***************************************************************************)
EXTENDS Naturals, FiniteSets

CONSTANTS
    Replicas,
    Events,             \* rows the transactions of the service insert
    NoEvent,            \* nothing is published and not marked
    BatchSize,          \* event_bus.dispatch_batch_size
    MaxFaults           \* bound: failures, stops, crashes and leases that end too early

ASSUME RelayAssumption ==
    BatchSize \in Nat \ {0} /\ MaxFaults \in Nat /\ NoEvent \notin Events

VARIABLES
    row,                \* per event: its row
    stream,             \* per event: copies the stream has accepted
    remembered,         \* events within duplicate_window of a copy
    running,            \* replicas started and not stopping
    looping,            \* replicas whose loops have not returned
    bus,                \* replicas whose connection is open
    batch,              \* per replica: events of its round that are not dealt with
    sent,               \* per replica: the one that is published and not marked
    faults              \* history

vars == <<row, stream, remembered, running, looping, bus, batch, sent, faults>>

TypeOK ==
    /\ row \in [Events -> {"none", "ready", "leased", "published", "deleted"}]
    /\ stream \in [Events -> Nat] /\ remembered \subseteq Events
    /\ running \subseteq Replicas /\ looping \subseteq Replicas /\ bus \subseteq Replicas
    /\ batch \in [Replicas -> SUBSET Events]
    /\ sent \in [Replicas -> Events \cup {NoEvent}]
    /\ \A r \in Replicas : sent[r] \in batch[r] \cup {NoEvent}
    /\ faults \in 0 .. MaxFaults

Init ==
    /\ row = [e \in Events |-> "none"]
    /\ stream = [e \in Events |-> 0] /\ remembered = {}
    /\ running = {} /\ looping = {} /\ bus = {}
    /\ batch = [r \in Replicas |-> {}]
    /\ sent = [r \in Replicas |-> NoEvent]
    /\ faults = 0

Fault == faults < MaxFaults /\ faults' = faults + 1

-----------------------------------------------------------------------------
(* The table *)

InsertEvent_Published(e) ==
    /\ row[e] = "none"
    /\ row' = [row EXCEPT ![e] = "published"]
    /\ UNCHANGED <<stream, remembered, running, looping, bus, batch, sent, faults>>

\* A transaction of the service commits with the row in it.
InsertEvent(e) ==
    /\ row[e] = "none"
    /\ row' = [row EXCEPT ![e] = "ready"]
    /\ UNCHANGED <<stream, remembered, running, looping, bus, batch, sent, faults>>

\* dispatch_lease ends: a fault when a round still has the event.
LeaseExpires(e) ==
    /\ row[e] = "leased"
    /\ row' = [row EXCEPT ![e] = "ready"]
    /\ IF \E r \in Replicas : e \in batch[r] THEN Fault ELSE UNCHANGED faults
    /\ UNCHANGED <<stream, remembered, running, looping, bus, batch, sent>>

WindowPasses(e) ==
    /\ e \in remembered
    /\ remembered' = remembered \ {e}
    /\ UNCHANGED <<row, stream, running, looping, bus, batch, sent, faults>>

-----------------------------------------------------------------------------
(* start and stop *)

\* start connects, and then starts both loops; a start that fails leaves nothing.
Starts(r) ==
    /\ r \notin bus
    /\ bus' = bus \cup {r} /\ running' = running \cup {r} /\ looping' = looping \cup {r}
    /\ UNCHANGED <<row, stream, remembered, batch, sent, faults>>

\* stop cancels the context of the loops.
Cancels(r) ==
    /\ r \in running /\ Fault
    /\ running' = running \ {r}
    /\ UNCHANGED <<row, stream, remembered, looping, bus, batch, sent>>

\* A loop sees that the context is done, between two rounds.
LoopReturns(r) ==
    /\ r \in looping \ running /\ batch[r] = {}
    /\ looping' = looping \ {r}
    /\ UNCHANGED <<row, stream, remembered, running, bus, batch, sent, faults>>

Closes_NoWait(r) ==
    /\ r \in bus \ running
    /\ bus' = bus \ {r}
    /\ UNCHANGED <<row, stream, remembered, running, looping, batch, sent, faults>>

\* wg.Wait, then Close.
Closes(r) ==
    /\ r \in bus \ (running \cup looping)
    /\ bus' = bus \ {r}
    /\ UNCHANGED <<row, stream, remembered, running, looping, batch, sent, faults>>

Crash(r) ==
    /\ r \in bus /\ Fault
    /\ bus' = bus \ {r} /\ running' = running \ {r} /\ looping' = looping \ {r}
    /\ batch' = [batch EXCEPT ![r] = {}] /\ sent' = [sent EXCEPT ![r] = NoEvent]
    /\ UNCHANGED <<row, stream, remembered>>

-----------------------------------------------------------------------------
(* The loops *)

Ready == {e \in Events : row[e] = "ready"}

RoundBegins_NoLease(r) ==
    /\ r \in looping \cap running /\ batch[r] = {}
    /\ \E claimed \in (SUBSET Ready) \ {{}} :
        /\ Cardinality(claimed) <= BatchSize
        /\ batch' = [batch EXCEPT ![r] = claimed]
    /\ UNCHANGED <<row, stream, remembered, running, looping, bus, sent, faults>>

\* RunOnce leases a batch; a round that finds nothing is no step.
RoundBegins(r) ==
    /\ r \in looping \cap running /\ batch[r] = {}
    /\ \E claimed \in (SUBSET Ready) \ {{}} :
        /\ Cardinality(claimed) <= BatchSize
        /\ batch' = [batch EXCEPT ![r] = claimed]
        /\ row' = [e \in Events |-> IF e \in claimed THEN "leased" ELSE row[e]]
    /\ UNCHANGED <<stream, remembered, running, looping, bus, sent, faults>>

Accepted(e) ==
    /\ stream' = [stream EXCEPT ![e] = IF e \in remembered THEN @ ELSE @ + 1]
    /\ remembered' = remembered \cup {e}

Publishes(r, e) ==
    /\ e \in batch[r] /\ sent[r] = NoEvent
    /\ Accepted(e)
    /\ sent' = [sent EXCEPT ![r] = e]
    /\ UNCHANGED <<row, running, looping, bus, batch, faults>>

\* No answer within publish_timeout, or an error: tried again after dispatch_retry_delay.
PublishFails(r, e) ==
    /\ e \in batch[r] /\ sent[r] = NoEvent /\ Fault
    /\ Accepted(e) \/ UNCHANGED <<stream, remembered>>
    /\ row' = [row EXCEPT ![e] = IF @ = "leased" THEN "ready" ELSE @]
    /\ batch' = [batch EXCEPT ![r] = @ \ {e}]
    /\ UNCHANGED <<running, looping, bus, sent>>

\* A row another round has marked, or the cleaner has deleted, stays so.
Marks(r) ==
    /\ sent[r] # NoEvent
    /\ row' = [row EXCEPT ![sent[r]] = IF @ = "deleted" THEN @ ELSE "published"]
    /\ batch' = [batch EXCEPT ![r] = @ \ {sent[r]}]
    /\ sent' = [sent EXCEPT ![r] = NoEvent]
    /\ UNCHANGED <<stream, remembered, running, looping, bus, faults>>

RoundFails_LoopEnds(r) ==
    /\ batch[r] # {}
    /\ IF r \in running THEN Fault ELSE UNCHANGED faults
    /\ batch' = [batch EXCEPT ![r] = {}] /\ sent' = [sent EXCEPT ![r] = NoEvent]
    /\ looping' = looping \ {r}
    /\ UNCHANGED <<row, stream, remembered, running, bus>>

\* RunOnce returns an error, the context's after a stop: it is logged, and the loop goes on.
\* What the round had leased stays leased.
RoundFails(r) ==
    /\ batch[r] # {}
    /\ IF r \in running THEN Fault ELSE UNCHANGED faults
    /\ batch' = [batch EXCEPT ![r] = {}] /\ sent' = [sent EXCEPT ![r] = NoEvent]
    /\ UNCHANGED <<row, stream, remembered, running, looping, bus>>

\* The cleaner's loop: published_retention has passed.
Cleans(r, e) ==
    /\ r \in looping \cap running /\ row[e] = "published"
    /\ row' = [row EXCEPT ![e] = "deleted"]
    /\ UNCHANGED <<stream, remembered, running, looping, bus, batch, sent, faults>>

RelayStep(r) ==
    \/ RoundBegins(r) \/ Marks(r) \/ LoopReturns(r) \/ Closes(r) \/ Starts(r)
    \/ r \notin running /\ RoundFails(r)
    \/ \E e \in Events : Publishes(r, e)

Next ==
    \/ \E e \in Events : InsertEvent(e) \/ LeaseExpires(e) \/ WindowPasses(e)
    \/ \E r \in Replicas :
        \/ RelayStep(r) \/ Cancels(r) \/ Crash(r)
        \/ r \in running /\ RoundFails(r)
        \/ \E e \in Events : PublishFails(r, e) \/ Cleans(r, e)

Spec == Init /\ [][Next]_vars

\* Loops go round, leases end, and replicas that stopped are started again.
FairSpec ==
    /\ Spec
    /\ \A r \in Replicas : WF_vars(RelayStep(r))
    /\ \A r \in Replicas, e \in Events : WF_vars(Cleans(r, e))
    /\ \A e \in Events : WF_vars(LeaseExpires(e))

-----------------------------------------------------------------------------
(* Properties *)

\* stop closes the bus only when no round can use it any more.
BusOpenWhileUsed == \A r \in Replicas : batch[r] # {} => r \in bus

\* At least once: whatever crashes between publishing and marking, a row is never marked
\* or deleted before the stream has its event.
NothingIsLost == \A e \in Events : row[e] \in {"published", "deleted"} => stream[e] > 0

\* Consumers get an event again only for a failure: replicas that relay side by side never
\* add a copy of their own, however soon the stream forgets.
DuplicatesNeedFaults == \A e \in Events : stream[e] <= 1 + faults

\* Every event the service committed reaches the stream, and its row is removed after it:
\* no failed round ends a loop for good.
EventsArrive ==
    \A e \in Events : row[e] # "none" ~> stream[e] > 0 /\ row[e] = "deleted"

=============================================================================
