-------------------------- MODULE NotificationSystem --------------------------
(***************************************************************************)
(* The delivery pipeline: clients calling Send and RecordReceipt, the      *)
(* dispatch workers and the retention cleaners of all replicas, over one   *)
(* database.                                                               *)
(***************************************************************************)
EXTENDS Dispatcher, NotificationService, RetentionCleaner

vars == <<storeVars, dispatcherVars, serviceVars, cleanerVars>>

Init == StoreInit /\ DispatcherInit /\ ServiceInit /\ CleanerInit

Tick == StoreTick /\ UNCHANGED <<dispatcherVars, serviceVars, cleanerVars>>

Next ==
    \/ DispatcherNext /\ UNCHANGED <<serviceVars, cleanerVars>>
    \/ ServiceNext /\ UNCHANGED <<dispatcherVars, cleanerVars>>
    \/ CleanerNext /\ UNCHANGED <<dispatcherVars, serviceVars>>
    \/ Tick

Spec == Init /\ [][Next]_vars

\* Goroutines that are not disrupted keep running, an HTTP call to a provider
\* ends within its timeout, and time passes.  Clients owe nothing: no call of
\* Send or RecordReceipt need ever be made, and a stopped replica need not start.
Fairness ==
    /\ WF_vars(Tick)
    /\ \A w \in Workers : WF_vars(WorkerStep(w) /\ UNCHANGED <<serviceVars, cleanerVars>>)
    /\ \A c \in Cleaners :
        WF_vars(CleanerStep(c) /\ UNCHANGED <<dispatcherVars, serviceVars>>)

FairSpec == Spec /\ Fairness

-----------------------------------------------------------------------------
(* Safety *)

\* Every variable keeps its type.
TypeOK == StoreTypeOK /\ DispatcherTypeOK /\ ServiceTypeOK /\ CleanerTypeOK

\* The local variables agree with the control points: RunOnce has returned with
\* no delivery left over, deliver has a delivery in hand, and a receipt that was
\* matched has its copy of the row.
LocalStateOK ==
    /\ \A w \in Workers :
        /\ workerPc[w] \in {"stopped", "idle"} => \A d \in Ids : batch[w][d] = NoRow
        /\ workerPc[w] \in {"sending", "finishing"} =>
                current[w] \in Ids /\ batch[w][current[w]] # NoRow
    /\ \A p \in Reporters : receiptId[p] # NoId =>
            receiptRow[p] # NoRow /\ receiptRow[p].status \in ReceiptStatuses

\* While a worker holds a delivery after RunOnce's claim, no other worker holds
\* it, and nobody has written the row under it: until the worker edits its copy
\* with the outcome, the copy is the row, and the version it will present to
\* Finish is the row's to the end.
ExclusiveClaim ==
    \A w \in Workers, d \in Ids : Holds(w, d) =>
        /\ Exists(d) /\ rows[d].status = "processing"
        /\ rows[d].version = batch[w][d].version
        /\ rows[d].attempts = batch[w][d].attempts
        /\ \A v \in Workers \ {w} : ~Holds(v, d)

\* A delivery is in status processing only while a worker holds it or after one
\* lost it: in particular a graceful stop strands none, for deliver finishes on
\* a context stop cannot cancel.
ProcessingIsOwned ==
    \A d \in Ids : Exists(d) /\ rows[d].status = "processing" =>
        d \in orphans \/ \E w \in Workers : Holds(w, d)

\* Providers accept a delivery's message at most once per attempt, and there are
\* at most MaxAttempts attempts: the duplicates a recipient can get are bounded.
SendsBounded ==
    \A d \in Ids : sends[d] <= MaxAttempts /\ (Exists(d) => sends[d] <= rows[d].attempts)

\* A delivery that reached status sent was accepted by a provider, and the row
\* then, and only then, names the message it can be receipted by.
RefIffSent ==
    \A d \in Ids : Exists(d) =>
        /\ rows[d].ref # NoRef <=> rows[d].status \in ReceiptStatuses \cup {"sent"}
        /\ rows[d].ref # NoRef => sends[d] > 0

\* The outbox tells the row's story: its last event carries the status and the
\* version of the row (a claim raises the version and writes no event), and the
\* versions of a delivery's events increase, so a consumer can order them.
EventsMirrorRows ==
    \A d \in Ids :
        /\ \A i \in 1 .. Len(events[d]) - 1 : events[d][i].version < events[d][i + 1].version
        /\ Exists(d) =>
            /\ events[d] # <<>>
            /\ LET last == events[d][Len(events[d])] IN
               IF rows[d].status = "processing"
               THEN last.status \in {"pending", "retrying"} /\ last.version = rows[d].version - 1
               ELSE last.status = rows[d].status /\ last.version = rows[d].version

\* Send is idempotent within (tenant, application): the table never holds two
\* deliveries of one key, so two answers to the same request name the same
\* delivery as long as both deliveries exist.
OneDeliveryPerKey ==
    \A d, e \in Ids : Exists(d) /\ Exists(e) /\ rows[d].identity = rows[e].identity => d = e

\* A delivery Send has answered with is in the table, under the identity it was
\* asked for, until its outcome is known: retention never drops one that is
\* waiting, in flight, or receipted.
RepliesAreKept ==
    \A r \in replies :
        IF Exists(r.id)
        THEN rows[r.id].identity = r.identity
        ELSE /\ events[r.id] # <<>>
             /\ events[r.id][Len(events[r.id])].status \in {"sent", "dead_letter"}

\* A receipt RecordReceipt has confirmed is never undone: not by a concurrent
\* receipt, a worker or the cleaner.
ReceiptsAreKept ==
    \A r \in confirmed : Exists(r.id) /\ rows[r.id].status = r.status

\* A step never rewrites a delivery whose status is terminal.
TerminalIsFinal ==
    [][\A d \in Ids : Exists(d) /\ Terminal(rows[d].status) =>
            rows'[d] = rows[d] \/ rows'[d] = NoRow]_vars

\* A delivery whose worker lost it stays exactly as it is: ClaimDue, receipts
\* and the cleaner all pass it over.  Nothing in the program recovers it.
OrphansAreStuck ==
    [][\A d \in orphans : Exists(d) /\ rows[d].status = "processing" => rows'[d] = rows[d]]_vars

\* A call of clean that nothing disturbs returns only when its last SELECT left no
\* expired delivery out: it goes on while there are more, unless a statement
\* failed, or another replica or a receipt got to a delivery of the batch first.
\* A backlog of several batches does not wait for as many cleanup intervals.
RoundsAreComplete ==
    [][\A c \in cleaning \ cleaning' :
            disruptions' # disruptions \/ doomed[c] # Deletable(c) \/ left[c] = {}]_vars

-----------------------------------------------------------------------------
(* Liveness *)

AllStopped == \A w \in Workers : workerPc[w] = "stopped" \/ cancelled[w]

InFlight(d) == Exists(d) /\ rows[d].status \in {"pending", "retrying", "processing"}

\* A delivery whose next attempt falls before the clock stops is sent or given
\* up, unless a worker loses it or no worker runs.
DeliveriesSettle ==
    \A d \in Ids :
        InFlight(d) ~> \/ ~InFlight(d)
                       \/ d \in orphans
                       \/ rows[d].nextAt > MaxTime
                       \/ AllStopped

Expiring(d, statuses) ==
    Exists(d) /\ rows[d].status \in statuses /\ rows[d].updatedAt < MaxTime - Retention

\* A sent or dead delivery does not outlive the retention period for ever.
RetentionIsHonoured ==
    \A d \in Ids : Expiring(d, {"sent", "dead_letter"}) ~> ~Expiring(d, {"sent", "dead_letter"})

-----------------------------------------------------------------------------
(* Refinement *)

AbstractPhase(d) ==
    IF ~Exists(d) THEN IF events[d] = <<>> THEN "absent" ELSE "purged"
    ELSE CASE rows[d].status \in {"pending", "retrying"} -> "waiting"
           [] rows[d].status = "processing" -> "trying"
           [] OTHER -> rows[d].status

AbstractTries(d) == IF Exists(d) THEN rows[d].attempts ELSE 0

Lifecycle == INSTANCE DeliveryLifecycle WITH
    phase <- [d \in Ids |-> AbstractPhase(d)],
    tries <- [d \in Ids |-> AbstractTries(d)]

\* The pipeline implements the life cycle: every step of every actor is one of
\* its steps for the deliveries it touches, or none.
ImplementsLifecycle == Lifecycle!Spec

-----------------------------------------------------------------------------
(* What the README says of the table, and the code does not do *)

\* README.md:5, "(tenant_id, idempotency_key)" is globally unique.
KeyIsGlobal ==
    \A d, e \in Ids :
        /\ Exists(d) /\ Exists(e)
        /\ rows[d].identity.tenant = rows[e].identity.tenant
        /\ rows[d].identity.key = rows[e].identity.key
        => d = e

\* README.md:5, successful and dead-letter records are kept for the retention
\* period and then cleaned up: a record whose success a receipt confirmed, too.
SuccessesExpire ==
    \A d \in Ids : LET kept == {"sent", "delivered", "dead_letter"} IN
        Expiring(d, kept) ~> ~Expiring(d, kept)

=============================================================================
