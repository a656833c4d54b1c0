------------------------------ MODULE Dispatcher ------------------------------
(***************************************************************************)
(* internal/notification/dispatcher.go: the background worker of each      *)
(* replica, which claims due deliveries in one transaction, hands each to  *)
(* its provider, and records the outcome in a transaction per delivery.    *)
(*                                                                         *)
(* A worker is a goroutine: its control point is workerPc, the variable    *)
(* due of RunOnce is batch (the local copies of the claimed rows), and     *)
(* the delivery in the argument of deliver is current.  The copy of the    *)
(* current delivery is edited in place, as in the code, and Finish writes  *)
(* it back.  sends and orphans are history variables.                      *)
(***************************************************************************)
EXTENDS DeliveryStore

CONSTANTS
    Workers,        \* one per replica with the notification worker enabled
    BatchSize       \* notification.batch_size

ASSUME BatchAssumption == BatchSize \in Nat \ {0}

VARIABLES
    workerPc,       \* control point of each worker
    cancelled,      \* whether Worker.stop has cancelled its context
    batch,          \* its copies of the rows it selected and has not finished
    current,        \* the delivery it is working on
    sends,          \* history: messages providers accepted, by delivery
    orphans         \* history: deliveries whose worker lost them

dispatcherVars == <<workerPc, cancelled, batch, current, sends, orphans>>

EmptyBatch == [d \in Ids |-> NoRow]

WorkerPcs == {"stopped", "idle", "claiming", "working", "sending", "finishing"}

DispatcherTypeOK ==
    /\ workerPc \in [Workers -> WorkerPcs]
    /\ cancelled \in [Workers -> BOOLEAN]
    /\ batch \in [Workers -> [Ids -> Row \cup {NoRow}]]
    /\ current \in [Workers -> Ids \cup {NoId}]
    /\ sends \in [Ids -> Nat]
    /\ orphans \in SUBSET Ids

DispatcherInit ==
    /\ workerPc = [w \in Workers |-> "idle"]
    /\ cancelled = [w \in Workers |-> FALSE]
    /\ batch = [w \in Workers |-> EmptyBatch]
    /\ current = [w \in Workers |-> NoId]
    /\ sends = [d \in Ids |-> 0]
    /\ orphans = {}

-----------------------------------------------------------------------------

Selected(w) == {d \in Ids : batch[w][d] # NoRow}

\* The worker has a committed claim on the deliveries of its batch.
Claiming(w) == workerPc[w] \in {"working", "sending", "finishing"}

Holds(w, d) == Claiming(w) /\ batch[w][d] # NoRow

\* The worker's claim transaction has locked the row and has not ended.
Locks(w, d) == workerPc[w] = "claiming" /\ batch[w][d] # NoRow

\* FOR UPDATE SKIP LOCKED passes over the rows of open claim transactions.
Locked(d) == \E w \in Workers : Locks(w, d)

\* 1 << shift, for the shifts retryBackoff can compute.
PowerOfTwo == <<1, 2, 4, 8, 16, 32, 64, 128, 256, 512, 1024>>

retryBackoff(attempt) ==
    RetryBase * PowerOfTwo[IF attempt < 1 THEN 1 ELSE IF attempt > 11 THEN 11 ELSE attempt]

GivesUp_OneLater(row) == row.attempts > MaxAttempts

GivesUp(row) == row.attempts >= MaxAttempts

Succeeded_UnknownStatus(row, ref) ==
    [row EXCEPT !.status = "succeeded", !.ref = ref, !.updatedAt = now]

Succeeded_WithoutRef(row, ref) == [row EXCEPT !.status = "sent", !.updatedAt = now]

\* The copy after a send the provider accepted under ref.
Succeeded(row, ref) ==
    [row EXCEPT !.status = "sent", !.ref = ref, !.updatedAt = now]

\* The copy after a failed preparation or send.
Failed(row) ==
    IF GivesUp(row)
    THEN [row EXCEPT !.status = "dead_letter", !.updatedAt = now]
    ELSE [row EXCEPT !.status = "retrying", !.updatedAt = now,
                     !.nextAt = now + retryBackoff(row.attempts)]

\* The worker turns to the next delivery of its batch, or RunOnce returns.
Dequeue(w, d) ==
    /\ batch' = [batch EXCEPT ![w][d] = NoRow]
    /\ current' = [current EXCEPT ![w] = NoId]
    /\ workerPc' = [workerPc EXCEPT ![w] = IF Selected(w) = {d} THEN "idle" ELSE "working"]

\* The local state of a worker with no batch, at control point pc.
Reset(w, pc) ==
    /\ workerPc' = [workerPc EXCEPT ![w] = pc]
    /\ batch' = [batch EXCEPT ![w] = EmptyBatch]
    /\ current' = [current EXCEPT ![w] = NoId]

-----------------------------------------------------------------------------
(* RunOnce: the claim transaction *)

\* SELECT ... FOR UPDATE SKIP LOCKED and the UPDATEs, not yet committed.  A
\* cancelled context cannot begin the transaction; selecting nothing changes
\* nothing.
ClaimSelect(w) ==
    LET due == {d \in Ids : IsDue(d) /\ ~Locked(d)} IN
    /\ workerPc[w] = "idle" /\ ~cancelled[w]
    /\ \E S \in SUBSET Ids \ {{}} :
        /\ IsFirst(S, due, [d \in due |-> rows[d].nextAt], BatchSize)
        /\ batch' = [batch EXCEPT ![w] =
                        [d \in Ids |-> IF d \in S THEN Claimed(rows[d]) ELSE NoRow]]
    /\ workerPc' = [workerPc EXCEPT ![w] = "claiming"]
    /\ UNCHANGED <<storeVars, cancelled, current, sends, orphans>>

\* What the UPDATEs of the claim transaction find: the version they selected.
ClaimIsCurrent(w) ==
    \A d \in Selected(w) : Exists(d) /\ rows[d].version + 1 = batch[w][d].version

ClaimWrites(w) ==
    rows' = [d \in Ids |-> IF d \in Selected(w) THEN batch[w][d] ELSE rows[d]]

\* COMMIT; database/sql rolls back instead when the context is cancelled.
ClaimCommit(w) ==
    /\ workerPc[w] = "claiming" /\ ~cancelled[w]
    /\ ClaimIsCurrent(w)
    /\ ClaimWrites(w)
    /\ workerPc' = [workerPc EXCEPT ![w] = "working"]
    /\ UNCHANGED <<events, now, disruptions, cancelled, batch, current, sends, orphans>>

\* The transaction commits but COMMIT reports an error: RunOnce returns it and
\* forgets the rows.
ClaimCommitUnreported(w) ==
    /\ workerPc[w] = "claiming" /\ ~cancelled[w]
    /\ ClaimIsCurrent(w)
    /\ Disrupted
    /\ ClaimWrites(w)
    /\ orphans' = orphans \cup Selected(w)
    /\ Reset(w, "idle")
    /\ UNCHANGED <<events, now, cancelled, sends>>

\* The transaction rolls back by itself: its context was cancelled, or an UPDATE
\* found another version (ErrStaleVersion).
ClaimRollback(w) ==
    /\ workerPc[w] = "claiming"
    /\ cancelled[w] \/ ~ClaimIsCurrent(w)
    /\ Reset(w, "idle")
    /\ UNCHANGED <<storeVars, cancelled, sends, orphans>>

\* A statement of the transaction fails.
ClaimFails(w) ==
    /\ workerPc[w] = "claiming"
    /\ Disrupted
    /\ Reset(w, "idle")
    /\ UNCHANGED <<rows, events, now, cancelled, sends, orphans>>

-----------------------------------------------------------------------------
(* deliver *)

\* The deliveries RunOnce may come to next: due is sorted by next_attempt_at.
NextInBatch(w) ==
    {d \in Selected(w) : \A e \in Selected(w) : batch[w][d].nextAt <= batch[w][e].nextAt}

\* GetTemplate, rendering and sender succeed; sender.Send is called.
DeliverPrepare(w) ==
    /\ workerPc[w] = "working" /\ ~cancelled[w]
    /\ \E d \in NextInBatch(w) : current' = [current EXCEPT ![w] = d]
    /\ workerPc' = [workerPc EXCEPT ![w] = "sending"]
    /\ UNCHANGED <<storeVars, cancelled, batch, sends, orphans>>

\* One of them fails, or the context is cancelled: the attempt is spent unsent.
DeliverPrepareFails(w) ==
    /\ workerPc[w] = "working"
    /\ \E d \in NextInBatch(w) :
        /\ current' = [current EXCEPT ![w] = d]
        /\ batch' = [batch EXCEPT ![w][d] = Failed(@)]
    /\ workerPc' = [workerPc EXCEPT ![w] = "finishing"]
    /\ UNCHANGED <<storeVars, cancelled, sends, orphans>>

\* The provider accepts the message and its answer, a message id, arrives.
SendAccepted(w) ==
    /\ workerPc[w] = "sending"
    /\ \E ref \in Refs :
        batch' = [batch EXCEPT ![w][current[w]] = Succeeded(@, ref)]
    /\ sends' = [sends EXCEPT ![current[w]] = @ + 1]
    /\ workerPc' = [workerPc EXCEPT ![w] = "finishing"]
    /\ UNCHANGED <<storeVars, cancelled, current, orphans>>

SendFails_SendsTwice(w) ==
    /\ workerPc[w] = "sending"
    /\ batch' = [batch EXCEPT ![w][current[w]] = Failed(@)]
    /\ \E accepted \in 0 .. 2 : sends' = [sends EXCEPT ![current[w]] = @ + accepted]
    /\ workerPc' = [workerPc EXCEPT ![w] = "finishing"]
    /\ UNCHANGED <<storeVars, cancelled, current, orphans>>

\* Send returns an error.  The POST carries no idempotency key, so the client
\* makes it once; a provider may have accepted it although no usable answer came.
SendFails(w) ==
    /\ workerPc[w] = "sending"
    /\ batch' = [batch EXCEPT ![w][current[w]] = Failed(@)]
    /\ \E accepted \in 0 .. 1 : sends' = [sends EXCEPT ![current[w]] = @ + accepted]
    /\ workerPc' = [workerPc EXCEPT ![w] = "finishing"]
    /\ UNCHANGED <<storeVars, cancelled, current, orphans>>

\* The transaction of deliver, on a context that cannot be cancelled.  An error
\* COMMIT reports after committing is ignored, so it makes no difference.
DeliverFinish(w) ==
    LET d == current[w] IN
    /\ workerPc[w] = "finishing"
    /\ FinishWithEvent(d, batch[w][d])
    /\ Dequeue(w, d)
    /\ UNCHANGED <<now, disruptions, cancelled, sends, orphans>>

\* The transaction fails (a database error or ErrStaleVersion); deliver ignores
\* the error and the row keeps the status processing.
DeliverFinishFails(w) ==
    LET d == current[w] IN
    /\ workerPc[w] = "finishing"
    /\ \/ ~VersionMatches(d, batch[w][d]) /\ UNCHANGED disruptions
       \/ Disrupted
    /\ orphans' = orphans \cup {d}
    /\ Dequeue(w, d)
    /\ UNCHANGED <<rows, events, now, cancelled, sends>>

-----------------------------------------------------------------------------
(* Worker: start, stop, and the end of the process *)

\* stop: the context is cancelled; stop then waits for the goroutine.
WorkerStop(w) ==
    /\ workerPc[w] # "stopped" /\ ~cancelled[w]
    /\ Disrupted
    /\ cancelled' = [cancelled EXCEPT ![w] = TRUE]
    /\ UNCHANGED <<rows, events, now, workerPc, batch, current, sends, orphans>>

WorkerExit_MidBatch(w) ==
    /\ workerPc[w] \in {"idle", "working"} /\ cancelled[w]
    /\ Reset(w, "stopped")
    /\ UNCHANGED <<storeVars, cancelled, sends, orphans>>

\* The goroutine sees ctx.Done only between two calls of RunOnce.
WorkerExit(w) ==
    /\ workerPc[w] = "idle" /\ cancelled[w]
    /\ Reset(w, "stopped")
    /\ UNCHANGED <<storeVars, cancelled, sends, orphans>>

\* start: a new process.
WorkerStart(w) ==
    /\ workerPc[w] = "stopped"
    /\ workerPc' = [workerPc EXCEPT ![w] = "idle"]
    /\ cancelled' = [cancelled EXCEPT ![w] = FALSE]
    /\ UNCHANGED <<storeVars, batch, current, sends, orphans>>

\* The process dies: its open transaction rolls back, its claims are forgotten.
\* A provider it was calling may have accepted the message.
WorkerCrash(w) ==
    /\ workerPc[w] # "stopped"
    /\ Disrupted
    /\ \/ workerPc[w] # "sending" /\ UNCHANGED sends
       \/ /\ workerPc[w] = "sending"
          /\ \E accepted \in 0 .. 1 : sends' = [sends EXCEPT ![current[w]] = @ + accepted]
    /\ orphans' = orphans \cup (IF Claiming(w) THEN Selected(w) ELSE {})
    /\ Reset(w, "stopped")
    /\ UNCHANGED <<rows, events, now, cancelled>>

-----------------------------------------------------------------------------

\* What a running worker does by itself, absent disruptions.
WorkerStep(w) ==
    \/ ClaimSelect(w) \/ ClaimCommit(w) \/ ClaimRollback(w)
    \/ DeliverPrepare(w) \/ DeliverPrepareFails(w)
    \/ SendAccepted(w) \/ SendFails(w)
    \/ DeliverFinish(w) \/ WorkerExit(w)

\* What happens to it.
WorkerDisruption(w) ==
    \/ ClaimFails(w) \/ ClaimCommitUnreported(w) \/ DeliverFinishFails(w)
    \/ WorkerStop(w) \/ WorkerCrash(w)

DispatcherNext == \E w \in Workers : WorkerStep(w) \/ WorkerDisruption(w) \/ WorkerStart(w)

=============================================================================
