------------------------ MODULE DeliveryHistoryProofs ------------------------
(***************************************************************************)
(* What the pipeline does to one delivery over its life, for any sets of   *)
(* deliveries and actors and any bounds: every step of every actor claims, *)
(* settles, acknowledges, inserts or purges it, or leaves it alone.  From  *)
(* this and PipelineInv follow the properties about ownership, copies sent *)
(* and events written, and the refinement of DeliveryLifecycle.            *)
(***************************************************************************)
EXTENDS NotificationSystemProofs

USE NullAssumption, AttemptsAssumption, BoundAssumption, BatchAssumption,
    RequestAssumption, CleanerAssumption

-----------------------------------------------------------------------------
(* The steps of one delivery *)

Same(d) == rows'[d] = rows[d] /\ events'[d] = events[d]

\* The row is written once and its outbox event with it.
Written(d) ==
    /\ Exists(d) /\ rows'[d] \in Row
    /\ rows'[d].identity = rows[d].identity
    /\ rows'[d].attempts = rows[d].attempts
    /\ rows'[d].version = rows[d].version + 1
    /\ \E e \in Event :
        /\ events'[d] = Append(events[d], e)
        /\ e.status = rows'[d].status /\ e.version = rows'[d].version

\* The COMMIT of RunOnce's claim transaction.
IsClaimed(d) ==
    /\ Exists(d) /\ rows[d].status \in {"pending", "retrying"}
    /\ rows[d].attempts < MaxAttempts
    /\ rows'[d] \in Row /\ rows'[d].identity = rows[d].identity
    /\ rows'[d].status = "processing" /\ rows'[d].ref = NoRef
    /\ rows'[d].attempts = rows[d].attempts + 1
    /\ rows'[d].version = rows[d].version + 1
    /\ events'[d] = events[d]

\* The outcome transaction of deliver, by the worker that holds the delivery.
IsSettled(d) ==
    /\ Written(d) /\ rows[d].status = "processing"
    /\ OutcomeSound(rows'[d])
    /\ \E w \in Workers : Holds(w, d) /\ batch[w][d].ref = rows'[d].ref

\* The transaction of RecordReceipt.
IsAcknowledged(d) ==
    /\ Written(d) /\ rows[d].status = "sent" /\ rows'[d].status \in ReceiptStatuses
    /\ rows'[d].ref = rows[d].ref

\* The transaction of Send.
IsInserted(d) ==
    /\ Unused(d) /\ rows'[d] \in Row
    /\ rows'[d].status = "pending" /\ rows'[d].ref = NoRef
    /\ rows'[d].attempts = 0 /\ rows'[d].version = 1
    /\ \E e \in Event :
        /\ events'[d] = Append(events[d], e)
        /\ e.status = "pending" /\ e.version = 1

\* The DELETE of the cleaner.
IsPurged(d) ==
    /\ Exists(d) /\ rows[d].status \in {"sent", "dead_letter"}
    /\ rows'[d] = NoRow /\ events'[d] = events[d]

\* A step of the table: a batch is claimed or purged, or one delivery is written.
TableStep ==
    \/ \A d \in Ids : Same(d) \/ IsClaimed(d)
    \/ \A d \in Ids : Same(d) \/ IsPurged(d)
    \/ \E d \in Ids : /\ IsSettled(d) \/ IsAcknowledged(d) \/ IsInserted(d)
                      /\ \A e \in Ids \ {d} : Same(e)

DeliveryStep(d) ==
    \/ Same(d) \/ IsClaimed(d) \/ IsPurged(d)
    \/ IsSettled(d) \/ IsAcknowledged(d) \/ IsInserted(d)

LEMMA TableTypes ==
    ASSUME PipelineInv
    PROVE  /\ TypeInv /\ rows \in [Ids -> Row \cup {NoRow}] /\ events \in [Ids -> Seq(Event)]
           /\ sends \in [Ids -> Nat] /\ orphans \in SUBSET Ids /\ now \in Nat
           /\ workerPc \in [Workers -> WorkerPcs] /\ batch \in [Workers -> Copies]
           /\ current \in [Workers -> Ids \cup {NoId}]
  BY DEF PipelineInv, TypeInv, TypeOK, StoreTypeOK, DispatcherTypeOK, Copies

\* A claim's COMMIT claims what the transaction had locked.
LEMMA ClaimStep ==
    ASSUME PipelineInv, NEW w \in Workers, workerPc[w] = "claiming", ClaimWrites(w),
           UNCHANGED events, NEW d \in Ids
    PROVE  IF Locks(w, d) THEN IsClaimed(d) ELSE Same(d)
<1>1. rows'[d] = IF Locks(w, d) THEN batch[w][d] ELSE rows[d]
  BY DEF ClaimWrites, Selected, Locks
<1>2. CASE Locks(w, d)
  <2>1. ClaimSound(w, d) /\ RowSound(d) /\ batch[w][d] \in Row
    BY <1>2, TypeFacts DEF PipelineInv, Locks
  <2>2. rows[d].ref = NoRef
    BY <1>2, <2>1 DEF ClaimSound, RowSound, ReceiptStatuses
  <2> QED
    BY <1>1, <1>2, <2>1, <2>2 DEF ClaimSound, RowSound, IsClaimed
<1>3. CASE ~Locks(w, d)
  BY <1>1, <1>3 DEF Same
<1> QED
  BY <1>2, <1>3

\* Finish and its event write the delivery they are given, and no other.
LEMMA FinishStep ==
    ASSUME PipelineInv, NEW d \in Ids, NEW row \in Row, FinishWithEvent(d, row)
    PROVE  /\ Written(d) /\ rows'[d].status = row.status /\ rows'[d].ref = row.ref
           /\ \A e \in Ids \ {d} : Same(e)
<1>1. /\ Exists(d) /\ rows[d] \in Row /\ rows[d].version = row.version
      /\ rows'[d] = Finished(rows[d], row)
      /\ events'[d] = Append(events[d], StatusEvent(row))
      /\ \A e \in Ids \ {d} : Same(e)
  BY TableTypes DEF FinishWithEvent, VersionMatches, Exists, Same
<1>2. /\ StatusEvent(row) \in Event /\ StatusEvent(row).status = row.status
      /\ StatusEvent(row).version = row.version + 1
  BY EventTypes DEF StatusEvent
<1>3. /\ Finished(rows[d], row) \in Row
      /\ Finished(rows[d], row).status = row.status
      /\ Finished(rows[d], row).attempts = rows[d].attempts
      /\ Finished(rows[d], row).version = rows[d].version + 1
      /\ Finished(rows[d], row).ref = row.ref
      /\ Finished(rows[d], row).identity = rows[d].identity
  BY <1>1, FinishedFacts
<1> QED
  BY <1>1, <1>2, <1>3 DEF Written

LEMMA SettleStep ==
    ASSUME PipelineInv, NEW w \in Workers, DeliverFinish(w)
    PROVE  /\ current[w] \in Ids /\ IsSettled(current[w])
           /\ \A e \in Ids \ {current[w]} : Same(e)
<1>1. PICK d \in Ids : d = current[w]
  BY DEF DeliverFinish, PipelineInv, TypeInv, LocalStateOK
<1>2. batch[w][d] \in Row /\ Holds(w, d) /\ HoldSound(w, d) /\ FinishWithEvent(d, batch[w][d])
  BY <1>1, TypeFacts DEF DeliverFinish, PipelineInv, TypeInv, LocalStateOK, Holds, Claiming
<1>3. OutcomeSound(batch[w][d]) /\ rows[d].attempts = batch[w][d].attempts
      /\ rows[d].status = "processing"
  BY <1>1, <1>2 DEF DeliverFinish, HoldSound
<1>4. /\ Written(d) /\ rows'[d].status = batch[w][d].status /\ rows'[d].ref = batch[w][d].ref
      /\ \A e \in Ids \ {d} : Same(e)
  BY <1>2, FinishStep
<1>5. OutcomeSound(rows'[d])
  BY <1>3, <1>4 DEF OutcomeSound, Written
<1> QED
  BY <1>1, <1>2, <1>3, <1>4, <1>5 DEF IsSettled

LEMMA AcknowledgeStep ==
    ASSUME PipelineInv, NEW p \in Reporters, ReceiptFinishes(p)
    PROVE  /\ receiptId[p] \in Ids /\ IsAcknowledged(receiptId[p])
           /\ \A e \in Ids \ {receiptId[p]} : Same(e)
<1>1. PICK d \in Ids : d = receiptId[p]
  BY TypeFacts DEF ReceiptFinishes, PipelineInv
<1>2. /\ receiptRow[p] \in Row /\ ReceiptSound(p) /\ FinishWithEvent(d, receiptRow[p])
      /\ receiptRow[p].status \in ReceiptStatuses
  BY <1>1, TypeFacts DEF ReceiptFinishes, PipelineInv, TypeInv, LocalStateOK
<1>3. rows[d].status = "sent" /\ receiptRow[p].ref = rows[d].ref
  BY <1>1, <1>2 DEF ReceiptFinishes, FinishWithEvent, ReceiptSound
<1>4. /\ Written(d) /\ rows'[d].status = receiptRow[p].status
      /\ rows'[d].ref = receiptRow[p].ref
      /\ \A e \in Ids \ {d} : Same(e)
  BY <1>2, FinishStep
<1> QED
  BY <1>1, <1>2, <1>3, <1>4 DEF IsAcknowledged

LEMMA InsertStep ==
    ASSUME PipelineInv, NEW s \in Senders, SendInserts(s), NEW d \in Ids,
           InsertWithEvent(d, NewRow(request[s]))
    PROVE  /\ IsInserted(d) /\ rows'[d].identity = request[s]
           /\ \A e \in Ids \ {d} : Same(e)
<1>1. request[s] \in Identities
  BY DEF SendInserts, PipelineInv, TypeInv, TypeOK, ServiceTypeOK
<1> DEFINE row == NewRow(request[s])
<1>2. /\ row \in Row /\ row.status = "pending" /\ row.ref = NoRef /\ row.attempts = 0
      /\ row.version = 1 /\ row.identity = request[s]
  BY <1>1, TableTypes, NewRowFacts
<1>3. RequestedEvent(row) \in Event /\ RequestedEvent(row).status = "pending"
      /\ RequestedEvent(row).version = 1
  BY <1>2, EventTypes DEF RequestedEvent
<1>4. /\ Unused(d) /\ rows'[d] = row /\ events'[d] = Append(events[d], RequestedEvent(row))
      /\ \A e \in Ids \ {d} : Same(e)
  BY TableTypes DEF InsertWithEvent, Same
<1> HIDE DEF row
<1> QED
  BY <1>2, <1>3, <1>4 DEF IsInserted

\* Whatever happens, it is a step of the table.
LEMMA TableSteps ==
    ASSUME PipelineInv, [Next]_vars
    PROVE  TableStep
<1> USE DEF storeVars
<1>1. CASE UNCHANGED <<rows, events>>
  BY <1>1 DEF TableStep, Same
<1>2. ASSUME NEW w \in Workers, WorkerStep(w) \/ WorkerDisruption(w) \/ WorkerStart(w)
      PROVE  TableStep
  <2>1. \/ UNCHANGED <<rows, events>>
        \/ workerPc[w] = "claiming" /\ ClaimWrites(w) /\ UNCHANGED events
        \/ DeliverFinish(w)
    BY <1>2 DEF WorkerStep, WorkerDisruption, ClaimSelect, ClaimCommit, ClaimCommitUnreported,
         ClaimRollback, ClaimFails, DeliverPrepare, DeliverPrepareFails, SendAccepted, SendFails,
         DeliverFinishFails, WorkerStop, WorkerExit, WorkerStart, WorkerCrash
  <2>2. CASE workerPc[w] = "claiming" /\ ClaimWrites(w) /\ UNCHANGED events
    BY <2>2, ClaimStep DEF TableStep
  <2>3. CASE DeliverFinish(w)
    BY <2>3, SettleStep DEF TableStep
  <2> QED
    BY <1>1, <2>1, <2>2, <2>3
<1>3. ASSUME NEW s \in Senders,
             SendReplays(s) \/ SendLookup(s) \/ SendRefused(s) \/ SendInserts(s)
      PROVE  TableStep
  <2>1. CASE SendInserts(s)
    <3>1. PICK d \in Ids : InsertWithEvent(d, NewRow(request[s]))
      BY <2>1 DEF SendInserts
    <3> QED
      BY <2>1, <3>1, InsertStep DEF TableStep
  <2> QED
    BY <1>1, <1>3, <2>1 DEF SendReplays, SendLookup, SendRefused
<1>4. ASSUME NEW p \in Reporters,
             ReceiptReplays(p) \/ ReceiptLookup(p) \/ ReceiptFinishes(p) \/ ReceiptFails(p)
      PROVE  TableStep
  <2>1. CASE ReceiptFinishes(p)
    BY <2>1, AcknowledgeStep DEF TableStep
  <2> QED
    BY <1>1, <1>4, <2>1 DEF ReceiptReplays, ReceiptLookup, ReceiptFails
<1>5. ASSUME NEW c \in Cleaners, CleanerStep(c) \/ CleanFails(c)
      PROVE  TableStep
  <2>1. CASE CleanDelete(c)
    BY <2>1 DEF CleanDelete, ForgetBatch, Deletable, ExpiredAt, IsExpired, TableStep, Same, IsPurged
  <2> QED
    BY <1>1, <1>5, <2>1 DEF CleanerStep, CleanSelect, CleanFindsNone, CleanFails, ForgetBatch
<1> QED
  BY <1>1, <1>2, <1>3, <1>4, <1>5
     DEF Next, DispatcherNext, ServiceNext, CleanerNext, Tick, StoreTick, vars

\* What a step may do to one delivery.
LEMMA DeliverySteps ==
    ASSUME PipelineInv, [Next]_vars, NEW d \in Ids
    PROVE  DeliveryStep(d)
  BY TableSteps DEF TableStep, DeliveryStep

\* Who is not a worker claims and settles nothing.
LEMMA OtherSteps ==
    ASSUME PipelineInv, NEW d \in Ids, ServiceNext \/ CleanerNext \/ UNCHANGED rows
    PROVE  ~IsClaimed(d)
<1> USE DEF storeVars
<1>1. ASSUME rows'[d] = rows[d] \/ rows'[d] = NoRow \/ IsAcknowledged(d) \/ Unused(d)
      PROVE  ~IsClaimed(d)
  BY <1>1, TableTypes, RowFields DEF IsClaimed, IsAcknowledged, Unused, Exists
<1>2. ASSUME NEW s \in Senders,
             SendReplays(s) \/ SendLookup(s) \/ SendRefused(s) \/ SendInserts(s)
      PROVE  ~IsClaimed(d)
  <2>1. CASE SendInserts(s)
    <3>1. PICK e \in Ids : InsertWithEvent(e, NewRow(request[s]))
      BY <2>1 DEF SendInserts
    <3>2. IsInserted(e) /\ \A f \in Ids \ {e} : Same(f)
      BY <2>1, <3>1, InsertStep
    <3> QED
      BY <1>1, <3>2 DEF IsInserted, Same
  <2> QED
    BY <1>1, <1>2, <2>1 DEF SendReplays, SendLookup, SendRefused
<1>3. ASSUME NEW p \in Reporters,
             ReceiptReplays(p) \/ ReceiptLookup(p) \/ ReceiptFinishes(p) \/ ReceiptFails(p)
      PROVE  ~IsClaimed(d)
  <2>1. CASE ReceiptFinishes(p)
    BY <1>1, <2>1, AcknowledgeStep DEF Same
  <2> QED
    BY <1>1, <1>3, <2>1 DEF ReceiptReplays, ReceiptLookup, ReceiptFails
<1>4. ASSUME NEW c \in Cleaners, CleanerStep(c) \/ CleanFails(c)
      PROVE  ~IsClaimed(d)
  BY <1>1, <1>4 DEF CleanerStep, CleanSelect, CleanFindsNone, CleanDelete, CleanFails, ForgetBatch
<1> QED
  BY <1>1, <1>2, <1>3, <1>4 DEF ServiceNext, CleanerNext

-----------------------------------------------------------------------------
(* What a worker's step means for a delivery *)

\* The worker holds the delivery and its provider has not answered for it yet.
Untried(w, d) == Holds(w, d) /\ ~(workerPc[w] = "finishing" /\ current[w] = d)

\* A hold ends with an outcome or an orphan, and begins with a claim.
HoldStep(w, d) ==
    /\ Holds(w, d) => Holds(w, d)' \/ d \in orphans' \/ IsSettled(d)
    /\ Holds(w, d)' => Holds(w, d) \/ IsClaimed(d)
    /\ Untried(w, d)' => Untried(w, d) \/ IsClaimed(d)
    /\ IsClaimed(d) => Holds(w, d)' \/ d \in orphans'
    /\ d \in orphans => d \in orphans'
    /\ d \in orphans' => \/ d \in orphans
                         \/ /\ Holds(w, d) \/ IsClaimed(d)
                            /\ ~Holds(w, d)' /\ (IsClaimed(d) \/ Same(d))

\* Messages are sent by the worker that has the delivery in hand, one for its attempt.
SendStep(w, d) ==
    /\ \/ sends'[d] = sends[d]
       \/ Untried(w, d) /\ ~Untried(w, d)' /\ Same(d) /\ sends'[d] = sends[d] + 1
    /\ Holds(w, d)' /\ batch'[w][d].ref # NoRef =>
            (Holds(w, d) /\ batch[w][d].ref # NoRef) \/ sends'[d] > 0

OthersStand(w) ==
    \A v \in Workers \ {w} : /\ workerPc'[v] = workerPc[v]
                             /\ batch'[v] = batch[v]
                             /\ current'[v] = current[v]

\* A claim transaction that ends takes its locks along: by COMMIT they are holds, or
\* orphans when RunOnce does not hear of it.
LEMMA ClaimHistory ==
    ASSUME PipelineInv, NEW w \in Workers, NEW d \in Ids,
           \/ ClaimSelect(w) \/ ClaimCommit(w) \/ ClaimCommitUnreported(w)
           \/ ClaimRollback(w) \/ ClaimFails(w)
    PROVE  HoldStep(w, d) /\ SendStep(w, d) /\ OthersStand(w)
<1> USE TableTypes DEF storeVars
<1>a. workerPc[w] \in {"idle", "claiming"} /\ ~Holds(w, d) /\ UNCHANGED sends
  BY DEF ClaimSelect, ClaimCommit, ClaimCommitUnreported, ClaimRollback, ClaimFails, Holds, Claiming
<1>b. OthersStand(w)
  BY DEF OthersStand, ClaimSelect, ClaimCommit, ClaimCommitUnreported, ClaimRollback, ClaimFails, Reset
<1>c. SUFFICES HoldStep(w, d) /\ (Holds(w, d)' => batch'[w][d].ref = NoRef)
  BY <1>a, <1>b DEF SendStep
<1>1. CASE ClaimSelect(w) \/ ClaimRollback(w) \/ ClaimFails(w)
  <2>1. ~Holds(w, d)' /\ UNCHANGED <<rows, orphans>>
    BY <1>1 DEF ClaimSelect, ClaimRollback, ClaimFails, Reset, Holds, Claiming
  <2>2. ~IsClaimed(d)
    BY <2>1, OtherSteps
  <2> QED
    BY <1>a, <2>1, <2>2 DEF HoldStep, Untried
<1>2. CASE ClaimCommit(w)
  <2>1. IF Locks(w, d) THEN IsClaimed(d) ELSE Same(d)
    BY <1>2, ClaimStep DEF ClaimCommit
  <2>2. workerPc'[w] = "working" /\ UNCHANGED <<batch, orphans>> /\ workerPc[w] = "claiming"
    BY <1>2 DEF ClaimCommit
  <2>3. Holds(w, d)' = Locks(w, d)
    BY <2>2 DEF Holds, Claiming, Locks
  <2>4. Same(d) => ~IsClaimed(d)
    BY RowFields DEF Same, IsClaimed, Exists
  <2>5. Locks(w, d) => batch[w][d].ref = NoRef
    <3>1. ClaimSound(w, d) /\ RowSound(d)
      BY DEF PipelineInv
    <3> QED
      BY <3>1 DEF ClaimSound, RowSound, ReceiptStatuses
  <2> QED
    BY <1>a, <2>1, <2>2, <2>3, <2>4, <2>5 DEF HoldStep, Untried
<1>3. CASE ClaimCommitUnreported(w)
  <2>1. IF Locks(w, d) THEN IsClaimed(d) ELSE Same(d)
    BY <1>3, ClaimStep DEF ClaimCommitUnreported
  <2>2. /\ workerPc'[w] = "idle" /\ orphans' = orphans \cup Selected(w)
        /\ workerPc[w] = "claiming"
    BY <1>3 DEF ClaimCommitUnreported, Reset
  <2>3. ~Holds(w, d)' /\ (Locks(w, d) <=> d \in Selected(w))
    BY <2>2 DEF Holds, Claiming, Locks, Selected
  <2>4. Same(d) => ~IsClaimed(d)
    BY RowFields DEF Same, IsClaimed, Exists
  <2> QED
    BY <1>a, <2>1, <2>2, <2>3, <2>4 DEF HoldStep, Untried
<1> QED
  BY <1>1, <1>2, <1>3

\* deliver up to its outcome: the tables are left alone and the worker keeps its batch.
LEMMA DeliverHistory ==
    ASSUME PipelineInv, NEW w \in Workers, NEW d \in Ids,
           DeliverPrepare(w) \/ DeliverPrepareFails(w) \/ SendAccepted(w) \/ SendFails(w)
    PROVE  HoldStep(w, d) /\ SendStep(w, d) /\ OthersStand(w)
<1> USE TableTypes DEF storeVars
<1>a. UNCHANGED <<rows, events, orphans>> /\ Same(d)
  BY DEF DeliverPrepare, DeliverPrepareFails, SendAccepted, SendFails, Same
<1>b. ~IsClaimed(d)
  BY <1>a, OtherSteps
<1>c. OthersStand(w)
  BY DEF OthersStand, DeliverPrepare, DeliverPrepareFails, SendAccepted, SendFails, NextInBatch, Selected
<1>1. CASE DeliverPrepare(w)
  <2>1. /\ workerPc[w] = "working" /\ workerPc'[w] = "sending" /\ UNCHANGED <<batch, sends>>
    BY <1>1 DEF DeliverPrepare
  <2> QED
    BY <1>a, <1>b, <1>c, <2>1 DEF HoldStep, SendStep, Untried, Holds, Claiming
<1>2. CASE DeliverPrepareFails(w)
  <2>1. PICK e \in NextInBatch(w) :
          /\ current' = [current EXCEPT ![w] = e]
          /\ batch' = [batch EXCEPT ![w][e] = Failed(batch[w][e])]
    BY <1>2 DEF DeliverPrepareFails
  <2>2. e \in Ids /\ batch[w][e] \in Row
    BY TypeFacts DEF NextInBatch, Selected
  <2>3. Failed(batch[w][e]) # NoRow /\ Failed(batch[w][e]).ref = batch[w][e].ref
    BY <2>2, FailedFacts, RowFields
  <2>4. /\ workerPc[w] = "working" /\ workerPc'[w] = "finishing" /\ UNCHANGED sends
        /\ \A f \in Ids \ {e} : batch'[w][f] = batch[w][f]
        /\ batch'[w][e] = Failed(batch[w][e])
    BY <1>2, <2>1, <2>2 DEF DeliverPrepareFails, Copies
  <2>5. Holds(w, d)' <=> Holds(w, d)
    BY <2>2, <2>3, <2>4, RowFields DEF Holds, Claiming
  <2>6. Holds(w, d)' => batch'[w][d].ref = batch[w][d].ref
    BY <2>3, <2>4
  <2> QED
    BY <1>a, <1>b, <1>c, <2>4, <2>5, <2>6 DEF HoldStep, SendStep, Untried
<1>3. CASE SendAccepted(w) \/ SendFails(w)
  <2>1. PICK e \in Ids : e = current[w]
    BY <1>3 DEF SendAccepted, SendFails, TypeInv, LocalStateOK
  <2>2. batch[w][e] \in Row
    BY <1>3, <2>1, TypeFacts DEF SendAccepted, SendFails, TypeInv, LocalStateOK
  <2>3. PICK row \in Row :
          /\ batch' = [batch EXCEPT ![w][e] = row]
          /\ row.ref = NoRef \/ sends'[e] > 0 \/ row.ref = batch[w][e].ref
    <3>1. CASE SendAccepted(w)
      <4>1. PICK ref \in Refs : batch' = [batch EXCEPT ![w][e] = Succeeded(batch[w][e], ref)]
        BY <2>1, <3>1 DEF SendAccepted
      <4>2. Succeeded(batch[w][e], ref) \in Row
        BY <2>2, SucceededFacts
      <4>3. sends'[e] > 0
        BY <2>1, <3>1 DEF SendAccepted
      <4> QED
        BY <4>1, <4>2, <4>3
    <3>2. CASE SendFails(w)
      <4>1. batch' = [batch EXCEPT ![w][e] = Failed(batch[w][e])]
        BY <2>1, <3>2 DEF SendFails
      <4>2. Failed(batch[w][e]) \in Row /\ Failed(batch[w][e]).ref = batch[w][e].ref
        BY <2>2, FailedFacts
      <4> QED
        BY <4>1, <4>2
    <3> QED
      BY <1>3, <3>1, <3>2
  <2>4. /\ workerPc[w] = "sending" /\ workerPc'[w] = "finishing" /\ current'[w] = e
        /\ \A f \in Ids \ {e} : batch'[w][f] = batch[w][f]
        /\ batch'[w][e] = row /\ row # NoRow
    BY <1>3, <2>1, <2>3, RowFields DEF SendAccepted, SendFails, Copies
  <2>5. /\ sends'[e] \in {sends[e], sends[e] + 1}
        /\ \A f \in Ids \ {e} : sends'[f] = sends[f]
    BY <1>3, <2>1 DEF SendAccepted, SendFails
  <2>6. Holds(w, d)' <=> Holds(w, d)
    BY <2>2, <2>4, RowFields DEF Holds, Claiming
  <2>7. d = e => Untried(w, d) /\ ~Untried(w, d)'
    BY <2>2, <2>4, RowFields DEF Untried, Holds, Claiming
  <2>8. Untried(w, d)' => Untried(w, d)
    BY <2>4, <2>6 DEF Untried
  <2>9. SendStep(w, d)
    BY <1>a, <2>3, <2>4, <2>5, <2>6, <2>7 DEF SendStep
  <2> QED
    BY <1>a, <1>b, <1>c, <2>6, <2>8, <2>9 DEF HoldStep
<1> QED
  BY <1>1, <1>2, <1>3

\* The outcome transaction lets go of the delivery in hand, and of no other.
LEMMA FinishHistory ==
    ASSUME PipelineInv, NEW w \in Workers, NEW d \in Ids,
           DeliverFinish(w) \/ DeliverFinishFails(w)
    PROVE  HoldStep(w, d) /\ SendStep(w, d) /\ OthersStand(w)
<1> USE TableTypes
<1>1. PICK e \in Ids : e = current[w]
  BY DEF DeliverFinish, DeliverFinishFails, TypeInv, LocalStateOK
<1>2. /\ workerPc[w] = "finishing" /\ Holds(w, e) /\ Dequeue(w, e) /\ UNCHANGED sends
  BY <1>1 DEF DeliverFinish, DeliverFinishFails, TypeInv, LocalStateOK, Holds, Claiming
<1>3. /\ OthersStand(w) /\ ~Holds(w, e)'
      /\ \A f \in Ids \ {e} : batch'[w][f] = batch[w][f] /\ (Holds(w, f)' => Holds(w, f))
      /\ workerPc'[w] # "finishing"
  BY <1>1, <1>2, DequeueFacts DEF OthersStand
<1>4. \A f \in Ids \ {e} : Holds(w, f) => Holds(w, f)'
  <2>1. SUFFICES ASSUME NEW f \in Ids \ {e}, Holds(w, f) PROVE Holds(w, f)'
    OBVIOUS
  <2>2. Selected(w) # {e}
    BY <2>1 DEF Selected, Holds
  <2> QED
    BY <1>2, <1>3, <2>1, <2>2 DEF Dequeue, Holds, Claiming
<1>5. SendStep(w, d)
  BY <1>2, <1>3 DEF SendStep
<1>6. Untried(w, d)' => Untried(w, d)
  BY <1>1, <1>3 DEF Untried
<1>7. CASE DeliverFinish(w)
  <2>1. IsSettled(e) /\ (\A f \in Ids \ {e} : Same(f)) /\ UNCHANGED orphans
    BY <1>1, <1>7, SettleStep DEF DeliverFinish
  <2>2. ~IsClaimed(d)
    BY <2>1, RowFields DEF IsSettled, Same, IsClaimed, Exists
  <2> QED
    BY <1>3, <1>4, <1>5, <1>6, <2>1, <2>2 DEF HoldStep
<1>8. CASE DeliverFinishFails(w)
  <2>1. UNCHANGED <<rows, events>> /\ orphans' = orphans \cup {e}
    BY <1>1, <1>8 DEF DeliverFinishFails
  <2>2. Same(d) /\ ~IsClaimed(d)
    BY <2>1, OtherSteps DEF Same
  <2> QED
    BY <1>2, <1>3, <1>4, <1>5, <1>6, <2>1, <2>2 DEF HoldStep
<1> QED
  BY <1>7, <1>8

\* stop waits for the batch; only the end of the process drops it.
LEMMA LifeHistory ==
    ASSUME PipelineInv, NEW w \in Workers, NEW d \in Ids,
           WorkerStop(w) \/ WorkerExit(w) \/ WorkerStart(w) \/ WorkerCrash(w)
    PROVE  HoldStep(w, d) /\ SendStep(w, d) /\ OthersStand(w)
<1> USE TableTypes DEF storeVars
<1>a. UNCHANGED <<rows, events>> /\ Same(d)
  BY DEF WorkerStop, WorkerExit, WorkerStart, WorkerCrash, Same
<1>b. ~IsClaimed(d)
  BY <1>a, OtherSteps
<1>c. OthersStand(w)
  BY DEF OthersStand, WorkerStop, WorkerExit, WorkerStart, WorkerCrash, Reset
<1>1. CASE WorkerStop(w)
  BY <1>1, <1>a, <1>b, <1>c DEF WorkerStop, HoldStep, SendStep, Untried, Holds, Claiming
<1>2. CASE WorkerExit(w) \/ WorkerStart(w)
  <2>1. ~Holds(w, d) /\ ~Holds(w, d)' /\ UNCHANGED <<orphans, sends>>
    BY <1>2 DEF WorkerExit, WorkerStart, Reset, Holds, Claiming
  <2> QED
    BY <1>a, <1>b, <1>c, <2>1 DEF HoldStep, SendStep, Untried
<1>3. CASE WorkerCrash(w)
  <2>1. ~Holds(w, d)' /\ orphans' = orphans \cup (IF Claiming(w) THEN Selected(w) ELSE {})
    BY <1>3 DEF WorkerCrash, Reset, Holds, Claiming
  <2>2. HoldStep(w, d)
    BY <1>a, <1>b, <2>1 DEF HoldStep, Untried, Holds, Selected
  <2>3. \/ sends'[d] = sends[d]
        \/ workerPc[w] = "sending" /\ current[w] = d /\ sends'[d] = sends[d] + 1
    BY <1>3 DEF WorkerCrash
  <2>4. workerPc[w] = "sending" /\ current[w] = d => Untried(w, d)
    BY DEF TypeInv, LocalStateOK, Untried, Holds, Claiming
  <2> QED
    BY <1>a, <1>c, <2>1, <2>2, <2>3, <2>4 DEF SendStep, Untried
<1> QED
  BY <1>1, <1>2, <1>3

LEMMA WorkerHistory ==
    ASSUME PipelineInv, NEW w \in Workers, NEW d \in Ids,
           WorkerStep(w) \/ WorkerDisruption(w) \/ WorkerStart(w)
    PROVE  HoldStep(w, d) /\ SendStep(w, d) /\ OthersStand(w)
<1>1. \/ ClaimSelect(w) \/ ClaimCommit(w) \/ ClaimCommitUnreported(w)
      \/ ClaimRollback(w) \/ ClaimFails(w)
      \/ DeliverPrepare(w) \/ DeliverPrepareFails(w) \/ SendAccepted(w) \/ SendFails(w)
      \/ DeliverFinish(w) \/ DeliverFinishFails(w)
      \/ WorkerStop(w) \/ WorkerExit(w) \/ WorkerStart(w) \/ WorkerCrash(w)
  BY DEF WorkerStep, WorkerDisruption
<1> QED
  BY <1>1, ClaimHistory, DeliverHistory, FinishHistory, LifeHistory

-----------------------------------------------------------------------------
(* The invariant about the history of deliveries *)

\* A delivery its worker lost stays in processing and nobody holds it.
OrphanSound(d) ==
    d \in orphans =>
        Exists(d) /\ rows[d].status = "processing" /\ \A w \in Workers : ~Holds(w, d)

\* A held delivery may be sent once more only while the attempt it was claimed for is
\* not answered, and a copy names a message only after a provider took one.
SendsSound(d) ==
    /\ events[d] = <<>> => sends[d] = 0
    /\ sends[d] <= MaxAttempts
    /\ Exists(d) => sends[d] <= rows[d].attempts
    /\ Exists(d) /\ rows[d].ref # NoRef => sends[d] > 0
    /\ \A w \in Workers : Untried(w, d) => sends[d] < rows[d].attempts
    /\ \A w \in Workers : Holds(w, d) /\ batch[w][d].ref # NoRef => sends[d] > 0

OwnedSound(d) ==
    Exists(d) /\ rows[d].status = "processing" =>
        d \in orphans \/ \E w \in Workers : Holds(w, d)

HistoryInv ==
    /\ PipelineInv
    /\ \A d \in Ids : OrphanSound(d) /\ OwnedSound(d) /\ SendsSound(d)

LEMMA HistoryInit == Init => HistoryInv
<1> SUFFICES ASSUME Init PROVE HistoryInv
  OBVIOUS
<1>1. PipelineInv
  BY PipelineInit
<1> QED
  BY <1>1 DEF HistoryInv, Init, StoreInit, DispatcherInit, OrphanSound, OwnedSound, SendsSound,
       Untried, Holds, Claiming, Exists, EmptyBatch

\* Who moves: one worker, or none.
LEMMA Movers ==
    ASSUME [Next]_vars
    PROVE  \/ \E w \in Workers : WorkerStep(w) \/ WorkerDisruption(w) \/ WorkerStart(w)
           \/ /\ UNCHANGED <<workerPc, batch, current, sends, orphans>>
              /\ ServiceNext \/ CleanerNext \/ UNCHANGED rows
  BY DEF Next, DispatcherNext, Tick, StoreTick, vars, dispatcherVars, storeVars

\* How the holds on a delivery and its messages change in a step.
HoldsStep(d) ==
    /\ \A u \in Workers : Holds(u, d) => Holds(u, d)' \/ d \in orphans' \/ IsSettled(d)
    /\ \A u \in Workers : Holds(u, d)' => Holds(u, d) \/ IsClaimed(d)
    /\ \A u \in Workers : Untried(u, d)' => Untried(u, d) \/ IsClaimed(d)
    /\ IsClaimed(d) => d \in orphans' \/ \E u \in Workers : Holds(u, d)'
    /\ d \in orphans => d \in orphans'
    /\ d \in orphans' => \/ d \in orphans
                         \/ IsClaimed(d) /\ \A u \in Workers : ~Holds(u, d)'
                         \/ Same(d) /\ \E u \in Workers : Holds(u, d) /\ ~Holds(u, d)'
    /\ \/ sends'[d] = sends[d]
       \/ /\ Same(d) /\ sends'[d] = sends[d] + 1
          /\ \E u \in Workers : Untried(u, d) /\ ~Untried(u, d)'
    /\ \A u \in Workers : Holds(u, d)' /\ batch'[u][d].ref # NoRef =>
            (Holds(u, d) /\ batch[u][d].ref # NoRef) \/ sends'[d] > 0

LEMMA HoldsSteps ==
    ASSUME PipelineInv, [Next]_vars, NEW d \in Ids
    PROVE  HoldsStep(d)
<1>1. ASSUME NEW w \in Workers, WorkerStep(w) \/ WorkerDisruption(w) \/ WorkerStart(w)
      PROVE  HoldsStep(d)
  <2>1. HoldStep(w, d) /\ SendStep(w, d) /\ OthersStand(w)
    BY <1>1, WorkerHistory
  <2>2. \A v \in Workers \ {w} : /\ Holds(v, d)' <=> Holds(v, d)
                                 /\ Untried(v, d)' <=> Untried(v, d)
                                 /\ batch'[v][d] = batch[v][d]
    BY <2>1 DEF OthersStand, Untried, Holds, Claiming
  <2>3. IsClaimed(d) => \A v \in Workers : ~Holds(v, d)
    BY DEF PipelineInv, HoldSound, IsClaimed
  <2> QED
    BY <2>1, <2>2, <2>3 DEF HoldStep, SendStep, HoldsStep
<1>2. CASE /\ UNCHANGED <<workerPc, batch, current, sends, orphans>>
           /\ ServiceNext \/ CleanerNext \/ UNCHANGED rows
  <2>1. ~IsClaimed(d)
    BY <1>2, OtherSteps
  <2> QED
    BY <1>2, <2>1 DEF HoldsStep, Untried, Holds, Claiming
<1> QED
  BY <1>1, <1>2, Movers

LEMMA OrphanStep ==
    ASSUME HistoryInv, [Next]_vars, NEW d \in Ids
    PROVE  OrphanSound(d)'
<1>1. HoldsStep(d) /\ DeliveryStep(d) /\ OrphanSound(d)
  BY HoldsSteps, DeliverySteps DEF HistoryInv
<1>h. \A u \in Workers : HoldSound(u, d)
  BY DEF HistoryInv, PipelineInv
<1>2. CASE d \in orphans
  <2>1. Same(d)
    BY <1>1, <1>2 DEF OrphanSound, DeliveryStep, IsClaimed, IsPurged, IsSettled, IsAcknowledged,
         IsInserted, Unused
  <2>2. ~IsClaimed(d)
    BY <1>1, <1>2 DEF OrphanSound, IsClaimed
  <2> QED
    BY <1>1, <1>2, <2>1, <2>2 DEF OrphanSound, HoldsStep, Same, Exists
<1>3. CASE d \in orphans' /\ d \notin orphans
  <2>1. CASE IsClaimed(d) /\ \A u \in Workers : ~Holds(u, d)'
    BY <2>1, RowFields DEF OrphanSound, IsClaimed, Exists
  <2>2. CASE Same(d) /\ \E u \in Workers : Holds(u, d) /\ ~Holds(u, d)'
    <3>1. PICK u \in Workers : Holds(u, d) /\ ~Holds(u, d)'
      BY <2>2
    <3>2. /\ Exists(d) /\ rows[d].status = "processing"
          /\ \A v \in Workers \ {u} : ~Holds(v, d)
      BY <1>h, <3>1 DEF HoldSound
    <3>3. ~IsClaimed(d)
      BY <3>2 DEF IsClaimed
    <3>4. \A v \in Workers : ~Holds(v, d)'
      BY <1>1, <3>1, <3>2, <3>3 DEF HoldsStep
    <3> QED
      BY <2>2, <3>2, <3>4 DEF OrphanSound, Same, Exists
  <2> QED
    BY <1>1, <1>3, <2>1, <2>2 DEF HoldsStep
<1>4. CASE d \notin orphans'
  BY <1>4 DEF OrphanSound
<1> QED
  BY <1>2, <1>3, <1>4

LEMMA OwnedStep ==
    ASSUME HistoryInv, [Next]_vars, NEW d \in Ids
    PROVE  OwnedSound(d)'
<1>1. HoldsStep(d) /\ DeliveryStep(d) /\ OwnedSound(d)
  BY HoldsSteps, DeliverySteps DEF HistoryInv
<1> SUFFICES ASSUME Exists(d)', rows'[d].status = "processing"
             PROVE  d \in orphans' \/ \E w \in Workers : Holds(w, d)'
  BY DEF OwnedSound
<1>2. CASE IsClaimed(d)
  BY <1>1, <1>2 DEF HoldsStep
<1>3. CASE Same(d)
  <2>1. d \in orphans \/ \E w \in Workers : Holds(w, d)
    BY <1>1, <1>3 DEF OwnedSound, Same, Exists
  <2>2. ~IsSettled(d)
    BY DEF IsSettled, OutcomeSound
  <2> QED
    BY <1>1, <2>1, <2>2 DEF HoldsStep
<1> QED
  BY <1>1, <1>2, <1>3 DEF DeliveryStep, IsPurged, IsSettled, OutcomeSound, IsAcknowledged,
       ReceiptStatuses, IsInserted, Exists

LEMMA SendsStep ==
    ASSUME HistoryInv, [Next]_vars, NEW d \in Ids
    PROVE  SendsSound(d)'
<1>1. HoldsStep(d) /\ DeliveryStep(d) /\ SendsSound(d) /\ RowSound(d)
  BY HoldsSteps, DeliverySteps DEF HistoryInv, PipelineInv
<1>2. PipelineInv /\ PipelineInv'
  BY PipelineStep DEF HistoryInv
<1>3. /\ \A u \in Workers : HoldSound(u, d) /\ HoldSound(u, d)'
      /\ RowSound(d)'
  BY <1>2 DEF PipelineInv
<1>4. sends[d] \in Nat /\ events[d] \in Seq(Event)
  BY <1>2, TableTypes
<1>5. Exists(d) => rows[d] \in Row /\ rows[d].attempts \in Nat
  BY <1>2, TypeFacts, RowFields DEF PipelineInv
<1>6. CASE sends'[d] = sends[d]
  <2>1. events'[d] = <<>> => sends'[d] = 0
    <3>1. events'[d] = <<>> => events[d] = <<>>
      BY <1>1, <1>4 DEF DeliveryStep, Same, IsClaimed, IsPurged, IsSettled, IsAcknowledged, Written,
           IsInserted
    <3> QED
      BY <1>1, <1>6, <3>1 DEF SendsSound
  <2>2. Exists(d)' => sends'[d] <= rows'[d].attempts
    BY <1>1, <1>4, <1>5, <1>6 DEF DeliveryStep, SendsSound, Same, IsClaimed, IsPurged, IsSettled,
         IsAcknowledged, Written, IsInserted, Unused, Exists
  <2>3. Exists(d)' /\ rows'[d].ref # NoRef => sends'[d] > 0
    <3>1. CASE IsSettled(d)
      BY <1>1, <1>6, <3>1 DEF IsSettled, SendsSound
    <3> QED
      BY <1>1, <1>6, <3>1 DEF DeliveryStep, SendsSound, Same, IsClaimed, IsPurged,
           IsAcknowledged, Written, IsInserted, Exists
  <2>4. ASSUME NEW w \in Workers, Untried(w, d)' PROVE sends'[d] < rows'[d].attempts
    <3>1. Exists(d)' /\ rows'[d].status = "processing"
      BY <1>3, <2>4 DEF HoldSound, Untried
    <3>2. Same(d) \/ IsClaimed(d)
      BY <1>1, <3>1 DEF DeliveryStep, IsPurged, IsSettled, OutcomeSound, IsAcknowledged,
           ReceiptStatuses, IsInserted, Exists
    <3>3. CASE IsClaimed(d)
      BY <1>1, <1>4, <1>5, <1>6, <3>3 DEF IsClaimed, SendsSound
    <3>4. CASE ~IsClaimed(d)
      BY <1>1, <1>6, <2>4, <3>2, <3>4 DEF HoldsStep, SendsSound, Same
    <3> QED
      BY <3>3, <3>4
  <2>5. \A w \in Workers : Holds(w, d)' /\ batch'[w][d].ref # NoRef => sends'[d] > 0
    BY <1>1, <1>6 DEF HoldsStep, SendsSound
  <2> QED
    BY <1>1, <1>6, <2>1, <2>2, <2>3, <2>4, <2>5 DEF SendsSound
<1>7. CASE /\ Same(d) /\ sends'[d] = sends[d] + 1
           /\ \E u \in Workers : Untried(u, d) /\ ~Untried(u, d)'
  <2>1. PICK u \in Workers : Untried(u, d) /\ ~Untried(u, d)'
    BY <1>7
  <2>2. /\ Exists(d) /\ rows[d].status = "processing" /\ sends[d] < rows[d].attempts
        /\ \A v \in Workers \ {u} : ~Holds(v, d)
    BY <1>1, <1>3, <2>1 DEF HoldSound, Untried, SendsSound
  <2>3. \A v \in Workers : ~Untried(v, d)'
    <3>1. ~IsClaimed(d)
      BY <2>2 DEF IsClaimed
    <3> QED
      BY <1>1, <2>1, <2>2, <3>1 DEF HoldsStep, Untried
  <2>4. events'[d] # <<>> /\ rows[d].attempts <= MaxAttempts
    BY <1>1, <1>7, <2>2 DEF RowSound, Same
  <2> QED
    BY <1>4, <1>5, <1>7, <2>2, <2>3, <2>4 DEF SendsSound, Same
<1> QED
  BY <1>1, <1>6, <1>7 DEF HoldsStep

\* The invariant about owners, orphans and copies sent holds throughout.
THEOREM HistoryInvariant == Spec => []HistoryInv
<1>1. HistoryInv /\ [Next]_vars => HistoryInv'
  BY PipelineStep, OrphanStep, OwnedStep, SendsStep DEF HistoryInv
<1> QED
  BY <1>1, HistoryInit, PTL DEF Spec

\* No delivery is in processing without a worker, unless a worker lost it.
THEOREM ProcessingStaysOwned == Spec => []ProcessingIsOwned
<1>1. HistoryInv => ProcessingIsOwned
  BY DEF HistoryInv, OwnedSound, ProcessingIsOwned
<1> QED
  BY <1>1, HistoryInvariant, PTL

\* Through retries, crashes and lost answers no recipient gets more than MaxAttempts copies.
THEOREM CopiesStayBounded == Spec => []SendsBounded
<1>1. HistoryInv => SendsBounded
  BY DEF HistoryInv, SendsSound, SendsBounded
<1> QED
  BY <1>1, HistoryInvariant, PTL

\* A row names a message exactly from status sent on, and a provider took that message.
THEOREM RefsFollowSends == Spec => []RefIffSent
<1>1. HistoryInv => RefIffSent
  BY DEF HistoryInv, PipelineInv, RowSound, SendsSound, RefIffSent
<1> QED
  BY <1>1, HistoryInvariant, PTL

\* Nothing in the program ever touches a delivery whose worker lost it.
THEOREM OrphansStayStuck == Spec => OrphansAreStuck
<1>1. HistoryInv /\ [Next]_vars =>
        [\A d \in orphans : Exists(d) /\ rows[d].status = "processing" => rows'[d] = rows[d]]_vars
  <2> SUFFICES ASSUME HistoryInv, [Next]_vars, NEW d \in orphans,
                      Exists(d), rows[d].status = "processing"
               PROVE  rows'[d] = rows[d]
    OBVIOUS
  <2>1. d \in Ids /\ OrphanSound(d) /\ DeliveryStep(d)
    BY TableTypes, DeliverySteps DEF HistoryInv
  <2> QED
    BY <2>1 DEF OrphanSound, DeliveryStep, Same, IsClaimed, IsPurged, IsSettled, IsAcknowledged,
         IsInserted, Unused
<1> QED
  BY <1>1, HistoryInvariant, PTL DEF Spec, OrphansAreStuck

-----------------------------------------------------------------------------
(* The outbox *)

\* EventsMirrorRows for one delivery.
Increasing(log) == \A i \in 1 .. Len(log) - 1 : log[i].version < log[i + 1].version

LastTells(log, row) ==
    /\ log # <<>>
    /\ IF row.status = "processing"
       THEN /\ log[Len(log)].status \in {"pending", "retrying"}
            /\ log[Len(log)].version = row.version - 1
       ELSE log[Len(log)].status = row.status /\ log[Len(log)].version = row.version

EventsSound(d) == Increasing(events[d]) /\ (Exists(d) => LastTells(events[d], rows[d]))

\* An event with a newer version may be appended.
LEMMA AppendIncreases ==
    ASSUME NEW log \in Seq(Event), NEW e \in Event, Increasing(log),
           log # <<>> => log[Len(log)].version < e.version
    PROVE  /\ Increasing(Append(log, e)) /\ Append(log, e) # <<>>
           /\ Append(log, e)[Len(Append(log, e))] = e
<1> DEFINE new == Append(log, e)
<1>1. /\ Len(log) \in Nat /\ Len(new) = Len(log) + 1
      /\ new[Len(log) + 1] = e
      /\ \A i \in 1 .. Len(log) : new[i] = log[i]
      /\ new \in Seq(Event)
  OBVIOUS
<1>2. ASSUME NEW i \in 1 .. Len(new) - 1 PROVE new[i].version < new[i + 1].version
  <2>1. CASE i = Len(log)
    <3>1. log # <<>>
      BY <1>1, <2>1
    <3> QED
      BY <1>1, <2>1, <3>1
  <2>2. CASE i # Len(log)
    <3>1. i \in 1 .. Len(log) - 1 /\ new[i] = log[i] /\ new[i + 1] = log[i + 1]
      BY <1>1, <1>2, <2>2
    <3> QED
      BY <3>1 DEF Increasing
  <2> QED
    BY <2>1, <2>2
<1>3. new # <<>> /\ new[Len(new)] = e
  BY <1>1
<1> QED
  BY <1>2, <1>3 DEF Increasing

LEMMA EventsStep ==
    ASSUME PipelineInv, [Next]_vars, NEW d \in Ids, EventsSound(d)
    PROVE  EventsSound(d)'
<1>1. DeliveryStep(d) /\ events[d] \in Seq(Event)
  BY DeliverySteps, TableTypes
<1>2. Exists(d) => rows[d] \in Row /\ rows[d].version \in Nat
  BY TypeFacts, RowFields DEF PipelineInv
<1>3. CASE Same(d)
  BY <1>3 DEF Same, EventsSound, Exists
<1>4. CASE IsClaimed(d)
  BY <1>2, <1>4 DEF IsClaimed, EventsSound, LastTells, Exists
<1>5. CASE IsPurged(d)
  BY <1>5 DEF IsPurged, EventsSound, Exists
<1>6. CASE IsSettled(d) \/ IsAcknowledged(d)
  <2>1. PICK e \in Event :
          /\ events'[d] = Append(events[d], e)
          /\ e.status = rows'[d].status /\ e.version = rows'[d].version
    BY <1>6 DEF IsSettled, IsAcknowledged, Written
  <2>2. Exists(d) /\ rows'[d].version = rows[d].version + 1 /\ rows'[d].status # "processing"
    BY <1>6 DEF IsSettled, IsAcknowledged, Written, OutcomeSound, ReceiptStatuses
  <2>3. events[d] # <<>> /\ events[d][Len(events[d])].version < e.version
    BY <1>2, <2>1, <2>2 DEF EventsSound, LastTells
  <2>4. Increasing(events'[d]) /\ events'[d] # <<>> /\ events'[d][Len(events'[d])] = e
    BY <1>1, <2>1, <2>3, AppendIncreases DEF EventsSound
  <2> QED
    BY <2>1, <2>2, <2>4 DEF EventsSound, LastTells
<1>7. CASE IsInserted(d)
  <2>1. PICK e \in Event :
          events'[d] = Append(events[d], e) /\ e.status = "pending" /\ e.version = 1
    BY <1>7 DEF IsInserted
  <2>2. events[d] = <<>>
    BY <1>7 DEF IsInserted, Unused
  <2>3. Increasing(events'[d]) /\ events'[d] # <<>> /\ events'[d][Len(events'[d])] = e
    BY <1>1, <2>1, <2>2, AppendIncreases DEF EventsSound
  <2> QED
    BY <1>7, <2>1, <2>3 DEF IsInserted, EventsSound, LastTells
<1> QED
  BY <1>1, <1>3, <1>4, <1>5, <1>6, <1>7 DEF DeliveryStep

\* A consumer of the outbox can follow every delivery: versions increase from event to
\* event, and the last event is what the row says.
THEOREM EventsTell == Spec => []EventsMirrorRows
<1>1. Init => \A d \in Ids : EventsSound(d)
  BY DEF Init, StoreInit, EventsSound, Increasing, Exists
<1>2. PipelineInv /\ (\A d \in Ids : EventsSound(d)) /\ [Next]_vars =>
        (\A d \in Ids : EventsSound(d))'
  BY EventsStep
<1>3. (\A d \in Ids : EventsSound(d)) <=> EventsMirrorRows
  BY DEF EventsSound, Increasing, LastTells, EventsMirrorRows
<1> QED
  BY <1>1, <1>2, <1>3, PipelineInvariant, PTL DEF Spec

\* Send answers with a delivery that is in the table when it answers.
LEMMA ReplySteps ==
    ASSUME PipelineInv, [Next]_vars, NEW r \in replies' \ replies
    PROVE  r.id \in Ids /\ Exists(r.id)' /\ rows'[r.id].identity = r.identity
<1>1. PICK s \in Senders : SendReplays(s) \/ SendInserts(s)
  BY DEF Next, Tick, DispatcherNext, CleanerNext, ServiceNext, serviceVars, vars, SendLookup,
         SendRefused, ReceiptReplays, ReceiptLookup, ReceiptFinishes, ReceiptFails, ReceiptReturns
<1>2. CASE SendReplays(s)
  BY <1>2 DEF SendReplays, Exists, storeVars
<1>3. CASE SendInserts(s)
  <2>1. PICK d \in Ids :
          InsertWithEvent(d, NewRow(request[s])) /\ r = [identity |-> request[s], id |-> d]
    BY <1>3 DEF SendInserts
  <2>2. IsInserted(d) /\ rows'[d].identity = request[s]
    BY <1>3, <2>1, InsertStep
  <2> QED
    BY <2>1, <2>2, RowFields DEF IsInserted, Exists
<1> QED
  BY <1>1, <1>2, <1>3

\* A delivery a client was told of stays until its outcome is known: only the cleaner removes
\* it, and only when its last event said sent or dead.
THEOREM RepliesStay == Spec => []RepliesAreKept
<1>1. Init => RepliesAreKept
  BY DEF Init, ServiceInit, RepliesAreKept
<1>2. PipelineInv /\ EventsMirrorRows /\ RepliesAreKept /\ [Next]_vars => RepliesAreKept'
  <2> SUFFICES ASSUME PipelineInv, EventsMirrorRows, RepliesAreKept, [Next]_vars, NEW r \in replies'
               PROVE  IF Exists(r.id)'
                      THEN rows'[r.id].identity = r.identity
                      ELSE /\ events'[r.id] # <<>>
                           /\ events'[r.id][Len(events'[r.id])].status \in {"sent", "dead_letter"}
    BY DEF RepliesAreKept
  <2>1. CASE r \in replies
    <3> DEFINE d == r.id
    <3>1. d \in Ids
      BY <2>1 DEF PipelineInv, TypeInv, TypeOK, ServiceTypeOK, Reply
    <3>2. DeliveryStep(d)
      BY <3>1, DeliverySteps
    <3>3. CASE Exists(d)
      <4>1. rows[d].identity = r.identity
        BY <2>1, <3>3 DEF RepliesAreKept
      <4>2. CASE IsPurged(d)
        <5>1. /\ events[d] # <<>>
              /\ events[d][Len(events[d])].status = rows[d].status
          BY <3>1, <3>3, <4>2 DEF IsPurged, EventsMirrorRows
        <5> QED
          BY <4>2, <5>1 DEF IsPurged, Exists
      <4>3. CASE ~IsPurged(d)
        <5>1. Exists(d)' /\ rows'[d].identity = rows[d].identity
          BY <3>2, <3>3, <4>3, RowFields DEF DeliveryStep, Same, IsClaimed, IsSettled,
               IsAcknowledged, Written, IsInserted, Unused, Exists
        <5> QED
          BY <4>1, <5>1
      <4> QED
        BY <4>2, <4>3
    <3>4. CASE ~Exists(d)
      <4>1. events[d] # <<>> /\ events[d][Len(events[d])].status \in {"sent", "dead_letter"}
        BY <2>1, <3>4 DEF RepliesAreKept
      <4>2. Same(d)
        BY <3>2, <3>4, <4>1 DEF DeliveryStep, IsClaimed, IsPurged, IsSettled, IsAcknowledged,
             Written, IsInserted, Unused
      <4> QED
        BY <3>4, <4>1, <4>2 DEF Same, Exists
    <3> QED
      BY <3>3, <3>4
  <2>2. CASE r \notin replies
    BY <2>2, ReplySteps
  <2> QED
    BY <2>1, <2>2
<1> QED
  BY <1>1, <1>2, PipelineInvariant, EventsTell, PTL DEF Spec

-----------------------------------------------------------------------------
(* Refinement *)

Phase == [d \in Ids |-> AbstractPhase(d)]

Tries == [d \in Ids |-> AbstractTries(d)]

\* What the steps of a delivery are to its life.
LEMMA PhaseSteps ==
    ASSUME PipelineInv, NEW d \in Ids
    PROVE  /\ Same(d) => AbstractPhase(d)' = AbstractPhase(d) /\ AbstractTries(d)' = AbstractTries(d)
           /\ IsClaimed(d) =>
                /\ AbstractPhase(d) = "waiting" /\ AbstractPhase(d)' = "trying"
                /\ AbstractTries(d) < MaxAttempts /\ AbstractTries(d)' = AbstractTries(d) + 1
           /\ IsPurged(d) =>
                /\ AbstractPhase(d) \in {"sent", "dead_letter"} /\ AbstractPhase(d)' = "purged"
                /\ AbstractTries(d)' = 0
           /\ IsInserted(d) =>
                /\ AbstractPhase(d) = "absent" /\ AbstractPhase(d)' = "waiting"
                /\ AbstractTries(d)' = AbstractTries(d)
           /\ IsAcknowledged(d) =>
                /\ AbstractPhase(d) = "sent"
                /\ AbstractPhase(d)' \in {"delivered", "bounced", "failed"}
                /\ AbstractTries(d)' = AbstractTries(d)
           /\ IsSettled(d) =>
                /\ AbstractPhase(d) = "trying" /\ AbstractTries(d)' = AbstractTries(d)
                /\ \/ AbstractPhase(d)' = "sent"
                   \/ AbstractPhase(d)' = "waiting" /\ AbstractTries(d) < MaxAttempts
                   \/ AbstractPhase(d)' = "dead_letter" /\ AbstractTries(d) >= MaxAttempts
<1> USE DEF AbstractPhase, AbstractTries
<1>1. Same(d) => AbstractPhase(d)' = AbstractPhase(d) /\ AbstractTries(d)' = AbstractTries(d)
  BY DEF Same, Exists
<1>2. IsClaimed(d) =>
        /\ AbstractPhase(d) = "waiting" /\ AbstractPhase(d)' = "trying"
        /\ AbstractTries(d) < MaxAttempts /\ AbstractTries(d)' = AbstractTries(d) + 1
  BY RowFields DEF IsClaimed, Exists
<1>3. IsPurged(d) =>
        /\ AbstractPhase(d) \in {"sent", "dead_letter"} /\ AbstractPhase(d)' = "purged"
        /\ AbstractTries(d)' = 0
  <2>1. RowSound(d)
    BY DEF PipelineInv
  <2> QED
    BY <2>1 DEF IsPurged, RowSound, Exists
<1>4. IsInserted(d) =>
        /\ AbstractPhase(d) = "absent" /\ AbstractPhase(d)' = "waiting"
        /\ AbstractTries(d)' = AbstractTries(d)
  BY RowFields DEF IsInserted, Unused, Exists
<1>5. IsAcknowledged(d) =>
        /\ AbstractPhase(d) = "sent"
        /\ AbstractPhase(d)' \in {"delivered", "bounced", "failed"}
        /\ AbstractTries(d)' = AbstractTries(d)
  BY RowFields DEF IsAcknowledged, Written, ReceiptStatuses, Exists
<1>6. IsSettled(d) =>
        /\ AbstractPhase(d) = "trying" /\ AbstractTries(d)' = AbstractTries(d)
        /\ \/ AbstractPhase(d)' = "sent"
           \/ AbstractPhase(d)' = "waiting" /\ AbstractTries(d) < MaxAttempts
           \/ AbstractPhase(d)' = "dead_letter" /\ AbstractTries(d) >= MaxAttempts
  BY RowFields DEF IsSettled, Written, OutcomeSound, Exists
<1> QED
  BY <1>1, <1>2, <1>3, <1>4, <1>5, <1>6

\* A claimed batch is tried.
LEMMA ClaimsTry ==
    ASSUME PipelineInv, \A d \in Ids : Same(d) \/ IsClaimed(d)
    PROVE  Lifecycle!Next
<1> DEFINE S == {d \in Ids : IsClaimed(d)}
<1>1. Lifecycle!Try(S)
  <2>1. \A d \in S : Phase[d] = "waiting" /\ Tries[d] < MaxAttempts
    BY PhaseSteps DEF Phase, Tries
  <2>2. Phase' = [d \in Ids |-> IF d \in S THEN "trying" ELSE Phase[d]]
    BY PhaseSteps DEF Phase
  <2>3. Tries' = [d \in Ids |-> IF d \in S THEN Tries[d] + 1 ELSE Tries[d]]
    BY PhaseSteps DEF Tries
  <2> QED
    BY <2>1, <2>2, <2>3 DEF Lifecycle!Try, Phase, Tries
<1>2. S \in SUBSET Ids
  OBVIOUS
<1> HIDE DEF S
<1> QED
  BY <1>1, <1>2 DEF Lifecycle!Next

\* What the cleaner deletes is purged.
LEMMA DeletesPurge ==
    ASSUME PipelineInv, \A d \in Ids : Same(d) \/ IsPurged(d)
    PROVE  Lifecycle!Next
<1> DEFINE S == {d \in Ids : IsPurged(d)}
<1>1. Lifecycle!Purge(S)
  <2>1. \A d \in S : Phase[d] \in {"sent", "dead_letter"}
    BY PhaseSteps DEF Phase
  <2>2. Phase' = [d \in Ids |-> IF d \in S THEN "purged" ELSE Phase[d]]
    BY PhaseSteps DEF Phase
  <2>3. Tries' = [d \in Ids |-> IF d \in S THEN 0 ELSE Tries[d]]
    BY PhaseSteps DEF Tries
  <2> QED
    BY <2>1, <2>2, <2>3 DEF Lifecycle!Purge, Phase, Tries
<1>2. S \in SUBSET Ids
  OBVIOUS
<1> HIDE DEF S
<1> QED
  BY <1>1, <1>2 DEF Lifecycle!Next

\* A delivery that is written alone moves on alone.
LEMMA WritesMove ==
    ASSUME PipelineInv, NEW d \in Ids, IsSettled(d) \/ IsAcknowledged(d) \/ IsInserted(d),
           \A e \in Ids \ {d} : Same(e)
    PROVE  Lifecycle!Next
<1>1. UNCHANGED Tries
  BY PhaseSteps DEF Tries
<1>2. ASSUME NEW from, NEW to, AbstractPhase(d) = from, AbstractPhase(d)' = to
      PROVE  Lifecycle!Move(d, from, to)
  <2>1. Phase[d] = from /\ Phase' = [Phase EXCEPT ![d] = to]
    BY <1>2, PhaseSteps DEF Phase
  <2> QED
    BY <2>1 DEF Lifecycle!Move, Phase
<1>3. CASE IsInserted(d)
  BY <1>1, <1>2, <1>3, PhaseSteps DEF Lifecycle!Next, Lifecycle!Accept, Tries
<1>4. CASE IsAcknowledged(d)
  <2>1. PICK to \in {"delivered", "bounced", "failed"} : AbstractPhase(d)' = to
    BY <1>4, PhaseSteps
  <2> QED
    BY <1>1, <1>2, <1>4, <2>1, PhaseSteps DEF Lifecycle!Next, Lifecycle!Acknowledge, Tries
<1>5. CASE IsSettled(d)
  BY <1>1, <1>2, <1>5, PhaseSteps
     DEF Lifecycle!Next, Lifecycle!Succeed, Lifecycle!Retry, Lifecycle!GiveUp, Tries
<1> QED
  BY <1>3, <1>4, <1>5

\* The pipeline, with all its replicas, clients and failures, leads every delivery through
\* the life DeliveryLifecycle promises.
THEOREM PipelineImplementsLifecycle == Spec => ImplementsLifecycle
<1>1. Init => Lifecycle!Init
  BY DEF Init, StoreInit, Lifecycle!Init, AbstractPhase, AbstractTries, Exists
<1>2. PipelineInv /\ [Next]_vars => [Lifecycle!Next]_Lifecycle!lifecycleVars
  BY TableSteps, ClaimsTry, DeletesPurge, WritesMove DEF TableStep
<1> QED
  BY <1>1, <1>2, PipelineInvariant, PTL DEF Spec, ImplementsLifecycle, Lifecycle!Spec

=============================================================================
