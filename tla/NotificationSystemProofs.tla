---------------------- MODULE NotificationSystemProofs ----------------------
(***************************************************************************)
(* Proofs about NotificationSystem, for any sets of deliveries, actors and *)
(* identities and any bounds.                                              *)
(***************************************************************************)
EXTENDS NotificationSystem, FiniteSetTheorems, TLAPS

USE NullAssumption, AttemptsAssumption, BoundAssumption, BatchAssumption,
    RequestAssumption, CleanerAssumption

-----------------------------------------------------------------------------
(* The operators on rows *)

LEMMA BackoffType == ASSUME NEW n \in Nat PROVE retryBackoff(n) \in Nat
<1> DEFINE i == IF n < 1 THEN 1 ELSE IF n > 11 THEN 11 ELSE n
<1>1. i \in 1 .. 11
  OBVIOUS
<1>2. PowerOfTwo[i] \in Nat
  BY <1>1 DEF PowerOfTwo
<1> QED
  BY <1>2 DEF retryBackoff

\* What ClaimDue's UPDATE does to a row.
LEMMA ClaimedFacts ==
    ASSUME NEW row \in Row, now \in Nat
    PROVE  /\ Claimed(row) \in Row
           /\ Claimed(row).status = "processing"
           /\ Claimed(row).attempts = row.attempts + 1
           /\ Claimed(row).version = row.version + 1
           /\ Claimed(row).ref = row.ref
           /\ Claimed(row).identity = row.identity
<1>1. row.attempts + 1 \in Nat /\ row.version + 1 \in Nat /\ "processing" \in Statuses
  BY DEF Row, Statuses
<1>2. ASSUME NEW a \in Nat, NEW v \in Nat, NEW st \in Statuses
      PROVE  [row EXCEPT !.status = st, !.attempts = a, !.version = v, !.updatedAt = now] \in Row
  BY DEF Row
<1> QED
  BY <1>1, <1>2 DEF Claimed, Row

\* What the UPDATE of Finish does to the row, given the copy.
LEMMA FinishedFacts ==
    ASSUME NEW old \in Row, NEW row \in Row
    PROVE  /\ Finished(old, row) \in Row
           /\ Finished(old, row).status = row.status
           /\ Finished(old, row).attempts = old.attempts
           /\ Finished(old, row).version = old.version + 1
           /\ Finished(old, row).ref = row.ref
           /\ Finished(old, row).identity = old.identity
<1>1. old.version + 1 \in Nat
  BY DEF Row
<1>2. ASSUME NEW v \in Nat
      PROVE  [old EXCEPT !.status = row.status, !.ref = row.ref, !.nextAt = row.nextAt,
                         !.version = v, !.updatedAt = row.updatedAt] \in Row
  BY DEF Row
<1> QED
  BY <1>1, <1>2 DEF Finished, Row

\* What a successful send does to the worker's copy.
LEMMA SucceededFacts ==
    ASSUME NEW row \in Row, NEW ref \in Refs, now \in Nat
    PROVE  /\ Succeeded(row, ref) \in Row
           /\ Succeeded(row, ref).status = "sent"
           /\ Succeeded(row, ref).attempts = row.attempts
           /\ Succeeded(row, ref).version = row.version
           /\ Succeeded(row, ref).ref = ref
           /\ Succeeded(row, ref).identity = row.identity
  BY DEF Succeeded, Row, Statuses

\* What a failed attempt does to the worker's copy.
LEMMA FailedFacts ==
    ASSUME NEW row \in Row, now \in Nat
    PROVE  /\ Failed(row) \in Row
           /\ Failed(row).status \in {"retrying", "dead_letter"}
           /\ Failed(row).status = "retrying" => row.attempts < MaxAttempts
           /\ Failed(row).status = "dead_letter" => row.attempts >= MaxAttempts
           /\ Failed(row).attempts = row.attempts
           /\ Failed(row).version = row.version
           /\ Failed(row).ref = row.ref
           /\ Failed(row).identity = row.identity
<1>1. row.attempts \in Nat
  BY DEF Row
<1>2. CASE GivesUp(row)
  BY <1>2 DEF Failed, GivesUp, Row, Statuses
<1>3. CASE ~GivesUp(row)
  <2>1. now + retryBackoff(row.attempts) \in Nat
    BY <1>1, BackoffType
  <2>2. row.attempts < MaxAttempts
    BY <1>1, <1>3 DEF GivesUp
  <2>3. ASSUME NEW n \in Nat
        PROVE  [row EXCEPT !.status = "retrying", !.updatedAt = now, !.nextAt = n] \in Row
    BY DEF Row, Statuses
  <2>4. Failed(row) = [row EXCEPT !.status = "retrying", !.updatedAt = now,
                                  !.nextAt = now + retryBackoff(row.attempts)]
    BY <1>3 DEF Failed
  <2> QED
    BY <2>1, <2>2, <2>3, <2>4 DEF Row
<1> QED
  BY <1>2, <1>3

LEMMA EventTypes ==
    ASSUME NEW row \in Row
    PROVE  StatusEvent(row) \in Event /\ RequestedEvent(row) \in Event
  BY DEF StatusEvent, RequestedEvent, Row, Event

\* The row Send inserts.
LEMMA NewRowFacts ==
    ASSUME NEW identity \in Identities, now \in Nat
    PROVE  /\ NewRow(identity) \in Row
           /\ NewRow(identity).status = "pending"
           /\ NewRow(identity).ref = NoRef
           /\ NewRow(identity).attempts = 0
           /\ NewRow(identity).version = 1
           /\ NewRow(identity).identity = identity
  BY DEF NewRow, Row, Statuses

\* The copy RecordReceipt makes of a row.
LEMMA ReceiptedFacts ==
    ASSUME NEW row \in Row, NEW status \in ReceiptStatuses, now \in Nat
    PROVE  /\ Receipted(row, status) \in Row
           /\ Receipted(row, status).status = status
           /\ Receipted(row, status).attempts = row.attempts
           /\ Receipted(row, status).version = row.version
           /\ Receipted(row, status).ref = row.ref
           /\ Receipted(row, status).identity = row.identity
  BY DEF Receipted, Row, Statuses

-----------------------------------------------------------------------------
(* Type correctness *)

\* TypeOK is inductive together with LocalStateOK: deliver edits the copy of the
\* delivery in hand, which must therefore be a row.
TypeInv == TypeOK /\ LocalStateOK

LEMMA TypeInit == Init => TypeInv
  BY DEF Init, TypeInv, TypeOK, LocalStateOK, StoreInit, DispatcherInit, ServiceInit,
         CleanerInit, StoreTypeOK, DispatcherTypeOK, ServiceTypeOK, CleanerTypeOK,
         EmptyBatch, WorkerPcs

LEMMA StoreTransactionTypes ==
    ASSUME StoreTypeOK, NEW d \in Ids, NEW row \in Row
    PROVE  /\ FinishWithEvent(d, row) => /\ rows' \in [Ids -> Row \cup {NoRow}]
                                        /\ events' \in [Ids -> Seq(Event)]
           /\ InsertWithEvent(d, row) => /\ rows' \in [Ids -> Row \cup {NoRow}]
                                        /\ events' \in [Ids -> Seq(Event)]
<1>1. events[d] \in Seq(Event)
  BY DEF StoreTypeOK
<1>2. /\ Append(events[d], StatusEvent(row)) \in Seq(Event)
      /\ Append(events[d], RequestedEvent(row)) \in Seq(Event)
  BY <1>1, EventTypes
<1>3. VersionMatches(d, row) => Finished(rows[d], row) \in Row
  BY FinishedFacts DEF StoreTypeOK, VersionMatches, Exists
<1> QED
  BY <1>2, <1>3 DEF FinishWithEvent, InsertWithEvent, StoreTypeOK

LocalWorker ==
    \A w \in Workers :
        /\ workerPc[w] \in {"stopped", "idle"} => \A d \in Ids : batch[w][d] = NoRow
        /\ workerPc[w] \in {"sending", "finishing"} =>
                current[w] \in Ids /\ batch[w][current[w]] # NoRow

LocalReporter ==
    \A p \in Reporters : receiptId[p] # NoId =>
        receiptRow[p] # NoRow /\ receiptRow[p].status \in ReceiptStatuses

Copies == [Ids -> Row \cup {NoRow}]

LEMMA WorkerTypes ==
    ASSUME StoreTypeOK, DispatcherTypeOK, LocalWorker, NEW w \in Workers,
           WorkerStep(w) \/ WorkerDisruption(w) \/ WorkerStart(w)
    PROVE  StoreTypeOK' /\ DispatcherTypeOK' /\ LocalWorker'
<1> USE DEF StoreTypeOK, DispatcherTypeOK, LocalWorker, Copies
<1>a. batch[w] \in Copies /\ now \in Nat
  OBVIOUS
<1>b. ASSUME NEW pc \in {"idle", "stopped"}, Reset(w, pc)
      PROVE  /\ workerPc' \in [Workers -> WorkerPcs]
             /\ batch' \in [Workers -> Copies]
             /\ current' \in [Workers -> Ids \cup {NoId}]
             /\ LocalWorker'
  BY <1>b DEF Reset, EmptyBatch, WorkerPcs
<1>c. ASSUME NEW d \in Ids, Dequeue(w, d)
      PROVE  /\ workerPc' \in [Workers -> WorkerPcs]
             /\ batch' \in [Workers -> Copies]
             /\ current' \in [Workers -> Ids \cup {NoId}]
             /\ LocalWorker'
  BY <1>c DEF Dequeue, WorkerPcs, Selected
<1>d. ASSUME ClaimWrites(w) PROVE rows' \in Copies
  BY <1>d DEF ClaimWrites, Selected
<1>e. ASSUME Disrupted PROVE disruptions' \in Nat
  BY <1>e DEF Disrupted
<1>f. ASSUME workerPc[w] \in {"sending", "finishing"}
      PROVE  current[w] \in Ids /\ batch[w][current[w]] \in Row
  BY <1>f
<1>g. ASSUME NEW d \in Ids, NEW row \in Row,
             batch' = [batch EXCEPT ![w][d] = row], current'[w] = d,
             current' \in [Workers -> Ids \cup {NoId}],
             \A v \in Workers \ {w} : current'[v] = current[v],
             workerPc' = [workerPc EXCEPT ![w] = "finishing"]
      PROVE  /\ workerPc' \in [Workers -> WorkerPcs]
             /\ batch' \in [Workers -> Copies]
             /\ LocalWorker'
  BY <1>g DEF WorkerPcs
<1>1. CASE ClaimSelect(w)
  <2>1. PICK S \in SUBSET Ids \ {{}} :
          /\ S \subseteq {d \in Ids : IsDue(d)}
          /\ batch' = [batch EXCEPT ![w] =
                          [d \in Ids |-> IF d \in S THEN Claimed(rows[d]) ELSE NoRow]]
    BY <1>1 DEF ClaimSelect, IsFirst
  <2>2. \A d \in S : Claimed(rows[d]) \in Row
    BY <2>1, ClaimedFacts DEF IsDue, Exists
  <2>3. batch' \in [Workers -> Copies]
    BY <2>1, <2>2
  <2> QED
    BY <1>1, <2>1, <2>3 DEF ClaimSelect, WorkerPcs, storeVars
<1>2. CASE ClaimCommit(w)
  BY <1>2, <1>d DEF ClaimCommit, WorkerPcs
<1>3. CASE ClaimCommitUnreported(w)
  BY <1>3, <1>b, <1>d, <1>e DEF ClaimCommitUnreported, Selected
<1>4. CASE ClaimRollback(w)
  BY <1>4, <1>b DEF ClaimRollback, storeVars
<1>5. CASE ClaimFails(w)
  BY <1>5, <1>b, <1>e DEF ClaimFails
<1>6. CASE DeliverPrepare(w)
  BY <1>6 DEF DeliverPrepare, NextInBatch, Selected, WorkerPcs, storeVars
<1>7. CASE DeliverPrepareFails(w)
  <2>1. PICK d \in NextInBatch(w) :
          /\ current' = [current EXCEPT ![w] = d]
          /\ batch' = [batch EXCEPT ![w][d] = Failed(batch[w][d])]
    BY <1>7 DEF DeliverPrepareFails
  <2>2. d \in Ids /\ batch[w][d] \in Row
    BY DEF NextInBatch, Selected
  <2>3. Failed(batch[w][d]) \in Row
    BY <2>2, FailedFacts
  <2> QED
    BY <1>7, <1>g, <2>1, <2>2, <2>3 DEF DeliverPrepareFails, storeVars
<1>8. CASE SendAccepted(w)
  <2> DEFINE d == current[w]
  <2>1. d \in Ids /\ batch[w][d] \in Row
    BY <1>8, <1>f DEF SendAccepted
  <2>2. PICK ref \in Refs : batch' = [batch EXCEPT ![w][d] = Succeeded(batch[w][d], ref)]
    BY <1>8 DEF SendAccepted
  <2>3. Succeeded(batch[w][d], ref) \in Row
    BY <2>1, SucceededFacts
  <2>4. sends' \in [Ids -> Nat]
    BY <1>8, <2>1 DEF SendAccepted
  <2> QED
    BY <1>8, <1>g, <2>1, <2>2, <2>3, <2>4 DEF SendAccepted, storeVars
<1>9. CASE SendFails(w)
  <2> DEFINE d == current[w]
  <2>1. d \in Ids /\ batch[w][d] \in Row
    BY <1>9, <1>f DEF SendFails
  <2>2. batch' = [batch EXCEPT ![w][d] = Failed(batch[w][d])]
    BY <1>9 DEF SendFails
  <2>3. Failed(batch[w][d]) \in Row
    BY <2>1, FailedFacts
  <2>4. sends' \in [Ids -> Nat]
    BY <1>9 DEF SendFails
  <2> QED
    BY <1>9, <1>g, <2>1, <2>2, <2>3, <2>4 DEF SendFails, storeVars
<1>10. CASE DeliverFinish(w)
  <2> DEFINE d == current[w]
  <2>1. d \in Ids /\ batch[w][d] \in Row
    BY <1>10, <1>f DEF DeliverFinish
  <2> QED
    BY <1>10, <1>c, <2>1, StoreTransactionTypes DEF DeliverFinish
<1>11. CASE DeliverFinishFails(w)
  <2>1. current[w] \in Ids
    BY <1>11, <1>f DEF DeliverFinishFails
  <2> QED
    BY <1>11, <1>c, <1>e, <2>1 DEF DeliverFinishFails
<1>12. CASE WorkerStop(w)
  BY <1>12, <1>e DEF WorkerStop
<1>13. CASE WorkerExit(w)
  BY <1>13, <1>b DEF WorkerExit, storeVars
<1>14. CASE WorkerStart(w)
  BY <1>14 DEF WorkerStart, storeVars, WorkerPcs
<1>15. CASE WorkerCrash(w)
  <2>1. sends' \in [Ids -> Nat]
    <3>1. CASE workerPc[w] = "sending"
      <4>1. PICK accepted \in 0 .. 1 : sends' = [sends EXCEPT ![current[w]] = @ + accepted]
        BY <1>15, <3>1 DEF WorkerCrash
      <4> QED
        BY <1>f, <3>1, <4>1
    <3>2. CASE workerPc[w] # "sending"
      BY <1>15, <3>2 DEF WorkerCrash
    <3> QED
      BY <3>1, <3>2
  <2> QED
    BY <1>15, <1>b, <1>e, <2>1 DEF WorkerCrash, Selected
<1> QED
  BY <1>1, <1>2, <1>3, <1>4, <1>5, <1>6, <1>7, <1>8, <1>9, <1>10, <1>11, <1>12, <1>13,
     <1>14, <1>15 DEF WorkerStep, WorkerDisruption

LEMMA SenderTypes ==
    ASSUME StoreTypeOK, ServiceTypeOK, NEW s \in Senders,
           SendReplays(s) \/ SendLookup(s) \/ SendRefused(s) \/ SendInserts(s)
    PROVE  StoreTypeOK' /\ ServiceTypeOK' /\ UNCHANGED <<receiptId, receiptRow>>
<1> USE DEF StoreTypeOK, ServiceTypeOK
<1>1. CASE SendReplays(s)
  <2>1. \A d \in Ids : Exists(d) => [identity |-> rows[d].identity, id |-> d] \in Reply
    BY DEF Exists, Reply, Row
  <2> QED
    BY <1>1, <2>1 DEF SendReplays, storeVars
<1>2. CASE SendLookup(s)
  BY <1>2 DEF SendLookup, storeVars
<1>3. CASE SendRefused(s)
  BY <1>3 DEF SendRefused, storeVars
<1>4. CASE SendInserts(s)
  <2>1. request[s] \in Identities
    BY <1>4 DEF SendInserts
  <2>2. PICK d \in Ids :
          /\ InsertWithEvent(d, NewRow(request[s]))
          /\ \/ /\ replies' = replies \cup {[identity |-> request[s], id |-> d]}
                /\ UNCHANGED disruptions
             \/ Disrupted /\ UNCHANGED replies
    BY <1>4 DEF SendInserts
  <2>3. rows' \in [Ids -> Row \cup {NoRow}] /\ events' \in [Ids -> Seq(Event)]
    BY <2>1, <2>2, NewRowFacts, StoreTransactionTypes
  <2>4. replies' \in SUBSET Reply /\ disruptions' \in Nat
    BY <2>1, <2>2 DEF Reply, Disrupted
  <2> QED
    BY <1>4, <2>3, <2>4 DEF SendInserts
<1> QED
  BY <1>1, <1>2, <1>3, <1>4

LEMMA ReporterTypes ==
    ASSUME StoreTypeOK, ServiceTypeOK, LocalReporter, NEW p \in Reporters,
           ReceiptReplays(p) \/ ReceiptLookup(p) \/ ReceiptFinishes(p) \/ ReceiptFails(p)
    PROVE  StoreTypeOK' /\ ServiceTypeOK' /\ LocalReporter'
<1> USE DEF StoreTypeOK, ServiceTypeOK, LocalReporter
<1>a. ASSUME ReceiptReturns(p)
      PROVE  /\ receiptId' \in [Reporters -> Ids \cup {NoId}]
             /\ receiptRow' \in [Reporters -> Row \cup {NoRow}]
             /\ LocalReporter'
             /\ UNCHANGED <<now, request, replies>>
  BY <1>a DEF ReceiptReturns
<1>1. CASE ReceiptReplays(p)
  <2>1. PICK d \in Ids :
          /\ rows[d].status \in ReceiptStatuses
          /\ confirmed' = confirmed \cup {[id |-> d, status |-> rows[d].status]}
    BY <1>1 DEF ReceiptReplays
  <2>2. confirmed' \in SUBSET Confirmation
    BY <2>1 DEF Confirmation
  <2> QED
    BY <1>1, <2>2 DEF ReceiptReplays, storeVars
<1>2. CASE ReceiptLookup(p)
  <2>1. PICK d \in Ids, status \in ReceiptStatuses :
          /\ Matches(d)
          /\ receiptId' = [receiptId EXCEPT ![p] = d]
          /\ receiptRow' = [receiptRow EXCEPT ![p] = Receipted(rows[d], status)]
    BY <1>2 DEF ReceiptLookup
  <2>2. rows[d] \in Row
    BY <2>1 DEF Matches, Exists
  <2>3. Receipted(rows[d], status) \in Row /\ Receipted(rows[d], status).status = status
    BY <2>2, ReceiptedFacts
  <2> QED
    BY <1>2, <2>1, <2>3 DEF ReceiptLookup, storeVars
<1>3. CASE ReceiptFinishes(p)
  <2> DEFINE d == receiptId[p]
  <2>1. d \in Ids /\ receiptRow[p] \in Row /\ receiptRow[p].status \in ReceiptStatuses
    BY <1>3 DEF ReceiptFinishes
  <2>2. rows' \in [Ids -> Row \cup {NoRow}] /\ events' \in [Ids -> Seq(Event)]
    BY <1>3, <2>1, StoreTransactionTypes DEF ReceiptFinishes
  <2>3. confirmed' \in SUBSET Confirmation /\ disruptions' \in Nat
    BY <1>3, <2>1 DEF ReceiptFinishes, Confirmation, Disrupted
  <2> QED
    BY <1>3, <1>a, <2>2, <2>3 DEF ReceiptFinishes
<1>4. CASE ReceiptFails(p)
  BY <1>4, <1>a DEF ReceiptFails, Disrupted
<1> QED
  BY <1>1, <1>2, <1>3, <1>4

LEMMA CleanerTypes ==
    ASSUME StoreTypeOK, CleanerTypeOK, NEW c \in Cleaners,
           CleanerStep(c) \/ CleanFails(c)
    PROVE  StoreTypeOK' /\ CleanerTypeOK'
<1> USE DEF StoreTypeOK, CleanerTypeOK
<1>1. CASE CleanSelect(c)
  <2>1. /\ doomed' \in [Cleaners -> SUBSET Ids]
        /\ left' \in [Cleaners -> SUBSET Ids]
        /\ before' = [before EXCEPT ![c] = now - Retention]
    BY <1>1 DEF CleanSelect, ExpiredAt
  <2> QED
    BY <1>1, <2>1 DEF CleanSelect, storeVars
<1>2. CASE CleanFindsNone(c)
  BY <1>2 DEF CleanFindsNone, storeVars
<1>3. CASE CleanDelete(c)
  BY <1>3 DEF CleanDelete, ForgetBatch
<1>4. CASE CleanFails(c)
  BY <1>4 DEF CleanFails, ForgetBatch, Disrupted
<1> QED
  BY <1>1, <1>2, <1>3, <1>4 DEF CleanerStep

LEMMA TypeStep == TypeInv /\ [Next]_vars => TypeInv'
<1> SUFFICES ASSUME TypeInv, [Next]_vars
             PROVE  TypeInv'
  OBVIOUS
<1>a. /\ StoreTypeOK /\ DispatcherTypeOK /\ ServiceTypeOK /\ CleanerTypeOK
      /\ LocalWorker /\ LocalReporter
  BY DEF TypeInv, TypeOK, LocalStateOK, LocalWorker, LocalReporter
<1>b. (/\ StoreTypeOK' /\ DispatcherTypeOK' /\ ServiceTypeOK' /\ CleanerTypeOK'
       /\ LocalWorker' /\ LocalReporter') => TypeInv'
  BY DEF TypeInv, TypeOK, LocalStateOK, LocalWorker, LocalReporter
<1>c. UNCHANGED dispatcherVars => DispatcherTypeOK' /\ LocalWorker'
  BY <1>a DEF dispatcherVars, DispatcherTypeOK, LocalWorker
<1>d. UNCHANGED serviceVars => ServiceTypeOK' /\ LocalReporter'
  BY <1>a DEF serviceVars, ServiceTypeOK, LocalReporter
<1>e. UNCHANGED cleanerVars => CleanerTypeOK'
  BY <1>a DEF cleanerVars, CleanerTypeOK
<1>1. CASE DispatcherNext /\ UNCHANGED <<serviceVars, cleanerVars>>
  BY <1>1, <1>a, <1>b, <1>d, <1>e, WorkerTypes DEF DispatcherNext
<1>2. CASE ServiceNext /\ UNCHANGED <<dispatcherVars, cleanerVars>>
  <2>1. CASE \E s \in Senders :
               SendReplays(s) \/ SendLookup(s) \/ SendRefused(s) \/ SendInserts(s)
    <3>1. StoreTypeOK' /\ ServiceTypeOK' /\ UNCHANGED <<receiptId, receiptRow>>
      BY <1>a, <2>1, SenderTypes
    <3>2. LocalReporter'
      BY <1>a, <3>1 DEF LocalReporter
    <3> QED
      BY <1>2, <1>b, <1>c, <1>e, <3>1, <3>2
  <2>2. CASE \E p \in Reporters :
               ReceiptReplays(p) \/ ReceiptLookup(p) \/ ReceiptFinishes(p) \/ ReceiptFails(p)
    BY <1>2, <1>a, <1>b, <1>c, <1>e, <2>2, ReporterTypes
  <2> QED
    BY <1>2, <2>1, <2>2 DEF ServiceNext
<1>3. CASE CleanerNext /\ UNCHANGED <<dispatcherVars, serviceVars>>
  BY <1>3, <1>a, <1>b, <1>c, <1>d, CleanerTypes DEF CleanerNext
<1>4. CASE Tick
  <2>1. StoreTypeOK'
    BY <1>4, <1>a DEF Tick, StoreTick, StoreTypeOK
  <2> QED
    BY <1>4, <1>b, <1>c, <1>d, <1>e, <2>1 DEF Tick
<1>5. CASE UNCHANGED vars
  <2>1. StoreTypeOK'
    BY <1>5, <1>a DEF vars, storeVars, StoreTypeOK
  <2> QED
    BY <1>5, <1>b, <1>c, <1>d, <1>e, <2>1 DEF vars
<1> QED
  BY <1>1, <1>2, <1>3, <1>4, <1>5 DEF Next

\* Every variable of the pipeline keeps its type, and the local variables of
\* workers and receipts agree with their control points.
THEOREM TypeCorrect == Spec => []TypeInv
  BY TypeInit, TypeStep, PTL DEF Spec

-----------------------------------------------------------------------------
(* The inductive invariant *)

\* A claim transaction that has not ended has locked rows that wait, its copies
\* are what its UPDATEs will make of them, and no two transactions lock one row.
ClaimSound(w, d) ==
    Locks(w, d) =>
        /\ Exists(d) /\ rows[d].status \in {"pending", "retrying"}
        /\ batch[w][d].status = "processing"
        /\ batch[w][d].version = rows[d].version + 1
        /\ batch[w][d].attempts = rows[d].attempts + 1
        /\ batch[w][d].ref = rows[d].ref
        /\ batch[w][d].identity = rows[d].identity
        /\ \A v \in Workers \ {w} : ~Locks(v, d)

\* What deliver can have made of the copy of its delivery before Finish.
OutcomeSound(row) ==
    /\ row.status \in {"sent", "retrying", "dead_letter"}
    /\ row.ref # NoRef <=> row.status = "sent"
    /\ row.status = "retrying" => row.attempts < MaxAttempts
    /\ row.status = "dead_letter" => row.attempts >= MaxAttempts

\* A held delivery is processing and is held by one worker, whose copy has the
\* row's version and attempts, and no outcome but that of the delivery in hand.
HoldSound(w, d) ==
    Holds(w, d) =>
        /\ Exists(d) /\ rows[d].status = "processing"
        /\ batch[w][d].version = rows[d].version
        /\ batch[w][d].attempts = rows[d].attempts
        /\ \A v \in Workers \ {w} : ~Holds(v, d)
        /\ IF workerPc[w] = "finishing" /\ current[w] = d
           THEN OutcomeSound(batch[w][d])
           ELSE batch[w][d].status = "processing" /\ batch[w][d].ref = NoRef

RowSound(d) ==
    Exists(d) =>
        /\ events[d] # <<>>
        /\ rows[d].ref # NoRef <=> rows[d].status \in ReceiptStatuses \cup {"sent"}
        /\ rows[d].attempts <= MaxAttempts
        /\ rows[d].status \in {"pending", "retrying"} => rows[d].attempts < MaxAttempts

\* A receipt's copy is never newer than the row, and if it is as new the row is
\* still the sent row it was made from.
ReceiptSound(p) ==
    receiptId[p] # NoId =>
        /\ events[receiptId[p]] # <<>>
        /\ Exists(receiptId[p]) => receiptRow[p].version <= rows[receiptId[p]].version
        /\ VersionMatches(receiptId[p], receiptRow[p]) =>
            /\ rows[receiptId[p]].status = "sent"
            /\ receiptRow[p].ref = rows[receiptId[p]].ref

PipelineInv ==
    /\ TypeInv
    /\ \A w \in Workers, d \in Ids : ClaimSound(w, d) /\ HoldSound(w, d)
    /\ \A d \in Ids : RowSound(d)
    /\ \A p \in Reporters : ReceiptSound(p)

LEMMA RowFields ==
    ASSUME NEW row \in Row
    PROVE  row.version \in Nat /\ row.attempts \in Nat /\ row # NoRow
  BY DEF Row

LEMMA TypeFacts ==
    ASSUME TypeInv
    PROVE  /\ now \in Nat
           /\ \A d \in Ids : Exists(d) => rows[d] \in Row
           /\ \A w \in Workers, d \in Ids : batch[w][d] # NoRow => batch[w][d] \in Row
           /\ \A p \in Reporters : receiptId[p] # NoId =>
                receiptId[p] \in Ids /\ receiptRow[p] \in Row
  BY DEF TypeInv, TypeOK, LocalStateOK, StoreTypeOK, DispatcherTypeOK, ServiceTypeOK, Exists

LEMMA PipelineInit == Init => PipelineInv
<1> SUFFICES ASSUME Init PROVE PipelineInv
  OBVIOUS
<1>1. TypeInv
  BY TypeInit
<1> QED
  BY <1>1 DEF PipelineInv, Init, StoreInit, DispatcherInit, ServiceInit, ClaimSound, HoldSound,
       RowSound, ReceiptSound, Locks, Holds, Claiming, Exists, VersionMatches, EmptyBatch

\* Steps that leave the tables alone.
LEMMA TablesFrame ==
    ASSUME PipelineInv, UNCHANGED <<rows, events>>
    PROVE  /\ \A d \in Ids : RowSound(d)'
           /\ UNCHANGED <<receiptId, receiptRow>> => \A p \in Reporters : ReceiptSound(p)'
  BY DEF PipelineInv, RowSound, ReceiptSound, Exists, VersionMatches

\* Steps that leave the tables and the workers alone.
LEMMA WorkersFrame ==
    ASSUME PipelineInv, UNCHANGED <<rows, workerPc, batch, current>>
    PROVE  \A w \in Workers, d \in Ids : ClaimSound(w, d)' /\ HoldSound(w, d)'
  BY DEF PipelineInv, ClaimSound, HoldSound, Locks, Holds, Claiming, Exists

\* A worker that changes its own local state only, and gains no delivery.
LEMMA OwnStateFrame ==
    ASSUME PipelineInv, NEW w \in Workers, UNCHANGED <<rows, events>>,
           \A v \in Workers \ {w} : /\ workerPc'[v] = workerPc[v]
                                    /\ batch'[v] = batch[v]
                                    /\ current'[v] = current[v],
           \A d \in Ids : /\ Locks(w, d)' => Locks(w, d) /\ batch'[w][d] = batch[w][d]
                          /\ Holds(w, d)' => Holds(w, d),
           \A d \in Ids : Holds(w, d)' => HoldSound(w, d)'
    PROVE  \A v \in Workers, d \in Ids : ClaimSound(v, d)' /\ HoldSound(v, d)'
<1> SUFFICES ASSUME NEW v \in Workers, NEW d \in Ids
             PROVE  ClaimSound(v, d)' /\ HoldSound(v, d)'
  OBVIOUS
<1>1. ClaimSound(v, d) /\ HoldSound(v, d) /\ ClaimSound(w, d) /\ HoldSound(w, d)
  BY DEF PipelineInv
<1>2. Exists(d)' = Exists(d)
  BY DEF Exists
<1>3. CASE v = w
  <2>1. ClaimSound(w, d)'
    BY <1>1, <1>2 DEF ClaimSound, Locks
  <2>2. HoldSound(w, d)'
    BY DEF HoldSound
  <2> QED
    BY <1>3, <2>1, <2>2
<1>4. CASE v # w
  <2>1. Locks(v, d)' = Locks(v, d) /\ Holds(v, d)' = Holds(v, d)
    BY <1>4 DEF Locks, Holds, Claiming
  <2>2. \A u \in Workers : (Locks(u, d)' => Locks(u, d)) /\ (Holds(u, d)' => Holds(u, d))
    BY DEF Locks, Holds, Claiming
  <2>3. ClaimSound(v, d)'
    BY <1>1, <1>2, <1>4, <2>1, <2>2 DEF ClaimSound
  <2>4. HoldSound(v, d)'
    BY <1>1, <1>2, <1>4, <2>1, <2>2 DEF HoldSound
  <2> QED
    BY <2>3, <2>4
<1> QED
  BY <1>3, <1>4

\* Conjuncts of PipelineInv that worker steps leave to other lemmas.
TablesSound == (\A d \in Ids : RowSound(d)) /\ (\A p \in Reporters : ReceiptSound(p))

WorkersSound == \A w \in Workers, d \in Ids : ClaimSound(w, d) /\ HoldSound(w, d)

\* Reset drops the batch: the worker locks and holds nothing afterwards.
LEMMA ResetSound ==
    ASSUME PipelineInv, NEW w \in Workers, NEW pc \in {"idle", "stopped"}, Reset(w, pc),
           UNCHANGED <<rows, events>>
    PROVE  WorkersSound'
<1>1. \A d \in Ids : ~Locks(w, d)' /\ ~Holds(w, d)'
  BY DEF Reset, PipelineInv, TypeInv, TypeOK, DispatcherTypeOK, Locks, Holds, Claiming
<1>2. \A v \in Workers \ {w} : workerPc'[v] = workerPc[v] /\ batch'[v] = batch[v]
                               /\ current'[v] = current[v]
  BY DEF Reset, PipelineInv, TypeInv, TypeOK, DispatcherTypeOK
<1> QED
  BY <1>1, <1>2, OwnStateFrame DEF WorkersSound

LEMMA ClaimSelectSound ==
    ASSUME PipelineInv, NEW w \in Workers, ClaimSelect(w)
    PROVE  WorkersSound'
<1>1. PICK S \in SUBSET Ids \ {{}} :
        /\ S \subseteq {d \in Ids : IsDue(d) /\ ~Locked(d)}
        /\ batch' = [batch EXCEPT ![w] =
                        [d \in Ids |-> IF d \in S THEN Claimed(rows[d]) ELSE NoRow]]
  BY DEF ClaimSelect, IsFirst
<1>2. /\ \A v \in Workers \ {w} : workerPc'[v] = workerPc[v] /\ batch'[v] = batch[v]
      /\ workerPc'[w] = "claiming" /\ UNCHANGED <<rows, current>>
      /\ \A d \in Ids : batch'[w][d] = IF d \in S THEN Claimed(rows[d]) ELSE NoRow
  BY <1>1 DEF ClaimSelect, storeVars, PipelineInv, TypeInv, TypeOK, DispatcherTypeOK
<1> SUFFICES ASSUME NEW v \in Workers, NEW d \in Ids
             PROVE  ClaimSound(v, d)' /\ HoldSound(v, d)'
  BY DEF WorkersSound
<1>3. /\ \A u \in Workers \ {w} : Locks(u, d)' = Locks(u, d) /\ Holds(u, d)' = Holds(u, d)
      /\ ~Holds(w, d)'
      /\ Locks(w, d)' => d \in S
      /\ Exists(d)' = Exists(d)
  BY <1>2 DEF Locks, Holds, Claiming, Exists
<1>4. d \in S => \A u \in Workers : ~Locks(u, d)
  BY <1>1 DEF Locked
<1>5. CASE v = w
  <2>1. SUFFICES ASSUME d \in S PROVE ClaimSound(w, d)'
    BY <1>3, <1>5 DEF ClaimSound, HoldSound
  <2>2. Exists(d) /\ rows[d].status \in {"pending", "retrying"} /\ rows[d] \in Row
    BY <1>1, <2>1, TypeFacts DEF IsDue, PipelineInv
  <2>3. batch'[w][d] = Claimed(rows[d])
    BY <1>2, <2>1
  <2> QED
    BY <1>2, <1>3, <1>4, <2>1, <2>2, <2>3, ClaimedFacts, TypeFacts DEF ClaimSound, PipelineInv
<1>6. CASE v # w
  <2>1. ClaimSound(v, d) /\ HoldSound(v, d)
    BY DEF PipelineInv
  <2>2. ClaimSound(v, d)'
    BY <1>2, <1>3, <1>4, <1>6, <2>1 DEF ClaimSound
  <2>3. HoldSound(v, d)'
    BY <1>2, <1>3, <1>6, <2>1 DEF HoldSound
  <2> QED
    BY <2>2, <2>3
<1> QED
  BY <1>5, <1>6

\* The effect of a claim's COMMIT on the tables: locked rows become the copies.
LEMMA ClaimWritesSound ==
    ASSUME PipelineInv, NEW w \in Workers, workerPc[w] = "claiming", ClaimWrites(w),
           UNCHANGED <<events, receiptId, receiptRow>>
    PROVE  /\ TablesSound'
           /\ \A d \in Ids : Locks(w, d) =>
                /\ rows'[d] = batch[w][d] /\ rows'[d] \in Row
                /\ rows'[d].status = "processing" /\ rows'[d].ref = NoRef
           /\ \A d \in Ids : ~Locks(w, d) => rows'[d] = rows[d]
<1>1. \A d \in Ids : rows'[d] = IF Locks(w, d) THEN batch[w][d] ELSE rows[d]
  BY DEF ClaimWrites, Selected, Locks
<1>2. ASSUME NEW d \in Ids, Locks(w, d)
      PROVE  /\ Exists(d) /\ rows[d] \in Row /\ rows'[d] \in Row
             /\ rows'[d].status = "processing" /\ rows'[d].ref = NoRef
             /\ rows'[d].version = rows[d].version + 1
             /\ rows'[d].attempts = rows[d].attempts + 1
             /\ rows[d].attempts < MaxAttempts
  <2>1. ClaimSound(w, d) /\ RowSound(d) /\ TypeInv
    BY DEF PipelineInv
  <2>2. rows[d] \in Row /\ batch[w][d] \in Row
    BY <1>2, <2>1, TypeFacts DEF ClaimSound, Locks
  <2>3. rows[d].ref = NoRef
    BY <1>2, <2>1 DEF ClaimSound, RowSound, ReceiptStatuses
  <2> QED
    BY <1>1, <1>2, <2>1, <2>2, <2>3 DEF ClaimSound, RowSound
<1>3. ASSUME NEW d \in Ids PROVE RowSound(d)'
  <2>1. RowSound(d)
    BY DEF PipelineInv
  <2>2. CASE Locks(w, d)
    <3>1. rows'[d].attempts <= MaxAttempts
      BY <1>2, <2>2, RowFields
    <3> QED
      BY <1>2, <2>1, <2>2, <3>1 DEF RowSound, Exists, ReceiptStatuses
  <2>3. CASE ~Locks(w, d)
    BY <1>1, <2>1, <2>3 DEF RowSound, Exists
  <2> QED
    BY <2>2, <2>3
<1>4. ASSUME NEW p \in Reporters PROVE ReceiptSound(p)'
  <2>1. ReceiptSound(p)
    BY DEF PipelineInv
  <2>2. CASE receiptId[p] = NoId
    BY <2>2 DEF ReceiptSound
  <2>3. CASE receiptId[p] # NoId
    <3> DEFINE d == receiptId[p]
    <3>1. d \in Ids /\ receiptRow[p] \in Row
      BY <2>3, TypeFacts DEF PipelineInv
    <3>2. CASE Locks(w, d)
      <4>1. receiptRow[p].version < rows'[d].version
        BY <1>2, <2>1, <2>3, <3>1, <3>2, RowFields DEF ReceiptSound
      <4>2. ~VersionMatches(d, receiptRow[p])'
        BY <1>2, <3>1, <3>2, <4>1, RowFields DEF VersionMatches
      <4> QED
        BY <1>2, <2>1, <2>3, <3>1, <3>2, <4>1, <4>2, RowFields DEF ReceiptSound
    <3>3. CASE ~Locks(w, d)
      BY <1>1, <2>1, <3>1, <3>3 DEF ReceiptSound, VersionMatches, Exists
    <3> QED
      BY <3>2, <3>3
  <2> QED
    BY <2>2, <2>3
<1> QED
  BY <1>1, <1>2, <1>3, <1>4 DEF TablesSound

\* After a claim's COMMIT the locks are holds, or, if nobody heard of it, neither.
LEMMA ClaimCommitSound ==
    ASSUME PipelineInv, NEW w \in Workers, workerPc[w] = "claiming", ClaimWrites(w),
           UNCHANGED <<events, receiptId, receiptRow>>,
           \A v \in Workers \ {w} : /\ workerPc'[v] = workerPc[v]
                                    /\ batch'[v] = batch[v]
                                    /\ current'[v] = current[v],
           \/ workerPc'[w] = "working" /\ batch'[w] = batch[w]
           \/ workerPc'[w] = "idle"
    PROVE  TablesSound' /\ WorkersSound'
<1>1. /\ TablesSound'
      /\ \A d \in Ids : Locks(w, d) =>
            /\ rows'[d] = batch[w][d] /\ rows'[d] \in Row
            /\ rows'[d].status = "processing" /\ rows'[d].ref = NoRef
      /\ \A d \in Ids : ~Locks(w, d) => rows'[d] = rows[d]
  BY ClaimWritesSound
<1> SUFFICES ASSUME NEW v \in Workers, NEW d \in Ids
             PROVE  ClaimSound(v, d)' /\ HoldSound(v, d)'
  BY <1>1 DEF WorkersSound
<1>2. /\ \A u \in Workers \ {w} : Locks(u, d)' = Locks(u, d) /\ Holds(u, d)' = Holds(u, d)
      /\ ~Locks(w, d)'
      /\ Holds(w, d)' => Locks(w, d) /\ workerPc'[w] = "working" /\ batch'[w] = batch[w]
  BY DEF Locks, Holds, Claiming
<1>3. ClaimSound(w, d) /\ \A u \in Workers : ClaimSound(u, d) /\ HoldSound(u, d)
  BY DEF PipelineInv
<1>4. Locks(w, d) => \A u \in Workers : ~Holds(u, d)
  BY <1>3 DEF ClaimSound, HoldSound
<1>5. CASE v = w
  <2>1. HoldSound(w, d)'
    <3>1. SUFFICES ASSUME Holds(w, d)' PROVE HoldSound(w, d)'
      BY DEF HoldSound
    <3>2. Locks(w, d) /\ batch'[w][d] = rows'[d] /\ workerPc'[w] = "working"
      BY <1>1, <1>2, <3>1
    <3> QED
      BY <1>1, <1>2, <1>4, <3>2, RowFields DEF HoldSound, Exists
  <2> QED
    BY <1>2, <1>5, <2>1 DEF ClaimSound
<1>6. CASE v # w
  <2>1. Locks(v, d) \/ Holds(v, d) => ~Locks(w, d)
    BY <1>3, <1>4, <1>6 DEF ClaimSound
  <2>2. ClaimSound(v, d)'
    BY <1>1, <1>2, <1>3, <1>6, <2>1 DEF ClaimSound, Exists
  <2>3. HoldSound(v, d)'
    BY <1>1, <1>2, <1>3, <1>6, <2>1 DEF HoldSound, Exists
  <2> QED
    BY <2>2, <2>3
<1> QED
  BY <1>5, <1>6

\* The delivery in hand takes an outcome; the worker's other copies stay.
LEMMA OutcomeRecorded ==
    ASSUME PipelineInv, NEW w \in Workers, NEW d \in Ids, NEW row \in Row,
           Holds(w, d), workerPc[w] = "working" \/ (workerPc[w] = "sending" /\ current[w] = d),
           batch' = [batch EXCEPT ![w][d] = row],
           workerPc' = [workerPc EXCEPT ![w] = "finishing"],
           current'[w] = d, \A v \in Workers \ {w} : current'[v] = current[v],
           UNCHANGED <<rows, events>>,
           OutcomeSound(row), row.version = batch[w][d].version,
           row.attempts = batch[w][d].attempts
    PROVE  WorkersSound'
<1>1. /\ \A v \in Workers \ {w} : workerPc'[v] = workerPc[v] /\ batch'[v] = batch[v]
      /\ workerPc'[w] = "finishing"
      /\ batch'[w][d] = row
      /\ \A e \in Ids \ {d} : batch'[w][e] = batch[w][e]
  BY DEF PipelineInv, TypeInv, TypeOK, DispatcherTypeOK
<1>2. \A e \in Ids : ~Locks(w, e)' /\ (Holds(w, e)' => Holds(w, e))
  BY <1>1 DEF Locks, Holds, Claiming
<1>3. ASSUME NEW e \in Ids, Holds(w, e)' PROVE HoldSound(w, e)'
  <2>1. HoldSound(w, e) /\ Holds(w, e)
    BY <1>2, <1>3 DEF PipelineInv
  <2>2. \A v \in Workers \ {w} : ~Holds(v, e)'
    BY <1>1, <2>1 DEF HoldSound, Holds, Claiming
  <2>3. CASE e = d
    BY <1>1, <2>1, <2>2, <2>3 DEF HoldSound, Exists
  <2>4. CASE e # d
    BY <1>1, <2>1, <2>2, <2>4 DEF HoldSound, Exists
  <2> QED
    BY <2>3, <2>4
<1> QED
  BY <1>1, <1>2, <1>3, OwnStateFrame DEF WorkersSound

LEMMA DeliverSound ==
    ASSUME PipelineInv, NEW w \in Workers,
           DeliverPrepare(w) \/ DeliverPrepareFails(w) \/ SendAccepted(w) \/ SendFails(w)
    PROVE  WorkersSound'
<1> USE DEF storeVars
<1>a. TypeInv /\ now \in Nat
  BY TypeFacts DEF PipelineInv
<1>b. /\ workerPc \in [Workers -> WorkerPcs] /\ current \in [Workers -> Ids \cup {NoId}]
      /\ batch \in [Workers -> Copies]
  BY <1>a DEF TypeInv, TypeOK, DispatcherTypeOK, Copies
<1>c. ASSUME workerPc[w] = "sending"
      PROVE  current[w] \in Ids /\ batch[w][current[w]] \in Row /\ Holds(w, current[w])
  BY <1>a, <1>c, TypeFacts DEF TypeInv, LocalStateOK, Holds, Claiming
<1>d. ASSUME NEW d \in Ids, Holds(w, d), workerPc[w] # "finishing"
      PROVE  /\ batch[w][d] \in Row /\ batch[w][d].ref = NoRef
             /\ OutcomeSound(Failed(batch[w][d]))
  <2>1. HoldSound(w, d)
    BY DEF PipelineInv
  <2>2. batch[w][d] \in Row /\ batch[w][d].ref = NoRef
    BY <1>a, <1>d, <2>1, TypeFacts DEF HoldSound, Holds
  <2> QED
    BY <1>a, <2>2, FailedFacts DEF OutcomeSound
<1>1. CASE DeliverPrepare(w)
  <2>1. PICK d \in NextInBatch(w) : current' = [current EXCEPT ![w] = d]
    BY <1>1 DEF DeliverPrepare
  <2>2. /\ \A v \in Workers \ {w} : workerPc'[v] = workerPc[v] /\ batch'[v] = batch[v]
                                    /\ current'[v] = current[v]
        /\ workerPc'[w] = "sending" /\ workerPc[w] = "working"
        /\ UNCHANGED <<rows, events, batch>>
    BY <1>1, <1>b, <2>1 DEF DeliverPrepare
  <2>3. \A e \in Ids : ~Locks(w, e)' /\ (Holds(w, e)' => Holds(w, e))
    BY <2>2 DEF Locks, Holds, Claiming
  <2>4. ASSUME NEW e \in Ids, Holds(w, e)' PROVE HoldSound(w, e)'
    <3>1. HoldSound(w, e) /\ Holds(w, e)
      BY <2>3, <2>4 DEF PipelineInv
    <3>2. \A v \in Workers \ {w} : ~Holds(v, e)'
      BY <2>2, <3>1 DEF HoldSound, Holds, Claiming
    <3> QED
      BY <2>2, <3>1, <3>2 DEF HoldSound, Exists
  <2> QED
    BY <2>2, <2>3, <2>4, OwnStateFrame DEF WorkersSound
<1>2. CASE DeliverPrepareFails(w)
  <2>1. PICK d \in NextInBatch(w) :
          /\ current' = [current EXCEPT ![w] = d]
          /\ batch' = [batch EXCEPT ![w][d] = Failed(batch[w][d])]
    BY <1>2 DEF DeliverPrepareFails
  <2>2. d \in Ids /\ Holds(w, d)
    BY <1>2 DEF DeliverPrepareFails, NextInBatch, Selected, Holds, Claiming
  <2>3. /\ batch[w][d] \in Row /\ OutcomeSound(Failed(batch[w][d]))
        /\ workerPc[w] = "working"
    BY <1>2, <1>d, <2>2 DEF DeliverPrepareFails
  <2>4. /\ current'[w] = d /\ \A v \in Workers \ {w} : current'[v] = current[v]
        /\ workerPc' = [workerPc EXCEPT ![w] = "finishing"]
        /\ UNCHANGED <<rows, events>>
    BY <1>2, <1>b, <2>1, <2>2 DEF DeliverPrepareFails
  <2> QED
    BY <1>a, <2>1, <2>2, <2>3, <2>4, FailedFacts, OutcomeRecorded
<1>3. CASE SendAccepted(w)
  <2> DEFINE d == current[w]
  <2>1. d \in Ids /\ batch[w][d] \in Row /\ Holds(w, d) /\ workerPc[w] = "sending"
    BY <1>3, <1>c DEF SendAccepted
  <2>2. PICK ref \in Refs : batch' = [batch EXCEPT ![w][d] = Succeeded(batch[w][d], ref)]
    BY <1>3 DEF SendAccepted
  <2>3. OutcomeSound(Succeeded(batch[w][d], ref))
    BY <1>a, <2>1, SucceededFacts DEF OutcomeSound
  <2>4. /\ workerPc' = [workerPc EXCEPT ![w] = "finishing"] /\ current' = current
        /\ UNCHANGED <<rows, events>>
    BY <1>3 DEF SendAccepted
  <2> QED
    BY <1>a, <2>1, <2>2, <2>3, <2>4, SucceededFacts, OutcomeRecorded
<1>4. CASE SendFails(w)
  <2> DEFINE d == current[w]
  <2>1. d \in Ids /\ batch[w][d] \in Row /\ Holds(w, d) /\ workerPc[w] = "sending"
    BY <1>4, <1>c DEF SendFails
  <2>2. batch' = [batch EXCEPT ![w][d] = Failed(batch[w][d])]
    BY <1>4 DEF SendFails
  <2>3. OutcomeSound(Failed(batch[w][d]))
    BY <1>d, <2>1
  <2>4. /\ workerPc' = [workerPc EXCEPT ![w] = "finishing"] /\ current' = current
        /\ UNCHANGED <<rows, events>>
    BY <1>4 DEF SendFails
  <2> QED
    BY <1>a, <2>1, <2>2, <2>3, <2>4, FailedFacts, OutcomeRecorded
<1> QED
  BY <1>1, <1>2, <1>3, <1>4

\* Finish with its event: the row has the copy's values and a new version, so
\* every receipt that had read it is out of date.
LEMMA FinishSound ==
    ASSUME PipelineInv, NEW d \in Ids, NEW row \in Row, FinishWithEvent(d, row),
           row.status \in {"sent", "retrying", "dead_letter"} \cup ReceiptStatuses,
           row.ref # NoRef <=> row.status \in ReceiptStatuses \cup {"sent"},
           row.status = "retrying" => rows[d].attempts < MaxAttempts
    PROVE  /\ rows'[d] = Finished(rows[d], row) /\ rows'[d] \in Row
           /\ \A e \in Ids \ {d} : rows'[e] = rows[e]
           /\ \A e \in Ids : RowSound(e)'
           /\ \A p \in Reporters :
                receiptId'[p] = receiptId[p] /\ receiptRow'[p] = receiptRow[p] => ReceiptSound(p)'
<1>a. TypeInv /\ events \in [Ids -> Seq(Event)] /\ rows \in [Ids -> Row \cup {NoRow}]
  BY DEF PipelineInv, TypeInv, TypeOK, StoreTypeOK
<1>1. /\ rows'[d] = Finished(rows[d], row) /\ rows'[d] \in Row
      /\ \A e \in Ids \ {d} : rows'[e] = rows[e] /\ events'[e] = events[e]
      /\ Exists(d) /\ rows[d] \in Row /\ rows[d].version = row.version
  BY <1>a, FinishedFacts DEF FinishWithEvent, VersionMatches, Exists
<1>2. events'[d] # <<>>
  BY <1>a, EventTypes DEF FinishWithEvent
<1>3. /\ rows'[d].version = rows[d].version + 1 /\ rows'[d].attempts = rows[d].attempts
      /\ rows'[d].status = row.status /\ rows'[d].ref = row.ref
  BY <1>1, FinishedFacts
<1>4. ASSUME NEW e \in Ids PROVE RowSound(e)'
  <2>1. CASE e = d
    BY <1>1, <1>2, <1>3, <2>1 DEF PipelineInv, RowSound, ReceiptStatuses
  <2>2. CASE e # d
    BY <1>1, <2>2 DEF PipelineInv, RowSound, Exists
  <2> QED
    BY <2>1, <2>2
<1>5. ASSUME NEW p \in Reporters, receiptId'[p] = receiptId[p], receiptRow'[p] = receiptRow[p]
      PROVE  ReceiptSound(p)'
  <2>1. ReceiptSound(p)
    BY DEF PipelineInv
  <2>2. CASE receiptId[p] = NoId
    BY <1>5, <2>2 DEF ReceiptSound
  <2>3. CASE receiptId[p] # NoId
    <3>1. receiptId[p] \in Ids /\ receiptRow[p] \in Row
      BY <1>a, <2>3, TypeFacts
    <3>2. CASE receiptId[p] = d
      <4>1. receiptRow[p].version < rows'[d].version
        BY <1>1, <1>3, <2>1, <2>3, <3>1, <3>2, RowFields DEF ReceiptSound
      <4>2. ~VersionMatches(d, receiptRow[p])'
        BY <1>1, <1>5, <3>1, <4>1, RowFields DEF VersionMatches
      <4> QED
        BY <1>1, <1>2, <1>5, <2>3, <3>1, <3>2, <4>1, <4>2, RowFields DEF ReceiptSound
    <3>3. CASE receiptId[p] # d
      BY <1>1, <1>5, <2>1, <3>1, <3>3 DEF ReceiptSound, VersionMatches, Exists
    <3> QED
      BY <3>2, <3>3
  <2> QED
    BY <2>2, <2>3
<1> QED
  BY <1>1, <1>4, <1>5

\* Dequeue: the worker lets go of d and keeps the rest.
LEMMA DequeueFacts ==
    ASSUME PipelineInv, NEW w \in Workers, NEW d \in Ids, Dequeue(w, d),
           workerPc[w] = "finishing", current[w] = d
    PROVE  /\ \A v \in Workers \ {w} : /\ workerPc'[v] = workerPc[v]
                                        /\ batch'[v] = batch[v]
                                        /\ current'[v] = current[v]
           /\ \A e \in Ids : ~Locks(w, e)'
           /\ ~Holds(w, d)'
           /\ \A e \in Ids \ {d} : batch'[w][e] = batch[w][e] /\ (Holds(w, e)' => Holds(w, e))
           /\ workerPc'[w] # "finishing"
  BY DEF Dequeue, PipelineInv, TypeInv, TypeOK, DispatcherTypeOK, Locks, Holds, Claiming

LEMMA DeliverFinishSound ==
    ASSUME PipelineInv, NEW w \in Workers, DeliverFinish(w),
           UNCHANGED <<receiptId, receiptRow>>
    PROVE  TablesSound' /\ WorkersSound'
<1>0. PICK d \in Ids : d = current[w]
  BY DEF DeliverFinish, PipelineInv, TypeInv, LocalStateOK
<1>a. batch[w][d] \in Row /\ Holds(w, d) /\ workerPc[w] = "finishing"
  BY <1>0, TypeFacts DEF DeliverFinish, PipelineInv, TypeInv, LocalStateOK, Holds, Claiming
<1>b. HoldSound(w, d) /\ RowSound(d) /\ OutcomeSound(batch[w][d])
  BY <1>0, <1>a DEF PipelineInv, HoldSound
<1>c. batch[w][d].status = "retrying" => rows[d].attempts < MaxAttempts
  BY <1>a, <1>b DEF HoldSound, OutcomeSound
<1>1. /\ rows'[d] \in Row
      /\ \A e \in Ids \ {d} : rows'[e] = rows[e]
      /\ TablesSound'
  BY <1>0, <1>a, <1>b, <1>c, FinishSound
     DEF DeliverFinish, OutcomeSound, TablesSound, ReceiptStatuses
<1>2. /\ \A v \in Workers \ {w} : /\ workerPc'[v] = workerPc[v]
                                   /\ batch'[v] = batch[v]
                                   /\ current'[v] = current[v]
      /\ \A e \in Ids : ~Locks(w, e)'
      /\ ~Holds(w, d)'
      /\ \A e \in Ids \ {d} : batch'[w][e] = batch[w][e] /\ (Holds(w, e)' => Holds(w, e))
      /\ workerPc'[w] # "finishing"
  BY <1>0, <1>a, DequeueFacts DEF DeliverFinish
<1>3. \A v \in Workers : ~Locks(v, d) /\ (v # w => ~Holds(v, d))
  BY <1>a, <1>b DEF PipelineInv, ClaimSound, HoldSound
<1> SUFFICES ASSUME NEW v \in Workers, NEW e \in Ids
             PROVE  ClaimSound(v, e)' /\ HoldSound(v, e)'
  BY <1>1 DEF WorkersSound
<1>4. /\ \A u \in Workers \ {w} : Locks(u, e)' = Locks(u, e) /\ Holds(u, e)' = Holds(u, e)
      /\ ClaimSound(v, e) /\ HoldSound(v, e)
  BY <1>2 DEF Locks, Holds, Claiming, PipelineInv
<1>5. CASE e = d
  <2>1. ~Locks(v, d)' /\ ~Holds(v, d)'
    BY <1>2, <1>3, <1>4, <1>5
  <2> QED
    BY <1>5, <2>1 DEF ClaimSound, HoldSound
<1>6. CASE e # d
  <2>1. rows'[e] = rows[e] /\ Exists(e)' = Exists(e)
    BY <1>1, <1>6 DEF Exists
  <2>2. \A u \in Workers : (Locks(u, e)' => Locks(u, e)) /\ (Holds(u, e)' => Holds(u, e))
    BY <1>2, <1>4, <1>6
  <2>3. batch'[v][e] = batch[v][e]
    BY <1>2, <1>6
  <2>4. ClaimSound(v, e)'
    BY <1>4, <2>1, <2>2, <2>3 DEF ClaimSound
  <2>5. CASE v = w
    <3>1. HoldSound(w, e)'
      BY <1>0, <1>2, <1>4, <1>6, <2>1, <2>2, <2>3, <2>5 DEF HoldSound
    <3> QED
      BY <2>4, <2>5, <3>1
  <2>6. CASE v # w
    <3>1. workerPc'[v] = workerPc[v] /\ current'[v] = current[v]
      BY <1>2, <2>6
    <3>2. HoldSound(v, e)'
      BY <1>4, <2>1, <2>2, <2>3, <3>1 DEF HoldSound
    <3> QED
      BY <2>4, <3>2
  <2> QED
    BY <2>5, <2>6
<1> QED
  BY <1>5, <1>6

LEMMA DeliverFinishFailsSound ==
    ASSUME PipelineInv, NEW w \in Workers, DeliverFinishFails(w)
    PROVE  WorkersSound'
<1>0. PICK d \in Ids : d = current[w]
  BY DEF DeliverFinishFails, PipelineInv, TypeInv, LocalStateOK
<1>a. workerPc[w] = "finishing" /\ Dequeue(w, d) /\ UNCHANGED <<rows, events>>
  BY <1>0 DEF DeliverFinishFails
<1>1. /\ \A v \in Workers \ {w} : /\ workerPc'[v] = workerPc[v]
                                   /\ batch'[v] = batch[v]
                                   /\ current'[v] = current[v]
      /\ \A e \in Ids : ~Locks(w, e)'
      /\ ~Holds(w, d)'
      /\ \A e \in Ids \ {d} : batch'[w][e] = batch[w][e] /\ (Holds(w, e)' => Holds(w, e))
      /\ workerPc'[w] # "finishing"
  BY <1>0, <1>a, DequeueFacts
<1>2. \A e \in Ids : Holds(w, e)' => Holds(w, e)
  BY <1>1
<1>3. ASSUME NEW e \in Ids, Holds(w, e)' PROVE HoldSound(w, e)'
  <2>1. HoldSound(w, e) /\ Holds(w, e) /\ e # d
    BY <1>1, <1>2, <1>3 DEF PipelineInv
  <2>2. \A v \in Workers \ {w} : ~Holds(v, e)'
    BY <1>1, <2>1 DEF HoldSound, Holds, Claiming
  <2> QED
    BY <1>0, <1>a, <1>1, <2>1, <2>2 DEF HoldSound, Exists
<1> QED
  BY <1>a, <1>1, <1>2, <1>3, OwnStateFrame DEF WorkersSound

LEMMA WorkerSound ==
    ASSUME PipelineInv, NEW w \in Workers,
           WorkerStep(w) \/ WorkerDisruption(w) \/ WorkerStart(w),
           UNCHANGED <<receiptId, receiptRow>>
    PROVE  TablesSound' /\ WorkersSound'
<1> USE DEF storeVars
<1>t. UNCHANGED <<rows, events>> => TablesSound'
  BY TablesFrame DEF TablesSound
<1>y. /\ workerPc \in [Workers -> WorkerPcs] /\ current \in [Workers -> Ids \cup {NoId}]
      /\ batch \in [Workers -> Copies]
  BY DEF PipelineInv, TypeInv, TypeOK, DispatcherTypeOK, Copies
<1>1. CASE ClaimSelect(w)
  BY <1>1, <1>t, ClaimSelectSound DEF ClaimSelect
<1>2. CASE ClaimCommit(w)
  <2>1. /\ \A v \in Workers \ {w} : /\ workerPc'[v] = workerPc[v]
                                    /\ batch'[v] = batch[v]
                                    /\ current'[v] = current[v]
        /\ workerPc[w] = "claiming" /\ ClaimWrites(w) /\ UNCHANGED events
        /\ workerPc'[w] = "working" /\ batch'[w] = batch[w]
    BY <1>2, <1>y DEF ClaimCommit
  <2> QED
    BY <2>1, ClaimCommitSound
<1>3. CASE ClaimCommitUnreported(w)
  <2>1. /\ \A v \in Workers \ {w} : /\ workerPc'[v] = workerPc[v]
                                    /\ batch'[v] = batch[v]
                                    /\ current'[v] = current[v]
        /\ workerPc[w] = "claiming" /\ ClaimWrites(w) /\ UNCHANGED events
        /\ workerPc'[w] = "idle"
    BY <1>3, <1>y DEF ClaimCommitUnreported, Reset
  <2> QED
    BY <2>1, ClaimCommitSound
<1>4. CASE ClaimRollback(w) \/ ClaimFails(w) \/ WorkerExit(w) \/ WorkerCrash(w)
  <2>1. UNCHANGED <<rows, events>> /\ \E pc \in {"idle", "stopped"} : Reset(w, pc)
    BY <1>4 DEF ClaimRollback, ClaimFails, WorkerExit, WorkerCrash
  <2> QED
    BY <1>t, <2>1, ResetSound
<1>5. CASE DeliverPrepare(w) \/ DeliverPrepareFails(w) \/ SendAccepted(w) \/ SendFails(w)
  <2>1. UNCHANGED <<rows, events>>
    BY <1>5 DEF DeliverPrepare, DeliverPrepareFails, SendAccepted, SendFails
  <2> QED
    BY <1>5, <1>t, <2>1, DeliverSound
<1>6. CASE DeliverFinish(w)
  BY <1>6, DeliverFinishSound
<1>7. CASE DeliverFinishFails(w)
  BY <1>7, <1>t, DeliverFinishFailsSound DEF DeliverFinishFails
<1>8. CASE WorkerStop(w)
  <2>1. UNCHANGED <<rows, events, workerPc, batch, current>>
    BY <1>8 DEF WorkerStop
  <2> QED
    BY <1>t, <2>1, WorkersFrame DEF WorkersSound
<1>9. CASE WorkerStart(w)
  <2>1. /\ \A v \in Workers \ {w} : /\ workerPc'[v] = workerPc[v]
                                    /\ batch'[v] = batch[v]
                                    /\ current'[v] = current[v]
        /\ workerPc'[w] = "idle" /\ UNCHANGED <<rows, events>>
    BY <1>9, <1>y DEF WorkerStart
  <2>2. \A d \in Ids : ~Locks(w, d)' /\ ~Holds(w, d)'
    BY <2>1 DEF Locks, Holds, Claiming
  <2> QED
    BY <1>t, <2>1, <2>2, OwnStateFrame DEF WorkersSound
<1> QED
  BY <1>1, <1>2, <1>3, <1>4, <1>5, <1>6, <1>7, <1>8, <1>9 DEF WorkerStep, WorkerDisruption

\* Steps of clients and cleaners write only rows that no worker has claimed.
LEMMA OthersFrame ==
    ASSUME PipelineInv, UNCHANGED <<workerPc, batch, current>>,
           \A d \in Ids : rows'[d] = rows[d] \/ \A w \in Workers : ~Locks(w, d) /\ ~Holds(w, d)
    PROVE  WorkersSound'
<1> SUFFICES ASSUME NEW w \in Workers, NEW d \in Ids
             PROVE  ClaimSound(w, d)' /\ HoldSound(w, d)'
  BY DEF WorkersSound
<1>1. \A v \in Workers : Locks(v, d)' = Locks(v, d) /\ Holds(v, d)' = Holds(v, d)
  BY DEF Locks, Holds, Claiming
<1>2. ClaimSound(w, d) /\ HoldSound(w, d)
  BY DEF PipelineInv
<1> QED
  BY <1>1, <1>2 DEF ClaimSound, HoldSound, Exists

LEMMA SendSound ==
    ASSUME PipelineInv, NEW s \in Senders, UNCHANGED <<workerPc, batch, current>>,
           SendReplays(s) \/ SendLookup(s) \/ SendRefused(s) \/ SendInserts(s)
    PROVE  TablesSound' /\ WorkersSound'
<1> USE DEF storeVars
<1>a. UNCHANGED <<receiptId, receiptRow>>
  BY DEF SendReplays, SendLookup, SendRefused, SendInserts
<1>1. CASE UNCHANGED <<rows, events>>
  BY <1>1, <1>a, TablesFrame, WorkersFrame DEF TablesSound, WorkersSound
<1>2. CASE SendInserts(s)
  <2>1. PICK d \in Ids : InsertWithEvent(d, NewRow(request[s]))
    BY <1>2 DEF SendInserts
  <2>t. /\ TypeInv /\ request[s] \in Identities
        /\ rows \in [Ids -> Row \cup {NoRow}] /\ events \in [Ids -> Seq(Event)]
    BY <1>2 DEF SendInserts, PipelineInv, TypeInv, TypeOK, StoreTypeOK, ServiceTypeOK
  <2>2. NewRow(request[s]) \in Row /\ RequestedEvent(NewRow(request[s])) \in Event
    BY <2>t, TypeFacts, NewRowFacts, EventTypes
  <2>3. /\ Unused(d)
        /\ rows'[d] = NewRow(request[s]) /\ events'[d] # <<>>
        /\ \A e \in Ids \ {d} : rows'[e] = rows[e] /\ events'[e] = events[e]
    BY <2>1, <2>2, <2>t DEF InsertWithEvent
  <2>4. \A w \in Workers : ~Locks(w, d) /\ ~Holds(w, d)
    BY <2>3 DEF PipelineInv, ClaimSound, HoldSound, Unused
  <2>5. ASSUME NEW e \in Ids PROVE RowSound(e)'
    <3>1. CASE e = d
      BY <2>3, <3>1, AttemptsAssumption DEF RowSound, NewRow, ReceiptStatuses
    <3>2. CASE e # d
      BY <2>3, <3>2 DEF PipelineInv, RowSound, Exists
    <3> QED
      BY <3>1, <3>2
  <2>6. ASSUME NEW p \in Reporters PROVE ReceiptSound(p)'
    <3>1. ReceiptSound(p) /\ (receiptId[p] # NoId => receiptId[p] \in Ids)
      BY <2>t, TypeFacts DEF PipelineInv
    <3>2. receiptId[p] # NoId => receiptId[p] # d
      BY <2>3, <3>1 DEF ReceiptSound, Unused
    <3> QED
      BY <1>a, <2>3, <3>1, <3>2 DEF ReceiptSound, VersionMatches, Exists
  <2> QED
    BY <2>3, <2>4, <2>5, <2>6, OthersFrame DEF TablesSound
<1> QED
  BY <1>1, <1>2 DEF SendReplays, SendLookup, SendRefused

LEMMA ReceiptStepSound ==
    ASSUME PipelineInv, NEW p \in Reporters, UNCHANGED <<workerPc, batch, current>>,
           ReceiptReplays(p) \/ ReceiptLookup(p) \/ ReceiptFinishes(p) \/ ReceiptFails(p)
    PROVE  TablesSound' /\ WorkersSound'
<1> USE DEF storeVars
<1>t. /\ TypeInv /\ receiptId \in [Reporters -> Ids \cup {NoId}]
      /\ receiptRow \in [Reporters -> Row \cup {NoRow}]
  BY DEF PipelineInv, TypeInv, TypeOK, ServiceTypeOK
<1>1. CASE ReceiptReplays(p)
  BY <1>1, TablesFrame, WorkersFrame DEF ReceiptReplays, TablesSound, WorkersSound
<1>2. CASE ReceiptLookup(p)
  <2>1. PICK d \in Ids, status \in ReceiptStatuses :
          /\ Matches(d) /\ ~Terminal(rows[d].status)
          /\ receiptId' = [receiptId EXCEPT ![p] = d]
          /\ receiptRow' = [receiptRow EXCEPT ![p] = Receipted(rows[d], status)]
    BY <1>2 DEF ReceiptLookup
  <2>2. UNCHANGED <<rows, events>>
    BY <1>2 DEF ReceiptLookup
  <2>3. RowSound(d) /\ Exists(d) /\ rows[d] \in Row /\ rows[d].status = "sent"
    BY <1>t, <2>1, TypeFacts DEF PipelineInv, RowSound, Matches, Terminal
  <2>4. /\ receiptId'[p] = d /\ receiptRow'[p] = Receipted(rows[d], status)
        /\ \A q \in Reporters \ {p} : receiptId'[q] = receiptId[q] /\ receiptRow'[q] = receiptRow[q]
    BY <1>t, <2>1
  <2>5. ReceiptSound(p)'
    <3>1. /\ Receipted(rows[d], status).version = rows[d].version
          /\ Receipted(rows[d], status).ref = rows[d].ref
      BY <1>t, <2>3, TypeFacts, ReceiptedFacts
    <3> QED
      BY <2>2, <2>3, <2>4, <3>1, RowFields DEF ReceiptSound, RowSound, Exists
  <2>6. ASSUME NEW q \in Reporters \ {p} PROVE ReceiptSound(q)'
    BY <2>2, <2>4 DEF PipelineInv, ReceiptSound, Exists, VersionMatches
  <2> QED
    BY <2>2, <2>5, <2>6, TablesFrame, WorkersFrame DEF TablesSound, WorkersSound
<1>3. CASE ReceiptFinishes(p)
  <2>1. PICK d \in Ids : d = receiptId[p]
    BY <1>3, <1>t DEF ReceiptFinishes
  <2>2. /\ receiptRow[p] \in Row /\ receiptRow[p].status \in ReceiptStatuses
        /\ FinishWithEvent(d, receiptRow[p]) /\ receiptId[p] # NoId
    BY <1>3, <1>t, <2>1, TypeFacts DEF ReceiptFinishes, TypeInv, LocalStateOK
  <2>3. /\ VersionMatches(d, receiptRow[p]) /\ ReceiptSound(p) /\ RowSound(d)
    BY <2>2 DEF FinishWithEvent, PipelineInv
  <2>4. /\ rows[d].status = "sent" /\ Exists(d)
        /\ receiptRow[p].ref = rows[d].ref
    BY <2>1, <2>2, <2>3 DEF ReceiptSound, VersionMatches
  <2>5. receiptRow[p].ref # NoRef
    BY <2>3, <2>4 DEF RowSound
  <2>6. /\ \A e \in Ids \ {d} : rows'[e] = rows[e]
        /\ \A e \in Ids : RowSound(e)'
        /\ \A q \in Reporters :
             receiptId'[q] = receiptId[q] /\ receiptRow'[q] = receiptRow[q] => ReceiptSound(q)'
    BY <2>2, <2>5, FinishSound DEF ReceiptStatuses
  <2>7. /\ receiptId'[p] = NoId
        /\ \A q \in Reporters \ {p} : receiptId'[q] = receiptId[q] /\ receiptRow'[q] = receiptRow[q]
    BY <1>3, <1>t DEF ReceiptFinishes, ReceiptReturns
  <2>8. TablesSound'
    BY <2>6, <2>7 DEF TablesSound, ReceiptSound
  <2>9. \A w \in Workers : ~Locks(w, d) /\ ~Holds(w, d)
    BY <2>4 DEF PipelineInv, ClaimSound, HoldSound
  <2> QED
    BY <2>6, <2>8, <2>9, OthersFrame
<1>4. CASE ReceiptFails(p)
  <2>1. /\ receiptId'[p] = NoId /\ UNCHANGED <<rows, events>>
        /\ \A q \in Reporters \ {p} : receiptId'[q] = receiptId[q] /\ receiptRow'[q] = receiptRow[q]
    BY <1>4, <1>t DEF ReceiptFails, ReceiptReturns
  <2>2. ASSUME NEW q \in Reporters PROVE ReceiptSound(q)'
    BY <2>1 DEF PipelineInv, ReceiptSound, Exists, VersionMatches
  <2> QED
    BY <2>1, <2>2, TablesFrame, WorkersFrame DEF TablesSound, WorkersSound
<1> QED
  BY <1>1, <1>2, <1>3, <1>4

LEMMA CleanerSound ==
    ASSUME PipelineInv, NEW c \in Cleaners, UNCHANGED <<workerPc, batch, current>>,
           UNCHANGED <<receiptId, receiptRow>>,
           CleanerStep(c) \/ CleanFails(c)
    PROVE  TablesSound' /\ WorkersSound'
<1> USE DEF storeVars
<1>1. CASE UNCHANGED <<rows, events>>
  BY <1>1, TablesFrame, WorkersFrame DEF TablesSound, WorkersSound
<1>2. CASE CleanDelete(c)
  <2>1. /\ UNCHANGED events
        /\ \A d \in Ids : \/ rows'[d] = rows[d]
                          \/ rows'[d] = NoRow /\ IsExpired(d, before[c])
    BY <1>2 DEF CleanDelete, ForgetBatch, Deletable, ExpiredAt
  <2>2. \A d \in Ids : rows'[d] = rows[d] \/ \A w \in Workers : ~Locks(w, d) /\ ~Holds(w, d)
    BY <2>1 DEF PipelineInv, ClaimSound, HoldSound, IsExpired
  <2>3. ASSUME NEW d \in Ids PROVE RowSound(d)'
    BY <2>1 DEF PipelineInv, RowSound, Exists
  <2>4. ASSUME NEW p \in Reporters PROVE ReceiptSound(p)'
    <3>1. ReceiptSound(p) /\ (receiptId[p] # NoId => receiptId[p] \in Ids)
      BY TypeFacts DEF PipelineInv
    <3> QED
      BY <2>1, <3>1 DEF ReceiptSound, Exists, VersionMatches
  <2> QED
    BY <2>2, <2>3, <2>4, OthersFrame DEF TablesSound
<1> QED
  BY <1>1, <1>2 DEF CleanerStep, CleanSelect, CleanFindsNone, CleanFails, ForgetBatch

LEMMA PipelineStep == PipelineInv /\ [Next]_vars => PipelineInv'
<1> SUFFICES ASSUME PipelineInv, [Next]_vars
             PROVE  TablesSound' /\ WorkersSound'
  BY TypeStep DEF PipelineInv, TablesSound, WorkersSound
<1> USE DEF dispatcherVars, serviceVars
<1>1. CASE DispatcherNext /\ UNCHANGED <<serviceVars, cleanerVars>>
  BY <1>1, WorkerSound DEF DispatcherNext
<1>2. CASE ServiceNext /\ UNCHANGED <<dispatcherVars, cleanerVars>>
  BY <1>2, SendSound, ReceiptStepSound DEF ServiceNext
<1>3. CASE CleanerNext /\ UNCHANGED <<dispatcherVars, serviceVars>>
  BY <1>3, CleanerSound DEF CleanerNext
<1>4. CASE UNCHANGED <<rows, events, workerPc, batch, current, receiptId, receiptRow>>
  BY <1>4, TablesFrame, WorkersFrame DEF TablesSound, WorkersSound
<1> QED
  BY <1>1, <1>2, <1>3, <1>4 DEF Next, Tick, StoreTick, vars, storeVars

\* The invariant the safety theorems rest on holds throughout.
THEOREM PipelineInvariant == Spec => []PipelineInv
  BY PipelineInit, PipelineStep, PTL DEF Spec

-----------------------------------------------------------------------------
(* Safety *)

\* Every variable of the pipeline keeps its type, for any number of replicas,
\* clients and deliveries.
THEOREM TypeOKHolds == Spec => []TypeOK
<1>1. TypeInv => TypeOK
  BY DEF TypeInv
<1> QED
  BY <1>1, TypeCorrect, PTL

\* ClaimDue's locks and versions keep two workers off one delivery: what a worker
\* holds is its own until it finishes it.
THEOREM ClaimsAreExclusive == Spec => []ExclusiveClaim
<1>1. PipelineInv => ExclusiveClaim
  BY DEF PipelineInv, HoldSound, ExclusiveClaim
<1> QED
  BY <1>1, PipelineInvariant, PTL

-----------------------------------------------------------------------------
(* What a step may do to a row *)

\* An open row is written to, and keeps its identity.
Advances(d) ==
    /\ Exists(d) /\ ~Terminal(rows[d].status)
    /\ rows'[d] \in Row /\ rows'[d].identity = rows[d].identity

\* A row appears under an identity no other row has.
Appears(d) ==
    /\ Unused(d)
    /\ \A e \in Ids \ {d} : rows'[e] = rows[e] /\ ~HasKey(e, rows'[d].identity)

\* A row goes, and was sent or dead.
Vanishes(d) == rows'[d] = NoRow /\ rows[d].status \in {"sent", "dead_letter"}

RowStep(d) == rows'[d] = rows[d] \/ Vanishes(d) \/ Advances(d) \/ Appears(d)

LEMMA RowSteps ==
    ASSUME PipelineInv, [Next]_vars, NEW d \in Ids
    PROVE  RowStep(d)
<1> USE DEF storeVars
<1>t. /\ TypeInv /\ rows \in [Ids -> Row \cup {NoRow}]
  BY DEF PipelineInv, TypeInv, TypeOK, StoreTypeOK
<1>1. CASE UNCHANGED rows
  BY <1>1 DEF RowStep
<1>2. ASSUME NEW w \in Workers, workerPc[w] = "claiming", ClaimWrites(w) PROVE RowStep(d)
  <2>1. CASE Locks(w, d)
    <3>1. ClaimSound(w, d) /\ batch[w][d] \in Row /\ rows'[d] = batch[w][d]
      BY <1>t, <1>2, <2>1, TypeFacts DEF PipelineInv, Locks, ClaimWrites, Selected
    <3> QED
      BY <2>1, <3>1 DEF ClaimSound, RowStep, Advances, Terminal, ReceiptStatuses
  <2>2. CASE ~Locks(w, d)
    BY <1>2, <2>2 DEF Locks, ClaimWrites, Selected, RowStep
  <2> QED
    BY <2>1, <2>2
<1>3. ASSUME NEW e \in Ids, NEW row \in Row, FinishWithEvent(e, row),
             ~Terminal(rows[e].status)
      PROVE  RowStep(d)
  <2>1. CASE e = d
    <3>1. rows[d] \in Row /\ Exists(d) /\ rows'[d] = Finished(rows[d], row)
      BY <1>t, <1>3, <2>1 DEF FinishWithEvent, VersionMatches, Exists
    <3> QED
      BY <1>3, <2>1, <3>1, FinishedFacts DEF RowStep, Advances
  <2>2. CASE e # d
    BY <1>t, <1>3, <2>2 DEF FinishWithEvent, RowStep
  <2> QED
    BY <2>1, <2>2
<1>4. ASSUME NEW w \in Workers, DeliverFinish(w) PROVE RowStep(d)
  <2>1. PICK e \in Ids : e = current[w]
    BY <1>4, <1>t DEF DeliverFinish, TypeInv, LocalStateOK
  <2>2. batch[w][e] \in Row /\ Holds(w, e) /\ HoldSound(w, e) /\ FinishWithEvent(e, batch[w][e])
    BY <1>4, <1>t, <2>1, TypeFacts
       DEF DeliverFinish, PipelineInv, TypeInv, LocalStateOK, Holds, Claiming
  <2>3. ~Terminal(rows[e].status)
    BY <2>2 DEF HoldSound, Terminal, ReceiptStatuses
  <2> QED
    BY <1>3, <2>2, <2>3
<1>5. ASSUME NEW p \in Reporters, ReceiptFinishes(p) PROVE RowStep(d)
  <2>1. PICK e \in Ids : e = receiptId[p]
    BY <1>5, <1>t, TypeFacts DEF ReceiptFinishes
  <2>2. receiptRow[p] \in Row /\ ReceiptSound(p) /\ FinishWithEvent(e, receiptRow[p])
    BY <1>5, <1>t, <2>1, TypeFacts DEF ReceiptFinishes, PipelineInv
  <2>3. rows[e].status = "sent"
    BY <1>5, <2>1, <2>2 DEF ReceiptFinishes, FinishWithEvent, ReceiptSound
  <2>4. ~Terminal(rows[e].status)
    BY <2>3 DEF Terminal, ReceiptStatuses
  <2> QED
    BY <1>3, <2>2, <2>4
<1>6. ASSUME NEW s \in Senders, SendInserts(s) PROVE RowStep(d)
  <2>1. PICK e \in Ids : InsertWithEvent(e, NewRow(request[s]))
    BY <1>6 DEF SendInserts
  <2>2. CASE e = d
    <3>1. Unused(d) /\ rows'[d] = NewRow(request[s]) /\ \A x \in Ids \ {d} : rows'[x] = rows[x]
      BY <1>t, <2>1, <2>2 DEF InsertWithEvent
    <3>2. \A x \in Ids : ~HasKey(x, rows'[d].identity)
      BY <2>1, <2>2, <3>1 DEF InsertWithEvent, KeyTaken
    <3> QED
      BY <3>1, <3>2 DEF RowStep, Appears
  <2>3. CASE e # d
    BY <1>t, <2>1, <2>3 DEF InsertWithEvent, RowStep
  <2> QED
    BY <2>2, <2>3
<1>7. ASSUME NEW c \in Cleaners, CleanDelete(c) PROVE RowStep(d)
  BY <1>7 DEF CleanDelete, Deletable, ExpiredAt, IsExpired, RowStep, Vanishes
<1>8. CASE DispatcherNext
  <2>1. PICK w \in Workers : WorkerStep(w) \/ WorkerDisruption(w) \/ WorkerStart(w)
    BY <1>8 DEF DispatcherNext
  <2>2. \/ UNCHANGED rows
        \/ workerPc[w] = "claiming" /\ ClaimWrites(w)
        \/ DeliverFinish(w)
    BY <2>1 DEF WorkerStep, WorkerDisruption, ClaimSelect, ClaimCommit, ClaimCommitUnreported,
         ClaimRollback, ClaimFails, DeliverPrepare, DeliverPrepareFails, SendAccepted, SendFails,
         DeliverFinishFails, WorkerStop, WorkerExit, WorkerStart, WorkerCrash
  <2> QED
    BY <1>1, <1>2, <1>4, <2>2
<1>9. CASE ServiceNext
  BY <1>1, <1>5, <1>6, <1>9
     DEF ServiceNext, SendReplays, SendLookup, SendRefused, ReceiptReplays, ReceiptLookup, ReceiptFails
<1>10. CASE CleanerNext
  BY <1>1, <1>7, <1>10 DEF CleanerNext, CleanerStep, CleanSelect, CleanFindsNone, CleanFails
<1> QED
  BY <1>1, <1>8, <1>9, <1>10 DEF Next, Tick, StoreTick, vars

\* Neither a late receipt, nor a worker, nor a second replica rewrites a delivery
\* whose status is terminal: version checks and locks close every race.
THEOREM TerminalStaysFinal == Spec => TerminalIsFinal
<1>1. PipelineInv /\ [Next]_vars =>
        [\A d \in Ids : Exists(d) /\ Terminal(rows[d].status) =>
            rows'[d] = rows[d] \/ rows'[d] = NoRow]_vars
  BY RowSteps DEF RowStep, Vanishes, Advances, Appears, Unused
<1> QED
  BY <1>1, PipelineInvariant, PTL DEF Spec, TerminalIsFinal

\* Concurrent Sends of one key, before or after a lost answer, leave one delivery.
THEOREM KeysAreUnique == Spec => []OneDeliveryPerKey
<1>1. Init => OneDeliveryPerKey
  BY DEF Init, StoreInit, OneDeliveryPerKey, Exists
<1>2. PipelineInv /\ OneDeliveryPerKey /\ [Next]_vars => OneDeliveryPerKey'
  <2> SUFFICES ASSUME PipelineInv, OneDeliveryPerKey, [Next]_vars, NEW d \in Ids, NEW e \in Ids,
                      Exists(d)', Exists(e)', rows'[d].identity = rows'[e].identity
               PROVE  d = e
    BY DEF OneDeliveryPerKey
  <2>1. RowStep(d) /\ RowStep(e)
    BY RowSteps
  <2>2. CASE Appears(d) \/ Appears(e)
    BY <2>2 DEF Appears, HasKey, Exists
  <2>3. CASE ~Appears(d) /\ ~Appears(e)
    <3>1. /\ Exists(d) /\ rows'[d].identity = rows[d].identity
          /\ Exists(e) /\ rows'[e].identity = rows[e].identity
      BY <2>1, <2>3 DEF RowStep, Vanishes, Advances, Exists
    <3> QED
      BY <3>1 DEF OneDeliveryPerKey
  <2> QED
    BY <2>2, <2>3
<1> QED
  BY <1>1, <1>2, PipelineInvariant, PTL DEF Spec

\* RecordReceipt confirms a receipt only with the row that has it.
LEMMA ConfirmSteps ==
    ASSUME PipelineInv, [Next]_vars, NEW r \in confirmed' \ confirmed
    PROVE  r.id \in Ids /\ Exists(r.id)' /\ rows'[r.id].status = r.status
<1>t. TypeInv /\ rows \in [Ids -> Row \cup {NoRow}]
  BY DEF PipelineInv, TypeInv, TypeOK, StoreTypeOK
<1>1. PICK p \in Reporters : ReceiptReplays(p) \/ ReceiptFinishes(p)
  BY DEF Next, Tick, DispatcherNext, CleanerNext, ServiceNext, serviceVars, vars, SendReplays,
         SendLookup, SendRefused, SendInserts, ReceiptLookup, ReceiptFails
<1>2. CASE ReceiptReplays(p)
  <2>1. PICK d \in Ids : Matches(d) /\ r = [id |-> d, status |-> rows[d].status]
    BY <1>2 DEF ReceiptReplays
  <2> QED
    BY <1>2, <2>1 DEF ReceiptReplays, Matches, Exists, storeVars
<1>3. CASE ReceiptFinishes(p)
  <2>1. PICK d \in Ids : d = receiptId[p]
    BY <1>3, <1>t, TypeFacts DEF ReceiptFinishes
  <2>2. r = [id |-> d, status |-> receiptRow[p].status] /\ FinishWithEvent(d, receiptRow[p])
    BY <1>3, <2>1 DEF ReceiptFinishes
  <2>3. receiptRow[p] \in Row
    BY <1>3, <1>t, TypeFacts DEF ReceiptFinishes
  <2>4. rows'[d] = Finished(rows[d], receiptRow[p]) /\ rows[d] \in Row
    BY <1>t, <2>2 DEF FinishWithEvent, VersionMatches, Exists
  <2> QED
    BY <2>2, <2>3, <2>4, FinishedFacts DEF Exists
<1> QED
  BY <1>1, <1>2, <1>3

\* A receipt that RecordReceipt confirmed survives every later receipt, worker
\* and clean-up round, on every replica.
THEOREM ReceiptsStay == Spec => []ReceiptsAreKept
<1>1. Init => ReceiptsAreKept
  BY DEF Init, ServiceInit, ReceiptsAreKept
<1>2. PipelineInv /\ ReceiptsAreKept /\ [Next]_vars => ReceiptsAreKept'
  <2> SUFFICES ASSUME PipelineInv, ReceiptsAreKept, [Next]_vars, NEW r \in confirmed'
               PROVE  Exists(r.id)' /\ rows'[r.id].status = r.status
    BY DEF ReceiptsAreKept
  <2>1. CASE r \in confirmed
    <3>1. r.id \in Ids /\ r.status \in ReceiptStatuses
      BY <2>1 DEF PipelineInv, TypeInv, TypeOK, ServiceTypeOK, Confirmation
    <3>2. Exists(r.id) /\ rows[r.id].status = r.status /\ RowStep(r.id)
      BY <2>1, <3>1, RowSteps DEF ReceiptsAreKept
    <3>3. rows'[r.id] = rows[r.id]
      BY <3>1, <3>2 DEF RowStep, Vanishes, Advances, Appears, Unused, Terminal, ReceiptStatuses
    <3> QED
      BY <3>2, <3>3 DEF Exists
  <2>2. CASE r \notin confirmed
    BY <2>2, ConfirmSteps
  <2> QED
    BY <2>1, <2>2
<1> QED
  BY <1>1, <1>2, PipelineInvariant, PTL DEF Spec

-----------------------------------------------------------------------------
(* What a call of clean leaves behind *)

\* A SELECT that left something out has filled its batch.
BatchSound(c) ==
    /\ doomed[c] \subseteq Ids
    /\ left[c] # {} => Cardinality(doomed[c]) = CleanupBatchSize

LEMMA LimitIsReached ==
    ASSUME NEW matching \in SUBSET Ids, NEW S, NEW column,
           IsFirst(S, matching, column, CleanupBatchSize), S # matching
    PROVE  Cardinality(S) = CleanupBatchSize
<1>1. IsFiniteSet(matching)
  BY IdsAssumption, FS_Subset
<1>2. S \in SUBSET matching
  BY DEF IsFirst
<1>3. Cardinality(S) # Cardinality(matching)
  BY <1>1, <1>2, FS_Subset
<1> QED
  BY <1>3 DEF IsFirst

LEMMA BatchStep ==
    ASSUME TypeInv, [Next]_vars, NEW b \in Cleaners, BatchSound(b)
    PROVE  BatchSound(b)'
<1>t. doomed \in [Cleaners -> SUBSET Ids] /\ left \in [Cleaners -> SUBSET Ids]
  BY DEF TypeInv, TypeOK, CleanerTypeOK
<1>1. CASE UNCHANGED <<doomed, left>>
  BY <1>1 DEF BatchSound
<1>2. ASSUME NEW c \in Cleaners, CleanSelect(c) PROVE BatchSound(b)'
  <2> DEFINE expired == ExpiredAt(now - Retention)
             column  == [d \in expired |-> rows[d].updatedAt]
  <2>1. PICK S \in SUBSET Ids : /\ IsFirst(S, expired, column, CleanupBatchSize)
                                /\ doomed' = [doomed EXCEPT ![c] = S]
                                /\ left' = [left EXCEPT ![c] = expired \ S]
    BY <1>2 DEF CleanSelect
  <2>2. expired \in SUBSET Ids
    BY DEF ExpiredAt
  <2>3. expired \ S # {} => S # expired
    OBVIOUS
  <2>4. expired \ S # {} => Cardinality(S) = CleanupBatchSize
    <3> HIDE DEF expired, column
    <3> QED
      BY <2>1, <2>2, <2>3, LimitIsReached
  <2> HIDE DEF expired, column
  <2> QED
    BY <1>t, <2>1, <2>4 DEF BatchSound
<1>3. ASSUME NEW c \in Cleaners, ForgetBatch(c) PROVE BatchSound(b)'
  BY <1>t, <1>3 DEF ForgetBatch, BatchSound
<1>4. CASE CleanerNext
  BY <1>1, <1>2, <1>3, <1>4
     DEF CleanerNext, CleanerStep, CleanFindsNone, CleanDelete, CleanFails
<1> QED
  BY <1>1, <1>4 DEF Next, Tick, vars, cleanerVars

\* A call of clean returns early, with expired deliveries its SELECT left out still
\* in the table, only when a statement failed or somebody else got to the batch.
THEOREM RoundsStayComplete == Spec => RoundsAreComplete
<1> DEFINE Inv == TypeInv /\ \A c \in Cleaners : BatchSound(c)
<1>1. Init => Inv
  BY TypeInit DEF Init, CleanerInit, BatchSound
<1>2. Inv /\ [Next]_vars => Inv'
  BY TypeStep, BatchStep
<1>3. Inv /\ [Next]_vars =>
        [\A c \in cleaning \ cleaning' :
            disruptions' # disruptions \/ doomed[c] # Deletable(c) \/ left[c] = {}]_vars
  <2> SUFFICES ASSUME Inv, Next, NEW c \in cleaning \ cleaning',
                      doomed[c] = Deletable(c), left[c] # {}
               PROVE  disruptions' # disruptions
    OBVIOUS
  <2>1. c \in Cleaners /\ disruptions \in Nat
    BY DEF TypeInv, TypeOK, CleanerTypeOK, StoreTypeOK
  <2>2. Cardinality(doomed[c]) = CleanupBatchSize
    BY <2>1 DEF BatchSound
  <2>3. doomed[c] # {}
    BY <2>2, FS_EmptySet
  <2>4. ~IsLastBatch(c)
    BY <2>2 DEF IsLastBatch
  <2>5. CleanFails(c)
    BY <2>1, <2>3, <2>4
       DEF Next, Tick, cleanerVars, CleanerNext, CleanerStep, CleanSelect, CleanFindsNone,
           CleanDelete, CleanFails
  <2> QED
    BY <2>1, <2>5 DEF CleanFails, Disrupted
<1> QED
  BY <1>1, <1>2, <1>3, PTL DEF Spec, RoundsAreComplete

=============================================================================
