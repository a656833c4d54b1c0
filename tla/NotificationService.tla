------------------------- MODULE NotificationService -------------------------
(***************************************************************************)
(* internal/notification/service.go: the two operations of the service     *)
(* that write deliveries, Send and RecordReceipt, each called by any       *)
(* number of clients at once over HTTP or gRPC.                            *)
(*                                                                         *)
(* Both read a row on one connection and write in a transaction on         *)
(* another; anything may happen in between.  Validation, tenant and        *)
(* application checks, the frequency limiter and the template lookup       *)
(* decide only whether the call is refused, so a caller may be refused at  *)
(* any of them.  A refusal before the first read changes nothing and is    *)
(* no step.  replies and confirmed are history variables.                  *)
(***************************************************************************)
EXTENDS DeliveryStore

CONSTANTS
    Senders,        \* concurrent calls of Send
    Reporters,      \* concurrent calls of RecordReceipt
    NoRequest       \* the caller is not in a call

ASSUME RequestAssumption == NoRequest \notin Identities

VARIABLES
    request,        \* Senders: what Send found no delivery for
    receiptId,      \* Reporters: the delivery the receipt was matched to
    receiptRow,     \* Reporters: its copy, with the receipt applied
    replies,        \* history: the deliveries Send returned without error
    confirmed       \* history: the receipts RecordReceipt returned without error

serviceVars == <<request, receiptId, receiptRow, replies, confirmed>>

Reply == [identity: Identities, id: Ids]

Confirmation == [id: Ids, status: ReceiptStatuses]

ServiceTypeOK ==
    /\ request \in [Senders -> Identities \cup {NoRequest}]
    /\ receiptId \in [Reporters -> Ids \cup {NoId}]
    /\ receiptRow \in [Reporters -> Row \cup {NoRow}]
    /\ replies \in SUBSET Reply
    /\ confirmed \in SUBSET Confirmation

ServiceInit ==
    /\ request = [s \in Senders |-> NoRequest]
    /\ receiptId = [p \in Reporters |-> NoId]
    /\ receiptRow = [p \in Reporters |-> NoRow]
    /\ replies = {}
    /\ confirmed = {}

-----------------------------------------------------------------------------
(* Send *)

\* GetDeliveryByKey finds a delivery: Send returns it.
SendReplays(s) ==
    /\ request[s] = NoRequest
    /\ \E d \in Ids :
        /\ Exists(d)
        /\ replies' = replies \cup {[identity |-> rows[d].identity, id |-> d]}
    /\ UNCHANGED <<storeVars, request, receiptId, receiptRow, confirmed>>

\* GetDeliveryByKey finds none: Send goes on to the limiter and the template.
SendLookup(s) ==
    /\ request[s] = NoRequest
    /\ \E identity \in Identities :
        /\ ~KeyTaken(identity)
        /\ request' = [request EXCEPT ![s] = identity]
    /\ UNCHANGED <<storeVars, receiptId, receiptRow, replies, confirmed>>

\* Send returns an error and has written nothing: the limiter refused, the
\* template is absent or disabled, the unique constraint or the database
\* rejected the transaction.
SendRefused(s) ==
    /\ request[s] # NoRequest
    /\ request' = [request EXCEPT ![s] = NoRequest]
    /\ UNCHANGED <<storeVars, receiptId, receiptRow, replies, confirmed>>

\* The transaction commits; Send returns the delivery, or the error COMMIT
\* reported although it committed.
SendInserts(s) ==
    /\ request[s] # NoRequest
    /\ \E d \in Ids :
        /\ InsertWithEvent(d, NewRow(request[s]))
        /\ \/ /\ replies' = replies \cup {[identity |-> request[s], id |-> d]}
              /\ UNCHANGED disruptions
           \/ Disrupted /\ UNCHANGED replies
    /\ request' = [request EXCEPT ![s] = NoRequest]
    /\ UNCHANGED <<now, receiptId, receiptRow, confirmed>>

-----------------------------------------------------------------------------
(* RecordReceipt *)

\* GetDeliveryByProviderMessage returns a row with this provider and message id;
\* nothing makes it unique, so it may be any such row.
Matches(d) == Exists(d) /\ rows[d].ref # NoRef

\* The delivery already has the reported status: RecordReceipt returns it.
ReceiptReplays(p) ==
    /\ receiptId[p] = NoId
    /\ \E d \in Ids :
        /\ Matches(d) /\ rows[d].status \in ReceiptStatuses
        /\ confirmed' = confirmed \cup {[id |-> d, status |-> rows[d].status]}
    /\ UNCHANGED <<storeVars, request, receiptId, receiptRow, replies>>

\* The copy with the receipt applied.
Receipted(row, status) == [row EXCEPT !.status = status, !.updatedAt = now]

\* The delivery is open: its copy takes the status.  A terminal delivery is a
\* conflict, which changes nothing.
ReceiptLookup(p) ==
    /\ receiptId[p] = NoId
    /\ \E d \in Ids, status \in ReceiptStatuses :
        /\ Matches(d) /\ ~Terminal(rows[d].status)
        /\ receiptId' = [receiptId EXCEPT ![p] = d]
        /\ receiptRow' = [receiptRow EXCEPT ![p] = Receipted(rows[d], status)]
    /\ UNCHANGED <<storeVars, request, replies, confirmed>>

ReceiptReturns(p) ==
    /\ receiptId' = [receiptId EXCEPT ![p] = NoId]
    /\ receiptRow' = [receiptRow EXCEPT ![p] = NoRow]
    /\ UNCHANGED <<now, request, replies>>

\* The transaction commits; COMMIT may report an error all the same.
ReceiptFinishes(p) ==
    LET d == receiptId[p] IN
    /\ d # NoId
    /\ FinishWithEvent(d, receiptRow[p])
    /\ \/ /\ confirmed' = confirmed \cup {[id |-> d, status |-> receiptRow[p].status]}
          /\ UNCHANGED disruptions
       \/ Disrupted /\ UNCHANGED confirmed
    /\ ReceiptReturns(p)

\* The row was written or deleted since it was read, or the database failed.
ReceiptFails(p) ==
    LET d == receiptId[p] IN
    /\ d # NoId
    /\ \/ ~VersionMatches(d, receiptRow[p]) /\ UNCHANGED disruptions
       \/ Disrupted
    /\ ReceiptReturns(p)
    /\ UNCHANGED <<rows, events, confirmed>>

-----------------------------------------------------------------------------

ServiceNext ==
    \/ \E s \in Senders : SendReplays(s) \/ SendLookup(s) \/ SendRefused(s) \/ SendInserts(s)
    \/ \E p \in Reporters :
        ReceiptReplays(p) \/ ReceiptLookup(p) \/ ReceiptFinishes(p) \/ ReceiptFails(p)

=============================================================================
