---------------------------- MODULE DeliveryStore ----------------------------
(***************************************************************************)
(* The tables notification_deliveries and notification_outbox_events, the  *)
(* SQL statements that internal/notification/repository.go issues against  *)
(* them, and the wall clock all replicas read.                             *)
(*                                                                         *)
(* A statement is an operator on rows; the transactions that wrap the      *)
(* statements (internal/database/transaction.go) are the actions of        *)
(* Dispatcher, NotificationService and RetentionCleaner.  A transaction    *)
(* takes effect when it commits, all its writes at once; one that rolls    *)
(* back leaves the tables alone.                                           *)
(*                                                                         *)
(* Template code, channel, locale, recipient, variables and failure        *)
(* reason are carried but never read by a guard, and are left out.  The    *)
(* pair (provider, provider_message_id) is one value, a ref.               *)
(***************************************************************************)
EXTENDS Integers, Sequences, FiniteSets

CONSTANTS
    Ids,            \* delivery ids (UUIDs: never reused)
    Tenants,        \* tenant ids
    Applications,   \* application ids
    Keys,           \* idempotency keys
    Refs,           \* (provider, message id) pairs a provider may answer
    NoRow,          \* no such row
    NoRef,          \* provider and provider_message_id are empty
    NoId,           \* no delivery
    MaxAttempts,    \* notification.max_attempts
    RetryBase,      \* notification.retry_base, in clock ticks
    MaxTime,        \* bound: the clock stops here
    MaxDisruptions  \* bound: database errors, crashes and shutdowns in a behaviour

VARIABLES
    rows,           \* notification_deliveries, by id
    events,         \* the notification_outbox_events of each delivery, oldest first
    now,            \* the wall clock
    disruptions     \* disruptions so far

storeVars == <<rows, events, now, disruptions>>

-----------------------------------------------------------------------------
(* Types *)

ReceiptStatuses == {"delivered", "bounced", "failed"}

Statuses == {"pending", "processing", "retrying", "sent", "dead_letter"} \cup ReceiptStatuses

\* The columns of the unique constraint notification_deliveries_scope_idempotency_key.
Identities == [tenant: Tenants, application: Applications, key: Keys]

Row == [identity: Identities,
        status: Statuses,
        ref: Refs \cup {NoRef},
        attempts: Nat,
        nextAt: Nat,
        version: Nat,
        updatedAt: Nat]

Event == [subject: {"requested", "status_changed"}, status: Statuses, version: Nat]

ASSUME NullAssumption == NoRow \notin Row /\ NoRef \notin Refs /\ NoId \notin Ids
ASSUME IdsAssumption == IsFiniteSet(Ids)
ASSUME AttemptsAssumption == MaxAttempts \in Nat \ {0} /\ RetryBase \in Nat \ {0}
ASSUME BoundAssumption == MaxTime \in Nat /\ MaxDisruptions \in Nat

StoreTypeOK ==
    /\ rows \in [Ids -> Row \cup {NoRow}]
    /\ events \in [Ids -> Seq(Event)]
    /\ now \in Nat
    /\ disruptions \in Nat

StoreInit ==
    /\ rows = [d \in Ids |-> NoRow]
    /\ events = [d \in Ids |-> <<>>]
    /\ now = 0
    /\ disruptions = 0

-----------------------------------------------------------------------------
(* Reading *)

Exists(d) == rows[d] # NoRow

\* terminalDeliveryStatus
Terminal(status) == status \in ReceiptStatuses \cup {"dead_letter"}

\* GetDeliveryByKey: the unique constraint leaves at most one such row.
HasKey(d, identity) == Exists(d) /\ rows[d].identity = identity

\* The unique constraint on (tenant_id, application_id, idempotency_key).
KeyTaken(identity) == \E d \in Ids : HasKey(d, identity)

\* An id uuid.NewString can return: no delivery, present or past, has it.
Unused(d) == ~Exists(d) /\ events[d] = <<>>

IsDue_PendingOnly(d) ==
    Exists(d) /\ rows[d].status = "pending" /\ rows[d].nextAt <= now

IsDue_AlsoProcessing(d) ==
    Exists(d) /\ rows[d].status \in {"pending", "retrying", "processing"} /\ rows[d].nextAt <= now

\* The WHERE clause of ClaimDue.
IsDue(d) ==
    Exists(d) /\ rows[d].status \in {"pending", "retrying"} /\ rows[d].nextAt <= now

IsExpired_AnyStatus(d, cutoff) == Exists(d) /\ rows[d].updatedAt < cutoff

IsExpired_SentOnly(d, cutoff) ==
    Exists(d) /\ rows[d].status = "sent" /\ rows[d].updatedAt < cutoff

\* The WHERE clause of both statements of DeleteTerminalDeliveriesBefore.
IsExpired(d, cutoff) ==
    Exists(d) /\ rows[d].status \in {"sent", "dead_letter"} /\ rows[d].updatedAt < cutoff

\* ORDER BY column LIMIT limit: which sets of ids S a SELECT over the ids in
\* matching may return when it sorts by column.  The order of equal values is
\* by id, which UUIDs make arbitrary.
IsFirst(S, matching, column, limit) ==
    /\ S \subseteq matching
    /\ Cardinality(S) = (IF Cardinality(matching) < limit THEN Cardinality(matching) ELSE limit)
    /\ \A x \in S, y \in matching \ S : column[x] <= column[y]

-----------------------------------------------------------------------------
(* Writing *)

\* The row Send inserts.
NewRow(identity) ==
    [identity |-> identity, status |-> "pending", ref |-> NoRef, attempts |-> 0,
     nextAt |-> now, version |-> 1, updatedAt |-> now]

\* The UPDATE of ClaimDue, which the code applies to its copy of the row too.
Claimed(row) ==
    [row EXCEPT !.status = "processing", !.attempts = @ + 1, !.version = @ + 1,
                !.updatedAt = now]

VersionMatches_Ignored(d, row) == Exists(d)

\* "WHERE id=? AND version=?": nobody wrote the row since row was read.
VersionMatches(d, row) == Exists(d) /\ rows[d].version = row.version

\* The UPDATE of Finish: the columns it sets from the copy, and a new version.
Finished(old, row) ==
    [old EXCEPT !.status = row.status, !.ref = row.ref, !.nextAt = row.nextAt,
                !.version = @ + 1, !.updatedAt = row.updatedAt]

StatusEvent_OldVersion(row) ==
    [subject |-> "status_changed", status |-> row.status, version |-> row.version]

\* addDeliveryEvent with the copy whose version the caller has raised by one.
StatusEvent(row) ==
    [subject |-> "status_changed", status |-> row.status, version |-> row.version + 1]

RequestedEvent(row) ==
    [subject |-> "requested", status |-> row.status, version |-> row.version]

\* The transaction of deliver and RecordReceipt: Finish and its outbox event.
FinishWithEvent(d, row) ==
    /\ VersionMatches(d, row)
    /\ rows' = [rows EXCEPT ![d] = Finished(@, row)]
    /\ events' = [events EXCEPT ![d] = Append(@, StatusEvent(row))]

InsertWithEvent_NoConstraint(d, row) ==
    /\ Unused(d)
    /\ rows' = [rows EXCEPT ![d] = row]
    /\ events' = [events EXCEPT ![d] = Append(@, RequestedEvent(row))]

\* The transaction of Send: the new row and its outbox event.
InsertWithEvent(d, row) ==
    /\ Unused(d)
    /\ ~KeyTaken(row.identity)
    /\ rows' = [rows EXCEPT ![d] = row]
    /\ events' = [events EXCEPT ![d] = Append(@, RequestedEvent(row))]

-----------------------------------------------------------------------------
(* The environment *)

\* A step that takes one of the behaviour's disruptions.
Disrupted ==
    /\ disruptions < MaxDisruptions
    /\ disruptions' = disruptions + 1

StoreTick ==
    /\ now < MaxTime
    /\ now' = now + 1
    /\ UNCHANGED <<rows, events, disruptions>>

=============================================================================
