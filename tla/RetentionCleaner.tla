--------------------------- MODULE RetentionCleaner ---------------------------
(***************************************************************************)
(* internal/notification/cleanup.go: the retention cleaner of each         *)
(* replica.  A call of clean selects batches of expired ids and deletes    *)
(* each in a second statement; there is no transaction around the two.  It *)
(* goes on to the next batch while full ones are deleted and returns after *)
(* a short or an empty one; the next call is made at the next tick of the  *)
(* cleanup interval.  A call that finds nothing changes nothing.           *)
(***************************************************************************)
EXTENDS DeliveryStore

CONSTANTS
    Cleaners,           \* one per replica
    Retention,          \* notification.retention, in clock ticks
    CleanupBatchSize    \* notification.cleanup_batch_size

ASSUME CleanerAssumption ==
    Retention \in Nat \ {0} /\ CleanupBatchSize \in Nat \ {0}

VARIABLES
    cleaning,           \* the cleaners whose call of clean has found something
    doomed,             \* the ids the SELECT returned
    before,             \* the cutoff both statements are given
    left                \* history: the expired ids beyond the SELECT's limit

cleanerVars == <<cleaning, doomed, before, left>>

CleanerTypeOK ==
    /\ cleaning \in SUBSET Cleaners
    /\ doomed \in [Cleaners -> SUBSET Ids]
    /\ before \in [Cleaners -> Int]
    /\ left \in [Cleaners -> SUBSET Ids]

CleanerInit ==
    /\ cleaning = {}
    /\ doomed = [c \in Cleaners |-> {}]
    /\ before = [c \in Cleaners |-> 0]
    /\ left = [c \in Cleaners |-> {}]

ExpiredAt(cutoff) == {d \in Ids : IsExpired(d, cutoff)}

\* SELECT id ... LIMIT finds something, in a new call of clean or in one that has
\* deleted full batches.
CleanSelect(c) ==
    LET cutoff  == now - Retention
        expired == ExpiredAt(cutoff) IN
    /\ doomed[c] = {}
    /\ \E S \in SUBSET Ids \ {{}} :
        /\ IsFirst(S, expired, [d \in expired |-> rows[d].updatedAt], CleanupBatchSize)
        /\ doomed' = [doomed EXCEPT ![c] = S]
        /\ left' = [left EXCEPT ![c] = expired \ S]
    /\ before' = [before EXCEPT ![c] = cutoff]
    /\ cleaning' = cleaning \cup {c}
    /\ UNCHANGED storeVars

\* The SELECT after a full batch finds nothing: clean returns.
CleanFindsNone(c) ==
    /\ c \in cleaning
    /\ doomed[c] = {}
    /\ ExpiredAt(now - Retention) = {}
    /\ cleaning' = cleaning \ {c}
    /\ UNCHANGED <<doomed, before, left, storeVars>>

ForgetBatch(c) ==
    /\ doomed' = [doomed EXCEPT ![c] = {}]
    /\ before' = [before EXCEPT ![c] = 0]
    /\ left' = [left EXCEPT ![c] = {}]
    /\ UNCHANGED <<events, now>>

Deletable_ById(c) == doomed[c]

\* Which of the selected rows the DELETE still finds expired.
Deletable(c) == doomed[c] \cap ExpiredAt(before[c])

IsLastBatch_AlsoFull(c) == Cardinality(Deletable(c)) <= CleanupBatchSize

\* deleted < batchSize: clean returns.
IsLastBatch(c) == Cardinality(Deletable(c)) < CleanupBatchSize

\* DELETE ... WHERE id IN (...) and the row is still expired.
CleanDelete(c) ==
    /\ doomed[c] # {}
    /\ rows' = [d \in Ids |-> IF d \in Deletable(c) THEN NoRow ELSE rows[d]]
    /\ cleaning' = IF IsLastBatch(c) THEN cleaning \ {c} ELSE cleaning
    /\ ForgetBatch(c)
    /\ UNCHANGED disruptions

\* The DELETE fails, or the replica stops or dies before it.
CleanFails(c) ==
    /\ doomed[c] # {}
    /\ Disrupted
    /\ cleaning' = cleaning \ {c}
    /\ ForgetBatch(c)
    /\ UNCHANGED rows

CleanerStep(c) == CleanSelect(c) \/ CleanFindsNone(c) \/ CleanDelete(c)

CleanerNext == \E c \in Cleaners : CleanerStep(c) \/ CleanFails(c)

=============================================================================
