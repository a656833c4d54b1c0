-------------------------------- MODULE JobLock --------------------------------
(***************************************************************************)
(* internal/scheduler/scheduler.go and internal/cache/redis.go: a job that *)
(* cron starts in every replica, and the lock with a time to live in Redis *)
(* that lets one of them run it.                                           *)
(*                                                                         *)
(* The lock holds the token redsync gave its owner.  Its expiry is an      *)
(* event of its own, and "overdue" keeps who was still running then.       *)
(***************************************************************************)
CONSTANTS
    Replicas,
    NoOne               \* the lock is free

VARIABLES
    lock,               \* the key lock:cron:sample: the replica whose token it holds
    job,                \* per replica: where its run of the job is
    overdue             \* history: replicas whose run outlived its lock

JobTypeOK ==
    /\ lock \in Replicas \cup {NoOne}
    /\ job \in [Replicas -> {"idle", "locking", "executing", "unlocking"}]
    /\ overdue \subseteq Replicas

JobInit == lock = NoOne /\ job = [r \in Replicas |-> "idle"] /\ overdue = {}

Becomes(r, phase) == job' = [job EXCEPT ![r] = phase]

\* The schedule fires, and SkipIfStillRunning lets it: without a locker the job is
\* executed at once.
JobBegins(r, locker) ==
    /\ job[r] = "idle"
    /\ Becomes(r, IF locker THEN "locking" ELSE "executing")
    /\ UNCHANGED <<lock, overdue>>

\* SET NX with the time to live; contention is no error, and the run is skipped.
TryLock(r) ==
    /\ job[r] = "locking"
    /\ IF lock = NoOne
       THEN lock' = r /\ Becomes(r, "executing")
       ELSE UNCHANGED lock /\ Becomes(r, "idle")
    /\ UNCHANGED overdue

\* Redis answers with an error, or not at all, and may have set the key.
TryLockFails(r) ==
    /\ job[r] = "locking"
    /\ lock' \in {lock, IF lock = NoOne THEN r ELSE lock}
    /\ Becomes(r, "idle")
    /\ UNCHANGED overdue

JobEnds(r, locker) ==
    /\ job[r] = "executing"
    /\ Becomes(r, IF locker THEN "unlocking" ELSE "idle")
    /\ overdue' = overdue \ {r}
    /\ UNCHANGED lock

Unlock_Blind(r) ==
    /\ job[r] = "unlocking"
    /\ lock' = NoOne
    /\ Becomes(r, "idle")
    /\ UNCHANGED overdue

\* The deferred Unlock deletes the key while it holds the token of this run.
Unlock(r) ==
    /\ job[r] = "unlocking"
    /\ lock' = IF lock = r THEN NoOne ELSE lock
    /\ Becomes(r, "idle")
    /\ UNCHANGED overdue

\* Redis cannot be reached: the lock stays until it expires.
UnlockFails(r) ==
    /\ job[r] = "unlocking"
    /\ Becomes(r, "idle")
    /\ UNCHANGED <<lock, overdue>>

\* The key's time to live ends; no run extends it.
LockExpires ==
    /\ lock # NoOne
    /\ lock' = NoOne
    /\ overdue' = overdue \cup {r \in {lock} : job[r] = "executing"}
    /\ UNCHANGED job

\* The process is gone, the key is not.
JobGone(r) ==
    /\ Becomes(r, "idle")
    /\ overdue' = overdue \ {r}
    /\ UNCHANGED lock

JobStep(r, locker) == TryLock(r) \/ JobEnds(r, locker) \/ Unlock(r)

JobFault(r) == TryLockFails(r) \/ UnlockFails(r)

=============================================================================
