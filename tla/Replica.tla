-------------------------------- MODULE Replica --------------------------------
(***************************************************************************)
(* internal/app/app.go and the lifecycle hooks it wires: how the replicas  *)
(* of the service start, work, stop and die, over one database             *)
(* (SchemaMigration) and one Redis (JobLock).                              *)
(*                                                                         *)
(* fx is a library.  It runs the constructors in the order of the Invokes  *)
(* and of what they need, then the OnStart hooks in that order, and at the *)
(* end the OnStop hooks of those that started in the reverse one; it stops *)
(* calling hooks when app.shutdown_timeout has passed.                     *)
(***************************************************************************)
EXTENDS SchemaMigration, FiniteSets, Sequences

CONSTANTS
    MaxBoots,           \* bound: how often replicas are started
    MaxBusy             \* bound: activities in flight at the same time, jobs aside

ASSUME ReplicaAssumption == MaxBoots \in Nat /\ MaxBusy \in Nat

VARIABLES
    config,             \* the configuration, of all replicas and for good
    phase,              \* per replica: what fx is doing
    count,              \* per replica: hooks that started and were not stopped
    busy,               \* <<replica, hook>> of the activities in flight, jobs aside
    boots,              \* how often replicas were started
    lock, job, overdue  \* JobLock's

INSTANCE JobLock

cronVars == <<lock, job, overdue>>

lifecycleVars == <<phase, count, busy, boots>>

vars == <<config, migrationVars, cronVars, lifecycleVars>>

-----------------------------------------------------------------------------
(* What is wired *)

\* The order of the modules alone, as if the dispatcher did not ask for the registry.
Hooks_ByModule ==
    <<"database", "redis", "events", "worker", "cleaner", "registry", "scheduler", "verifier",
      "grpc", "http">>

\* The order New leads to: each constructor comes before those that need its result.
Hooks ==
    <<"database", "redis", "events", "registry", "worker", "cleaner", "scheduler", "verifier",
      "grpc", "http">>

IndexOf(h) == CHOOSE i \in DOMAIN Hooks : Hooks[i] = h

Resources == {"database", "redis", "registry", "verifier"}

\* Loops on a ticker, whose select may choose the tick over the end of the context.
Loops == {"events", "worker", "cleaner"}

Servers == {"grpc", "http"}

\* What is opened by a constructor, and what each activity uses of it.
Uses ==
    [a \in Loops \cup Servers \cup {"scheduler"} |->
        CASE a \in Servers -> Resources
          [] a = "worker" -> {"database", "registry"}
          [] a = "scheduler" -> {"redis"}
          [] OTHER -> {"database"}]

Phases == {"down", "migrating", "building", "starting", "running", "stopping"}

TypeOK ==
    /\ config \in [autoUp: BOOLEAN, createSchema: BOOLEAN, redis: BOOLEAN]
    /\ MigrationTypeOK /\ JobTypeOK
    /\ phase \in [Replicas -> Phases]
    /\ count \in [Replicas -> 0 .. Len(Hooks)]
    /\ busy \subseteq Replicas \X (Loops \cup Servers)
    /\ boots \in 0 .. MaxBoots

Init ==
    /\ config \in [autoUp: BOOLEAN, createSchema: BOOLEAN, redis: BOOLEAN]
    /\ config.createSchema => config.autoUp
    /\ MigrationInit(config.createSchema) /\ JobInit
    /\ phase = [r \in Replicas |-> "down"]
    /\ count = [r \in Replicas |-> 0]
    /\ busy = {}
    /\ boots = 0

-----------------------------------------------------------------------------
(* New and Run *)

Moves(r, to, n) ==
    /\ phase' = [phase EXCEPT ![r] = to]
    /\ count' = [count EXCEPT ![r] = n]

\* main calls New, whose first Invoke is runStartupMigration.
Boot(r) ==
    /\ phase[r] = "down" /\ boots < MaxBoots
    /\ boots' = boots + 1
    /\ IF config.autoUp
       THEN Moves(r, "migrating", 0) /\ RunBegins(r, config.createSchema)
       ELSE Moves(r, "building", 0) /\ UNCHANGED migrationVars
    /\ UNCHANGED <<busy, cronVars>>

\* The process is gone, and with it its connections.
Gone(r) ==
    /\ Moves(r, "down", 0)
    /\ busy' = {b \in busy : b[1] # r}
    /\ SessionsEnd(r) /\ JobGone(r)
    /\ UNCHANGED boots

StartupMigrationEnds_Unchecked(r) ==
    /\ phase[r] = "migrating" /\ step[r] \in {"done", "failed"}
    /\ Moves(r, "building", 0) /\ Goes(r, "none")
    /\ UNCHANGED <<schema, schemaLock, version, dirty, migrationLock, seen, busy, boots, cronVars>>

\* runStartupMigration returns: its error is New's, and the process exits.
StartupMigrationEnds(r) ==
    /\ phase[r] = "migrating"
    /\ \/ step[r] = "failed" /\ Gone(r)
       \/ /\ step[r] = "done"
          /\ Moves(r, "building", 0) /\ Goes(r, "none")
          /\ UNCHANGED <<schema, schemaLock, version, dirty, migrationLock, seen, busy, boots, cronVars>>

Elsewhere(r) == UNCHANGED <<busy, boots, migrationVars, cronVars>>

\* The constructors open what they provide, and append their hooks.
Construct(r) ==
    /\ phase[r] = "building"
    /\ Moves(r, "starting", 0)
    /\ Elsewhere(r)

\* A ping fails, a client or an option is refused: no hook runs, the process exits.
ConstructFails(r) == phase[r] = "building" /\ Gone(r)

\* The next OnStart: a goroutine, a listener, a connection to the bus, or nothing.
HookStarts(r) ==
    /\ phase[r] = "starting" /\ count[r] < Len(Hooks)
    /\ Moves(r, IF count[r] + 1 = Len(Hooks) THEN "running" ELSE "starting", count[r] + 1)
    /\ Elsewhere(r)

\* The bus cannot be reached, or an address is taken: what started is stopped.
HookStartFails(r) ==
    /\ phase[r] = "starting" /\ Hooks[count[r] + 1] \in Servers \cup {"events"}
    /\ Moves(r, "stopping", count[r])
    /\ Elsewhere(r)

StopSignal(r) ==
    /\ phase[r] = "running"
    /\ Moves(r, "stopping", count[r])
    /\ Elsewhere(r)

\* The activity of a hook: one of its rounds or requests, or the job.
Active(r, h) == <<r, h>> \in busy \/ (h = "scheduler" /\ job[r] # "idle")

HookStops_Again(r) ==
    /\ phase[r] = "stopping"
    /\ count[r] > 0 => ~Active(r, Hooks[count[r]])
    /\ Moves(r, "stopping", count[r] - 1)
    /\ Elsewhere(r)

\* The next OnStop: a loop is cancelled and waited for, a server shut down, cron
\* stopped, each until nothing of it is in flight; a pool or a client is closed.
HookStops(r) ==
    /\ phase[r] = "stopping" /\ count[r] > 0
    /\ ~Active(r, Hooks[count[r]])
    /\ Moves(r, "stopping", count[r] - 1)
    /\ Elsewhere(r)

Stopped(r) == phase[r] = "stopping" /\ count[r] = 0 /\ Gone(r)

\* app.shutdown_timeout passes: no further hook is called, and main returns.
TimesOut(r) == phase[r] \in {"starting", "stopping"} /\ Gone(r)

Crash(r) == phase[r] # "down" /\ Gone(r)

-----------------------------------------------------------------------------
(* What started hooks do *)

\* The hook has started, and its OnStop has not returned.
Started(r, h) == phase[r] \in {"starting", "running", "stopping"} /\ count[r] >= IndexOf(h)

\* Its OnStop has been called.
Draining(r, h) == phase[r] = "stopping" /\ count[r] = IndexOf(h)

\* A loop goes round, or a server accepts a request; a draining server accepts none.
Begins(r, a) ==
    /\ Started(r, a) /\ <<r, a>> \notin busy /\ Cardinality(busy) < MaxBusy
    /\ Draining(r, a) => a \in Loops
    /\ busy' = busy \cup {<<r, a>>}
    /\ UNCHANGED <<phase, count, boots, migrationVars, cronVars>>

Finishes(r, a) ==
    /\ <<r, a>> \in busy
    /\ busy' = busy \ {<<r, a>>}
    /\ UNCHANGED <<phase, count, boots, migrationVars, cronVars>>

\* Cron starts the job while it runs.
Fires(r) ==
    /\ Started(r, "scheduler") /\ ~Draining(r, "scheduler")
    /\ JobBegins(r, config.redis)
    /\ UNCHANGED <<lifecycleVars, migrationVars>>

LifecycleStep(r) ==
    \/ StartupMigrationEnds(r) \/ Construct(r) \/ HookStarts(r)
    \/ HookStops(r) \/ Stopped(r) \/ TimesOut(r)

Migrates(r) == MigrationStep(r) /\ UNCHANGED <<lifecycleVars, cronVars>>

Works(r) == JobStep(r, config.redis) /\ UNCHANGED <<lifecycleVars, migrationVars>>

Faults(r) ==
    \/ MigrationFault(r) /\ UNCHANGED <<lifecycleVars, cronVars>>
    \/ JobFault(r) /\ UNCHANGED <<lifecycleVars, migrationVars>>
    \/ ConstructFails(r) \/ HookStartFails(r) \/ Crash(r)

Next ==
    /\ UNCHANGED config
    /\ \/ \E r \in Replicas :
            \/ Boot(r) \/ LifecycleStep(r) \/ Migrates(r) \/ Works(r) \/ Faults(r)
            \/ StopSignal(r) \/ Fires(r)
            \/ \E a \in Loops \cup Servers : Begins(r, a) \/ Finishes(r, a)
       \/ LockExpires /\ UNCHANGED <<lifecycleVars, migrationVars>>

Spec == Init /\ [][Next]_vars

\* A goroutine that can go on does; nothing obliges a fault, a signal or a request.
FairSpec ==
    /\ Spec
    /\ \A r \in Replicas : WF_vars(LifecycleStep(r) /\ UNCHANGED config)
    /\ \A r \in Replicas : WF_vars(Migrates(r) /\ UNCHANGED config)
    /\ \A r \in Replicas : WF_vars(Works(r) /\ UNCHANGED config)

-----------------------------------------------------------------------------
(* Properties *)

Open(r, resource) ==
    /\ phase[r] \in {"starting", "running", "stopping"}
    /\ phase[r] = "stopping" => count[r] >= IndexOf(resource)

\* However a replica starts, stops or rolls a failed start back, no round, request or job
\* of it, the release of the job's lock included, finds a pool or a client closed.
OpenWhileUsed ==
    \A r \in Replicas : \A a \in DOMAIN Uses : Active(r, a) =>
        Started(r, a) /\ \A resource \in Uses[a] : Open(r, resource)

\* With auto_up, whatever the replicas that migrate beside it do, no pool is opened over a schema
\* that is older than the replica, or that a migration of its own release left dirty.
ServesItsSchema ==
    config.autoUp => \A r \in Replicas : phase[r] \notin {"down", "migrating"} =>
        version >= Release[r] /\ (dirty => version > Release[r])

\* Replicas that start together never fail one another by both making the schema.
NoSchemaCollision == \A r \in Replicas : ~Collides(r)

\* With Redis, two replicas run the job at once only when one has outlived its lock; an
\* Unlock that comes late, a crash or a lost answer of Redis never lets in a third.
JobsOverlapOnlyOverdue ==
    config.redis => \A r, s \in Replicas :
        r # s /\ job[r] = "executing" /\ job[s] = "executing" => {r, s} \cap overdue # {}

\* Whoever starts or stops comes to run or to exit: replicas that wait for the locks
\* of others, crashed ones included, do not wait for ever.
StartsAndStopsEnd ==
    \A r \in Replicas : phase[r] \notin {"down", "running"} ~> phase[r] \in {"down", "running"}

=============================================================================
