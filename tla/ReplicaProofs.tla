----------------------------- MODULE ReplicaProofs -----------------------------
(***************************************************************************)
(* Proofs about Replica, for any number of replicas and any releases: the  *)
(* job lock, the schema and the migrations, and the order in which a       *)
(* replica opens and closes what it uses.                                  *)
(***************************************************************************)
EXTENDS Replica, Integers, TLAPS

-----------------------------------------------------------------------------
(* The steps of a replica, by what they do to the lock of the job, to the  *)
(* database and to the process                                             *)

JobMoves ==
    \/ UNCHANGED cronVars
    \/ \E r \in Replicas : JobGone(r) \/ JobBegins(r, config.redis)
                           \/ JobStep(r, config.redis) \/ JobFault(r)
    \/ LockExpires

\* Run has returned without an error.
RunReturned(r) ==
    /\ step[r] = "done" /\ Goes(r, "none")
    /\ UNCHANGED <<schema, schemaLock, version, dirty, migrationLock, seen>>

MigrationMoves ==
    \/ UNCHANGED migrationVars
    \/ \E r \in Replicas : MigrationStep(r) \/ MigrationFault(r) \/ SessionsEnd(r)
                           \/ RunBegins(r, config.createSchema) \/ RunReturned(r)

\* A change of the phase or of the hooks of one replica.
Lifecycle(r) ==
    \/ Boot(r) \/ Gone(r) \/ (phase[r] = "migrating" /\ step[r] = "done" /\ Moves(r, "building", 0))
    \/ Construct(r) \/ HookStarts(r) \/ HookStops(r)
    \/ (phase[r] \in {"starting", "running"} /\ Moves(r, "stopping", count[r]))

\* Every step is a step of the job, of the database and of at most one process.
LEMMA EveryStep ==
  ASSUME [Next]_vars
  PROVE  /\ UNCHANGED config /\ JobMoves /\ MigrationMoves
         /\ UNCHANGED <<phase, count>> \/ \E r \in Replicas : Lifecycle(r)
<1>1. CASE UNCHANGED vars
  BY <1>1 DEF vars, JobMoves, MigrationMoves, lifecycleVars
<1>2. CASE LockExpires /\ UNCHANGED <<config, lifecycleVars, migrationVars>>
  BY <1>2 DEF JobMoves, MigrationMoves, lifecycleVars
<1>3. ASSUME UNCHANGED config, NEW r \in Replicas,
             Boot(r) \/ StartupMigrationEnds(r) \/ Construct(r) \/ HookStarts(r) \/ HookStops(r)
               \/ HookStartFails(r) \/ StopSignal(r)
      PROVE  /\ JobMoves /\ MigrationMoves /\ Lifecycle(r)
  <2>1. CASE Boot(r)
    BY <2>1 DEF Boot, JobMoves, MigrationMoves, Lifecycle
  <2>2. CASE StartupMigrationEnds(r)
    BY <2>2 DEF StartupMigrationEnds, JobMoves, MigrationMoves, Lifecycle, Gone, RunReturned, cronVars
  <2>3. CASE Construct(r) \/ HookStarts(r) \/ HookStops(r)
    BY <2>3 DEF Construct, HookStarts, HookStops, JobMoves, MigrationMoves, Lifecycle, Elsewhere
  <2>4. CASE HookStartFails(r) \/ StopSignal(r)
    BY <2>4 DEF HookStartFails, StopSignal, JobMoves, MigrationMoves, Lifecycle, Elsewhere
  <2> QED BY <1>3, <2>1, <2>2, <2>3, <2>4
<1>4. ASSUME NEW r \in Replicas, Gone(r)
      PROVE  JobMoves /\ MigrationMoves /\ Lifecycle(r)
  BY <1>4 DEF Gone, JobMoves, MigrationMoves, Lifecycle
<1>5. ASSUME NEW r \in Replicas, \E a \in Loops \cup Servers : Begins(r, a) \/ Finishes(r, a)
      PROVE  JobMoves /\ MigrationMoves /\ UNCHANGED <<phase, count>>
  BY <1>5 DEF Begins, Finishes, JobMoves, MigrationMoves
<1>6. ASSUME NEW r \in Replicas, Fires(r) \/ Works(r) \/ Migrates(r)
      PROVE  JobMoves /\ MigrationMoves /\ UNCHANGED <<phase, count>>
  BY <1>6 DEF Fires, Works, Migrates, JobMoves, MigrationMoves, lifecycleVars
<1>7. ASSUME NEW r \in Replicas,
             \/ MigrationFault(r) /\ UNCHANGED <<lifecycleVars, cronVars>>
             \/ JobFault(r) /\ UNCHANGED <<lifecycleVars, migrationVars>>
      PROVE  JobMoves /\ MigrationMoves /\ UNCHANGED <<phase, count>>
  BY <1>7 DEF JobMoves, MigrationMoves, lifecycleVars
<1>8. Next => UNCHANGED config
  BY DEF Next
<1>9. CASE Next
  <2>1. CASE LockExpires /\ UNCHANGED <<lifecycleVars, migrationVars>>
    BY <1>2, <1>8, <1>9, <2>1
  <2>2. CASE \E r \in Replicas : ConstructFails(r) \/ Stopped(r) \/ TimesOut(r) \/ Crash(r)
    BY <1>4, <1>8, <1>9, <2>2 DEF ConstructFails, Stopped, TimesOut, Crash
  <2>3. CASE \E r \in Replicas :
               Boot(r) \/ StartupMigrationEnds(r) \/ Construct(r) \/ HookStarts(r) \/ HookStops(r)
               \/ HookStartFails(r) \/ StopSignal(r)
    BY <1>3, <1>8, <1>9, <2>3
  <2>4. CASE \E r \in Replicas : Fires(r) \/ Works(r) \/ Migrates(r)
    BY <1>6, <1>8, <1>9, <2>4
  <2>5. CASE \E r \in Replicas : \E a \in Loops \cup Servers : Begins(r, a) \/ Finishes(r, a)
    BY <1>5, <1>8, <1>9, <2>5
  <2>6. CASE \E r \in Replicas : \/ MigrationFault(r) /\ UNCHANGED <<lifecycleVars, cronVars>>
                                 \/ JobFault(r) /\ UNCHANGED <<lifecycleVars, migrationVars>>
    BY <1>7, <1>8, <1>9, <2>6
  <2> QED BY <1>9, <2>1, <2>2, <2>3, <2>4, <2>5, <2>6 DEF Next, LifecycleStep, Faults
<1> QED BY <1>1, <1>9

-----------------------------------------------------------------------------
(* Types *)

LEMMA JobTypes ==
  ASSUME TypeOK, JobMoves
  PROVE  JobTypeOK'
<1>1. lock \in Replicas \cup {NoOne} /\ overdue \subseteq Replicas
      /\ job \in [Replicas -> {"idle", "locking", "executing", "unlocking"}]
  BY DEF TypeOK, JobTypeOK
<1>2. ASSUME NEW r \in Replicas, JobGone(r) \/ JobBegins(r, config.redis) \/ JobFault(r)
      PROVE  JobTypeOK'
  BY <1>1, <1>2 DEF JobTypeOK, JobGone, JobBegins, JobFault, TryLockFails, UnlockFails, Becomes
<1>3. ASSUME NEW r \in Replicas, JobStep(r, config.redis)
      PROVE  JobTypeOK'
  BY <1>1, <1>3 DEF JobTypeOK, JobStep, TryLock, JobEnds, Unlock, Becomes
<1>4. CASE LockExpires
  BY <1>1, <1>4 DEF JobTypeOK, LockExpires
<1>5. CASE UNCHANGED cronVars
  BY <1>1, <1>5 DEF JobTypeOK, cronVars
<1> QED BY <1>2, <1>3, <1>4, <1>5 DEF JobMoves

LEMMA MigrationTypes ==
  ASSUME TypeOK, MigrationMoves
  PROVE  MigrationTypeOK'
<1>1. MigrationTypeOK
  BY DEF TypeOK
<1>2. ASSUME NEW r \in Replicas, MigrationStep(r)
      PROVE  MigrationTypeOK'
  <2>1. CASE SchemaTransactionBegins(r) \/ CommitSchema(r)
    BY <1>1, <2>1 DEF MigrationTypeOK, SchemaTransactionBegins, CommitSchema, Goes, Forgets, Without
  <2>3. CASE CreateSchema(r)
    <3>1. seen' \in [Replicas -> BOOLEAN]
      BY <1>1, <2>3, Zenon DEF MigrationTypeOK, CreateSchema
    <3> QED BY <1>1, <2>3, <3>1 DEF MigrationTypeOK, CreateSchema, Goes
  <2>2. CASE TakesLock(r) \/ UpRefuses(r) \/ UpBegins(r) \/ UpApplied(r) \/ UpEnds(r)
    <3>1. version' \in Nat /\ (dirty' = dirty \/ dirty' = TRUE \/ dirty' = FALSE)
      BY <1>1, <2>2 DEF MigrationTypeOK, TakesLock, UpRefuses, UpBegins, UpApplied, UpEnds
    <3>2. /\ migrationLock' \in Replicas \cup {NoOne}
          /\ UNCHANGED <<schema, schemaLock, seen>>
          /\ Goes(r, "next") \/ Goes(r, "failed") \/ Goes(r, "apply") \/ Goes(r, "done")
      BY <1>1, <2>2 DEF MigrationTypeOK, TakesLock, UpRefuses, UpBegins, UpApplied, UpEnds, Returns
    <3> QED BY <1>1, <3>1, <3>2 DEF MigrationTypeOK, Goes
  <2> QED BY <1>2, <2>1, <2>2, <2>3 DEF MigrationStep
<1>3. ASSUME NEW r \in Replicas, MigrationFault(r) \/ SessionsEnd(r)
      PROVE  MigrationTypeOK'
  BY <1>1, <1>3 DEF MigrationTypeOK, MigrationFault, SchemaFails, LockFails, UpFails, Returns,
                    SessionsEnd, Goes, Forgets, Without
<1>4. ASSUME NEW r \in Replicas, RunBegins(r, config.createSchema) \/ RunReturned(r)
      PROVE  MigrationTypeOK'
  BY <1>1, <1>4 DEF MigrationTypeOK, RunBegins, RunReturned, Goes
<1>5. CASE UNCHANGED migrationVars
  BY <1>1, <1>5 DEF MigrationTypeOK, migrationVars
<1> QED BY <1>2, <1>3, <1>4, <1>5 DEF MigrationMoves

\* There are ten hooks.
LEMMA HooksHaveLength == Len(Hooks) = 10
  BY DEF Hooks

LEMMA LifecycleTypes ==
  ASSUME TypeOK, UNCHANGED <<phase, count>> \/ \E r \in Replicas : Lifecycle(r)
  PROVE  phase' \in [Replicas -> Phases] /\ count' \in [Replicas -> 0 .. Len(Hooks)]
<1>1. phase \in [Replicas -> Phases] /\ count \in [Replicas -> 0 .. Len(Hooks)]
  BY DEF TypeOK
<1>2. ASSUME NEW r \in Replicas, NEW to \in Phases, NEW n \in 0 .. Len(Hooks), Moves(r, to, n)
      PROVE  phase' \in [Replicas -> Phases] /\ count' \in [Replicas -> 0 .. Len(Hooks)]
  BY <1>1, <1>2 DEF Moves
<1>3. ASSUME NEW r \in Replicas, Lifecycle(r)
      PROVE  \E to \in Phases, n \in 0 .. Len(Hooks) : Moves(r, to, n)
  BY <1>1, <1>3, HooksHaveLength
     DEF Lifecycle, Boot, Gone, Construct, HookStarts, HookStops, Phases
<1> QED BY <1>1, <1>2, <1>3

\* The set of activities is touched by its own steps and by the end of a process.
LEMMA BusySteps ==
  ASSUME [Next]_vars
  PROVE  \/ UNCHANGED busy
         \/ \E r \in Replicas : Gone(r)
         \/ \E r \in Replicas : \E a \in Loops \cup Servers : Begins(r, a) \/ Finishes(r, a)
<1>1. CASE UNCHANGED vars
  BY <1>1 DEF vars, lifecycleVars
<1>2. ASSUME NEW r \in Replicas,
             Boot(r) \/ LifecycleStep(r) \/ Migrates(r) \/ Works(r) \/ StopSignal(r) \/ Fires(r)
      PROVE  UNCHANGED busy \/ Gone(r)
  BY <1>2 DEF Boot, LifecycleStep, StartupMigrationEnds, Construct, HookStarts, HookStops,
              Stopped, TimesOut, Migrates, Works, StopSignal, Fires, Elsewhere, lifecycleVars
<1>3. ASSUME NEW r \in Replicas, Faults(r)
      PROVE  UNCHANGED busy \/ Gone(r)
  BY <1>3 DEF Faults, ConstructFails, HookStartFails, Crash, Elsewhere, lifecycleVars
<1>4. LockExpires /\ UNCHANGED <<lifecycleVars, migrationVars>> => UNCHANGED busy
  BY DEF lifecycleVars
<1> QED BY <1>1, <1>2, <1>3, <1>4 DEF Next

LEMMA BootSteps ==
  ASSUME TypeOK, [Next]_vars
  PROVE  boots' \in 0 .. MaxBoots
<1>1. UNCHANGED boots \/ (boots < MaxBoots /\ boots' = boots + 1)
  <2>1. CASE UNCHANGED vars
    BY <2>1 DEF vars, lifecycleVars
  <2>2. CASE Next
    BY <2>2 DEF Next, Boot, LifecycleStep, StartupMigrationEnds, Construct, HookStarts, HookStops,
                Stopped, TimesOut, Migrates, Works, Faults, ConstructFails, HookStartFails, Crash,
                StopSignal, Fires, Elsewhere, lifecycleVars, Begins, Finishes, Gone
  <2> QED BY <2>1, <2>2
<1> QED BY <1>1, ReplicaAssumption DEF TypeOK

LEMMA TypesKept ==
  ASSUME TypeOK, [Next]_vars
  PROVE  TypeOK'
<1>1. UNCHANGED config /\ MigrationTypeOK' /\ JobTypeOK'
  BY EveryStep, MigrationTypes, JobTypes
<1>2. phase' \in [Replicas -> Phases] /\ count' \in [Replicas -> 0 .. Len(Hooks)]
  BY EveryStep, LifecycleTypes
<1>3. busy' \subseteq Replicas \X (Loops \cup Servers)
  <2>1. busy \subseteq Replicas \X (Loops \cup Servers)
    BY DEF TypeOK
  <2>2. ASSUME NEW r \in Replicas, Gone(r) PROVE busy' \subseteq busy
    BY <2>2 DEF Gone
  <2>3. ASSUME NEW r \in Replicas, NEW a \in Loops \cup Servers, Begins(r, a) \/ Finishes(r, a)
        PROVE  busy' \subseteq busy \cup {<<r, a>>} /\ <<r, a>> \in Replicas \X (Loops \cup Servers)
    BY <2>3 DEF Begins, Finishes
  <2> QED BY <2>1, <2>2, <2>3, BusySteps
<1> QED BY <1>1, <1>2, <1>3, BootSteps DEF TypeOK

-----------------------------------------------------------------------------
(* The job *)

\* A run that has not outlived its lock still has it.
RunHoldsLock ==
    config.redis => \A r \in Replicas : job[r] = "executing" /\ r \notin overdue => lock = r

LEMMA RunHoldsLockKept ==
  ASSUME TypeOK, RunHoldsLock, UNCHANGED config, JobMoves
  PROVE  RunHoldsLock'
<1> SUFFICES ASSUME config.redis, NEW q \in Replicas, job'[q] = "executing", q \notin overdue'
             PROVE  lock' = q
  BY DEF RunHoldsLock
<1>1. /\ NoOne \notin Replicas /\ job \in [Replicas -> {"idle", "locking", "executing", "unlocking"}]
      /\ \A r \in Replicas : job[r] = "executing" /\ r \notin overdue => lock = r
  BY ReleaseAssumption DEF TypeOK, JobTypeOK, RunHoldsLock
<1>2. ASSUME NEW r \in Replicas, JobBegins(r, config.redis) \/ JobGone(r) \/ UnlockFails(r)
      PROVE  lock' = q
  BY <1>1, <1>2 DEF JobBegins, JobGone, UnlockFails, Becomes
<1>3. ASSUME NEW r \in Replicas, TryLock(r) \/ TryLockFails(r)
      PROVE  lock' = q
  BY <1>1, <1>3 DEF TryLock, TryLockFails, Becomes
<1>4. ASSUME NEW r \in Replicas, JobEnds(r, config.redis) \/ Unlock(r)
      PROVE  lock' = q
  BY <1>1, <1>4 DEF JobEnds, Unlock, Becomes
<1>5. CASE LockExpires
  BY <1>1, <1>5 DEF LockExpires
<1>6. CASE UNCHANGED cronVars
  BY <1>1, <1>6 DEF cronVars
<1> QED BY <1>2, <1>3, <1>4, <1>5, <1>6 DEF JobMoves, JobStep, JobFault

-----------------------------------------------------------------------------
(* The database *)

\* createSchema looks and commits under its lock, so what it saw is still so.
CreatesAlone ==
    \A r \in Replicas :
        /\ step[r] \in {"create", "commit"} => schemaLock = r
        /\ step[r] = "commit" => seen[r] = schema

\* Up works under its lock, and a version it works on is marked dirty.
MigratesAlone ==
    \A r \in Replicas :
        /\ step[r] \in {"next", "apply"} => migrationLock = r
        /\ step[r] = "apply" => dirty

\* The database has what the replica needs, and no migration of its release is unfinished.
Ready(r) == version >= Release[r] /\ (dirty => version > Release[r])

LEMMA CreatesAloneKept ==
  ASSUME TypeOK, CreatesAlone, MigrationMoves
  PROVE  CreatesAlone'
<1>1. /\ NoOne \notin Replicas /\ schema \in BOOLEAN /\ seen \in [Replicas -> BOOLEAN]
      /\ DOMAIN step = Replicas
  BY ReleaseAssumption DEF TypeOK, MigrationTypeOK
<1>2. ASSUME NEW r \in Replicas, SchemaTransactionBegins(r)
      PROVE  CreatesAlone'
  BY <1>1, <1>2 DEF CreatesAlone, SchemaTransactionBegins, Goes
<1>3. ASSUME NEW r \in Replicas, CreateSchema(r)
      PROVE  CreatesAlone'
  BY <1>1, <1>3 DEF CreatesAlone, CreateSchema, Goes
<1>4. ASSUME NEW r \in Replicas, CommitSchema(r)
      PROVE  CreatesAlone'
  BY <1>1, <1>4 DEF CreatesAlone, CommitSchema, Goes, Forgets, Without
<1>5. ASSUME NEW r \in Replicas, SchemaFails(r) \/ SessionsEnd(r)
      PROVE  CreatesAlone'
  BY <1>1, <1>5 DEF CreatesAlone, SchemaFails, SessionsEnd, Goes, Forgets, Without
<1>6. ASSUME NEW r \in Replicas, NEW to \in {"begin", "lock", "next", "apply", "done", "failed", "none"},
             Goes(r, to), UNCHANGED <<schema, schemaLock, seen>>
      PROVE  CreatesAlone'
  BY <1>1, <1>6 DEF CreatesAlone, Goes
<1>7. ASSUME NEW r \in Replicas,
             \/ TakesLock(r) \/ UpRefuses(r) \/ UpBegins(r) \/ UpApplied(r) \/ UpEnds(r)
             \/ LockFails(r) \/ UpFails(r)
      PROVE  /\ UNCHANGED <<schema, schemaLock, seen>>
             /\ Goes(r, "next") \/ Goes(r, "apply") \/ Goes(r, "done") \/ Goes(r, "failed")
  BY <1>7 DEF TakesLock, UpRefuses, UpBegins, UpApplied, UpEnds, LockFails, UpFails, Returns
<1>8. ASSUME NEW r \in Replicas, RunBegins(r, config.createSchema) \/ RunReturned(r)
      PROVE  /\ UNCHANGED <<schema, schemaLock, seen>>
             /\ Goes(r, "begin") \/ Goes(r, "lock") \/ Goes(r, "none")
  BY <1>8 DEF RunBegins, RunReturned
<1>9. CASE UNCHANGED migrationVars
  BY <1>9 DEF CreatesAlone, migrationVars
<1> QED BY <1>2, <1>3, <1>4, <1>5, <1>6, <1>7, <1>8, <1>9
        DEF MigrationMoves, MigrationStep, MigrationFault

LEMMA MigratesAloneKept ==
  ASSUME TypeOK, MigratesAlone, MigrationMoves
  PROVE  MigratesAlone'
<1>1. NoOne \notin Replicas /\ DOMAIN step = Replicas
  BY ReleaseAssumption DEF TypeOK, MigrationTypeOK
<1>2. ASSUME NEW r \in Replicas, TakesLock(r) \/ UpBegins(r) \/ UpApplied(r)
      PROVE  MigratesAlone'
  BY <1>1, <1>2 DEF MigratesAlone, TakesLock, UpBegins, UpApplied, Goes
<1>3. ASSUME NEW r \in Replicas, UpRefuses(r) \/ UpEnds(r) \/ UpFails(r)
      PROVE  MigratesAlone'
  BY <1>1, <1>3 DEF MigratesAlone, UpRefuses, UpEnds, UpFails, Returns, Goes
<1>4. ASSUME NEW r \in Replicas, SessionsEnd(r)
      PROVE  MigratesAlone'
  BY <1>1, <1>4 DEF MigratesAlone, SessionsEnd, Goes, Without
<1>5. ASSUME NEW r \in Replicas, NEW to \in {"begin", "create", "commit", "lock", "failed", "none"},
             Goes(r, to), UNCHANGED <<dirty, migrationLock>>
      PROVE  MigratesAlone'
  BY <1>1, <1>5 DEF MigratesAlone, Goes
<1>6. ASSUME NEW r \in Replicas,
             \/ SchemaTransactionBegins(r) \/ CreateSchema(r) \/ CommitSchema(r)
             \/ SchemaFails(r) \/ LockFails(r)
             \/ RunBegins(r, config.createSchema) \/ RunReturned(r)
      PROVE  /\ UNCHANGED <<dirty, migrationLock>>
             /\ \E to \in {"begin", "create", "commit", "lock", "failed", "none"} : Goes(r, to)
  BY <1>6 DEF SchemaTransactionBegins, CreateSchema, CommitSchema, SchemaFails, LockFails,
              RunBegins, RunReturned
<1>7. CASE UNCHANGED migrationVars
  BY <1>7 DEF MigratesAlone, migrationVars
<1> QED BY <1>2, <1>3, <1>4, <1>5, <1>6, <1>7 DEF MigrationMoves, MigrationStep, MigrationFault

\* Once ready, a database stays ready: versions only grow, and only from a clean one.
LEMMA ReadyStays ==
  ASSUME TypeOK, MigratesAlone, MigrationMoves, NEW q \in Replicas, Ready(q)
  PROVE  Ready(q)'
<1>1. version \in Nat /\ dirty \in BOOLEAN /\ Release[q] \in Nat
  BY ReleaseAssumption DEF TypeOK, MigrationTypeOK
<1>2. \/ UNCHANGED <<version, dirty>>
      \/ ~dirty /\ version' = version + 1 /\ dirty' = TRUE
      \/ version' = version /\ dirty' = FALSE
  BY DEF MigrationMoves, MigrationStep, MigrationFault, SchemaTransactionBegins, CreateSchema,
         CommitSchema, TakesLock, UpRefuses, UpBegins, UpApplied, UpEnds, SchemaFails, LockFails,
         UpFails, SessionsEnd, RunBegins, RunReturned, migrationVars
<1> QED BY <1>1, <1>2 DEF Ready

\* A replica that Run has returned to, or that works after it, has its schema.
DoneIsReady ==
    \A r \in Replicas :
        step[r] = "done" \/ (config.autoUp /\ phase[r] \notin {"down", "migrating"}) => Ready(r)

LEMMA DoneIsReadyKept ==
  ASSUME TypeOK, MigratesAlone, DoneIsReady, [Next]_vars
  PROVE  DoneIsReady'
<1>1. /\ UNCHANGED config /\ MigrationMoves
      /\ UNCHANGED <<phase, count>> \/ \E r \in Replicas : Lifecycle(r)
  BY EveryStep
<1>2. ASSUME NEW q \in Replicas, step'[q] = "done", step[q] # "done" PROVE Ready(q)'
  <2>1. UpEnds(q)
    <3>1. DOMAIN step = Replicas
      BY DEF TypeOK, MigrationTypeOK
    <3>2. PICK r \in Replicas : MigrationStep(r) \/ MigrationFault(r) \/ SessionsEnd(r)
                           \/ RunBegins(r, config.createSchema) \/ RunReturned(r)
      BY <1>1, <1>2 DEF MigrationMoves, migrationVars
    <3>3. ASSUME NEW to, Goes(r, to) PROVE r = q /\ to = "done"
      BY <1>2, <3>1, <3>3 DEF Goes
    <3>4. ~\E to \in {"none", "begin", "create", "commit", "lock", "next", "apply", "failed"} :
             Goes(r, to)
      BY <3>3
    <3>5. MigrationStep(r) \/ MigrationFault(r)
      BY <3>2, <3>4 DEF SessionsEnd, RunBegins, RunReturned
    <3>6. UpEnds(r)
      BY <3>4, <3>5 DEF MigrationStep, MigrationFault, SchemaTransactionBegins, CreateSchema,
                        CommitSchema, TakesLock, UpRefuses, UpBegins, UpApplied, SchemaFails,
                        LockFails, UpFails, Returns
    <3>7. Goes(r, "done") \/ Goes(r, "failed")
      BY <3>6 DEF UpEnds, Returns
    <3> QED BY <3>3, <3>6, <3>7
  <2>2. ~dirty' /\ version' = Release[q] /\ Release[q] \in Nat
    BY <2>1, ReleaseAssumption DEF UpEnds
  <2> QED BY <2>2 DEF Ready
<1>3. ASSUME NEW q \in Replicas, config.autoUp, phase'[q] \notin {"down", "migrating"}
      PROVE  step[q] = "done" \/ phase[q] \notin {"down", "migrating"}
  <2>1. DOMAIN phase = Replicas
    BY DEF TypeOK
  <2> QED BY <1>1, <1>3, <2>1
          DEF Lifecycle, Boot, Gone, Construct, HookStarts, HookStops, Moves
<1>4. ASSUME NEW q \in Replicas, Ready(q) PROVE Ready(q)'
  BY <1>1, <1>4, ReadyStays
<1> QED BY <1>1, <1>2, <1>3, <1>4 DEF DoneIsReady

-----------------------------------------------------------------------------
(* What is open *)

Activities == Loops \cup Servers \cup {"scheduler"}

\* What is in flight belongs to a hook that has started and not stopped.
ActiveIsStarted ==
    \A r \in Replicas, a \in Activities : Active(r, a) => Started(r, a)

\* IndexOf inverts Hooks.
LEMMA Indexes ==
  ASSUME NEW i \in 1 .. 10
  PROVE  IndexOf(Hooks[i]) = i
<1>1. DOMAIN Hooks = 1 .. 10
  BY DEF Hooks
<1>2. \A j \in 1 .. 10 : Hooks[j] = Hooks[i] => j = i
  BY DEF Hooks
<1> QED BY <1>1, <1>2 DEF IndexOf

LEMMA Positions ==
  /\ IndexOf("database") = 1 /\ IndexOf("redis") = 2 /\ IndexOf("events") = 3
  /\ IndexOf("registry") = 4 /\ IndexOf("worker") = 5 /\ IndexOf("cleaner") = 6
  /\ IndexOf("scheduler") = 7 /\ IndexOf("verifier") = 8 /\ IndexOf("grpc") = 9
  /\ IndexOf("http") = 10
<1>1. /\ Hooks[1] = "database" /\ Hooks[2] = "redis" /\ Hooks[3] = "events"
      /\ Hooks[4] = "registry" /\ Hooks[5] = "worker" /\ Hooks[6] = "cleaner"
      /\ Hooks[7] = "scheduler" /\ Hooks[8] = "verifier" /\ Hooks[9] = "grpc"
      /\ Hooks[10] = "http"
  BY DEF Hooks
<1> QED BY <1>1, Indexes

\* Every activity is stopped before what it uses is closed.
LEMMA UsesComeFirst ==
  ASSUME NEW a \in Activities, NEW resource \in Uses[a]
  PROVE  /\ a \in DOMAIN Uses
         /\ IndexOf(resource) \in Nat /\ IndexOf(a) \in Nat /\ IndexOf(resource) <= IndexOf(a)
<1>1. DOMAIN Uses = Activities
  BY DEF Uses, Activities
<1>2. CASE a \in Servers
  BY <1>2, Positions DEF Uses, Activities, Servers, Resources
<1>3. CASE a = "worker"
  BY <1>3, Positions DEF Uses, Activities, Servers, Loops
<1>4. CASE a = "scheduler"
  BY <1>4, Positions DEF Uses, Activities, Servers
<1>5. CASE a \in {"events", "cleaner"}
  BY <1>5, Positions DEF Uses, Activities, Servers, Loops
<1> QED BY <1>1, <1>2, <1>3, <1>4, <1>5 DEF Activities, Loops

LEMMA ActivitiesHaveHooks ==
  ASSUME NEW a \in Activities
  PROVE  IndexOf(a) \in 1 .. 10 /\ Hooks[IndexOf(a)] = a
<1>1. /\ Hooks[3] = "events" /\ Hooks[5] = "worker" /\ Hooks[6] = "cleaner"
      /\ Hooks[7] = "scheduler" /\ Hooks[9] = "grpc" /\ Hooks[10] = "http"
  BY DEF Hooks
<1> QED BY <1>1, Positions DEF Activities, Loops, Servers

\* An activity begins only under a hook that has started.
LEMMA BeginsStarted ==
  ASSUME TypeOK, [Next]_vars, NEW q \in Replicas, NEW a \in Activities, Active(q, a)', ~Active(q, a)
  PROVE  Started(q, a) /\ UNCHANGED <<phase, count>>
<1>1. CASE <<q, a>> \notin busy /\ <<q, a>> \in busy'
  <2>1. PICK r \in Replicas, b \in Loops \cup Servers : Begins(r, b)
    BY <1>1, BusySteps DEF Gone, Finishes
  <2>2. r = q /\ b = a
    BY <1>1, <2>1 DEF Begins
  <2> QED BY <2>1, <2>2 DEF Begins
<1>2. CASE a = "scheduler" /\ job[q] = "idle" /\ job'[q] # "idle"
  <2>1. job \in [Replicas -> {"idle", "locking", "executing", "unlocking"}]
    BY DEF TypeOK, JobTypeOK
  <2>2. ASSUME NEW r \in Replicas, JobGone(r) \/ JobStep(r, config.redis) \/ JobFault(r)
        PROVE  FALSE
    BY <1>2, <2>1, <2>2 DEF JobGone, JobStep, JobFault, TryLock, TryLockFails, JobEnds, Unlock,
                            UnlockFails, Becomes
  <2>3. ~LockExpires /\ ~UNCHANGED cronVars
    BY <1>2 DEF LockExpires, cronVars
  <2>4. Next
    BY <2>3 DEF vars
  <2>5. ASSUME NEW r \in Replicas, JobBegins(r, config.redis) PROVE r = q
    BY <1>2, <2>1, <2>5 DEF JobBegins, Becomes
  <2>6. ASSUME NEW r \in Replicas,
               Boot(r) \/ LifecycleStep(r) \/ Migrates(r) \/ Works(r) \/ Faults(r) \/ StopSignal(r)
        PROVE  FALSE
    BY <2>2, <2>3, <2>6
       DEF Boot, LifecycleStep, StartupMigrationEnds, Construct, HookStarts, HookStops, Stopped,
           TimesOut, Migrates, Works, Faults, ConstructFails, HookStartFails, Crash, StopSignal,
           Elsewhere, Gone, cronVars
  <2>7. PICK r \in Replicas : Fires(r)
    BY <2>3, <2>4, <2>6 DEF Next, Begins, Finishes
  <2> QED BY <1>2, <2>5, <2>7 DEF Fires, lifecycleVars
<1> QED BY <1>1, <1>2 DEF Active

\* A process that is gone has nothing in flight.
LEMMA GoneIsIdle ==
  ASSUME TypeOK, NEW q \in Replicas, Gone(q), NEW a
  PROVE  ~Active(q, a)'
<1>1. DOMAIN job = Replicas
  BY DEF TypeOK, JobTypeOK
<1> QED BY <1>1 DEF Gone, JobGone, Becomes, Active

LEMMA ActiveIsStartedKept ==
  ASSUME TypeOK, ActiveIsStarted, [Next]_vars
  PROVE  ActiveIsStarted'
<1> SUFFICES ASSUME NEW q \in Replicas, NEW a \in Activities, Active(q, a)'
             PROVE  Started(q, a)'
  BY DEF ActiveIsStarted, Activities, Loops, Servers
<1>1. IndexOf(a) \in 1 .. 10 /\ Hooks[IndexOf(a)] = a
  BY ActivitiesHaveHooks
<1>2. Started(q, a) /\ UNCHANGED <<phase, count>> => Started(q, a)'
  BY DEF Started, IndexOf, Hooks
<1>3. Started(q, a)
  BY BeginsStarted DEF ActiveIsStarted
<1>4. CASE ~Active(q, a)
  BY <1>2, <1>4, BeginsStarted
<1>5. CASE Active(q, a) /\ \E r \in Replicas : Lifecycle(r)
  <2>1. PICK r \in Replicas : Lifecycle(r)
    BY <1>5
  <2>2. phase \in [Replicas -> Phases] /\ count \in [Replicas -> 0 .. 10]
    BY HooksHaveLength DEF TypeOK
  <2>3. phase[q] \in {"starting", "running", "stopping"} /\ count[q] >= IndexOf(a)
    BY <1>3 DEF Started
  <2>4. CASE r # q
    <3>1. phase'[q] = phase[q] /\ count'[q] = count[q]
      BY <2>1, <2>2, <2>4 DEF Lifecycle, Boot, Gone, Construct, HookStarts, HookStops, Moves
    <3> QED BY <2>3, <3>1 DEF Started, IndexOf, Hooks
  <2>5. CASE r = q /\ HookStops(q)
    <3>1. count[q] # IndexOf(a)
      BY <1>1, <1>5, <2>5 DEF HookStops
    <3>2. phase'[q] = "stopping" /\ count'[q] = count[q] - 1
      BY <2>2, <2>5 DEF HookStops, Moves
    <3>3. count'[q] >= IndexOf(a)
      BY <1>1, <2>2, <2>3, <3>1, <3>2
    <3> QED BY <3>2, <3>3 DEF Started, IndexOf, Hooks
  <2>6. CASE r = q /\ ~HookStops(q)
    <3>1. ~Gone(q)
      BY GoneIsIdle
    <3>2. phase'[q] \in {"starting", "running", "stopping"} /\ count'[q] >= count[q]
      BY <2>1, <2>2, <2>3, <2>6, <3>1 DEF Lifecycle, Boot, Construct, HookStarts, Moves
    <3>3. count'[q] >= IndexOf(a)
      <4>1. count'[q] \in Nat
        BY <2>1, <2>2, <2>3, <2>6, <3>1 DEF Lifecycle, Boot, Construct, HookStarts, Moves
      <4> QED BY <1>1, <2>2, <2>3, <3>2, <4>1
    <3> QED BY <3>2, <3>3 DEF Started, IndexOf, Hooks
  <2> QED BY <2>4, <2>5, <2>6
<1> QED BY <1>2, <1>3, <1>4, <1>5, EveryStep

-----------------------------------------------------------------------------
(* The theorems *)

ReplicaInv ==
    /\ TypeOK /\ RunHoldsLock
    /\ CreatesAlone /\ MigratesAlone /\ DoneIsReady
    /\ ActiveIsStarted

LEMMA ReplicaInit == Init => ReplicaInv
<1> SUFFICES ASSUME Init PROVE ReplicaInv
  OBVIOUS
<1>1. TypeOK
  <2>1. MigrationTypeOK
    BY DEF Init, MigrationInit, MigrationTypeOK
  <2> QED BY <2>1, ReplicaAssumption, HooksHaveLength DEF Init, TypeOK, JobInit, JobTypeOK, Phases
<1>2. RunHoldsLock /\ CreatesAlone /\ MigratesAlone /\ DoneIsReady
  BY DEF Init, MigrationInit, JobInit, RunHoldsLock, CreatesAlone, MigratesAlone, DoneIsReady
<1>3. ActiveIsStarted
  BY DEF Init, JobInit, ActiveIsStarted, Active
<1> QED BY <1>1, <1>2, <1>3 DEF ReplicaInv

LEMMA ReplicaStep == ReplicaInv /\ [Next]_vars => ReplicaInv'
  BY EveryStep, TypesKept, RunHoldsLockKept, CreatesAloneKept, MigratesAloneKept,
     DoneIsReadyKept, ActiveIsStartedKept DEF ReplicaInv

\* The inductive invariant of the replicas.
THEOREM ReplicaInvariant == Spec => []ReplicaInv
  BY ReplicaInit, ReplicaStep, PTL DEF Spec

\* Whatever starts, stops, crashes or expires, the state has its types.
THEOREM ReplicaTypes == Spec => []TypeOK
<1>1. ReplicaInv => TypeOK
  BY DEF ReplicaInv
<1> QED BY <1>1, ReplicaInvariant, PTL

\* Two runs of the job overlap only when one of them has outlived its lock, for any number
\* of replicas, crashes, lost answers of Redis and late Unlocks.
THEOREM JobsOverlap == Spec => []JobsOverlapOnlyOverdue
<1>1. ReplicaInv => JobsOverlapOnlyOverdue
  BY DEF ReplicaInv, RunHoldsLock, JobsOverlapOnlyOverdue
<1> QED BY <1>1, ReplicaInvariant, PTL

\* Replicas that run ensureSchema together never fail one another.
THEOREM SchemasDoNotCollide == Spec => []NoSchemaCollision
<1>1. ReplicaInv => NoSchemaCollision
  BY DEF ReplicaInv, CreatesAlone, NoSchemaCollision, Collides
<1> QED BY <1>1, ReplicaInvariant, PTL

\* With auto_up, a replica of any release opens its pools over a schema it can work with,
\* and the replicas that migrate later keep it so.
THEOREM SchemasAreServed == Spec => []ServesItsSchema
<1>1. ReplicaInv => ServesItsSchema
  BY DEF ReplicaInv, DoneIsReady, Ready, ServesItsSchema
<1> QED BY <1>1, ReplicaInvariant, PTL

\* The order of the hooks closes a pool or a client only when nothing in flight uses it.
THEOREM OpenUntilUnused == Spec => []OpenWhileUsed
<1>1. ReplicaInv => OpenWhileUsed
  <2> SUFFICES ASSUME ReplicaInv, NEW r \in Replicas, NEW a \in Activities, Active(r, a)
               PROVE  Started(r, a) /\ \A resource \in Uses[a] : Open(r, resource)
    BY DEF OpenWhileUsed, Uses, Activities
  <2>1. Started(r, a)
    BY DEF ReplicaInv, ActiveIsStarted
  <2>2. count[r] \in Nat
    BY HooksHaveLength DEF ReplicaInv, TypeOK
  <2>3. ASSUME NEW resource \in Uses[a] PROVE Open(r, resource)
    BY <2>1, <2>2, <2>3, UsesComeFirst DEF Started, Open
  <2> QED BY <2>1, <2>3
<1> QED BY <1>1, ReplicaInvariant, PTL

=============================================================================
