---------------------------- MODULE SchemaMigration ----------------------------
(***************************************************************************)
(* internal/migration/migration.go: migration.Run, which every replica     *)
(* with migration.auto_up runs before it opens anything, and which the     *)
(* command cmd/migrate runs.  Replicas of several releases share one       *)
(* database.                                                               *)
(*                                                                         *)
(* Up of golang-migrate is a library: the actions from TakesLock on model  *)
(* it by what Run relies on.  It holds a session lock, marks a version     *)
(* dirty before it runs its file and clean after, and refuses a dirty      *)
(* version or one it has no file for.                                      *)
(***************************************************************************)
EXTENDS Naturals

CONSTANTS
    Replicas,
    NoOne,              \* holds no lock
    Release             \* per replica: the newest migration it ships

ASSUME ReleaseAssumption ==
    Release \in [Replicas -> Nat \ {0}] /\ NoOne \notin Replicas

VARIABLES
    schema,             \* whether the schema exists
    schemaLock,         \* pg_advisory_xact_lock of createSchema: its holder
    version, dirty,     \* the row of the migrations table
    migrationLock,      \* the migrator's lock: its holder
    step,               \* per replica: where Run is
    seen                \* per replica: whether its transaction saw the schema

migrationVars == <<schema, schemaLock, version, dirty, migrationLock, step, seen>>

MigrationTypeOK ==
    /\ schema \in BOOLEAN /\ schemaLock \in Replicas \cup {NoOne}
    /\ version \in Nat /\ dirty \in BOOLEAN /\ migrationLock \in Replicas \cup {NoOne}
    /\ step \in [Replicas -> {"none", "begin", "create", "commit", "lock", "next", "apply",
                              "done", "failed"}]
    /\ seen \in [Replicas -> BOOLEAN]

\* A schema that createSchema does not make is there already.
MigrationInit(createSchema) ==
    /\ schema \in {TRUE, ~createSchema}
    /\ schemaLock = NoOne /\ migrationLock = NoOne
    /\ version = 0 /\ dirty = FALSE
    /\ step = [r \in Replicas |-> "none"]
    /\ seen = [r \in Replicas |-> FALSE]

Goes(r, to) == step' = [step EXCEPT ![r] = to]

\* The transaction is over.
Forgets(r) == seen' = [seen EXCEPT ![r] = FALSE]

Without(lock, r) == IF lock = r THEN NoOne ELSE lock

-----------------------------------------------------------------------------
(* ensureSchema and createSchema *)

\* Run; ensureSchema does nothing unless migration.create_schema is set.
RunBegins(r, createSchema) ==
    /\ Goes(r, IF createSchema THEN "begin" ELSE "lock")
    /\ UNCHANGED <<schema, schemaLock, version, dirty, migrationLock, seen>>

SchemaTransactionBegins_Unlocked(r) ==
    /\ step[r] = "begin"
    /\ Goes(r, "create")
    /\ UNCHANGED <<schema, schemaLock, version, dirty, migrationLock, seen>>

\* BEGIN and pg_advisory_xact_lock, which waits for its holder.
SchemaTransactionBegins(r) ==
    /\ step[r] = "begin" /\ schemaLock = NoOne
    /\ schemaLock' = r
    /\ Goes(r, "create")
    /\ UNCHANGED <<schema, version, dirty, migrationLock, seen>>

\* CREATE SCHEMA IF NOT EXISTS sees what is committed.
CreateSchema(r) ==
    /\ step[r] = "create"
    /\ seen' = [seen EXCEPT ![r] = schema]
    /\ Goes(r, "commit")
    /\ UNCHANGED <<schema, schemaLock, version, dirty, migrationLock>>

\* Another transaction has made the schema since CREATE looked.
Collides(r) == step[r] = "commit" /\ schema /\ ~seen[r]

CommitSchema_KeepsLock(r) ==
    /\ step[r] = "commit" /\ ~Collides(r)
    /\ schema' = TRUE
    /\ Goes(r, "lock") /\ Forgets(r)
    /\ UNCHANGED <<schemaLock, version, dirty, migrationLock>>

\* COMMIT releases the lock with the transaction.
CommitSchema(r) ==
    /\ step[r] = "commit" /\ ~Collides(r)
    /\ schema' = TRUE
    /\ schemaLock' = Without(schemaLock, r)
    /\ Goes(r, "lock") /\ Forgets(r)
    /\ UNCHANGED <<version, dirty, migrationLock>>

\* A statement fails, and the transaction is rolled back.
SchemaFails(r) ==
    /\ step[r] \in {"begin", "create", "commit"}
    /\ schemaLock' = Without(schemaLock, r)
    /\ Goes(r, "failed") /\ Forgets(r)
    /\ UNCHANGED <<schema, version, dirty, migrationLock>>

-----------------------------------------------------------------------------
(* Up of golang-migrate *)

TakesLock(r) ==
    /\ step[r] = "lock" /\ migrationLock = NoOne
    /\ migrationLock' = r
    /\ Goes(r, "next")
    /\ UNCHANGED <<schema, schemaLock, version, dirty, seen>>

\* The lock is waited for so long, or the database cannot be reached.
LockFails(r) ==
    /\ step[r] = "lock"
    /\ Goes(r, "failed")
    /\ UNCHANGED <<schema, schemaLock, version, dirty, migrationLock, seen>>

Returns(r, to) ==
    /\ migrationLock' = NoOne
    /\ Goes(r, to)
    /\ UNCHANGED <<schema, schemaLock, seen>>

UpRefuses(r) ==
    /\ step[r] = "next" /\ (dirty \/ version > Release[r])
    /\ Returns(r, "failed")
    /\ UNCHANGED <<version, dirty>>

UpBegins(r) ==
    /\ step[r] = "next" /\ ~dirty /\ version < Release[r]
    /\ version' = version + 1 /\ dirty' = TRUE
    /\ Goes(r, "apply")
    /\ UNCHANGED <<schema, schemaLock, migrationLock, seen>>

UpApplied(r) ==
    /\ step[r] = "apply"
    /\ dirty' = FALSE
    /\ Goes(r, "next")
    /\ UNCHANGED <<schema, schemaLock, version, migrationLock, seen>>

UpFails(r) ==
    /\ step[r] = "apply"
    /\ Returns(r, "failed")
    /\ UNCHANGED <<version, dirty>>

\* ErrNoChange is no error; an error of Close is.
UpEnds(r) ==
    /\ step[r] = "next" /\ ~dirty /\ version = Release[r]
    /\ Returns(r, "done") \/ Returns(r, "failed")
    /\ UNCHANGED <<version, dirty>>

\* The sessions of a process that is gone: their locks go, what they committed stays.
SessionsEnd(r) ==
    /\ schemaLock' = Without(schemaLock, r)
    /\ migrationLock' = Without(migrationLock, r)
    /\ Goes(r, "none") /\ Forgets(r)
    /\ UNCHANGED <<schema, version, dirty>>

MigrationStep(r) ==
    \/ SchemaTransactionBegins(r) \/ CreateSchema(r) \/ CommitSchema(r)
    \/ TakesLock(r) \/ UpRefuses(r) \/ UpBegins(r) \/ UpApplied(r) \/ UpEnds(r)

MigrationFault(r) == SchemaFails(r) \/ LockFails(r) \/ UpFails(r)

=============================================================================
