-------------------------------- MODULE Boot --------------------------------
(***************************************************************************)
(* Processes of the service starting, serving and stopping beside each     *)
(* other, and the database they start against. fx runs the start hooks in  *)
(* the order they were appended: the database (connect, auto-migrate,      *)
(* migrate, seed), the registry's warm-up, the listener.                   *)
(***************************************************************************)
EXTENDS Integers, FiniteSetsExt

CONSTANTS
    Process,    \* instances of the service
    Release,    \* what may be deployed: the versions of its migrationMap
    Versions,   \* every version a release may have
    Password,   \* passwords
    AdminEnv,   \* what ADMIN_* may say: a password, None, Partial or Invalid
    Request,    \* requests that may be in flight
    MaxFaults,  \* bound on failed statements, deaths and bad deployments
    None,       \* no administrator, or no ADMIN_* variables
    Partial,    \* only some of the ADMIN_* variables
    Invalid     \* all of them, one of which breaks the rules of a registration

ASSUME BootAssumption ==
    /\ Versions \subseteq Nat \ {0}
    /\ \A release \in Release : IsFiniteSet(release) /\ release \subseteq Versions
    /\ MaxFaults \in Nat
    /\ AdminEnv \subseteq Password \union {None, Partial, Invalid}
    /\ Password \intersect {None, Partial, Invalid} = {}

VARIABLES
    tables,     \* the tables that exist: the models', and migration_records
    effects,    \* how often the change a migration makes has been committed
    records,    \* migration_records
    seeded,     \* which of the seeders' rows are there
    admin,      \* the seeded administrator's password
    at,         \* where a process is
    env,        \* the release a process runs, and its ADMIN_* variables
    pending,    \* the versions a process has found missing
    todo,       \* the seeders a process has still to run
    registry,   \* what a process's warm-up read
    busy,       \* the requests a process is serving
    closed,     \* the processes whose pool is closed
    late,       \* the processes whose shutdown deadline has passed
    chosen,     \* history: the last password the administrator chose
    faults

database == <<tables, effects, records, seeded, admin>>
memory == <<env, pending, todo, registry>>
serving == <<busy, closed, late>>
bootVars == <<database, at, memory, serving, chosen, faults>>

Table == {"models", "migration_records"}
Part == {"roles", "permissions", "grants"}
Seeder == {"role_seeder", "permission_seeder", "admin_seeder"}

Migrating == {"migrate", "record", "commit"}
Booting == {"database", "models", "create_models", "validate", "migration_records",
            "create_records", "versions", "seeders", "grants", "roles", "server"}
              \union Migrating
Up == {"serving", "draining", "closing", "closed"}

Move(p, from, to) == at[p] = from /\ at' = [at EXCEPT ![p] = to]

-----------------------------------------------------------------------------
(* The lifecycle: which hook follows which.                                *)

\* Mutant: the roles module is listed before the database module.
RolesFirst == [boot |-> "roles", roles |-> "database", database |-> "server",
               server |-> "serving"]

StartHooks == [boot |-> "database", database |-> "roles", roles |-> "server",
               server |-> "serving"]

\* Mutant: the pool is closed before the server has drained.
PoolFirst == [stop |-> "closing", closing |-> "draining", draining |-> "closed"]

\* Stop hooks run in the reverse order.
StopHooks == [stop |-> "draining", draining |-> "closing", closing |-> "closed"]

Blank == [release |-> {}, password |-> None]

\* The process is gone, and with it what it held: an open transaction too.
Ended(p) ==
    /\ at' = [at EXCEPT ![p] = "down"]
    /\ env' = [env EXCEPT ![p] = Blank]
    /\ pending' = [pending EXCEPT ![p] = {}]
    /\ todo' = [todo EXCEPT ![p] = {}]
    /\ registry' = [registry EXCEPT ![p] = {}]
    /\ busy' = [busy EXCEPT ![p] = {}]
    /\ closed' = closed \ {p}
    /\ late' = late \ {p}

\* A start hook has failed: fx gives up and the process exits.
GiveUp(p) == Ended(p) /\ UNCHANGED <<database, chosen, faults>>

\* Versions are contiguous from 1.
ValidateContiguous(release) == release = 1..Cardinality(release)

\* What no boot gets past, however often the process is started with it.
Deployable(release, password) == ValidateContiguous(release) /\ password # Invalid

\* The orchestrator starts the process, with any release and any ADMIN_*.
Start(p) ==
    /\ Move(p, "down", StartHooks.boot)
    /\ \E release \in Release, password \in AdminEnv :
        /\ env' = [env EXCEPT ![p] = [release |-> release, password |-> password]]
        /\ faults' = IF Deployable(release, password) THEN faults ELSE faults + 1
        /\ faults' <= MaxFaults
    /\ todo' = [todo EXCEPT ![p] = Seeder]
    /\ UNCHANGED <<database, pending, registry, serving, chosen>>

\* A statement fails, the start timeout passes, or the process dies.
Die(p) ==
    /\ at[p] # "down" /\ faults < MaxFaults
    /\ faults' = faults + 1
    /\ Ended(p)
    /\ UNCHANGED <<database, chosen>>

-----------------------------------------------------------------------------
(* The database hook.                                                      *)

\* Ping, then EnsureExtensions: CREATE EXTENSION IF NOT EXISTS.
Connect(p) ==
    /\ Move(p, "database", "models")
    /\ UNCHANGED <<database, memory, serving, chosen, faults>>

\* gorm's AutoMigrate looks for a table and creates it when it is not there...
FindTable(p, table, create, next) ==
    /\ Move(p, table, IF table \in tables THEN next ELSE create)
    /\ UNCHANGED <<database, memory, serving, chosen, faults>>

\* ...in another statement, which fails when another process was faster.
CreateTable(p, table, create, next) ==
    IF table \in tables
      THEN at[p] = create /\ GiveUp(p)
      ELSE /\ Move(p, create, next)
           /\ tables' = tables \union {table}
           /\ UNCHANGED <<effects, records, seeded, admin, memory, serving, chosen, faults>>

AutoMigrate(p) ==
    \/ FindTable(p, "models", "create_models", "validate")
    \/ CreateTable(p, "models", "create_models", "validate")

MigrateRecords(p) ==
    \/ FindTable(p, "migration_records", "create_records", "versions")
    \/ CreateTable(p, "migration_records", "create_records", "versions")

Validate(p) ==
    IF ValidateContiguous(env[p].release)
      THEN /\ Move(p, "validate", "migration_records")
           /\ UNCHANGED <<database, memory, serving, chosen, faults>>
      ELSE at[p] = "validate" /\ GiveUp(p)

\* Mutant: a failed read is taken for an empty table.
NothingApplied == {}

AppliedVersions == records

\* Mutant: versions start at 0.
FromZero(release, applied) == {v \in 0..Cardinality(release) : v \notin applied}

\* Membership, not the highest version applied: a hole is filled.
Missing(release, applied) == {v \in 1..Cardinality(release) : v \notin applied}

\* What follows when these versions are left to apply.
Onward(left) == IF left = {} THEN "seeders" ELSE "migrate"

ReadVersions(p) ==
    LET missing == Missing(env[p].release, AppliedVersions)
    IN  /\ Move(p, "versions", Onward(missing))
        /\ pending' = [pending EXCEPT ![p] = missing]
        /\ UNCHANGED <<database, env, todo, registry, serving, chosen, faults>>

\* Mutant: the highest version first.
Highest(versions) == CHOOSE v \in versions : \A w \in versions : w <= v

\* Ascending order.
Lowest(versions) == CHOOSE v \in versions : \A w \in versions : v <= w

Version(p) == Lowest(pending[p])

\* applyOne opens a transaction and makes the change in it, or finds it made.
Migrate(p) ==
    \/ /\ Move(p, "migrate", "record")
       /\ UNCHANGED <<database, memory, serving, chosen, faults>>
    \/ /\ at[p] = "migrate" /\ effects[Version(p)] > 0
       /\ GiveUp(p)

\* Mutant: the record is inserted with ON CONFLICT DO NOTHING.
AnyVersion(v) == TRUE

Unrecorded(v) == v \notin records

\* The insert waits for another transaction that has inserted the same key.
Waits(p) == \E q \in Process \ {p} : at[q] = "commit" /\ Version(q) = Version(p)

Record(p) ==
    /\ at[p] = "record" /\ ~Waits(p)
    /\ IF Unrecorded(Version(p))
         THEN /\ Move(p, "record", "commit")
              /\ UNCHANGED <<database, memory, serving, chosen, faults>>
         ELSE GiveUp(p)

\* The change and its record become visible together.
Committed(v) ==
    /\ effects' = [effects EXCEPT ![v] = @ + 1]
    /\ records' = records \union {v}
    /\ UNCHANGED <<tables, seeded, admin>>

Commit(p) ==
    LET left == pending[p] \ {Version(p)}
    IN  /\ Move(p, "commit", Onward(left))
        /\ Committed(Version(p))
        /\ pending' = [pending EXCEPT ![p] = left]
        /\ UNCHANGED <<env, todo, registry, serving, chosen, faults>>

\* The answer to COMMIT is lost: the boot fails, the migration stands.
CommitUnacknowledged(p) ==
    /\ at[p] = "commit" /\ faults < MaxFaults
    /\ Committed(Version(p))
    /\ faults' = faults + 1
    /\ Ended(p)
    /\ UNCHANGED chosen

-----------------------------------------------------------------------------
(* RunSeeders: in the order the value group happens to supply them.        *)

SeederDone(p, seeder) == todo' = [todo EXCEPT ![p] = @ \ {seeder}]

SeedRoles(p) ==
    /\ at[p] = "seeders" /\ "role_seeder" \in todo[p]
    /\ seeded' = seeded \union {"roles"}
    /\ SeederDone(p, "role_seeder")
    /\ UNCHANGED <<tables, effects, records, admin, at, env, pending, registry,
                   serving, chosen, faults>>

SeedPermissions(p) ==
    /\ "permission_seeder" \in todo[p]
    /\ Move(p, "seeders", "grants")
    /\ seeded' = seeded \union {"permissions"}
    /\ UNCHANGED <<tables, effects, records, admin, memory, serving, chosen, faults>>

\* Grants name the permissions read back; one that is not there is skipped.
SeedGrants(p) ==
    /\ Move(p, "grants", "seeders")
    /\ seeded' = IF "permissions" \in seeded THEN seeded \union {"grants"} ELSE seeded
    /\ SeederDone(p, "permission_seeder")
    /\ UNCHANGED <<tables, effects, records, admin, env, pending, registry,
                   serving, chosen, faults>>

\* Mutant: an upsert.
Upserted(password) == password

\* ON CONFLICT DO NOTHING.
Inserted(password) == IF admin = None THEN password ELSE admin

\* Nothing or half of it configured is logged; what a registration would refuse
\* fails the boot, after the migrations and perhaps other seeders.
SeedAdmin(p) ==
    /\ at[p] = "seeders" /\ "admin_seeder" \in todo[p]
    /\ IF env[p].password = Invalid
         THEN GiveUp(p)
         ELSE /\ admin' = IF env[p].password \in {None, Partial}
                             THEN admin ELSE Inserted(env[p].password)
              /\ SeederDone(p, "admin_seeder")
              /\ UNCHANGED <<tables, effects, records, seeded, at, env, pending,
                             registry, serving, chosen, faults>>

SeedersDone(p) ==
    /\ todo[p] = {}
    /\ Move(p, "seeders", StartHooks.database)
    /\ UNCHANGED <<database, memory, serving, chosen, faults>>

RunSeeders(p) ==
    \/ SeedRoles(p) \/ SeedPermissions(p) \/ SeedGrants(p) \/ SeedAdmin(p)
    \/ SeedersDone(p)

DatabaseHook(p) ==
    \/ Connect(p) \/ AutoMigrate(p) \/ Validate(p) \/ MigrateRecords(p)
    \/ ReadVersions(p) \/ Migrate(p) \/ Record(p) \/ Commit(p)
    \/ RunSeeders(p)

-----------------------------------------------------------------------------
(* The warm-up, the listener, and the way down.                            *)

\* Rows are only added while processes start, so one read stands for three.
WarmUp(p) ==
    IF "models" \in tables
      THEN /\ Move(p, "roles", StartHooks.roles)
           /\ registry' = [registry EXCEPT ![p] = seeded]
           /\ UNCHANGED <<database, env, pending, todo, serving, chosen, faults>>
      ELSE at[p] = "roles" /\ GiveUp(p)

Listen(p) ==
    /\ Move(p, "server", StartHooks.server)
    /\ UNCHANGED <<database, memory, serving, chosen, faults>>

Accept(p, r) ==
    /\ at[p] = "serving" /\ r \notin busy[p]
    /\ busy' = [busy EXCEPT ![p] = @ \union {r}]
    /\ UNCHANGED <<database, at, memory, closed, late, chosen, faults>>

Finish(p, r) ==
    /\ r \in busy[p]
    /\ busy' = [busy EXCEPT ![p] = @ \ {r}]
    /\ UNCHANGED <<database, at, memory, closed, late, chosen, faults>>

\* One of those requests: the administrator changes the seeded password.
ChangePassword(p) ==
    /\ busy[p] # {} /\ p \notin closed /\ admin # None
    /\ \E password \in Password : admin' = password /\ chosen' = password
    /\ UNCHANGED <<tables, effects, records, seeded, at, memory, serving, faults>>

\* SIGTERM: the listener is closed and the stop hooks begin.
Stop(p) ==
    /\ Move(p, "serving", StopHooks.stop)
    /\ UNCHANGED <<database, memory, serving, chosen, faults>>

\* server.Shutdown returns when no request is left...
Drained(p) ==
    /\ busy[p] = {}
    /\ Move(p, "draining", StopHooks.draining)
    /\ UNCHANGED <<database, memory, serving, chosen, faults>>

\* ...or when SHUTDOWN_TIMEOUT is over. fx goes on after the error.
Deadline(p) ==
    /\ Move(p, "draining", StopHooks.draining)
    /\ late' = late \union {p}
    /\ UNCHANGED <<database, memory, busy, closed, chosen, faults>>

\* sql.DB.Close: a query that is running is waited for, the next one fails.
ClosePool(p) ==
    /\ Move(p, "closing", StopHooks.closing)
    /\ closed' = closed \union {p}
    /\ UNCHANGED <<database, memory, busy, late, chosen, faults>>

\* The hooks are over, or fx's stop timeout is.
Exit(p) ==
    /\ at[p] = "closed" \/ (at[p] = "closing" /\ p \in late)
    /\ GiveUp(p)

-----------------------------------------------------------------------------

Init ==
    /\ tables \in SUBSET Table
    /\ records \in SUBSET (IF "migration_records" \in tables THEN Versions ELSE {})
    /\ effects = [v \in Versions |-> IF v \in records THEN 1 ELSE 0]
    /\ seeded \in IF "models" \in tables THEN {{}, {"roles"}, Part} ELSE {{}}
    /\ admin = None /\ chosen = None
    /\ at = [p \in Process |-> "down"]
    /\ env = [p \in Process |-> Blank]
    /\ pending = [p \in Process |-> {}]
    /\ todo = [p \in Process |-> {}]
    /\ registry = [p \in Process |-> {}]
    /\ busy = [p \in Process |-> {}]
    /\ closed = {} /\ late = {}
    /\ faults = 0

\* What the program goes on with by itself.
Proceeds(p) ==
    \/ DatabaseHook(p) \/ WarmUp(p) \/ Listen(p)
    \/ Drained(p) \/ Deadline(p) \/ ClosePool(p) \/ Exit(p)

Step(p) ==
    \/ Start(p) \/ Proceeds(p) \/ CommitUnacknowledged(p) \/ Die(p)
    \/ \E r \in Request : Accept(p, r) \/ Finish(p, r)
    \/ ChangePassword(p) \/ Stop(p)

Next == \E p \in Process : Step(p)

Spec ==
    /\ Init /\ [][Next]_bootVars
    /\ \A p \in Process : WF_bootVars(Start(p)) /\ WF_bootVars(Proceeds(p))

-----------------------------------------------------------------------------

TypeOK ==
    /\ tables \subseteq Table
    /\ effects \in [Versions -> Nat]
    /\ records \subseteq Versions
    /\ seeded \subseteq Part
    /\ admin \in Password \union {None} /\ chosen \in Password \union {None}
    /\ at \in [Process -> {"down"} \union Booting \union Up]
    /\ env \in [Process -> [release: Release \union {{}},
                            password: AdminEnv \union {None}]]
    /\ pending \in [Process -> SUBSET Versions]
    /\ todo \in [Process -> SUBSET Seeder]
    /\ registry \in [Process -> SUBSET Part]
    /\ busy \in [Process -> SUBSET Request]
    /\ closed \subseteq Process /\ late \subseteq Process
    /\ faults \in 0..MaxFaults

\* The database's memory of what has run is right: a migration is recorded if
\* and only if its change has been committed, and then it was committed once,
\* whatever crashed or was started twice. (migrations/runner.go, applyOne.)
RecordsAreTrue ==
    \A v \in Versions : effects[v] = IF v \in records THEN 1 ELSE 0

\* The schema changes one migration at a time, the lowest missing one first,
\* as MigrationLog has it. (migrations/runner.go, Apply.)
Log == INSTANCE MigrationLog
MigrationsInOrder == Log!Spec

\* A process that answers requests has a schema at its release's version, every
\* row the seeders promise, a registry that has read them, and no ADMIN_* that a
\* registration would refuse: the order of the hooks in internal/app/modules.go
\* and roles/module.go, and what fails them.
ServesWhatItStarted ==
    \A p \in Process : at[p] \in Up =>
        /\ env[p].release \subseteq records
        /\ Part \subseteq seeded
        /\ registry[p] = Part
        /\ env[p].password # Invalid

\* No boot, of any release with any ADMIN_PASSWORD, undoes the administrator's
\* own choice. (users/seeds/admin_seeder.go.)
ChosenPasswordStands == chosen # None => admin = chosen

\* The pool is closed under a running request only when the drain was cut off.
\* (cmd/api/server.go, database/module.go stop.)
PoolOutlivesRequests ==
    \A p \in closed : busy[p] # {} => p \in late

\* A boot that loses a race or meets a fault is started again and ends up
\* serving. (The whole boot sequence, under finitely many faults: one that is
\* deployed wrong for ever never serves.)
ReachesService ==
    \A p \in Process : at[p] = "down" ~> at[p] = "serving"
=============================================================================
