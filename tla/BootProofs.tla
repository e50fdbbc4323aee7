----------------------------- MODULE BootProofs -----------------------------
(***************************************************************************)
(* For any processes, releases, requests and faults: the migration records *)
(* tell the truth, migrations are made in order, a process serves only     *)
(* what it has started, the administrator's password stands, and the pool  *)
(* outlives the requests.                                                  *)
(***************************************************************************)
EXTENDS Boot, TLAPS, FiniteSetTheorems, WellFoundedInduction

Seeding == {"seeders", "grants"}
Started == {"roles", "server"} \union Up
Found == Migrating \union Seeding \union Started
Checked == {"migration_records", "create_records", "versions"} \union Found

\* What a process has found to apply is its release's, and nothing is missed.
Tracked(p) ==
    /\ at[p] \in Checked => ValidateContiguous(env[p].release)
    /\ at[p] \in Found => env[p].release \subseteq records \union pending[p]
    /\ at[p] \in Migrating => pending[p] # {} /\ pending[p] \subseteq env[p].release
    /\ at[p] \in Seeding \union Started => pending[p] = {}

\* A seeder that has run has left its rows.
Seeded(p) ==
    /\ at[p] # "down" /\ "role_seeder" \notin todo[p] => "roles" \in seeded
    /\ at[p] # "down" /\ "permission_seeder" \notin todo[p] =>
          "permissions" \in seeded /\ "grants" \in seeded
    /\ at[p] # "down" /\ "admin_seeder" \notin todo[p] => env[p].password # Invalid
    /\ at[p] = "grants" => "permissions" \in seeded
    /\ at[p] \in Started => todo[p] = {}
    /\ at[p] \in Started \ {"roles"} => registry[p] = Part

\* Before the pool is closed the server has drained, or was cut off.
Drains(p) ==
    /\ p \in closed => at[p] = "closed"
    /\ at[p] \in {"closing", "closed"} /\ busy[p] # {} => p \in late

Local(p) == Tracked(p) /\ Seeded(p) /\ Drains(p)

\* Two transactions never hold the same new record.
Sole(p) ==
    at[p] = "commit" =>
        /\ Version(p) \notin records
        /\ \A q \in Process \ {p} : at[q] = "commit" => Version(q) # Version(p)

IInv ==
    /\ TypeOK
    /\ RecordsAreTrue
    /\ \A p \in Process : Local(p)
    /\ \A p \in Process : Sole(p)
    /\ ChosenPasswordStands

-----------------------------------------------------------------------------

LEMMA LowestOf ==
  ASSUME NEW S, S \subseteq Nat, S # {}
  PROVE  Lowest(S) \in S /\ \A w \in S : Lowest(S) <= w
  <1> DEFINE Upto(x) == {w \in S : w <= x}
             T == {Upto(x) : x \in S}
  <1>1. T \subseteq FiniteSubsetsOf(S) /\ T # {}
    <2>1. ASSUME NEW x \in S PROVE IsFiniteSet(Upto(x))
      BY FS_BoundedSetOfNaturals
    <2>2. QED
      BY <2>1 DEF FiniteSubsetsOf
  <1>2. PICK least \in T : \A U \in T : <<U, least>> \notin StrictSubsetOrdering(S)
    BY <1>1, WFMin, FS_StrictSubsetOrderingWellFounded
  <1>3. PICK x \in S : least = Upto(x)
    OBVIOUS
  <1>4. ASSUME NEW y \in S, y < x
        PROVE  FALSE
    <2>1. Upto(y) \in T /\ Upto(y) \subseteq S /\ Upto(x) \subseteq S
      OBVIOUS
    <2>0. x \in Nat /\ y \in Nat /\ ~(x <= y) /\ \A w \in Nat : w <= y => w <= x
      BY <1>3, <1>4
    <2>2. Upto(y) \subseteq Upto(x) /\ x \in Upto(x) /\ x \notin Upto(y)
      <3>1. Upto(y) \subseteq Upto(x)
        BY <2>0
      <3>2. x \in Upto(x)
        BY <2>0, <1>3
      <3>3. x \notin Upto(y)
        BY <2>0, <1>3
      <3>4. QED
        BY <3>1, <3>2, <3>3
    <2>3. <<Upto(y), least>> \in StrictSubsetOrdering(S)
      BY <2>1, <2>2, <1>3 DEF StrictSubsetOrdering
    <2>4. QED
      BY <2>1, <2>3, <1>2
  <1>5. \A y \in S : x <= y
    BY <1>3, <1>4, SMT
  <1>6. QED
    BY <1>5 DEF Lowest

LEMMA VersionOf ==
  ASSUME IInv, NEW p \in Process, at[p] \in Migrating
  PROVE  /\ Version(p) \in pending[p] /\ Version(p) \in Versions
         /\ \A w \in pending[p] : Version(p) <= w
  <1>1. pending[p] \subseteq Versions /\ pending[p] # {} /\ pending[p] \subseteq Nat
    BY BootAssumption DEF IInv, TypeOK, Local, Tracked
  <1>2. QED
    BY <1>1, LowestOf DEF Version

\* What a step of one process leaves alone of another, and never takes back.
Untouched(q) ==
    /\ at'[q] = at[q] /\ env'[q] = env[q] /\ pending'[q] = pending[q]
    /\ todo'[q] = todo[q] /\ registry'[q] = registry[q] /\ busy'[q] = busy[q]
    /\ (q \in closed' <=> q \in closed) /\ (q \in late' <=> q \in late)
    /\ records \subseteq records' /\ seeded \subseteq seeded'

LEMMA OthersUntouched ==
  ASSUME TypeOK, NEW p \in Process, NEW q \in Process, q # p, Step(p)
  PROVE  Untouched(q)
  <1>0. TypeOK
    OBVIOUS
  <1>1. CASE GiveUp(p)
    BY <1>0, <1>1
    DEF GiveUp, Ended, Blank, bootVars, database, memory, serving, Move,
        Untouched, TypeOK
  <1>2. CASE Start(p)
    BY <1>0, <1>2
    DEF Start, StartHooks, bootVars, database, memory, serving, Move,
        Untouched, TypeOK
  <1>3. CASE Die(p)
    BY <1>0, <1>3
    DEF Die, Ended, Blank, bootVars, database, memory, serving, Move,
        Untouched, TypeOK
  <1>4. CASE CommitUnacknowledged(p)
    BY <1>0, <1>4
    DEF CommitUnacknowledged, Committed, Ended, Blank, bootVars, database,
        memory, serving, Move, Untouched, TypeOK
  <1>5. CASE Connect(p)
    BY <1>0, <1>5
    DEF Connect, bootVars, database, memory, serving, Move, Untouched, TypeOK
  <1>6. CASE AutoMigrate(p) /\ ~GiveUp(p)
    BY <1>0, <1>6
    DEF AutoMigrate, FindTable, CreateTable, bootVars, database, memory,
        serving, Move, Untouched, TypeOK
  <1>7. CASE Validate(p) /\ ~GiveUp(p)
    BY <1>0, <1>7
    DEF Validate, bootVars, database, memory, serving, Move, Untouched, TypeOK
  <1>8. CASE MigrateRecords(p) /\ ~GiveUp(p)
    BY <1>0, <1>8
    DEF MigrateRecords, FindTable, CreateTable, bootVars, database, memory,
        serving, Move, Untouched, TypeOK
  <1>9. CASE ReadVersions(p)
    BY <1>0, <1>9
    DEF ReadVersions, Onward, bootVars, database, memory, serving, Move,
        Untouched, TypeOK
  <1>10. CASE Migrate(p) /\ ~GiveUp(p)
    BY <1>0, <1>10
    DEF Migrate, bootVars, database, memory, serving, Move, Untouched, TypeOK
  <1>11. CASE Record(p) /\ ~GiveUp(p)
    BY <1>0, <1>11
    DEF Record, bootVars, database, memory, serving, Move, Untouched, TypeOK
  <1>12. CASE Commit(p)
    BY <1>0, <1>12
    DEF Commit, Committed, Onward, bootVars, database, memory, serving, Move,
        Untouched, TypeOK
  <1>13. CASE SeedRoles(p)
    BY <1>0, <1>13
    DEF SeedRoles, SeederDone, bootVars, database, memory, serving, Move,
        Untouched, TypeOK
  <1>14. CASE SeedPermissions(p)
    BY <1>0, <1>14
    DEF SeedPermissions, bootVars, database, memory, serving, Move, Untouched,
        TypeOK
  <1>15. CASE SeedGrants(p)
    BY <1>0, <1>15
    DEF SeedGrants, SeederDone, bootVars, database, memory, serving, Move,
        Untouched, TypeOK
  <1>16. CASE SeedAdmin(p) /\ ~GiveUp(p)
    BY <1>0, <1>16
    DEF SeedAdmin, SeederDone, bootVars, database, memory, serving, Move,
        Untouched, TypeOK
  <1>17. CASE SeedersDone(p)
    BY <1>0, <1>17
    DEF SeedersDone, StartHooks, bootVars, database, memory, serving, Move,
        Untouched, TypeOK
  <1>18. CASE WarmUp(p) /\ ~GiveUp(p)
    BY <1>0, <1>18
    DEF WarmUp, StartHooks, bootVars, database, memory, serving, Move,
        Untouched, TypeOK
  <1>19. CASE Listen(p)
    BY <1>0, <1>19
    DEF Listen, StartHooks, bootVars, database, memory, serving, Move,
        Untouched, TypeOK
  <1>20. ASSUME NEW r \in Request, Accept(p, r)
        PROVE  Untouched(q)
    BY <1>0, <1>20
    DEF Accept, bootVars, database, memory, serving, Move, Untouched, TypeOK
  <1>21. ASSUME NEW r \in Request, Finish(p, r)
        PROVE  Untouched(q)
    BY <1>0, <1>21
    DEF Finish, bootVars, database, memory, serving, Move, Untouched, TypeOK
  <1>22. CASE ChangePassword(p)
    BY <1>0, <1>22
    DEF ChangePassword, bootVars, database, memory, serving, Move, Untouched,
        TypeOK
  <1>23. CASE Stop(p)
    BY <1>0, <1>23
    DEF Stop, StopHooks, bootVars, database, memory, serving, Move, Untouched,
        TypeOK
  <1>24. CASE Drained(p)
    BY <1>0, <1>24
    DEF Drained, StopHooks, bootVars, database, memory, serving, Move,
        Untouched, TypeOK
  <1>25. CASE Deadline(p)
    BY <1>0, <1>25
    DEF Deadline, StopHooks, bootVars, database, memory, serving, Move,
        Untouched, TypeOK
  <1>26. CASE ClosePool(p)
    BY <1>0, <1>26
    DEF ClosePool, StopHooks, bootVars, database, memory, serving, Move,
        Untouched, TypeOK
  <1>27. QED
    BY <1>0, <1>1, <1>2, <1>3, <1>4, <1>5, <1>6, <1>7, <1>8, <1>9, <1>10,
       <1>11, <1>12, <1>13, <1>14, <1>15, <1>16, <1>17, <1>18, <1>19, <1>20,
       <1>21, <1>22, <1>23, <1>24, <1>25, <1>26
    DEF Step, Proceeds, DatabaseHook, RunSeeders, Exit

LEMMA MissingType ==
  ASSUME IInv, NEW p \in Process, at[p] = "versions"
  PROVE  Missing(env[p].release, AppliedVersions) \subseteq Versions
  <1>1. ValidateContiguous(env[p].release)
    BY DEF IInv, Local, Tracked, Checked
  <1>2. env[p].release \subseteq Versions
    BY BootAssumption DEF IInv, TypeOK
  <1>3. QED
    BY <1>1, <1>2 DEF ValidateContiguous, Missing

LEMMA StepType ==
  ASSUME IInv, NEW p \in Process, Step(p)
  PROVE  TypeOK'
  <1>0. TypeOK
    BY DEF IInv
  <1>1. CASE GiveUp(p)
    BY <1>0, <1>1
    DEF GiveUp, Ended, Blank, bootVars, database, memory, serving, Move,
        TypeOK, Table, Part, Seeder, Booting, Migrating, Up
  <1>2. CASE Start(p)
    BY <1>0, <1>2, BootAssumption
    DEF Start, StartHooks, bootVars, database, memory, serving, Move, TypeOK,
        Table, Part, Seeder, Booting, Migrating, Up
  <1>3. CASE Die(p)
    BY <1>0, <1>3, BootAssumption
    DEF Die, Ended, Blank, bootVars, database, memory, serving, Move, TypeOK,
        Table, Part, Seeder, Booting, Migrating, Up
  <1>4. CASE CommitUnacknowledged(p)
    <2>1. at[p] = "commit" /\ at[p] \in Migrating /\ faults < MaxFaults
      BY <1>4 DEF CommitUnacknowledged, Migrating
    <2>2. Version(p) \in Versions
      BY <2>1, VersionOf
    <2>3. effects' \in [Versions -> Nat] /\ records' \subseteq Versions
      BY <1>0, <1>4, <2>2 DEF CommitUnacknowledged, Committed, TypeOK
    <2>4. faults' \in 0..MaxFaults
      BY <1>0, <1>4, <2>1, BootAssumption DEF CommitUnacknowledged, TypeOK
    <2>5. QED
      BY <1>0, <1>4, <2>3, <2>4
      DEF CommitUnacknowledged, Committed, Ended, Blank, TypeOK, Table, Part,
          Seeder, Booting, Migrating, Up
  <1>5. CASE Connect(p)
    BY <1>0, <1>5
    DEF Connect, bootVars, database, memory, serving, Move, TypeOK, Table,
        Part, Seeder, Booting, Migrating, Up
  <1>6. CASE AutoMigrate(p) /\ ~GiveUp(p)
    BY <1>0, <1>6
    DEF AutoMigrate, FindTable, CreateTable, bootVars, database, memory,
        serving, Move, TypeOK, Table, Part, Seeder, Booting, Migrating, Up
  <1>7. CASE Validate(p) /\ ~GiveUp(p)
    BY <1>0, <1>7
    DEF Validate, bootVars, database, memory, serving, Move, TypeOK, Table,
        Part, Seeder, Booting, Migrating, Up
  <1>8. CASE MigrateRecords(p) /\ ~GiveUp(p)
    BY <1>0, <1>8
    DEF MigrateRecords, FindTable, CreateTable, bootVars, database, memory,
        serving, Move, TypeOK, Table, Part, Seeder, Booting, Migrating, Up
  <1>9. CASE ReadVersions(p)
    <2>1. at[p] = "versions"
      BY <1>9 DEF ReadVersions, Move
    <2>2. Missing(env[p].release, AppliedVersions) \subseteq Versions
      BY <2>1, MissingType
    <2>3. QED
      BY <1>0, <1>9, <2>2
      DEF ReadVersions, Onward, bootVars, database, memory, serving, Move, TypeOK,
          Booting, Migrating
  <1>10. CASE Migrate(p) /\ ~GiveUp(p)
    BY <1>0, <1>10
    DEF Migrate, bootVars, database, memory, serving, Move, TypeOK, Table,
        Part, Seeder, Booting, Migrating, Up
  <1>11. CASE Record(p) /\ ~GiveUp(p)
    BY <1>0, <1>11
    DEF Record, bootVars, database, memory, serving, Move, TypeOK, Table,
        Part, Seeder, Booting, Migrating, Up
  <1>12. CASE Commit(p)
    BY <1>0, <1>12, VersionOf
    DEF Commit, Committed, Onward, bootVars, database, memory, serving, Move,
        TypeOK, Table, Part, Seeder, Booting, Migrating, Up
  <1>13. CASE SeedRoles(p)
    BY <1>0, <1>13
    DEF SeedRoles, SeederDone, bootVars, database, memory, serving, Move,
        TypeOK, Table, Part, Seeder, Booting, Migrating, Up
  <1>14. CASE SeedPermissions(p)
    BY <1>0, <1>14
    DEF SeedPermissions, bootVars, database, memory, serving, Move, TypeOK,
        Table, Part, Seeder, Booting, Migrating, Up
  <1>15. CASE SeedGrants(p)
    BY <1>0, <1>15
    DEF SeedGrants, SeederDone, bootVars, database, memory, serving, Move,
        TypeOK, Table, Part, Seeder, Booting, Migrating, Up
  <1>16. CASE SeedAdmin(p) /\ ~GiveUp(p)
    <2>1. admin' \in Password \union {None}
      BY <1>0, <1>16, BootAssumption DEF SeedAdmin, Inserted, TypeOK
    <2>2. todo' \in [Process -> SUBSET Seeder]
      BY <1>0, <1>16 DEF SeedAdmin, SeederDone, TypeOK
    <2>3. QED
      BY <1>0, <1>16, <2>1, <2>2 DEF SeedAdmin, serving, TypeOK
  <1>17. CASE SeedersDone(p)
    BY <1>0, <1>17
    DEF SeedersDone, StartHooks, bootVars, database, memory, serving, Move,
        TypeOK, Table, Part, Seeder, Booting, Migrating, Up
  <1>18. CASE WarmUp(p) /\ ~GiveUp(p)
    <2>1. /\ at[p] = "roles" /\ at' = [at EXCEPT ![p] = "server"]
          /\ registry' = [registry EXCEPT ![p] = seeded]
          /\ UNCHANGED <<database, env, pending, todo, serving, chosen, faults>>
      BY <1>18 DEF WarmUp, Move, StartHooks
    <2>2. registry' \in [Process -> SUBSET Part]
      BY <1>0, <2>1 DEF TypeOK
    <2>3. QED
      BY <1>0, <2>1, <2>2 DEF database, serving, TypeOK, Booting
  <1>19. CASE Listen(p)
    BY <1>0, <1>19
    DEF Listen, StartHooks, bootVars, database, memory, serving, Move, TypeOK,
        Table, Part, Seeder, Booting, Migrating, Up
  <1>20. ASSUME NEW r \in Request, Accept(p, r)
        PROVE  TypeOK'
    BY <1>0, <1>20
    DEF Accept, bootVars, database, memory, serving, Move, TypeOK, Table,
        Part, Seeder, Booting, Migrating, Up
  <1>21. ASSUME NEW r \in Request, Finish(p, r)
        PROVE  TypeOK'
    BY <1>0, <1>21
    DEF Finish, bootVars, database, memory, serving, Move, TypeOK, Table,
        Part, Seeder, Booting, Migrating, Up
  <1>22. CASE ChangePassword(p)
    BY <1>0, <1>22
    DEF ChangePassword, bootVars, database, memory, serving, Move, TypeOK,
        Table, Part, Seeder, Booting, Migrating, Up
  <1>23. CASE Stop(p)
    BY <1>0, <1>23
    DEF Stop, StopHooks, bootVars, database, memory, serving, Move, TypeOK,
        Table, Part, Seeder, Booting, Migrating, Up
  <1>24. CASE Drained(p)
    BY <1>0, <1>24
    DEF Drained, StopHooks, bootVars, database, memory, serving, Move, TypeOK,
        Table, Part, Seeder, Booting, Migrating, Up
  <1>25. CASE Deadline(p)
    BY <1>0, <1>25
    DEF Deadline, StopHooks, bootVars, database, memory, serving, Move,
        TypeOK, Table, Part, Seeder, Booting, Migrating, Up
  <1>26. CASE ClosePool(p)
    BY <1>0, <1>26
    DEF ClosePool, StopHooks, bootVars, database, memory, serving, Move,
        TypeOK, Table, Part, Seeder, Booting, Migrating, Up
  <1>27. QED
    BY <1>0, <1>1, <1>2, <1>3, <1>4, <1>5, <1>6, <1>7, <1>8, <1>9, <1>10,
       <1>11, <1>12, <1>13, <1>14, <1>15, <1>16, <1>17, <1>18, <1>19, <1>20,
       <1>21, <1>22, <1>23, <1>24, <1>25, <1>26
    DEF Step, Proceeds, DatabaseHook, RunSeeders, Exit

LEMMA StepRecords ==
  ASSUME IInv, NEW p \in Process, Step(p)
  PROVE  RecordsAreTrue'
  <1>0. TypeOK /\ RecordsAreTrue
    BY DEF IInv
  <1>1. CASE GiveUp(p)
    BY <1>0, <1>1
    DEF GiveUp, Ended, Blank, bootVars, database, memory, serving, Move,
        RecordsAreTrue
  <1>2. CASE Start(p)
    BY <1>0, <1>2
    DEF Start, StartHooks, bootVars, database, memory, serving, Move,
        RecordsAreTrue
  <1>3. CASE Die(p)
    BY <1>0, <1>3
    DEF Die, Ended, Blank, bootVars, database, memory, serving, Move,
        RecordsAreTrue
  <1>4. CASE CommitUnacknowledged(p)
    <2>1. at[p] = "commit" /\ at[p] \in Migrating
      BY <1>4 DEF CommitUnacknowledged, Move, Migrating
    <2>2. Version(p) \in Versions /\ Version(p) \notin records
      BY <2>1, VersionOf DEF IInv, Sole
    <2>3. /\ effects' = [effects EXCEPT
                         ![Version(p)] = effects[Version(p)] + 1]
          /\ records' = records \union {Version(p)}
      BY <1>4 DEF CommitUnacknowledged, Committed
    <2>4. effects[Version(p)] = 0
      BY <1>0, <2>2 DEF RecordsAreTrue
    <2>5. ASSUME NEW v \in Versions
          PROVE  effects'[v] = IF v \in records' THEN 1 ELSE 0
      <3>1. CASE v = Version(p)
        BY <1>0, <2>3, <2>4, <3>1 DEF TypeOK
      <3>2. CASE v # Version(p)
        BY <1>0, <2>3, <3>2 DEF RecordsAreTrue, TypeOK
      <3>3. QED
        BY <3>1, <3>2
    <2>6. QED
      BY <2>5 DEF RecordsAreTrue
  <1>5. CASE Connect(p)
    BY <1>0, <1>5
    DEF Connect, bootVars, database, memory, serving, Move, RecordsAreTrue
  <1>6. CASE AutoMigrate(p) /\ ~GiveUp(p)
    BY <1>0, <1>6
    DEF AutoMigrate, FindTable, CreateTable, bootVars, database, memory,
        serving, Move, RecordsAreTrue
  <1>7. CASE Validate(p) /\ ~GiveUp(p)
    BY <1>0, <1>7
    DEF Validate, bootVars, database, memory, serving, Move, RecordsAreTrue
  <1>8. CASE MigrateRecords(p) /\ ~GiveUp(p)
    BY <1>0, <1>8
    DEF MigrateRecords, FindTable, CreateTable, bootVars, database, memory,
        serving, Move, RecordsAreTrue
  <1>9. CASE ReadVersions(p)
    BY <1>0, <1>9
    DEF ReadVersions, Onward, bootVars, database, memory, serving, Move,
        RecordsAreTrue
  <1>10. CASE Migrate(p) /\ ~GiveUp(p)
    BY <1>0, <1>10
    DEF Migrate, bootVars, database, memory, serving, Move, RecordsAreTrue
  <1>11. CASE Record(p) /\ ~GiveUp(p)
    BY <1>0, <1>11
    DEF Record, bootVars, database, memory, serving, Move, RecordsAreTrue
  <1>12. CASE Commit(p)
    <2>1. at[p] = "commit" /\ at[p] \in Migrating
      BY <1>12 DEF Commit, Move, Migrating
    <2>2. Version(p) \in Versions /\ Version(p) \notin records
      BY <2>1, VersionOf DEF IInv, Sole
    <2>3. /\ effects' = [effects EXCEPT
                         ![Version(p)] = effects[Version(p)] + 1]
          /\ records' = records \union {Version(p)}
      BY <1>12 DEF Commit, Committed
    <2>4. effects[Version(p)] = 0
      BY <1>0, <2>2 DEF RecordsAreTrue
    <2>5. ASSUME NEW v \in Versions
          PROVE  effects'[v] = IF v \in records' THEN 1 ELSE 0
      <3>1. CASE v = Version(p)
        BY <1>0, <2>3, <2>4, <3>1 DEF TypeOK
      <3>2. CASE v # Version(p)
        BY <1>0, <2>3, <3>2 DEF RecordsAreTrue, TypeOK
      <3>3. QED
        BY <3>1, <3>2
    <2>6. QED
      BY <2>5 DEF RecordsAreTrue
  <1>13. CASE SeedRoles(p)
    BY <1>0, <1>13
    DEF SeedRoles, SeederDone, bootVars, database, memory, serving, Move,
        RecordsAreTrue
  <1>14. CASE SeedPermissions(p)
    BY <1>0, <1>14
    DEF SeedPermissions, bootVars, database, memory, serving, Move,
        RecordsAreTrue
  <1>15. CASE SeedGrants(p)
    BY <1>0, <1>15
    DEF SeedGrants, SeederDone, bootVars, database, memory, serving, Move,
        RecordsAreTrue
  <1>16. CASE SeedAdmin(p) /\ ~GiveUp(p)
    BY <1>0, <1>16
    DEF SeedAdmin, SeederDone, bootVars, database, memory, serving, Move,
        RecordsAreTrue
  <1>17. CASE SeedersDone(p)
    BY <1>0, <1>17
    DEF SeedersDone, StartHooks, bootVars, database, memory, serving, Move,
        RecordsAreTrue
  <1>18. CASE WarmUp(p) /\ ~GiveUp(p)
    BY <1>0, <1>18
    DEF WarmUp, StartHooks, bootVars, database, memory, serving, Move,
        RecordsAreTrue
  <1>19. CASE Listen(p)
    BY <1>0, <1>19
    DEF Listen, StartHooks, bootVars, database, memory, serving, Move,
        RecordsAreTrue
  <1>20. ASSUME NEW r \in Request, Accept(p, r)
        PROVE  RecordsAreTrue'
    BY <1>0, <1>20
    DEF Accept, bootVars, database, memory, serving, Move, RecordsAreTrue
  <1>21. ASSUME NEW r \in Request, Finish(p, r)
        PROVE  RecordsAreTrue'
    BY <1>0, <1>21
    DEF Finish, bootVars, database, memory, serving, Move, RecordsAreTrue
  <1>22. CASE ChangePassword(p)
    BY <1>0, <1>22
    DEF ChangePassword, bootVars, database, memory, serving, Move,
        RecordsAreTrue
  <1>23. CASE Stop(p)
    BY <1>0, <1>23
    DEF Stop, StopHooks, bootVars, database, memory, serving, Move,
        RecordsAreTrue
  <1>24. CASE Drained(p)
    BY <1>0, <1>24
    DEF Drained, StopHooks, bootVars, database, memory, serving, Move,
        RecordsAreTrue
  <1>25. CASE Deadline(p)
    BY <1>0, <1>25
    DEF Deadline, StopHooks, bootVars, database, memory, serving, Move,
        RecordsAreTrue
  <1>26. CASE ClosePool(p)
    BY <1>0, <1>26
    DEF ClosePool, StopHooks, bootVars, database, memory, serving, Move,
        RecordsAreTrue
  <1>27. QED
    BY <1>0, <1>1, <1>2, <1>3, <1>4, <1>5, <1>6, <1>7, <1>8, <1>9, <1>10,
       <1>11, <1>12, <1>13, <1>14, <1>15, <1>16, <1>17, <1>18, <1>19, <1>20,
       <1>21, <1>22, <1>23, <1>24, <1>25, <1>26
    DEF Step, Proceeds, DatabaseHook, RunSeeders, Exit

LEMMA StepChosen ==
  ASSUME IInv, NEW p \in Process, Step(p)
  PROVE  ChosenPasswordStands'
  <1>0. TypeOK /\ ChosenPasswordStands
    BY DEF IInv
  <1>1. CASE GiveUp(p)
    BY <1>0, <1>1
    DEF GiveUp, Ended, Blank, bootVars, database, memory, serving, Move,
        ChosenPasswordStands
  <1>2. CASE Start(p)
    BY <1>0, <1>2
    DEF Start, StartHooks, bootVars, database, memory, serving, Move,
        ChosenPasswordStands
  <1>3. CASE Die(p)
    BY <1>0, <1>3
    DEF Die, Ended, Blank, bootVars, database, memory, serving, Move,
        ChosenPasswordStands
  <1>4. CASE CommitUnacknowledged(p)
    BY <1>0, <1>4
    DEF CommitUnacknowledged, Committed, Ended, Blank, bootVars, database,
        memory, serving, Move, ChosenPasswordStands
  <1>5. CASE Connect(p)
    BY <1>0, <1>5
    DEF Connect, bootVars, database, memory, serving, Move,
        ChosenPasswordStands
  <1>6. CASE AutoMigrate(p) /\ ~GiveUp(p)
    BY <1>0, <1>6
    DEF AutoMigrate, FindTable, CreateTable, bootVars, database, memory,
        serving, Move, ChosenPasswordStands
  <1>7. CASE Validate(p) /\ ~GiveUp(p)
    BY <1>0, <1>7
    DEF Validate, bootVars, database, memory, serving, Move,
        ChosenPasswordStands
  <1>8. CASE MigrateRecords(p) /\ ~GiveUp(p)
    BY <1>0, <1>8
    DEF MigrateRecords, FindTable, CreateTable, bootVars, database, memory,
        serving, Move, ChosenPasswordStands
  <1>9. CASE ReadVersions(p)
    BY <1>0, <1>9
    DEF ReadVersions, Onward, bootVars, database, memory, serving, Move,
        ChosenPasswordStands
  <1>10. CASE Migrate(p) /\ ~GiveUp(p)
    BY <1>0, <1>10
    DEF Migrate, bootVars, database, memory, serving, Move,
        ChosenPasswordStands
  <1>11. CASE Record(p) /\ ~GiveUp(p)
    BY <1>0, <1>11
    DEF Record, bootVars, database, memory, serving, Move,
        ChosenPasswordStands
  <1>12. CASE Commit(p)
    BY <1>0, <1>12
    DEF Commit, Committed, Onward, bootVars, database, memory, serving, Move,
        ChosenPasswordStands
  <1>13. CASE SeedRoles(p)
    BY <1>0, <1>13
    DEF SeedRoles, SeederDone, bootVars, database, memory, serving, Move,
        ChosenPasswordStands
  <1>14. CASE SeedPermissions(p)
    BY <1>0, <1>14
    DEF SeedPermissions, bootVars, database, memory, serving, Move,
        ChosenPasswordStands
  <1>15. CASE SeedGrants(p)
    BY <1>0, <1>15
    DEF SeedGrants, SeederDone, bootVars, database, memory, serving, Move,
        ChosenPasswordStands
  <1>16. CASE SeedAdmin(p) /\ ~GiveUp(p)
    BY <1>0, <1>16, BootAssumption
    DEF SeedAdmin, SeederDone, bootVars, database, memory, serving, Move,
        ChosenPasswordStands, Inserted, TypeOK
  <1>17. CASE SeedersDone(p)
    BY <1>0, <1>17
    DEF SeedersDone, StartHooks, bootVars, database, memory, serving, Move,
        ChosenPasswordStands
  <1>18. CASE WarmUp(p) /\ ~GiveUp(p)
    BY <1>0, <1>18
    DEF WarmUp, StartHooks, bootVars, database, memory, serving, Move,
        ChosenPasswordStands
  <1>19. CASE Listen(p)
    BY <1>0, <1>19
    DEF Listen, StartHooks, bootVars, database, memory, serving, Move,
        ChosenPasswordStands
  <1>20. ASSUME NEW r \in Request, Accept(p, r)
        PROVE  ChosenPasswordStands'
    BY <1>0, <1>20
    DEF Accept, bootVars, database, memory, serving, Move,
        ChosenPasswordStands
  <1>21. ASSUME NEW r \in Request, Finish(p, r)
        PROVE  ChosenPasswordStands'
    BY <1>0, <1>21
    DEF Finish, bootVars, database, memory, serving, Move,
        ChosenPasswordStands
  <1>22. CASE ChangePassword(p)
    BY <1>0, <1>22
    DEF ChangePassword, bootVars, database, memory, serving, Move,
        ChosenPasswordStands
  <1>23. CASE Stop(p)
    BY <1>0, <1>23
    DEF Stop, StopHooks, bootVars, database, memory, serving, Move,
        ChosenPasswordStands
  <1>24. CASE Drained(p)
    BY <1>0, <1>24
    DEF Drained, StopHooks, bootVars, database, memory, serving, Move,
        ChosenPasswordStands
  <1>25. CASE Deadline(p)
    BY <1>0, <1>25
    DEF Deadline, StopHooks, bootVars, database, memory, serving, Move,
        ChosenPasswordStands
  <1>26. CASE ClosePool(p)
    BY <1>0, <1>26
    DEF ClosePool, StopHooks, bootVars, database, memory, serving, Move,
        ChosenPasswordStands
  <1>27. QED
    BY <1>0, <1>1, <1>2, <1>3, <1>4, <1>5, <1>6, <1>7, <1>8, <1>9, <1>10,
       <1>11, <1>12, <1>13, <1>14, <1>15, <1>16, <1>17, <1>18, <1>19, <1>20,
       <1>21, <1>22, <1>23, <1>24, <1>25, <1>26
    DEF Step, Proceeds, DatabaseHook, RunSeeders, Exit

\* No new transaction holds a record, and no record is new.
NothingHeld ==
    /\ records' = records
    /\ \A q \in Process : at'[q] = "commit" => at[q] = "commit" /\ pending'[q] = pending[q]

LEMMA SoleKept ==
  ASSUME NEW q \in Process, \A x \in Process : Sole(x), NothingHeld
  PROVE  Sole(q)'
  BY DEF Sole, NothingHeld, Version

LEMMA StepSole ==
  ASSUME IInv, NEW p \in Process, NEW q \in Process, Step(p)
  PROVE  Sole(q)'
  <1>0. TypeOK /\ (\A x \in Process : Sole(x)) /\ Step(p)
    BY DEF IInv
  <1>1. CASE GiveUp(p)
    <2>1. NothingHeld
      BY <1>0, <1>1
      DEF GiveUp, Ended, Blank, bootVars, database, memory, serving, Move,
          NothingHeld, TypeOK
    <2>2. QED
      BY <1>0, <2>1, SoleKept
  <1>2. CASE Start(p)
    <2>1. NothingHeld
      BY <1>0, <1>2
      DEF Start, StartHooks, bootVars, database, memory, serving, Move,
          NothingHeld, TypeOK
    <2>2. QED
      BY <1>0, <2>1, SoleKept
  <1>3. CASE Die(p)
    <2>1. NothingHeld
      BY <1>0, <1>3
      DEF Die, Ended, Blank, bootVars, database, memory, serving, Move,
          NothingHeld, TypeOK
    <2>2. QED
      BY <1>0, <2>1, SoleKept
  <1>4. CASE CommitUnacknowledged(p)
    <2>1. at[p] = "commit" /\ at'[p] # "commit" /\ records' = records \union {Version(p)}
      BY <1>0, <1>4 DEF CommitUnacknowledged, Committed, Ended, Move, TypeOK
    <2>2. \A x \in Process \ {p} : at'[x] = at[x] /\ pending'[x] = pending[x]
      BY <1>0, OthersUntouched DEF Untouched
    <2>3. \A x \in Process \ {p} : Version(x)' = Version(x)
      BY <2>2 DEF Version
    <2>4. QED
      BY <1>0, <2>1, <2>2, <2>3 DEF Sole
  <1>5. CASE Connect(p)
    <2>1. NothingHeld
      BY <1>0, <1>5
      DEF Connect, bootVars, database, memory, serving, Move, NothingHeld,
          TypeOK
    <2>2. QED
      BY <1>0, <2>1, SoleKept
  <1>6. CASE AutoMigrate(p) /\ ~GiveUp(p)
    <2>1. NothingHeld
      BY <1>0, <1>6
      DEF AutoMigrate, FindTable, CreateTable, bootVars, database, memory,
          serving, Move, NothingHeld, TypeOK
    <2>2. QED
      BY <1>0, <2>1, SoleKept
  <1>7. CASE Validate(p) /\ ~GiveUp(p)
    <2>1. NothingHeld
      BY <1>0, <1>7
      DEF Validate, bootVars, database, memory, serving, Move, NothingHeld,
          TypeOK
    <2>2. QED
      BY <1>0, <2>1, SoleKept
  <1>8. CASE MigrateRecords(p) /\ ~GiveUp(p)
    <2>1. NothingHeld
      BY <1>0, <1>8
      DEF MigrateRecords, FindTable, CreateTable, bootVars, database, memory,
          serving, Move, NothingHeld, TypeOK
    <2>2. QED
      BY <1>0, <2>1, SoleKept
  <1>9. CASE ReadVersions(p)
    <2>1. NothingHeld
      BY <1>0, <1>9
      DEF ReadVersions, Onward, bootVars, database, memory, serving, Move,
          NothingHeld, TypeOK
    <2>2. QED
      BY <1>0, <2>1, SoleKept
  <1>10. CASE Migrate(p) /\ ~GiveUp(p)
    <2>1. NothingHeld
      BY <1>0, <1>10
      DEF Migrate, bootVars, database, memory, serving, Move, NothingHeld,
          TypeOK
    <2>2. QED
      BY <1>0, <2>1, SoleKept
  <1>11. CASE Record(p) /\ ~GiveUp(p)
    <2>1. /\ at[p] = "record" /\ ~Waits(p) /\ Version(p) \notin records
          /\ records' = records /\ pending' = pending
          /\ at' = [at EXCEPT ![p] = "commit"]
      BY <1>11 DEF Record, Unrecorded, Move, database, memory
    <2>2. \A x \in Process : Version(x)' = Version(x)
      BY <2>1 DEF Version
    <2>3. \A x \in Process \ {p} : at'[x] = at[x] /\ (at[x] = "commit" => Version(x) # Version(p))
      BY <1>0, <2>1 DEF Waits, TypeOK
    <2>4. QED
      BY <1>0, <2>1, <2>2, <2>3 DEF Sole, TypeOK
  <1>12. CASE Commit(p)
    <2>1. at[p] = "commit" /\ at'[p] # "commit" /\ records' = records \union {Version(p)}
      BY <1>0, <1>12 DEF Commit, Committed, Onward, Move, TypeOK
    <2>2. \A x \in Process \ {p} : at'[x] = at[x] /\ pending'[x] = pending[x]
      BY <1>0, OthersUntouched DEF Untouched
    <2>3. \A x \in Process \ {p} : Version(x)' = Version(x)
      BY <2>2 DEF Version
    <2>4. QED
      BY <1>0, <2>1, <2>2, <2>3 DEF Sole
  <1>13. CASE SeedRoles(p)
    <2>1. NothingHeld
      BY <1>0, <1>13
      DEF SeedRoles, SeederDone, bootVars, database, memory, serving, Move,
          NothingHeld, TypeOK
    <2>2. QED
      BY <1>0, <2>1, SoleKept
  <1>14. CASE SeedPermissions(p)
    <2>1. NothingHeld
      BY <1>0, <1>14
      DEF SeedPermissions, bootVars, database, memory, serving, Move,
          NothingHeld, TypeOK
    <2>2. QED
      BY <1>0, <2>1, SoleKept
  <1>15. CASE SeedGrants(p)
    <2>1. NothingHeld
      BY <1>0, <1>15
      DEF SeedGrants, SeederDone, bootVars, database, memory, serving, Move,
          NothingHeld, TypeOK
    <2>2. QED
      BY <1>0, <2>1, SoleKept
  <1>16. CASE SeedAdmin(p) /\ ~GiveUp(p)
    <2>1. NothingHeld
      BY <1>0, <1>16
      DEF SeedAdmin, SeederDone, bootVars, database, memory, serving, Move,
          NothingHeld, TypeOK
    <2>2. QED
      BY <1>0, <2>1, SoleKept
  <1>17. CASE SeedersDone(p)
    <2>1. NothingHeld
      BY <1>0, <1>17
      DEF SeedersDone, StartHooks, bootVars, database, memory, serving, Move,
          NothingHeld, TypeOK
    <2>2. QED
      BY <1>0, <2>1, SoleKept
  <1>18. CASE WarmUp(p) /\ ~GiveUp(p)
    <2>1. NothingHeld
      BY <1>0, <1>18
      DEF WarmUp, StartHooks, bootVars, database, memory, serving, Move,
          NothingHeld, TypeOK
    <2>2. QED
      BY <1>0, <2>1, SoleKept
  <1>19. CASE Listen(p)
    <2>1. NothingHeld
      BY <1>0, <1>19
      DEF Listen, StartHooks, bootVars, database, memory, serving, Move,
          NothingHeld, TypeOK
    <2>2. QED
      BY <1>0, <2>1, SoleKept
  <1>20. ASSUME NEW r \in Request, Accept(p, r)
        PROVE  Sole(q)'
    <2>1. NothingHeld
      BY <1>0, <1>20
      DEF Accept, bootVars, database, memory, serving, Move, NothingHeld, TypeOK
    <2>2. QED
      BY <1>0, <2>1, SoleKept
  <1>21. ASSUME NEW r \in Request, Finish(p, r)
        PROVE  Sole(q)'
    <2>1. NothingHeld
      BY <1>0, <1>21
      DEF Finish, bootVars, database, memory, serving, Move, NothingHeld, TypeOK
    <2>2. QED
      BY <1>0, <2>1, SoleKept
  <1>22. CASE ChangePassword(p)
    <2>1. NothingHeld
      BY <1>0, <1>22
      DEF ChangePassword, bootVars, database, memory, serving, Move,
          NothingHeld, TypeOK
    <2>2. QED
      BY <1>0, <2>1, SoleKept
  <1>23. CASE Stop(p)
    <2>1. NothingHeld
      BY <1>0, <1>23
      DEF Stop, StopHooks, bootVars, database, memory, serving, Move,
          NothingHeld, TypeOK
    <2>2. QED
      BY <1>0, <2>1, SoleKept
  <1>24. CASE Drained(p)
    <2>1. NothingHeld
      BY <1>0, <1>24
      DEF Drained, StopHooks, bootVars, database, memory, serving, Move,
          NothingHeld, TypeOK
    <2>2. QED
      BY <1>0, <2>1, SoleKept
  <1>25. CASE Deadline(p)
    <2>1. NothingHeld
      BY <1>0, <1>25
      DEF Deadline, StopHooks, bootVars, database, memory, serving, Move,
          NothingHeld, TypeOK
    <2>2. QED
      BY <1>0, <2>1, SoleKept
  <1>26. CASE ClosePool(p)
    <2>1. NothingHeld
      BY <1>0, <1>26
      DEF ClosePool, StopHooks, bootVars, database, memory, serving, Move,
          NothingHeld, TypeOK
    <2>2. QED
      BY <1>0, <2>1, SoleKept
  <1>27. QED
    BY <1>0, <1>1, <1>2, <1>3, <1>4, <1>5, <1>6, <1>7, <1>8, <1>9, <1>10,
       <1>11, <1>12, <1>13, <1>14, <1>15, <1>16, <1>17, <1>18, <1>19, <1>20,
       <1>21, <1>22, <1>23, <1>24, <1>25, <1>26
    DEF Step, Proceeds, DatabaseHook, RunSeeders, Exit

LEMMA LocalKept ==
  ASSUME NEW q \in Process, Local(q), Untouched(q)
  PROVE  Local(q)'
  BY DEF Local, Untouched, Tracked, Seeded, Drains

LEMMA StepLocal ==
  ASSUME IInv, NEW p \in Process, Step(p)
  PROVE  Local(p)'
  <1>0. TypeOK /\ Local(p)
    BY DEF IInv
  <1>1. CASE GiveUp(p)
    BY <1>0, <1>1
    DEF GiveUp, Ended, Blank, bootVars, database, memory, serving, Move,
        Local, Tracked, Seeded, Drains, Seeding, Started, Found, Checked,
        Migrating, Up, TypeOK
  <1>2. CASE Start(p)
    BY <1>0, <1>2
    DEF Start, StartHooks, bootVars, database, memory, serving, Move, Local,
        Tracked, Seeded, Drains, Seeding, Started, Found, Checked, Migrating,
        Up, TypeOK, Seeder
  <1>3. CASE Die(p)
    BY <1>0, <1>3
    DEF Die, Ended, Blank, bootVars, database, memory, serving, Move, Local,
        Tracked, Seeded, Drains, Seeding, Started, Found, Checked, Migrating,
        Up, TypeOK
  <1>4. CASE CommitUnacknowledged(p)
    BY <1>0, <1>4
    DEF CommitUnacknowledged, Committed, Ended, Blank, bootVars, database,
        memory, serving, Move, Local, Tracked, Seeded, Drains, Seeding,
        Started, Found, Checked, Migrating, Up, TypeOK
  <1>5. CASE Connect(p)
    BY <1>0, <1>5
    DEF Connect, bootVars, database, memory, serving, Move, Local, Tracked,
        Seeded, Drains, Seeding, Started, Found, Checked, Migrating, Up,
        TypeOK
  <1>6. CASE AutoMigrate(p) /\ ~GiveUp(p)
    BY <1>0, <1>6
    DEF AutoMigrate, FindTable, CreateTable, bootVars, database, memory,
        serving, Move, Local, Tracked, Seeded, Drains, Seeding, Started,
        Found, Checked, Migrating, Up, TypeOK
  <1>7. CASE Validate(p) /\ ~GiveUp(p)
    BY <1>0, <1>7
    DEF Validate, bootVars, database, memory, serving, Move, Local, Tracked,
        Seeded, Drains, Seeding, Started, Found, Checked, Migrating, Up,
        TypeOK
  <1>8. CASE MigrateRecords(p) /\ ~GiveUp(p)
    BY <1>0, <1>8
    DEF MigrateRecords, FindTable, CreateTable, bootVars, database, memory,
        serving, Move, Local, Tracked, Seeded, Drains, Seeding, Started,
        Found, Checked, Migrating, Up, TypeOK
  <1>9. CASE ReadVersions(p)
    <2> DEFINE missing == Missing(env[p].release, AppliedVersions)
    <2>1. /\ at[p] = "versions" /\ at' = [at EXCEPT ![p] = Onward(missing)]
          /\ pending' = [pending EXCEPT ![p] = missing]
          /\ UNCHANGED <<database, env, todo, registry, serving>>
      BY <1>9 DEF ReadVersions, Move
    <2>2. ValidateContiguous(env[p].release)
      BY <1>0, <2>1 DEF Local, Tracked, Checked
    <2>3. missing \subseteq env[p].release /\ env[p].release \subseteq records \union missing
      BY <2>2 DEF ValidateContiguous, Missing, AppliedVersions
    <2>4. at'[p] = Onward(missing) /\ pending'[p] = missing /\ env' = env /\ records' = records
      BY <1>0, <2>1 DEF TypeOK, database
    <2>5. at'[p] = IF missing = {} THEN "seeders" ELSE "migrate"
      BY <2>4 DEF Onward
    <2>6. Tracked(p)'
      <3> HIDE DEF missing
      <3>1. CASE missing = {}
        BY <2>2, <2>3, <2>4, <2>5, <3>1
        DEF Tracked, Checked, Found, Migrating, Seeding, Started, Up
      <3>2. CASE missing # {}
        BY <2>2, <2>3, <2>4, <2>5, <3>2
        DEF Tracked, Checked, Found, Migrating, Seeding, Started, Up
      <3>3. QED
        BY <3>1, <3>2
    <2>7. Seeded(p)' /\ Drains(p)'
      BY <1>0, <2>1, <2>4, <2>5
      DEF Local, Seeded, Drains, Started, Up, database, serving
    <2>8. QED
      BY <2>6, <2>7 DEF Local
  <1>10. CASE Migrate(p) /\ ~GiveUp(p)
    BY <1>0, <1>10
    DEF Migrate, bootVars, database, memory, serving, Move, Local, Tracked,
        Seeded, Drains, Seeding, Started, Found, Checked, Migrating, Up,
        TypeOK
  <1>11. CASE Record(p) /\ ~GiveUp(p)
    BY <1>0, <1>11
    DEF Record, bootVars, database, memory, serving, Move, Local, Tracked,
        Seeded, Drains, Seeding, Started, Found, Checked, Migrating, Up,
        TypeOK
  <1>12. CASE Commit(p)
    BY <1>0, <1>12
    DEF Commit, Committed, Onward, bootVars, database, memory, serving, Move,
        Local, Tracked, Seeded, Drains, Seeding, Started, Found, Checked,
        Migrating, Up, TypeOK
  <1>13. CASE SeedRoles(p)
    BY <1>0, <1>13
    DEF SeedRoles, SeederDone, bootVars, database, memory, serving, Move,
        Local, Tracked, Seeded, Drains, Seeding, Started, Found, Checked,
        Migrating, Up, TypeOK
  <1>14. CASE SeedPermissions(p)
    BY <1>0, <1>14
    DEF SeedPermissions, bootVars, database, memory, serving, Move, Local,
        Tracked, Seeded, Drains, Seeding, Started, Found, Checked, Migrating,
        Up, TypeOK
  <1>15. CASE SeedGrants(p)
    BY <1>0, <1>15
    DEF SeedGrants, SeederDone, bootVars, database, memory, serving, Move,
        Local, Tracked, Seeded, Drains, Seeding, Started, Found, Checked,
        Migrating, Up, TypeOK
  <1>16. CASE SeedAdmin(p) /\ ~GiveUp(p)
    BY <1>0, <1>16
    DEF SeedAdmin, SeederDone, bootVars, database, memory, serving, Move,
        Local, Tracked, Seeded, Drains, Seeding, Started, Found, Checked,
        Migrating, Up, TypeOK
  <1>17. CASE SeedersDone(p)
    BY <1>0, <1>17
    DEF SeedersDone, StartHooks, bootVars, database, memory, serving, Move,
        Local, Tracked, Seeded, Drains, Seeding, Started, Found, Checked,
        Migrating, Up, TypeOK, Seeder
  <1>18. CASE WarmUp(p) /\ ~GiveUp(p)
    <2>1. /\ at[p] = "roles" /\ at' = [at EXCEPT ![p] = "server"]
          /\ registry' = [registry EXCEPT ![p] = seeded]
          /\ UNCHANGED <<database, env, pending, todo, serving>>
      BY <1>18 DEF WarmUp, Move, StartHooks
    <2>2. at'[p] = "server" /\ registry'[p] = seeded
      BY <1>0, <2>1 DEF TypeOK
    <2>a. todo[p] = {}
      BY <1>0, <2>1 DEF Local, Seeded, Started
    <2>b. {"roles", "permissions", "grants"} \subseteq seeded
      BY <1>0, <2>1, <2>a DEF Local, Seeded
    <2>c. seeded \subseteq {"roles", "permissions", "grants"}
      BY <1>0 DEF TypeOK, Part
    <2>3. todo[p] = {} /\ seeded = Part
      BY <2>a, <2>b, <2>c DEF Part
    <2>4. Tracked(p)'
      BY <1>0, <2>1, <2>2
      DEF Local, Tracked, Checked, Found, Migrating, Seeding, Started, Up, database
    <2>5. Seeded(p)' /\ Drains(p)'
      BY <1>0, <2>1, <2>2, <2>3
      DEF Local, Seeded, Drains, Started, Up, database, serving
    <2>6. QED
      BY <2>4, <2>5 DEF Local
  <1>19. CASE Listen(p)
    BY <1>0, <1>19
    DEF Listen, StartHooks, bootVars, database, memory, serving, Move, Local,
        Tracked, Seeded, Drains, Seeding, Started, Found, Checked, Migrating,
        Up, TypeOK
  <1>20. ASSUME NEW r \in Request, Accept(p, r)
        PROVE  Local(p)'
    BY <1>0, <1>20
    DEF Accept, bootVars, database, memory, serving, Move, Local, Tracked,
        Seeded, Drains, Seeding, Started, Found, Checked, Migrating, Up,
        TypeOK
  <1>21. ASSUME NEW r \in Request, Finish(p, r)
        PROVE  Local(p)'
    BY <1>0, <1>21
    DEF Finish, bootVars, database, memory, serving, Move, Local, Tracked,
        Seeded, Drains, Seeding, Started, Found, Checked, Migrating, Up,
        TypeOK
  <1>22. CASE ChangePassword(p)
    BY <1>0, <1>22
    DEF ChangePassword, bootVars, database, memory, serving, Move, Local,
        Tracked, Seeded, Drains, Seeding, Started, Found, Checked, Migrating,
        Up, TypeOK
  <1>23. CASE Stop(p)
    BY <1>0, <1>23
    DEF Stop, StopHooks, bootVars, database, memory, serving, Move, Local,
        Tracked, Seeded, Drains, Seeding, Started, Found, Checked, Migrating,
        Up, TypeOK
  <1>24. CASE Drained(p)
    BY <1>0, <1>24
    DEF Drained, StopHooks, bootVars, database, memory, serving, Move, Local,
        Tracked, Seeded, Drains, Seeding, Started, Found, Checked, Migrating,
        Up, TypeOK
  <1>25. CASE Deadline(p)
    BY <1>0, <1>25
    DEF Deadline, StopHooks, bootVars, database, memory, serving, Move, Local,
        Tracked, Seeded, Drains, Seeding, Started, Found, Checked, Migrating,
        Up, TypeOK
  <1>26. CASE ClosePool(p)
    BY <1>0, <1>26
    DEF ClosePool, StopHooks, bootVars, database, memory, serving, Move,
        Local, Tracked, Seeded, Drains, Seeding, Started, Found, Checked,
        Migrating, Up, TypeOK
  <1>27. QED
    BY <1>0, <1>1, <1>2, <1>3, <1>4, <1>5, <1>6, <1>7, <1>8, <1>9, <1>10,
       <1>11, <1>12, <1>13, <1>14, <1>15, <1>16, <1>17, <1>18, <1>19, <1>20,
       <1>21, <1>22, <1>23, <1>24, <1>25, <1>26
    DEF Step, Proceeds, DatabaseHook, RunSeeders, Exit

LEMMA InitInv == Init => IInv
  <1> SUFFICES ASSUME Init
               PROVE  IInv
    OBVIOUS
  <1>1. TypeOK
    <2>1. tables \subseteq Table /\ records \subseteq Versions /\ seeded \subseteq Part
      BY DEF Init, Part
    <2>2. effects \in [Versions -> Nat]
      BY DEF Init
    <2>3. faults \in 0..MaxFaults
      BY BootAssumption DEF Init
    <2>4. env \in [Process -> [release: Release \union {{}},
                               password: AdminEnv \union {None}]]
      BY DEF Init, Blank
    <2>5. QED
      BY <2>1, <2>2, <2>3, <2>4 DEF Init, TypeOK
  <1>2. RecordsAreTrue
    BY DEF Init, RecordsAreTrue
  <1>3. \A p \in Process : Local(p) /\ Sole(p)
    BY DEF Init, Local, Tracked, Seeded, Drains, Seeding, Started, Found,
           Checked, Migrating, Up, Sole
  <1>4. QED
    BY <1>1, <1>2, <1>3 DEF IInv, Init, ChosenPasswordStands

LEMMA NextInv == IInv /\ [Next]_bootVars => IInv'
  <1> SUFFICES ASSUME IInv, [Next]_bootVars
               PROVE  IInv'
    OBVIOUS
  <1>1. CASE Next
    <2>1. PICK p \in Process : Step(p)
      BY <1>1 DEF Next
    <2>2. TypeOK' /\ RecordsAreTrue' /\ ChosenPasswordStands'
      BY <2>1, StepType, StepRecords, StepChosen
    <2>3. ASSUME NEW q \in Process
          PROVE  Local(q)'
      <3>1. CASE q = p
        BY <2>1, <3>1, StepLocal
      <3>2. CASE q # p
        BY <2>1, <3>2, OthersUntouched, LocalKept DEF IInv
      <3>3. QED
        BY <3>1, <3>2
    <2>4. \A q \in Process : Sole(q)'
      BY <2>1, StepSole
    <2>5. QED
      BY <2>2, <2>3, <2>4 DEF IInv
  <1>2. CASE UNCHANGED bootVars
    BY <1>2
    DEF bootVars, database, memory, serving, IInv, TypeOK, RecordsAreTrue, Local,
        Tracked, Seeded, Drains, Sole, Version, ChosenPasswordStands
  <1>3. QED
    BY <1>1, <1>2

\* What the theorems below follow from: IInv is an invariant of every behaviour.
THEOREM Invariance == Spec => []IInv
  BY InitInv, NextInv, PTL DEF Spec

\* Every variable of Boot keeps its type, for any processes and releases.
THEOREM BootTypeCorrect == Spec => []TypeOK
  <1>1. IInv => TypeOK
    BY DEF IInv
  <1>2. QED
    BY <1>1, Invariance, PTL

\* migration_records is right however many processes apply the migrations, and
\* wherever they die: applyOne's transaction and the key of the table.
THEOREM RecordsTrue == Spec => []RecordsAreTrue
  <1>1. IInv => RecordsAreTrue
    BY DEF IInv
  <1>2. QED
    BY <1>1, Invariance, PTL

\* A process that answers has migrated, seeded and warmed up, and was given no
\* ADMIN_* that a registration would refuse: the hook order, and what fails it.
THEOREM ServesStarted == Spec => []ServesWhatItStarted
  <1>1. IInv => ServesWhatItStarted
    <2> SUFFICES ASSUME IInv, NEW p \in Process, at[p] \in Up
                 PROVE  /\ env[p].release \subseteq records
                        /\ Part \subseteq seeded
                        /\ registry[p] = Part
                        /\ env[p].password # Invalid
      BY DEF ServesWhatItStarted
    <2>1. Tracked(p) /\ Seeded(p)
      BY DEF IInv, Local
    <2>2. env[p].release \subseteq records
      BY <2>1 DEF Tracked, Found, Seeding, Started
    <2>3. at[p] \in Started \ {"roles"} /\ at[p] # "down"
      BY DEF Started, Up
    <2>4. QED
      BY <2>1, <2>2, <2>3 DEF Seeded, Part
  <1>2. QED
    BY <1>1, Invariance, PTL

\* No restart undoes the administrator's choice: the seeder's DO NOTHING.
THEOREM ChosenStands == Spec => []ChosenPasswordStands
  <1>1. IInv => ChosenPasswordStands
    BY DEF IInv
  <1>2. QED
    BY <1>1, Invariance, PTL

\* The pool is closed under a request only after the shutdown deadline.
THEOREM PoolOutlives == Spec => []PoolOutlivesRequests
  <1>1. IInv => PoolOutlivesRequests
    BY DEF IInv, TypeOK, Local, Drains, PoolOutlivesRequests
  <1>2. QED
    BY <1>1, Invariance, PTL

-----------------------------------------------------------------------------

\* A transaction that may commit makes the lowest change still missing.
LEMMA CommitIsApply ==
  ASSUME IInv, NEW p \in Process, at[p] = "commit", Committed(Version(p))
  PROVE  Log!Next
  <1> DEFINE v == Version(p)
  <1>1. at[p] \in Migrating
    BY DEF Migrating
  <1>2. v \in pending[p] /\ v \in Versions /\ \A w \in pending[p] : v <= w
    BY <1>1, VersionOf
  <1>3. v \notin records
    BY DEF IInv, Sole
  <1>4. effects[v] = 0
    BY <1>2, <1>3 DEF IInv, RecordsAreTrue
  <1>5. ASSUME NEW w \in Versions, w < v
        PROVE  effects[w] = 1
    <2>1. /\ env[p].release = 1..Cardinality(env[p].release)
          /\ pending[p] \subseteq env[p].release
          /\ env[p].release \subseteq records \union pending[p]
      BY <1>1 DEF IInv, Local, Tracked, Checked, Found, ValidateContiguous
    <2>2. IsFiniteSet(env[p].release)
      BY BootAssumption, FS_EmptySet DEF IInv, TypeOK
    <2>3. Cardinality(env[p].release) \in Nat
      BY <2>2, FS_CardinalityType
    <2>0. \A u \in Versions : u \in Nat /\ u >= 1
      BY BootAssumption
    <2>4. w \in Nat /\ w >= 1 /\ v \in Nat
      <3> HIDE DEF v
      <3>1. QED
        BY <1>2, <2>0
    <2>5. v \in 1..Cardinality(env[p].release)
      BY <1>2, <2>1
    <2> HIDE DEF v
    <2>6. w \in 1..Cardinality(env[p].release)
      BY <1>5, <2>3, <2>4, <2>5
    <2>7. w \in env[p].release
      BY <2>1, <2>6
    <2>8. w \notin pending[p]
      BY <1>2, <1>5, <2>4
    <2>9. w \in records
      BY <2>1, <2>7, <2>8
    <2>10. QED
      BY <1>5, <2>9 DEF IInv, RecordsAreTrue
  <1>6. effects' = [effects EXCEPT ![v] = 1]
    BY <1>4 DEF Committed
  <1> HIDE DEF v
  <1>7. Log!Apply(v)
    BY <1>4, <1>5, <1>6 DEF Log!Apply
  <1>8. QED
    BY <1>2, <1>7 DEF Log!Next

\* Boot implements MigrationLog, for any processes, releases and faults: each
\* change is made once, and the lowest missing one first.
THEOREM InOrder == Spec => MigrationsInOrder
  <1>1. Init => Log!Init
    BY DEF Init, Log!Init
  <1>2. IInv /\ [Next]_bootVars => [Log!Next]_effects
    <2> SUFFICES ASSUME IInv, Next
                 PROVE  Log!Next \/ UNCHANGED effects
      BY DEF bootVars, database
    <2>1. PICK p \in Process : Step(p)
      BY DEF Next
    <2>2. CASE Commit(p) \/ CommitUnacknowledged(p)
      BY <2>1, <2>2, CommitIsApply DEF Commit, CommitUnacknowledged, Move
    <2>3. CASE ~(Commit(p) \/ CommitUnacknowledged(p))
      BY <2>1, <2>3
      DEF Step, Proceeds, DatabaseHook, RunSeeders, Start, Die, Connect,
          AutoMigrate, FindTable, CreateTable, Validate, MigrateRecords,
          ReadVersions, Migrate, Record, SeedRoles, SeedPermissions, SeedGrants,
          SeedAdmin, SeedersDone, WarmUp, Listen, Accept, Finish, ChangePassword,
          Stop, Drained, Deadline, ClosePool, Exit, GiveUp, database
    <2>4. QED
      BY <2>2, <2>3
  <1>3. QED
    BY <1>1, <1>2, Invariance, PTL DEF Spec, MigrationsInOrder, Log!Spec
=============================================================================
