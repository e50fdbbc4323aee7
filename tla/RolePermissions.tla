-------------------------- MODULE RolePermissions ---------------------------
(***************************************************************************)
(* What each role grants: the role_permissions table with the version that *)
(* counts its changes, the registry that answers for it in memory, and the *)
(* tokens that carry a copy of the registry's answer.                      *)
(*                                                                         *)
(* A change is one database transaction at READ COMMITTED followed by a    *)
(* write to the registry; the two are not ordered across requests.         *)
(***************************************************************************)
EXTENDS Naturals, FiniteSets

CONSTANTS
    Role,           \* the seeded roles; none is ever created or deleted
    SuperAdmin,     \* the roles at level 1
    Slug,           \* the slugs a request may name
    Catalogue,      \* the slugs that are permissions
    InitialGrants,  \* what each role starts with: InitialGrants[r]
    Call,           \* PUT /roles/:id/permissions requests, each served once
    Login,          \* sign-ins, each issuing at most one token
    Faults,         \* what may go wrong: see FaultKind
    MaxBoots,       \* how many times the process starts
    None            \* no role

Change == {"delete", "deleting", "insert", "bump", "commit"}  \* the transaction

Working == Change \union {"publish"}

Answered == {"ok", "refused", "failed", "lost"}

\* write_fails, ack_lost, crash: as in Accounts; ack_lost is of the COMMIT.
FaultKind == {"write_fails", "ack_lost", "crash"}

\* A row of role_permissions, told apart by who inserted it: a call, or the
\* seeder at a boot (0: before the history that is modelled).
Tuple == [slug: Catalogue, by: Call \union (0..MaxBoots)]

\* tuples is what a DELETE has seen, then what it deleted. version is
\* perm_version: as first read, then as bumped; 0 once a transaction is gone.
CallState == [pc: {"idle"} \union Working \union Answered, role: Role \union {None},
              want: SUBSET Slug, tuples: SUBSET Tuple, version: Nat]

LoginState == [pc: {"idle", "resolving", "issued", "lost"}, role: Role \union {None},
               perms: SUBSET Slug, version: Nat]

ASSUME RolesAssumption ==
    /\ SuperAdmin \subseteq Role
    /\ Catalogue \subseteq Slug
    /\ InitialGrants \in [Role -> SUBSET Catalogue]
    /\ Faults \subseteq FaultKind
    /\ MaxBoots \in Nat \ {0}
    /\ Call \intersect (0..MaxBoots) = {}
    /\ None \notin Role

VARIABLES
    grants,    \* role_permissions, as committed
    version,   \* roles.perm_version, as committed
    registry,  \* registry[r]: the permissions and version held in memory
    call,      \* the changes in progress, and the answers given
    token,     \* the sign-ins in progress, and the tokens issued
    up,        \* whether the process has warmed up and serves requests
    boots      \* how many times it has started

vars == <<grants, version, registry, call, token, up, boots>>

Slugs(g) == {t.slug : t \in g}

Idle == [pc |-> "idle", role |-> None, want |-> {}, tuples |-> {}, version |-> 0]

NoToken == [pc |-> "idle", role |-> None, perms |-> {}, version |-> 0]

\* A registry that knows no role: no permissions, version 0.
Empty == [r \in Role |-> [perms |-> {}, version |-> 0]]

Snapshot(g) == [r \in Role |-> [perms |-> Slugs(g[r]), version |-> version[r]]]

-----------------------------------------------------------------------------
(* Transactions in progress.                                               *)

InFlight(c) == call[c].pc \in Working

Busy(r) ==
    \/ \E c \in Call : InFlight(c) /\ call[c].role = r
    \/ \E s \in Login : token[s].pc = "resolving" /\ token[s].role = r

At(c, pc) == up /\ call[c].pc = pc

Others(c) == {d \in Call \ {c} : call[d].role = call[c].role}

\* Rows c's transaction has deleted or inserted and not committed.
Deleted(c) == IF call[c].pc \in {"insert", "bump", "commit"} THEN call[c].tuples ELSE {}

NewRows(c) == [slug: call[c].want \intersect Catalogue, by: {c}]

Inserted(c) == IF call[c].pc \in {"bump", "commit"} THEN NewRows(c) ELSE {}

Goto(c, pc) == call' = [call EXCEPT ![c].pc = pc]

\* The transaction of c is rolled back and its caller answered.
RollBack(c, pc) ==
    call' = [call EXCEPT ![c].pc = pc, ![c].tuples = {}, ![c].version = 0]

-----------------------------------------------------------------------------
(* UpdatePermissions.                                                      *)

\* Mutant: the slugs that are not permissions are dropped, not refused.
SomeKnown(want) == TRUE

AllKnown(want) == want \subseteq Catalogue

UpdatePermissions(c, r, want) ==
    /\ up
    /\ call[c].pc = "idle"
    /\ LET proceeds == r \notin SuperAdmin /\ AllKnown(want)
       IN call' = [call EXCEPT ![c] =
            [pc |-> IF proceeds THEN "delete" ELSE "refused", role |-> r,
             want |-> want, tuples |-> {}, version |-> IF proceeds THEN version[r] ELSE 0]]
    /\ UNCHANGED <<grants, version, registry, token, up, boots>>

\* Mutant: the new set is added to the old one.
DeletesNothing(c) == {}

\* DELETE WHERE role_id = ?: the rows committed when the statement starts.
Deletes(c) == grants[call[c].role]

StartDelete(c) ==
    /\ At(c, "delete")
    /\ call' = [call EXCEPT ![c].pc = "deleting", ![c].tuples = Deletes(c)]
    /\ UNCHANGED <<grants, version, registry, token, up, boots>>

\* It waits for a transaction that has deleted one of them already, and skips
\* those that are gone by then. Rows committed meanwhile it does not see.
FinishDelete(c) ==
    /\ At(c, "deleting")
    /\ \A d \in Others(c) : Deleted(d) \intersect call[c].tuples = {}
    /\ call' = [call EXCEPT ![c].pc = "insert",
                            ![c].tuples = @ \intersect grants[call[c].role]]
    /\ UNCHANGED <<grants, version, registry, token, up, boots>>

\* The insert waits while another transaction's row with one of its keys is
\* undecided; a row that is there to stay is a duplicate key.
InsertGrants(c) ==
    /\ At(c, "insert")
    /\ LET keys == Slugs(NewRows(c))
       IN /\ \A d \in Others(c) : Slugs(Deleted(d) \union Inserted(d)) \intersect keys = {}
          /\ IF Slugs(grants[call[c].role] \ Deleted(c)) \intersect keys = {}
               THEN Goto(c, "bump")
               ELSE RollBack(c, "failed")
    /\ UNCHANGED <<grants, version, registry, token, up, boots>>

\* Mutant: the version is incremented in memory, from the role read earlier.
ReadVersion(c) == call[c].version + 1

\* SET perm_version = perm_version + 1.
NextVersion(c) == version[call[c].role] + 1

\* The update waits for the row lock of another transaction that bumped.
BumpVersion(c) ==
    /\ At(c, "bump")
    /\ \A d \in Others(c) : call[d].pc # "commit"
    /\ call' = [call EXCEPT ![c].pc = "commit", ![c].version = NextVersion(c)]
    /\ UNCHANGED <<grants, version, registry, token, up, boots>>

CommitChange(c) ==
    /\ At(c, "commit")
    /\ LET r == call[c].role
       IN /\ grants' = [grants EXCEPT ![r] = (@ \ Deleted(c)) \union Inserted(c)]
          /\ version' = [version EXCEPT ![r] = call[c].version]
    /\ \E pc \in {"publish"} \union (IF "ack_lost" \in Faults THEN {"failed"} ELSE {}) :
        call' = [call EXCEPT ![c].pc = pc, ![c].tuples = {}]
    /\ UNCHANGED <<registry, token, up, boots>>

\* Mutant: the version published is the one the role had when it was read.
OneBehind(c) == [perms |-> call[c].want, version |-> call[c].version - 1]

\* Mutant: the grants change and the version in memory does not.
SameVersion(c) == [perms |-> call[c].want, version |-> registry[call[c].role].version]

\* SetRole.
Published(c) == [perms |-> call[c].want, version |-> call[c].version]

PublishRole(c) ==
    /\ At(c, "publish")
    /\ registry' = [registry EXCEPT ![call[c].role] = Published(c)]
    /\ Goto(c, "ok")
    /\ UNCHANGED <<grants, version, token, up, boots>>

-----------------------------------------------------------------------------
(* A sign-in copies the registry's answer into a token: the permissions    *)
(* first, then, under a lock taken anew, the version.                      *)

ResolvePermissions(s, r) ==
    /\ up
    /\ token[s].pc = "idle"
    /\ token' = [token EXCEPT ![s] = [pc |-> "resolving", role |-> r,
                                      perms |-> registry[r].perms, version |-> 0]]
    /\ UNCHANGED <<grants, version, registry, call, up, boots>>

ResolveVersion(s) ==
    /\ up
    /\ token[s].pc = "resolving"
    /\ token' = [token EXCEPT ![s].pc = "issued",
                              ![s].version = registry[token[s].role].version]
    /\ UNCHANGED <<grants, version, registry, call, up, boots>>

\* The token guard, for an account that is not suspended.
Accepts(s) ==
    up /\ token[s].pc = "issued" /\ registry[token[s].role].version = token[s].version

-----------------------------------------------------------------------------
(* Faults and restarts.                                                    *)

StatementFails(c) ==
    /\ "write_fails" \in Faults
    /\ up
    /\ call[c].pc \in Change
    /\ RollBack(c, "failed")
    /\ UNCHANGED <<grants, version, registry, token, up, boots>>

\* The process dies; the database rolls back what was not committed.
Crash ==
    /\ "crash" \in Faults
    /\ up
    /\ boots < MaxBoots
    /\ up' = FALSE
    /\ registry' = Empty
    /\ call' = [c \in Call |->
            IF ~InFlight(c) THEN call[c]
            ELSE [call[c] EXCEPT !.pc = "lost", !.tuples = {},
                    !.version = IF call[c].pc = "publish" THEN @ ELSE 0]]
    /\ token' = [s \in Login |->
            IF token[s].pc = "resolving" THEN [token[s] EXCEPT !.pc = "lost"] ELSE token[s]]
    /\ UNCHANGED <<grants, version, boots>>

\* The seeder inserts the initial grants a role does not have.
Seeded(r) ==
    grants[r] \union [slug: InitialGrants[r] \ Slugs(grants[r]), by: {boots + 1}]

\* The boot sequence: seed, and then warm the registry up from the tables.
Boot ==
    /\ ~up
    /\ up' = TRUE
    /\ boots' = boots + 1
    /\ grants' = [r \in Role |-> Seeded(r)]
    /\ registry' = Snapshot(grants')
    /\ UNCHANGED <<version, call, token>>

\* Nothing is in flight, and nothing need arrive.
Quiet ==
    /\ up
    /\ \A r \in Role : ~Busy(r)
    /\ UNCHANGED vars

-----------------------------------------------------------------------------
\* Some history of answered changes lies behind the first state: any grants.
Init ==
    /\ grants \in [Role -> SUBSET [slug: Catalogue, by: {0}]]
    /\ version = [r \in Role |-> 1]
    /\ registry = Snapshot(grants)
    /\ call = [c \in Call |-> Idle]
    /\ token = [s \in Login |-> NoToken]
    /\ up = TRUE
    /\ boots = 1

Step(c) ==
    \/ StartDelete(c) \/ FinishDelete(c) \/ InsertGrants(c) \/ BumpVersion(c)
    \/ CommitChange(c) \/ PublishRole(c)

Next ==
    \/ \E c \in Call :
        \/ \E r \in Role, want \in SUBSET Slug : UpdatePermissions(c, r, want)
        \/ Step(c)
        \/ StatementFails(c)
    \/ \E s \in Login : (\E r \in Role : ResolvePermissions(s, r)) \/ ResolveVersion(s)
    \/ Crash \/ Boot \/ Quiet

\* A handler's goroutine runs on, a lock that is free is granted, and a process
\* that is down is restarted.
Fairness ==
    /\ \A c \in Call : WF_vars(Step(c))
    /\ \A s \in Login : WF_vars(ResolveVersion(s))
    /\ WF_vars(Boot)

Spec == Init /\ [][Next]_vars /\ Fairness

-----------------------------------------------------------------------------
(* Properties.                                                             *)

\* Only permissions are ever granted, in the table, in memory and in tokens.
TypeOK ==
    /\ grants \in [Role -> SUBSET Tuple]
    /\ version \in [Role -> Nat]
    /\ registry \in [Role -> [perms: SUBSET Catalogue, version: Nat]]
    /\ call \in [Call -> CallState]
    /\ token \in [Login -> LoginState]
    /\ up \in BOOLEAN
    /\ boots \in 1..MaxBoots

\* c's change is in the table, whatever its caller has been told.
Committed(c) == call[c].version # 0 /\ call[c].pc \in {"publish"} \union Answered

\* No two changes of a role share a version, so a token's version says which
\* change it was issued after: the reason the bump is an increment in SQL.
VersionsDistinct ==
    \A c \in Call : \A d \in Others(c) :
        Committed(c) /\ Committed(d) => call[c].version # call[d].version

\* Within one process, a token that has gone stale is never accepted again, in
\* whatever order concurrent changes reach the registry.
StaleStaysStale ==
    [][\A s \in Login :
        (up /\ token[s].pc = "issued" /\ ~Accepts(s) /\ up') => ~Accepts(s)']_vars

\* "Sending the whole set makes the last write obviously the winner": the table
\* holds what the change with the current version asked for.
LastWriteWins ==
    \A c \in Call :
        Committed(c) /\ call[c].version = version[call[c].role] =>
            Slugs(grants[call[c].role]) = call[c].want

\* Once a change has been answered, no token with an earlier version is
\* accepted, even after a restart.
OldVersionsRefused ==
    \A c \in Call, s \in Login :
        (call[c].pc = "ok" /\ token[s].role = call[c].role
            /\ token[s].version < call[c].version) => ~Accepts(s)

\* "A permission an administrator has revoked is not silently restored on the
\* next restart."
RevocationsSurvive ==
    \A c \in Call :
        Committed(c) /\ call[c].version = version[call[c].role] =>
            Slugs(grants[call[c].role]) \subseteq call[c].want

\* A committed change comes to govern which tokens are accepted: its own publish
\* or the next warm-up brings the registry to its version or a later one.
CommittedChangeTakesEffect ==
    \A c \in Call, r \in Role : \A v \in 2..Cardinality(Call) + 1 :
        (call[c].pc = "publish" /\ call[c].role = r /\ call[c].version = v)
            ~> (up /\ registry[r].version >= v)

=============================================================================
