----------------------- MODULE RolePermissionsHistory ------------------------
(***************************************************************************)
(* RolePermissions with history variables. They record how changes,        *)
(* sign-ins and boots crossed each other and never restrain a step, so     *)
(* what overlapping changes do and do not guarantee can be said without    *)
(* assuming that they do not overlap.                                      *)
(***************************************************************************)
EXTENDS RolePermissions

VARIABLES
    earlier,      \* earlier[c]: the rows of its role that were there when call c came
    crossed,      \* roles whose changes may have reached the registry out of order
    unannounced,  \* roles with a committed change that nobody will publish
    mixed,        \* roles whose table, since the process started, holds more than
                  \* the last change asked for
    doubtful      \* sign-ins whose token may carry another version's permissions

history == <<earlier, crossed, unannounced, mixed, doubtful>>

hvars == <<grants, version, registry, call, token, up, boots,
           earlier, crossed, unannounced, mixed, doubtful>>

-----------------------------------------------------------------------------

Publishing(r) == {c \in Call : call[c].pc = "publish" /\ call[c].role = r}

\* A request that is going to change something has arrived.
RecordArrival(c) ==
    /\ earlier' = [earlier EXCEPT ![c] = IF call'[c].pc = "delete" THEN grants[call'[c].role]
                                                                   ELSE {}]
    /\ UNCHANGED <<crossed, unannounced, mixed, doubtful>>

RecordCommit(c) ==
    LET r == call[c].role
    IN /\ crossed' = IF Publishing(r) # {} THEN crossed \union {r} ELSE crossed
       /\ unannounced' = IF call'[c].pc # "publish" THEN unannounced \union {r} ELSE unannounced
       /\ mixed' = IF Slugs(grants'[r]) = call[c].want THEN mixed \ {r} ELSE mixed \union {r}
       /\ UNCHANGED <<earlier, doubtful>>

\* The publication of c leaves the registry at the table's version, and no other
\* publication to come.
Settles(c) == Publishing(call[c].role) = {c} /\ call[c].version = version[call[c].role]

RecordPublication(c) ==
    LET r == call[c].role
    IN /\ crossed' = IF Settles(c) THEN crossed \ {r} ELSE crossed
       /\ unannounced' = IF Settles(c) THEN unannounced \ {r} ELSE unannounced
       /\ doubtful' = doubtful \union
                {s \in Login : token[s].pc = "resolving" /\ token[s].role = r}
       /\ UNCHANGED <<earlier, mixed>>

\* The roles whose grants are not, after this boot, what they were when tokens
\* of their current version were issued.
Regranted == mixed \union {r \in Role : Seeded(r) # grants[r]}

RecordBoot ==
    /\ crossed' = {} /\ unannounced' = {} /\ mixed' = {}
    /\ doubtful' = doubtful \union
                {s \in Login : token[s].pc = "issued" /\ token[s].role \in Regranted}
    /\ UNCHANGED earlier

HInit ==
    /\ Init
    /\ earlier = [c \in Call |-> {}]
    /\ crossed = {} /\ unannounced = {} /\ mixed = {} /\ doubtful = {}

\* The steps that concern one request or sign-in and nobody else.
Alone ==
    \/ \E c \in Call : \/ StartDelete(c) \/ FinishDelete(c) \/ InsertGrants(c) \/ BumpVersion(c)
                       \/ StatementFails(c)
    \/ \E s \in Login : (\E r \in Role : ResolvePermissions(s, r)) \/ ResolveVersion(s)
    \/ Quiet

HNext ==
    \/ \E c \in Call :
        \/ \E r \in Role, want \in SUBSET Slug :
                UpdatePermissions(c, r, want) /\ RecordArrival(c)
        \/ CommitChange(c) /\ RecordCommit(c)
        \/ PublishRole(c) /\ RecordPublication(c)
    \/ Alone /\ UNCHANGED history
    \/ Crash /\ UNCHANGED history
    \/ Boot /\ RecordBoot

HSpec == HInit /\ [][HNext]_hvars /\ Fairness

-----------------------------------------------------------------------------
(* Properties.                                                             *)

\* A replacement replaces: once it is committed, none of the rows that were there
\* when its request arrived comes back, and while it is the role's last change
\* its own rows are there. What it may leave are rows it never saw: those of
\* changes that overlapped it, and those a later boot seeds.
ReplacementStands ==
    \A c \in Call :
        Committed(c) =>
            /\ earlier[c] \intersect grants[call[c].role] = {}
            /\ call[c].version = version[call[c].role] =>
                    NewRows(c) \subseteq grants[call[c].role]

\* At rest the registry has the table's version, unless a change was committed
\* behind another one's publication or under the eyes of nobody; and whenever it
\* has the table's version it has the table's permissions, unless overlapping
\* changes were merged. The next change that is served alone, and every warm-up,
\* mend it.
RegistryFollowsTable ==
    \A r \in Role : up =>
        /\ ~Busy(r) /\ r \notin crossed \union unannounced =>
                registry[r].version = version[r]
        /\ registry[r].version = version[r] /\ r \notin mixed =>
                registry[r].perms = Slugs(grants[r])

\* Once a change has been answered, no token with an earlier version is accepted,
\* even after a restart, unless another change was committed before it was
\* published.
AnsweredChangeGoverns ==
    \A c \in Call, s \in Login :
        (/\ call[c].pc = "ok" /\ token[s].role = call[c].role
         /\ token[s].version < call[c].version
         /\ call[c].role \notin crossed) => ~Accepts(s)

\* A token that passes the guard carries the permissions that the registry has:
\* comparing versions is comparing grants. Not so of a token for which the role
\* was published between the two reads, or whose role a boot gave other grants
\* under the version it had.
AcceptedTokensAreCurrent ==
    \A s \in Login :
        Accepts(s) /\ s \notin doubtful => token[s].perms = registry[token[s].role].perms

=============================================================================
