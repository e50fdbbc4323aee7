----------------------- MODULE RolePermissionsProofs ------------------------
(***************************************************************************)
(* Proofs about RolePermissions, for any roles, requests and sign-ins, any *)
(* faults and any interleaving: first of the service by itself, then, with *)
(* the history variables, of what overlapping changes leave behind.        *)
(***************************************************************************)
EXTENDS RolePermissionsHistory, TLAPS

CallSound(c) ==
    /\ call[c].pc # "idle" => call[c].role \in Role
    /\ InFlight(c) => up /\ call[c].want \subseteq Catalogue
    /\ call[c].pc = "commit" => call[c].version = version[call[c].role] + 1
    /\ call[c].pc = "publish" => Committed(c)
    /\ Committed(c) => call[c].version <= version[call[c].role]

TokenSound(s) ==
    /\ token[s].pc # "idle" => token[s].role \in Role
    /\ token[s].pc = "resolving" => up
    /\ token[s].pc = "issued" => token[s].version <= version[token[s].role]

\* One transaction at a time holds a role's row lock.
OneLockHolder ==
    \A c \in Call : \A d \in Others(c) : ~(call[c].pc = "commit" /\ call[d].pc = "commit")

\* A version that is committed and still to be published is known to nobody:
\* not to the registry, and not to any token.
Unpublished(c) ==
    call[c].pc = "publish" =>
        /\ registry[call[c].role].version # call[c].version
        /\ \A s \in Login :
            token[s].pc = "issued" /\ token[s].role = call[c].role
                => token[s].version # call[c].version

\* The inductive invariant. VersionsDistinct needs the versions to be bounded
\* by the table's and the lock to be exclusive; that a stale token stays stale
\* needs Unpublished, and Unpublished needs VersionsDistinct.
IInv ==
    /\ TypeOK
    /\ ~up => boots < MaxBoots
    /\ \A r \in Role : registry[r].version <= version[r]
    /\ \A c \in Call : CallSound(c)
    /\ \A s \in Login : TokenSound(s)
    /\ OneLockHolder
    /\ VersionsDistinct
    /\ \A c \in Call : Unpublished(c)

-----------------------------------------------------------------------------

LEMMA SlugsTyped ==
    ASSUME NEW g \in SUBSET Tuple
    PROVE  Slugs(g) \subseteq Catalogue
    BY DEF Slugs, Tuple

LEMMA SnapshotTyped ==
    ASSUME NEW g \in [Role -> SUBSET Tuple], version \in [Role -> Nat]
    PROVE  /\ Snapshot(g) \in [Role -> [perms: SUBSET Catalogue, version: Nat]]
           /\ \A r \in Role : Snapshot(g)[r].version = version[r]
    BY SlugsTyped DEF Snapshot

LEMMA NewRowsTyped ==
    ASSUME NEW c \in Call
    PROVE  NewRows(c) \subseteq Tuple
    BY DEF NewRows, Tuple

-----------------------------------------------------------------------------

\* IInv holds of every initial state.
THEOREM InitInvariant == Init => IInv
<1> SUFFICES ASSUME Init PROVE IInv
    OBVIOUS
<1>1. grants \in [Role -> SUBSET Tuple] /\ version \in [Role -> Nat]
    <2>1. [slug: Catalogue, by: {0}] \subseteq Tuple
        BY RolesAssumption DEF Tuple
    <2> QED
        BY <2>1 DEF Init
<1>2. TypeOK
    <2>1. Idle \in CallState /\ NoToken \in LoginState
        BY DEF Idle, NoToken, CallState, LoginState
    <2>2. boots \in 1..MaxBoots
        BY RolesAssumption DEF Init
    <2> QED
        BY <1>1, <2>1, <2>2, SnapshotTyped DEF Init, TypeOK
<1>3. \A r \in Role : registry[r].version <= version[r]
    BY <1>1, SnapshotTyped DEF Init
<1>4. \A c \in Call : call[c].pc = "idle"
    BY DEF Init, Idle
<1>5. \A s \in Login : token[s].pc = "idle"
    BY DEF Init, NoToken
<1> QED
    BY <1>2, <1>3, <1>4, <1>5
    DEF Init, IInv, CallSound, TokenSound, OneLockHolder, VersionsDistinct, Unpublished,
        InFlight, Working, Change, Committed, Answered, Others

\* A request moves through a step that commits nothing and publishes nothing.
LEMMA OneCallMoves ==
    ASSUME IInv, NEW c \in Call, UNCHANGED <<grants, version, registry, token, up, boots>>,
           call' \in [Call -> CallState],
           \A d \in Call \ {c} : call'[d] = call[d],
           call[c].pc # "idle" => call'[c].role = call[c].role,
           call'[c].pc # "publish", CallSound(c)', OneLockHolder',
           Committed(c)' => Committed(c) /\ call'[c].version = call[c].version
    PROVE  IInv'
<1>1. TypeOK'
    BY DEF IInv, TypeOK
<1>2. ASSUME NEW d \in Call PROVE CallSound(d)' /\ Unpublished(d)'
    <2>1. CASE d = c
        BY <2>1 DEF Unpublished
    <2>2. CASE d # c
        BY <2>2 DEF IInv, CallSound, Unpublished, InFlight, Committed
    <2> QED
        BY <2>1, <2>2
<1>3. VersionsDistinct'
    <2> SUFFICES ASSUME NEW d \in Call, NEW e \in Call, d # e, call'[d].role = call'[e].role,
                        Committed(d)', Committed(e)'
                 PROVE  call'[d].version # call'[e].version
        BY DEF VersionsDistinct, Others
    <2>1. /\ Committed(d) /\ call'[d].version = call[d].version /\ call'[d].role = call[d].role
          /\ Committed(e) /\ call'[e].version = call[e].version /\ call'[e].role = call[e].role
        BY DEF Committed, Answered
    <2> QED
        BY <2>1 DEF IInv, VersionsDistinct, Others
<1>4. \A s \in Login : TokenSound(s)'
    BY DEF IInv, TokenSound
<1> QED
    BY <1>1, <1>2, <1>3, <1>4 DEF IInv

-----------------------------------------------------------------------------

LEMMA UpdatePermissionsInv ==
    ASSUME IInv, NEW c \in Call, NEW r \in Role, NEW want \in SUBSET Slug,
           UpdatePermissions(c, r, want)
    PROVE  IInv'
<1> USE DEF UpdatePermissions
<1>1. call' \in [Call -> CallState] /\ \A d \in Call \ {c} : call'[d] = call[d]
    BY DEF IInv, TypeOK, CallState, Working, Change, Answered
<1>2. call'[c].pc \in {"delete", "refused"} /\ call'[c].role = r /\ call'[c].want = want
    BY DEF IInv, TypeOK
<1>3. call'[c].pc = "delete" => want \subseteq Catalogue
    BY DEF IInv, TypeOK, AllKnown
<1>4. call'[c].pc = "refused" => call'[c].version = 0
    BY DEF IInv, TypeOK
<1>5. CallSound(c)' /\ ~Committed(c)'
    BY <1>2, <1>3, <1>4 DEF CallSound, InFlight, Committed, Working, Change, Answered
<1>6. OneLockHolder'
    BY <1>1, <1>2 DEF IInv, OneLockHolder, Others
<1> QED
    BY <1>1, <1>2, <1>5, <1>6, OneCallMoves

LEMMA StartDeleteInv ==
    ASSUME IInv, NEW c \in Call, StartDelete(c)
    PROVE  IInv'
<1> USE DEF StartDelete, At
<1>1. call[c].role \in Role
    BY DEF IInv, CallSound
<1>2. call' \in [Call -> CallState] /\ \A d \in Call \ {c} : call'[d] = call[d]
    <2>1. call \in [Call -> CallState] /\ Deletes(c) \subseteq Tuple
        BY <1>1 DEF IInv, TypeOK, Deletes
    <2>2. [call[c] EXCEPT !.pc = "deleting", !.tuples = Deletes(c)] \in CallState
        BY <2>1 DEF CallState, Working, Change
    <2> HIDE DEF StartDelete
    <2>3. call' = [call EXCEPT ![c] = [call[c] EXCEPT !.pc = "deleting", !.tuples = Deletes(c)]]
        BY <2>1 DEF StartDelete
    <2> QED
        BY <2>1, <2>2, <2>3
<1>3. /\ call'[c].pc = "deleting" /\ call'[c].role = call[c].role
      /\ call'[c].want = call[c].want
    BY DEF IInv, TypeOK, CallState
<1>4. CallSound(c)' /\ ~Committed(c)'
    BY <1>1, <1>3 DEF IInv, CallSound, InFlight, Committed, Working, Change, Answered
<1>5. OneLockHolder'
    BY <1>2, <1>3 DEF IInv, OneLockHolder, Others
<1> QED
    BY <1>2, <1>3, <1>4, <1>5, OneCallMoves

LEMMA FinishDeleteInv ==
    ASSUME IInv, NEW c \in Call, FinishDelete(c)
    PROVE  IInv'
<1> USE DEF FinishDelete, At
<1>1. call[c].role \in Role
    BY DEF IInv, CallSound
<1>2. call' \in [Call -> CallState] /\ \A d \in Call \ {c} : call'[d] = call[d]
    <2>1. call \in [Call -> CallState]
        BY DEF IInv, TypeOK
    <2>2. [call[c] EXCEPT !.pc = "insert", !.tuples = @ \intersect grants[call[c].role]]
            \in CallState
        BY <2>1 DEF CallState, Working, Change
    <2> QED
        BY <2>1, <2>2
<1>3. /\ call'[c].pc = "insert" /\ call'[c].role = call[c].role
      /\ call'[c].want = call[c].want
    BY DEF IInv, TypeOK, CallState
<1>4. CallSound(c)' /\ ~Committed(c)'
    BY <1>1, <1>3 DEF IInv, CallSound, InFlight, Committed, Working, Change, Answered
<1>5. OneLockHolder'
    BY <1>2, <1>3 DEF IInv, OneLockHolder, Others
<1> QED
    BY <1>2, <1>3, <1>4, <1>5, OneCallMoves

\* A transaction that is rolled back leaves nothing behind.
LEMMA RollBackInv ==
    ASSUME IInv, NEW c \in Call, call[c].pc \in Change, RollBack(c, "failed"),
           UNCHANGED <<grants, version, registry, token, up, boots>>
    PROVE  IInv'
<1> USE DEF RollBack
<1>1. call' \in [Call -> CallState] /\ \A d \in Call \ {c} : call'[d] = call[d]
    <2>1. call \in [Call -> CallState]
        BY DEF IInv, TypeOK
    <2>2. [call[c] EXCEPT !.pc = "failed", !.tuples = {}, !.version = 0] \in CallState
        BY <2>1 DEF CallState, Answered
    <2> QED
        BY <2>1, <2>2
<1>2. call'[c].pc = "failed" /\ call'[c].role = call[c].role /\ call'[c].version = 0
    BY DEF IInv, TypeOK, CallState
<1>3. CallSound(c)' /\ ~Committed(c)'
    BY <1>2 DEF IInv, CallSound, InFlight, Committed, Working, Change
<1>4. OneLockHolder'
    BY <1>1, <1>2 DEF IInv, OneLockHolder, Others
<1> QED
    BY <1>1, <1>2, <1>3, <1>4, OneCallMoves

LEMMA InsertGrantsInv ==
    ASSUME IInv, NEW c \in Call, InsertGrants(c)
    PROVE  IInv'
<1>1. CASE RollBack(c, "failed")
    BY <1>1, RollBackInv DEF InsertGrants, At, Change
<1>2. CASE Goto(c, "bump")
    <2> USE DEF Goto, InsertGrants, At
    <2>1. call' \in [Call -> CallState] /\ \A d \in Call \ {c} : call'[d] = call[d]
        BY <1>2 DEF IInv, TypeOK, CallState, Working, Change
    <2>2. /\ call'[c].pc = "bump" /\ call'[c].role = call[c].role
          /\ call'[c].want = call[c].want
        BY <1>2 DEF IInv, TypeOK, CallState
    <2>3. CallSound(c)' /\ ~Committed(c)'
        BY <2>2 DEF IInv, CallSound, InFlight, Committed, Working, Change, Answered
    <2>4. OneLockHolder'
        BY <2>1, <2>2 DEF IInv, OneLockHolder, Others
    <2> QED
        BY <2>1, <2>2, <2>3, <2>4, OneCallMoves
<1> QED
    BY <1>1, <1>2 DEF InsertGrants

LEMMA BumpVersionInv ==
    ASSUME IInv, NEW c \in Call, BumpVersion(c)
    PROVE  IInv'
<1> USE DEF BumpVersion, At
<1>1. call[c].role \in Role
    BY DEF IInv, CallSound
<1>2. call' \in [Call -> CallState] /\ \A d \in Call \ {c} : call'[d] = call[d]
    <2>1. call \in [Call -> CallState] /\ NextVersion(c) \in Nat
        BY <1>1 DEF IInv, TypeOK, NextVersion
    <2>2. [call[c] EXCEPT !.pc = "commit", !.version = NextVersion(c)] \in CallState
        BY <2>1 DEF CallState, Working, Change
    <2> QED
        BY <2>1, <2>2
<1>3. /\ call'[c].pc = "commit" /\ call'[c].role = call[c].role
      /\ call'[c].want = call[c].want
      /\ call'[c].version = version[call[c].role] + 1
    BY DEF IInv, TypeOK, CallState, NextVersion
<1>4. CallSound(c)' /\ ~Committed(c)'
    BY <1>1, <1>3 DEF IInv, CallSound, InFlight, Committed, Working, Change, Answered
<1>5. OneLockHolder'
    BY <1>2, <1>3 DEF IInv, OneLockHolder, Others
<1> QED
    BY <1>2, <1>3, <1>4, <1>5, OneCallMoves

\* The commit gives its change a version above every one that is in use.
LEMMA CommitAs ==
    ASSUME IInv, NEW c \in Call, call[c].pc = "commit", NEW pc \in {"publish", "failed"},
           grants' = [grants EXCEPT
                        ![call[c].role] = (@ \ Deleted(c)) \union Inserted(c)],
           version' = [version EXCEPT ![call[c].role] = call[c].version],
           call' = [call EXCEPT ![c].pc = pc, ![c].tuples = {}],
           UNCHANGED <<registry, token, up, boots>>
    PROVE  IInv'
<1> DEFINE r == call[c].role
<1>1. r \in Role /\ call[c].version = version[r] + 1 /\ version[r] \in Nat
    BY DEF IInv, CallSound, TypeOK
<1>a. up /\ up' /\ call[c].want \subseteq Catalogue
    BY DEF IInv, CallSound, InFlight, Working, Change
<1>b. call \in [Call -> CallState]
    BY DEF IInv, TypeOK
<1>c. \A d \in Call : CallSound(d)
    BY DEF IInv
<1>2. /\ call'[c].pc \in {"publish", "failed"} /\ call'[c].role = r /\ call'[c].want = call[c].want
      /\ call'[c].version = version[r] + 1
      /\ \A d \in Call \ {c} : call'[d] = call[d]
    BY <1>1 DEF IInv, TypeOK, CallState
<1>3. version'[r] = version[r] + 1 /\ \A q \in Role \ {r} : version'[q] = version[q]
    BY <1>1 DEF IInv, TypeOK
<1>4. \A q \in Role : version[q] \in Nat /\ version'[q] \in Nat /\ version[q] <= version'[q]
    BY <1>1, <1>3 DEF IInv, TypeOK
<1>5. TypeOK'
    <2>1. call' \in [Call -> CallState]
        <3>1. call \in [Call -> CallState]
            BY DEF IInv, TypeOK
        <3>2. [call[c] EXCEPT !.pc = pc, !.tuples = {}] \in CallState
            BY <3>1 DEF CallState, Working, Change, Answered
        <3> QED
            BY <3>1, <3>2
    <2>2. grants' \in [Role -> SUBSET Tuple]
        <3>1. (grants[r] \ Deleted(c)) \union Inserted(c) \in SUBSET Tuple
            BY <1>1, NewRowsTyped DEF IInv, TypeOK, Inserted
        <3> QED
            BY <3>1 DEF IInv, TypeOK
    <2>3. version' \in [Role -> Nat]
        BY <1>1 DEF IInv, TypeOK
    <2> QED
        BY <2>1, <2>2, <2>3 DEF IInv, TypeOK
<1>6. \A q \in Role : registry'[q].version <= version'[q]
    <2>1. \A q \in Role : registry[q].version \in Nat /\ registry[q].version <= version[q]
        BY DEF IInv, TypeOK
    <2> QED
        BY <1>4, <2>1
<1>7. ASSUME NEW d \in Call PROVE CallSound(d)'
    <2>1. CASE d = c
        <3>1. call'[c].version <= version'[r] /\ call'[c].version # 0
            BY <1>1, <1>2, <1>3, <1>4
        <3> QED
            BY <2>1, <3>1, <1>1, <1>2, <1>a DEF CallSound, InFlight, Committed, Working, Change
    <2>2. CASE d # c
        <3>1. CallSound(d) /\ call'[d] = call[d] /\ call[d].version \in Nat /\ up'
            BY <2>2, <1>2, <1>a, <1>b, <1>c DEF CallState
        <3>2. call[d].pc = "commit" => call[d].role # r /\ call[d].role \in Role
            BY <2>2, <3>1 DEF IInv, OneLockHolder, Others, CallSound
        <3>3. Committed(d) => call[d].role \in Role
            BY <3>1 DEF CallSound, Committed, Answered
        <3>4. Committed(d)' <=> Committed(d)
            BY <3>1 DEF Committed
        <3>5. call[d].pc = "commit" => call'[d].version = version'[call'[d].role] + 1
            BY <3>1, <3>2, <1>3 DEF CallSound
        <3>6. Committed(d) => call'[d].version <= version'[call'[d].role]
            BY <3>1, <3>3, <1>4 DEF CallSound
        <3> QED
            BY <3>1, <3>4, <3>5, <3>6 DEF CallSound, InFlight
    <2> QED
        BY <2>1, <2>2
<1>8. ASSUME NEW s \in Login PROVE TokenSound(s)'
    <2>1. TokenSound(s) /\ token[s].version \in Nat /\ token' = token
        BY DEF IInv, TypeOK, LoginState
    <2> QED
        BY <2>1, <1>4 DEF TokenSound
<1>9. OneLockHolder'
    <2> SUFFICES ASSUME NEW d \in Call, NEW e \in Call, d # e, call'[d].role = call'[e].role,
                        call'[d].pc = "commit", call'[e].pc = "commit"
                 PROVE  FALSE
        BY DEF OneLockHolder, Others
    <2>1. d # c /\ e # c
        BY <1>2
    <2>2. call'[d] = call[d] /\ call'[e] = call[e] /\ OneLockHolder
        BY <2>1, <1>2 DEF IInv
    <2> QED
        BY <2>1, <2>2 DEF OneLockHolder, Others
<1>10. ASSUME NEW d \in Call \ {c}, call'[d].role = r, Committed(d)'
       PROVE  call'[d].version < call'[c].version
    <2>1. call'[d] = call[d] /\ call[d].role = r /\ Committed(d)
        BY <1>2, <1>10 DEF Committed
    <2>2. call[d].version <= version[r] /\ call[d].version \in Nat
        BY <2>1, <1>b, <1>c DEF CallSound, CallState
    <2> QED
        BY <2>1, <2>2, <1>1, <1>2
<1>11. VersionsDistinct'
    <2> SUFFICES ASSUME NEW d \in Call, NEW e \in Call, d # e, call'[d].role = call'[e].role,
                        Committed(d)', Committed(e)'
                 PROVE  call'[d].version # call'[e].version
        BY DEF VersionsDistinct, Others
    <2>1. CASE d = c
        BY SMTT(30), <2>1, <1>2, <1>10, <1>5 DEF TypeOK, CallState
    <2>2. CASE e = c
        BY SMTT(30), <2>2, <1>2, <1>10, <1>5 DEF TypeOK, CallState
    <2>3. CASE d # c /\ e # c
        <3>1. call'[d] = call[d] /\ call'[e] = call[e]
            BY <2>3, <1>2
        <3>2. VersionsDistinct /\ call[d].role = call[e].role /\ Committed(d) /\ Committed(e)
            BY <3>1 DEF IInv, Committed
        <3> QED
            BY <3>1, <3>2 DEF VersionsDistinct, Others
    <2> QED
        BY <2>1, <2>2, <2>3
<1>12. ASSUME NEW d \in Call PROVE Unpublished(d)'
    <2>1. CASE d = c
        <3>1. registry[r].version <= version[r] /\ registry[r].version \in Nat
            BY <1>1 DEF IInv, TypeOK
        <3>2. \A s \in Login : token[s].pc = "issued" /\ token[s].role = r =>
                    token[s].version <= version[r] /\ token[s].version \in Nat
            BY DEF IInv, TokenSound, TypeOK, LoginState
        <3> QED
            <4>1. /\ call'[c].role = r /\ call'[c].version = version[r] + 1
                  /\ registry' = registry /\ token' = token
                BY <1>2
            <4>2. registry[r].version # version[r] + 1
                BY <3>1, <1>1
            <4>3. \A s \in Login : token[s].pc = "issued" /\ token[s].role = r =>
                        token[s].version # version[r] + 1
                BY <3>2, <1>1
            <4> QED
                BY <2>1, <4>1, <4>2, <4>3 DEF Unpublished
    <2>2. CASE d # c
        <3>1. call'[d] = call[d] /\ registry' = registry /\ token' = token
            BY <2>2, <1>2
        <3> QED
            BY <3>1 DEF IInv, Unpublished
    <2> QED
        BY <2>1, <2>2
<1> QED
    BY <1>5, <1>6, <1>7, <1>8, <1>9, <1>11, <1>12 DEF IInv

LEMMA CommitChangeInv ==
    ASSUME IInv, NEW c \in Call, CommitChange(c)
    PROVE  IInv'
BY CommitAs DEF CommitChange, At

LEMMA PublishRoleInv ==
    ASSUME IInv, NEW c \in Call, PublishRole(c)
    PROVE  IInv'
<1> DEFINE r == call[c].role
<1> USE DEF PublishRole, At, Goto
<1>1. /\ r \in Role /\ up /\ call[c].want \subseteq Catalogue /\ call[c].version \in Nat
    BY DEF IInv, CallSound, InFlight, Working, TypeOK, CallState
<1>2. /\ call'[c].pc = "ok" /\ call'[c].role = r /\ call'[c].version = call[c].version
      /\ \A d \in Call \ {c} : call'[d] = call[d]
    BY DEF IInv, TypeOK, CallState
<1>3. /\ registry'[r].version = call[c].version
      /\ \A q \in Role \ {r} : registry'[q] = registry[q]
    BY <1>1 DEF IInv, TypeOK, Published
<1>4. \A d \in Call : Committed(d)' => /\ Committed(d) /\ call'[d].role = call[d].role
                                        /\ call'[d].version = call[d].version
    BY <1>2 DEF Committed, Answered
<1>5. TypeOK'
    <2>1. call' \in [Call -> CallState]
        <3>1. call \in [Call -> CallState]
            BY DEF IInv, TypeOK
        <3>2. [call[c] EXCEPT !.pc = "ok"] \in CallState
            BY <3>1 DEF CallState, Answered
        <3> QED
            BY <3>1, <3>2
    <2>2. registry' \in [Role -> [perms: SUBSET Catalogue, version: Nat]]
        BY <1>1 DEF IInv, TypeOK, Published
    <2> QED
        BY <2>1, <2>2 DEF IInv, TypeOK
<1>6. \A q \in Role : registry'[q].version <= version'[q]
    <2>1. Committed(c)
        BY DEF IInv, CallSound
    <2>2. call[c].version <= version[r]
        BY <2>1 DEF IInv, CallSound
    <2> QED
        BY <2>2, <1>3 DEF IInv
<1>7. \A d \in Call : CallSound(d)'
    <2> TAKE d \in Call
    <2>1. CASE d = c
        BY <2>1, <1>1, <1>2, <1>4 DEF IInv, CallSound, InFlight, Working, Change
    <2>2. CASE d # c
        <3>1. call'[d] = call[d] /\ CallSound(d) /\ version' = version /\ up'
            BY <2>2, <1>1, <1>2 DEF IInv
        <3>2. Committed(d)' <=> Committed(d)
            BY <3>1 DEF Committed
        <3> QED
            BY <3>1, <3>2 DEF CallSound, InFlight
    <2> QED
        BY <2>1, <2>2
<1>8. \A s \in Login : TokenSound(s)'
    BY DEF IInv, TokenSound
<1>9. OneLockHolder'
    BY <1>2 DEF IInv, OneLockHolder, Others
<1>10. VersionsDistinct'
    BY <1>4 DEF IInv, VersionsDistinct, Others
<1>11. ASSUME NEW d \in Call PROVE Unpublished(d)'
    <2> SUFFICES ASSUME call'[d].pc = "publish" PROVE Unpublished(d)'
        BY DEF Unpublished
    <2>1. d # c /\ call'[d] = call[d]
        BY <1>2
    <2>2. CASE call[d].role = r
        <3>1. Committed(c) /\ Committed(d)
            BY <2>1, <1>2 DEF IInv, CallSound
        <3> QED
            BY <3>1, <2>1, <2>2, <1>2, <1>3 DEF IInv, VersionsDistinct, Others, Unpublished
    <2>3. CASE call[d].role # r
        <3>1. call[d].role \in Role
            BY <2>1 DEF IInv, CallSound
        <3> QED
            BY <3>1, <2>1, <2>3, <1>3 DEF IInv, Unpublished
    <2> QED
        BY <2>2, <2>3
<1> QED
    BY <1>5, <1>6, <1>7, <1>8, <1>9, <1>10, <1>11 DEF IInv

LEMMA ResolvePermissionsInv ==
    ASSUME IInv, NEW s \in Login, NEW r \in Role, ResolvePermissions(s, r)
    PROVE  IInv'
<1> USE DEF ResolvePermissions
<1>1. registry[r].perms \subseteq Slug
    BY RolesAssumption DEF IInv, TypeOK
<1>2. /\ token' \in [Login -> LoginState]
      /\ token'[s].pc = "resolving" /\ token'[s].role = r
      /\ \A t \in Login \ {s} : token'[t] = token[t]
    BY <1>1 DEF IInv, TypeOK, LoginState
<1>3. TypeOK'
    BY <1>2 DEF IInv, TypeOK
<1>4. ASSUME NEW t \in Login PROVE TokenSound(t)'
    BY <1>2 DEF IInv, TokenSound
<1>5. ASSUME NEW c \in Call PROVE CallSound(c)' /\ Unpublished(c)'
    BY <1>2 DEF IInv, CallSound, InFlight, Committed, Unpublished
<1>6. OneLockHolder' /\ VersionsDistinct'
    BY DEF IInv, OneLockHolder, VersionsDistinct, Others, Committed
<1> QED
    BY <1>3, <1>4, <1>5, <1>6 DEF IInv

\* A token can only be issued at a version that has been published.
LEMMA ResolveVersionInv ==
    ASSUME IInv, NEW s \in Login, ResolveVersion(s)
    PROVE  IInv'
<1> DEFINE r == token[s].role
<1> USE DEF ResolveVersion
<1>1. r \in Role /\ registry[r].version \in Nat /\ registry[r].version <= version[r]
    BY DEF IInv, TypeOK, TokenSound
<1>2. /\ token' \in [Login -> LoginState]
      /\ token'[s].pc = "issued" /\ token'[s].role = r
      /\ token'[s].version = registry[r].version
      /\ \A t \in Login \ {s} : token'[t] = token[t]
    BY <1>1 DEF IInv, TypeOK, LoginState
<1>3. TypeOK'
    BY <1>2 DEF IInv, TypeOK
<1>4. ASSUME NEW t \in Login PROVE TokenSound(t)'
    BY <1>1, <1>2 DEF IInv, TokenSound
<1>5. ASSUME NEW c \in Call PROVE CallSound(c)'
    BY DEF IInv, CallSound, InFlight, Committed
<1>6. ASSUME NEW c \in Call PROVE Unpublished(c)'
    BY <1>2 DEF IInv, Unpublished
<1>7. OneLockHolder' /\ VersionsDistinct'
    BY DEF IInv, OneLockHolder, VersionsDistinct, Others, Committed
<1> QED
    BY <1>3, <1>4, <1>5, <1>6, <1>7 DEF IInv

LEMMA CrashInv ==
    ASSUME IInv, Crash
    PROVE  IInv'
<1> USE DEF Crash
<1>1. /\ call \in [Call -> CallState] /\ token \in [Login -> LoginState]
      /\ version \in [Role -> Nat]
    BY DEF IInv, TypeOK
<1>2. ASSUME NEW c \in Call
      PROVE  /\ call'[c] \in CallState /\ ~InFlight(c)'
             /\ call[c].pc # "idle" <=> call'[c].pc # "idle"
             /\ call'[c].role = call[c].role
             /\ Committed(c)' => Committed(c) /\ call'[c].version = call[c].version
    <2>1. CASE ~InFlight(c)
        BY <1>1, <2>1 DEF InFlight, Committed
    <2>2. CASE InFlight(c)
        <3>1. call'[c] = [call[c] EXCEPT !.pc = "lost", !.tuples = {},
                            !.version = IF call[c].pc = "publish" THEN @ ELSE 0]
            BY <2>2
        <3>2. call[c] \in CallState /\ CallSound(c)
            BY <1>1 DEF IInv
        <3>3. call'[c] \in CallState
            BY <3>1, <3>2 DEF CallState, Answered
        <3>4. call'[c].pc = "lost" /\ call'[c].role = call[c].role
            BY <3>1, <3>2 DEF CallState
        <3>5. call'[c].version = IF call[c].pc = "publish" THEN call[c].version ELSE 0
            BY <3>1, <3>2 DEF CallState
        <3>6. Committed(c)' => Committed(c) /\ call'[c].version = call[c].version
            BY <3>5 DEF Committed
        <3> QED
            BY <2>2, <3>3, <3>4, <3>6 DEF InFlight, Working, Change
    <2> QED
        BY <2>1, <2>2
<1>3. ASSUME NEW s \in Login
      PROVE  /\ token'[s] \in LoginState
             /\ token'[s].role = token[s].role /\ token'[s].version = token[s].version
             /\ token'[s].pc # "resolving"
             /\ token[s].pc # "idle" <=> token'[s].pc # "idle"
             /\ token'[s].pc = "issued" => token[s].pc = "issued"
    BY <1>1 DEF LoginState
<1>4. TypeOK'
    <2>1. Empty \in [Role -> [perms: SUBSET Catalogue, version: Nat]]
        BY DEF Empty
    <2>2. call' \in [Call -> CallState] /\ token' \in [Login -> LoginState]
        BY <1>2, <1>3
    <2> QED
        BY <2>1, <2>2 DEF IInv, TypeOK
<1>5. \A r \in Role : registry'[r].version <= version'[r]
    <2>1. \A r \in Role : Empty[r].version = 0 /\ version[r] \in Nat
        BY <1>1 DEF Empty
    <2>2. registry' = Empty /\ version' = version
        OBVIOUS
    <2> HIDE DEF Crash
    <2> QED
        BY <2>1, <2>2
<1>6. ASSUME NEW c \in Call PROVE CallSound(c)' /\ Unpublished(c)'
    <2>1. call'[c].pc # "commit" /\ call'[c].pc # "publish"
        BY <1>2 DEF InFlight, Working, Change
    <2>2. CallSound(c)
        BY DEF IInv
    <2> QED
        BY <1>2, <2>1, <2>2 DEF CallSound, Unpublished
<1>7. ASSUME NEW s \in Login PROVE TokenSound(s)'
    <2>1. TokenSound(s)
        BY DEF IInv
    <2> QED
        BY <1>3, <2>1 DEF TokenSound
<1>8. OneLockHolder'
    <2>1. \A c \in Call : call'[c].pc # "commit"
        BY <1>2 DEF InFlight, Working, Change
    <2> QED
        BY <2>1 DEF OneLockHolder, Others
<1>9. VersionsDistinct'
    <2> SUFFICES ASSUME NEW c \in Call, NEW d \in Call, c # d, call'[c].role = call'[d].role,
                        Committed(c)', Committed(d)'
                 PROVE  call'[c].version # call'[d].version
        BY DEF VersionsDistinct, Others
    <2>1. /\ Committed(c) /\ call'[c].version = call[c].version
          /\ Committed(d) /\ call'[d].version = call[d].version
          /\ call[c].role = call[d].role /\ VersionsDistinct
        BY <1>2 DEF IInv
    <2> HIDE DEF Crash
    <2> QED
        BY <2>1 DEF VersionsDistinct, Others
<1>10. (~up => boots < MaxBoots)'
    OBVIOUS
<1> QED
    BY <1>4, <1>5, <1>6, <1>7, <1>8, <1>9, <1>10 DEF IInv

LEMMA BootInv ==
    ASSUME IInv, Boot
    PROVE  IInv'
<1> USE DEF Boot
<1>1. boots + 1 \in 1..MaxBoots
    BY RolesAssumption DEF IInv, TypeOK
<1>2. grants' \in [Role -> SUBSET Tuple]
    <2>1. ASSUME NEW r \in Role PROVE Seeded(r) \in SUBSET Tuple
        <3>1. InitialGrants[r] \subseteq Catalogue
            BY RolesAssumption
        <3>2. [slug: InitialGrants[r] \ Slugs(grants[r]), by: {boots + 1}] \subseteq Tuple
            BY <1>1, <3>1, RolesAssumption DEF Tuple
        <3> QED
            BY <3>2 DEF IInv, TypeOK, Seeded
    <2> QED
        BY <2>1
<1>3. /\ registry' \in [Role -> [perms: SUBSET Catalogue, version: Nat]]
      /\ \A r \in Role : registry'[r].version = version[r]
    BY <1>2, SnapshotTyped DEF IInv, TypeOK
<1>4. TypeOK'
    BY <1>1, <1>2, <1>3 DEF IInv, TypeOK
<1>5. \A r \in Role : registry'[r].version <= version'[r]
    BY <1>3 DEF IInv, TypeOK
<1>6. ASSUME NEW c \in Call PROVE CallSound(c)' /\ Unpublished(c)'
    <2>1. CallSound(c) /\ ~InFlight(c)
        BY DEF IInv, CallSound
    <2> QED
        BY <2>1 DEF CallSound, Unpublished, InFlight, Committed, Working
<1>7. ASSUME NEW s \in Login PROVE TokenSound(s)'
    BY DEF IInv, TokenSound
<1>8. OneLockHolder' /\ VersionsDistinct'
    BY DEF IInv, OneLockHolder, VersionsDistinct, Others, Committed
<1> QED
    BY <1>4, <1>5, <1>6, <1>7, <1>8 DEF IInv

-----------------------------------------------------------------------------

\* Every step, and every stuttering one, keeps IInv.
THEOREM NextInvariant == IInv /\ [Next]_vars => IInv'
<1> SUFFICES ASSUME IInv, [Next]_vars PROVE IInv'
    OBVIOUS
<1>1. ASSUME NEW c \in Call, Step(c) PROVE IInv'
    BY <1>1, StartDeleteInv, FinishDeleteInv, InsertGrantsInv, BumpVersionInv,
       CommitChangeInv, PublishRoleInv DEF Step
<1>2. ASSUME NEW c \in Call, StatementFails(c) PROVE IInv'
    BY <1>2, RollBackInv DEF StatementFails
<1>3. CASE UNCHANGED vars
    BY <1>3 DEF vars, IInv, TypeOK, CallSound, TokenSound, OneLockHolder, VersionsDistinct,
                Unpublished, InFlight, Committed, Others
<1>4. CASE Quiet
    BY <1>3, <1>4 DEF Quiet
<1> QED
    BY <1>1, <1>2, <1>3, <1>4, UpdatePermissionsInv, ResolvePermissionsInv,
       ResolveVersionInv, CrashInv, BootInv DEF Next

\* What the tables, the registry, the requests and the tokens say of each other
\* holds in every state the service reaches.
THEOREM Invariance == Spec => []IInv
    BY InitInvariant, NextInvariant, PTL DEF Spec

\* Only permissions are granted anywhere.
THEOREM TypeCorrect == Spec => []TypeOK
<1>1. IInv => TypeOK
    BY DEF IInv
<1> QED
    BY <1>1, Invariance, PTL

\* However their transactions overlap, fail or lose their acknowledgement, two
\* changes of a role that commit have different versions.
THEOREM ChangesAreNumbered == Spec => []VersionsDistinct
<1>1. IInv => VersionsDistinct
    BY DEF IInv
<1> QED
    BY <1>1, Invariance, PTL

\* In whatever order concurrent changes reach the registry, a token the guard
\* of a process has refused as stale it never accepts again.
THEOREM StaleForever == Spec => StaleStaysStale
<1> DEFINE Holds(s) == (up /\ token[s].pc = "issued" /\ ~Accepts(s) /\ up') => ~Accepts(s)'
<1>1. ASSUME IInv, [Next]_vars, NEW s \in Login PROVE Holds(s)
    <2> SUFFICES ASSUME up, token[s].pc = "issued", ~Accepts(s), up'
                 PROVE  ~Accepts(s)'
        OBVIOUS
    <2>1. CASE registry' = registry /\ token'[s] = token[s]
        BY <2>1 DEF Accepts
    <2>2. ASSUME NEW c \in Call, PublishRole(c) PROVE ~Accepts(s)'
        <3>1. /\ call[c].role \in Role /\ call[c].pc = "publish" /\ Unpublished(c)
              /\ token[s].role \in Role /\ token' = token
            BY <1>1, <2>2 DEF IInv, CallSound, TokenSound, PublishRole, At
        <3>2. registry'[call[c].role].version = call[c].version
            BY <1>1, <2>2, <3>1 DEF IInv, TypeOK, PublishRole, Published
        <3>3. CASE token[s].role = call[c].role
            BY <3>1, <3>2, <3>3 DEF Unpublished, Accepts
        <3>4. CASE token[s].role # call[c].role
            <4>1. registry'[token[s].role] = registry[token[s].role]
                BY <1>1, <2>2, <3>1, <3>4 DEF IInv, TypeOK, PublishRole
            <4> QED
                BY <3>1, <4>1 DEF Accepts
        <3> QED
            BY <3>3, <3>4
    <2>3. ASSUME NEW t \in Login, \/ ResolveVersion(t)
                                  \/ \E r \in Role : ResolvePermissions(t, r)
          PROVE  ~Accepts(s)'
        <3>1. t # s /\ registry' = registry
            BY <2>3 DEF ResolveVersion, ResolvePermissions
        <3>2. token'[s] = token[s]
            BY <1>1, <2>3, <3>1 DEF IInv, TypeOK, ResolveVersion, ResolvePermissions
        <3> QED
            BY <3>1, <3>2, <2>1
    <2> QED
        BY <1>1, <2>1, <2>2, <2>3
        DEF Next, vars, UpdatePermissions, Step, StartDelete, FinishDelete, InsertGrants,
            BumpVersion, CommitChange, StatementFails, Crash, Boot, Quiet
<1>2. IInv /\ [Next]_vars => [\A s \in Login : Holds(s)]_vars
    BY <1>1
<1> QED
    BY <1>2, Invariance, PTL DEF Spec, StaleStaysStale

-----------------------------------------------------------------------------
(* What overlapping changes leave behind: the inductive invariant of HSpec. *)

HistoryOK ==
    /\ earlier \in [Call -> SUBSET Tuple]
    /\ crossed \subseteq Role /\ unannounced \subseteq Role /\ mixed \subseteq Role

\* Those whose rows nobody has seen yet: the changes that are not committed, and
\* the boots to come.
Unseen == {c \in Call : ~Committed(c)} \union ((boots + 1)..MaxBoots)

RowsSound ==
    /\ \A r \in Role : \A t \in grants[r] : t.by \notin Unseen
    /\ \A c \in Call : \A t \in earlier[c] : t.by \notin Unseen

\* Before it commits, c is about to delete all that is left of what it found.
Replaces(c) ==
    /\ call[c].pc \in {"deleting", "insert", "bump", "commit"} =>
            earlier[c] \intersect grants[call[c].role] \subseteq call[c].tuples
    /\ Committed(c) =>
            /\ earlier[c] \intersect grants[call[c].role] = {}
            /\ call[c].version = version[call[c].role] =>
                    NewRows(c) \subseteq grants[call[c].role]

\* Where changes are published in their order, one at a time is to be published;
\* it is newer than the registry, which is as new as every answer. Where no
\* change is left unpublished either, the registry, or the change about to be
\* published, is the table's last.
Ordered(r) ==
    r \notin crossed =>
        /\ \A c, d \in Publishing(r) : c = d
        /\ \A c \in Publishing(r) : registry[r].version <= call[c].version
        /\ \A c \in Call : call[c].pc = "ok" /\ call[c].role = r =>
                call[c].version <= registry[r].version
        /\ r \notin unannounced =>
                /\ \A c \in Publishing(r) : call[c].version = version[r]
                /\ Publishing(r) = {} => registry[r].version = version[r]

\* Where the table holds what the last change asked for, whoever announces that
\* change announces the table.
Faithful(r) ==
    r \notin mixed =>
        /\ \A c \in Publishing(r) :
                call[c].version = version[r] => Slugs(grants[r]) = call[c].want
        /\ registry[r].version = version[r] => registry[r].perms = Slugs(grants[r])

\* What a token without doubt says of its version is what the registry, and the
\* table, say of it.
Current(s) ==
    LET r == token[s].role
    IN s \notin doubtful =>
        /\ token[s].pc = "resolving" => token[s].perms = registry[r].perms
        /\ token[s].pc = "issued" /\ up /\ registry[r].version = token[s].version =>
                token[s].perms = registry[r].perms
        /\ token[s].pc = "issued" /\ token[s].version = version[r] /\ r \notin mixed =>
                token[s].perms = Slugs(grants[r])

HInv ==
    /\ IInv
    /\ HistoryOK
    /\ RowsSound
    /\ \A c \in Call : Replaces(c)
    /\ up => \A r \in Role : Ordered(r) /\ Faithful(r)
    /\ \A s \in Login : Current(s)

-----------------------------------------------------------------------------

LEMMA HistoryRestrainsNothing == HNext => Next
    BY DEF HNext, Alone, Next, Step

LEMMA InitHInv == HInit => HInv
<1> SUFFICES ASSUME HInit PROVE HInv
    OBVIOUS
<1>1. IInv
    BY InitInvariant DEF HInit
<1>2. /\ \A c \in Call : call[c].pc = "idle"
      /\ \A s \in Login : token[s].pc = "idle"
    BY DEF HInit, Init, Idle, NoToken
<1>3. HistoryOK
    BY DEF HInit, HistoryOK
<1>4. RowsSound
    <2>1. 0 \notin Unseen
        BY RolesAssumption DEF Unseen, HInit, Init
    <2>2. \A r \in Role : \A t \in grants[r] : t.by = 0
        BY DEF HInit, Init
    <2>3. \A c \in Call : earlier[c] = {}
        BY DEF HInit
    <2> QED
        BY <2>1, <2>2, <2>3 DEF RowsSound
<1>5. \A c \in Call : Replaces(c)
    BY <1>2 DEF Replaces, Committed, Answered
<1>6. \A r \in Role : Publishing(r) = {}
    BY <1>2 DEF Publishing
<1>7. \A r \in Role : registry[r].version = version[r] /\ registry[r].perms = Slugs(grants[r])
    BY DEF HInit, Init, Snapshot
<1>8. \A r \in Role : Ordered(r) /\ Faithful(r)
    BY <1>2, <1>6, <1>7 DEF Ordered, Faithful
<1>9. \A s \in Login : Current(s)
    BY <1>2 DEF Current
<1> QED
    BY <1>1, <1>3, <1>4, <1>5, <1>8, <1>9 DEF HInv

\* Once committed, a change stays committed.
LEMMA CommittedStays ==
    ASSUME HInv, HNext, NEW c \in Call, Committed(c)
    PROVE  /\ Committed(c)' /\ call'[c].role = call[c].role
           /\ call'[c].version = call[c].version /\ call'[c].want = call[c].want
<1>1. call[c].pc \in {"publish"} \union Answered /\ call[c] \in CallState
    BY DEF Committed, HInv, IInv, TypeOK
<1>2. call \in [Call -> CallState]
    BY DEF HInv, IInv, TypeOK
<1>3. CASE call'[c] = call[c]
    BY <1>3 DEF Committed
<1>4. CASE Crash
    <2>1. CASE ~InFlight(c)
        BY <1>3, <1>4, <2>1 DEF Crash
    <2>2. CASE InFlight(c)
        <3>1. call[c].pc = "publish"
            BY <1>1, <2>2 DEF InFlight, Working, Change, Answered
        <3>2. call'[c] = [call[c] EXCEPT !.pc = "lost", !.tuples = {}, !.version = call[c].version]
            BY <1>4, <2>2, <3>1 DEF Crash
        <3> QED
            BY <1>1, <3>2 DEF Committed, CallState, Answered
    <2> QED
        BY <2>1, <2>2
<1>5. ASSUME NEW d \in Call, PublishRole(d)
      PROVE  /\ Committed(c)' /\ call'[c].role = call[c].role
             /\ call'[c].version = call[c].version /\ call'[c].want = call[c].want
    <2>1. CASE c = d
        <3>1. call'[c] = [call[c] EXCEPT !.pc = "ok"]
            BY <1>2, <1>5, <2>1 DEF PublishRole, Goto
        <3> QED
            BY <1>1, <3>1 DEF Committed, CallState, Answered
    <2>2. CASE c # d
        BY <1>2, <1>3, <1>5, <2>2 DEF PublishRole, Goto
    <2> QED
        BY <2>1, <2>2
<1>6. ASSUME NEW d \in Call, \/ \E r \in Role, want \in SUBSET Slug : UpdatePermissions(d, r, want)
                             \/ StartDelete(d) \/ FinishDelete(d) \/ InsertGrants(d)
                             \/ BumpVersion(d) \/ CommitChange(d) \/ StatementFails(d)
      PROVE  call'[c] = call[c]
    <2>1. call[d].pc \in {"idle"} \union Change
        BY <1>6 DEF UpdatePermissions, StartDelete, FinishDelete, InsertGrants, BumpVersion,
                    CommitChange, StatementFails, At, Change
    <2>2. c # d
        BY <1>1, <2>1 DEF Change, Answered
    <2> QED
        BY <1>2, <1>6, <2>2
        DEF UpdatePermissions, StartDelete, FinishDelete, InsertGrants, BumpVersion,
            CommitChange, StatementFails, Goto, RollBack
<1>7. CASE \/ \E s \in Login : (\E r \in Role : ResolvePermissions(s, r)) \/ ResolveVersion(s)
           \/ Quiet \/ Boot
    <2>1. call' = call
        BY <1>7 DEF ResolvePermissions, ResolveVersion, Quiet, Boot, vars
    <2> QED
        BY <1>3, <2>1
<1> QED
    BY <1>3, <1>4, <1>5, <1>6, <1>7 DEF HNext, Alone

\* Nobody becomes unseen again.
LEMMA SeenStaysSeen ==
    ASSUME HInv, HNext
    PROVE  Unseen' \subseteq Unseen
<1>1. \A c \in Call : Committed(c) => Committed(c)'
    BY CommittedStays
<1>2. boots' = boots \/ boots' = boots + 1
    <2>1. ASSUME NEW c \in Call,
                 \/ \E r \in Role, want \in SUBSET Slug : UpdatePermissions(c, r, want)
                 \/ StartDelete(c) \/ FinishDelete(c) \/ InsertGrants(c) \/ BumpVersion(c)
                 \/ CommitChange(c) \/ PublishRole(c) \/ StatementFails(c)
          PROVE  boots' = boots
        BY <2>1 DEF UpdatePermissions, StartDelete, FinishDelete, InsertGrants, BumpVersion,
                    CommitChange, PublishRole, StatementFails
    <2>2. ASSUME NEW s \in Login,
                 (\E r \in Role : ResolvePermissions(s, r)) \/ ResolveVersion(s)
          PROVE  boots' = boots
        BY <2>2 DEF ResolvePermissions, ResolveVersion
    <2>3. Crash \/ Quiet => boots' = boots
        BY DEF Crash, Quiet, vars
    <2>4. Boot => boots' = boots + 1
        BY DEF Boot
    <2> QED
        BY <2>1, <2>2, <2>3, <2>4 DEF HNext, Alone
<1>3. (boots' + 1)..MaxBoots \subseteq (boots + 1)..MaxBoots
    <2>1. MaxBoots \in Nat /\ boots \in 1..MaxBoots
        BY RolesAssumption DEF HInv, IInv, TypeOK
    <2>2. boots \in Nat
        BY <2>1
    <2>3. \A n : n \in (boots' + 1)..MaxBoots => n \in (boots + 1)..MaxBoots
        BY <1>2, <2>1, <2>2
    <2> QED
        BY <2>3
<1> QED
    BY <1>1, <1>3 DEF Unseen

-----------------------------------------------------------------------------

\* A request moves, or is answered, and leaves everything else alone.
LEMMA RequestMoves ==
    ASSUME HInv, NEW c \in Call, IInv',
           UNCHANGED <<grants, version, registry, token, up, boots,
                       crossed, unannounced, mixed, doubtful>>,
           \A d \in Call \ {c} : call'[d] = call[d] /\ earlier'[d] = earlier[d],
           ~Committed(c), ~Committed(c)', call[c].pc \notin {"publish", "ok"},
           call'[c].pc \notin {"publish", "ok"},
           earlier' \in [Call -> SUBSET Tuple],
           \A t \in earlier'[c] : t.by \notin Unseen,
           Replaces(c)'
    PROVE  HInv'
<1>1. \A d \in Call : Committed(d)' <=> Committed(d)
    BY DEF Committed
<1>2. Unseen' = Unseen
    BY <1>1 DEF Unseen
<1>3. RowsSound'
    BY <1>2 DEF HInv, RowsSound
<1>4. \A d \in Call : Replaces(d)'
    BY DEF HInv, Replaces, Committed, NewRows
<1>5. \A r \in Role : Publishing(r)' = Publishing(r)
    BY DEF Publishing
<1>6. up' => \A r \in Role : Ordered(r)' /\ Faithful(r)'
    <2> SUFFICES ASSUME up', NEW r \in Role PROVE Ordered(r)' /\ Faithful(r)'
        OBVIOUS
    <2>1. Ordered(r) /\ Faithful(r)
        BY DEF HInv
    <2>2. \A d \in Publishing(r) : call'[d] = call[d]
        BY DEF Publishing
    <2>3. \A d \in Call : call'[d].pc = "ok" => call'[d] = call[d]
        OBVIOUS
    <2>4. Ordered(r)'
        BY <1>5, <2>1, <2>2, <2>3 DEF Ordered
    <2>5. Faithful(r)'
        BY <1>5, <2>1, <2>2 DEF Faithful
    <2> QED
        BY <2>4, <2>5
<1>7. \A s \in Login : Current(s)'
    BY DEF HInv, Current
<1>8. HistoryOK'
    BY DEF HInv, HistoryOK
<1> QED
    BY <1>3, <1>4, <1>6, <1>7, <1>8 DEF HInv

LEMMA UpdatePermissionsHInv ==
    ASSUME HInv, NEW c \in Call, NEW r \in Role, NEW want \in SUBSET Slug,
           UpdatePermissions(c, r, want), RecordArrival(c), IInv'
    PROVE  HInv'
<1> USE DEF UpdatePermissions, RecordArrival
<1>1. call \in [Call -> CallState] /\ earlier \in [Call -> SUBSET Tuple]
    BY DEF HInv, IInv, TypeOK, HistoryOK
<1>2. call'[c].pc \in {"delete", "refused"} /\ call'[c].role = r
    BY <1>1
<1>3. call'[c].pc = "refused" => call'[c].version = 0
    BY <1>1
<1>4. ~Committed(c) /\ ~Committed(c)'
    BY <1>2, <1>3 DEF Committed, Answered
<1>5. earlier'[c] = grants[r] \/ earlier'[c] = {}
    BY <1>1, <1>2
<1>6. earlier' \in [Call -> SUBSET Tuple]
    BY <1>1, <1>5 DEF HInv, IInv, TypeOK
<1>7. \A t \in earlier'[c] : t.by \notin Unseen
    BY <1>5 DEF HInv, RowsSound
<1>8. Replaces(c)'
    BY <1>2, <1>4 DEF Replaces
<1>9. \A d \in Call \ {c} : call'[d] = call[d] /\ earlier'[d] = earlier[d]
    BY <1>1
<1> HIDE DEF UpdatePermissions, RecordArrival
<1>10. UNCHANGED <<grants, version, registry, token, up, boots,
                   crossed, unannounced, mixed, doubtful>>
    BY DEF UpdatePermissions, RecordArrival
<1>11. call[c].pc = "idle"
    BY DEF UpdatePermissions
<1> QED
    BY <1>2, <1>4, <1>6, <1>7, <1>8, <1>9, <1>10, <1>11, RequestMoves

\* The steps of a transaction before its commit, and its failure.
LEMMA TransactionHInv ==
    ASSUME HInv, NEW c \in Call, UNCHANGED history, IInv',
           \/ StartDelete(c) \/ FinishDelete(c) \/ InsertGrants(c) \/ BumpVersion(c)
           \/ StatementFails(c)
    PROVE  HInv'
<1>1. /\ call \in [Call -> CallState] /\ earlier \in [Call -> SUBSET Tuple]
      /\ call[c] \in CallState /\ Replaces(c)
    BY DEF HInv, IInv, TypeOK, HistoryOK
<1>2. /\ UNCHANGED <<grants, version, registry, token, up, boots>>
      /\ call[c].pc \in Change
    BY DEF StartDelete, FinishDelete, InsertGrants, BumpVersion, StatementFails, At, Change
<1>3. UNCHANGED <<earlier, crossed, unannounced, mixed, doubtful>>
    BY DEF history
<1>4. \A d \in Call \ {c} : call'[d] = call[d]
    BY <1>1 DEF StartDelete, FinishDelete, InsertGrants, BumpVersion, StatementFails, Goto, RollBack
<1>5. /\ ~Committed(c)' /\ call'[c].pc \notin {"publish", "ok"} /\ Replaces(c)'
    <2>1. ASSUME RollBack(c, "failed")
          PROVE  ~Committed(c)' /\ call'[c].pc \notin {"publish", "ok"} /\ Replaces(c)'
        <3>1. call'[c] = [call[c] EXCEPT !.pc = "failed", !.tuples = {}, !.version = 0]
            BY <1>1, <2>1 DEF RollBack
        <3>2. call'[c].pc = "failed" /\ call'[c].version = 0
            BY <1>1, <3>1 DEF CallState
        <3> QED
            BY <3>2 DEF Committed, Replaces
    <2>2. ASSUME StartDelete(c)
          PROVE  ~Committed(c)' /\ call'[c].pc \notin {"publish", "ok"} /\ Replaces(c)'
        <3>1. call'[c] = [call[c] EXCEPT !.pc = "deleting", !.tuples = grants[call[c].role]]
            BY <1>1, <2>2 DEF StartDelete, Deletes
        <3>2. /\ call'[c].pc = "deleting" /\ call'[c].tuples = grants[call[c].role]
              /\ call'[c].role = call[c].role
            BY <1>1, <3>1 DEF CallState
        <3> QED
            BY <1>2, <1>3, <3>2 DEF Committed, Replaces, Answered
    <2>3. ASSUME FinishDelete(c)
          PROVE  ~Committed(c)' /\ call'[c].pc \notin {"publish", "ok"} /\ Replaces(c)'
        <3>1. call'[c] = [call[c] EXCEPT !.pc = "insert",
                                         !.tuples = @ \intersect grants[call[c].role]]
            BY <1>1, <2>3 DEF FinishDelete
        <3>2. /\ call'[c].pc = "insert" /\ call'[c].role = call[c].role
              /\ call'[c].tuples = call[c].tuples \intersect grants[call[c].role]
            BY <1>1, <3>1 DEF CallState
        <3>3. call[c].pc = "deleting"
            BY <2>3 DEF FinishDelete, At
        <3> QED
            BY <1>1, <1>2, <1>3, <3>2, <3>3 DEF Committed, Replaces, Answered
    <2>4. ASSUME NEW pc \in {"bump", "commit"}, call'[c].pc = pc, call'[c].role = call[c].role,
                 call'[c].tuples = call[c].tuples, call[c].pc \in {"insert", "bump"}
          PROVE  ~Committed(c)' /\ call'[c].pc \notin {"publish", "ok"} /\ Replaces(c)'
        BY <1>1, <1>2, <1>3, <2>4 DEF Committed, Replaces, Answered
    <2>5. ASSUME InsertGrants(c), Goto(c, "bump")
          PROVE  ~Committed(c)' /\ call'[c].pc \notin {"publish", "ok"} /\ Replaces(c)'
        <3>1. call'[c] = [call[c] EXCEPT !.pc = "bump"]
            BY <1>1, <2>5 DEF Goto
        <3> QED
            BY <1>1, <2>4, <2>5, <3>1 DEF CallState, InsertGrants, At
    <2>6. ASSUME BumpVersion(c)
          PROVE  ~Committed(c)' /\ call'[c].pc \notin {"publish", "ok"} /\ Replaces(c)'
        <3>1. call'[c] = [call[c] EXCEPT !.pc = "commit", !.version = NextVersion(c)]
            BY <1>1, <2>6 DEF BumpVersion
        <3> QED
            BY <1>1, <2>4, <2>6, <3>1 DEF CallState, BumpVersion, At
    <2> QED
        BY <2>1, <2>2, <2>3, <2>5, <2>6 DEF StatementFails, InsertGrants
<1>6. ~Committed(c)
    BY <1>2 DEF Committed, Change, Answered
<1>7. \A t \in earlier'[c] : t.by \notin Unseen
    BY <1>3 DEF HInv, RowsSound
<1> QED
    BY <1>1, <1>2, <1>3, <1>4, <1>5, <1>6, <1>7, RequestMoves DEF Change

-----------------------------------------------------------------------------

LEMMA CommitChangeHInv ==
    ASSUME HInv, NEW c \in Call, CommitChange(c), RecordCommit(c), HNext, IInv'
    PROVE  HInv'
<1> DEFINE r == call[c].role
<1>1. /\ call \in [Call -> CallState] /\ call[c] \in CallState
      /\ grants \in [Role -> SUBSET Tuple] /\ version \in [Role -> Nat]
      /\ HistoryOK /\ RowsSound /\ Replaces(c)
    BY DEF HInv, IInv, TypeOK
<1>2. /\ call[c].pc = "commit" /\ up /\ up' /\ r \in Role /\ version[r] \in Nat
      /\ call[c].version = version[r] + 1
    BY <1>1 DEF HInv, IInv, CallSound, CommitChange, At
<1>3. \E pc \in {"publish", "failed"} : call' = [call EXCEPT ![c].pc = pc, ![c].tuples = {}]
    BY DEF CommitChange
<1>4. /\ call'[c].pc \in {"publish", "failed"} /\ call'[c].role = r
      /\ call'[c].want = call[c].want /\ call'[c].version = version[r] + 1
      /\ \A d \in Call \ {c} : call'[d] = call[d]
    <2>1. PICK pc \in {"publish", "failed"} :
                    call'[c] = [call[c] EXCEPT !.pc = pc, !.tuples = {}]
        BY <1>1, <1>3
    <2> QED
        BY <1>1, <1>2, <1>3, <2>1 DEF CallState
<1>5. /\ grants'[r] = (grants[r] \ call[c].tuples) \union NewRows(c)
      /\ \A q \in Role \ {r} : grants'[q] = grants[q]
    BY <1>1, <1>2 DEF CommitChange, Deleted, Inserted
<1>6. version'[r] = version[r] + 1 /\ \A q \in Role \ {r} : version'[q] = version[q]
    BY <1>1, <1>2 DEF CommitChange
<1>7. UNCHANGED <<registry, token, boots, earlier, doubtful>>
    BY DEF CommitChange, RecordCommit
<1>8. ~Committed(c) /\ Committed(c)'
    BY <1>2, <1>4 DEF Committed, Answered
<1>9. \A d \in Call \ {c} : Committed(d)' <=> Committed(d)
    BY <1>4 DEF Committed
<1>10. \A d \in Call : Committed(d) => call[d].version <= version[call[d].role]
                                       /\ call[d].role \in Role /\ call[d].version \in Nat
    BY DEF HInv, IInv, TypeOK, CallState, CallSound, Committed, Answered
<1>11. HistoryOK'
    BY <1>1, <1>2, <1>7 DEF HistoryOK, RecordCommit
<1>12. /\ \A q \in Role \ {r} : /\ q \in crossed' <=> q \in crossed
                                /\ q \in unannounced' <=> q \in unannounced
                                /\ q \in mixed' <=> q \in mixed
       /\ r \notin crossed' => Publishing(r) = {} /\ r \notin crossed
       /\ r \notin unannounced' => call'[c].pc = "publish" /\ r \notin unannounced
       /\ r \notin mixed' <=> Slugs(grants'[r]) = call[c].want
    BY DEF RecordCommit
<1> HIDE DEF r
<1>13. RowsSound'
    <2>1. c \notin Unseen'
        <3>1. boots \in 1..MaxBoots /\ MaxBoots \in Nat /\ Call \intersect (0..MaxBoots) = {}
            BY RolesAssumption DEF HInv, IInv, TypeOK
        <3>2. c \notin (boots + 1)..MaxBoots
            BY <3>1
        <3> QED
            BY <3>2, <1>7, <1>8 DEF Unseen
    <2>2. \A t \in NewRows(c) : t.by = c
        BY DEF NewRows
    <2>3. \A q \in Role : \A t \in grants'[q] : t \in grants[q] \/ t \in NewRows(c)
        BY <1>5
    <2> QED
        BY <1>1, <1>7, <2>1, <2>2, <2>3, SeenStaysSeen DEF RowsSound
<1>14. \A d \in Call : \A t \in earlier[d] : t \notin NewRows(c)
    BY <1>1, <1>8 DEF RowsSound, Unseen, NewRows
<1>15. ASSUME NEW d \in Call PROVE Replaces(d)'
    <2>1. CASE d = c
        <3>1. earlier[c] \intersect grants[r] \subseteq call[c].tuples
            BY <1>1, <1>2 DEF Replaces, r
        <3>2. earlier[c] \intersect grants'[r] = {}
            BY <3>1, <1>5, <1>14
        <3>3. NewRows(c)' = NewRows(c)
            BY <1>4 DEF NewRows
        <3> QED
            BY <2>1, <3>2, <3>3, <1>4, <1>5, <1>7 DEF Replaces
    <2>2. CASE d # c
        <3>1. call'[d] = call[d] /\ earlier'[d] = earlier[d] /\ Replaces(d)
            BY <2>2, <1>4, <1>7 DEF HInv
        <3>2. call[d].pc # "idle" => call[d].role \in Role
            BY DEF HInv, IInv, CallSound
        <3>3. NewRows(d)' = NewRows(d)
            BY <3>1 DEF NewRows
        <3>4. CASE call[d].role = r
            <4>1. earlier[d] \intersect grants'[r] \subseteq earlier[d] \intersect grants[r]
                BY <1>5, <1>14
            <4>2. Committed(d) => call[d].version # version'[r]
                BY <1>2, <1>6, <1>10, <3>4
            <4> QED
                BY <2>2, <3>1, <3>4, <4>1, <4>2, <1>9 DEF Replaces
        <3>5. CASE call[d].role \in Role \ {r}
            BY <2>2, <3>1, <3>3, <3>5, <1>5, <1>6, <1>9 DEF Replaces
        <3>6. CASE call[d].pc = "idle"
            BY <2>2, <3>1, <3>6, <1>9 DEF Replaces, Committed, Answered
        <3> QED
            BY <3>2, <3>4, <3>5, <3>6
    <2> QED
        BY <2>1, <2>2
<1>16. ASSUME NEW q \in Role PROVE Ordered(q)' /\ Faithful(q)'
    <2>1. Ordered(q) /\ Faithful(q)
        BY <1>2 DEF HInv
    <2>2. CASE q # r
        <3>1. Publishing(q)' = Publishing(q) /\ c \notin Publishing(q)
            BY <2>2, <1>2, <1>4 DEF Publishing, r
        <3>2. \A d \in Publishing(q) : call'[d] = call[d]
            BY <3>1, <1>4 DEF Publishing
        <3>3. \A d \in Call : call'[d].pc = "ok" => call'[d] = call[d]
            BY <1>4
        <3>4. grants'[q] = grants[q] /\ version'[q] = version[q] /\ registry' = registry
            BY <2>2, <1>5, <1>6, <1>7
        <3>5. q \in Role \ {r}
            BY <2>2
        <3>6. Ordered(q)'
            BY <3>1, <3>2, <3>3, <3>4, <3>5, <2>1, <1>12 DEF Ordered
        <3>7. Faithful(q)'
            BY <3>1, <3>2, <3>4, <3>5, <2>1, <1>12 DEF Faithful
        <3> QED
            BY <3>6, <3>7
    <2>3. CASE q = r
        <3>1. registry[r].version \in Nat /\ registry[r].version <= version[r]
            BY <1>2 DEF HInv, IInv, TypeOK
        <3>2. \A d \in Publishing(q)' : d = c \/ d \in Publishing(q)
            BY <2>3, <1>4 DEF Publishing
        <3>3. Ordered(q)'
            <4> SUFFICES ASSUME q \notin crossed' PROVE Ordered(q)'
                BY DEF Ordered
            <4>1. /\ \A d \in Publishing(q)' : d = c
                  /\ q \notin crossed
                BY <2>3, <3>2, <1>12
            <4>2. call'[c].pc = "publish" => c \in Publishing(q)'
                BY <2>3, <1>4 DEF Publishing
            <4>3. \A d \in Call : call'[d].pc = "ok" => d # c /\ call'[d] = call[d]
                BY <2>3, <1>4
            <4>4. registry[q].version <= call'[c].version /\ call'[c].version = version'[q]
                BY <2>3, <3>1, <1>2, <1>4, <1>6
            <4>5. \A d \in Call : call[d].pc = "ok" /\ call[d].role = q =>
                                        call[d].version <= registry[q].version
                BY <2>3, <4>1, <2>1 DEF Ordered
            <4>6. /\ \A d, e \in Publishing(q)' : d = e
                  /\ \A d \in Publishing(q)' : registry'[q].version <= call'[d].version
                BY <2>3, <4>1, <4>4, <1>7
            <4>7. \A d \in Call : call'[d].pc = "ok" /\ call'[d].role = q =>
                                        call'[d].version <= registry'[q].version
                BY <2>3, <4>3, <4>5, <1>7
            <4>8. q \notin unannounced' =>
                        /\ \A d \in Publishing(q)' : call'[d].version = version'[q]
                        /\ Publishing(q)' # {}
                BY <2>3, <4>1, <4>2, <4>4, <1>12
            <4> QED
                BY <2>3, <4>6, <4>7, <4>8 DEF Ordered
        <3>4. Faithful(q)'
            <4> SUFFICES ASSUME q \notin mixed' PROVE Faithful(q)'
                BY DEF Faithful
            <4>1. Slugs(grants'[q]) = call'[c].want
                BY <2>3, <1>4, <1>12
            <4>2. registry'[q].version # version'[q]
                BY <2>3, <3>1, <1>2, <1>6, <1>7
            <4>3. \A d \in Publishing(q) : Committed(d) /\ call[d].role = q
                BY DEF Publishing, HInv, IInv, CallSound
            <4>4. \A d \in Publishing(q) : call[d].version # version'[q]
                BY <2>3, <4>3, <1>2, <1>6, <1>10 DEF Publishing
            <4>5. \A d \in Publishing(q)' : d = c \/ (d \in Publishing(q) /\ call'[d] = call[d])
                BY <2>3, <3>2, <1>4 DEF Publishing
            <4> QED
                BY <2>3, <4>1, <4>2, <4>4, <4>5 DEF Faithful
        <3> QED
            BY <2>3, <3>3, <3>4
    <2> QED
        BY <2>2, <2>3
<1>17. ASSUME NEW s \in Login PROVE Current(s)'
    <2>1. Current(s) /\ TokenSound(s) /\ token[s] \in LoginState
        BY DEF HInv, IInv, TypeOK
    <2>2. CASE token[s].role = r
        <3>1. token[s].pc = "issued" => token[s].version # version'[r]
            BY <2>1, <2>2, <1>2, <1>6 DEF TokenSound, LoginState
        <3> QED
            BY <2>1, <2>2, <3>1, <1>2, <1>7 DEF Current
    <2>3. CASE token[s].role \in Role \ {r}
        BY <2>1, <2>3, <1>2, <1>5, <1>6, <1>7, <1>12 DEF Current
    <2>4. CASE token[s].pc = "idle"
        BY <2>4, <1>7 DEF Current
    <2> QED
        BY <2>1, <2>2, <2>3, <2>4 DEF TokenSound
<1> QED
    BY <1>11, <1>13, <1>15, <1>16, <1>17 DEF HInv

-----------------------------------------------------------------------------

LEMMA PublishRoleHInv ==
    ASSUME HInv, NEW c \in Call, PublishRole(c), RecordPublication(c), HNext, IInv'
    PROVE  HInv'
<1>1. /\ call \in [Call -> CallState] /\ call[c] \in CallState /\ HistoryOK /\ RowsSound
    BY DEF HInv, IInv, TypeOK
<1>2. /\ call[c].pc = "publish" /\ up /\ up' /\ call[c].role \in Role /\ Committed(c)
      /\ call[c].version <= version[call[c].role] /\ Unpublished(c)
    BY DEF HInv, IInv, CallSound, PublishRole, At
<1>3. /\ call'[c].pc = "ok" /\ call'[c].role = call[c].role /\ call'[c].want = call[c].want
      /\ call'[c].version = call[c].version
      /\ \A d \in Call \ {c} : call'[d] = call[d]
    <2>1. call'[c] = [call[c] EXCEPT !.pc = "ok"]
        BY <1>1 DEF PublishRole, Goto
    <2> QED
        BY <1>1, <2>1 DEF PublishRole, Goto, CallState
<1>4. /\ registry'[call[c].role].perms = call[c].want
      /\ registry'[call[c].role].version = call[c].version
      /\ \A q \in Role \ {call[c].role} : registry'[q] = registry[q]
    BY <1>2 DEF PublishRole, Published, HInv, IInv, TypeOK
<1>5. UNCHANGED <<grants, version, token, boots, earlier, mixed>>
    BY DEF PublishRole, RecordPublication
<1>6. \A d \in Call : Committed(d)' <=> Committed(d)
    BY <1>1, <1>2, <1>3 DEF Committed, Answered
<1>7. Unseen' = Unseen
    BY <1>5, <1>6 DEF Unseen
<1>8. HistoryOK' /\ RowsSound'
    BY <1>1, <1>5, <1>7 DEF HistoryOK, RowsSound, RecordPublication
<1>9. \A q \in Role : q # call[c].role =>
            /\ q \in crossed' <=> q \in crossed
            /\ q \in unannounced' <=> q \in unannounced
    BY DEF RecordPublication
<1>10. ASSUME NEW d \in Call PROVE Replaces(d)'
    <2>1. Replaces(d) /\ NewRows(d)' = NewRows(d)
        BY <1>3 DEF HInv, NewRows
    <2>2. CASE d = c
        BY <2>1, <2>2, <1>3, <1>5, <1>6 DEF Replaces
    <2>3. CASE d # c
        BY <2>1, <2>3, <1>3, <1>5, <1>6 DEF Replaces
    <2> QED
        BY <2>2, <2>3
<1>11. ASSUME NEW q \in Role PROVE Ordered(q)' /\ Faithful(q)'
    <2>1. Ordered(q) /\ Faithful(q)
        BY <1>2 DEF HInv
    <2>2. CASE q # call[c].role
        <3>1. Publishing(q)' = Publishing(q) /\ c \notin Publishing(q)
            BY <2>2, <1>2, <1>3 DEF Publishing
        <3>2. \A d \in Publishing(q) : call'[d] = call[d]
            BY <3>1, <1>3 DEF Publishing
        <3>3. \A d \in Call : call'[d].pc = "ok" /\ call'[d].role = q => call'[d] = call[d]
            BY <2>2, <1>3
        <3>4. grants'[q] = grants[q] /\ version'[q] = version[q] /\ registry'[q] = registry[q]
            BY <2>2, <1>4, <1>5
        <3>5. Ordered(q)'
            BY <3>1, <3>2, <3>3, <3>4, <2>1, <2>2, <1>9 DEF Ordered
        <3>6. Faithful(q)'
            BY <3>1, <3>2, <3>4, <2>1, <1>5 DEF Faithful
        <3> QED
            BY <3>5, <3>6
    <2>3. CASE q = call[c].role
        <3>1. /\ registry'[q].version = call[c].version /\ registry'[q].perms = call[c].want
              /\ version'[q] = version[q]
            BY <2>3, <1>4, <1>5
        <3>2. Publishing(q)' = Publishing(q) \ {c} /\ c \in Publishing(q)
            BY <2>3, <1>2, <1>3 DEF Publishing
        <3>3. \A d \in Publishing(q)' : d # c /\ call'[d] = call[d]
            BY <3>2, <1>3 DEF Publishing
        <3>4. \A d \in Call : call[d].pc = "ok" /\ call[d].role = q =>
                                    call[d].version <= version[q] /\ call[d].version \in Nat
            <4>1. version[q] \in Nat /\ \A d \in Call : call[d].version \in Nat /\ CallSound(d)
                BY <1>1 DEF HInv, IInv, TypeOK, CallState
            <4>2. \A d \in Call : call[d].pc = "ok" /\ call[d].version # 0 => Committed(d)
                BY DEF Committed, Answered
            <4> QED
                BY <4>1, <4>2 DEF CallSound
        <3>5. \A d \in Call : call'[d].pc = "ok" => d = c \/ call'[d] = call[d]
            BY <1>3
        <3>6. call[c].version \in Nat
            BY <1>1 DEF CallState
        <3>7. Ordered(q)'
            <4> SUFFICES ASSUME q \notin crossed' PROVE Ordered(q)'
                BY DEF Ordered
            <4>1. CASE Settles(c)
                <5>1. Publishing(q)' = {} /\ registry'[q].version = version'[q]
                    BY <2>3, <3>1, <3>2, <4>1 DEF Settles
                <5>2. \A d \in Call : call'[d].pc = "ok" /\ call'[d].role = q =>
                                        call'[d].version <= registry'[q].version
                    BY <3>1, <3>4, <3>5, <3>6, <5>1, <1>3
                <5> QED
                    BY <5>1, <5>2 DEF Ordered
            <4>2. CASE ~Settles(c)
                <5>1. q \notin crossed /\ (q \notin unannounced' => q \notin unannounced)
                    BY <4>2 DEF RecordPublication
                <5>2. Publishing(q) = {c}
                    BY <2>1, <3>2, <5>1 DEF Ordered
                <5>3. registry[q].version <= call[c].version /\ registry[q].version \in Nat
                    BY <2>1, <3>2, <5>1 DEF Ordered, HInv, IInv, TypeOK
                <5>4. \A d \in Call : call'[d].pc = "ok" /\ call'[d].role = q =>
                                        call'[d].version <= registry'[q].version
                    <6>1. \A d \in Call : call[d].pc = "ok" /\ call[d].role = q =>
                                        call[d].version <= registry[q].version
                        BY <2>1, <5>1 DEF Ordered
                    <6> QED
                        BY <3>1, <3>4, <3>5, <3>6, <5>3, <6>1, <1>3
                <5>5. q \in unannounced
                    BY <2>1, <2>3, <3>2, <4>2, <5>1, <5>2 DEF Ordered, Settles
                <5> QED
                    BY <3>2, <5>1, <5>2, <5>4, <5>5 DEF Ordered
            <4> QED
                BY <4>1, <4>2
        <3>8. Faithful(q)'
            BY <2>1, <3>1, <3>2, <3>3, <1>5 DEF Faithful
        <3> QED
            BY <3>7, <3>8
    <2> QED
        BY <2>2, <2>3
<1>12. ASSUME NEW s \in Login PROVE Current(s)'
    <2>1. Current(s) /\ TokenSound(s)
        BY DEF HInv, IInv
    <2>2. CASE token[s].role = call[c].role
        <3>1. s \notin doubtful' => s \notin doubtful /\ token[s].pc # "resolving"
            BY <2>2 DEF RecordPublication
        <3>2. token[s].pc = "issued" => token[s].version # registry'[token[s].role].version
            BY <2>2, <1>2, <1>4 DEF Unpublished
        <3> QED
            BY <2>1, <3>1, <3>2, <1>5 DEF Current
    <2>3. CASE token[s].role \in Role \ {call[c].role}
        <3>1. s \notin doubtful' => s \notin doubtful
            BY DEF RecordPublication
        <3> QED
            BY <2>1, <2>3, <3>1, <1>2, <1>4, <1>5 DEF Current
    <2>4. CASE token[s].pc = "idle"
        BY <2>4, <1>5 DEF Current
    <2> QED
        BY <2>1, <2>2, <2>3, <2>4 DEF TokenSound
<1> QED
    BY <1>8, <1>10, <1>11, <1>12 DEF HInv

\* A sign-in moves: only its own token is concerned.
LEMMA SignInMoves ==
    ASSUME HInv, NEW s \in Login, IInv',
           UNCHANGED <<grants, version, registry, call, up, boots,
                       earlier, crossed, unannounced, mixed, doubtful>>,
           \A t \in Login \ {s} : token'[t] = token[t],
           Current(s)'
    PROVE  HInv'
<1>1. Unseen' = Unseen /\ \A r \in Role : Publishing(r)' = Publishing(r)
    BY DEF Unseen, Committed, Publishing
<1>2. HistoryOK' /\ RowsSound'
    BY <1>1 DEF HInv, HistoryOK, RowsSound
<1>3. \A c \in Call : Replaces(c)'
    BY DEF HInv, Replaces, Committed, NewRows
<1>4. up' => \A r \in Role : Ordered(r)' /\ Faithful(r)'
    BY <1>1 DEF HInv, Ordered, Faithful
<1>5. \A t \in Login : Current(t)'
    BY DEF HInv, Current
<1> QED
    BY <1>2, <1>3, <1>4, <1>5 DEF HInv

LEMMA SignInHInv ==
    ASSUME HInv, NEW s \in Login, UNCHANGED history, IInv',
           (\E r \in Role : ResolvePermissions(s, r)) \/ ResolveVersion(s)
    PROVE  HInv'
<1>1. /\ UNCHANGED <<grants, version, registry, call, up, boots>>
      /\ UNCHANGED <<earlier, crossed, unannounced, mixed, doubtful>> /\ up
    BY DEF ResolvePermissions, ResolveVersion, history
<1>2. token \in [Login -> LoginState] /\ token[s] \in LoginState
    BY DEF HInv, IInv, TypeOK
<1>3. \A t \in Login \ {s} : token'[t] = token[t]
    BY <1>2 DEF ResolvePermissions, ResolveVersion
<1>4. Current(s)'
    <2>1. ASSUME NEW r \in Role, ResolvePermissions(s, r) PROVE Current(s)'
        <3>1. /\ token'[s].pc = "resolving" /\ token'[s].role = r
              /\ token'[s].perms = registry[r].perms
            BY <1>2, <2>1 DEF ResolvePermissions
        <3> QED
            BY <3>1, <1>1 DEF Current
    <2>2. ASSUME ResolveVersion(s) PROVE Current(s)'
        <3>1. /\ token'[s].pc = "issued" /\ token'[s].role = token[s].role
              /\ token'[s].perms = token[s].perms /\ token[s].pc = "resolving"
              /\ token'[s].version = registry[token[s].role].version
            BY <1>2, <2>2 DEF ResolveVersion, LoginState
        <3>2. token[s].role \in Role
            BY <3>1 DEF HInv, IInv, TokenSound
        <3>3. Current(s) /\ Faithful(token[s].role)
            BY <3>2, <1>1 DEF HInv
        <3> QED
            BY <3>1, <3>3, <1>1 DEF Current, Faithful
    <2> QED
        BY <2>1, <2>2
<1> QED
    BY <1>1, <1>3, <1>4, SignInMoves

-----------------------------------------------------------------------------

LEMMA CrashHInv ==
    ASSUME HInv, Crash, UNCHANGED history, HNext, IInv'
    PROVE  HInv'
<1>1. /\ UNCHANGED <<grants, version, boots>> /\ up /\ ~up'
      /\ UNCHANGED <<earlier, crossed, unannounced, mixed, doubtful>>
      /\ call \in [Call -> CallState] /\ token \in [Login -> LoginState]
    BY DEF Crash, history, HInv, IInv, TypeOK
<1>2. HistoryOK'
    BY <1>1 DEF HInv, HistoryOK
<1>3. RowsSound'
    BY <1>1, SeenStaysSeen DEF HInv, RowsSound
<1>4. ASSUME NEW c \in Call PROVE Replaces(c)'
    <2>1. Replaces(c) /\ call[c] \in CallState
        BY <1>1 DEF HInv
    <2>2. CASE ~InFlight(c)
        <3>1. call'[c] = call[c]
            BY <2>2 DEF Crash
        <3> QED
            BY <1>1, <2>1, <3>1 DEF Replaces, Committed, NewRows
    <2>3. CASE InFlight(c)
        <3>1. call'[c] = [call[c] EXCEPT !.pc = "lost", !.tuples = {},
                            !.version = IF call[c].pc = "publish" THEN @ ELSE 0]
            BY <2>3 DEF Crash
        <3>2. /\ call'[c].pc = "lost" /\ call'[c].role = call[c].role
              /\ call'[c].want = call[c].want
              /\ call'[c].version = IF call[c].pc = "publish" THEN call[c].version ELSE 0
            BY <2>1, <3>1 DEF CallState
        <3>3. Committed(c)' => Committed(c) /\ call'[c].version = call[c].version
            BY <3>2 DEF Committed
        <3> QED
            BY <1>1, <2>1, <3>2, <3>3 DEF Replaces, NewRows
    <2> QED
        BY <2>2, <2>3
<1>5. ASSUME NEW s \in Login PROVE Current(s)'
    <2>1. Current(s) /\ token[s] \in LoginState
        BY <1>1 DEF HInv
    <2>2. CASE token[s].pc = "resolving"
        <3>1. token'[s] = [token[s] EXCEPT !.pc = "lost"]
            BY <2>2 DEF Crash
        <3>2. token'[s].pc = "lost"
            BY <2>1, <3>1 DEF LoginState
        <3> QED
            BY <3>2 DEF Current
    <2>3. CASE token[s].pc # "resolving"
        <3>1. token'[s] = token[s]
            BY <2>3 DEF Crash
        <3> QED
            BY <1>1, <2>1, <2>3, <3>1 DEF Current
    <2> QED
        BY <2>2, <2>3
<1> QED
    BY <1>1, <1>2, <1>3, <1>4, <1>5 DEF HInv

\* A boot seeds rows nobody has seen, and reads the registry from the tables.
LEMMA BootHInv ==
    ASSUME HInv, Boot, RecordBoot, HNext, IInv'
    PROVE  HInv'
<1>1. /\ UNCHANGED <<version, call, token, earlier>> /\ ~up /\ up' /\ boots' = boots + 1
      /\ crossed' = {} /\ unannounced' = {} /\ mixed' = {}
      /\ grants' = [r \in Role |-> Seeded(r)] /\ registry' = Snapshot(grants')
    BY DEF Boot, RecordBoot
<1>2. boots \in Nat /\ MaxBoots \in Nat /\ Call \intersect (0..MaxBoots) = {} /\ boots + 1 <= MaxBoots
    <2>1. boots \in 1..MaxBoots /\ boots < MaxBoots /\ MaxBoots \in Nat
        BY <1>1, RolesAssumption DEF HInv, IInv, TypeOK
    <2> QED
        BY <2>1, RolesAssumption
<1>3. HistoryOK'
    BY <1>1 DEF HInv, HistoryOK
<1>4. \A r \in Role : \A t \in grants'[r] : t \in grants[r] \/ t.by = boots + 1
    BY <1>1 DEF Seeded
<1>5. boots + 1 \in Unseen /\ boots + 1 \notin Unseen'
    <2>1. boots + 1 \in (boots + 1)..MaxBoots /\ boots + 1 \notin (boots + 1 + 1)..MaxBoots
        BY <1>2
    <2>2. boots + 1 \in 0..MaxBoots
        BY <1>2
    <2>3. boots + 1 \notin Call
        BY <1>2, <2>2
    <2> QED
        BY <1>1, <2>1, <2>3 DEF Unseen
<1>6. RowsSound'
    BY <1>1, <1>4, <1>5, SeenStaysSeen DEF HInv, RowsSound
<1>7. \A c \in Call : ~InFlight(c) /\ (call[c].pc # "idle" => call[c].role \in Role)
    BY <1>1 DEF HInv, IInv, CallSound
<1>8. ASSUME NEW c \in Call PROVE Replaces(c)'
    <2>1. Replaces(c) /\ NewRows(c)' = NewRows(c)
        BY <1>1 DEF HInv, NewRows
    <2>2. call[c].pc \notin {"deleting", "insert", "bump", "commit"}
        BY <1>7 DEF InFlight, Working, Change
    <2>3. ASSUME Committed(c)
          PROVE  /\ earlier[c] \intersect grants'[call[c].role] = {}
                 /\ grants[call[c].role] \subseteq grants'[call[c].role]
        <3>1. call[c].role \in Role
            BY <2>3, <1>7 DEF Committed, Answered
        <3>2. \A t \in earlier[c] : t.by # boots + 1
            BY <1>5 DEF HInv, RowsSound
        <3>3. earlier[c] \intersect grants[call[c].role] = {}
            BY <2>1, <2>3 DEF Replaces
        <3> QED
            BY <3>1, <3>2, <3>3, <1>1, <1>4 DEF Seeded
    <2> QED
        BY <2>1, <2>2, <2>3, <1>1 DEF Replaces, Committed
<1>9. \A r \in Role : /\ registry'[r].version = version[r]
                      /\ registry'[r].perms = Slugs(grants'[r])
    BY <1>1 DEF Snapshot
<1>10. ASSUME NEW r \in Role PROVE Ordered(r)' /\ Faithful(r)'
    <2>1. Publishing(r)' = {}
        BY <1>1, <1>7 DEF Publishing, InFlight, Working
    <2>2. \A c \in Call : call[c].pc = "ok" /\ call[c].role = r =>
                                call[c].version <= version[r]
        <3>1. version[r] \in Nat
              /\ \A c \in Call : call[c].version \in Nat /\ CallSound(c)
            BY DEF HInv, IInv, TypeOK, CallState
        <3>2. \A c \in Call : call[c].pc = "ok" /\ call[c].version # 0 => Committed(c)
            BY DEF Committed, Answered
        <3> QED
            BY <3>1, <3>2 DEF CallSound
    <2> QED
        BY <2>1, <2>2, <1>1, <1>9 DEF Ordered, Faithful
<1>11. ASSUME NEW s \in Login PROVE Current(s)'
    <2>1. Current(s) /\ token[s].pc # "resolving"
          /\ (token[s].pc = "issued" => token[s].role \in Role)
        BY <1>1 DEF HInv, IInv, TokenSound
    <2> SUFFICES ASSUME token[s].pc = "issued", s \notin doubtful',
                        token[s].version = version[token[s].role]
                 PROVE  /\ token[s].perms = registry'[token[s].role].perms
                        /\ token[s].perms = Slugs(grants'[token[s].role])
        BY <1>1, <1>9, <2>1 DEF Current
    <2>2. /\ s \notin doubtful /\ token[s].role \notin mixed
          /\ Seeded(token[s].role) = grants[token[s].role]
        BY <2>1 DEF RecordBoot, Regranted
    <2> QED
        BY <1>1, <1>9, <2>1, <2>2 DEF Current
<1> QED
    BY <1>3, <1>6, <1>8, <1>10, <1>11 DEF HInv

LEMMA HistoryStutter ==
    ASSUME HInv, UNCHANGED <<vars, history>>
    PROVE  HInv'
BY DEF vars, history, HInv, IInv, TypeOK, CallSound, TokenSound, OneLockHolder, VersionsDistinct,
       Unpublished, InFlight, Committed, Others, HistoryOK, RowsSound, Unseen, Replaces, NewRows,
       Ordered, Publishing, Faithful, Current

LEMMA NextHInv == HInv /\ [HNext]_hvars => HInv'
<1> SUFFICES ASSUME HInv, [HNext]_hvars PROVE HInv'
    OBVIOUS
<1>1. CASE UNCHANGED hvars
    BY <1>1, HistoryStutter DEF hvars, vars, history
<1>2. CASE HNext
    <2>1. IInv'
        BY <1>2, HistoryRestrainsNothing, NextInvariant DEF HInv
    <2>2. CASE Alone /\ UNCHANGED history
        BY <2>1, <2>2, TransactionHInv, SignInHInv, HistoryStutter DEF Alone, Quiet
    <2> QED
        BY <1>2, <2>1, <2>2, UpdatePermissionsHInv, CommitChangeHInv, PublishRoleHInv,
           CrashHInv, BootHInv DEF HNext
<1> QED
    BY <1>1, <1>2

\* What the history says of the grants, the registry and the tokens, in every
\* state the service reaches.
THEOREM HistoryInvariance == HSpec => []HInv
    BY InitHInv, NextHInv, PTL DEF HSpec

\* However many changes of a role overlap, what a change found when it came is
\* gone once it is committed, no other change and no boot brings it back, and
\* what the last one asked for is there.
THEOREM ReplacementsStand == HSpec => []ReplacementStands
<1>1. HInv => ReplacementStands
    BY DEF HInv, Replaces, ReplacementStands
<1> QED
    BY <1>1, HistoryInvariance, PTL

\* What a registry at odds with the table takes: a change committed before an
\* earlier one was published, or a COMMIT whose answer was lost.
THEOREM RegistryFollows == HSpec => []RegistryFollowsTable
<1>1. HInv => RegistryFollowsTable
    <2> SUFFICES ASSUME HInv, NEW r \in Role, up
                 PROVE  /\ ~Busy(r) /\ r \notin crossed \union unannounced =>
                                registry[r].version = version[r]
                        /\ registry[r].version = version[r] /\ r \notin mixed =>
                                registry[r].perms = Slugs(grants[r])
        BY DEF RegistryFollowsTable
    <2>1. Ordered(r) /\ Faithful(r)
        BY DEF HInv
    <2>2. ~Busy(r) => Publishing(r) = {}
        BY DEF Busy, Publishing, InFlight, Working
    <2> QED
        BY <2>1, <2>2 DEF Ordered, Faithful
<1> QED
    BY <1>1, HistoryInvariance, PTL

\* Once answered, a change governs, unless publications have crossed.
THEOREM AnsweredChangesGovern == HSpec => []AnsweredChangeGoverns
<1>1. HInv => AnsweredChangeGoverns
    <2> SUFFICES ASSUME HInv, NEW c \in Call, NEW s \in Login, call[c].pc = "ok",
                        token[s].role = call[c].role, token[s].version < call[c].version,
                        call[c].role \notin crossed, Accepts(s)
                 PROVE  FALSE
        BY DEF AnsweredChangeGoverns
    <2>1. /\ call[c].role \in Role /\ up
          /\ registry[call[c].role].version = token[s].version
        BY DEF HInv, IInv, CallSound, Accepts
    <2>2. call[c].version <= token[s].version
        BY <2>1 DEF HInv, Ordered
    <2>3. call[c].version \in Nat /\ token[s].version \in Nat
        BY DEF HInv, IInv, TypeOK, CallState, LoginState
    <2> QED
        BY <2>2, <2>3
<1> QED
    BY <1>1, HistoryInvariance, PTL

\* A token that is accepted without doubt carries the permissions in force.
THEOREM AcceptedTokensCurrent == HSpec => []AcceptedTokensAreCurrent
<1>1. HInv => AcceptedTokensAreCurrent
    BY DEF HInv, Current, Accepts, AcceptedTokensAreCurrent
<1> QED
    BY <1>1, HistoryInvariance, PTL

=============================================================================
