------------------------------ MODULE Accounts ------------------------------
(***************************************************************************)
(* User accounts, the link tokens mailed to their owners, and the block    *)
(* list the token guard reads: the state the auth and users services       *)
(* change between them.                                                    *)
(*                                                                         *)
(* Every handler that changes an account reads the row, computes, and then *)
(* writes EVERY column back (GORM's Save), in separate statements with no  *)
(* transaction around them and, for a password, a bcrypt hash in between.  *)
(* So a handler is modelled as one job with its own copy of the row, and   *)
(* the statements of different jobs interleave.                            *)
(***************************************************************************)
EXTENDS Naturals, FiniteSets

CONSTANTS
    User,       \* e-mail addresses, each naming at most one account
    Name,       \* usernames
    Password,   \* passwords; a stored hash is identified with its password
    Link,       \* link tokens that can be minted (bounds how many are)
    Job,        \* HTTP requests, each served once (bounds how many arrive)
    Kinds,      \* the kinds of request that arrive
    Faults,     \* what may go wrong: see FaultKind
    MaxBoots,   \* how many times the process starts
    None        \* no row, no link, no user

Status == {"inactive", "active", "suspended"}

Purpose == {"email_verification", "password_reset"}

Kind == {"Register", "Login", "VerifyEmail", "RequestPasswordReset",
         "ResetPassword", "ChangePassword", "UpdateProfile", "UpdateStatus"}

\* write_fails: a statement fails and leaves the database alone.
\* ack_lost: a write commits and its caller is told that it failed.
\* crash: the process dies, and with it everything it holds in memory.
FaultKind == {"write_fails", "ack_lost", "crash"}

Row == [status: Status, password: Password, verified: BOOLEAN, name: Name]

LinkRow == [user: User, purpose: Purpose, spent: BOOLEAN, expired: BOOLEAN]

Working == {"create", "claim", "load", "retire", "issue", "save", "publish"}

Answered == {"ok", "refused", "gone", "error", "lost"}

\* link is the link a job presents until it loses it, copy the row it is about
\* to write or has written, boot the process that serves it.
JobState == [kind: Kind \union {"none"}, pc: {"idle"} \union Working \union Answered,
             user: User \union {None}, link: Link \union {None},
             copy: Row \union {None}, boot: Nat]

ASSUME AccountsAssumption ==
    /\ Kinds \subseteq Kind
    /\ Faults \subseteq FaultKind
    /\ MaxBoots \in Nat \ {0}
    /\ None \notin User \union Link \union Row \union LinkRow

VARIABLES
    row,      \* the users table: row[u] is None until u is registered
    link,     \* the verification_tokens table
    blocked,  \* the suspended set of the permission registry (memory)
    job,      \* the requests in progress, and the answers given
    up,       \* whether the process has warmed up and serves requests
    boots     \* how many times it has started

vars == <<row, link, blocked, job, up, boots>>

-----------------------------------------------------------------------------
(* The tables. *)

Exists(u) == row[u] # None

\* The unique index on users.username, for a row of u that would carry n.
NameFree(u, n) == \A v \in User \ {u} : Exists(v) => row[v].name # n

Suspended(u) == Exists(u) /\ row[u].status = "suspended"

Outstanding(l) == link[l] # None /\ ~link[l].spent

LinksOf(u, p) == {l \in Link : link[l] # None /\ link[l].user = u /\ link[l].purpose = p}

UnusedLinks == {l \in Link : link[l] = None}

-----------------------------------------------------------------------------
(* Requests. *)

Idle == [kind |-> "none", pc |-> "idle", user |-> None, link |-> None,
         copy |-> None, boot |-> 0]

InFlight(j) == job[j].pc \in Working

Busy(u) == \E j \in Job : InFlight(j) /\ job[j].user = u

At(j, kinds, pc) == job[j].kind \in kinds /\ job[j].pc = pc /\ up

\* A request of kind k about user u reaches its handler.
Arrives(j, k, u) ==
    /\ up
    /\ job[j].pc = "idle"
    /\ k \in Kinds

Start(j, k, u, l, c, pc) ==
    job' = [job EXCEPT ![j] = [kind |-> k, pc |-> pc, user |-> u, link |-> l,
                               copy |-> c, boot |-> boots]]

Goto(j, pc) == job' = [job EXCEPT ![j].pc = pc]

\* A write that committed: its caller learns so, or is told it failed.
Acked(j, good, bad) == Goto(j, good) \/ ("ack_lost" \in Faults /\ Goto(j, bad))

Load(j, c, pc) == job' = [job EXCEPT ![j].copy = c, ![j].pc = pc]

\* A link the job never won is no longer its business.
Forget(j, pc) == job' = [job EXCEPT ![j].link = None, ![j].pc = pc]

\* Bound: a request that mints a link arrives only while one is left for it.
LinkLeft ==
    Cardinality({j \in Job : job[j].pc \in {"create", "retire", "issue"}})
        < Cardinality(UnusedLinks)

-----------------------------------------------------------------------------
(* Register: look the address and the username up, insert, mint a link.    *)
(* The two lookups are one step: they are advisory, and the unique indexes *)
(* decide at the insert whatever the lookups saw.                          *)

Register(j, u, p, n) ==
    /\ Arrives(j, "Register", u)
    /\ LinkLeft
    /\ LET fresh == [status |-> "inactive", password |-> p,
                     verified |-> FALSE, name |-> n]
       IN Start(j, "Register", u, None, fresh,
                IF ~Exists(u) /\ NameFree(u, n) THEN "create" ELSE "refused")
    /\ UNCHANGED <<row, link, blocked, up, boots>>

\* The insert, and the unique indexes on email and username.
MayInsert(u, n) == ~Exists(u) /\ NameFree(u, n)

CreateAccount(j) ==
    /\ At(j, {"Register"}, "create")
    /\ LET u == job[j].user
           c == job[j].copy
       IN IF MayInsert(u, c.name)
            THEN /\ row' = [row EXCEPT ![u] = c]
                 /\ Acked(j, "issue", "error")
            ELSE /\ Goto(j, "refused")
                 /\ UNCHANGED row
    /\ UNCHANGED <<link, blocked, up, boots>>

\* A registration stands even when its link could not be issued.
AfterFailedIssue(k) == IF k = "Register" THEN "ok" ELSE "error"

\* issueLinkToken, for the two handlers that mail a link. Whether the mail is
\* then delivered changes no answer; an undelivered link is one nobody presents.
IssueLink(j) ==
    /\ At(j, {"Register", "RequestPasswordReset"}, "issue")
    /\ \E l \in UnusedLinks :
        link' = [link EXCEPT ![l] =
            [user |-> job[j].user,
             purpose |-> IF job[j].kind = "Register" THEN "email_verification"
                                                     ELSE "password_reset",
             spent |-> FALSE, expired |-> FALSE]]
    /\ Acked(j, "ok", AfterFailedIssue(job[j].kind))
    /\ UNCHANGED <<row, blocked, up, boots>>

-----------------------------------------------------------------------------
(* Login: the state of the account, then the password, then the row is     *)
(* written back for last_login_at (and a re-hash of the same password),    *)
(* neither of which a property here tells apart.                           *)

Login(j, u, p) ==
    /\ Arrives(j, "Login", u)
    /\ IF Exists(u) /\ row[u].status = "active" /\ row[u].password = p
         THEN Start(j, "Login", u, None, row[u], "save")
         ELSE Start(j, "Login", u, None, None, "refused")
    /\ UNCHANGED <<row, link, blocked, up, boots>>

-----------------------------------------------------------------------------
(* The two handlers that redeem a link: verify it, claim it, load the row. *)

Redeems(k) == CASE k = "VerifyEmail" -> "email_verification"
                [] k = "ResetPassword" -> "password_reset"

\* Mutant: a link of either kind opens either door.
AnyPurpose(k, l) == ~link[l].expired

\* VerifyToken and FindByFingerprint: expiry, and a recorded row for the purpose.
Acceptable(k, l) == ~link[l].expired /\ link[l].purpose = Redeems(k)

PresentLink(j, k, l) ==
    /\ link[l] # None
    /\ Arrives(j, k, link[l].user)
    /\ LET u == link[l].user
       IN IF Acceptable(k, l)
            THEN Start(j, k, u, l, None, "claim")
            ELSE Start(j, k, u, None, None, "refused")
    /\ UNCHANGED <<row, link, blocked, up, boots>>

\* Mutant: check-then-act, the race the predicate in the UPDATE is there for.
AlwaysClaimable(l) == TRUE

\* WHERE consumed_at IS NULL.
Claimable(l) == ~link[l].spent

ClaimLink(j) ==
    /\ At(j, {"VerifyEmail", "ResetPassword"}, "claim")
    /\ LET l == job[j].link
       IN IF Claimable(l)
            THEN /\ link' = [link EXCEPT ![l].spent = TRUE]
                 /\ \/ Goto(j, "load")
                    \/ "ack_lost" \in Faults /\ Forget(j, "error")
            ELSE /\ Forget(j, "gone")
                 /\ UNCHANGED link
    /\ UNCHANGED <<row, blocked, up, boots>>

\* Mutant: proving the address activates whatever the row said.
ActivatedAlways(s) == "active"

\* The status a proof of the address leads to: it activates a fresh account
\* and leaves an administrator's decision alone.
Activated(s) == IF s = "inactive" THEN "active" ELSE s

VerifyEmail(j) ==
    /\ At(j, {"VerifyEmail"}, "load")
    /\ LET r == row[job[j].user]
       IN IF r.verified
            THEN Goto(j, "ok")
            ELSE Load(j, [r EXCEPT !.verified = TRUE, !.status = Activated(@)], "save")
    /\ UNCHANGED <<row, link, blocked, up, boots>>

\* A suspended account is refused here, after its link has been spent. The
\* request's new password p is chosen where it is first used.
ResetPassword(j, p) ==
    /\ At(j, {"ResetPassword"}, "load")
    /\ LET r == row[job[j].user]
       IN IF r.status = "suspended"
            THEN Goto(j, "refused")
            ELSE Load(j, [r EXCEPT !.password = p, !.verified = TRUE,
                                   !.status = Activated(@)], "save")
    /\ UNCHANGED <<row, link, blocked, up, boots>>

-----------------------------------------------------------------------------
(* RequestPasswordReset: acknowledge whatever the lookup finds; for a live *)
(* account, retire its outstanding reset links and mint a new one.         *)

RequestPasswordReset(j, u) ==
    /\ Arrives(j, "RequestPasswordReset", u)
    /\ LinkLeft
    /\ Start(j, "RequestPasswordReset", u, None, None,
             IF Exists(u) /\ row[u].status # "suspended" THEN "retire" ELSE "ok")
    /\ UNCHANGED <<row, link, blocked, up, boots>>

\* Mutant: a new link leaves the earlier ones alone.
NothingRetired(u) == {}

\* The links InvalidateOutstanding stamps; stamping a spent one again is no
\* change of this model.
Retired(u) == LinksOf(u, "password_reset")

RetireLinks(j) ==
    /\ At(j, {"RequestPasswordReset"}, "retire")
    /\ link' = [l \in Link |-> IF l \in Retired(job[j].user)
                                 THEN [link[l] EXCEPT !.spent = TRUE] ELSE link[l]]
    /\ Acked(j, "issue", "error")
    /\ UNCHANGED <<row, blocked, up, boots>>

(* The authenticated handlers. The token guard admits their caller unless  *)
(* the registry blocks the account; the row's own status is not consulted. *)

Admitted(u) == Exists(u) /\ u \notin blocked

ChangePassword(j, u, p) ==
    /\ Admitted(u)
    /\ Arrives(j, "ChangePassword", u)
    /\ \/ Start(j, "ChangePassword", u, None, [row[u] EXCEPT !.password = p], "save")
       \/ Start(j, "ChangePassword", u, None, None, "refused")  \* wrong current password
    /\ UNCHANGED <<row, link, blocked, up, boots>>

\* Mutant: the column left out of the request is written as empty.
BlankedRow(r, n) == [r EXCEPT !.name = n, !.password = None]

\* Only the fields present in the request are touched.
Renamed(r, n) == [r EXCEPT !.name = n]

\* GetByID and FindByUsername are one step, for the reason given at Register.
UpdateProfile(j, u, n) ==
    /\ Admitted(u)
    /\ Arrives(j, "UpdateProfile", u)
    /\ IF NameFree(u, n)
         THEN Start(j, "UpdateProfile", u, None, Renamed(row[u], n), "save")
         ELSE Start(j, "UpdateProfile", u, None, None, "refused")
    /\ UNCHANGED <<row, link, blocked, up, boots>>

\* An administrator's request about u; who the administrator is does not matter.
UpdateStatus(j, u, s) ==
    /\ Exists(u)
    /\ Arrives(j, "UpdateStatus", u)
    /\ Start(j, "UpdateStatus", u, None, [row[u] EXCEPT !.status = s], "save")
    /\ UNCHANGED <<row, link, blocked, up, boots>>

-----------------------------------------------------------------------------
(* Update: the whole row is written, or the username's unique index        *)
(* refuses it.                                                             *)

Savers == {"Login", "VerifyEmail", "ResetPassword", "ChangePassword",
           "UpdateProfile", "UpdateStatus"}

\* Only UpdateStatus has something left to do once the row is written.
AfterSave(k) == IF k = "UpdateStatus" THEN "publish" ELSE "ok"

\* A login does not fail over its bookkeeping.
AfterFailedSave(k) == IF k = "Login" THEN "ok" ELSE "error"

\* The unique index on users.username, at an UPDATE.
MayUpdate(u, n) == NameFree(u, n)

SaveRow(j) ==
    /\ At(j, Savers, "save")
    /\ LET u == job[j].user
           c == job[j].copy
           k == job[j].kind
       IN IF MayUpdate(u, c.name)
            THEN /\ row' = [row EXCEPT ![u] = c]
                 /\ Acked(j, AfterSave(k), AfterFailedSave(k))
            ELSE /\ Goto(j, AfterFailedSave(k))
                 /\ UNCHANGED row
    /\ UNCHANGED <<link, blocked, up, boots>>

\* Mutant: the row says suspended and the next request is still served.
RowOnly(u, s) == IF s = "suspended" THEN blocked ELSE blocked \ {u}

\* The block list follows the row: suspended blocks, anything else restores.
Published(u, s) == IF s = "suspended" THEN blocked \union {u} ELSE blocked \ {u}

PublishStatus(j) ==
    /\ At(j, {"UpdateStatus"}, "publish")
    /\ blocked' = Published(job[j].user, job[j].copy.status)
    /\ Goto(j, "ok")
    /\ UNCHANGED <<row, link, up, boots>>

-----------------------------------------------------------------------------
(* Faults, restarts, time.                                                 *)

\* A statement of job j fails: the database is unreachable, or the request's
\* deadline has passed. A claim that fails has claimed nothing.
StatementFails(j) ==
    /\ "write_fails" \in Faults
    /\ up
    /\ CASE job[j].pc = "claim" -> Forget(j, "error")
         [] job[j].pc \in {"create", "load", "retire"} -> Goto(j, "error")
         [] job[j].pc = "issue" -> Goto(j, AfterFailedIssue(job[j].kind))
         [] job[j].pc = "save" -> Goto(j, AfterFailedSave(job[j].kind))
         [] OTHER -> FALSE
    /\ UNCHANGED <<row, link, blocked, up, boots>>

\* The process dies: its requests are never answered and its memory is gone.
Crash ==
    /\ "crash" \in Faults
    /\ up
    /\ boots < MaxBoots
    /\ up' = FALSE
    /\ blocked' = {}
    /\ job' = [j \in Job |->
                IF ~InFlight(j) THEN job[j]
                ELSE [job[j] EXCEPT !.pc = "lost",
                        !.link = IF job[j].pc = "claim" THEN None ELSE @]]
    /\ UNCHANGED <<row, link, boots>>

\* Mutant: the warm-up loads roles and grants only.
NobodySuspended == {}

SuspendedUserIDs == {u \in User : Suspended(u)}

\* The next process rebuilds the block list from the table before it serves.
WarmUp ==
    /\ ~up
    /\ up' = TRUE
    /\ boots' = boots + 1
    /\ blocked' = SuspendedUserIDs
    /\ UNCHANGED <<row, link, job>>

LinkExpires(l) ==
    /\ Outstanding(l) /\ ~link[l].expired
    /\ link' = [link EXCEPT ![l].expired = TRUE]
    /\ UNCHANGED <<row, blocked, job, up, boots>>

\* Nothing is in flight, and nothing need arrive.
Quiet ==
    /\ up
    /\ \A j \in Job : ~InFlight(j)
    /\ UNCHANGED vars

-----------------------------------------------------------------------------
(* Init admits every account and every unspent link the handlers leave     *)
(* behind when nothing overlaps, with the block list in step with the      *)
(* rows; it stands for the history before the requests that are modelled.  *)

Init ==
    /\ row \in [User -> Row \union {None}]
    /\ \A u \in User : Exists(u) => NameFree(u, row[u].name)
    /\ link \in [Link -> {None} \union
            [user: {u \in User : Exists(u)}, purpose: Purpose,
             spent: {FALSE}, expired: {FALSE}]]
    /\ \A u \in User : \A p \in Purpose : \A l, m \in LinksOf(u, p) : l = m
    /\ blocked = SuspendedUserIDs
    /\ job = [j \in Job |-> Idle]
    /\ up = TRUE
    /\ boots = 1

Step(j) ==
    \/ CreateAccount(j) \/ IssueLink(j) \/ ClaimLink(j) \/ VerifyEmail(j)
    \/ \E p \in Password : ResetPassword(j, p)
    \/ RetireLinks(j) \/ SaveRow(j) \/ PublishStatus(j)

Arrival(j) ==
    \/ \E u \in User :
        \/ RequestPasswordReset(j, u)
        \/ \E p \in Password : Login(j, u, p) \/ ChangePassword(j, u, p)
        \/ \E p \in Password, n \in Name : Register(j, u, p, n)
        \/ \E n \in Name : UpdateProfile(j, u, n)
        \/ \E s \in Status : UpdateStatus(j, u, s)
    \/ \E l \in Link : \E k \in {"VerifyEmail", "ResetPassword"} : PresentLink(j, k, l)

Next ==
    \/ \E j \in Job : Arrival(j) \/ Step(j) \/ StatementFails(j)
    \/ \E l \in Link : LinkExpires(l)
    \/ Crash \/ WarmUp \/ Quiet

\* A handler's goroutine runs on, and a process that is down is restarted.
Fairness == /\ \A j \in Job : WF_vars(Step(j))
            /\ WF_vars(WarmUp)

Spec == Init /\ [][Next]_vars /\ Fairness

-----------------------------------------------------------------------------
(* Properties.                                                             *)

TypeOK ==
    /\ row \in [User -> Row \union {None}]
    /\ link \in [Link -> LinkRow \union {None}]
    /\ blocked \subseteq User
    /\ job \in [Job -> JobState]
    /\ up \in BOOLEAN
    /\ boots \in 1..MaxBoots

\* Job j's conditional update is the one that spent the link it holds.
Won(j) == job[j].link # None /\ job[j].pc # "claim"

\* A link is redeemed at most once, however many requests carry it at the same
\* time: the point of consumeToken's conditional update.
LinkRedeemedOnce ==
    \A j, k \in Job : Won(j) /\ Won(k) /\ job[j].link = job[k].link => j = k

\* What a won link lets a request do is decided by the link: it acts on the
\* account the link was minted for, and for the purpose it was minted for.
RedeemedAsMinted ==
    \A j \in Job : Won(j) =>
        LET l == job[j].link
        IN /\ link[l] # None /\ link[l].spent
           /\ link[l].user = job[j].user
           /\ link[l].purpose = Redeems(job[j].kind)

\* An answered suspension: the administrator was told the account is blocked.
SuspensionAnswered(j) ==
    job[j].kind = "UpdateStatus" /\ job[j].pc = "ok" /\ job[j].copy.status = "suspended"

RestoreAnswered(j) ==
    job[j].kind = "UpdateStatus" /\ job[j].pc = "ok" /\ job[j].copy.status # "suspended"

\* Once an administrator has been told an account is suspended, the guard of
\* that process refuses its bearer until a restore of it is answered, whatever
\* the handlers that still hold the old row write back in the meantime.
AcknowledgedSuspensionHolds ==
    \A j \in Job :
        SuspensionAnswered(j) /\ up /\ job[j].boot = boots =>
            \/ job[j].user \in blocked
            \/ \E k \in Job : /\ RestoreAnswered(k)
                              /\ job[k].user = job[j].user /\ job[k].boot = boots

\* An account whose suspension was answered stays suspended in the table while
\* no other administrative request touches it.
SuspensionSticks ==
    \A j \in Job :
        SuspensionAnswered(j) =>
            \/ Suspended(job[j].user)
            \/ \E k \in Job \ {j} : /\ job[k].kind = "UpdateStatus"
                                    /\ job[k].user = job[j].user

\* "Writing "suspended" to a row while every outstanding token keeps working is
\* not a suspension": with nothing in flight for a suspended account, the guard
\* refuses its bearer.
SuspendedIsBlocked ==
    \A u \in User : up /\ ~Busy(u) /\ Suspended(u) => u \in blocked

\* "Issuing a new reset link must retire the previous one": of the reset links a
\* user was ever mailed, at most one still works.
OneLiveResetLink ==
    \A u \in User : \A l, m \in LinksOf(u, "password_reset") :
        Outstanding(l) /\ Outstanding(m) => l = m

\* A suspension that has been written reaches the guard, by the handler that
\* wrote it or, if the process dies in between, by the next warm-up, unless the
\* row is written again and is not suspended any more.
WrittenSuspensionTakesEffect ==
    \A j \in Job, u \in User :
        (job[j].pc = "publish" /\ job[j].user = u /\ job[j].copy.status = "suspended")
            ~> (u \in blocked \/ ~Suspended(u))

\* The links table and the handlers over it implement single-use links: no
\* interleaving of claims, retirements, lost answers and crashes redeems a link
\* twice or brings a retired one back.
Links == INSTANCE SingleUseLinks WITH
    Request <- Job,
    state <- [l \in Link |-> IF link[l] = None THEN "unissued"
                            ELSE IF link[l].spent THEN "spent" ELSE "live"],
    winners <- [l \in Link |-> {j \in Job : Won(j) /\ job[j].link = l}]

LinksAreSingleUse == Links!Spec

=============================================================================
