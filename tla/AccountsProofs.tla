--------------------------- MODULE AccountsProofs ---------------------------
(***************************************************************************)
(* Proofs about Accounts, for any number of users, links and requests, any *)
(* faults and any interleaving.                                            *)
(***************************************************************************)
EXTENDS Accounts, TLAPS

\* What the program counter of a job says about the rest of it.
JobSound(j) ==
    /\ job[j].pc # "idle" => job[j].user \in User
    /\ job[j].pc \in {"load", "retire", "issue", "save", "publish"} => Exists(job[j].user)
    /\ job[j].pc \in {"create", "save", "publish"} => job[j].copy \in Row
    /\ job[j].pc = "claim" => job[j].link # None
    /\ job[j].pc = "idle" => job[j].link = None

\* What holding a link says about the link.
HeldLinkSound(j) ==
    job[j].link # None =>
        /\ job[j].kind \in {"VerifyEmail", "ResetPassword"}
        /\ link[job[j].link] # None
        /\ link[job[j].link].user = job[j].user
        /\ link[job[j].link].purpose = Redeems(job[j].kind)
        /\ job[j].pc # "claim" => link[job[j].link].spent

\* The inductive invariant: TypeOK alone says nothing about the row and the
\* link a job in progress works on, which its next statement relies on.
IInv ==
    /\ TypeOK
    /\ \A j \in Job : JobSound(j) /\ HeldLinkSound(j)
    /\ \A l \in Link : link[l] # None => Exists(link[l].user)
    /\ ~up => boots < MaxBoots
    /\ LinkRedeemedOnce

-----------------------------------------------------------------------------

LEMMA NewRow ==
    ASSUME NEW r \in Row, NEW p \in Password, NEW n \in Name, NEW s \in Status
    PROVE  /\ [r EXCEPT !.password = p] \in Row
           /\ Renamed(r, n) \in Row
           /\ [r EXCEPT !.status = s] \in Row
           /\ [r EXCEPT !.verified = TRUE, !.status = Activated(@)] \in Row
           /\ [r EXCEPT !.password = p, !.verified = TRUE, !.status = Activated(@)] \in Row
    BY DEF Row, Status, Renamed, Activated

\* The tables only gain rows, and a link only ever goes from unspent to spent.
TablesGrow ==
    /\ row' \in [User -> Row \union {None}]
    /\ link' \in [Link -> LinkRow \union {None}]
    /\ \A u \in User : Exists(u) => row'[u] # None
    /\ \A l \in Link : link[l] # None =>
            /\ link'[l] # None
            /\ link'[l].user = link[l].user
            /\ link'[l].purpose = link[l].purpose
            /\ link[l].spent => link'[l].spent

\* A step of one job j keeps the invariant if the tables grow, the job is left
\* sound, and any link it comes to have won was won by nobody before.
LEMMA OneJobMoves ==
    ASSUME IInv, NEW j \in Job, TablesGrow,
           job' \in [Job -> JobState],
           \A k \in Job \ {j} : job'[k] = job[k],
           JobSound(j)', HeldLinkSound(j)',
           \A l \in Link : link'[l] # None => row'[link'[l].user] # None,
           job'[j].link # None /\ job'[j].pc # "claim" =>
               \/ Won(j) /\ job'[j].link = job[j].link
               \/ \A k \in Job \ {j} : Won(k) => job[k].link # job'[j].link,
           blocked' \subseteq User, UNCHANGED <<up, boots>>
    PROVE  IInv'
    <1>1. ASSUME NEW k \in Job, k # j
          PROVE  JobSound(k)' /\ HeldLinkSound(k)'
        <2>1. job'[k] = job[k] /\ job[k] \in JobState /\ JobSound(k) /\ HeldLinkSound(k)
            BY <1>1 DEF IInv, TypeOK
        <2>2. JobSound(k)'
            BY <2>1 DEF JobSound, TablesGrow, Exists, JobState
        <2>3. HeldLinkSound(k)'
            BY <2>1 DEF HeldLinkSound, TablesGrow, JobState
        <2>4. QED
            BY <2>2, <2>3
    <1>2. LinkRedeemedOnce'
        <2> SUFFICES ASSUME NEW k \in Job, NEW m \in Job,
                            Won(k)', Won(m)', job'[k].link = job'[m].link, k # m
                     PROVE  FALSE
            BY DEF LinkRedeemedOnce
        <2>1. CASE k # j /\ m # j
            BY <2>1 DEF IInv, LinkRedeemedOnce, Won
        <2>2. CASE k = j
            BY <2>2 DEF IInv, LinkRedeemedOnce, Won
        <2>3. CASE m = j
            BY <2>3 DEF IInv, LinkRedeemedOnce, Won
        <2>4. QED
            BY <2>1, <2>2, <2>3
    <1>3. TypeOK'
        BY DEF TypeOK, TablesGrow, IInv
    <1>4. QED
        BY <1>1, <1>2, <1>3 DEF IInv, Exists

LEMMA InitIInv == Init => IInv
    <1> SUFFICES ASSUME Init PROVE IInv
        OBVIOUS
    <1> USE AccountsAssumption DEF Init
    <1>1. TypeOK
        <2>1. link \in [Link -> LinkRow \union {None}]
            BY DEF LinkRow
        <2>2. job \in [Job -> JobState]
            BY DEF Idle, JobState
        <2>3. blocked \subseteq User
            BY DEF SuspendedUserIDs
        <2>4. QED
            BY <2>1, <2>2, <2>3 DEF TypeOK
    <1>2. \A j \in Job : JobSound(j) /\ HeldLinkSound(j) /\ job[j].link = None
        BY DEF JobSound, HeldLinkSound, Idle
    <1>3. \A l \in Link : link[l] # None => Exists(link[l].user)
        OBVIOUS
    <1>4. QED
        BY <1>1, <1>2, <1>3 DEF IInv, LinkRedeemedOnce, Won


-----------------------------------------------------------------------------
(* The handlers, one lemma each.                                           *)

LEMMA ArrivalIInv ==
    ASSUME IInv, NEW j \in Job, NEW t \in JobState,
           job[j].pc = "idle", job' = [job EXCEPT ![j] = t],
           t.user \in User,
           t.pc \in {"claim", "retire", "save", "create"} \union Answered,
           t.pc \in {"retire", "save"} => Exists(t.user),
           t.pc \in {"create", "save"} => t.copy \in Row,
           t.pc # "claim" => t.link = None,
           t.pc = "claim" =>
                /\ t.link # None /\ link[t.link] # None
                /\ t.kind \in {"VerifyEmail", "ResetPassword"}
                /\ link[t.link].user = t.user
                /\ link[t.link].purpose = Redeems(t.kind),
           UNCHANGED <<row, link, blocked, up, boots>>
    PROVE  IInv'
    <1>1. TablesGrow
        BY DEF TablesGrow, IInv, TypeOK, Exists
    <1>2. job' \in [Job -> JobState] /\ job'[j] = t /\ \A k \in Job \ {j} : job'[k] = job[k]
        BY DEF IInv, TypeOK
    <1>3. JobSound(j)'
        BY <1>2 DEF JobSound, Exists, Answered
    <1>4. HeldLinkSound(j)'
        BY <1>2 DEF HeldLinkSound
    <1>5. QED
        BY <1>1, <1>2, <1>3, <1>4, OneJobMoves DEF IInv, TypeOK, Exists

LEMMA RegisterIInv ==
    ASSUME IInv, NEW j \in Job, NEW u \in User, NEW p \in Password, NEW n \in Name,
           Register(j, u, p, n)
    PROVE  IInv'
    <1> DEFINE c == [status |-> "inactive", password |-> p, verified |-> FALSE, name |-> n]
               pc == IF ~Exists(u) /\ NameFree(u, n) THEN "create" ELSE "refused"
               t == [kind |-> "Register", pc |-> pc, user |-> u, link |-> None,
                     copy |-> c, boot |-> boots]
    <1>1. c \in Row
        BY DEF Row, Status
    <1>2. t \in JobState
        BY <1>1, AccountsAssumption DEF JobState, Kind, Working, Answered, IInv, TypeOK
    <1>3. QED
        BY <1>1, <1>2, ArrivalIInv DEF Register, Arrives, Start, Answered

LEMMA LoginIInv ==
    ASSUME IInv, NEW j \in Job, NEW u \in User, NEW p \in Password, Login(j, u, p)
    PROVE  IInv'
    <1>1. job'[j] \in JobState /\ job' = [job EXCEPT ![j] = job'[j]]
        BY AccountsAssumption DEF Login, Start, JobState, Kind, Working, Answered,
                                  IInv, TypeOK, Exists
    <1>2. QED
        BY <1>1, ArrivalIInv DEF Login, Arrives, Start, Answered, IInv, TypeOK, Exists

LEMMA PresentLinkIInv ==
    ASSUME IInv, NEW j \in Job, NEW k \in {"VerifyEmail", "ResetPassword"}, NEW l \in Link,
           PresentLink(j, k, l)
    PROVE  IInv'
    <1>1. link[l] \in LinkRow /\ link[l].user \in User /\ l # None
        BY AccountsAssumption DEF PresentLink, IInv, TypeOK, LinkRow
    <1>2. job'[j] \in JobState /\ job' = [job EXCEPT ![j] = job'[j]]
        BY <1>1, AccountsAssumption DEF PresentLink, Start, JobState, Kind, Working, Answered,
                                  IInv, TypeOK
    <1>3. QED
        BY <1>1, <1>2, ArrivalIInv DEF PresentLink, Acceptable, Arrives, Start, Answered, IInv, TypeOK

LEMMA RequestPasswordResetIInv ==
    ASSUME IInv, NEW j \in Job, NEW u \in User, RequestPasswordReset(j, u)
    PROVE  IInv'
    <1>1. job'[j] \in JobState /\ job' = [job EXCEPT ![j] = job'[j]]
        BY SMTT(30), AccountsAssumption DEF RequestPasswordReset, Start, JobState, Kind, Working, Answered,
                                  IInv, TypeOK
    <1>2. /\ job[j].pc = "idle" /\ job'[j].user = u /\ job'[j].link = None
          /\ job'[j].pc \in {"retire", "ok"}
          /\ job'[j].pc = "retire" => Exists(u)
        BY DEF RequestPasswordReset, Arrives, Start, IInv, TypeOK
    <1>3. UNCHANGED <<row, link, blocked, up, boots>> /\ up
        BY DEF RequestPasswordReset, Arrives
    <1>4. QED
        BY <1>1, <1>2, <1>3, ArrivalIInv DEF Answered

LEMMA ChangePasswordIInv ==
    ASSUME IInv, NEW j \in Job, NEW u \in User, NEW p \in Password, ChangePassword(j, u, p)
    PROVE  IInv'
    <1>1. row[u] \in Row /\ [row[u] EXCEPT !.password = p] \in Row
        BY DEF ChangePassword, Admitted, Exists, IInv, TypeOK, Row
    <1>2. job'[j] \in JobState /\ job' = [job EXCEPT ![j] = job'[j]]
        BY <1>1, AccountsAssumption DEF ChangePassword, Start, JobState, Kind, Working, Answered,
                                  IInv, TypeOK
    <1>3. QED
        BY <1>1, <1>2, ArrivalIInv DEF ChangePassword, Admitted, Arrives, Start, Answered, IInv, TypeOK

LEMMA UpdateProfileIInv ==
    ASSUME IInv, NEW j \in Job, NEW u \in User, NEW n \in Name, UpdateProfile(j, u, n)
    PROVE  IInv'
    <1>1. Renamed(row[u], n) \in Row
        BY DEF UpdateProfile, Admitted, Exists, IInv, TypeOK, Row, Renamed
    <1>2. job'[j] \in JobState /\ job' = [job EXCEPT ![j] = job'[j]]
        BY <1>1, AccountsAssumption DEF UpdateProfile, Start, JobState, Kind, Working, Answered,
                                  IInv, TypeOK
    <1>3. QED
        BY <1>1, <1>2, ArrivalIInv DEF UpdateProfile, Admitted, Arrives, Start, Answered, IInv, TypeOK

LEMMA UpdateStatusIInv ==
    ASSUME IInv, NEW j \in Job, NEW u \in User, NEW s \in Status, UpdateStatus(j, u, s)
    PROVE  IInv'
    <1>1. [row[u] EXCEPT !.status = s] \in Row
        BY DEF UpdateStatus, Exists, IInv, TypeOK, Row, Status
    <1>2. job'[j] \in JobState /\ job' = [job EXCEPT ![j] = job'[j]]
        BY <1>1, AccountsAssumption DEF UpdateStatus, Start, JobState, Kind, Working, Answered,
                                  IInv, TypeOK
    <1>3. QED
        BY <1>1, <1>2, ArrivalIInv DEF UpdateStatus, Arrives, Start, Answered, IInv, TypeOK

\* A step of a job in progress that leaves the tables alone.
LEMMA QuietStepIInv ==
    ASSUME IInv, NEW j \in Job, NEW t \in JobState,
           InFlight(j), job' = [job EXCEPT ![j] = t],
           t.user = job[j].user, t.kind = job[j].kind,
           t.pc \in {"save"} \union Answered,
           t.pc = "save" => Exists(t.user) /\ t.copy \in Row,
           t.link = None \/ (t.link = job[j].link /\ job[j].pc # "claim"),
           UNCHANGED <<row, link, up, boots>>, blocked' \subseteq User
    PROVE  IInv'
    <1>1. TablesGrow
        BY DEF TablesGrow, IInv, TypeOK, Exists
    <1>2. job' \in [Job -> JobState] /\ job'[j] = t /\ \A k \in Job \ {j} : job'[k] = job[k]
        BY DEF IInv, TypeOK
    <1>3. JobSound(j) /\ HeldLinkSound(j)
        BY DEF IInv
    <1>4. JobSound(j)'
        BY <1>2, <1>3 DEF JobSound, Exists, Answered, InFlight, Working
    <1>5. HeldLinkSound(j)'
        BY <1>2, <1>3 DEF HeldLinkSound
    <1>6. QED
        BY <1>1, <1>2, <1>4, <1>5, OneJobMoves DEF IInv, TypeOK, Exists, Won

LEMMA VerifyEmailIInv ==
    ASSUME IInv, NEW j \in Job, VerifyEmail(j)
    PROVE  IInv'
    <1>1. /\ job[j] \in JobState /\ JobSound(j) /\ HeldLinkSound(j) /\ job[j].pc = "load"
          /\ job[j].user \in User /\ row[job[j].user] \in Row
        BY DEF VerifyEmail, At, IInv, TypeOK, JobSound, Exists
    <1>2. [row[job[j].user] EXCEPT !.verified = TRUE, !.status = Activated(@)] \in Row
        BY <1>1 DEF Row, Status, Activated
    <1>3. job'[j] \in JobState /\ job' = [job EXCEPT ![j] = job'[j]]
        BY <1>1, <1>2 DEF VerifyEmail, Goto, Load, JobState, Working, Answered, IInv, TypeOK
    <1>4. /\ job'[j].user = job[j].user /\ job'[j].kind = job[j].kind
          /\ job'[j].link = job[j].link
          /\ job'[j].pc \in {"save"} \union Answered
          /\ job'[j].pc = "save" => Exists(job[j].user) /\ job'[j].copy \in Row
        BY <1>1, <1>2 DEF VerifyEmail, Goto, Load, Answered, JobSound, JobState, IInv, TypeOK
    <1>5. QED
        BY <1>1, <1>3, <1>4, QuietStepIInv DEF VerifyEmail, InFlight, Working, IInv, TypeOK

LEMMA ResetPasswordIInv ==
    ASSUME IInv, NEW j \in Job, NEW p \in Password, ResetPassword(j, p)
    PROVE  IInv'
    <1>1. /\ job[j] \in JobState /\ JobSound(j) /\ HeldLinkSound(j) /\ job[j].pc = "load"
          /\ job[j].user \in User /\ row[job[j].user] \in Row
        BY DEF ResetPassword, At, IInv, TypeOK, JobSound, Exists
    <1>2. [row[job[j].user] EXCEPT !.password = p, !.verified = TRUE, !.status = Activated(@)] \in Row
        BY <1>1 DEF Row, Status, Activated
    <1>3. job'[j] \in JobState /\ job' = [job EXCEPT ![j] = job'[j]]
        BY <1>1, <1>2 DEF ResetPassword, Goto, Load, JobState, Working, Answered, IInv, TypeOK
    <1>4. /\ job'[j].user = job[j].user /\ job'[j].kind = job[j].kind
          /\ job'[j].link = job[j].link
          /\ job'[j].pc \in {"save"} \union Answered
          /\ job'[j].pc = "save" => Exists(job[j].user) /\ job'[j].copy \in Row
        BY <1>1, <1>2 DEF ResetPassword, Goto, Load, Answered, JobSound, JobState, IInv, TypeOK
    <1>5. QED
        BY <1>1, <1>3, <1>4, QuietStepIInv DEF ResetPassword, InFlight, Working, IInv, TypeOK

LEMMA PublishStatusIInv ==
    ASSUME IInv, NEW j \in Job, PublishStatus(j)
    PROVE  IInv'
    <1>1. job[j] \in JobState /\ JobSound(j) /\ job[j].pc = "publish" /\ job[j].user \in User
        BY DEF PublishStatus, At, IInv, TypeOK, JobSound
    <1>2. job'[j] \in JobState /\ job' = [job EXCEPT ![j] = job'[j]]
        BY <1>1 DEF PublishStatus, Goto, JobState, Working, Answered, IInv, TypeOK
    <1>3. blocked' \subseteq User
        BY <1>1 DEF PublishStatus, Published, IInv, TypeOK
    <1>4. /\ job'[j].user = job[j].user /\ job'[j].kind = job[j].kind
          /\ job'[j].link = job[j].link /\ job'[j].pc = "ok"
        BY <1>1 DEF PublishStatus, Goto, JobState, IInv, TypeOK
    <1>5. QED
        BY <1>1, <1>2, <1>3, <1>4, QuietStepIInv DEF PublishStatus, Answered, InFlight, Working

\* A step of a job in progress that may write either table.
LEMMA WritingStepIInv ==
    ASSUME IInv, NEW j \in Job, NEW t \in JobState, TablesGrow,
           InFlight(j), job' = [job EXCEPT ![j] = t],
           t.user = job[j].user, t.kind = job[j].kind, t.copy = job[j].copy,
           t.pc \in {"issue", "publish"} \union Answered,
           t.pc = "issue" => row'[t.user] # None,
           t.pc = "publish" => row'[t.user] # None /\ t.copy \in Row,
           t.link = None \/ (t.link = job[j].link /\ job[j].pc # "claim"),
           \A l \in Link : link'[l] # None => row'[link'[l].user] # None,
           UNCHANGED <<blocked, up, boots>>
    PROVE  IInv'
    <1>1. job' \in [Job -> JobState] /\ job'[j] = t /\ \A k \in Job \ {j} : job'[k] = job[k]
        BY DEF IInv, TypeOK
    <1>2. JobSound(j) /\ HeldLinkSound(j) /\ job[j] \in JobState
        BY DEF IInv, TypeOK
    <1>3. JobSound(j)'
        BY <1>1, <1>2 DEF JobSound, Exists, Answered, InFlight, Working
    <1>4. HeldLinkSound(j)'
        BY <1>1, <1>2 DEF HeldLinkSound, TablesGrow, JobState
    <1>5. QED
        BY <1>1, <1>3, <1>4, OneJobMoves DEF IInv, TypeOK, Won

LEMMA CreateAccountIInv ==
    ASSUME IInv, NEW j \in Job, CreateAccount(j)
    PROVE  IInv'
    <1>1. /\ job[j] \in JobState /\ JobSound(j) /\ job[j].pc = "create"
          /\ job[j].user \in User /\ job[j].copy \in Row /\ job[j].copy # None
        BY AccountsAssumption DEF CreateAccount, At, IInv, TypeOK, JobSound
    <1>2. TablesGrow
        BY <1>1 DEF CreateAccount, TablesGrow, IInv, TypeOK, Exists
    <1>3. job'[j] \in JobState /\ job' = [job EXCEPT ![j] = job'[j]]
        BY <1>1 DEF CreateAccount, Acked, Goto, JobState, Working, Answered, IInv, TypeOK
    <1>4. /\ job'[j].user = job[j].user /\ job'[j].kind = job[j].kind
          /\ job'[j].link = job[j].link /\ job'[j].copy = job[j].copy
          /\ job'[j].pc \in {"issue"} \union Answered
          /\ job'[j].pc = "issue" => row'[job[j].user] # None
        BY <1>1 DEF CreateAccount, Acked, Goto, Answered, JobState, IInv, TypeOK
    <1>5. \A l \in Link : link'[l] # None => row'[link'[l].user] # None
        BY <1>1, <1>2 DEF CreateAccount, IInv, TypeOK, TablesGrow, LinkRow
    <1>6. QED
        BY <1>1, <1>2, <1>3, <1>4, <1>5, WritingStepIInv
        DEF CreateAccount, InFlight, Working, Answered

LEMMA IssueLinkIInv ==
    ASSUME IInv, NEW j \in Job, IssueLink(j)
    PROVE  IInv'
    <1>1. /\ job[j] \in JobState /\ JobSound(j) /\ job[j].pc = "issue"
          /\ job[j].user \in User /\ Exists(job[j].user)
        BY DEF IssueLink, At, IInv, TypeOK, JobSound
    <1>2. PICK l \in UnusedLinks :
            link' = [link EXCEPT ![l] =
                [user |-> job[j].user,
                 purpose |-> IF job[j].kind = "Register" THEN "email_verification"
                                                         ELSE "password_reset",
                 spent |-> FALSE, expired |-> FALSE]]
        BY DEF IssueLink
    <1>3. link'[l] \in LinkRow /\ link'[l].user = job[j].user
        BY <1>1, <1>2 DEF LinkRow, Purpose, UnusedLinks, IInv, TypeOK
    <1>4. TablesGrow
        BY <1>2, <1>3, AccountsAssumption
        DEF IssueLink, TablesGrow, UnusedLinks, IInv, TypeOK, Exists
    <1>5. job'[j] \in JobState /\ job' = [job EXCEPT ![j] = job'[j]]
        BY <1>1 DEF IssueLink, AfterFailedIssue, Acked, Goto, JobState, Working, Answered, IInv, TypeOK
    <1>6. /\ job'[j].user = job[j].user /\ job'[j].kind = job[j].kind
          /\ job'[j].link = job[j].link /\ job'[j].copy = job[j].copy
          /\ job'[j].pc \in Answered
        BY <1>1 DEF IssueLink, AfterFailedIssue, Acked, Goto, Answered, JobState, IInv, TypeOK
    <1>7. \A m \in Link : link'[m] # None => row'[link'[m].user] # None
        BY <1>1, <1>2, <1>3 DEF IssueLink, IInv, TypeOK, UnusedLinks, Exists
    <1>8. QED
        BY <1>1, <1>4, <1>5, <1>6, <1>7, WritingStepIInv
        DEF IssueLink, InFlight, Working, Answered

LEMMA RetireLinksIInv ==
    ASSUME IInv, NEW j \in Job, RetireLinks(j)
    PROVE  IInv'
    <1>1. /\ job[j] \in JobState /\ JobSound(j) /\ job[j].pc = "retire"
          /\ job[j].user \in User /\ Exists(job[j].user)
        BY DEF RetireLinks, At, IInv, TypeOK, JobSound
    <1>2. ASSUME NEW l \in Link
          PROVE  /\ link'[l] \in LinkRow \union {None}
                 /\ link'[l] = None <=> link[l] = None
                 /\ link[l] # None => /\ link'[l].user = link[l].user
                                     /\ link'[l].purpose = link[l].purpose
                                     /\ (link[l].spent => link'[l].spent)
        <2>1. CASE l \in Retired(job[j].user)
            <3>1. link[l] \in LinkRow /\ link'[l] = [link[l] EXCEPT !.spent = TRUE]
                BY <2>1 DEF RetireLinks, Retired, LinksOf, IInv, TypeOK
            <3>2. link'[l] \in LinkRow
                BY <3>1 DEF LinkRow
            <3>3. QED
                BY <3>1, <3>2, AccountsAssumption DEF LinkRow
        <2>2. CASE l \notin Retired(job[j].user)
            BY <2>2 DEF RetireLinks, IInv, TypeOK
        <2>3. QED
            BY <2>1, <2>2
    <1>3. TablesGrow
        BY <1>2 DEF RetireLinks, TablesGrow, IInv, TypeOK, Exists
    <1>4. job'[j] \in JobState /\ job' = [job EXCEPT ![j] = job'[j]]
        BY <1>1 DEF RetireLinks, Acked, Goto, JobState, Working, Answered, IInv, TypeOK
    <1>5. /\ job'[j].user = job[j].user /\ job'[j].kind = job[j].kind
          /\ job'[j].link = job[j].link /\ job'[j].copy = job[j].copy
          /\ job'[j].pc \in {"issue"} \union Answered
        BY <1>1 DEF RetireLinks, Acked, Goto, Answered, JobState, IInv, TypeOK
    <1>6. \A m \in Link : link'[m] # None => row'[link'[m].user] # None
        BY <1>2 DEF RetireLinks, IInv, TypeOK, Exists
    <1>7. QED
        BY <1>1, <1>3, <1>4, <1>5, <1>6, WritingStepIInv
        DEF RetireLinks, InFlight, Working, Answered, Exists

LEMMA SaveRowIInv ==
    ASSUME IInv, NEW j \in Job, SaveRow(j)
    PROVE  IInv'
    <1>1. /\ job[j] \in JobState /\ JobSound(j) /\ job[j].pc = "save"
          /\ job[j].user \in User /\ Exists(job[j].user)
          /\ job[j].copy \in Row /\ job[j].copy # None
        BY AccountsAssumption DEF SaveRow, At, IInv, TypeOK, JobSound
    <1>2. TablesGrow
        BY <1>1 DEF SaveRow, TablesGrow, IInv, TypeOK, Exists
    <1>3. job'[j] \in JobState /\ job' = [job EXCEPT ![j] = job'[j]]
        BY <1>1 DEF SaveRow, AfterSave, AfterFailedSave, Acked, Goto, JobState, Working, Answered,
                    IInv, TypeOK
    <1>4. /\ job'[j].user = job[j].user /\ job'[j].kind = job[j].kind
          /\ job'[j].link = job[j].link /\ job'[j].copy = job[j].copy
          /\ job'[j].pc \in {"publish"} \union Answered
        BY <1>1 DEF SaveRow, AfterSave, AfterFailedSave, Acked, Goto, Answered, JobState,
                    IInv, TypeOK
    <1>5. \A l \in Link : link'[l] # None => row'[link'[l].user] # None
        BY <1>1, <1>2 DEF SaveRow, IInv, TypeOK, TablesGrow, LinkRow
    <1>6. QED
        BY <1>1, <1>2, <1>3, <1>4, <1>5, WritingStepIInv
        DEF SaveRow, InFlight, Working, Answered, TablesGrow

\* The heart of single use: the winner found the link unspent, every earlier
\* winner's link is spent, so nobody had won this one.
LEMMA ClaimLinkIInv ==
    ASSUME IInv, NEW j \in Job, ClaimLink(j)
    PROVE  IInv'
    <1> DEFINE l == job[j].link
    <1>1. /\ job[j] \in JobState /\ JobSound(j) /\ HeldLinkSound(j)
          /\ job[j].pc = "claim" /\ job[j].user \in User
          /\ l \in Link /\ l # None /\ link[l] \in LinkRow /\ link[l] # None
        BY AccountsAssumption DEF ClaimLink, At, IInv, TypeOK, JobSound, HeldLinkSound, JobState
    <1>2. job'[j] \in JobState /\ \A k \in Job \ {j} : job'[k] = job[k]
        <2>1. \/ job' = [job EXCEPT ![j].pc = "load"]
              \/ \E pc \in {"error", "gone"} : job' = [job EXCEPT ![j].link = None, ![j].pc = pc]
            BY DEF ClaimLink, Goto, Forget
        <2>2. QED
            BY <1>1, <2>1 DEF JobState, Working, Answered, IInv, TypeOK
    <1>3. job' \in [Job -> JobState]
        BY <1>1, <1>2 DEF ClaimLink, Goto, Forget, IInv, TypeOK
    <1>4. CASE Claimable(l)
        <2>1. link' = [link EXCEPT ![l].spent = TRUE]
            BY <1>4 DEF ClaimLink
        <2>2. /\ link'[l] = [link[l] EXCEPT !.spent = TRUE]
              /\ \A m \in Link \ {l} : link'[m] = link[m]
            BY <2>1, <1>1 DEF IInv, TypeOK
        <2>3. /\ link'[l] \in LinkRow /\ link'[l].spent
              /\ link'[l].user = link[l].user /\ link'[l].purpose = link[l].purpose
            BY <2>2, <1>1 DEF LinkRow
        <2>4. TablesGrow
            BY <2>1, <2>2, <2>3, AccountsAssumption
            DEF ClaimLink, TablesGrow, IInv, TypeOK, Exists
        <2>5. /\ job'[j].user = job[j].user /\ job'[j].kind = job[j].kind
              /\ \/ job'[j].pc = "load" /\ job'[j].link = l
                 \/ job'[j].pc = "error" /\ job'[j].link = None
            BY <1>1, <1>4 DEF ClaimLink, Goto, Forget, JobState, IInv, TypeOK
        <2>6. Exists(job[j].user) /\ row' = row
            BY <1>1 DEF ClaimLink, IInv, HeldLinkSound
        <2>7. JobSound(j)'
            BY <2>5, <2>6, <1>1 DEF JobSound, Exists
        <2>8. HeldLinkSound(j)'
            BY <2>5, <2>3, <1>1, AccountsAssumption DEF HeldLinkSound
        <2>9. \A k \in Job \ {j} : Won(k) => job[k].link # l
            BY <1>4 DEF Claimable, Won, IInv, HeldLinkSound
        <2>10. ASSUME NEW m \in Link, link'[m] # None
               PROVE  row'[link'[m].user] # None
            <3>1. link[m] # None /\ link'[m].user = link[m].user
                BY <2>2, <2>3, <2>10, <1>1
            <3>2. QED
                BY <3>1, <2>6 DEF IInv, Exists
        <2>11. blocked' \subseteq User /\ UNCHANGED <<up, boots>>
            BY DEF ClaimLink, IInv, TypeOK
        <2>12. QED
            BY <1>2, <1>3, <2>4, <2>5, <2>7, <2>8, <2>9, <2>10, <2>11, OneJobMoves
    <1>5. CASE ~Claimable(l)
        <2>1. job' = [job EXCEPT ![j] = job'[j]] /\ UNCHANGED <<row, link, blocked, up, boots>>
            BY <1>5 DEF ClaimLink, Forget, IInv, TypeOK
        <2>2. /\ job'[j].user = job[j].user /\ job'[j].kind = job[j].kind
              /\ job'[j].link = None /\ job'[j].pc = "gone"
            BY <1>1, <1>5 DEF ClaimLink, Forget, JobState, IInv, TypeOK
        <2>3. InFlight(j) /\ job'[j].pc \in {"save"} \union Answered /\ job'[j].pc # "save"
            BY <1>1, <2>2 DEF InFlight, Working, Answered
        <2>4. blocked' \subseteq User
            BY <2>1 DEF IInv, TypeOK
        <2>5. QED
            BY <1>2, <2>1, <2>2, <2>3, <2>4, QuietStepIInv
    <1>6. QED
        BY <1>4, <1>5

LEMMA StatementFailsIInv ==
    ASSUME IInv, NEW j \in Job, StatementFails(j)
    PROVE  IInv'
    <1>1. job[j] \in JobState /\ InFlight(j)
        BY DEF StatementFails, IInv, TypeOK, InFlight, Working
    <1>2. job'[j] \in JobState /\ job' = [job EXCEPT ![j] = job'[j]]
        BY <1>1 DEF StatementFails, Forget, Goto, AfterFailedIssue, AfterFailedSave, JobState,
                    Answered, IInv, TypeOK
    <1>3. /\ job'[j].user = job[j].user /\ job'[j].kind = job[j].kind
          /\ job'[j].link = None \/ (job'[j].link = job[j].link /\ job[j].pc # "claim")
          /\ job'[j].pc \in Answered /\ job'[j].pc # "save"
        BY <1>1 DEF StatementFails, Forget, Goto, AfterFailedIssue, AfterFailedSave, JobState,
                    Answered, IInv, TypeOK
    <1>4. UNCHANGED <<row, link, blocked, up, boots>>
        BY DEF StatementFails
    <1>5. QED
        BY <1>1, <1>2, <1>3, <1>4, QuietStepIInv DEF IInv, TypeOK

LEMMA CrashIInv ==
    ASSUME IInv, Crash
    PROVE  IInv'
    <1>1. ASSUME NEW j \in Job
          PROVE  /\ job'[j] \in JobState
                 /\ job'[j].user = job[j].user /\ job'[j].kind = job[j].kind
                 /\ \/ job'[j].pc = job[j].pc /\ job'[j].link = job[j].link /\ ~InFlight(j)
                    \/ /\ job'[j].pc = "lost"
                       /\ job'[j].link = None \/ (job'[j].link = job[j].link /\ job[j].pc # "claim")
        <2>1. job[j] \in JobState
            BY DEF IInv, TypeOK
        <2>2. CASE ~InFlight(j)
            BY <2>1, <2>2 DEF Crash
        <2>3. CASE InFlight(j)
            <3> DEFINE lk == IF job[j].pc = "claim" THEN None ELSE job[j].link
            <3>1. job'[j] = [job[j] EXCEPT !.pc = "lost", !.link = lk]
                BY <2>3 DEF Crash
            <3>2. lk \in Link \union {None}
                BY <2>1 DEF JobState
            <3>3. job'[j] \in JobState
                BY <2>1, <3>1, <3>2 DEF JobState, Answered
            <3>4. /\ job'[j].user = job[j].user /\ job'[j].kind = job[j].kind
                  /\ job'[j].pc = "lost" /\ job'[j].link = lk
                BY <2>1, <3>1 DEF JobState
            <3>5. lk = None \/ (lk = job[j].link /\ job[j].pc # "claim")
                OBVIOUS
            <3>6. QED
                BY <3>3, <3>4, <3>5
        <2>4. QED
            BY <2>2, <2>3
    <1>2. job' \in [Job -> JobState]
        BY <1>1 DEF Crash
    <1>3. ASSUME NEW j \in Job
          PROVE  JobSound(j)' /\ HeldLinkSound(j)'
        <2>1. JobSound(j) /\ HeldLinkSound(j) /\ job[j] \in JobState
            BY DEF IInv, TypeOK
        <2>2. JobSound(j)'
            BY <2>1, <1>1 DEF JobSound, InFlight, Working, JobState, Crash, Exists
        <2>3. HeldLinkSound(j)'
            BY <2>1, <1>1 DEF HeldLinkSound, Crash, InFlight, Working
        <2>4. QED
            BY <2>2, <2>3
    <1>4. \A j \in Job : Won(j)' => Won(j) /\ job'[j].link = job[j].link
        BY <1>1 DEF Won, InFlight, Working
    <1>5. QED
        BY <1>2, <1>3, <1>4 DEF Crash, IInv, TypeOK, LinkRedeemedOnce, Exists

LEMMA OtherStepsIInv ==
    ASSUME IInv, WarmUp \/ (\E l \in Link : LinkExpires(l)) \/ Quiet \/ UNCHANGED vars
    PROVE  IInv'
    <1>1. CASE WarmUp
        <2>1. TypeOK'
            BY <1>1, AccountsAssumption DEF WarmUp, SuspendedUserIDs, IInv, TypeOK
        <2>2. QED
            BY <1>1, <2>1 DEF WarmUp, IInv, JobSound, HeldLinkSound, LinkRedeemedOnce, Won, Exists
    <1>2. ASSUME NEW l \in Link, LinkExpires(l)
          PROVE  IInv'
        <2>1. link[l] \in LinkRow /\ link[l] # None
            BY <1>2, AccountsAssumption DEF LinkExpires, Outstanding, IInv, TypeOK
        <2>2. /\ link'[l] = [link[l] EXCEPT !.expired = TRUE]
              /\ \A m \in Link \ {l} : link'[m] = link[m]
              /\ UNCHANGED <<row, blocked, job, up, boots>>
            BY <1>2, <2>1 DEF LinkExpires, IInv, TypeOK
        <2>3. /\ link'[l] \in LinkRow /\ link'[l].spent = link[l].spent
              /\ link'[l].user = link[l].user /\ link'[l].purpose = link[l].purpose
            BY <2>1, <2>2 DEF LinkRow
        <2>4. TablesGrow
            BY <1>2, <2>2, <2>3, AccountsAssumption
            DEF LinkExpires, TablesGrow, IInv, TypeOK, Exists
        <2>5. \A j \in Job : JobSound(j)' /\ HeldLinkSound(j)'
            <3> SUFFICES ASSUME NEW j \in Job PROVE JobSound(j)' /\ HeldLinkSound(j)'
                OBVIOUS
            <3>1. job[j] \in JobState /\ JobSound(j) /\ HeldLinkSound(j)
                BY DEF IInv, TypeOK
            <3>2. JobSound(j)'
                BY <3>1, <2>2 DEF JobSound, Exists
            <3>3. HeldLinkSound(j)'
                BY <3>1, <2>2, <2>4 DEF HeldLinkSound, JobState, TablesGrow
            <3>4. QED
                BY <3>2, <3>3
        <2>6. ASSUME NEW m \in Link, link'[m] # None
              PROVE  row'[link'[m].user] # None
            <3>1. link[m] # None /\ link'[m].user = link[m].user
                BY <2>1, <2>2, <2>3, <2>6
            <3>2. QED
                BY <3>1, <2>2 DEF IInv, Exists
        <2>7. LinkRedeemedOnce' /\ TypeOK' /\ (~up' => boots' < MaxBoots)
            BY <2>2, <2>4 DEF IInv, TypeOK, TablesGrow, LinkRedeemedOnce, Won
        <2>8. QED
            BY <2>5, <2>6, <2>7 DEF IInv, Exists
    <1>3. CASE Quiet \/ UNCHANGED vars
        BY <1>3 DEF Quiet, vars, IInv, TypeOK, JobSound, HeldLinkSound, LinkRedeemedOnce, Won, Exists
    <1>4. QED
        BY <1>1, <1>2, <1>3

-----------------------------------------------------------------------------
(* The theorems.                                                           *)

LEMMA NextIInv == IInv /\ [Next]_vars => IInv'
    <1> SUFFICES ASSUME IInv, [Next]_vars PROVE IInv'
        OBVIOUS
    <1>1. ASSUME NEW j \in Job, Arrival(j)
          PROVE  IInv'
        BY <1>1, RegisterIInv, LoginIInv, PresentLinkIInv, RequestPasswordResetIInv,
           ChangePasswordIInv, UpdateProfileIInv, UpdateStatusIInv DEF Arrival
    <1>2. ASSUME NEW j \in Job, Step(j)
          PROVE  IInv'
        BY <1>2, CreateAccountIInv, IssueLinkIInv, ClaimLinkIInv, VerifyEmailIInv,
           ResetPasswordIInv, RetireLinksIInv, SaveRowIInv, PublishStatusIInv DEF Step
    <1>3. QED
        BY <1>1, <1>2, StatementFailsIInv, CrashIInv, OtherStepsIInv DEF Next

\* What the theorems below follow from: IInv is an invariant of every behaviour.
THEOREM Invariance == Spec => []IInv
    BY InitIInv, NextIInv, PTL DEF Spec

\* Every variable of the accounts model keeps its type.
THEOREM TypeCorrect == Spec => []TypeOK
    <1>1. IInv => TypeOK
        BY DEF IInv
    <1>2. QED
        BY <1>1, Invariance, PTL

\* A link is redeemed at most once: two requests that carry it cannot both win,
\* however their statements interleave and whatever fails (consumeToken).
THEOREM SingleUse == Spec => []LinkRedeemedOnce
    <1>1. IInv => LinkRedeemedOnce
        BY DEF IInv
    <1>2. QED
        BY <1>1, Invariance, PTL

\* A request that won a link acts on the account, and for the purpose, the link
\* was minted for.
THEOREM RedemptionIsAsMinted == Spec => []RedeemedAsMinted
    <1>1. IInv => RedeemedAsMinted
        BY DEF IInv, HeldLinkSound, RedeemedAsMinted, Won
    <1>2. QED
        BY <1>1, Invariance, PTL

-----------------------------------------------------------------------------
(* An acknowledged suspension holds. What decides it is which steps touch  *)
(* the block list, and that a status request is only ever answered by the  *)
(* process that published its status.                                      *)

\* Requests in progress belong to the process that is up.
ServedHere ==
    \A j \in Job : /\ job[j].boot <= boots
                   /\ InFlight(j) => up /\ job[j].boot = boots

\* A step of an unfinished job j that publishes nothing.
Unpublished(j) ==
    /\ job[j].pc \notin Answered /\ up
    /\ \A k \in Job \ {j} : job'[k] = job[k]
    /\ job'[j].boot = boots
    /\ ~(job'[j].kind = "UpdateStatus" /\ job'[j].pc = "ok")
    /\ UNCHANGED <<blocked, up, boots>>

LEMMA ArrivalUnpublished ==
    ASSUME IInv, NEW j \in Job, Arrival(j)
    PROVE  Unpublished(j)
    <1> USE DEF Unpublished, Arrives, Start, Answered, IInv, TypeOK
    <1>1. ASSUME NEW u \in User, RequestPasswordReset(j, u) PROVE Unpublished(j)
        BY <1>1 DEF RequestPasswordReset
    <1>2. ASSUME NEW u \in User, NEW p \in Password, Login(j, u, p) PROVE Unpublished(j)
        BY <1>2 DEF Login
    <1>3. ASSUME NEW u \in User, NEW p \in Password, ChangePassword(j, u, p)
          PROVE  Unpublished(j)
        BY <1>3 DEF ChangePassword
    <1>4. ASSUME NEW u \in User, NEW p \in Password, NEW n \in Name, Register(j, u, p, n)
          PROVE  Unpublished(j)
        BY <1>4 DEF Register
    <1>5. ASSUME NEW u \in User, NEW n \in Name, UpdateProfile(j, u, n) PROVE Unpublished(j)
        BY <1>5 DEF UpdateProfile
    <1>6. ASSUME NEW u \in User, NEW s \in Status, UpdateStatus(j, u, s) PROVE Unpublished(j)
        BY <1>6 DEF UpdateStatus
    <1>7. ASSUME NEW l \in Link, NEW k \in {"VerifyEmail", "ResetPassword"},
                 PresentLink(j, k, l)
          PROVE  Unpublished(j)
        BY <1>7 DEF PresentLink
    <1>8. QED
        BY <1>1, <1>2, <1>3, <1>4, <1>5, <1>6, <1>7 DEF Arrival

LEMMA StepUnpublished ==
    ASSUME IInv, ServedHere, NEW j \in Job, Step(j) \/ StatementFails(j), ~PublishStatus(j)
    PROVE  Unpublished(j)
    <1> USE DEF Unpublished, At, Goto, Answered, InFlight, Working, ServedHere, IInv, TypeOK
    <1>0. job[j] \in JobState
        OBVIOUS
    <1>1. CASE CreateAccount(j)
        BY <1>0, <1>1 DEF CreateAccount, Acked, JobState
    <1>2. CASE IssueLink(j)
        BY <1>0, <1>2 DEF IssueLink, AfterFailedIssue, Acked, JobState
    <1>3. CASE ClaimLink(j)
        BY <1>0, <1>3 DEF ClaimLink, Forget, JobState
    <1>4. CASE VerifyEmail(j)
        BY <1>0, <1>4 DEF VerifyEmail, Load, JobState
    <1>5. ASSUME NEW p \in Password, ResetPassword(j, p) PROVE Unpublished(j)
        BY <1>0, <1>5 DEF ResetPassword, Load, JobState
    <1>6. CASE RetireLinks(j)
        BY <1>0, <1>6 DEF RetireLinks, Acked, JobState
    <1>7. CASE SaveRow(j)
        BY <1>0, <1>7 DEF SaveRow, Acked, AfterSave, AfterFailedSave, Savers, JobState
    <1>8. CASE StatementFails(j)
        BY <1>0, <1>8 DEF StatementFails, Forget, AfterFailedIssue, AfterFailedSave, JobState
    <1>9. QED
        BY <1>1, <1>2, <1>3, <1>4, <1>5, <1>6, <1>7, <1>8 DEF Step

SInv == IInv /\ ServedHere /\ AcknowledgedSuspensionHolds

LEMMA UnpublishedSInv ==
    ASSUME SInv, NEW j \in Job, Unpublished(j)
    PROVE  ServedHere' /\ AcknowledgedSuspensionHolds'
    <1>1. boots \in Nat
        BY AccountsAssumption DEF SInv, IInv, TypeOK
    <1>2. ServedHere'
        BY <1>1 DEF SInv, Unpublished, ServedHere, InFlight
    <1>3. \A k \in Job : SuspensionAnswered(k)' => SuspensionAnswered(k) /\ job'[k] = job[k]
        BY DEF Unpublished, SuspensionAnswered
    <1>4. \A k \in Job : RestoreAnswered(k) => RestoreAnswered(k)' /\ job'[k] = job[k]
        BY DEF Unpublished, RestoreAnswered, Answered
    <1>5. QED
        BY <1>2, <1>3, <1>4 DEF SInv, Unpublished, AcknowledgedSuspensionHolds

LEMMA PublishSInv ==
    ASSUME SInv, NEW j \in Job, PublishStatus(j)
    PROVE  ServedHere' /\ AcknowledgedSuspensionHolds'
    <1>1. /\ job[j] \in JobState /\ job[j].kind = "UpdateStatus" /\ job[j].pc = "publish" /\ up
          /\ job[j].boot = boots
        BY DEF SInv, IInv, TypeOK, PublishStatus, At, ServedHere, InFlight, Working
    <1>2. /\ job'[j] = [job[j] EXCEPT !.pc = "ok"]
          /\ \A k \in Job \ {j} : job'[k] = job[k]
          /\ UNCHANGED <<up, boots>>
        BY DEF SInv, IInv, TypeOK, PublishStatus, Goto
    <1>3. /\ job'[j].kind = "UpdateStatus" /\ job'[j].pc = "ok" /\ job'[j].boot = boots
          /\ job'[j].user = job[j].user /\ job'[j].copy = job[j].copy
        BY <1>1, <1>2 DEF JobState
    <1>4. ServedHere'
        BY <1>1, <1>2, <1>3 DEF SInv, ServedHere, InFlight, Working
    <1>5. ASSUME NEW k \in Job, SuspensionAnswered(k)', job'[k].boot = boots'
          PROVE  \/ job'[k].user \in blocked'
                 \/ \E m \in Job : /\ RestoreAnswered(m)'
                                   /\ job'[m].user = job'[k].user /\ job'[m].boot = boots'
        <2>1. CASE job[j].copy.status = "suspended"
            <3>1. blocked' = blocked \union {job[j].user}
                BY <2>1 DEF PublishStatus, Published
            <3>2. CASE k = j
                BY <3>1, <3>2, <1>3
            <3>3. CASE k # j
                <4>1. SuspensionAnswered(k) /\ job[k].boot = boots
                    BY <1>2, <1>5, <3>3 DEF SuspensionAnswered
                <4>2. \A m \in Job : RestoreAnswered(m) => RestoreAnswered(m)' /\ job'[m] = job[m]
                    BY <1>1, <1>2 DEF RestoreAnswered
                <4>3. QED
                    BY <4>1, <4>2, <3>1, <3>3, <1>1, <1>2 DEF SInv, AcknowledgedSuspensionHolds
            <3>4. QED
                BY <3>2, <3>3
        <2>2. CASE job[j].copy.status # "suspended"
            <3>1. blocked' = blocked \ {job[j].user} /\ RestoreAnswered(j)'
                BY <2>2, <1>3 DEF PublishStatus, Published, RestoreAnswered
            <3>2. k # j
                BY <2>2, <1>3, <1>5 DEF SuspensionAnswered
            <3>3. SuspensionAnswered(k) /\ job[k].boot = boots /\ job'[k] = job[k]
                BY <1>2, <1>5, <3>2 DEF SuspensionAnswered
            <3>4. CASE job[k].user = job[j].user
                BY <3>1, <3>3, <3>4, <1>2, <1>3
            <3>5. CASE job[k].user # job[j].user
                <4>1. \A m \in Job : RestoreAnswered(m) => RestoreAnswered(m)' /\ job'[m] = job[m]
                    BY <1>1, <1>2 DEF RestoreAnswered
                <4>2. QED
                    BY <4>1, <3>1, <3>3, <3>5, <1>1, <1>2 DEF SInv, AcknowledgedSuspensionHolds
            <3>6. QED
                BY <3>4, <3>5
        <2>3. QED
            BY <2>1, <2>2
    <1>6. QED
        BY <1>4, <1>5 DEF AcknowledgedSuspensionHolds

LEMMA NextSInv == SInv /\ [Next]_vars => SInv'
    <1> SUFFICES ASSUME SInv, [Next]_vars PROVE SInv'
        OBVIOUS
    <1>1. IInv'
        BY NextIInv DEF SInv
    <1>2. ASSUME NEW j \in Job, Arrival(j) \/ Step(j) \/ StatementFails(j)
          PROVE  ServedHere' /\ AcknowledgedSuspensionHolds'
        <2>1. Unpublished(j) \/ PublishStatus(j)
            BY <1>2, ArrivalUnpublished, StepUnpublished DEF SInv
        <2>2. QED
            BY <2>1, UnpublishedSInv, PublishSInv
    <1>3. CASE Crash
        <2>1. ~up' /\ boots' = boots
            BY <1>3 DEF Crash
        <2>2. \A j \in Job : ~InFlight(j)' /\ job'[j].boot = job[j].boot
            BY <1>3 DEF Crash, SInv, IInv, TypeOK, JobState, InFlight, Working
        <2>3. QED
            BY <2>1, <2>2, <1>1 DEF SInv, ServedHere, AcknowledgedSuspensionHolds
    <1>4. CASE WarmUp
        <2>1. boots \in Nat /\ boots' = boots + 1 /\ job' = job /\ \A j \in Job : job[j] \in JobState
            BY <1>4, AccountsAssumption DEF WarmUp, SInv, IInv, TypeOK
        <2>2. \A j \in Job : job[j].boot \in Nat /\ job[j].boot <= boots /\ ~InFlight(j)
            BY <1>4, <2>1 DEF WarmUp, SInv, ServedHere, JobState
        <2>3. \A j \in Job : job'[j].boot # boots' /\ job'[j].boot <= boots' /\ ~InFlight(j)'
            BY <2>1, <2>2 DEF InFlight
        <2>4. QED
            BY <2>3, <1>1 DEF SInv, ServedHere, AcknowledgedSuspensionHolds
    <1>5. CASE (\E l \in Link : LinkExpires(l)) \/ Quiet \/ UNCHANGED vars
        <2>1. UNCHANGED <<blocked, job, up, boots>>
            BY <1>5 DEF LinkExpires, Quiet, vars
        <2>2. QED
            BY <2>1, <1>1 DEF SInv, ServedHere, InFlight, AcknowledgedSuspensionHolds,
                              SuspensionAnswered, RestoreAnswered
    <1>6. QED
        BY <1>1, <1>2, <1>3, <1>4, <1>5 DEF Next, SInv

\* Once an administrator was told that an account is suspended, the process
\* refuses its bearer until a restore is answered: no handler that saves an old
\* copy of the row can lift the block (UpdateStatus, RegistryGuard.Check).
THEOREM SuspensionHolds == Spec => []AcknowledgedSuspensionHolds
    <1>1. Init => SInv
        <2> SUFFICES ASSUME Init PROVE SInv
            OBVIOUS
        <2>1. \A j \in Job : job[j].pc = "idle" /\ job[j].boot = 0
            BY DEF Init, Idle
        <2>2. ServedHere /\ AcknowledgedSuspensionHolds
            BY <2>1 DEF Init, ServedHere, AcknowledgedSuspensionHolds, SuspensionAnswered,
                        InFlight, Working
        <2>3. QED
            BY <2>2, InitIInv DEF SInv
    <1>2. SInv => AcknowledgedSuspensionHolds
        BY DEF SInv
    <1>3. QED
        BY <1>1, <1>2, NextSInv, PTL DEF Spec

-----------------------------------------------------------------------------
(* The links table implements SingleUseLinks. A link is minted by IssueLink,*)
(* redeemed by a claim whose caller learns of it, retired by RetireLinks or *)
(* by a claim whose answer is lost; every other step leaves it, and who won *)
(* it, alone.                                                               *)

LinkState(l) == IF link[l] = None THEN "unissued"
                ELSE IF link[l].spent THEN "spent" ELSE "live"

Winners(l) == {j \in Job : Won(j) /\ job[j].link = l}

LinksStay == \A l \in Link : LinkState(l)' = LinkState(l)

WinnersStay ==
    \A k \in Job : /\ Won(k)' <=> Won(k)
                   /\ Won(k) => job'[k].link = job[k].link

\* A job that holds no won link before and after a step has won none in it.
LEMMA NobodyWins ==
    ASSUME NEW j \in Job, \A k \in Job \ {j} : job'[k] = job[k],
           \/ ~Won(j) /\ (job'[j].link = None \/ job'[j].pc = "claim")
           \/ job'[j].link = job[j].link /\ job[j].pc # "claim" /\ job'[j].pc # "claim"
    PROVE  WinnersStay
    BY DEF WinnersStay, Won

LEMMA SameWinners ==
    ASSUME WinnersStay
    PROVE  \A l \in Link : Winners(l)' = Winners(l)
    BY DEF WinnersStay, Winners

LEMMA LinksStutter ==
    ASSUME LinksStay, WinnersStay
    PROVE  UNCHANGED Links!vars
    BY SameWinners DEF Links!vars, LinksStay, LinkState, Winners

LEMMA ArrivalLinks ==
    ASSUME IInv, NEW j \in Job, Arrival(j)
    PROVE  LinksStay /\ WinnersStay
    <1> DEFINE P == /\ link' = link
                    /\ \A k \in Job \ {j} : job'[k] = job[k]
                    /\ ~Won(j) /\ (job'[j].link = None \/ job'[j].pc = "claim")
    <1>0. job \in [Job -> JobState] /\ (job[j].pc = "idle" => job[j].link = None)
        BY DEF IInv, TypeOK, JobSound
    <1> USE <1>0 DEF Arrives, Start, Won
    <1>1. ASSUME NEW u \in User, RequestPasswordReset(j, u) PROVE P
        BY <1>1 DEF RequestPasswordReset
    <1>2. ASSUME NEW u \in User, NEW p \in Password, Login(j, u, p) PROVE P
        BY <1>2 DEF Login
    <1>3. ASSUME NEW u \in User, NEW p \in Password, ChangePassword(j, u, p) PROVE P
        BY <1>3 DEF ChangePassword
    <1>4. ASSUME NEW u \in User, NEW p \in Password, NEW n \in Name, Register(j, u, p, n)
          PROVE  P
        BY <1>4 DEF Register
    <1>5. ASSUME NEW u \in User, NEW n \in Name, UpdateProfile(j, u, n) PROVE P
        BY <1>5 DEF UpdateProfile
    <1>6. ASSUME NEW u \in User, NEW s \in Status, UpdateStatus(j, u, s) PROVE P
        BY <1>6 DEF UpdateStatus
    <1>7. ASSUME NEW l \in Link, NEW k \in {"VerifyEmail", "ResetPassword"},
                 PresentLink(j, k, l)
          PROVE  P
        BY <1>7 DEF PresentLink
    <1>8. P
        BY <1>1, <1>2, <1>3, <1>4, <1>5, <1>6, <1>7 DEF Arrival
    <1>9. QED
        BY <1>8, NobodyWins DEF LinksStay, LinkState

\* The steps of a job in progress that touch no link.
LEMMA OtherJobStepLinks ==
    ASSUME IInv, NEW j \in Job,
           \/ CreateAccount(j) \/ VerifyEmail(j) \/ SaveRow(j) \/ PublishStatus(j)
           \/ StatementFails(j) \/ \E p \in Password : ResetPassword(j, p)
    PROVE  LinksStay /\ WinnersStay
    <1> DEFINE P == /\ link' = link
                    /\ \A k \in Job \ {j} : job'[k] = job[k]
                    /\ \/ ~Won(j) /\ job'[j].link = None
                       \/ /\ job'[j].link = job[j].link
                          /\ job[j].pc # "claim" /\ job'[j].pc # "claim"
    <1>0. job \in [Job -> JobState] /\ job[j] \in JobState
        BY DEF IInv, TypeOK
    <1> USE DEF At, Goto, Won
    <1>1. ASSUME CreateAccount(j) PROVE P
        BY <1>0, <1>1 DEF CreateAccount, Acked, JobState
    <1>2. ASSUME VerifyEmail(j) PROVE P
        BY <1>0, <1>2 DEF VerifyEmail, Load, JobState
    <1>3. ASSUME SaveRow(j) PROVE P
        BY <1>0, <1>3 DEF SaveRow, Acked, AfterSave, AfterFailedSave, JobState
    <1>4. ASSUME PublishStatus(j) PROVE P
        BY <1>0, <1>4 DEF PublishStatus, JobState
    <1>5. ASSUME StatementFails(j) PROVE P
        BY <1>0, <1>5 DEF StatementFails, Forget, AfterFailedIssue, AfterFailedSave, JobState
    <1>6. ASSUME NEW p \in Password, ResetPassword(j, p) PROVE P
        <2>1. /\ link' = link /\ job[j].pc = "load"
              /\ \/ job' = [job EXCEPT ![j].pc = "refused"]
                 \/ \E c : job' = [job EXCEPT ![j].copy = c, ![j].pc = "save"]
            BY <1>6 DEF ResetPassword, Load
        <2>2. QED
            BY <1>0, <2>1 DEF JobState
    <1> HIDE DEF P
    <1>7. P
        BY <1>1, <1>2, <1>3, <1>4, <1>5, <1>6
    <1>8. QED
        BY <1>7, NobodyWins DEF P, LinksStay, LinkState

LEMMA IssueLinkMints ==
    ASSUME IInv, NEW j \in Job, IssueLink(j)
    PROVE  \E l \in Link : Links!Mint(l)
    <1>1. job[j] \in JobState /\ job[j].pc = "issue"
        BY DEF IssueLink, At, IInv, TypeOK
    <1>2. PICK l \in UnusedLinks :
            link' = [link EXCEPT ![l] =
                [user |-> job[j].user,
                 purpose |-> IF job[j].kind = "Register" THEN "email_verification"
                                                         ELSE "password_reset",
                 spent |-> FALSE, expired |-> FALSE]]
        BY DEF IssueLink
    <1>3. /\ l \in Link /\ link[l] = None /\ link'[l] # None /\ ~link'[l].spent
          /\ \A m \in Link \ {l} : link'[m] = link[m]
        <2>1. l \in Link /\ link[l] = None
            BY <1>2 DEF UnusedLinks
        <2>2. link' \in [Link -> LinkRow \union {None}] /\ link'[l] \in LinkRow
            BY <1>1, <1>2, <2>1, IssueLinkIInv
            DEF LinkRow, Purpose, IInv, TypeOK, JobSound
        <2>3. QED
            BY <1>2, <2>1, <2>2, AccountsAssumption DEF IInv, TypeOK
    <1>4. LinkState(l) = "unissued" /\ LinkState(l)' = "live"
          /\ \A m \in Link \ {l} : LinkState(m)' = LinkState(m)
        BY <1>3 DEF LinkState
    <1>5. WinnersStay
        <2>1. /\ \A k \in Job \ {j} : job'[k] = job[k]
              /\ job'[j].link = job[j].link /\ job'[j].pc # "claim"
            BY <1>1 DEF IssueLink, Acked, Goto, AfterFailedIssue, IInv, TypeOK, JobState
        <2>2. QED
            BY <1>1, <2>1, NobodyWins
    <1>6. \A m \in Link : Winners(m)' = Winners(m)
        BY <1>5, SameWinners
    <1>7. Links!Mint(l)
        BY <1>3, <1>4, <1>6 DEF Links!Mint, LinkState, Winners
    <1>8. QED
        BY <1>3, <1>7

LEMMA RetireLinksRetires ==
    ASSUME IInv, NEW j \in Job, RetireLinks(j)
    PROVE  \E S \in SUBSET {l \in Link : LinkState(l) = "live"} : Links!Retire(S)
    <1>0. PICK S : S = {l \in Retired(job[j].user) : LinkState(l) = "live"}
        OBVIOUS
    <1>1. job[j] \in JobState /\ job[j].pc = "retire"
        BY DEF RetireLinks, At, IInv, TypeOK
    <1>2. ASSUME NEW l \in Link
          PROVE  LinkState(l)' = IF l \in S THEN "spent" ELSE LinkState(l)
        <2>1. CASE l \in Retired(job[j].user)
            <3>1. link[l] \in LinkRow /\ link[l] # None
                  /\ link'[l] = [link[l] EXCEPT !.spent = TRUE]
                BY <2>1 DEF RetireLinks, Retired, LinksOf, IInv, TypeOK
            <3>2. link'[l] \in LinkRow /\ link'[l].spent
                BY <3>1 DEF LinkRow
            <3>3. QED
                BY <1>0, <2>1, <3>1, <3>2, AccountsAssumption DEF LinkState
        <2>2. CASE l \notin Retired(job[j].user)
            <3>1. link'[l] = link[l]
                BY <2>2 DEF RetireLinks, IInv, TypeOK
            <3>2. QED
                BY <1>0, <2>2, <3>1 DEF LinkState
        <2>3. QED
            BY <2>1, <2>2
    <1>3. WinnersStay
        <2>1. /\ \A k \in Job \ {j} : job'[k] = job[k]
              /\ job'[j].link = job[j].link /\ job'[j].pc # "claim"
            BY <1>1 DEF RetireLinks, Acked, Goto, IInv, TypeOK, JobState
        <2>2. QED
            BY <1>1, <2>1, NobodyWins
    <1>4. \A m \in Link : Winners(m)' = Winners(m)
        BY <1>3, SameWinners
    <1>5. S \in SUBSET {l \in Link : LinkState(l) = "live"}
        BY <1>0 DEF Retired, LinksOf
    <1>6. Links!Retire(S)
        BY <1>2, <1>4 DEF Links!Retire, LinkState, Winners
    <1>7. QED
        BY <1>5, <1>6

\* The claim: whoever spends the link is its only winner, because a link that
\* somebody had won before is spent already.
LEMMA ClaimLinkRedeems ==
    ASSUME IInv, NEW j \in Job, ClaimLink(j)
    PROVE  \/ \E l \in Link : Links!Redeem(l, j)
           \/ \E S \in SUBSET {l \in Link : LinkState(l) = "live"} : Links!Retire(S)
           \/ UNCHANGED Links!vars
    <1>0. PICK l : l = job[j].link
        OBVIOUS
    <1>1. /\ job[j] \in JobState /\ JobSound(j) /\ HeldLinkSound(j) /\ job[j].pc = "claim"
          /\ l \in Link /\ l # None /\ link[l] \in LinkRow /\ link[l] # None
        BY <1>0, AccountsAssumption DEF ClaimLink, At, IInv, TypeOK, JobSound, HeldLinkSound, JobState
    <1>2. /\ ~Won(j)
          /\ \A k \in Job \ {j} : job'[k] = job[k]
          /\ \/ job'[j].link = l /\ job'[j].pc = "load" /\ Claimable(l)
             \/ job'[j].link = None
        BY <1>0, <1>1 DEF ClaimLink, Goto, Forget, JobState, IInv, TypeOK, Won
    <1>3. CASE Claimable(l)
        <2>1. /\ link'[l] = [link[l] EXCEPT !.spent = TRUE]
              /\ \A m \in Link \ {l} : link'[m] = link[m]
            BY <1>0, <1>1, <1>3 DEF ClaimLink, IInv, TypeOK
        <2>2. link'[l] \in LinkRow /\ link'[l].spent
            BY <2>1, <1>1 DEF LinkRow
        <2>3. LinkState(l) = "live" /\ LinkState(l)' = "spent"
              /\ \A m \in Link \ {l} : LinkState(m)' = LinkState(m)
            BY <1>1, <1>3, <2>1, <2>2, AccountsAssumption DEF LinkState, Claimable
        <2>4. Winners(l) = {}
            BY <1>1, <1>3 DEF Winners, Won, Claimable, IInv, HeldLinkSound
        <2>5. CASE job'[j].link = l /\ job'[j].pc = "load"
            <3>1. Won(j)'
                BY <1>1, <2>5 DEF Won
            <3>2. \A k \in Job \ {j} : Won(k)' <=> Won(k)
                BY <1>2 DEF Won
            <3>3. Winners(l)' = {j}
                BY <1>2, <2>4, <2>5, <3>1, <3>2 DEF Winners
            <3>4. \A m \in Link \ {l} : Winners(m)' = Winners(m)
                BY <1>2, <2>5, <3>2 DEF Winners
            <3>5. Links!Redeem(l, j)
                <4>1. [m \in Link |-> LinkState(m)'] =
                            [[m \in Link |-> LinkState(m)] EXCEPT ![l] = "spent"]
                    BY <1>1, <2>3
                <4>2. [m \in Link |-> Winners(m)'] =
                            [[m \in Link |-> Winners(m)] EXCEPT ![l] = {j}]
                    BY <1>1, <3>3, <3>4
                <4>3. [m \in Link |-> LinkState(m)][l] = "live"
                    BY <1>1, <2>3
                <4>4. QED
                    BY <4>1, <4>2, <4>3 DEF Links!Redeem, LinkState, Winners
            <3>6. QED
                BY <1>1, <3>5
        <2>6. CASE job'[j].link = None
            <3>1. \A m \in Link : Winners(m)' = Winners(m)
                BY <1>2, <2>6, NobodyWins, SameWinners
            <3>2. Links!Retire({l})
                BY <1>1, <2>3, <3>1 DEF Links!Retire, LinkState, Winners
            <3>3. {l} \in SUBSET {m \in Link : LinkState(m) = "live"}
                BY <1>1, <2>3
            <3>4. QED
                BY <3>2, <3>3
        <2>7. QED
            BY <1>2, <2>5, <2>6
    <1>4. CASE ~Claimable(l)
        <2>1. LinksStay
            BY <1>0, <1>4 DEF ClaimLink, LinksStay, LinkState
        <2>2. QED
            BY <1>2, <1>4, <2>1, NobodyWins, LinksStutter
    <1>5. QED
        BY <1>3, <1>4

\* What the process does to all its jobs at once, and time to a link.
LEMMA OtherStepsLinks ==
    ASSUME IInv, Crash \/ WarmUp \/ (\E l \in Link : LinkExpires(l)) \/ Quiet \/ UNCHANGED vars
    PROVE  LinksStay /\ WinnersStay
    <1>1. CASE Crash
        <2>1. ASSUME NEW k \in Job
              PROVE  /\ Won(k)' <=> Won(k)
                     /\ Won(k) => job'[k].link = job[k].link
            <3>1. job[k] \in JobState
                BY DEF IInv, TypeOK
            <3>2. CASE InFlight(k)
                <4>1. job'[k] = [job[k] EXCEPT !.pc = "lost",
                                    !.link = IF job[k].pc = "claim" THEN None ELSE @]
                    BY <1>1, <3>2 DEF Crash
                <4>2. QED
                    BY <3>1, <4>1 DEF JobState, Won
            <3>3. CASE ~InFlight(k)
                BY <1>1, <3>3 DEF Crash, Won
            <3>4. QED
                BY <3>2, <3>3
        <2>2. QED
            BY <1>1, <2>1 DEF Crash, LinksStay, LinkState, WinnersStay
    <1>2. ASSUME NEW l \in Link, LinkExpires(l)
          PROVE  LinksStay /\ WinnersStay
        <2>1. link[l] \in LinkRow /\ link[l] # None /\ job' = job
            BY <1>2 DEF LinkExpires, Outstanding, IInv, TypeOK
        <2>2. /\ link'[l] = [link[l] EXCEPT !.expired = TRUE]
              /\ \A m \in Link \ {l} : link'[m] = link[m]
            BY <1>2 DEF LinkExpires, IInv, TypeOK
        <2>3. link'[l] \in LinkRow /\ link'[l].spent = link[l].spent
            BY <2>1, <2>2 DEF LinkRow
        <2>4. LinksStay
            BY <2>1, <2>2, <2>3, AccountsAssumption DEF LinksStay, LinkState
        <2>5. QED
            BY <2>1, <2>4 DEF WinnersStay, Won
    <1>3. CASE WarmUp \/ Quiet \/ UNCHANGED vars
        BY <1>3 DEF WarmUp, Quiet, vars, LinksStay, LinkState, WinnersStay, Won
    <1>4. QED
        BY <1>1, <1>2, <1>3

LEMMA NextLinks == IInv /\ [Next]_vars => [Links!Next]_(Links!vars)
    <1> SUFFICES ASSUME IInv, [Next]_vars PROVE Links!Next \/ UNCHANGED Links!vars
        OBVIOUS
    <1> USE DEF Links!Next
    <1>1. ASSUME NEW j \in Job, Arrival(j) PROVE UNCHANGED Links!vars
        BY <1>1, ArrivalLinks, LinksStutter
    <1>2. ASSUME NEW j \in Job, IssueLink(j) PROVE Links!Next
        BY <1>2, IssueLinkMints
    <1>3. ASSUME NEW j \in Job, RetireLinks(j) PROVE Links!Next
        BY <1>3, RetireLinksRetires DEF LinkState
    <1>4. ASSUME NEW j \in Job, ClaimLink(j) PROVE Links!Next \/ UNCHANGED Links!vars
        BY <1>4, ClaimLinkRedeems DEF LinkState
    <1>5. ASSUME NEW j \in Job,
                 \/ CreateAccount(j) \/ VerifyEmail(j) \/ SaveRow(j) \/ PublishStatus(j)
                 \/ StatementFails(j) \/ \E p \in Password : ResetPassword(j, p)
          PROVE  UNCHANGED Links!vars
        BY <1>5, OtherJobStepLinks, LinksStutter
    <1>6. CASE Crash \/ WarmUp \/ (\E l \in Link : LinkExpires(l)) \/ Quiet \/ UNCHANGED vars
        BY <1>6, OtherStepsLinks, LinksStutter
    <1>7. QED
        BY <1>1, <1>2, <1>3, <1>4, <1>5, <1>6 DEF Next, Step

\* The links table and the handlers over it implement single-use links: minted
\* once, then redeemed by one request or retired, for good (consumeToken,
\* issueLinkToken, InvalidateOutstanding).
THEOREM ImplementsSingleUseLinks == Spec => LinksAreSingleUse
    <1>1. Init => Links!Init
        <2> SUFFICES ASSUME Init PROVE Links!Init
            OBVIOUS
        <2>1. \A l \in Link : LinkState(l) \in {"unissued", "live"}
            BY DEF Init, LinkState
        <2>2. \A l \in Link : Winners(l) = {}
            BY DEF Init, Winners, Won, Idle
        <2>3. QED
            BY <2>1, <2>2 DEF Links!Init, LinkState, Winners
    <1>2. QED
        BY <1>1, Invariance, NextLinks, PTL DEF Spec, LinksAreSingleUse, Links!Spec

=============================================================================
