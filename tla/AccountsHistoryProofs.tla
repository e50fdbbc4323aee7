----------------------- MODULE AccountsHistoryProofs -----------------------
(***************************************************************************)
(* Proofs about AccountsHistory: what holds of overlapping requests, for   *)
(* any number of users, links and requests, any faults, any interleaving.  *)
(***************************************************************************)
EXTENDS AccountsHistory, AccountsProofs

\* What the history says about job j.
Sound(j) ==
    /\ job[j].pc = "idle" => job[j].kind = "none" /\ earlier[j] = {}
    /\ job[j].pc = "create" => job[j].kind = "Register" /\ job[j].copy.status # "suspended"
    /\ job[j].pc = "publish" => job[j].kind = "UpdateStatus"
    /\ job[j].pc = "save" => seen[j] \in Row /\ Keeps(job[j].kind, seen[j], job[j].copy)
    /\ earlier[j] \subseteq LinksOf(job[j].user, "password_reset")
    /\ job[j].kind = "RequestPasswordReset" /\ job[j].pc \in {"issue", "ok"} =>
            \A l \in earlier[j] : link[l].spent

\* The block list follows the row of u, or is about to.
Agree(u) ==
    /\ Publishing(u) = {} => (u \in blocked <=> Suspended(u))
    /\ \A j \in Publishing(u) : job[j].copy.status = "suspended" <=> Suspended(u)

Sync == up => \A u \in User \ astray : Agree(u)

\* The inductive invariant. Of a process that is down nothing is in progress:
\* the next warm-up starts from the rows alone.
HInv ==
    /\ IInv
    /\ DOMAIN seen = Job /\ DOMAIN earlier = Job
    /\ \A j \in Job : Sound(j)
    /\ ~up => \A j \in Job : ~InFlight(j)
    /\ Sync

-----------------------------------------------------------------------------
(* What one step does to the links, and to the other requests.             *)

LinksGrow ==
    \A l \in Link : link[l] # None =>
        /\ link'[l] # None
        /\ link'[l].user = link[l].user
        /\ link'[l].purpose = link[l].purpose
        /\ link[l].spent => link'[l].spent

OthersWait(j) == UNCHANGED <<up, boots>> /\ \A k \in Job \ {j} : job'[k] = job[k]

\* A request arrives. It has changed nothing, and made its copy of the row as
\* it is now.
Arrived(j) ==
    /\ OthersWait(j) /\ UNCHANGED <<row, link, blocked>>
    /\ up
    /\ job[j].pc = "idle"
    /\ job'[j].pc \notin {"idle", "issue", "publish"}
    /\ job'[j].pc = "create" => job'[j].kind = "Register" /\ job'[j].copy.status # "suspended"
    /\ job'[j].pc = "save" =>
            /\ row[job'[j].user] \in Row
            /\ Keeps(job'[j].kind, row[job'[j].user], job'[j].copy)

\* A request in progress makes a step.
Advanced(j) ==
    /\ OthersWait(j)
    /\ up
    /\ InFlight(j)
    /\ job'[j].user = job[j].user /\ job'[j].kind = job[j].kind
    /\ job'[j].pc # "idle"

LEMMA ArrivalArrived ==
    ASSUME IInv, NEW j \in Job, Arrival(j)
    PROVE  Arrived(j)
    <1>0. job \in [Job -> JobState] /\ row \in [User -> Row \union {None}]
        BY DEF IInv, TypeOK
    <1> USE <1>0 DEF Arrived, OthersWait, Arrives, Start
    <1>1. ASSUME NEW u \in User, RequestPasswordReset(j, u) PROVE Arrived(j)
        BY <1>1 DEF RequestPasswordReset
    <1>2. ASSUME NEW u \in User, NEW p \in Password, Login(j, u, p) PROVE Arrived(j)
        BY <1>2 DEF Login, Exists, Keeps
    <1>3. ASSUME NEW u \in User, NEW p \in Password, ChangePassword(j, u, p)
          PROVE  Arrived(j)
        <2>1. PICK c : c = [row[u] EXCEPT !.password = p]
            OBVIOUS
        <2>2. row[u] \in Row /\ Keeps("ChangePassword", row[u], c)
            BY <1>3, <2>1 DEF ChangePassword, Admitted, Exists, Row, Keeps
        <2>3. \/ Start(j, "ChangePassword", u, None, c, "save")
              \/ Start(j, "ChangePassword", u, None, None, "refused")
            BY <1>3, <2>1 DEF ChangePassword
        <2>4. QED
            BY <1>3, <2>2, <2>3 DEF ChangePassword
    <1>4. ASSUME NEW u \in User, NEW p \in Password, NEW n \in Name, Register(j, u, p, n)
          PROVE  Arrived(j)
        BY <1>4 DEF Register
    <1>5. ASSUME NEW u \in User, NEW n \in Name, UpdateProfile(j, u, n) PROVE Arrived(j)
        <2>1. row[u] \in Row /\ Keeps("UpdateProfile", row[u], Renamed(row[u], n))
            BY <1>5 DEF UpdateProfile, Admitted, Exists, Row, Renamed, Keeps
        <2>2. QED
            BY <1>5, <2>1 DEF UpdateProfile
    <1>6. ASSUME NEW u \in User, NEW s \in Status, UpdateStatus(j, u, s) PROVE Arrived(j)
        <2>1. PICK c : c = [row[u] EXCEPT !.status = s]
            OBVIOUS
        <2>2. row[u] \in Row /\ Keeps("UpdateStatus", row[u], c)
            BY <1>6, <2>1 DEF UpdateStatus, Exists, Row, Keeps
        <2>3. Start(j, "UpdateStatus", u, None, c, "save")
            BY <1>6, <2>1 DEF UpdateStatus
        <2>4. QED
            BY <1>6, <2>2, <2>3 DEF UpdateStatus
    <1>7. ASSUME NEW l \in Link, NEW k \in {"VerifyEmail", "ResetPassword"},
                 PresentLink(j, k, l)
          PROVE  Arrived(j)
        BY <1>7 DEF PresentLink
    <1>8. QED
        BY <1>1, <1>2, <1>3, <1>4, <1>5, <1>6, <1>7 DEF Arrival

LEMMA StepAdvanced ==
    ASSUME IInv, NEW j \in Job, Step(j) \/ StatementFails(j)
    PROVE  Advanced(j)
    <1>0. job \in [Job -> JobState] /\ job[j] \in JobState
        BY DEF IInv, TypeOK
    <1> USE <1>0 DEF Advanced, OthersWait, At, Goto, InFlight, Working, JobState
    <1>1. CASE CreateAccount(j)
        BY <1>1 DEF CreateAccount, Acked
    <1>2. CASE IssueLink(j)
        BY <1>2 DEF IssueLink, AfterFailedIssue, Acked
    <1>3. CASE ClaimLink(j)
        BY <1>3 DEF ClaimLink, Forget
    <1>4. CASE VerifyEmail(j)
        BY <1>4 DEF VerifyEmail, Load
    <1>5. ASSUME NEW p \in Password, ResetPassword(j, p) PROVE Advanced(j)
        BY <1>5 DEF ResetPassword, Load
    <1>6. CASE RetireLinks(j)
        BY <1>6 DEF RetireLinks, Acked
    <1>7. CASE SaveRow(j)
        BY <1>7 DEF SaveRow, Acked, AfterSave, AfterFailedSave
    <1>8. CASE StatementFails(j)
        BY <1>8 DEF StatementFails, Forget, AfterFailedIssue, AfterFailedSave
    <1>9. CASE PublishStatus(j)
        BY <1>9 DEF PublishStatus
    <1>10. QED
        BY <1>1, <1>2, <1>3, <1>4, <1>5, <1>6, <1>7, <1>8, <1>9 DEF Step

LEMMA LinksOnlyGrow ==
    ASSUME IInv, [Next]_vars
    PROVE  LinksGrow
    <1>0. link \in [Link -> LinkRow \union {None}] /\ None \notin LinkRow
        BY AccountsAssumption DEF IInv, TypeOK
    <1>1. CASE link' = link
        BY <1>1 DEF LinksGrow
    <1>2. ASSUME NEW j \in Job, IssueLink(j) PROVE LinksGrow
        BY <1>0, <1>2 DEF IssueLink, UnusedLinks, LinksGrow
    <1>3. ASSUME NEW j \in Job, ClaimLink(j) PROVE LinksGrow
        <2>1. job[j].link \in Link /\ link[job[j].link] \in LinkRow
            BY <1>0, <1>3 DEF ClaimLink, At, IInv, TypeOK, JobSound, HeldLinkSound, JobState
        <2>2. CASE Claimable(job[j].link)
            <3>1. link' = [link EXCEPT ![job[j].link].spent = TRUE]
                BY <1>3, <2>2 DEF ClaimLink
            <3>2. QED
                BY <1>0, <2>1, <3>1 DEF LinksGrow, LinkRow
        <2>3. CASE ~Claimable(job[j].link)
            BY <1>1, <1>3, <2>3 DEF ClaimLink
        <2>4. QED
            BY <2>2, <2>3
    <1>4. ASSUME NEW j \in Job, RetireLinks(j) PROVE LinksGrow
        <2> SUFFICES ASSUME NEW l \in Link, link[l] # None
                     PROVE  /\ link'[l] # None
                            /\ link'[l].user = link[l].user
                            /\ link'[l].purpose = link[l].purpose
                            /\ link[l].spent => link'[l].spent
            BY DEF LinksGrow
        <2>1. link[l] \in LinkRow
            BY <1>0
        <2>2. CASE link'[l] = link[l]
            BY <2>2
        <2>3. CASE link'[l] = [link[l] EXCEPT !.spent = TRUE]
            <3>1. link'[l] \in LinkRow
                BY <2>1, <2>3 DEF LinkRow
            <3>2. QED
                BY <1>0, <2>1, <2>3, <3>1 DEF LinkRow
        <2>4. QED
            BY <1>4, <2>2, <2>3 DEF RetireLinks
    <1>5. ASSUME NEW l \in Link, LinkExpires(l) PROVE LinksGrow
        <2>1. /\ link[l] \in LinkRow /\ link'[l] = [link[l] EXCEPT !.expired = TRUE]
              /\ \A m \in Link \ {l} : link'[m] = link[m]
            BY <1>0, <1>5 DEF LinkExpires, Outstanding
        <2>2. /\ link'[l] \in LinkRow /\ link'[l].user = link[l].user
              /\ link'[l].purpose = link[l].purpose /\ link'[l].spent = link[l].spent
            BY <2>1 DEF LinkRow
        <2>3. QED
            BY <1>0, <2>1, <2>2 DEF LinksGrow
    <1>6. ASSUME NEW j \in Job, Arrival(j) PROVE link' = link
        BY <1>6, ArrivalArrived DEF Arrived
    <1>7. ASSUME NEW j \in Job, Step(j) \/ StatementFails(j), link' # link
          PROVE  IssueLink(j) \/ ClaimLink(j) \/ RetireLinks(j)
        BY <1>7 DEF Step, StatementFails, CreateAccount, VerifyEmail, ResetPassword, SaveRow,
                    PublishStatus
    <1>8. QED
        BY <1>1, <1>2, <1>3, <1>4, <1>5, <1>6, <1>7 DEF Next, Crash, WarmUp, Quiet, vars

-----------------------------------------------------------------------------
(* What the history says about a request stays true.                       *)

LEMMA SoundElsewhere ==
    ASSUME HInv, Record, LinksGrow, NEW k \in Job, job'[k] = job[k]
    PROVE  Sound(k)'
    <1>1. Sound(k)
        BY DEF HInv
    <1>2. earlier'[k] = earlier[k] /\ (job[k].pc = "save" => seen'[k] = seen[k])
        BY DEF Record
    <1>3. QED
        BY <1>1, <1>2 DEF Sound, LinksGrow, LinksOf

LEMMA ArrivalSound ==
    ASSUME HInv, Record, NEW j \in Job, Arrived(j)
    PROVE  Sound(j)'
    <1>1. earlier[j] = {}
        BY DEF HInv, Sound, Arrived
    <1>2. /\ job'[j].pc = "retire" => earlier'[j] = LinksOf(job'[j].user, "password_reset")
          /\ job'[j].pc # "retire" => earlier'[j] = {}
          /\ job'[j].pc = "save" => seen'[j] = row[job'[j].user]
        BY <1>1 DEF Record, Arrived
    <1>3. earlier'[j] \subseteq LinksOf(job[j].user, "password_reset")'
        BY <1>2 DEF Arrived, LinksOf
    <1>4. /\ job'[j].pc \notin {"idle", "issue", "publish"}
          /\ job'[j].pc = "ok" => earlier'[j] = {}
        BY <1>2 DEF Arrived
    <1>5. job'[j].pc = "save" =>
                seen'[j] \in Row /\ Keeps(job'[j].kind, seen'[j], job'[j].copy)
        BY <1>2 DEF Arrived
    <1>6. job'[j].pc = "create" => job'[j].kind = "Register" /\ job'[j].copy.status # "suspended"
        BY DEF Arrived
    <1>7. QED
        BY <1>3, <1>4, <1>5, <1>6 DEF Sound

\* A step that neither loads a row nor stamps links: what was stamped stays so.
LEMMA OrdinaryStepSound ==
    ASSUME HInv, Record, LinksGrow, NEW j \in Job, Advanced(j),
           job'[j].pc \notin {"create", "save"},
           job'[j].pc = "publish" => job[j].kind = "UpdateStatus",
           job[j].kind = "RequestPasswordReset" /\ job'[j].pc \in {"issue", "ok"} =>
                job[j].pc \in {"issue", "ok"}
    PROVE  Sound(j)'
    <1>1. Sound(j) /\ earlier'[j] = earlier[j]
        BY DEF HInv, Record, Advanced, InFlight, Working
    <1>2. /\ job'[j].user = job[j].user /\ job'[j].kind = job[j].kind
          /\ job'[j].pc \notin {"idle", "create", "save"}
        BY DEF Advanced
    <1>3. \A l \in earlier[j] : link[l].spent => link'[l].spent
        BY <1>1 DEF Sound, LinksGrow, LinksOf
    <1>4. earlier'[j] \subseteq LinksOf(job[j].user, "password_reset")'
        BY <1>1, <1>2 DEF Sound, LinksGrow, LinksOf
    <1>5. job[j].kind = "RequestPasswordReset" /\ job'[j].pc \in {"issue", "ok"} =>
                \A l \in earlier'[j] : link'[l].spent
        BY <1>1, <1>3 DEF Sound
    <1>6. QED
        BY <1>2, <1>4, <1>5 DEF Sound

LEMMA LoadSound ==
    ASSUME HInv, Record, NEW j \in Job,
           VerifyEmail(j) \/ \E p \in Password : ResetPassword(j, p)
    PROVE  Sound(j)'
    <1>0. PICK r : r = row[job[j].user]
        OBVIOUS
    <1>1. /\ job \in [Job -> JobState] /\ job[j] \in JobState
          /\ job[j].pc = "load" /\ job[j].kind \in {"VerifyEmail", "ResetPassword"}
          /\ r \in Row /\ UNCHANGED <<row, link>>
        BY <1>0 DEF VerifyEmail, ResetPassword, At, HInv, IInv, TypeOK, JobSound, Exists
    <1>2. \/ \E pc \in {"ok", "refused"} : job' = [job EXCEPT ![j].pc = pc]
          \/ \E c \in Row : /\ job' = [job EXCEPT ![j].copy = c, ![j].pc = "save"]
                            /\ Keeps(job[j].kind, r, c)
        <2>1. CASE VerifyEmail(j)
            <3>1. PICK c : c = [r EXCEPT !.verified = TRUE, !.status = Activated(@)]
                OBVIOUS
            <3>2. job[j].kind = "VerifyEmail"
                BY <2>1 DEF VerifyEmail, At
            <3>3. c \in Row /\ Keeps(job[j].kind, r, c)
                BY <1>1, <3>1, <3>2 DEF Row, Status, Activated, Keeps
            <3>4. QED
                BY <1>0, <2>1, <3>1, <3>3 DEF VerifyEmail, Goto, Load
        <2>2. ASSUME NEW p \in Password, ResetPassword(j, p)
              PROVE  \/ job' = [job EXCEPT ![j].pc = "refused"]
                     \/ \E c \in Row : /\ job' = [job EXCEPT ![j].copy = c, ![j].pc = "save"]
                                       /\ Keeps(job[j].kind, r, c)
            <3>1. PICK c : c = [r EXCEPT !.password = p, !.verified = TRUE, !.status = Activated(@)]
                OBVIOUS
            <3>2. job[j].kind = "ResetPassword"
                BY <2>2 DEF ResetPassword, At
            <3>3. c \in Row /\ Keeps(job[j].kind, r, c)
                BY <1>1, <3>1, <3>2 DEF Row, Status, Activated, Keeps
            <3>4. QED
                BY <1>0, <2>2, <3>1, <3>3 DEF ResetPassword, Goto, Load
        <2>3. QED
            BY <2>1, <2>2
    <1>3. /\ job'[j].kind = job[j].kind /\ job'[j].user = job[j].user
          /\ job'[j].pc \in {"ok", "refused", "save"}
          /\ job'[j].pc = "save" => Keeps(job[j].kind, r, job'[j].copy)
        <2>1. ASSUME NEW pc \in {"ok", "refused"}, job' = [job EXCEPT ![j].pc = pc]
              PROVE  /\ job'[j].pc = pc /\ job'[j].kind = job[j].kind
                     /\ job'[j].user = job[j].user
            BY <1>1, <2>1 DEF JobState
        <2>2. ASSUME NEW c \in Row, job' = [job EXCEPT ![j].copy = c, ![j].pc = "save"]
              PROVE  /\ job'[j].pc = "save" /\ job'[j].kind = job[j].kind
                     /\ job'[j].user = job[j].user /\ job'[j].copy = c
            BY <1>1, <2>2 DEF JobState
        <2>3. QED
            BY <1>2, <2>1, <2>2
    <1>4. /\ earlier'[j] = earlier[j] /\ Sound(j)
          /\ job'[j].pc = "save" => seen'[j] = r
        BY <1>0, <1>1, <1>3 DEF Record, HInv
    <1>5. LinksOf(job[j].user, "password_reset")' = LinksOf(job[j].user, "password_reset")
        BY <1>1, <1>3 DEF LinksOf
    <1>6. earlier'[j] \subseteq LinksOf(job[j].user, "password_reset")'
        BY <1>4, <1>5 DEF Sound
    <1>7. QED
        BY <1>1, <1>3, <1>4, <1>6 DEF Sound

LEMMA RetireSound ==
    ASSUME HInv, Record, LinksGrow, NEW j \in Job, RetireLinks(j)
    PROVE  Sound(j)'
    <1>1. /\ job \in [Job -> JobState] /\ job[j] \in JobState
          /\ job[j].pc = "retire" /\ job[j].kind = "RequestPasswordReset"
          /\ link \in [Link -> LinkRow \union {None}] /\ Sound(j)
        BY DEF RetireLinks, At, HInv, IInv, TypeOK
    <1>2. /\ job'[j].pc \in {"issue", "error"} /\ job'[j].kind = job[j].kind
          /\ job'[j].user = job[j].user
        BY <1>1 DEF RetireLinks, Acked, Goto, JobState
    <1>3. earlier'[j] = earlier[j]
        BY <1>1 DEF Record, HInv
    <1>4. ASSUME NEW l \in earlier[j] PROVE link'[l].spent
        <2>1. l \in Retired(job[j].user) /\ l \in Link /\ link[l] \in LinkRow
            BY <1>1 DEF Sound, Retired, LinksOf
        <2>2. link'[l] = [link[l] EXCEPT !.spent = TRUE]
            BY <2>1 DEF RetireLinks
        <2>3. QED
            BY <2>1, <2>2 DEF LinkRow
    <1>5. earlier[j] \subseteq LinksOf(job[j].user, "password_reset")'
        BY <1>1, <1>2 DEF Sound, LinksGrow, LinksOf
    <1>6. QED
        BY <1>2, <1>3, <1>4, <1>5 DEF Sound

LEMMA StepSound ==
    ASSUME HInv, Record, LinksGrow, NEW j \in Job, Step(j) \/ StatementFails(j)
    PROVE  Sound(j)'
    <1>0. /\ job \in [Job -> JobState] /\ job[j] \in JobState /\ Sound(j)
          /\ Advanced(j)
        BY StepAdvanced DEF HInv, IInv, TypeOK
    <1> DEFINE P == /\ job'[j].pc \notin {"create", "save"}
                    /\ job'[j].pc = "publish" => job[j].kind = "UpdateStatus"
                    /\ job[j].kind = "RequestPasswordReset" /\ job'[j].pc \in {"issue", "ok"} =>
                            job[j].pc \in {"issue", "ok"}
    <1> USE <1>0 DEF At, Goto, JobState, Sound
    <1>1. ASSUME CreateAccount(j) PROVE P
        BY <1>1 DEF CreateAccount, Acked
    <1>2. ASSUME IssueLink(j) PROVE P
        BY <1>2 DEF IssueLink, AfterFailedIssue, Acked
    <1>3. ASSUME ClaimLink(j) PROVE P
        BY <1>3 DEF ClaimLink, Forget
    <1>4. ASSUME SaveRow(j) PROVE P
        BY <1>4 DEF SaveRow, Acked, AfterSave, AfterFailedSave, Savers
    <1>5. ASSUME PublishStatus(j) PROVE P
        BY <1>5 DEF PublishStatus
    <1>6. ASSUME StatementFails(j) PROVE P
        BY <1>6 DEF StatementFails, Forget, AfterFailedIssue, AfterFailedSave
    <1> HIDE DEF P, Sound
    <1>7. P => Sound(j)'
        BY OrdinaryStepSound DEF P
    <1>8. QED
        BY <1>1, <1>2, <1>3, <1>4, <1>5, <1>6, <1>7, LoadSound, RetireSound DEF Step
-----------------------------------------------------------------------------
(* The block list. Only a save changes whether an account is suspended, and *)
(* only a publication or a warm-up what the guard believes.                *)

\* A step of job j that changes no suspension and publishes nothing.
LEMMA AgreeKept ==
    ASSUME HInv, Record, up, NEW j \in Job, OthersWait(j), blocked' = blocked,
           \A u \in User : Suspended(u)' <=> Suspended(u),
           job[j].pc # "publish", job'[j].pc # "publish"
    PROVE  Sync'
    <1>1. ASSUME NEW u \in User, u \notin astray' PROVE Agree(u)'
        <2>1. Agree(u)
            BY <1>1 DEF HInv, Sync, Record
        <2>2. \A k \in Job : job[k].pc = "publish" \/ job'[k].pc = "publish" => job'[k] = job[k]
            BY DEF OthersWait
        <2>3. Publishing(u)' = Publishing(u)
            BY <2>2 DEF Publishing
        <2>4. \A k \in Publishing(u) : job'[k] = job[k]
            BY <2>2 DEF Publishing
        <2>5. QED
            BY <2>1, <2>3, <2>4 DEF Agree
    <1>2. QED
        BY <1>1 DEF Sync

LEMMA SaveRowAgrees ==
    ASSUME HInv, Record, NEW j \in Job, SaveRow(j)
    PROVE  Sync'
    <1>0. PICK u, c, k : u = job[j].user /\ c = job[j].copy /\ k = job[j].kind
        OBVIOUS
    <1>1. /\ job \in [Job -> JobState] /\ job[j] \in JobState /\ job[j].pc = "save" /\ up
          /\ u \in User /\ c \in Row /\ c # None /\ Exists(u)
          /\ row \in [User -> Row \union {None}] /\ None \notin Row
        BY <1>0, AccountsAssumption DEF SaveRow, At, HInv, IInv, TypeOK, JobSound
    <1>2. /\ job'[j].pc \in {"publish", "ok", "error"} /\ job'[j].user = u /\ job'[j].copy = c
          /\ OthersWait(j) /\ blocked' = blocked
        BY <1>0, <1>1 DEF SaveRow, AfterSave, AfterFailedSave, Acked, Goto, JobState, OthersWait
    <1>3. CASE ~MayUpdate(u, c.name)
        <2>1. row' = row /\ job'[j].pc # "publish"
            BY <1>0, <1>1, <1>3 DEF SaveRow, Goto, AfterFailedSave, JobState
        <2>2. \A v \in User : Suspended(v)' <=> Suspended(v)
            BY <2>1 DEF Suspended, Exists
        <2>3. QED
            BY <1>1, <1>2, <2>1, <2>2, AgreeKept
    <1>4. CASE MayUpdate(u, c.name)
        <2>1. row' = [row EXCEPT ![u] = c]
            BY <1>0, <1>4 DEF SaveRow
        <2>2. /\ Suspended(u)' <=> c.status = "suspended"
              /\ \A v \in User \ {u} : Suspended(v)' <=> Suspended(v)
            BY <1>1, <2>1 DEF Suspended, Exists
        <2>3. ASSUME NEW v \in User \ {u}, v \notin astray' PROVE Agree(v)'
            <3>1. Agree(v)
                BY <1>1, <2>3 DEF HInv, Sync, Record
            <3>2. \A m \in Job \ {j} : job'[m] = job[m]
                BY <1>2 DEF OthersWait
            <3>3. Publishing(v)' = Publishing(v) /\ \A m \in Publishing(v) : job'[m] = job[m]
                BY <1>0, <1>2, <3>2 DEF Publishing
            <3>4. QED
                BY <1>2, <2>2, <3>1, <3>3 DEF Agree
        <2>4. ASSUME u \notin astray' PROVE Agree(u)'
            <3>1. /\ Agree(u)
                  /\ (Suspended(u)' <=> Suspended(u)) \/ ~Unannounced(j)
                <4>1. u \notin astray \union GoneAstray
                    BY <1>1, <2>4 DEF Record
                <4>2. Saves(j)
                    BY <1>1, <1>2 DEF Saves
                <4>3. QED
                    BY <1>0, <1>1, <4>1, <4>2 DEF GoneAstray, HInv, Sync
            <3>2. /\ \A m \in Publishing(u) : m # j /\ job'[m] = job[m] /\ m \in Publishing(u)'
                  /\ \A m \in Publishing(u)' : m = j \/ (m \in Publishing(u) /\ job'[m] = job[m])
                  /\ j \in Publishing(u)' <=> job'[j].pc = "publish"
                BY <1>0, <1>1, <1>2 DEF Publishing, OthersWait
            <3>3. CASE Suspended(u)' <=> Suspended(u)
                BY <1>2, <2>2, <3>1, <3>2, <3>3 DEF Agree
            <3>4. CASE ~(Suspended(u)' <=> Suspended(u))
                <4>1. ~Unannounced(j)
                    BY <3>1, <3>4
                <4>2. CASE k = "UpdateStatus"
                    <5>1. job'[j].pc = "publish" /\ Publishing(u) = {}
                        BY <1>0, <4>1, <4>2 DEF Unannounced
                    <5>2. QED
                        BY <1>2, <2>2, <3>2, <5>1 DEF Agree
                <4>3. CASE k # "UpdateStatus"
                    <5>1. Keeps(k, row[u], c)
                        BY <1>0, <1>1, <4>1, <4>3 DEF Unannounced, LosesUpdate, HInv, Sound
                    <5>2. c.status = "suspended" <=> row[u].status = "suspended"
                        BY <4>3, <5>1 DEF Keeps
                    <5>3. QED
                        BY <1>1, <2>2, <3>4, <5>2 DEF Suspended
                <4>4. QED
                    BY <4>2, <4>3
            <3>5. QED
                BY <3>3, <3>4
        <2>5. QED
            BY <2>3, <2>4 DEF Sync
    <1>5. QED
        BY <1>3, <1>4

LEMMA PublishAgrees ==
    ASSUME HInv, Record, NEW j \in Job, PublishStatus(j)
    PROVE  Sync'
    <1>0. PICK u : u = job[j].user
        OBVIOUS
    <1>1. /\ job \in [Job -> JobState] /\ job[j] \in JobState /\ job[j].pc = "publish" /\ up
          /\ u \in User
        BY <1>0 DEF PublishStatus, At, HInv, IInv, TypeOK, JobSound
    <1>2. /\ job'[j].pc = "ok" /\ OthersWait(j) /\ row' = row
          /\ \A v \in User : Suspended(v)' <=> Suspended(v)
        BY <1>1 DEF PublishStatus, Goto, JobState, OthersWait, Suspended, Exists
    <1>3. /\ u \in blocked' <=> job[j].copy.status = "suspended"
          /\ \A v \in User \ {u} : v \in blocked' <=> v \in blocked
        BY <1>0, <1>1 DEF PublishStatus, Published
    <1>4. ASSUME NEW v \in User, v \notin astray' PROVE Agree(v)'
        <2>1. Agree(v)
            BY <1>1, <1>4 DEF HInv, Sync, Record
        <2>2. Publishing(v)' = Publishing(v) \ {j} /\ \A m \in Publishing(v)' : job'[m] = job[m]
            BY <1>2 DEF Publishing, OthersWait
        <2>3. CASE v = u
            <3>1. job[j].copy.status = "suspended" <=> Suspended(u)
                BY <1>0, <1>1, <2>1, <2>3 DEF Agree, Publishing
            <3>2. QED
                BY <1>2, <1>3, <2>1, <2>2, <2>3, <3>1 DEF Agree
        <2>4. CASE v # u
            <3>1. Publishing(v)' = Publishing(v)
                BY <1>0, <2>2, <2>4 DEF Publishing
            <3>2. QED
                BY <1>2, <1>3, <2>1, <2>2, <2>4, <3>1 DEF Agree
        <2>5. QED
            BY <2>3, <2>4
    <1>5. QED
        BY <1>4 DEF Sync

\* A new account is not suspended, and nobody's row is overwritten.
LEMMA CreateAccountAgrees ==
    ASSUME HInv, Record, NEW j \in Job, CreateAccount(j)
    PROVE  Sync'
    <1>1. /\ job \in [Job -> JobState] /\ job[j] \in JobState /\ up
          /\ job[j].pc = "create" /\ job[j].copy.status # "suspended"
          /\ job[j].user \in User /\ row \in [User -> Row \union {None}]
        BY DEF CreateAccount, At, HInv, IInv, TypeOK, JobSound, Sound
    <1>2. job'[j].pc # "publish" /\ OthersWait(j) /\ blocked' = blocked
        BY <1>1 DEF CreateAccount, Acked, Goto, JobState, OthersWait
    <1>3. \A u \in User : Suspended(u)' <=> Suspended(u)
        <2>1. CASE MayInsert(job[j].user, job[j].copy.name)
            <3>1. row' = [row EXCEPT ![job[j].user] = job[j].copy] /\ ~Exists(job[j].user)
                BY <2>1 DEF CreateAccount, MayInsert
            <3>2. QED
                BY <1>1, <3>1 DEF Suspended, Exists
        <2>2. CASE ~MayInsert(job[j].user, job[j].copy.name)
            BY <2>2 DEF CreateAccount, Suspended, Exists
        <2>3. QED
            BY <2>1, <2>2
    <1>4. QED
        BY <1>1, <1>2, <1>3, AgreeKept

LEMMA StepAgrees ==
    ASSUME HInv, Record, NEW j \in Job, Step(j) \/ StatementFails(j)
    PROVE  Sync'
    <1>0. /\ job \in [Job -> JobState] /\ job[j] \in JobState
          /\ OthersWait(j) /\ up
        BY StepAdvanced DEF HInv, IInv, TypeOK, Advanced
    <1> DEFINE P == UNCHANGED <<row, blocked>> /\ job[j].pc # "publish" /\ job'[j].pc # "publish"
    <1> USE <1>0 DEF At, Goto, JobState
    <1>1. ASSUME IssueLink(j) PROVE P
        BY <1>1 DEF IssueLink, AfterFailedIssue, Acked
    <1>2. ASSUME ClaimLink(j) PROVE P
        BY <1>2 DEF ClaimLink, Forget
    <1>3. ASSUME RetireLinks(j) PROVE P
        BY <1>3 DEF RetireLinks, Acked
    <1>4. ASSUME StatementFails(j) PROVE P
        BY <1>4 DEF StatementFails, Forget, AfterFailedIssue, AfterFailedSave
    <1>5. ASSUME VerifyEmail(j) \/ \E p \in Password : ResetPassword(j, p) PROVE P
        <2>1. \/ \E pc \in {"ok", "refused"} : job' = [job EXCEPT ![j].pc = pc]
              \/ \E c : job' = [job EXCEPT ![j].copy = c, ![j].pc = "save"]
            BY <1>5 DEF VerifyEmail, ResetPassword, Load
        <2>2. job'[j].pc # "publish"
            BY <2>1
        <2>3. QED
            BY <1>5, <2>2 DEF VerifyEmail, ResetPassword
    <1> HIDE DEF P
    <1>6. ASSUME P PROVE Sync'
        <2>1. \A u \in User : Suspended(u)' <=> Suspended(u)
            BY <1>6 DEF P, Suspended, Exists
        <2>2. QED
            BY <1>6, <2>1, AgreeKept DEF P
    <1>7. QED
        BY <1>1, <1>2, <1>3, <1>4, <1>5, <1>6, CreateAccountAgrees, SaveRowAgrees, PublishAgrees
           DEF Step

-----------------------------------------------------------------------------
(* The steps of the process and of time, and all steps together.           *)

LEMMA SystemStepsHInv ==
    ASSUME HInv, IInv', Record, LinksGrow, Crash \/ WarmUp \/ \E l \in Link : LinkExpires(l)
    PROVE  HInv'
    <1>0. DOMAIN seen' = Job /\ DOMAIN earlier' = Job
        BY DEF Record
    <1>1. CASE Crash
        <2>1. ASSUME NEW j \in Job
              PROVE  /\ job'[j].user = job[j].user /\ job'[j].kind = job[j].kind
                     /\ job'[j].pc \notin Working
                     /\ job'[j].pc # "lost" => job'[j].pc = job[j].pc
                     /\ job[j].pc = "idle" => job'[j].pc = "idle"
            <3>1. job[j] \in JobState
                BY DEF HInv, IInv, TypeOK
            <3>2. CASE InFlight(j)
                BY <1>1, <3>1, <3>2 DEF Crash, JobState, InFlight, Working
            <3>3. CASE ~InFlight(j)
                BY <1>1, <3>3 DEF Crash, InFlight
            <3>4. QED
                BY <3>2, <3>3
        <2>2. \A j \in Job : Sound(j) /\ earlier'[j] = earlier[j]
            BY <2>1 DEF HInv, Record, Working
        <2>3. ASSUME NEW j \in Job PROVE Sound(j)'
            <3>1. Sound(j) /\ earlier'[j] = earlier[j] /\ link' = link
                BY <1>1, <2>2 DEF Crash
            <3>2. LinksOf(job[j].user, "password_reset")' = LinksOf(job[j].user, "password_reset")
                BY <2>1, <3>1 DEF LinksOf
            <3>3. QED
                BY <2>1, <3>1, <3>2 DEF Sound, Working
        <2>4. ~up'
            BY <1>1 DEF Crash
        <2>5. QED
            BY <1>0, <2>1, <2>3, <2>4 DEF HInv, Sync, InFlight
    <1>2. CASE WarmUp
        <2>1. \A j \in Job : Sound(j)'
            BY <1>2, SoundElsewhere DEF WarmUp
        <2>2. \A u \in User : Publishing(u)' = {}
            BY <1>2 DEF WarmUp, HInv, InFlight, Working, Publishing
        <2>3. \A u \in User : Agree(u)'
            BY <1>2, <2>2 DEF WarmUp, Agree, SuspendedUserIDs, Suspended, Exists
        <2>4. up'
            BY <1>2 DEF WarmUp
        <2>5. QED
            BY <1>0, <2>1, <2>3, <2>4 DEF HInv, Sync
    <1>3. CASE \E l \in Link : LinkExpires(l)
        <2>1. UNCHANGED <<row, blocked, job, up>>
            BY <1>3 DEF LinkExpires
        <2>2. \A j \in Job : Sound(j)'
            BY <2>1, SoundElsewhere
        <2>3. up => astray \subseteq astray'
            BY DEF Record
        <2>4. Sync'
            BY <2>1, <2>3 DEF HInv, Sync, Agree, Publishing, Suspended, Exists
        <2>5. QED
            BY <1>0, <2>1, <2>2, <2>4 DEF HInv, InFlight
    <1>4. QED
        BY <1>1, <1>2, <1>3

LEMMA InitHInv == HInit => HInv
    <1> SUFFICES ASSUME HInit PROVE HInv
        OBVIOUS
    <1>1. \A j \in Job : job[j].pc = "idle" /\ job[j].kind = "none" /\ earlier[j] = {}
        BY DEF HInit, Init, Idle
    <1>2. \A j \in Job : Sound(j)
        BY <1>1 DEF Sound
    <1>3. Sync
        BY <1>1 DEF HInit, Init, Sync, Agree, Publishing, SuspendedUserIDs
    <1>4. QED
        BY <1>2, <1>3, InitIInv DEF HInit, Init, HInv

LEMMA HNextNext == [HNext]_hvars => [Next]_vars
    BY DEF HNext, Next, hvars, vars

LEMMA NextHInv == HInv /\ [HNext]_hvars => HInv'
    <1> SUFFICES ASSUME HInv, [HNext]_hvars PROVE HInv'
        OBVIOUS
    <1>1. IInv' /\ LinksGrow
        BY HNextNext, NextIInv, LinksOnlyGrow DEF HInv
    <1>2. ASSUME NEW j \in Job, Arrival(j), Record PROVE HInv'
        <2>1. Arrived(j)
            BY <1>2, ArrivalArrived DEF HInv
        <2>2. \A k \in Job : Sound(k)'
            BY <1>1, <1>2, <2>1, ArrivalSound, SoundElsewhere DEF Arrived, OthersWait
        <2>3. Sync'
            <3>1. \A u \in User : Suspended(u)' <=> Suspended(u)
                BY <2>1 DEF Arrived, Suspended, Exists
            <3>2. QED
                BY <1>2, <2>1, <3>1, AgreeKept DEF Arrived
        <2>4. up' /\ DOMAIN seen' = Job /\ DOMAIN earlier' = Job
            BY <1>2, <2>1 DEF Arrived, OthersWait, Record
        <2>5. QED
            BY <1>1, <2>2, <2>3, <2>4 DEF HInv
    <1>3. ASSUME NEW j \in Job, Step(j) \/ StatementFails(j), Record PROVE HInv'
        <2>1. Advanced(j)
            BY <1>3, StepAdvanced DEF HInv
        <2>2. \A k \in Job : Sound(k)'
            BY <1>1, <1>3, <2>1, StepSound, SoundElsewhere DEF Advanced, OthersWait
        <2>3. Sync'
            BY <1>3, StepAgrees
        <2>4. up' /\ DOMAIN seen' = Job /\ DOMAIN earlier' = Job
            BY <1>3, <2>1 DEF Advanced, OthersWait, Record
        <2>5. QED
            BY <1>1, <2>2, <2>3, <2>4 DEF HInv
    <1>4. CASE UNCHANGED hvars
        BY <1>1, <1>4 DEF hvars, HInv, Sound, Sync, Agree, Publishing, LinksOf, Suspended,
                          Exists, InFlight
    <1>5. CASE Quiet /\ UNCHANGED history
        BY <1>4, <1>5 DEF Quiet, vars, history, hvars
    <1>6. QED
        BY <1>1, <1>2, <1>3, <1>4, <1>5, SystemStepsHInv DEF HNext

-----------------------------------------------------------------------------
(* The theorems.                                                           *)

\* What the theorems below follow from.
THEOREM HistoryInvariance == HSpec => []HInv
    <1>1. QED
        BY InitHInv, NextHInv, PTL DEF HSpec

\* With nothing in flight for an account, the block list and the table agree
\* about it, however requests overlap, fail and are cut off, unless a save has
\* changed the account's suspension unannounced since the process started.
THEOREM BlockListAgrees == HSpec => []RegistryAgreesWithRows
    <1>1. HInv => RegistryAgreesWithRows
        BY DEF HInv, Sync, Agree, RegistryAgreesWithRows, Busy, InFlight, Working, Publishing
    <1>2. QED
        BY <1>1, HistoryInvariance, PTL

\* No reset link that a request found there when it arrived works once the
\* request has stamped them, however many requests run at once.
THEOREM EarlierLinksStayDead == HSpec => []EarlierResetLinksDie
    <1>1. HInv => EarlierResetLinksDie
        BY DEF HInv, Sound, EarlierResetLinksDie, LinksOf
    <1>2. QED
        BY <1>1, HistoryInvariance, PTL

\* A save that loses no update changes only what its request is about: a
\* suspension is lifted by an administrator or by a lost update, or not at all.
THEOREM OnlyLostUpdatesDoHarm == HSpec => OnlyLostUpdatesHarm
    <1> DEFINE Harmless ==
            \A j \in Job :
                Saves(j) /\ ~LosesUpdate(j) =>
                    Keeps(job[j].kind, row[job[j].user], row'[job[j].user])
    <1>1. HInv /\ [HNext]_hvars => [Harmless]_hvars
        <2> SUFFICES ASSUME HInv, [HNext]_hvars, NEW j \in Job, Saves(j), ~LosesUpdate(j)
                     PROVE  Keeps(job[j].kind, row[job[j].user], row'[job[j].user])
            OBVIOUS
        <2>1. /\ job[j].pc = "save" /\ job'[j] # job[j] /\ Sound(j) /\ job[j].copy # None
              /\ job[j].user \in User /\ row \in [User -> Row \union {None}]
            BY AccountsAssumption DEF Saves, HInv, IInv, TypeOK, JobSound
        <2>2. Keeps(job[j].kind, row[job[j].user], job[j].copy)
            BY <2>1 DEF Sound, LosesUpdate
        <2>3. \A k, r : Keeps(k, r, r)
            BY DEF Keeps
        <2>4. ASSUME NEW k \in Job, Arrival(k) \/ Step(k) \/ StatementFails(k)
              PROVE  k = j /\ ~Arrival(k)
            BY <2>1, <2>4, ArrivalArrived, StepAdvanced
               DEF Arrived, Advanced, OthersWait, HInv
        <2>5. ASSUME Step(j) \/ StatementFails(j)
              PROVE  row' = row \/ row' = [row EXCEPT ![job[j].user] = job[j].copy]
            BY <2>1, <2>5 DEF Step, StatementFails, CreateAccount, IssueLink, ClaimLink,
               VerifyEmail, ResetPassword, RetireLinks, SaveRow, PublishStatus, At
        <2>6. row' = row \/ row' = [row EXCEPT ![job[j].user] = job[j].copy]
            BY <2>4, <2>5 DEF HNext, LinkExpires, Crash, WarmUp, Quiet, vars, hvars
        <2>7. QED
            BY <2>1, <2>2, <2>3, <2>6
    <1>2. QED
        BY <1>1, HistoryInvariance, PTL DEF HSpec, OnlyLostUpdatesHarm

=============================================================================
