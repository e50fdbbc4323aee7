-------------------------- MODULE AccountsHistory --------------------------
(***************************************************************************)
(* Accounts with three history variables. They record what requests saw of *)
(* each other and never restrain a step, so what overlapping requests do   *)
(* and do not guarantee can be said without assuming that they do not      *)
(* overlap.                                                                *)
(***************************************************************************)
EXTENDS Accounts

VARIABLES
    seen,     \* seen[j]: the row that the copy job j is about to save was made from
    earlier,  \* earlier[j]: the reset links that were there when job j came for one
    astray    \* the users whose suspension, since the process started, changed
              \* without a publication of its own to follow: see Unannounced

history == <<seen, earlier, astray>>

hvars == <<row, link, blocked, job, up, boots, seen, earlier, astray>>

-----------------------------------------------------------------------------

\* Job j runs its UPDATE, whether it succeeds or fails.
Saves(j) == job[j].pc = "save" /\ job'[j].pc # "save"

\* Somebody wrote the row after job j had read it: its save loses that update.
LosesUpdate(j) == row[job[j].user] # seen[j]

Publishing(u) == {j \in Job : job[j].pc = "publish" /\ job[j].user = u}

\* The row job j saves is not followed by a publication that decides alone what
\* the guard believes: it loses an update that it knows nothing of, or it was
\* written and its administrator was told that it failed, or another status of
\* the same account is waiting to be published.
Unannounced(j) ==
    \/ job[j].kind # "UpdateStatus" /\ LosesUpdate(j)
    \/ job[j].kind = "UpdateStatus" /\ job'[j].pc # "publish"
    \/ Publishing(job[j].user) # {}

\* The users whose suspension is lifted or imposed by such a save.
GoneAstray ==
    {u \in User : /\ Suspended(u) # Suspended(u)'
                  /\ \E j \in Job : job[j].user = u /\ Saves(j) /\ Unannounced(j)}

Record ==
    /\ seen' = [j \in Job |-> IF job'[j].pc # "save" THEN None
                              ELSE IF job[j].pc = "save" THEN seen[j]
                              ELSE row[job'[j].user]]
    /\ earlier' = [j \in Job |-> IF job[j].pc = "idle" /\ job'[j].pc = "retire"
                                   THEN LinksOf(job'[j].user, "password_reset")
                                   ELSE earlier[j]]
    /\ astray' = IF up THEN astray \union GoneAstray ELSE {}

HInit ==
    /\ Init
    /\ seen = [j \in Job |-> None]
    /\ earlier = [j \in Job |-> {}]
    /\ astray = {}

HNext ==
    \/ \E j \in Job : (Arrival(j) \/ Step(j) \/ StatementFails(j)) /\ Record
    \/ \E l \in Link : LinkExpires(l) /\ Record
    \/ Crash /\ Record
    \/ WarmUp /\ Record
    \/ Quiet /\ UNCHANGED history

HSpec == HInit /\ [][HNext]_hvars /\ Fairness

-----------------------------------------------------------------------------
(* Properties.                                                             *)

\* What a save may do to the row it replaces, given what its request is about:
\* a status is an administrator's to set, and a proof of the address activates
\* a fresh account only; nothing takes a proof of the address back.
Keeps(k, old, new) ==
    /\ new.password # old.password => k \in {"ResetPassword", "ChangePassword"}
    /\ new.name # old.name => k = "UpdateProfile"
    /\ new.status # old.status =>
            \/ k = "UpdateStatus"
            \/ k \in {"VerifyEmail", "ResetPassword"}
               /\ old.status = "inactive" /\ new.status = "active"
    /\ old.verified => new.verified

\* Lost updates are the only harm of writing whole rows back: a save that loses
\* none leaves the columns its request is not about as they are. In particular
\* only an administrator or a lost update lifts a suspension.
OnlyLostUpdatesHarm ==
    [][\A j \in Job :
        Saves(j) /\ ~LosesUpdate(j) =>
            Keeps(job[j].kind, row[job[j].user], row'[job[j].user])]_hvars

\* Once a request for a reset link has stamped the earlier ones, and for ever
\* after its answer, none of the links that were there when it arrived works:
\* however requests overlap, links that work together were asked for together.
EarlierResetLinksDie ==
    \A j \in Job :
        job[j].kind = "RequestPasswordReset" /\ job[j].pc \in {"issue", "ok"} =>
            \A l \in earlier[j] : link[l] # None /\ link[l].spent

\* With nothing in flight for an account, the guard's block list and the users
\* table tell the same story about it, across crashes and failed statements,
\* unless since the process started a save changed the account's suspension
\* unannounced. Those are the only ways the two can come apart, and the next
\* warm-up mends each of them.
RegistryAgreesWithRows ==
    \A u \in User : up /\ ~Busy(u) /\ u \notin astray => (u \in blocked <=> Suspended(u))

=============================================================================
