---------------------------- MODULE MailDelivery ----------------------------
(***************************************************************************)
(* A request that sends a mail: registration, a requested reset link. The  *)
(* handler of RequestTimeout talks to the mail server before it answers,   *)
(* and the outcome is recorded under the request's own context. The server *)
(* may refuse, hang up, fall silent at any point, or take the message and  *)
(* not be heard. Whatever comes of it, the handler answers as it would.    *)
(***************************************************************************)
EXTENDS RequestTimeout

ASSUME MailAssumption == None \notin {"sent", "failed"}

\* What a server may announce after the greeting.
Extension == {"STARTTLS", "AUTH"}

\* MAIL_DRIVER, SMTP_TLS, whether credentials are configured, and whether the
\* server is on this machine. SMTP_TIMEOUT is always positive.
Policy == [driver: {"smtp"}, tls: {"none", "starttls", "tls"}, credentials: BOOLEAN,
           local: BOOLEAN]
          \union [driver: {"log"}, tls: {"none"}, credentials: {FALSE}, local: {FALSE}]

Outcome == {None, "sent", "failed"}

\* Where one is waiting for the server. A connection is there after "dial".
Exchange == {"dial", "greeting", "security", "login", "password", "envelope", "body",
             "commit", "quit"}

VARIABLES
    policy,     \* the configuration of the mailer
    phase,      \* how far the handler's call of Send has got
    offers,     \* the extensions the server announced last
    encrypted,  \* the connection is encrypted
    inClear,    \* what has crossed an unencrypted connection
    delivery,   \* the server: it has been handed the message, it has taken it
    outcome,    \* what Send is about to return
    record,     \* the status of the row of outbound_mail
    dbFailed    \* the record could not be written for a reason of its own

connection == <<offers, encrypted, inClear>>
result == <<outcome, record, dbFailed>>
mail == <<policy, phase, connection, delivery, result>>

\* A step of the handler's goroutine inside its call of Send.
InSend(from, to) ==
    /\ handler = "running"
    /\ phase = from
    /\ phase' = to
    /\ UNCHANGED <<vars, policy>>

-----------------------------------------------------------------------------
(* The handler up to the driver.                                           *)

\* The link token and the message. When either fails nothing is sent.
Compose ==
    /\ \E to \in {"encode", "over"} : InSend("compose", to)
    /\ UNCHANGED <<connection, delivery, result>>

\* SMTPMailer.Send renders the message before it dials.
Encode ==
    /\ policy.driver = "smtp"
    /\ InSend("encode", "dial")
    /\ UNCHANGED <<connection, delivery, result>>

\* LogMailer.Send has nobody to deliver to, and says that it has sent.
WriteToLog ==
    /\ policy.driver = "log"
    /\ InSend("encode", "record")
    /\ outcome' = "sent"
    /\ UNCHANGED <<connection, delivery, record, dbFailed>>

\* Both drivers refuse a message that cannot be rendered.
CannotEncode ==
    /\ InSend("encode", "record")
    /\ outcome' = "failed"
    /\ UNCHANGED <<connection, delivery, record, dbFailed>>

-----------------------------------------------------------------------------
(* SMTPMailer.Send and the server, one step for each answer it waits for.  *)

Exposed(what) == IF encrypted THEN {} ELSE {what}

Connected ==
    /\ InSend("dial", "greeting")
    /\ encrypted' = (policy.tls = "tls")
    /\ UNCHANGED <<offers, inClear, delivery, result>>

\* The banner and the answer to EHLO, which net/smtp sends with the first command.
Greeted ==
    /\ InSend("greeting", "security")
    /\ offers' \in SUBSET Extension
    /\ UNCHANGED <<encrypted, inClear, delivery, result>>

\* Mutant: carry on in the clear when the server does not offer the upgrade.
IfOffered == policy.tls = "starttls" /\ "STARTTLS" \in offers

MustUpgrade == policy.tls = "starttls"

\* startTLS. The server announces its extensions anew over the encrypted
\* connection. That it must, and does not, is a failed send.
Upgraded ==
    /\ MustUpgrade
    /\ "STARTTLS" \in offers
    /\ InSend("security", "login")
    /\ encrypted' = TRUE
    /\ offers' \in SUBSET Extension
    /\ UNCHANGED <<inClear, delivery, result>>

NotUpgraded ==
    /\ ~MustUpgrade
    /\ InSend("security", "login")
    /\ UNCHANGED <<connection, delivery, result>>

\* authenticate, and PlainAuth's own refusal to hand a password to a remote
\* server in the clear.
SendCredentials ==
    /\ policy.credentials
    /\ "AUTH" \in offers
    /\ encrypted \/ policy.local
    /\ InSend("login", "password")
    /\ inClear' = inClear \union Exposed("credentials")
    /\ UNCHANGED <<offers, encrypted, delivery, result>>

NoCredentials ==
    /\ ~policy.credentials
    /\ InSend("login", "envelope")
    /\ UNCHANGED <<connection, delivery, result>>

Authenticated ==
    /\ InSend("password", "envelope")
    /\ UNCHANGED <<connection, delivery, result>>

\* MAIL, RCPT and DATA, each of which the server may refuse.
EnvelopeTaken ==
    /\ InSend("envelope", "body")
    /\ UNCHANGED <<connection, delivery, result>>

\* Write, and the end of the data that Close sends.
SendBody ==
    /\ InSend("body", "commit")
    /\ inClear' = inClear \union Exposed("message")
    /\ delivery' = "handed over"
    /\ UNCHANGED <<offers, encrypted, result>>

\* The server takes the message, whether or not anybody still listens.
TakeMessage ==
    /\ delivery = "handed over"
    /\ delivery' = "taken"
    /\ UNCHANGED <<vars, policy, phase, connection, result>>

\* Close has heard the answer, which is what commits the message.
Acknowledged ==
    /\ delivery = "taken"
    /\ InSend("commit", "quit")
    /\ UNCHANGED <<connection, delivery, result>>

\* Mutant: the error of closing the writer is swallowed by a deferred close.
CloseIgnored == IF phase \in {"commit", "quit"} THEN "sent" ELSE "failed"

\* A QUIT that fails does not undo the message.
Verdict == IF phase = "quit" THEN "sent" ELSE "failed"

\* Send returns: the server refuses, hangs up, does not offer what is needed, has
\* answered QUIT, or has not answered in time.
EndExchange ==
    /\ phase \in Exchange
    /\ InSend(phase, "record")
    /\ outcome' = Verdict
    /\ UNCHANGED <<connection, delivery, record, dbFailed>>

\* Mutant: SMTP_TIMEOUT is given to the dialer alone.
DialOnly == phase = "dial"

\* The dialer gives up when its timeout has passed or the context is done. From
\* then on there is a deadline of the same length on the socket; the context is
\* not asked again.
DeadlineSet == phase \in Exchange

DeadlinePasses == DeadlineSet /\ EndExchange

-----------------------------------------------------------------------------
(* RecordingMailer.Send, after the driver has returned.                    *)

\* The insert runs under the request's context: none once that is done.
Insert(status, written) ==
    /\ expired => ~written
    /\ record' = IF written THEN status ELSE None
    /\ dbFailed' = (~written /\ ~expired)

\* A failure to record is only logged.
WriteRecord ==
    /\ InSend("record", "over")
    /\ \E written \in BOOLEAN : Insert(outcome, written)
    /\ UNCHANGED <<connection, delivery, outcome>>

-----------------------------------------------------------------------------

MailInit ==
    /\ Init
    /\ policy \in Policy
    /\ phase = "compose"
    /\ offers = {}
    /\ encrypted = FALSE
    /\ inClear = {}
    /\ delivery = "none"
    /\ outcome = None
    /\ record = None
    /\ dbFailed = FALSE

\* The handler's steps that wait for nobody.
Proceed ==
    Compose \/ Encode \/ WriteToLog \/ CannotEncode \/ NotUpgraded \/ NoCredentials \/ WriteRecord

\* The steps that wait for the server, and its own.
Server ==
    \/ Connected \/ Greeted \/ Upgraded \/ SendCredentials \/ Authenticated
    \/ EnvelopeTaken \/ SendBody \/ TakeMessage \/ Acknowledged \/ EndExchange

\* The handler answers only after it has sent its mail, whatever came of that.
Answer == phase = "over" /\ ((\E s \in Status : WriteHeader(s)) \/ Write) /\ UNCHANGED mail

Finish == phase = "over" /\ Return /\ UNCHANGED mail

\* The rest of the request goes on as in RequestTimeout.
Around(A) == A /\ UNCHANGED mail

MailNext ==
    \/ Proceed \/ Server \/ DeadlinePasses
    \/ Answer \/ Finish
    \/ \E p \in Panic \ {"none"} : Around(Die(p))
    \/ Around(Unwind)
    \/ Around(Expire)
    \/ Around(Middleware)
    \/ Around(Over)

all == <<vars, mail>>

\* As in RequestTimeout, and: the handler's code runs on and returns, for after
\* its mail it waits for nothing; its statements return or fail; the deadline on
\* the socket passes. Of the server nothing is assumed.
MailFairness ==
    /\ WF_all(Around(Expire)) /\ WF_all(Around(Middleware)) /\ WF_all(Around(Unwind))
    /\ WF_all(Proceed) /\ WF_all(Finish) /\ WF_all(DeadlinePasses)

MailSpec == MailInit /\ [][MailNext]_all /\ MailFairness

-----------------------------------------------------------------------------
(* Properties, beside those of RequestTimeout.                             *)

MailTypeOK ==
    /\ TypeOK
    /\ policy \in Policy
    /\ phase \in Exchange \union {"compose", "encode", "record", "over"}
    /\ offers \subseteq Extension
    /\ encrypted \in BOOLEAN
    /\ inClear \subseteq {"credentials", "message"}
    /\ delivery \in {"none", "handed over", "taken"}
    /\ outcome \in Outcome /\ record \in Outcome
    /\ dbFailed \in BOOLEAN

\* "If starttls is configured, plaintext is not an acceptable outcome": whatever
\* the server announces, message and credentials cross only what is encrypted;
\* and no setting lets the credentials reach a remote server in the clear.
NothingInTheClear ==
    /\ policy.tls # "none" => inClear = {}
    /\ "credentials" \in inClear => policy.local

\* A message the mail server took does not go without a record, unless the
\* request's context was done or the database failed; and a message recorded as
\* sent was taken, "responsibility passed to the server".
AttemptsAreRecorded ==
    policy.driver = "smtp" =>
        /\ record = "sent" => delivery = "taken"
        /\ phase = "over" /\ delivery = "taken" => record # None \/ expired \/ dbFailed

\* The comment on RecordingMailer.Send calls "a message sent and no record of it"
\* worse than a failure reported of a message that was delivered: while the
\* database takes the record, no message that Send knows to be sent is without.
SentIsRecorded ==
    policy.driver = "smtp" /\ phase = "over" /\ outcome = "sent" /\ ~dbFailed => record # None

=============================================================================
