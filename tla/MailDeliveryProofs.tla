-------------------------- MODULE MailDeliveryProofs -------------------------
(***************************************************************************)
(* Proofs about MailDelivery: what RequestTimeoutProofs shows of any       *)
(* handler holds of one that sends mail, and what the mailer adds.         *)
(***************************************************************************)
EXTENDS MailDelivery, RequestTimeoutProofs

\* After the upgrade, if there had to be one.
Secured == {"login", "password", "envelope", "body", "commit", "quit"}

\* The connection is as safe as configured, wherever something is sent over it.
Sealed ==
    /\ policy.tls = "tls" /\ phase \in Exchange \ {"dial"} => encrypted
    /\ policy.tls = "starttls" /\ phase \in Secured => encrypted
    /\ phase = "password" => encrypted \/ policy.local
    /\ NothingInTheClear

\* What is known of the message, by how far Send has got.
Accounted ==
    /\ phase \notin {"record", "over"} => outcome = None
    /\ phase # "over" => record = None
    /\ phase \in {"compose", "encode", "dial", "greeting", "security", "login", "password",
                  "envelope", "body"} => delivery = "none"
    /\ phase = "quit" => delivery = "taken"
    /\ phase = "record" => outcome # None
    /\ policy.driver = "smtp" /\ outcome = "sent" => delivery = "taken"
    /\ record # None => record = outcome
    /\ phase = "over" /\ delivery # "none" => record # None \/ expired \/ dbFailed

\* The inductive invariant. It says of every phase what is known of the message,
\* because the server may take it at any moment from when it has it.
MInv == MailTypeOK /\ Sealed /\ Accounted

-----------------------------------------------------------------------------
(* The handler that sends mail is one of RequestTimeout's handlers.        *)

LEMMA StepMaps == MailNext => [Next]_vars
<1> SUFFICES ASSUME MailNext PROVE [Next]_vars
    OBVIOUS
<1>1. CASE Proceed
    BY <1>1 DEF Proceed, Compose, Encode, WriteToLog, CannotEncode, NotUpgraded,
                NoCredentials, WriteRecord, Insert, InSend
<1>2. CASE Server
    BY <1>2 DEF Server, Connected, Greeted, Upgraded, SendCredentials, Authenticated,
                EnvelopeTaken, SendBody, TakeMessage, Acknowledged, EndExchange, InSend
<1>3. CASE DeadlinePasses
    BY <1>3 DEF DeadlinePasses, EndExchange, InSend
<1>4. CASE Answer \/ Finish
    BY <1>4 DEF Answer, Finish, Next
<1>5. CASE \E p \in Panic \ {"none"} : Around(Die(p))
    BY <1>5 DEF Around, Next
<1>6. CASE Around(Unwind) \/ Around(Expire) \/ Around(Middleware) \/ Around(Over)
    BY <1>6 DEF Around, Next
<1> QED
    BY <1>1, <1>2, <1>3, <1>4, <1>5, <1>6 DEF MailNext

\* Every behaviour of a handler that sends mail is one of the general handler.
THEOREM AnyHandler == MailSpec => Init /\ [][Next]_vars
<1>1. MailInit => Init
    BY DEF MailInit
<1>2. [MailNext]_all => [Next]_vars
    BY StepMaps DEF all
<1> QED
    BY <1>1, <1>2, PTL DEF MailSpec

\* The invariant of the general handler holds of this one, by AnyHandler.
THEOREM MailInvariance == MailSpec => []IInv
    BY AnyHandler, InitInvariant, NextInvariant, PTL

-----------------------------------------------------------------------------

LEMMA MailInitial == MailInit => MInv
<1> SUFFICES ASSUME MailInit PROVE MInv
    OBVIOUS
<1>1. TypeOK
    BY InitInvariant DEF MailInit, IInv
<1>2. MailTypeOK
    BY <1>1 DEF MailInit, MailTypeOK, Outcome
<1>3. Sealed
    BY DEF MailInit, Sealed, NothingInTheClear, Exchange, Secured
<1>4. Accounted
    BY MailAssumption DEF MailInit, Accounted
<1> QED
    BY <1>2, <1>3, <1>4 DEF MInv

\* The handler's own steps.
LEMMA ProceedKeeps ==
    ASSUME MInv, TypeOK', Proceed
    PROVE  MInv'
<1> USE MailAssumption DEF MInv, MailTypeOK, Sealed, NothingInTheClear, Accounted, InSend,
        Exchange, Secured, Outcome, connection, result, vars
<1>1. CASE Compose
    BY <1>1 DEF Compose
<1>2. CASE Encode
    BY <1>2 DEF Encode
<1>3. CASE WriteToLog
    BY <1>3 DEF WriteToLog
<1>4. CASE CannotEncode
    BY <1>4 DEF CannotEncode
<1>5. CASE NotUpgraded
    BY <1>5 DEF NotUpgraded, MustUpgrade
<1>6. CASE NoCredentials
    BY <1>6 DEF NoCredentials
<1>7. CASE WriteRecord
    BY <1>7 DEF WriteRecord, Insert
<1> QED
    BY <1>1, <1>2, <1>3, <1>4, <1>5, <1>6, <1>7 DEF Proceed

\* The exchange with the server.
LEMMA ServerKeeps ==
    ASSUME MInv, TypeOK', Server \/ DeadlinePasses
    PROVE  MInv'
<1> USE MailAssumption DEF MInv, MailTypeOK, Sealed, NothingInTheClear, Accounted, InSend,
        Exchange, Secured, Outcome, connection, result, vars
<1>1. CASE Connected
    BY <1>1 DEF Connected
<1>2. CASE Greeted
    BY <1>2 DEF Greeted
<1>3. CASE Upgraded
    BY <1>3 DEF Upgraded
<1>4. CASE SendCredentials
    <2>1. encrypted \/ policy.tls \notin {"starttls", "tls"}
        BY <1>4 DEF SendCredentials
    <2>2. CASE encrypted
        BY <1>4, <2>2 DEF SendCredentials, Exposed
    <2>3. CASE ~encrypted
      <3>1. policy.tls = "none" /\ policy.local
        BY <1>4, <2>1, <2>3 DEF SendCredentials, Policy
      <3>2. inClear' \subseteq {"credentials", "message"}
        BY <1>4 DEF SendCredentials, Exposed
      <3> QED
        BY <1>4, <3>1, <3>2 DEF SendCredentials
    <2> QED
        BY <2>2, <2>3
<1>5. CASE Authenticated
    BY <1>5 DEF Authenticated
<1>6. CASE EnvelopeTaken
    BY <1>6 DEF EnvelopeTaken
<1>7. CASE SendBody
    <2>1. CASE encrypted
        BY <1>7, <2>1 DEF SendBody, Exposed
    <2>2. CASE ~encrypted
      <3>1. policy.tls = "none"
        BY <1>7, <2>2 DEF SendBody, Policy
      <3>2. inClear' = inClear \union {"message"}
        BY <1>7, <2>2 DEF SendBody, Exposed
      <3> QED
        BY <1>7, <3>1, <3>2 DEF SendBody
    <2> QED
        BY <2>1, <2>2
<1>8. CASE TakeMessage
    BY <1>8 DEF TakeMessage
<1>9. CASE Acknowledged
    BY <1>9 DEF Acknowledged
<1>10. CASE EndExchange
    BY <1>10 DEF EndExchange, Verdict
<1> QED
    BY <1>1, <1>2, <1>3, <1>4, <1>5, <1>6, <1>7, <1>8, <1>9, <1>10
    DEF Server, DeadlinePasses

\* Steps outside Send: the context may be done, nothing of the mail changes.
LEMMA OutsideKeeps ==
    ASSUME MInv, TypeOK', UNCHANGED mail, expired => expired'
    PROVE  MInv'
<1>1. MailTypeOK'
    BY DEF MInv, MailTypeOK, mail, connection, result
<1>2. Sealed'
    BY DEF MInv, Sealed, NothingInTheClear, mail, connection
<1>3. Accounted'
    BY DEF MInv, Accounted, mail, connection, result
<1> QED
    BY <1>1, <1>2, <1>3 DEF MInv

LEMMA ExpiredStays == IInv /\ [Next]_vars => (expired => expired')
    BY DEF Next, WriteHeader, Write, Return, Die, Unwind, PassPanicOn, CloseFinished, Expire,
           Middleware, SeeFinished, SeeExpired, SendTimeout, AwaitHandler, LogRequest,
           Recover, Over, vars

LEMMA MailStep == IInv /\ MInv /\ [MailNext]_all => MInv'
<1> SUFFICES ASSUME IInv, MInv, [MailNext]_all PROVE MInv'
    OBVIOUS
<1>1. [Next]_vars
    BY StepMaps DEF all
<1>2. TypeOK'
    BY <1>1, NextInvariant DEF IInv
<1>3. expired => expired'
    BY <1>1, ExpiredStays
<1>4. CASE Proceed
    BY <1>2, <1>4, ProceedKeeps
<1>5. CASE Server \/ DeadlinePasses
    BY <1>2, <1>5, ServerKeeps
<1>6. CASE UNCHANGED mail
    BY <1>2, <1>3, <1>6, OutsideKeeps
<1> QED
    BY <1>4, <1>5, <1>6 DEF MailNext, all, Answer, Finish, Around

LEMMA MailAlways == MailSpec => []MInv
<1>1. MailInit => IInv /\ MInv
    BY MailInitial, InitInvariant DEF MailInit
<1>2. IInv /\ MInv /\ [MailNext]_all => (IInv /\ MInv)'
    BY MailStep, StepMaps, NextInvariant DEF all
<1> QED
    BY <1>1, <1>2, PTL DEF MailSpec

\* Every variable keeps its type, whatever the server does.
THEOREM MailTypes == MailSpec => []MailTypeOK
    BY MailAlways, PTL DEF MInv

\* Neither a message nor a credential crosses a connection less protected than
\* SMTP_TLS asks for, whatever the server announces.
THEOREM NoDowngrade == MailSpec => []NothingInTheClear
    BY MailAlways, PTL DEF MInv, Sealed

\* What the server took is on record unless the context was done or the database
\* failed, and what is recorded as sent was taken.
THEOREM EveryAttempt == MailSpec => []AttemptsAreRecorded
<1>1. MInv => AttemptsAreRecorded
    BY MailAssumption DEF MInv, Accounted, AttemptsAreRecorded
<1> QED
    BY <1>1, MailAlways, PTL

=============================================================================
