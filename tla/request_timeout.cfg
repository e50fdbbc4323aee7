SPECIFICATION MailSpec
CONSTANTS
    Status = {201, 404}
    MaxWrites = 2
    None = None
INVARIANTS MailTypeOK AnsweredOnce ResponseIsWhole LoggedStatusWasSent ContextNotShared
INVARIANTS NothingInTheClear AttemptsAreRecorded
PROPERTY EventuallyAnswered
