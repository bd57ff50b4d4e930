CONSTANTS
    Waiters = {w1}
    Tokens = {t1}
    Bot = Bot
    WebThreads = {h1}
    EXPIRY_MINUTES = 3
    APPROVAL_TIMEOUT_SEC = 2
    MaxRestarts = 1
    Null = Null
SPECIFICATION FairSpec
INVARIANTS TypeOK RunsAreApproved PendingIsAwaited BotTellsTruth
PROPERTIES ApprovedInSleepRuns WaitEnds
