CONSTANTS
    Waiters = {w1}
    Tokens = {t1}
    Bot = Bot
    WebThreads = {h1}
    EXPIRY_MINUTES = 2
    APPROVAL_TIMEOUT_SEC = 1
    MaxRestarts = 0
    Null = Null
SPECIFICATION Spec
INVARIANTS PageTellsTruth
