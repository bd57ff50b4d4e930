CONSTANTS
    Workers = {w1}
    Sigs = {s1, s2}
    FAILURE_THRESHOLD = 3
    OPEN_TIMEOUT_SEC = 2
    MaxFailures = 4
    MaxRestarts = 1
    Null = Null
    Nobody = Nobody
    Lost = Lost
SPECIFICATION RecurringErrorSpec
INVARIANTS CountIsStreak
PROPERTIES ContractHonoured OpenIsRetried
