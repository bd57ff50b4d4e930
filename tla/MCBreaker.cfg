CONSTANTS
    Workers = {w1, w2}
    Sigs = {s1}
    FAILURE_THRESHOLD = 3
    OPEN_TIMEOUT_SEC = 2
    MaxFailures = 4
    MaxRestarts = 1
    Null = Null
    Nobody = Nobody
    Lost = Lost
SPECIFICATION FairSpec
INVARIANTS TypeOK RowsConsistent ProbeAccounted
PROPERTIES OneProbeAtATime EarlyTestsAreRaces WedgedForGood ProbeResolved
