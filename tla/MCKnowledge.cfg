CONSTANTS
    watchdog = watchdog
    main = main
    oom = oom
    alert = alert
    doc1 = doc1
    far = far
    Workers = {watchdog, main}
    Main = main
    Texts = {oom, alert}
    Own <- MCOwn
    Curated = {doc1, far}
    Synced = {doc1, far}
    CuratedAction <- MCCuratedAction
    Near <- MCNear
    Commands = {cmd}
    NoCommand = NoCommand
    NoDoc = NoDoc
    LEARNED_ENTRY_MAX_FAILURES = 2
    LEARNED_ENTRY_FAILURE_RATE = 50
    PURGE_THRESHOLD = 1
    MaxLessons = 2
    MaxRows = 1
SPECIFICATION FairSpec
INVARIANTS
    TypeOK
    NoDeadWeight
    CountersExact
PROPERTIES
    RemovedStaysRemoved
    BrokenGoes
