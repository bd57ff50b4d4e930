CONSTANTS
    watchdog = watchdog
    main = main
    oom = oom
    alert = alert
    doc1 = doc1
    far = far
    Workers = {main}
    Main = main
    Texts = {oom}
    Own <- OneOwn
    Curated = {doc1, far}
    Synced = {doc1, far}
    CuratedAction <- MCCuratedAction
    Near <- OneNear
    Commands = {cmd}
    NoCommand = NoCommand
    NoDoc = NoDoc
    LEARNED_ENTRY_MAX_FAILURES = 2
    LEARNED_ENTRY_FAILURE_RATE = 50
    PURGE_THRESHOLD = 3
    MaxLessons = 1
    MaxRows = 3
SPECIFICATION Spec
INVARIANTS
    PurgedWasCulprit
