CONSTANTS
    Callers = {t1, t2}
    DebKeys = {k1, k2}
    COOLDOWN = 2
    MAX_CACHE_SIZE = 1
    MaxTime = 4

    LogKeys = {k1}
    DEBOUNCE_COOLDOWN = 1
    DEBOUNCE_CACHE = 2
    MaxLines = 2
    MaxSplits = 1
    MaxRotations = 1
    MaxStarts = 2
    MaxLogTime = 1
    Gone = Gone

    Varying = {"cpu", "vram"}
    CHECK_INTERVAL_SEC = 1
    CPU_STREAK_TRIGGER = 2
    ALERT_COOLDOWN_SEC = 3
    MaxMonRestarts = 1
    VRAM_THRESHOLD_PCT = 90
    Unknown = Unknown

    MAINTENANCE_INTERVAL = 2
    ETL_INTERVAL = 2
    CLUSTER_INTERVAL = 2
    PURGE_INTERVAL = 3
    Categories = {oom}
    MaxRuns = 2
    Never = Never

    Providers = {"groq", "ollama", "grok"}
    GROQ_MAX_RETRIES = 2
    OLLAMA_MAX_RETRIES = 3
    HEALTH_CHECKS = 2

    Pids = {"p1", "p2"}
    Names = {"sshd", "nginx", "app", "dotted"}
    Comms = {"sshd", "nginx"}
    ProtectedNames = {"sshd", "app"}
    Fits <- MCFits
    docker_target_app = "app"
    k8s_target_app = "nginx"
    Odd = "odd"
    PKILL_MAX_MATCHES = 1

    Senders = {t1, t2}
    MaxMessages = 2
    MaxExits = 1

    Texts = {x1, x2}
    Sources = {"syslog_augment_v2", "demo"}
    Unlabelled = {"demo"}
    Absent = Absent
    Torn = Torn
    MaxJobs = 3

    Snippets = {"s1", "s2"}
    MAX_ATTEMPTS = 3
    MaxQueries = 2
    MaxIssues = 2

    LogTexts = {x1, x2}
    NumCats = 2
    MAX_PER_CAT = 2
    MAX_CANDIDATES = 3
    BATCH_SIZE = 2
    MaxLogLines = 4

    EntryActions = {"restart_service", "clear_memory", "reboot"}
    KnownActions = {"restart_service", "clear_memory", "escalate_to_human"}
    Distances = {10, 100, 101}
    MaxResults = 3

    DbThreads = {t1, t2, t3}
    MaxDbFailures = 2

    Faults = {"oom", "auth_error", "db_deadlock", "process_crash"}
    MaxRequests = 3

    MaxInstalls = 2
    MaxEdits = 1

    MIN_N = 1
    MAX_FP = 51
    ReviewTargets = {"auto"}
    MaxRows = 2
    MaxCommands = 2

SPECIFICATION Spec
INVARIANTS
    AgentTypeOK
    OncePerCooldown
    EachErrorOnce
    AnswersAreSafe
    ExecutionIsSafe
    ShownOnceAndStored
    SourcesAreSound
    OneAtATime
    ToldRight
PROPERTIES
    ReportedErrorIsHandled
    AlertsAreDue
    OverloadIsReported
    NothingTooSoon
    SchedulesGoOn
CHECK_DEADLOCK FALSE
