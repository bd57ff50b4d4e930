CONSTANTS
    Workers = {w1}
    Operators = {o1, o2}
    Playbook = {"Process_Crash"}
    DEFAULT_AUTONOMY_LEVEL = "auto"
    Managed = {"LLM_Inferred", "Process_Crash"}
    MaxCommands = 2
    MaxRestarts = 1
    Null = Null
SPECIFICATION Spec
INVARIANTS
    TypeOK
    RunsAreLicensed
    LocalModeAsks
    LearnedWasRun
PROPERTIES
    LevelChangesBySetLevel
