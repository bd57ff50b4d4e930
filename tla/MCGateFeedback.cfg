CONSTANTS
    Workers = {w1}
    Operators = {}
    Playbook = {"Process_Crash"}
    DEFAULT_AUTONOMY_LEVEL = "approve_then_execute"
    Managed = {}
    MaxCommands = 0
    MaxRestarts = 0
    Null = Null
SPECIFICATION Spec
INVARIANTS
    OutcomeWasRun
