SPECIFICATION Spec
CONSTANTS
    codex = codex
    antigravity = antigravity
    NoAgent = NoAgent
    Agents <- TwoAgents
    MaxSessions = 1
    MaxTasks = 2
    MaxRestarts = 1
    RetryLimit = 2
    Outside <- AllOutside
    Cli = FALSE
    Failures <- AllFailures
    OnAgentSwitch = TRUE
    OnTimeout = TRUE
    OnRestart = TRUE
INVARIANTS RecoveryOfOwnTask JournalCurrent
PROPERTIES EndedForGood LiveNotTimedOut
\* The instance stops when its sessions and restarts are used up.
CHECK_DEADLOCK FALSE
