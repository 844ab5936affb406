SPECIFICATION FairSpec
CONSTANTS
    codex = codex
    antigravity = antigravity
    NoAgent = NoAgent
    Agents <- TwoAgents
    MaxSessions = 2
    MaxTasks = 1
    MaxRestarts = 1
    RetryLimit = 3
    Outside <- NoneOutside
    Cli = TRUE
    Failures <- CheckpointFailures
    OnAgentSwitch = TRUE
    OnTimeout = TRUE
    OnRestart = TRUE
PROPERTIES SilenceResolved
\* The instance stops when its sessions and restarts are used up.
CHECK_DEADLOCK FALSE
