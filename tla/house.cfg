\* Every duration that the order of the timers tells apart; overrides, reloads and a recovery.
SPECIFICATION Spec
CONSTANTS
    SleepEnter = 2
    SleepExit = 1
    WorkEnter = 1
    WorkGrace = 1
    RelaxEnter = 1
    RelaxExit = 2
    Horizon = 2
    MediaOff = TRUE
    ActivityRequired = TRUE
    Signals <- MCSignals
    Override <- MCOverride
    Checkpoint <- MCCheckpoint
    NoJob = NoJob
    NoMode = NoMode
INVARIANTS
    RechecksArmed
    NoBounce
PROPERTIES
    SettlesByPriority
