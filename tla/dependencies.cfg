\* Every plan of three steps, with every choice of ids, blocked steps and dependencies.
SPECIFICATION Spec
CONSTANTS
    Length = 3
    Absent = Absent
INVARIANTS
    ExecutesTheRunnable
    NoCycleRuns
    ReasonsTruthful
PROPERTY
    Terminates
\* The function returns.
CHECK_DEADLOCK FALSE
