\* Evaluations that overlap, saves that fail, outages, flapping entities and restarts.
CONSTANTS
    e1 = e1
    e2 = e2
    Evaluation = {e1, e2}
    MaxTime = 7
    Startup = 2
    Power = 1
    Degraded = 2
    Fallback = 3
    WriteDelay = 1
SPECIFICATION Spec
SYMMETRY EvaluationSymmetry
INVARIANTS RecoveryBounded WriteScheduled
PROPERTY LeavesRecoverySettled
