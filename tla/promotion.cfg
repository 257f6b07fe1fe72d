\* Answers, decisions and resets, and one options flow that may write a stale copy back.
SPECIFICATION Spec
CONSTANTS
    ra = ra  rb = rb
    Reaction = {ra}
    MaxTime = 10
    DayLength = 2
    MinSamples = 2  MinDays = 2  MinRate = 60  MinNew = 1
    Cooldown <- CooldownTwoSlots
    MaxFlows = 1
    Closed = Closed
INVARIANTS
    NotNowRespected
    PendingIsEarned
\* The clock ends.
CHECK_DEADLOCK FALSE
