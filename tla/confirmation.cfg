\* One reaction whose plan suspends, and which is muted in the options; no symmetry (liveness).
SPECIFICATION FairSpec
CONSTANTS
    r1 = r1  r2 = r2  r3 = r3  ra = ra
    Request = {r1, r2}
    Reaction = {ra}
    MaxDay = 1
    OnTimeout <- OnTimeoutApply
    Blocking = {ra}
    PersistedMuted = {ra}
    MaxVisits = 0
    Closed = Closed
    NoRequest = NoRequest
    NoOccurrence = NoOccurrence
INVARIANTS
    UndecidedAccounted
    IndexSound
    TimersMatchPending
    RunsMatchStatus
PROPERTIES
    ImplementsLifecycle
    EveryRequestDecided
\* An unloaded entry with nothing in flight does nothing more.
CHECK_DEADLOCK FALSE
