\* One reaction whose plan does not suspend and which declines at the deadline; three requests
\* and two days, or two requests of one day around one options flow or reset.
SPECIFICATION Spec
CONSTANTS
    r1 = r1  r2 = r2  r3 = r3  ra = ra
    Request = {r1, r2, r3}
    Reaction = {ra}
    MaxDay = 2
    OnTimeout <- OnTimeoutSkip
    Blocking = {}
    PersistedMuted = {}
    MaxVisits = 1
    Closed = Closed
    NoRequest = NoRequest
    NoOccurrence = NoOccurrence
SYMMETRY RequestSymmetry
CONSTRAINT
    FewerWithVisit
INVARIANTS
    OnePendingPerOccurrence
    StatsTruthful
\* An unloaded entry with nothing in flight does nothing more.
CHECK_DEADLOCK FALSE
