\* A reaction asks again for an occurrence that was already decided.
SPECIFICATION Spec
CONSTANTS
    r1 = r1  r2 = r2  r3 = r3  ra = ra
    Request = {r1, r2}
    Reaction = {ra}
    MaxDay = 1
    OnTimeout <- OnTimeoutApply
    Blocking = {}
    PersistedMuted = {}
    MaxVisits = 0
    Closed = Closed
    NoRequest = NoRequest
    NoOccurrence = NoOccurrence
INVARIANT
    AskedOncePerOccurrence
CHECK_DEADLOCK FALSE
