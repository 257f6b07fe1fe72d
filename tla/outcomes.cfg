\* One reaction, two evaluations that may overlap, two arrivals, one fault.
CONSTANTS
    Reactions = 1
    Evaluation = {e1, e2}
    MaxTime = 2
    Window <- MCWindow
    Timeout = 1
    DegradeAt = 2
    BoostAt = 2
    MaxArrivals = 2
    MaxFaults = 1
    e1 = e1
    e2 = e2
SPECIFICATION FairSpec
PROPERTIES
    BlamedTruthfully
    FeedbackEarned
    EveryFiringVerified
