\* Overlapping evaluations, reloads and failures; no symmetry (liveness).
CONSTANTS
    c1 = c1
    c2 = c2
    j1 = j1
    j2 = j2
    t1 = t1
    t2 = t2
    t3 = t3
    Class = {c1, c2}
    Job = {j1}
    Task = {t1, t2, t3}
    MaxReloads = 1
    MaxFailures = 1
SPECIFICATION FairSpec
INVARIANTS PendingMeansTimer RunningIsOneTask FallbackAlive ChangeCovered DeadlinesCovered
PROPERTY EventuallySeen
