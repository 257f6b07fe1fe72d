\* Two reviewers, a reset or a restart, and every kind of proposal.
CONSTANTS
    rich = rich
    coarse = coarse
    learned = learned
    followup = followup
    policy = policy
    Proposal <- MCProposal
    KeyOf <- MCKeyOf
    HouseKey <- MCHouseKey
    LearnedKey <- MCLearnedKey
    RuleKey <- MCRuleKey
    Rank <- MCRank
    r1 = r1
    r2 = r2
    Review <- MCReview
    MaxCreated = 2
    MaxReviews = 2
    MaxFaults = 1
    NoDecision = NoDecision
SYMMETRY Reviewers
SPECIFICATION Spec
INVARIANTS
    OnePendingPerIdentity
    ReportedDurable
    AcceptedMonitored
    ApprovalAgrees
PROPERTY DecisionsKept
