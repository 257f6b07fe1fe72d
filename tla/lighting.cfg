\* One plan and one call on their way, and one kind of mishap; what follows a mishap after
\* which no property promises anything is not explored.
CONSTANTS
    day = day
    night = night
    Profile <- TwoProfiles
    Drives <- TwoDrive
    Default = day
    MaxPlans = 1
    MaxCalls = 1
    MaxMishaps = 1
    NoProfile = NoProfile
SPECIFICATION LightingSpec
INVARIANTS
    OwnChangesNotClaimed
PROPERTIES
    HumanRespected
    RoomGoesDark
CONSTRAINT
    StillPromised
