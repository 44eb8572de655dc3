CONSTANTS
    Publishers = {p1}
    LastEvent = 2
    Follows <- FollowsFirst
    BatchSize = 2
    LastEpoch = 1
    MaxFailures = 0
    MaxCopies = 3
SPECIFICATION FairSpec
PROPERTY EverythingIsPublished
