CONSTANTS
    Publishers = {p1, p2}
    LastEvent = 3
    Follows <- FollowsFirst
    BatchSize = 2
    LastEpoch = 1
    MaxFailures = 2
    MaxCopies = 3
SPECIFICATION FairSpec
INVARIANTS
    TypeOK
    PublishedIsDelivered
    ClaimsAreExclusive
    DuplicatesNeedFailures
    PackageBeforeDecision
PROPERTIES
    ImplementsDelivery
    DrainsUntilRotation
