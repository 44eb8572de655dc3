CONSTANTS
    Requests = {r1, r2, r3}
    MaxConnections = 2
    MaxVisits = 3
SPECIFICATION FairSpec
INVARIANT OrderlyStopTearsNothing
PROPERTY TerminationEnds
