CONSTANTS
    LastID = 4
    Tenant = t1
    OtherTenant = t2
    Times = {1, 2}
    Ranks = {0, 1}
    Clearance = 0
    none = none
    NoLimit = none
    Limits <- SomeLimits
    ListDefaultLimit = 1
    ListMaxLimit = 2
SPECIFICATION Spec
INVARIANTS
    NoneSkipped
    EmptyPageIsTheEnd
