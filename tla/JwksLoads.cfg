CONSTANTS
    Requests = {r1, r2, r3}
    Keys = {k1, k2}
    NoKey = NoKey
    TTL = 2
    Timeout = 1
    MaxTime = 4
SPECIFICATION Spec
SYMMETRY Symmetry
INVARIANTS
    TypeOK
    TrustedWasPublished
    EstablishedIsTrusted
