CONSTANTS
    PackageIDs = {p1, p2, p3}
    Tenants = {t1, t2}
    Keys = {k1, k2}
    Blank = Blank
    Legacy = Legacy
    NoPackage = NoPackage
    NoRun = NoRun
SPECIFICATION Spec
SYMMETRY Symmetry
INVARIANTS
    SchemaIsApplied
    DecidedOnce
    StatusTellsDecision
    ScopesHold
PROPERTY
    ImplementsHistory
