CONSTANTS
    Calls = {c1, c2, c3, c4}
    AssertedCalls = {c1, c2, c3}
    PackageIDs = {p1, p2}
    Tenants = {t1}
    KeyTexts = {lower, upper}
    Metadata = {exact, fine, other}
    NoTenant = NoTenant
    NoPackage = NoPackage
    lower = lower
    upper = upper
    exact = exact
    fine = fine
    other = other
    StoredKey <- LowerCased
    StoredMetadata <- Truncated
    EventsWired = TRUE
SPECIFICATION Spec
SYMMETRY CallSymmetry
INVARIANTS
    TypeOK
    TablesAgree
    UniqueIdempotency
    Acknowledged
    OneWinner
    ConflictIsReal
    DecisionsHaveAuthors
    FailClosed
    HoldersNeverWait
