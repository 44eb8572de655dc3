CONSTANTS
    Calls = {c1, c2}
    AssertedCalls = {c1, c2}
    PackageIDs = {p1, p2}
    Tenants = {t1}
    KeyTexts = {lower, upper}
    Metadata = {exact, fine}
    NoTenant = NoTenant
    NoPackage = NoPackage
    lower = lower
    upper = upper
    exact = exact
    fine = fine
    other = other
    StoredKey <- LowerCased
    StoredMetadata <- Truncated
    EventsWired = TRUE
SPECIFICATION Spec
INVARIANT RepeatReturnsOriginal
