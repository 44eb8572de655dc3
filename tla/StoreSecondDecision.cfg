CONSTANTS
    Calls = {c1, c2, c3}
    AssertedCalls = {c1, c2, c3}
    PackageIDs = {p1, p2}
    Tenants = {t1}
    KeyTexts = {lower}
    Metadata = {exact}
    NoTenant = NoTenant
    NoPackage = NoPackage
    lower = lower
    upper = upper
    exact = exact
    fine = fine
    other = other
    StoredKey <- LowerCased
    StoredMetadata <- Truncated
    EventsWired = TRUE
SPECIFICATION Spec
INVARIANT SecondDecisionIsTerminal
