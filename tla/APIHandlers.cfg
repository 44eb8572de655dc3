CONSTANTS
    Calls = {c1, c2, c3}
    PackageIDs = {p1, p2}
    Tenants = {t1, t2}
    t1 = t1
    t2 = t2
    KeyTexts = {lower, upper}
    Digests = {d1, d2}
    Times = {micro, nano}
    Submitted <- OneKey
    lower = lower
    upper = upper
    d1 = d1
    d2 = d2
    micro = micro
    nano = nano
    Classifications = {"public", "internal"}
    Tokens <- OfficeTokens
    SigningKeys = {"realm"}
    Issuer = "realm"
    Audience = "evidence"
    Instants = {0, 1}
    NoTime = NoTime
    BadTime = BadTime
    Metadata <- AllMetadata
    NoTenant = NoTenant
    NoPackage = NoPackage
    NoObject = NoObject
    StoredKey <- LowerCased
    StoredMetadata <- Truncated
    EventsWired = FALSE
SPECIFICATION Spec
SYMMETRY Symmetry
INVARIANTS
    TypeOK
    OnlyRecordedContent
    ConfirmedIsRetained
    ReadsAreCleared
    DecisionsAreAuthorised
    RecordedIsShown
    RepeatFindsPackage
PROPERTY
    ImplementsService
