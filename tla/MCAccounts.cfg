SPECIFICATION Spec
SYMMETRY Symmetry
CONSTANTS
    Requests = {r1, r2}
    Tabs = {t1, t2}
    NoTab = NoTab
    Handles = {h1, h2}
    NoHandle = NoHandle
    Links = {l1}
    NoLink = NoLink
    MaxAttempts = 2
    MaxCodes = 2
    MaxUsers = 2
    MaxTokens = 2
    MaxRevocations = 1
    MaxOverlaps = 1
INVARIANTS
    TypeOK
    GuessesBounded
    CodeUsedOnce
    OneAccountPerAddress
    SessionsPostdateRevocation
    LockedOutOnlyInFlight
    StoredIsLive
    LoggedOutIsRevoked
PROPERTY
    ImplementsSignIns
CHECK_DEADLOCK FALSE
