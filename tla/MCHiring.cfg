SPECIFICATION Spec
SYMMETRY Symmetry
CONSTANTS
    Requests = {r1, r2}
    Apps = {a1, a2}
    NoApp = NoApp
    Docs = {d1, d2}
    Defaults = {d1, d2}
    BoardStages = {"SELECTED"}
    Pursued = {a1}
    MaxDisturbed = 1
INVARIANTS
    TypeOK
    HandOffAgrees
    VerdictIsOnTheFile
    OfferAfterSelection
    JoinedAccepted
    LatestAgrees
    OfferStatusAgrees
PROPERTIES
    OfferOnVerifiedFiles
    ImplementsOffers
CHECK_DEADLOCK FALSE
