\* Every operation in Postgres: keyed creates, updates, deletes and failing statements race on one row.
CONSTANTS
    c1 = c1  c2 = c2  k1 = k1
    Clients = {c1, c2}
    MaxId = 1
    Keys = {k1}
    NoKey = NoKey
    Names = {a, b}
    Lengths = {0, 1}
    Keep = Keep
    Invalid = Invalid
    NoPet = NoPet
    NoRecord = NoRecord
    Backend = "postgres"
    TranslateError = TRUE
    PartnerEnabled = TRUE
    Ops <- AllOps
    Creates <- SomeCreates
SPECIFICATION Spec
SYMMETRY SameClients
INVARIANTS PartnerAgrees LateRequestsNeverSave
PROPERTIES AnsweredCreatesAreRecorded IsolatedUpdateTouchesOnlyItsFields
