\* Keyed creates racing deletes and restarts, everything in memory.
CONSTANTS
    c1 = c1  c2 = c2  k1 = k1
    Clients = {c1, c2}
    MaxId = 1
    Keys = {k1}
    NoKey = NoKey
    Names = {a}
    Lengths = {0}
    Keep = Keep
    Invalid = Invalid
    NoPet = NoPet
    NoRecord = NoRecord
    Backend = "memory"
    TranslateError = FALSE
    PartnerEnabled = TRUE
    Ops <- KeyedCreates
    Creates <- AnyCreate
SPECIFICATION FairSpec
INVARIANTS TypeOK OneFingerprintPerKey LateRequestsNeverSave
PROPERTIES AnsweredCreatesAreRecorded ImplementsRegistry RequestsAreAnswered
