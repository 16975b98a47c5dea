\* Two identical creates without an id race under one key in Postgres.
CONSTANTS
    c1 = c1  c2 = c2  k1 = k1
    Clients = {c1, c2}
    MaxId = 2
    Keys = {k1}
    NoKey = NoKey
    Names = {a}
    Lengths = {0}
    Keep = Keep
    Invalid = Invalid
    NoPet = NoPet
    NoRecord = NoRecord
    Backend = "postgres"
    TranslateError = FALSE
    PartnerEnabled = FALSE
    Ops <- KeyedCreates
    Creates <- AnyCreate
SPECIFICATION Spec
SYMMETRY SameClients
INVARIANTS RetriesAreSafe
