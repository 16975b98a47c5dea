\* Executions racing updates and deletes of the pets they sync.
CONSTANTS
    c1 = c1  c2 = c2  k1 = k1  a = a
    Clients = {c1, c2}
    MaxId = 1
    Keys = {}
    NoKey = NoKey
    Names = {a, b}
    Invalid = Invalid
    NoPet = NoPet
    NoRecord = NoRecord
    NoHash = NoHash
    PersistAttempts = 2
    SyncAttempts = 2
    PartnerEnabled = TRUE
    Issued <- UnkeyedCreates
    Others <- Both
SPECIFICATION Spec
SYMMETRY SameClients
INVARIANTS CompletedRunsAreSynced
PROPERTIES MarkChangesOnlyTheHash
