\* README.md:46 against a joined execution.
CONSTANTS
    c1 = c1  c2 = c2  k1 = k1  a = a
    Clients = {c1, c2}
    MaxId = 1
    Keys = {k1}
    NoKey = NoKey
    Names = {a}
    Invalid = Invalid
    NoPet = NoPet
    NoRecord = NoRecord
    NoHash = NoHash
    PersistAttempts = 2
    SyncAttempts = 2
    PartnerEnabled = TRUE
    Issued <- KeyedCreates
    Others = {}
SPECIFICATION Spec
SYMMETRY SameClients
PROPERTIES MismatchIsRefused
