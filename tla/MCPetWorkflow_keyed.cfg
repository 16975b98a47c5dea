\* Two callers under one key, lost attempts, deletions.
CONSTANTS
    c1 = c1  c2 = c2  k1 = k1  a = a
    Clients = {c1, c2}
    MaxId = 2
    Keys = {k1}
    NoKey = NoKey
    Names = {a}
    Invalid = Invalid
    NoPet = NoPet
    NoRecord = NoRecord
    NoHash = NoHash
    PersistAttempts = 2
    SyncAttempts = 1
    PartnerEnabled = TRUE
    Issued <- KeyedCreates
    Others = {"DeletePet"}
SPECIFICATION FairSpec
INVARIANTS TypeOK KeyIsFree RecordedPetsExist
PROPERTIES AssignedIdsOverwriteChosenOnes ImplementsPetRegistry CallersAreAnswered
