\* One pet through the wire, the aggregate and the columns.
CONSTANTS
    Words = {"", " ", "a", "A", "b"}
    Trim <- ToTrim
    Lower <- ToLower
    Absent = Absent
    NoCategory = NoCategory
    NoRef = NoRef
    NoId = NoId
    NoPet = NoPet
    Creates <- SomeCreates
    Updates <- SomeUpdates
    Forms <- SomeForms
    Grooms <- SomeGrooms
SPECIFICATION Spec
INVARIANTS TypeOK BackendsAgree QueriesAgree NamedTagsAreUnique PutBackChangesNothing
PROPERTIES HashCoversPayload
