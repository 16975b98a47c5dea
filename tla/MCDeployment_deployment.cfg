\* An API and a worker, each started again, wired to Postgres or to memory.
CONSTANTS
    c1 = c1  c2 = c2  k1 = k1
    Clients = {c1, c2}
    Keys = {k1}
    NoRecord = NoRecord
    MaxId = 2
    Attempts = 2
SPECIFICATION FairSpec
INVARIANTS TypeOK AnsweredPetsAreStored CreationsFindTables
PROPERTIES ImplementsRegistry CallersAreAnswered
