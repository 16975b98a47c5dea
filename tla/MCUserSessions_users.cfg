\* Accounts and sessions of both backends, and the purger.
CONSTANTS
    c1 = c1  c2 = c2
    alice = alice  Alice = Alice
    p = p  q = q
    Clients = {c1, c2}
    Names = {alice, Alice}
    Fold <- ToLower
    Passwords = {p, q}
    NoUser = NoUser
    MaxId = 1
    MaxTime = 1
    SessionTTL = 1
    Backends = {"memory", "postgres"}
    Batches <- SmallBatches
    Entries <- BothNames
    Ops <- AllOps
SPECIFICATION FairSpec
INVARIANTS TypeOK SessionsHaveAccounts
PROPERTIES IsolatedUpdatesKeepTheId LiveSessionsEndByUser ExpiredSessionsArePurged
