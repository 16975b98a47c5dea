----------------------------- MODULE OrderStore -----------------------------
(***************************************************************************)
(* The store's orders: who gives an order its id, what Save returns, and   *)
(* the inventory.                                                          *)
(*                                                                         *)
(* A client may choose an order's id, of either sign; an order without one *)
(* (id 0) gets the next id of a counter.  The memory store's counter is    *)
(* raised over every id a client chooses, and wraps in 64 bits; Postgres   *)
(* takes the next value of a sequence, which knows nothing of chosen ids   *)
(* and ends at its maximum.  The two integer widths are constants.         *)
(*                                                                         *)
(* GetOrderByID and Inventory read the store in one call and change        *)
(* nothing; the inventory is an operator on the orders listed.             *)
(***************************************************************************)
EXTENDS Integers, FiniteSets, FiniteSetsExt

CONSTANTS Clients,     \* concurrent requests
          MaxId,       \* the largest id (math.MaxInt64)
          MaxQuantity, \* the largest quantity (math.MaxInt32)
          NoOrder,     \* no row or map entry
          Backends,    \* the backends a process may start with
          Issued,      \* the orders clients place (a bound)
          Deleted      \* the ids clients delete (a bound)

MinId     == -MaxId - 1
Ids       == MinId .. MaxId
Ints32    == -MaxQuantity - 1 .. MaxQuantity
Statuses  == {"placed", "approved", "delivered"}
Order     == [quantity : 1 .. MaxQuantity, status : Statuses]
Payload   == [id : Ids, quantity : Ints32, status : Statuses \cup {"", "unknown"}]
Held      == [id : Ids, order : Order]

ASSUME OrdersAssumption ==
    /\ MaxId \in Nat \ {0}
    /\ MaxQuantity \in Nat \ {0}
    /\ NoOrder \notin Order
    /\ Backends \subseteq {"memory", "postgres"}
    /\ Issued \subseteq Payload
    /\ Deleted \subseteq Ids

VARIABLES
    backend, \* where this deployment keeps orders
    orders,  \* the order under each id
    lastId,  \* nextID of the memory store; the value the sequence gave last
    pc,      \* the next store call of each client
    held,    \* the order in its hands
    used,    \* history: the ids orders were ever stored under
    chosen,  \* history: those of them that clients chose
    wrapped, \* history: the counter passed its maximum
    crossed  \* history: others wrote the row between Save's two statements

history == <<used, chosen, wrapped>>
vars    == <<backend, orders, lastId, pc, held, used, chosen, wrapped, crossed>>

Nobody == [id |-> 0, order |-> [quantity |-> 1, status |-> "placed"]]

Init ==
    /\ backend \in Backends
    /\ orders = [i \in Ids |-> NoOrder]
    /\ lastId = 0
    /\ pc = [c \in Clients |-> "idle"]
    /\ held = [c \in Clients |-> Nobody]
    /\ used = {}
    /\ chosen = {}
    /\ wrapped = FALSE
    /\ crossed = [c \in Clients |-> FALSE]

-----------------------------------------------------------------------------
(* Placing an order                                                        *)

(* Mutant: quantities are taken as they come.                              *)
StatusRefused(p) == p.status = "unknown"
(* A pet id that is not positive is refused as such a quantity is.         *)
Refused(p) == p.quantity <= 0 \/ p.status = "unknown"

Defaulted(status) == IF status = "" THEN "placed" ELSE status

(* The mapper and the service validate the payload; a refused one never    *)
(* reaches the store.                                                      *)
PlaceOrder(c) ==
    /\ pc[c] = "idle"
    /\ \E p \in Issued :
         /\ ~Refused(p)
         /\ held' = [held EXCEPT ![c] =
              [id |-> p.id, order |-> [quantity |-> p.quantity, status |-> Defaulted(p.status)]]]
    /\ pc' = [pc EXCEPT ![c] = "save"]
    /\ UNCHANGED <<backend, orders, lastId, history, crossed>>

Finish(c) ==
    /\ pc' = [pc EXCEPT ![c] = "idle"]
    /\ held' = [held EXCEPT ![c] = Nobody]
    /\ crossed' = [crossed EXCEPT ![c] = FALSE]

(* History: c writes a row that others are about to read back.             *)
Crosses(c, i) ==
    crossed' = [d \in Clients |->
        IF d = c THEN FALSE ELSE crossed[d] \/ (pc[d] = "reread" /\ held[d].id = i)]

Store(i, order, isChosen) ==
    /\ orders' = [orders EXCEPT ![i] = order]
    /\ used' = used \cup {i}
    /\ chosen' = IF isChosen THEN chosen \cup {i} ELSE chosen

Successor(n) == IF n = MaxId THEN MinId ELSE n + 1

(* Mutant: a chosen id leaves the counter where it is.                     *)
Unraised(i) == lastId
Raised(i) == IF i > lastId THEN i ELSE lastId

SaveMemory(c) ==
    /\ backend = "memory"
    /\ pc[c] = "save"
    /\ \/ /\ held[c].id = 0
          /\ lastId' = Successor(lastId)
          /\ wrapped' = (wrapped \/ lastId = MaxId)
          /\ Store(lastId', held[c].order, FALSE)
       \/ /\ held[c].id # 0
          /\ lastId' = Raised(held[c].id)
          /\ UNCHANGED wrapped
          /\ Store(held[c].id, held[c].order, TRUE)
    /\ Finish(c)
    /\ UNCHANGED backend

(* Mutant: the update leaves the quantity out.                             *)
StatusOnly(row, order) == IF row = NoOrder THEN order ELSE [row EXCEPT !.status = order.status]
(* ON CONFLICT (id) DO UPDATE assigns every column an order has.           *)
Upserted(row, order) == order

(* INSERT ... RETURNING id, or the update of the row that has the id.      *)
UpsertPostgres(c) ==
    /\ backend = "postgres"
    /\ pc[c] = "save"
    /\ LET order == held[c].order IN
       \/ /\ held[c].id = 0 /\ lastId < MaxId
          /\ lastId' = lastId + 1
          /\ Store(lastId', Upserted(orders[lastId'], order), FALSE)
       \/ /\ held[c].id # 0
          /\ Store(held[c].id, Upserted(orders[held[c].id], order), TRUE)
          /\ UNCHANGED lastId
    /\ LET i == IF held[c].id = 0 THEN lastId' ELSE held[c].id IN
       held' = [held EXCEPT ![c].id = i] /\ Crosses(c, i)
    /\ pc' = [pc EXCEPT ![c] = "reread"]
    /\ UNCHANGED <<backend, wrapped>>

(* Save returns what GetByID finds under the id, or its ErrNotFound.       *)
RereadPostgres(c) ==
    /\ pc[c] = "reread"
    /\ Finish(c)
    /\ UNCHANGED <<backend, orders, lastId, history>>

(* A statement fails, the sequence has no next value, or the process dies: *)
(* a value drawn from the sequence is gone.                                *)
StatementFails(c) ==
    /\ backend = "postgres"
    /\ pc[c] # "idle"
    /\ Finish(c)
    /\ \/ UNCHANGED lastId
       \/ pc[c] = "save" /\ held[c].id = 0 /\ lastId < MaxId /\ lastId' = lastId + 1
    /\ UNCHANGED <<backend, orders, history>>

-----------------------------------------------------------------------------
(* Deleting one, and starting again                                        *)

DeleteOrder(c) ==
    /\ pc[c] = "idle"
    /\ \E i \in Deleted :
         /\ orders[i] # NoOrder
         /\ orders' = [orders EXCEPT ![i] = NoOrder]
         /\ Crosses(c, i)
    /\ UNCHANGED <<backend, lastId, pc, held, history>>

(* With everything in memory a restart forgets it.                         *)
Restart ==
    /\ backend = "memory"
    /\ orders' = [i \in Ids |-> NoOrder]
    /\ lastId' = 0
    /\ pc' = [c \in Clients |-> "idle"]
    /\ held' = [c \in Clients |-> Nobody]
    /\ used' = {}
    /\ chosen' = {}
    /\ wrapped' = FALSE
    /\ crossed' = [c \in Clients |-> FALSE]
    /\ UNCHANGED backend

Next ==
    \/ \E c \in Clients :
         \/ PlaceOrder(c) \/ SaveMemory(c) \/ UpsertPostgres(c) \/ RereadPostgres(c)
         \/ StatementFails(c) \/ DeleteOrder(c)
    \/ Restart

Spec == Init /\ [][Next]_vars

-----------------------------------------------------------------------------
(* The inventory                                                           *)

Listed(status) == {i \in Ids : orders[i] # NoOrder /\ orders[i].status = status}

(* Go's int32 addition.                                                    *)
Add32(x, y) == IF x > MaxQuantity - y THEN (x - MaxQuantity - 1) + (y - MaxQuantity - 1) ELSE x + y

(* Mutant: a sum too large stays at the largest quantity.                  *)
AddUpTo(i, sum) == IF sum > MaxQuantity - orders[i].quantity THEN MaxQuantity ELSE sum + orders[i].quantity
AddOrder(i, sum) == Add32(sum, orders[i].quantity)

(* result[status] += quantity, order by order.                             *)
Inventory(status) == FoldSet(AddOrder, 0, Listed(status))

-----------------------------------------------------------------------------
(* What is checked                                                         *)

(* Every variable keeps its type: only valid orders are stored.            *)
TypeOK ==
    /\ backend \in Backends
    /\ orders \in [Ids -> Order \cup {NoOrder}]
    /\ lastId \in Ids
    /\ pc \in [Clients -> {"idle", "save", "reread"}]
    /\ held \in [Clients -> Held]
    /\ used \in SUBSET Ids
    /\ chosen \in SUBSET Ids
    /\ wrapped \in BOOLEAN
    /\ crossed \in [Clients -> BOOLEAN]

(* An id the store gives out is no order's and never was one's: not even a *)
(* client's choice in memory, until the counter wraps; in Postgres only an *)
(* id some client chose can be met again.                                  *)
AssignedFresh ==
    \A c \in Clients :
        held[c].id = 0 /\ ~wrapped' /\ (SaveMemory(c) \/ UpsertPostgres(c))
          => lastId' \notin (IF backend = "memory" THEN used ELSE used \ chosen)
AssignedIdsAreFresh == [][AssignedFresh]_vars

(* Between Save's two statements the row is the order that was saved,      *)
(* unless another request wrote it: the caller is answered with its own.   *)
SavedOrdersAreAnswered ==
    \A c \in Clients :
        pc[c] = "reread" /\ ~crossed[c] => orders[held[c].id] = held[c].order

(* The inventory of a status is the total of its orders' quantities, in 32 *)
(* bits: summing order by order loses nothing else.                        *)
Total(status) == MapThenSumSet(LAMBDA i : orders[i].quantity, Listed(status))
InventoryIsTheTotal ==
    \A status \in Statuses :
        /\ Inventory(status) \in Ints32
        /\ (Total(status) - Inventory(status)) % (2 * (MaxQuantity + 1)) = 0

=============================================================================
