-------------------------- MODULE OrderStoreProofs --------------------------
(***************************************************************************)
(* Types, the ids the store gives out, and what Save answers, for any      *)
(* integer widths, orders and clients, on both backends, and that the      *)
(* inventory is congruent to the exact total, by induction over the two    *)
(* folds.                                                                  *)
(***************************************************************************)
EXTENDS OrderStore, TLAPS, FiniteSetTheorems

-----------------------------------------------------------------------------
(* Types                                                                   *)

(* Only Postgres has a second statement, and its sequence never wraps.     *)
Placing ==
    \A c \in Clients : pc[c] = "reread" => backend = "postgres"

Typed == TypeOK /\ Placing

LEMMA ZeroIsAnId == 0 \in Ids
  BY OrdersAssumption DEF Ids, MinId

LEMMA NobodyIsHeld == Nobody \in Held
  <1>1. 1 \in 1 .. MaxQuantity /\ 0 \in Ids
    BY OrdersAssumption, ZeroIsAnId
  <1>2. "placed" \in Statuses
    BY DEF Statuses
  <1> QED BY <1>1, <1>2 DEF Nobody, Held, Order

LEMMA TypedInit == Init => Typed
  BY NobodyIsHeld, ZeroIsAnId DEF Init, Typed, TypeOK, Placing

(* A payload that is not refused becomes an order.                         *)
LEMMA ValidPayload ==
    ASSUME NEW p \in Payload, ~Refused(p)
    PROVE  [id |-> p.id, order |-> [quantity |-> p.quantity, status |-> Defaulted(p.status)]] \in Held
  <1>1. p.quantity \in 1 .. MaxQuantity
    <2>1. p.quantity \in Ints32 /\ ~(p.quantity <= 0)
      BY DEF Payload, Refused
    <2> QED BY <2>1, OrdersAssumption DEF Ints32
  <1>2. Defaulted(p.status) \in Statuses
    BY DEF Payload, Refused, Statuses, Defaulted
  <1> QED BY <1>1, <1>2 DEF Payload, Held, Order

LEMMA FinishTyped ==
    ASSUME Typed, NEW c \in Clients, Finish(c)
    PROVE  /\ pc' \in [Clients -> {"idle", "save", "reread"}]
           /\ held' \in [Clients -> Held]
           /\ crossed' \in [Clients -> BOOLEAN]
           /\ pc'[c] = "idle"
           /\ \A d \in Clients \ {c} : pc'[d] = pc[d] /\ held'[d] = held[d] /\ crossed'[d] = crossed[d]
  BY NobodyIsHeld DEF Typed, TypeOK, Finish

LEMMA StoreTyped ==
    ASSUME Typed, NEW i \in Ids, NEW order \in Order, NEW isChosen \in BOOLEAN,
           Store(i, order, isChosen)
    PROVE  /\ orders' \in [Ids -> Order \cup {NoOrder}]
           /\ used' \in SUBSET Ids
           /\ chosen' \in SUBSET Ids
  BY DEF Typed, TypeOK, Store

(* Which id a save stores its order under.                                 *)
LEMMA SavedMemory ==
    ASSUME Typed, NEW c \in Clients, SaveMemory(c)
    PROVE  /\ lastId' \in Ids /\ wrapped' \in BOOLEAN
           /\ \E i \in Ids : Store(i, held[c].order, held[c].id # 0)
  <1>1. held[c].id \in Ids /\ held[c].order \in Order /\ lastId \in Ids /\ wrapped \in BOOLEAN
    BY DEF Typed, TypeOK, Held
  <1>2. CASE held[c].id = 0 /\ Store(lastId', held[c].order, FALSE) /\ lastId' = Successor(lastId)
             /\ wrapped' = (wrapped \/ lastId = MaxId)
    <2>1. lastId' \in Ids
      BY <1>1, <1>2, OrdersAssumption DEF Ids, MinId, Successor
    <2>2. Store(lastId', held[c].order, held[c].id # 0)
      BY <1>2 DEF Store
    <2>3. wrapped' \in BOOLEAN
      BY <1>2
    <2> QED BY <2>1, <2>2, <2>3
  <1>3. CASE held[c].id # 0 /\ Store(held[c].id, held[c].order, TRUE) /\ lastId' = Raised(held[c].id)
             /\ wrapped' = wrapped
    <2>1. lastId' \in Ids
      BY <1>1, <1>3 DEF Raised
    <2>2. Store(held[c].id, held[c].order, held[c].id # 0)
      BY <1>3 DEF Store
    <2> QED BY <1>1, <1>3, <2>1, <2>2
  <1> QED BY <1>2, <1>3 DEF SaveMemory

SavedUnder(c) == IF held[c].id = 0 THEN lastId' ELSE held[c].id

LEMMA SavedPostgres ==
    ASSUME Typed, NEW c \in Clients, UpsertPostgres(c)
    PROVE  /\ lastId' \in Ids
           /\ SavedUnder(c) \in Ids
           /\ lastId' = (IF held[c].id = 0 THEN lastId + 1 ELSE lastId)
           /\ Store(SavedUnder(c), held[c].order, held[c].id # 0)
           /\ held' = [held EXCEPT ![c].id = SavedUnder(c)]
           /\ Crosses(c, SavedUnder(c))
  <1>1. held[c].id \in Ids /\ held[c].order \in Order /\ lastId \in Ids
    BY DEF Typed, TypeOK, Held
  <1>2. /\ held' = [held EXCEPT ![c].id = SavedUnder(c)]
        /\ Crosses(c, SavedUnder(c))
    BY DEF UpsertPostgres, SavedUnder
  <1>3. CASE held[c].id = 0 /\ lastId < MaxId /\ lastId' = lastId + 1
             /\ Store(lastId', held[c].order, FALSE)
    <2>1. lastId' \in Ids
      BY <1>1, <1>3, OrdersAssumption DEF Ids, MinId
    <2>2. Store(SavedUnder(c), held[c].order, held[c].id # 0)
      BY <1>3 DEF Store, SavedUnder
    <2> QED BY <1>2, <1>3, <2>1, <2>2 DEF SavedUnder
  <1>4. CASE held[c].id # 0 /\ Store(held[c].id, held[c].order, TRUE) /\ lastId' = lastId
    <2>1. Store(SavedUnder(c), held[c].order, held[c].id # 0)
      BY <1>4 DEF Store, SavedUnder
    <2> QED BY <1>1, <1>2, <1>4, <2>1 DEF SavedUnder
  <1> QED BY <1>3, <1>4 DEF UpsertPostgres, Upserted

LEMMA TypedNext == Typed /\ [Next]_vars => Typed'
  <1> SUFFICES ASSUME Typed, [Next]_vars PROVE Typed'
    OBVIOUS
  <1>0. backend \in Backends /\ lastId \in Ids
    BY DEF Typed, TypeOK
  <1>1. ASSUME NEW c \in Clients, PlaceOrder(c) PROVE Typed'
    <2>1. PICK p \in Payload : /\ ~Refused(p)
                               /\ held' = [held EXCEPT ![c] = [id |-> p.id,
                                    order |-> [quantity |-> p.quantity, status |-> Defaulted(p.status)]]]
      BY <1>1, OrdersAssumption DEF PlaceOrder
    <2>2. held' \in [Clients -> Held]
      BY <2>1, ValidPayload DEF Typed, TypeOK
    <2> QED BY <1>1, <2>2 DEF PlaceOrder, history, Typed, TypeOK, Placing
  <1>2. ASSUME NEW c \in Clients, SaveMemory(c) PROVE Typed'
    <2>1. Finish(c) /\ backend' = backend
      BY <1>2 DEF SaveMemory
    <2>2. PICK i \in Ids : Store(i, held[c].order, held[c].id # 0)
      BY <1>2, SavedMemory
    <2>3. held[c].order \in Order
      BY DEF Typed, TypeOK, Held
    <2>4. /\ orders' \in [Ids -> Order \cup {NoOrder}]
          /\ used' \in SUBSET Ids
          /\ chosen' \in SUBSET Ids
      BY <2>2, <2>3, StoreTyped
    <2> QED BY <1>2, <2>1, <2>4, SavedMemory, FinishTyped DEF Typed, TypeOK, Placing
  <1>3. ASSUME NEW c \in Clients, UpsertPostgres(c) PROVE Typed'
    <2>1. held[c].order \in Order /\ held[c] \in Held
      BY DEF Typed, TypeOK, Held
    <2>2. /\ orders' \in [Ids -> Order \cup {NoOrder}]
          /\ used' \in SUBSET Ids
          /\ chosen' \in SUBSET Ids
      BY <1>3, <2>1, SavedPostgres, StoreTyped
    <2>3. [held[c] EXCEPT !.id = SavedUnder(c)] \in Held
      BY <1>3, <2>1, SavedPostgres DEF Held
    <2>4. held' \in [Clients -> Held]
      BY <1>3, <2>3, SavedPostgres DEF Typed, TypeOK
    <2>5. crossed' \in [Clients -> BOOLEAN]
      BY <1>3, SavedPostgres DEF Crosses, Typed, TypeOK
    <2> QED BY <1>3, <2>2, <2>4, <2>5, SavedPostgres DEF UpsertPostgres, Typed, TypeOK, Placing
  <1>4. ASSUME NEW c \in Clients, RereadPostgres(c) PROVE Typed'
    BY <1>4, FinishTyped DEF RereadPostgres, history, Typed, TypeOK, Placing
  <1>5. ASSUME NEW c \in Clients, StatementFails(c) PROVE Typed'
    <2>1. lastId' \in Ids
      BY <1>0, <1>5, OrdersAssumption DEF StatementFails, Ids, MinId
    <2> QED BY <1>5, <2>1, FinishTyped DEF StatementFails, history, Typed, TypeOK, Placing
  <1>6. ASSUME NEW c \in Clients, DeleteOrder(c) PROVE Typed'
    BY <1>6 DEF DeleteOrder, Crosses, history, Typed, TypeOK, Placing
  <1>7. CASE Restart
    BY <1>7, NobodyIsHeld, ZeroIsAnId DEF Restart, Typed, TypeOK, Placing
  <1>8. CASE UNCHANGED vars
    BY <1>8 DEF vars, Typed, TypeOK, Placing
  <1> QED BY <1>1, <1>2, <1>3, <1>4, <1>5, <1>6, <1>7, <1>8 DEF Next

(* Every variable keeps its type, and only valid orders are ever stored.   *)
THEOREM TypeCorrect == Spec => []TypeOK
  <1>1. Typed => TypeOK
    BY DEF Typed
  <1> QED BY <1>1, TypedInit, TypedNext, PTL DEF Spec

-----------------------------------------------------------------------------
(* Ids, and answers                                                        *)

(* No id was used beyond the counter, until it wraps; beyond a sequence    *)
(* there are only chosen ones.                                             *)
Counted ==
    IF backend = "memory"
      THEN ~wrapped => \A i \in used : i <= lastId
      ELSE \A i \in used \ chosen : i <= lastId

IdsInv == Typed /\ Counted /\ SavedOrdersAreAnswered

LEMMA IdsInit == Init => Counted /\ SavedOrdersAreAnswered
  BY DEF Init, Counted, SavedOrdersAreAnswered

(* A save in memory counts its id, and nobody reads back there.            *)
LEMMA IdsSaveMemory ==
    ASSUME IdsInv, NEW c \in Clients, SaveMemory(c)
    PROVE  Counted' /\ SavedOrdersAreAnswered'
  <1>1. held[c].id \in Ids /\ lastId \in Ids /\ used \subseteq Ids /\ wrapped \in BOOLEAN
    BY DEF IdsInv, Typed, TypeOK, Held
  <1>2. backend = "memory" /\ backend' = "memory"
    BY DEF SaveMemory
  <1>3. Counted'
    <2> SUFFICES ASSUME ~wrapped', NEW i \in used' PROVE i <= lastId'
      BY <1>2 DEF Counted
    <2>1. CASE held[c].id = 0 /\ lastId' = Successor(lastId) /\ used' = used \cup {lastId'}
               /\ wrapped' = (wrapped \/ lastId = MaxId)
      <3>1. ~wrapped /\ lastId' = lastId + 1
        BY <2>1 DEF Successor
      <3>2. \A j \in used : j <= lastId
        BY <1>2, <3>1 DEF IdsInv, Counted
      <3> QED BY <1>1, <2>1, <3>1, <3>2 DEF Ids, MinId
    <2>2. CASE held[c].id # 0 /\ lastId' = Raised(held[c].id) /\ used' = used \cup {held[c].id}
               /\ wrapped' = wrapped
      <3>1. \A j \in used : j <= lastId
        BY <1>2, <2>2 DEF IdsInv, Counted
      <3>2. \A j \in used : j \in Int
        BY <1>1 DEF Ids
      <3>3. held[c].id \in Int /\ lastId \in Int
        BY <1>1 DEF Ids
      <3>4. lastId <= lastId' /\ held[c].id <= lastId' /\ lastId' \in Int
        BY <2>2, <3>3 DEF Raised
      <3> QED BY <2>2, <3>1, <3>2, <3>3, <3>4
    <2> QED BY <2>1, <2>2 DEF SaveMemory, Store
  <1>4. \A d \in Clients : pc'[d] # "reread"
    BY <1>2, FinishTyped DEF IdsInv, Typed, Placing, SaveMemory
  <1> QED BY <1>3, <1>4 DEF SavedOrdersAreAnswered

(* An upsert counts the id it draws, and crosses whoever is to read it.    *)
LEMMA IdsUpsert ==
    ASSUME IdsInv, NEW c \in Clients, UpsertPostgres(c)
    PROVE  Counted' /\ SavedOrdersAreAnswered'
  <1> DEFINE n == SavedUnder(c)
  <1>1. Typed
    BY DEF IdsInv
  <1>2. /\ held[c].id \in Ids /\ lastId \in Ids /\ used \subseteq Ids /\ n \in Ids
        /\ orders' = [orders EXCEPT ![n] = held[c].order]
        /\ used' = used \cup {n}
        /\ chosen' = (IF held[c].id # 0 THEN chosen \cup {n} ELSE chosen)
        /\ lastId' = (IF held[c].id = 0 THEN lastId + 1 ELSE lastId)
        /\ held' = [held EXCEPT ![c].id = n]
        /\ Crosses(c, n)
    BY <1>1, SavedPostgres DEF Typed, TypeOK, Held, Store
  <1>3. backend' = "postgres" /\ backend = "postgres" /\ pc' = [pc EXCEPT ![c] = "reread"]
    BY DEF UpsertPostgres
  <1>4. Counted'
    <2> SUFFICES ASSUME NEW i \in used' \ chosen' PROVE i <= lastId'
      BY <1>3 DEF Counted
    <2>1. \A j \in used \ chosen : j <= lastId /\ j \in Int
      BY <1>2, <1>3 DEF IdsInv, Counted, Ids
    <2>2. lastId \in Int /\ lastId <= lastId' /\ lastId' \in Int
      BY <1>2 DEF Ids
    <2>3. CASE i \in used \ chosen
      BY <2>1, <2>2, <2>3
    <2>4. CASE i = n /\ held[c].id = 0
      BY <2>2, <2>4 DEF SavedUnder
    <2> HIDE DEF n
    <2> QED BY <1>2, <2>3, <2>4
  <1>5. SavedOrdersAreAnswered'
    <2> HIDE DEF n
    <2> SUFFICES ASSUME NEW d \in Clients, pc'[d] = "reread", ~crossed'[d]
                 PROVE  orders'[held'[d].id] = held'[d].order
      BY DEF SavedOrdersAreAnswered
    <2>1. CASE d = c
      <3>1. held'[c].id = n /\ held'[c].order = held[c].order
        BY <1>1, <1>2 DEF Typed, TypeOK, Held
      <3> QED BY <1>1, <1>2, <2>1, <3>1 DEF Typed, TypeOK
    <2>2. CASE d # c
      <3>1. pc[d] = "reread" /\ held'[d] = held[d]
        BY <1>1, <1>2, <1>3, <2>2 DEF Typed, TypeOK
      <3>2. ~crossed[d] /\ held[d].id # n
        BY <1>2, <2>2, <3>1 DEF Crosses
      <3>3. orders[held[d].id] = held[d].order /\ held[d].id \in Ids
        BY <1>1, <3>1, <3>2 DEF IdsInv, SavedOrdersAreAnswered, Typed, TypeOK, Held
      <3> QED BY <1>1, <1>2, <3>1, <3>2, <3>3 DEF Typed, TypeOK
    <2> QED BY <2>1, <2>2
  <1> QED BY <1>4, <1>5

LEMMA IdsNext == IdsInv /\ [Next]_vars => Counted' /\ SavedOrdersAreAnswered'
  <1> SUFFICES ASSUME IdsInv, [Next]_vars PROVE Counted' /\ SavedOrdersAreAnswered'
    OBVIOUS
  <1>0. Typed /\ Counted /\ SavedOrdersAreAnswered
    BY DEF IdsInv
  <1>1. ASSUME NEW c \in Clients, PlaceOrder(c) PROVE Counted' /\ SavedOrdersAreAnswered'
    BY <1>0, <1>1 DEF PlaceOrder, history, Counted, SavedOrdersAreAnswered, Typed, TypeOK
  <1>2. ASSUME NEW c \in Clients, RereadPostgres(c) PROVE Counted' /\ SavedOrdersAreAnswered'
    BY <1>0, <1>2, FinishTyped DEF RereadPostgres, history, Counted, SavedOrdersAreAnswered
  <1>3. ASSUME NEW c \in Clients, StatementFails(c) PROVE Counted' /\ SavedOrdersAreAnswered'
    <2>1. /\ Finish(c) /\ UNCHANGED <<backend, orders, history>>
          /\ lastId' = lastId \/ lastId' = lastId + 1
          /\ backend = "postgres"
      BY <1>3 DEF StatementFails
    <2>2. Counted'
      <3>1. \A i \in used \ chosen : i <= lastId /\ i \in Int
        BY <1>0, <2>1 DEF Counted, Typed, TypeOK, Ids
      <3>2. lastId \in Int
        BY <1>0 DEF Typed, TypeOK, Ids
      <3>3. \A i \in used \ chosen : i <= lastId'
        BY <2>1, <3>1, <3>2
      <3> QED BY <2>1, <3>3 DEF Counted, history
    <2>3. SavedOrdersAreAnswered'
      BY <1>0, <2>1, FinishTyped DEF SavedOrdersAreAnswered
    <2> QED BY <2>2, <2>3
  <1>4. ASSUME NEW c \in Clients, DeleteOrder(c) PROVE Counted' /\ SavedOrdersAreAnswered'
    <2>1. PICK i \in Ids : orders' = [orders EXCEPT ![i] = NoOrder] /\ Crosses(c, i)
      BY <1>4, OrdersAssumption DEF DeleteOrder
    <2>2. UNCHANGED <<backend, lastId, pc, held, history>> /\ pc[c] = "idle"
      BY <1>4 DEF DeleteOrder
    <2>3. ASSUME NEW d \in Clients, pc'[d] = "reread", ~crossed'[d]
          PROVE  orders'[held'[d].id] = held'[d].order
      <3>1. d # c /\ ~crossed[d] /\ held[d].id # i
        BY <2>1, <2>2, <2>3 DEF Crosses
      <3>2. orders[held[d].id] = held[d].order /\ held[d].id \in Ids
        BY <1>0, <2>2, <2>3, <3>1 DEF SavedOrdersAreAnswered, Typed, TypeOK, Held
      <3> QED BY <1>0, <2>1, <2>2, <3>1, <3>2 DEF Typed, TypeOK
    <2> QED BY <1>0, <2>2, <2>3 DEF Counted, SavedOrdersAreAnswered, history
  <1>5. CASE Restart
    BY <1>5 DEF Restart, Counted, SavedOrdersAreAnswered
  <1>6. CASE UNCHANGED vars
    BY <1>0, <1>6 DEF vars, Counted, SavedOrdersAreAnswered
  <1> QED BY <1>1, <1>2, <1>3, <1>4, <1>5, <1>6, IdsSaveMemory, IdsUpsert DEF Next

(* An id the store gives out was never an order's, except for one a client *)
(* chose in Postgres and for a counter that wrapped in memory.             *)
THEOREM AssignedIdsFresh == Spec => AssignedIdsAreFresh
  <1>1. IdsInv /\ [Next]_vars => [AssignedFresh]_vars
    <2> SUFFICES ASSUME IdsInv, NEW c \in Clients, held[c].id = 0, ~wrapped',
                        SaveMemory(c) \/ UpsertPostgres(c)
                 PROVE  lastId' \notin (IF backend = "memory" THEN used ELSE used \ chosen)
      BY DEF AssignedFresh
    <2>1. lastId \in Int /\ \A i \in used : i \in Int
      BY DEF IdsInv, Typed, TypeOK, Ids
    <2>2. CASE SaveMemory(c)
      <3>1. backend = "memory" /\ ~wrapped /\ lastId' = lastId + 1
        BY <2>2 DEF SaveMemory, Successor
      <3>2. \A i \in used : i <= lastId
        BY <3>1 DEF IdsInv, Counted
      <3> QED BY <2>1, <3>1, <3>2
    <2>3. CASE UpsertPostgres(c)
      <3>1. backend = "postgres" /\ lastId' = lastId + 1
        BY <2>3 DEF UpsertPostgres
      <3>2. \A i \in used \ chosen : i <= lastId
        BY <3>1 DEF IdsInv, Counted
      <3> QED BY <2>1, <3>1, <3>2
    <2> QED BY <2>2, <2>3
  <1> QED BY <1>1, TypedInit, TypedNext, IdsInit, IdsNext, PTL DEF Spec, IdsInv, AssignedIdsAreFresh

(* Save answers with its own order unless its row was written in between.  *)
THEOREM OwnOrdersAnswered == Spec => []SavedOrdersAreAnswered
  BY TypedInit, TypedNext, IdsInit, IdsNext, PTL DEF Spec, IdsInv

-----------------------------------------------------------------------------
(* The inventory                                                           *)

AddQuantity(i, sum) == orders[i].quantity + sum
Itself(data, i) == i
Any(S) == CHOOSE i \in S : TRUE
Wrapping == INSTANCE SetFolds WITH Op <- AddOrder, Base <- 0, Value <- Itself, Pick <- Any
Exact    == INSTANCE SetFolds WITH Op <- AddQuantity, Base <- 0, Value <- Itself, Pick <- Any

LEMMA PicksAny == \A S : Wrapping!Picks(S) /\ Exact!Picks(S)
  BY DEF Wrapping!Picks, Exact!Picks, Any

LEMMA InventoryFolds ==
    \A status : Inventory(status) = Wrapping!Fold(orders, Listed(status))
  BY Zenon DEF Inventory, FoldSet, MapThenFoldSet, Wrapping!Fold, Wrapping!MapThenFoldSet, Itself, Any

LEMMA TotalFolds ==
    \A status : Total(status) = Exact!Fold(orders, Listed(status))
  BY Zenon DEF Total, MapThenSumSet, MapThenFoldSet, Exact!Fold, Exact!MapThenFoldSet, AddQuantity, Itself, Any

LEMMA FiniteAlike ==
    \A S : IsFiniteSet(S) => Wrapping!IsFiniteSet(S) /\ Exact!IsFiniteSet(S)
  BY Zenon DEF IsFiniteSet, Wrapping!IsFiniteSet, Exact!IsFiniteSet

Range32 == 2 * (MaxQuantity + 1)

(* Both folds take the orders one by one, and in the same order.           *)
Congruent(S) ==
    /\ Wrapping!Fold(orders, S) \in Ints32 /\ Exact!Fold(orders, S) \in Int
    /\ \E n \in Int : Exact!Fold(orders, S) - Wrapping!Fold(orders, S) = n * Range32

(* One addition keeps the sum in 32 bits, and loses a multiple of 2^32.    *)
LEMMA Add32Wraps ==
    ASSUME NEW sum \in Ints32, NEW q \in 1 .. MaxQuantity
    PROVE  /\ Add32(sum, q) \in Ints32
           /\ Add32(sum, q) = sum + q \/ Add32(sum, q) = sum + q - Range32
  BY OrdersAssumption DEF Add32, Ints32, Range32

LEMMA OneMoreOrder ==
    ASSUME NEW S, IsFiniteSet(S), S # {}, \A i \in S : orders[i].quantity \in 1 .. MaxQuantity,
           Congruent(S \ {Any(S)})
    PROVE  Congruent(S)
  <1> DEFINE i == Any(S)
             u == S \ {i}
  <1>1. i \in S /\ Wrapping!Fold(orders, S) = AddOrder(i, Wrapping!Fold(orders, u))
    BY FiniteAlike, PicksAny, Wrapping!FoldOfMore DEF Itself
  <1>2. Exact!Fold(orders, S) = AddQuantity(i, Exact!Fold(orders, u))
    BY FiniteAlike, PicksAny, Exact!FoldOfMore DEF Itself
  <1> HIDE DEF i, u
  <1>3. PICK q \in 1 .. MaxQuantity : q = orders[i].quantity
    BY <1>1
  <1>4. PICK n \in Int, w \in Ints32, e \in Int :
           w = Wrapping!Fold(orders, u) /\ e = Exact!Fold(orders, u) /\ e - w = n * Range32
    BY DEF Congruent, i, u
  <1>5. Wrapping!Fold(orders, S) = Add32(w, q) /\ Exact!Fold(orders, S) = q + e
    BY <1>1, <1>2, <1>3, <1>4 DEF AddOrder, AddQuantity
  <1>6. Range32 \in Int /\ q \in Int /\ w \in Int
    BY <1>4, OrdersAssumption DEF Range32, Ints32
  <1>a. Add32(w, q) \in Ints32 /\ (Add32(w, q) = w + q \/ Add32(w, q) = w + q - Range32)
    BY Add32Wraps
  <1>b. ASSUME NEW m \in Int, (q + e) - Add32(w, q) = m * Range32 PROVE Congruent(S)
    <2>1. Wrapping!Fold(orders, S) \in Ints32 /\ Exact!Fold(orders, S) \in Int
      BY <1>5, <1>6, <1>a
    <2>2. Exact!Fold(orders, S) - Wrapping!Fold(orders, S) = m * Range32
      BY <1>5, <1>b
    <2> QED BY <2>1, <2>2, Zenon DEF Congruent
  <1>7. CASE Add32(w, q) = w + q
    <2>1. (q + e) - Add32(w, q) = n * Range32
      BY <1>4, <1>6, <1>7
    <2> QED BY <1>b, <2>1
  <1>8. CASE Add32(w, q) = w + q - Range32
    <2>1. (q + e) - Add32(w, q) = n * Range32 + Range32
      BY <1>4, <1>6, <1>8
    <2>2. n * Range32 + Range32 = (n + 1) * Range32 /\ n + 1 \in Int
      BY <1>6
    <2> QED BY <1>b, <2>1, <2>2
  <1> QED BY <1>7, <1>8, <1>a

LEMMA AllCongruent ==
    ASSUME NEW S, IsFiniteSet(S), \A i \in S : orders[i].quantity \in 1 .. MaxQuantity
    PROVE  Congruent(S)
  <1> DEFINE T == {s \in SUBSET S : ~Congruent(s)}
  <1>1. SUFFICES ASSUME T # {} PROVE FALSE
    OBVIOUS
  <1>2. T \subseteq SUBSET S
    OBVIOUS
  <1>3. PICK s \in T : \A t \in T : t \subseteq s => t = s
    <2> HIDE DEF T
    <2> QED BY <1>1, <1>2, FiniteAlike, Wrapping!SmallestSubset
  <1>4. s \in SUBSET S /\ ~Congruent(s) /\ IsFiniteSet(s)
    BY FS_Subset
  <1>5. ASSUME NEW t \in SUBSET s, t # s PROVE Congruent(t)
    BY <1>3, <1>4, <1>5
  <1> HIDE DEF T
  <1>6. CASE s = {}
    <2>1. Wrapping!Fold(orders, {}) = 0 /\ Exact!Fold(orders, {}) = 0
      BY Wrapping!FoldOfNone, Exact!FoldOfNone
    <2>2. 0 \in Ints32 /\ 0 - 0 = 0 * Range32 /\ 0 \in Int
      BY OrdersAssumption DEF Ints32, Range32
    <2>3. Congruent({})
      BY <2>1, <2>2 DEF Congruent
    <2> QED BY <1>4, <1>6, <2>3
  <1>7. CASE s # {}
    <2>1. Any(s) \in s
      BY <1>7 DEF Any
    <2>2. Congruent(s \ {Any(s)})
      BY <1>5, <2>1
    <2> QED BY <1>4, <1>7, <2>2, OneMoreOrder
  <1> QED BY <1>6, <1>7

(* The inventory is the total of the quantities in 32 bits, whatever the   *)
(* orders, their number and the order in which they are listed.            *)
THEOREM InventoryTotals == Spec => []InventoryIsTheTotal
  <1>1. TypeOK => InventoryIsTheTotal
    <2> SUFFICES ASSUME TypeOK, NEW status \in Statuses
                 PROVE  /\ Inventory(status) \in Ints32
                        /\ (Total(status) - Inventory(status)) % Range32 = 0
      BY DEF InventoryIsTheTotal, Range32
    <2>1. IsFiniteSet(Listed(status))
      <3>1. IsFiniteSet(Ids)
        BY OrdersAssumption, FS_Interval DEF Ids, MinId
      <3> QED BY <3>1, FS_Subset DEF Listed
    <2>2. \A i \in Listed(status) : orders[i].quantity \in 1 .. MaxQuantity
      BY DEF Listed, TypeOK, Order
    <2>3. Congruent(Listed(status))
      BY <2>1, <2>2, AllCongruent
    <2>4. Range32 \in Nat \ {0}
      BY OrdersAssumption DEF Range32
    <2>5. ASSUME NEW n \in Int PROVE (n * Range32) % Range32 = 0
      BY <2>4
    <2> QED BY <2>3, <2>5, InventoryFolds, TotalFolds DEF Congruent
  <1> QED BY <1>1, TypeCorrect, PTL
=============================================================================
