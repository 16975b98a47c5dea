\* Orders of both backends: ids given and chosen, deletes, the inventory.
CONSTANTS
    c1 = c1  c2 = c2
    Clients = {c1, c2}
    MaxId = 2
    MaxQuantity = 3
    NoOrder = NoOrder
    Backends = {"memory", "postgres"}
    Issued <- SmallOrders
    Deleted <- SomeIds
SPECIFICATION Spec
SYMMETRY SameClients
INVARIANTS TypeOK SavedOrdersAreAnswered InventoryIsTheTotal
PROPERTIES AssignedIdsAreFresh
