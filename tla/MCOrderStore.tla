---------------------------- MODULE MCOrderStore ----------------------------
(* OrderStore with ids from -3 to 2 and quantities up to 3.                *)
EXTENDS OrderStore, TLC

CONSTANTS c1, c2

Placed(id, quantity, status) == [id |-> id, quantity |-> quantity, status |-> status]

(* Without an id, under an id the counter reaches soon, under the largest; *)
(* one refused.                                                            *)
SmallOrders == {Placed(0, 3, ""), Placed(0, 2, "placed"), Placed(1, 2, "approved"),
                Placed(1, 1, ""), Placed(2, 3, "placed"), Placed(-3, 1, ""), Placed(1, 0, "")}
SomeIds == {1, 2}
SameClients == Permutations(Clients)
=============================================================================
