-------------------------- MODULE MCUserSessions ----------------------------
(* UserSessions on two names that fold to one in memory and are two rows   *)
(* in Postgres.                                                            *)
EXTENDS UserSessions, TLC

CONSTANTS c1, c2, alice, Alice, p, q

ToLower == alice :> alice @@ Alice :> alice

Create(name, id) == [name |-> name, id |-> id, password |-> p]

(* One account without an id, and a list whose second id is taken.         *)
SmallBatches == {<<Create(alice, 0)>>, <<Create(alice, 1), Create(Alice, 1)>>}
BothNames == {[name |-> alice, id |-> 0, password |-> p], [name |-> Alice, id |-> 1, password |-> q]}
AllOps == {"update", "delete", "login", "logout"}
=============================================================================
