--------------------------- MODULE MCPetWorkflow ----------------------------
(* PetWorkflow on small sets; two attempts per activity are enough for one *)
(* to be lost and for one to be the last.  Two ids let the sequence assign *)
(* a second one after the first was saved.                                 *)
EXTENDS PetWorkflow, TLC

CONSTANTS c1, c2, k1, a

Creates(keys, ids, bodies) == [key : keys, id : ids, body : bodies]

(* Under one key: with and without an id, refused, and mismatching.        *)
KeyedCreates   == Creates({k1}, {0, 1}, {a}) \cup Creates({k1}, {0}, {Invalid})
UnkeyedCreates == Creates({NoKey}, {0, 1}, {a})
Both == {"UpdatePet", "DeletePet"}
SameClients == Permutations(Clients)
=============================================================================
