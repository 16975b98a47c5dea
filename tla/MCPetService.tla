---------------------------- MODULE MCPetService ----------------------------
(* PetService on small sets: which operations clients issue, and how many  *)
(* ids, names and lengths there are, is chosen by each configuration.      *)
EXTENDS PetService, TLC

CONSTANTS c1, c2, k1

KeyedCreates == {"AddPet", "DeletePet"}

CreatesOf(keys, ids, bodies) == [key : keys, id : ids, body : bodies]
AnyCreate   == CreatesOf(Keys \cup {NoKey}, PetIds, Pet \cup {Invalid})
(* One payload under a key, with and without an id, and the opposite one   *)
(* without a key.                                                          *)
OnePet      == [name |-> CHOOSE n \in Names : TRUE, hair |-> CHOOSE h \in Lengths : TRUE]
Opposites   == {pet \in Pet : pet.name # OnePet.name /\ pet.hair # OnePet.hair}
SomeCreates == CreatesOf(Keys, {0, 1}, {OnePet}) \cup CreatesOf({NoKey}, {1}, Opposites)
SameClients   == Permutations(Clients)
=============================================================================
