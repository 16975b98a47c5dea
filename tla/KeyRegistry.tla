----------------------------- MODULE KeyRegistry -----------------------------
(***************************************************************************)
(* What a client that sends an Idempotency-Key is promised, without any of *)
(* the machinery: the first request that completes under a key binds the   *)
(* key to one record (the hash of its payload and the pet it created), the *)
(* binding never changes, and every successful answer under the key is an  *)
(* answer for that record.  A registry kept in memory may forget           *)
(* everything at once, when its process restarts.                          *)
(***************************************************************************)
CONSTANTS Keys,      \* idempotency keys
          Records,   \* what a key can be bound to
          NoRecord,  \* "the key is free"
          Durable    \* TRUE when the registry survives a restart

VARIABLES bound,     \* bound[k]: the record of key k, or NoRecord
          answered   \* answered[k]: the records k was successfully answered for

regVars == <<bound, answered>>

Init ==
    /\ bound = [k \in Keys |-> NoRecord]
    /\ answered = [k \in Keys |-> {}]

(* The first completed request takes the key.                              *)
Bind(k, r) ==
    /\ bound[k] = NoRecord
    /\ bound' = [bound EXCEPT ![k] = r]
    /\ UNCHANGED answered

(* A successful answer is always for the record the key is bound to.       *)
Answer(k) ==
    /\ bound[k] # NoRecord
    /\ answered' = [answered EXCEPT ![k] = @ \cup {bound[k]}]
    /\ UNCHANGED bound

(* The first request binds the key and is answered in the same step.       *)
BindAndAnswer(k, r) ==
    /\ bound[k] = NoRecord
    /\ bound' = [bound EXCEPT ![k] = r]
    /\ answered' = [answered EXCEPT ![k] = @ \cup {r}]

Forget ==
    /\ ~Durable
    /\ bound' = [k \in Keys |-> NoRecord]
    /\ answered' = [k \in Keys |-> {}]

Next ==
    \/ \E k \in Keys :
          \/ Answer(k)
          \/ \E r \in Records : Bind(k, r) \/ BindAndAnswer(k, r)
    \/ Forget

Spec == Init /\ [][Next]_regVars
=============================================================================
