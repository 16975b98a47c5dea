-------------------------- MODULE DeploymentProofs --------------------------
(***************************************************************************)
(* Theorems about Deployment, for any number of clients, keys, ids and     *)
(* attempts, however often processes and services come and go.             *)
(*                                                                         *)
(* TypeOK is inductive by itself.  DeploymentInv says what holds across    *)
(* the ends and starts of processes: an API past its migration has both    *)
(* tables, requests are with a serving API, and what an execution has in   *)
(* store is bound to its key there for as long as the store lives.         *)
(***************************************************************************)
EXTENDS Deployment, TLAPS

Runs == [stage : {"closed", "persist", "sync"}, attempt : 0 .. Attempts,
         beaten : BOOLEAN, pet : PetIds, store : Stores \cup {"lost"}, wired : BOOLEAN]

LEMMA Constants ==
    /\ 0 \in PetIds /\ NoRun \in Runs /\ 1 \in 0 .. Attempts
    /\ NoRun.stage = "closed" /\ NoRun.store = "lost"
    /\ \A i \in PetIds : i \in Nat /\ i <= MaxId
  BY DeploymentAssumption DEF PetIds, NoRun, Runs

LEMMA TypeInit == Init => TypeOK
  <1> USE DeploymentAssumption, Constants
  <1> SUFFICES ASSUME Init PROVE TypeOK
    OBVIOUS
  <1>1. run \in [Keys -> Runs]
    BY DEF Init
  <1>2. /\ pets \in [Stores -> SUBSET PetIds] /\ deleted \in [Stores -> SUBSET PetIds]
        /\ answered \in [Stores -> [Keys -> SUBSET PetIds]]
    BY DEF Init
  <1>3. keys \in [Stores -> [Keys -> PetIds \cup {NoRecord}]]
    BY DEF Init
  <1> QED BY <1>1, <1>2, <1>3 DEF Init, TypeOK, Runs

LEMMA StoreOf ==
    ASSUME TypeOK, NEW p \in Processes
    PROVE  /\ PetStore(p) \in Stores /\ KeyStore(p) = PetStore(p)
           /\ PetStore(p) = IF db[p] THEN "postgres" ELSE p
           /\ \A k \in Keys : Bound(p, k) = keys[PetStore(p)][k]
  BY DEF PetStore, KeyStore, Bound, Stores, Processes

LEMMA ExitTyped ==
    ASSUME TypeOK, NEW p \in Processes, Exit(p)
    PROVE  TypeOK'
  <1> USE DEF Exit, MoveTo, TypeOK, config
  <1>1. run' \in [Keys -> Runs]
    <2> SUFFICES ASSUME NEW k \in Keys PROVE run'[k] \in Runs
      BY DEF Runs
    <2>1. run[k] \in Runs
      BY DEF Runs
    <2>2. [run[k] EXCEPT !.store = "lost"] \in Runs
      BY <2>1 DEF Runs
    <2> QED BY <2>1, <2>2
  <1>2. /\ phase' \in [Processes -> {"down", "migrate", "dial", "serving"}]
        /\ db' \in [Processes -> BOOLEAN]
    OBVIOUS
  <1>3. pets' \in [Stores -> SUBSET PetIds] /\ deleted' \in [Stores -> SUBSET PetIds]
    OBVIOUS
  <1>4. keys' \in [Stores -> [Keys -> PetIds \cup {NoRecord}]]
    OBVIOUS
  <1>5. answered' \in [Stores -> [Keys -> SUBSET PetIds]]
    OBVIOUS
  <1>6. pc' \in [Clients -> {"idle", "lookup", "add", "start", "waiting"}]
    OBVIOUS
  <1> QED BY <1>1, <1>2, <1>3, <1>4, <1>5, <1>6 DEF Runs

LEMMA StartsTyped ==
    ASSUME TypeOK,
           \/ \E p \in Processes : Start(p) \/ Dial(p)
           \/ Migrate \/ Toggle
    PROVE  TypeOK'
  <1> USE DEF TypeOK, config, stores, requests, processes, MoveTo
  <1>1. ASSUME NEW p \in Processes, Start(p) PROVE TypeOK'
    BY <1>1 DEF Start, AfterConnect
  <1>2. ASSUME NEW p \in Processes, Dial(p) PROVE TypeOK'
    BY <1>2 DEF Dial
  <1>3. CASE Migrate
    BY <1>3 DEF Migrate, MigratedRows, Stores, Tables
  <1>4. CASE Toggle
    BY <1>4 DEF Toggle
  <1> QED BY <1>1, <1>2, <1>3, <1>4

(* What a save does to its store, and to no other.                         *)
LEMMA SaveNewEffects ==
    ASSUME TypeOK, NEW p \in Processes, NEW k \in Keys, NEW id, NEW recorded \in BOOLEAN,
           SaveNew(p, k, id, recorded)
    PROVE  LET s == PetStore(p) IN
           /\ id \in PetIds /\ keys[s][k] = NoRecord
           /\ pets' = [pets EXCEPT ![s] = @ \cup {id}]
           /\ deleted' = [deleted EXCEPT ![s] = @ \ {id}]
           /\ seq' \in PetIds
           /\ keys' = IF recorded THEN [keys EXCEPT ![s] = [@ EXCEPT ![k] = id]] ELSE keys
  BY StoreOf DEF SaveNew, TypeOK

LEMMA SaveNewTyped ==
    ASSUME TypeOK, NEW p \in Processes, NEW k \in Keys, NEW id, NEW recorded \in BOOLEAN,
           SaveNew(p, k, id, recorded)
    PROVE  /\ pets' \in [Stores -> SUBSET PetIds] /\ deleted' \in [Stores -> SUBSET PetIds]
           /\ seq' \in PetIds
           /\ keys' \in [Stores -> [Keys -> PetIds \cup {NoRecord}]]
  <1>1. PICK s \in Stores :
           /\ id \in PetIds
           /\ pets' = [pets EXCEPT ![s] = @ \cup {id}]
           /\ deleted' = [deleted EXCEPT ![s] = @ \ {id}]
           /\ seq' \in PetIds
           /\ keys' = IF recorded THEN [keys EXCEPT ![s] = [@ EXCEPT ![k] = id]] ELSE keys
    BY SaveNewEffects, StoreOf
  <1>2. pets' \in [Stores -> SUBSET PetIds] /\ deleted' \in [Stores -> SUBSET PetIds]
    BY <1>1 DEF TypeOK
  <1>3. keys' \in [Stores -> [Keys -> PetIds \cup {NoRecord}]]
    BY <1>1 DEF TypeOK
  <1> QED BY <1>1, <1>2, <1>3

LEMMA NoteTyped ==
    ASSUME TypeOK, NEW s, NEW k \in Keys, NEW pet \in PetIds, Note(s, k, pet)
    PROVE  answered' \in [Stores -> [Keys -> SUBSET PetIds]]
  BY DEF Note, TypeOK

LEMMA ReplayTyped ==
    ASSUME TypeOK, NEW c \in Clients, Replay(c) \/ Fail(c)
    PROVE  /\ answered' \in [Stores -> [Keys -> SUBSET PetIds]]
           /\ pc' = [pc EXCEPT ![c] = "idle"]
  <1>1. key[c] \in Keys /\ "api" \in Processes
    BY DEF TypeOK, Processes
  <1>2. CASE Replay(c)
    <2>1. Bound("api", key[c]) \in PetIds
      BY <1>1, <1>2, StoreOf DEF Replay, Replays, TypeOK
    <2> QED BY <1>1, <1>2, <2>1, NoteTyped DEF Replay, GoTo
  <1>3. CASE Fail(c)
    BY <1>3 DEF Fail, GoTo, TypeOK
  <1> QED BY <1>2, <1>3

LEMMA RequestsTyped ==
    ASSUME TypeOK, NEW c \in Clients, AddPet(c) \/ Serve(c) \/ RequestFails(c)
    PROVE  TypeOK'
  <1> USE DEF config, stores, requests, processes
  <1>0. key[c] \in Keys /\ "api" \in Processes
    BY DEF TypeOK, Processes
  <1>1. CASE AddPet(c)
    BY <1>1 DEF AddPet, GoTo, TypeOK
  <1>2. CASE HandlerLookup(c)
    <2>1. /\ answered' \in [Stores -> [Keys -> SUBSET PetIds]]
          /\ pc' \in [Clients -> {"idle", "lookup", "add", "start", "waiting"}]
      BY <1>2, ReplayTyped DEF HandlerLookup, GoTo, TypeOK
    <2> QED BY <1>2, <2>1 DEF HandlerLookup, TypeOK
  <1>3. CASE AddInline(c)
    <2>1. UNCHANGED <<config, up, tables, processes, run, key>>
      BY <1>3 DEF AddInline
    <2>2. CASE (Replay(c) \/ Fail(c)) /\ UNCHANGED stores
      <3>1. /\ answered' \in [Stores -> [Keys -> SUBSET PetIds]]
            /\ pc' \in [Clients -> {"idle", "lookup", "add", "start", "waiting"}]
        BY <2>2, ReplayTyped DEF TypeOK
      <3> QED BY <2>1, <2>2, <3>1 DEF TypeOK
    <2>3. ASSUME NEW id \in PetIds, NEW recorded \in BOOLEAN,
                 SaveNew("api", key[c], id, recorded), GoTo(c, "idle"),
                 Note(PetStore("api"), key[c], id) \/ UNCHANGED answered
          PROVE  TypeOK'
      <3>1. answered' \in [Stores -> [Keys -> SUBSET PetIds]]
        BY <1>0, <2>3, NoteTyped DEF TypeOK
      <3>2. pc' \in [Clients -> {"idle", "lookup", "add", "start", "waiting"}]
        BY <2>3 DEF GoTo, TypeOK
      <3>3. /\ pets' \in [Stores -> SUBSET PetIds] /\ deleted' \in [Stores -> SUBSET PetIds]
            /\ seq' \in PetIds
            /\ keys' \in [Stores -> [Keys -> PetIds \cup {NoRecord}]]
        BY <1>0, <2>3, SaveNewTyped
      <3> QED BY <2>1, <3>1, <3>2, <3>3 DEF TypeOK
    <2> QED BY <1>3, <2>2, <2>3 DEF AddInline
  <1>4. CASE ExecuteWorkflow(c)
    <2>1. run' \in [Keys -> Runs]
      <3>1. run \in [Keys -> Runs] /\ db["api"] \in BOOLEAN
        BY <1>0 DEF TypeOK, Runs
      <3>2. [NoRun EXCEPT !.stage = "persist", !.attempt = 1, !.wired = db["api"]] \in Runs
        BY <3>1, Constants DEF Runs, NoRun
      <3> QED BY <1>0, <1>4, <3>1, <3>2 DEF ExecuteWorkflow
    <2>2. pc' \in [Clients -> {"idle", "lookup", "add", "start", "waiting"}]
      <3>1. GoTo(c, "waiting") \/ GoTo(c, "idle")
        BY <1>4 DEF ExecuteWorkflow
      <3> QED BY <3>1 DEF GoTo, TypeOK
    <2> QED BY <1>4, <2>1, <2>2 DEF ExecuteWorkflow, TypeOK, Runs
  <1>5. CASE RequestFails(c)
    BY <1>5 DEF RequestFails, GoTo, TypeOK
  <1> QED BY <1>1, <1>2, <1>3, <1>4, <1>5 DEF Serve

LEMMA DeletePetTyped ==
    ASSUME TypeOK, DeletePet
    PROVE  TypeOK'
  <1>1. PICK id \in pets[PetStore("api")] :
           /\ pets' = [pets EXCEPT ![PetStore("api")] = @ \ {id}]
           /\ deleted' = [deleted EXCEPT ![PetStore("api")] = @ \cup {id}]
    BY DEF DeletePet
  <1>2. PetStore("api") \in Stores
    BY StoreOf DEF Processes
  <1>3. pets' \in [Stores -> SUBSET PetIds] /\ deleted' \in [Stores -> SUBSET PetIds]
    BY <1>1, <1>2 DEF TypeOK
  <1> QED BY <1>3 DEF DeletePet, TypeOK, config, processes, requests

(* What an execution's step does to the execution and its callers.         *)
LEMMA CloseTyped ==
    ASSUME TypeOK, NEW k \in Keys, Close(k)
    PROVE  /\ run' \in [Keys -> Runs]
           /\ pc' \in [Clients -> {"idle", "lookup", "add", "start", "waiting"}]
           /\ UNCHANGED key
  BY Constants DEF Close, TypeOK, Runs

LEMMA RetryTyped ==
    ASSUME TypeOK, NEW k \in Keys, NEW beaten \in BOOLEAN, Retry(k, beaten)
    PROVE  /\ run' \in [Keys -> Runs]
           /\ pc' \in [Clients -> {"idle", "lookup", "add", "start", "waiting"}]
           /\ UNCHANGED <<key, answered>>
  <1>1. run \in [Keys -> Runs]
    BY DEF TypeOK, Runs
  <1>2. CASE run[k].attempt < Attempts
    <2>1. run' = [run EXCEPT ![k] = [run[k] EXCEPT !.attempt = @ + 1, !.beaten = beaten]]
          /\ UNCHANGED <<pc, key, answered>>
      BY <1>1, <1>2 DEF Retry, requests
    <2>2. run[k].attempt + 1 \in 0 .. Attempts
      BY <1>1, <1>2, DeploymentAssumption DEF Runs
    <2>3. [run[k] EXCEPT !.attempt = @ + 1, !.beaten = beaten] \in Runs
      BY <1>1, <2>2 DEF Runs
    <2> QED BY <1>1, <2>1, <2>3 DEF TypeOK
  <1>3. CASE ~(run[k].attempt < Attempts)
    BY <1>3, CloseTyped DEF Retry
  <1> QED BY <1>2, <1>3

LEMMA PersistedTyped ==
    ASSUME TypeOK, NEW k \in Keys, NEW id \in PetIds, Persisted(k, id)
    PROVE  /\ run' \in [Keys -> Runs]
           /\ UNCHANGED <<pc, key, answered>>
  <1>1. run \in [Keys -> Runs]
    BY DEF TypeOK, Runs
  <1>2. PetStore("worker") \in Stores
    BY StoreOf DEF Processes
  <1>3. [run[k] EXCEPT !.stage = "sync", !.attempt = 1, !.pet = id, !.store = PetStore("worker")] \in Runs
    BY <1>1, <1>2, Constants DEF Runs
  <1> QED BY <1>1, <1>3 DEF Persisted, requests

LEMMA WorkTyped ==
    ASSUME TypeOK, NEW k \in Keys, Work(k)
    PROVE  TypeOK'
  <1> USE DEF config, processes
  <1>0. "worker" \in Processes /\ run[k] \in Runs
    BY DEF Processes, TypeOK, Runs
  <1>1. UNCHANGED <<config, up, tables, processes>>
    BY DEF Work, PersistPet, SyncPetWithPartner, Performs
  <1>2. ASSUME /\ run' \in [Keys -> Runs]
               /\ pc' \in [Clients -> {"idle", "lookup", "add", "start", "waiting"}]
               /\ UNCHANGED key
               /\ answered' \in [Stores -> [Keys -> SUBSET PetIds]]
               /\ pets' \in [Stores -> SUBSET PetIds] /\ deleted' \in [Stores -> SUBSET PetIds]
               /\ seq' \in PetIds
               /\ keys' \in [Stores -> [Keys -> PetIds \cup {NoRecord}]]
        PROVE  TypeOK'
    BY <1>1, <1>2 DEF TypeOK, Runs
  <1>3. ASSUME UNCHANGED stores
        PROVE  /\ pets' \in [Stores -> SUBSET PetIds] /\ deleted' \in [Stores -> SUBSET PetIds]
               /\ seq' \in PetIds
               /\ keys' \in [Stores -> [Keys -> PetIds \cup {NoRecord}]]
    BY <1>3 DEF stores, TypeOK
  <1>4. ASSUME NEW beaten \in BOOLEAN, Retry(k, beaten), UNCHANGED stores PROVE TypeOK'
    BY <1>2, <1>3, <1>4, RetryTyped DEF TypeOK
  <1>5. CASE PersistPet(k)
    <2>1. CASE Replays("worker", k) /\ Persisted(k, Bound("worker", k)) /\ UNCHANGED stores
      <3>1. Bound("worker", k) \in PetIds
        BY <1>0, <2>1, StoreOf DEF Replays, TypeOK
      <3> QED BY <1>2, <1>3, <2>1, <3>1, PersistedTyped DEF TypeOK
    <2>2. ASSUME NEW id \in PetIds, NEW recorded \in BOOLEAN,
                 SaveNew("worker", k, id, recorded), Persisted(k, id) \/ Retry(k, FALSE)
          PROVE  TypeOK'
      <3>1. /\ pets' \in [Stores -> SUBSET PetIds] /\ deleted' \in [Stores -> SUBSET PetIds]
            /\ seq' \in PetIds
            /\ keys' \in [Stores -> [Keys -> PetIds \cup {NoRecord}]]
        BY <1>0, <2>2, SaveNewTyped
      <3>2. CASE Persisted(k, id)
        BY <1>2, <3>1, <3>2, PersistedTyped DEF TypeOK
      <3>3. CASE Retry(k, FALSE)
        BY <1>2, <3>1, <3>3, RetryTyped DEF TypeOK
      <3> QED BY <2>2, <3>2, <3>3
    <2> QED BY <1>4, <1>5, <2>1, <2>2 DEF PersistPet
  <1>6. CASE SyncPetWithPartner(k)
    <2>1. ASSUME NEW beaten \in BOOLEAN, Retry(k, partner /\ beaten), UNCHANGED stores
          PROVE  TypeOK'
      <3>1. (partner /\ beaten) \in BOOLEAN
        OBVIOUS
      <3> QED BY <1>4, <2>1, <3>1
    <2>2. CASE /\ UNCHANGED answered \/ Note(run[k].store, k, run[k].pet)
               /\ Close(k) /\ UNCHANGED stores
      <3>1. answered' \in [Stores -> [Keys -> SUBSET PetIds]]
        BY <1>0, <2>2, NoteTyped DEF TypeOK, Runs
      <3> QED BY <1>2, <1>3, <2>2, <3>1, CloseTyped
    <2>3. \A beaten \in {run[k].beaten, Skips(k) \/ Finds(k)} : beaten \in BOOLEAN
      BY <1>0 DEF Runs, Skips, Finds
    <2> QED BY <1>6, <2>1, <2>2, <2>3 DEF SyncPetWithPartner
  <1> QED BY <1>5, <1>6 DEF Work

LEMMA TypeStep == TypeOK /\ [Next]_vars => TypeOK'
  <1> SUFFICES ASSUME TypeOK, [Next]_vars PROVE TypeOK'
    OBVIOUS
  <1>1. CASE UNCHANGED vars
    BY <1>1 DEF vars, TypeOK
  <1>2. ASSUME NEW p \in Processes, GiveUp(p) \/ Crash(p) PROVE TypeOK'
    BY <1>2, ExitTyped DEF GiveUp, Crash
  <1> QED BY <1>1, <1>2, StartsTyped, RequestsTyped, DeletePetTyped, WorkTyped DEF Next

LEMMA TypeInvariant == Spec => []TypeOK
  BY TypeInit, TypeStep, PTL DEF Spec

(* Every variable keeps its type, and attempts stay within the policy.     *)
THEOREM TypeCorrect == Spec => []TypeOK
  BY TypeInvariant

-----------------------------------------------------------------------------
(* Across the lives of processes and stores                                *)

USE DEF Migrated

ProcessesOK ==
    /\ db["api"] /\ phase["api"] \in {"dial", "serving"} => Migrated
    /\ \A c \in Clients : pc[c] # "idle" => phase["api"] = "serving"
Stored(s, pet) == pet \in pets[s] \cup deleted[s]
RunOK(k) ==
    /\ run[k].stage # "closed" /\ run[k].wired => Migrated
    /\ run[k].store # "lost" =>
         keys[run[k].store][k] = run[k].pet /\ Stored(run[k].store, run[k].pet)
DeploymentInv ==
    /\ ProcessesOK
    /\ \A s \in Stores, k \in Keys : \A pet \in answered[s][k] : Stored(s, pet)
    /\ \A k \in Keys : RunOK(k)

LEMMA DeploymentInit == Init => DeploymentInv
  BY Constants DEF Init, DeploymentInv, ProcessesOK, RunOK, Processes

(* No store loses what it holds, other than with its process.              *)
Lasting ==
    /\ \A s \in Stores, pet \in PetIds : Stored(s, pet) => Stored(s, pet)'
    /\ \A s \in Stores, k \in Keys : keys[s][k] # NoRecord => keys'[s][k] = keys[s][k]
    /\ Migrated => Migrated'

LEMMA DeploymentFrame ==
    ASSUME TypeOK, DeploymentInv, Lasting, ProcessesOK',
           \A s \in Stores, k \in Keys :
              answered'[s][k] = answered[s][k]
              \/ \E pet \in PetIds : Stored(s, pet)' /\ answered'[s][k] = answered[s][k] \cup {pet},
           \A k \in Keys : run'[k] = run[k] \/ RunOK(k)'
    PROVE  DeploymentInv'
  <1>1. ASSUME NEW s \in Stores, NEW k \in Keys, NEW pet \in answered'[s][k]
        PROVE  Stored(s, pet)'
    <2>1. answered[s][k] \subseteq PetIds /\ \A old \in answered[s][k] : Stored(s, old)
      BY DEF TypeOK, DeploymentInv
    <2>2. CASE pet \in answered[s][k]
      BY <2>1, <2>2 DEF Lasting
    <2> QED BY <1>1, <2>2
  <1>2. ASSUME NEW k \in Keys, run'[k] = run[k] PROVE RunOK(k)'
    <2>1. RunOK(k) /\ run[k] \in Runs
      BY DEF DeploymentInv, TypeOK, Runs
    <2>2. run[k].store # "lost" => run[k].store \in Stores
      BY <2>1 DEF Runs
    <2>3. run[k].pet \in PetIds /\ run[k].pet # NoRecord
      BY <2>1, DeploymentAssumption DEF Runs
    <2>4. ASSUME NEW s \in Stores, NEW pet \in PetIds, keys[s][k] = pet, Stored(s, pet)
          PROVE  keys'[s][k] = pet /\ pet \in pets'[s] \cup deleted'[s]
      BY <2>4, DeploymentAssumption DEF Lasting, Stored
    <2>5. run[k].store # "lost" =>
             /\ keys'[run[k].store][k] = run[k].pet
             /\ run[k].pet \in pets'[run[k].store] \cup deleted'[run[k].store]
      BY <2>1, <2>2, <2>3, <2>4 DEF RunOK
    <2> QED BY <1>2, <2>1, <2>5 DEF RunOK, Lasting, Stored
  <1> QED BY <1>1, <1>2 DEF DeploymentInv

LEMMA StoresLast ==
    ASSUME UNCHANGED stores, Migrated => Migrated'
    PROVE  Lasting
  BY DEF Lasting, stores, Stored

LEMMA SaveNewLasts ==
    ASSUME TypeOK, NEW p \in Processes, NEW k \in Keys, NEW id \in PetIds, NEW recorded \in BOOLEAN,
           SaveNew(p, k, id, recorded), UNCHANGED tables, NEW s, s = PetStore(p)
    PROVE  /\ Lasting /\ Stored(s, id)'
           /\ recorded => keys'[s][k] = id
  <1>1. /\ s \in Stores /\ keys[s][k] = NoRecord
        /\ pets' = [pets EXCEPT ![s] = @ \cup {id}]
        /\ deleted' = [deleted EXCEPT ![s] = @ \ {id}]
        /\ keys' = IF recorded THEN [keys EXCEPT ![s] = [@ EXCEPT ![k] = id]] ELSE keys
    BY SaveNewEffects, StoreOf
  <1>2. pets \in [Stores -> SUBSET PetIds] /\ deleted \in [Stores -> SUBSET PetIds]
    BY DEF TypeOK
  <1>3. keys \in [Stores -> [Keys -> PetIds \cup {NoRecord}]]
    BY DEF TypeOK
  <1>4. \A t \in Stores, pet \in PetIds : Stored(t, pet) => Stored(t, pet)'
    BY <1>1, <1>2 DEF Stored
  <1>5. \A t \in Stores, l \in Keys : keys[t][l] # NoRecord => keys'[t][l] = keys[t][l]
    BY <1>1, <1>3
  <1>6. Stored(s, id)'
    BY <1>1, <1>2 DEF Stored
  <1>7. recorded => keys'[s][k] = id
    BY <1>1, <1>3
  <1> QED BY <1>4, <1>5, <1>6, <1>7 DEF Lasting

(* An answer for a pet that is stored where it was answered from.          *)
LEMMA Noted ==
    ASSUME TypeOK, NEW s \in Stores \cup {"lost"}, NEW k \in Keys, NEW pet \in PetIds, Note(s, k, pet),
           s # "lost" => Stored(s, pet)'
    PROVE  \A t \in Stores, l \in Keys :
              answered'[t][l] = answered[t][l]
              \/ \E q \in PetIds : Stored(t, q)' /\ answered'[t][l] = answered[t][l] \cup {q}
  <1> SUFFICES ASSUME NEW t \in Stores, NEW l \in Keys
               PROVE  answered'[t][l] = answered[t][l]
                      \/ \E q \in PetIds : Stored(t, q)' /\ answered'[t][l] = answered[t][l] \cup {q}
    OBVIOUS
  <1>1. answered'[t][l] = IF l = k /\ t = s THEN answered[t][l] \cup {pet} ELSE answered[t][l]
    BY DEF Note, TypeOK
  <1>2. CASE l = k /\ t = s
    BY <1>1, <1>2 DEF Stores
  <1> QED BY <1>1, <1>2

(* While the API serves, its requests change nothing about its start.      *)
LEMMA ProcessesFrame ==
    ASSUME ProcessesOK, UNCHANGED processes, Migrated => Migrated',
           \A c \in Clients : pc'[c] # "idle" => pc[c] # "idle" \/ phase["api"] = "serving"
    PROVE  ProcessesOK'
  BY DEF ProcessesOK, processes

LEMMA StartsInv ==
    ASSUME TypeOK, DeploymentInv,
           \/ \E p \in Processes : Start(p) \/ Dial(p)
           \/ Migrate \/ Toggle
    PROVE  DeploymentInv'
  <1>0. "api" \in Processes /\ ProcessesOK /\ phase \in [Processes -> {"down", "migrate", "dial", "serving"}]
        /\ db \in [Processes -> BOOLEAN]
    BY DEF Processes, DeploymentInv, TypeOK
  <1>1. UNCHANGED <<run, requests>>
    BY DEF Start, Dial, Migrate, Toggle
  <1>2. Lasting
    <2>1. CASE Migrate
      BY <2>1 DEF Migrate, MigratedRows, Tables, Lasting, Stored, TypeOK, Stores
    <2>2. CASE ~Migrate
      BY <2>2, StoresLast DEF Start, Dial, Toggle
    <2> QED BY <2>1, <2>2
  <1>3. ProcessesOK'
    <2>1. ASSUME NEW p \in Processes, Start(p) PROVE ProcessesOK'
      <3>1. PICK reached \in BOOLEAN :
              db' = [db EXCEPT ![p] = reached]
              /\ phase' = [phase EXCEPT ![p] = IF p = "api" /\ reached THEN "migrate" ELSE "dial"]
        BY <2>1 DEF Start, MoveTo, AfterConnect
      <3> QED BY <1>0, <1>1, <2>1, <3>1 DEF Start, ProcessesOK, requests
    <2>2. ASSUME NEW p \in Processes, Dial(p) PROVE ProcessesOK'
      BY <1>0, <1>1, <2>2 DEF Dial, MoveTo, ProcessesOK, requests
    <2>3. CASE Migrate
      BY <1>0, <1>1, <2>3 DEF Migrate, MoveTo, ProcessesOK, requests
    <2>4. CASE Toggle
      BY <1>0, <1>1, <2>4 DEF Toggle, processes, ProcessesOK, requests
    <2> QED BY <2>1, <2>2, <2>3, <2>4
  <1> QED BY <1>1, <1>2, <1>3, DeploymentFrame DEF requests

(* The end of a process empties its own store and leaves the others alone. *)
LEMMA ExitEffects ==
    ASSUME TypeOK, NEW p \in Processes, Exit(p)
    PROVE  \A s \in Stores :
              IF s = p THEN /\ pets'[s] = {} /\ deleted'[s] = {}
                            /\ keys'[s] = [k \in Keys |-> NoRecord]
                            /\ answered'[s] = [k \in Keys |-> {}]
                       ELSE /\ pets'[s] = pets[s] /\ deleted'[s] = deleted[s]
                            /\ keys'[s] = keys[s] /\ answered'[s] = answered[s]
  BY DEF Exit, TypeOK, Stores, Processes

LEMMA ExitInv ==
    ASSUME TypeOK, DeploymentInv, NEW p \in Processes, Exit(p)
    PROVE  DeploymentInv'
  <1>1. ProcessesOK'
    <2>1. /\ phase' = [phase EXCEPT ![p] = "down"] /\ db' = [db EXCEPT ![p] = FALSE]
          /\ pc' = IF p = "api" THEN [c \in Clients |-> "idle"] ELSE pc
          /\ tables' = tables
      BY DEF Exit, MoveTo
    <2> QED BY <2>1 DEF ProcessesOK, DeploymentInv, TypeOK
  <1>2. ASSUME NEW s \in Stores, NEW k \in Keys, NEW pet \in answered'[s][k]
        PROVE  Stored(s, pet)'
    <2>1. s # p /\ pet \in answered[s][k]
      BY <1>2, ExitEffects
    <2>2. Stored(s, pet)
      BY <2>1 DEF DeploymentInv
    <2> QED BY <2>1, <2>2, ExitEffects DEF Stored
  <1>3. ASSUME NEW k \in Keys PROVE RunOK(k)'
    <2>1. RunOK(k) /\ run[k] \in Runs
      BY DEF DeploymentInv, TypeOK, Runs
    <2>2. run'[k] = IF run[k].store = p THEN [run[k] EXCEPT !.store = "lost"] ELSE run[k]
      BY DEF Exit
    <2>3. tables' = tables
      BY DEF Exit
    <2>4. CASE run[k].store = p
      BY <2>1, <2>2, <2>3, <2>4 DEF RunOK, Runs
    <2>5. CASE run[k].store # p
      <3>1. run'[k] = run[k]
        BY <2>2, <2>5
      <3>2. run[k].store # "lost" => run[k].store \in Stores
        BY <2>1 DEF Runs
      <3>3. run[k].store # "lost" =>
               /\ keys'[run[k].store] = keys[run[k].store]
               /\ pets'[run[k].store] = pets[run[k].store]
               /\ deleted'[run[k].store] = deleted[run[k].store]
        BY <2>5, <3>2, ExitEffects
      <3> QED BY <2>1, <2>3, <3>1, <3>3 DEF RunOK, Stored
    <2> QED BY <2>4, <2>5
  <1> QED BY <1>1, <1>2, <1>3 DEF DeploymentInv

LEMMA ReplayNotes ==
    ASSUME TypeOK, NEW c \in Clients, Replay(c) \/ Fail(c), UNCHANGED stores
    PROVE  \A t \in Stores, l \in Keys :
              answered'[t][l] = answered[t][l]
              \/ \E q \in PetIds : Stored(t, q)' /\ answered'[t][l] = answered[t][l] \cup {q}
  <1>1. CASE Replay(c)
    <2>1. PICK s \in Stores, pet \in PetIds : Note(s, key[c], pet) /\ pet \in pets[s]
      <3>1. key[c] \in Keys /\ "api" \in Processes
        BY DEF TypeOK, Processes
      <3>2. Bound("api", key[c]) \in pets[PetStore("api")] /\ Note(PetStore("api"), key[c], Bound("api", key[c]))
        BY <1>1 DEF Replay, Replays
      <3>3. PetStore("api") \in Stores
        BY <3>1, StoreOf
      <3>4. Bound("api", key[c]) \in PetIds
        BY <3>2, <3>3 DEF TypeOK
      <3> QED BY <3>2, <3>3, <3>4
    <2>2. Stored(s, pet)'
      BY <2>1 DEF Stored, stores
    <2>3. PICK k \in Keys : k = key[c]
      BY DEF TypeOK
    <2>4. Note(s, k, pet)
      BY <2>1, <2>3
    <2> QED BY <2>2, <2>4, Noted
  <1>2. CASE Fail(c)
    BY <1>2 DEF Fail
  <1> QED BY <1>1, <1>2

LEMMA RequestsInv ==
    ASSUME TypeOK, DeploymentInv, NEW c \in Clients, AddPet(c) \/ Serve(c) \/ RequestFails(c)
    PROVE  DeploymentInv'
  <1>0. /\ key[c] \in Keys /\ "api" \in Processes /\ ProcessesOK
        /\ pc \in [Clients -> {"idle", "lookup", "add", "start", "waiting"}]
    BY DEF TypeOK, Processes, DeploymentInv
  <1>1. UNCHANGED <<tables, processes>>
    BY DEF AddPet, Serve, HandlerLookup, AddInline, ExecuteWorkflow, RequestFails
  <1>2. ASSUME NEW place, pc' = [pc EXCEPT ![c] = place],
               phase["api"] = "serving"
        PROVE  ProcessesOK'
    BY <1>0, <1>1, <1>2, ProcessesFrame
  <1>3. ASSUME pc[c] # "idle" PROVE phase["api"] = "serving"
    BY <1>0, <1>3 DEF ProcessesOK
  <1>4. CASE AddPet(c)
    <2>1. Lasting /\ UNCHANGED <<run, answered>>
      BY <1>4, StoresLast DEF AddPet
    <2>2. ProcessesOK'
      BY <1>2, <1>4 DEF AddPet, GoTo
    <2> QED BY <2>1, <2>2, DeploymentFrame
  <1>5. CASE HandlerLookup(c)
    <2>1. Lasting /\ UNCHANGED run /\ UNCHANGED stores
      BY <1>5, StoresLast DEF HandlerLookup
    <2>2. ProcessesOK'
      <3>1. pc[c] = "lookup"
        BY <1>5 DEF HandlerLookup
      <3>2. PICK place : pc' = [pc EXCEPT ![c] = place]
        BY <1>5, ReplayTyped DEF HandlerLookup, GoTo
      <3> QED BY <1>2, <1>3, <3>1, <3>2
    <2>3. (Replay(c) \/ Fail(c)) \/ UNCHANGED answered
      BY <1>5 DEF HandlerLookup
    <2>4. CASE Replay(c) \/ Fail(c)
      BY <2>1, <2>2, <2>4, ReplayNotes, DeploymentFrame
    <2>5. CASE UNCHANGED answered
      BY <2>1, <2>2, <2>5, DeploymentFrame
    <2> QED BY <2>3, <2>4, <2>5
  <1>6. CASE AddInline(c)
    <2>1. UNCHANGED run /\ pc[c] = "add"
      BY <1>6 DEF AddInline
    <2>2. ASSUME pc' = [pc EXCEPT ![c] = "idle"] PROVE ProcessesOK'
      BY <1>2, <1>3, <2>1, <2>2
    <2>3. CASE (Replay(c) \/ Fail(c)) /\ UNCHANGED stores
      <3>1. ProcessesOK'
        BY <2>2, <2>3, ReplayTyped
      <3>2. Lasting
        BY <1>1, <2>3, StoresLast
      <3> QED BY <2>1, <2>3, <3>1, <3>2, ReplayNotes, DeploymentFrame
    <2>4. ASSUME NEW id \in PetIds, NEW recorded \in BOOLEAN,
                 SaveNew("api", key[c], id, recorded), GoTo(c, "idle"),
                 Note(PetStore("api"), key[c], id) \/ UNCHANGED answered
          PROVE  DeploymentInv'
      <3>1. PICK s \in Stores : s = PetStore("api")
        BY <1>0, StoreOf
      <3>2. Lasting /\ Stored(s, id)'
        <4>1. PICK k \in Keys : k = key[c]
          BY <1>0
        <4>2. SaveNew("api", k, id, recorded)
          BY <2>4, <4>1
        <4> QED BY <1>0, <1>1, <3>1, <4>2, SaveNewLasts
      <3>3. ProcessesOK'
        BY <2>2, <2>4 DEF GoTo
      <3>4. CASE UNCHANGED answered
        BY <2>1, <3>2, <3>3, <3>4, DeploymentFrame
      <3>5. CASE Note(PetStore("api"), key[c], id)
        <4>1. PICK k \in Keys : k = key[c]
          BY <1>0
        <4>2. Note(s, k, id)
          BY <3>1, <3>5, <4>1
        <4>3. \A t \in Stores, l \in Keys :
                 answered'[t][l] = answered[t][l]
                 \/ \E q \in PetIds : Stored(t, q)' /\ answered'[t][l] = answered[t][l] \cup {q}
          BY <3>2, <4>2, Noted
        <4> QED BY <2>1, <3>2, <3>3, <4>3, DeploymentFrame
      <3> QED BY <2>4, <3>4, <3>5
    <2> QED BY <1>6, <2>3, <2>4 DEF AddInline
  <1>7. CASE ExecuteWorkflow(c)
    <2>1. Lasting /\ UNCHANGED answered /\ pc[c] = "start"
      BY <1>7, StoresLast DEF ExecuteWorkflow
    <2>2. PICK place : pc' = [pc EXCEPT ![c] = place]
      BY <1>7 DEF ExecuteWorkflow, GoTo
    <2>3. ProcessesOK'
      BY <1>2, <1>3, <2>1, <2>2
    <2>4. phase["api"] = "serving" /\ (db["api"] => Migrated)
      BY <1>0, <1>3, <2>1 DEF ProcessesOK
    <2>5. ASSUME NEW k \in Keys PROVE run'[k] = run[k] \/ RunOK(k)'
      <3>1. db["api"] \in BOOLEAN /\ run \in [Keys -> Runs]
        BY <1>0 DEF TypeOK, Runs
      <3>2. run'[k] = run[k] \/ run'[k] = [NoRun EXCEPT !.stage = "persist", !.attempt = 1, !.wired = db["api"]]
        BY <1>7, <3>1 DEF ExecuteWorkflow
      <3>3. CASE run'[k] = [NoRun EXCEPT !.stage = "persist", !.attempt = 1, !.wired = db["api"]]
        <4>1. run'[k].store = "lost" /\ run'[k].wired = db["api"]
          BY <3>3 DEF NoRun
        <4> QED BY <1>1, <2>4, <4>1 DEF RunOK
      <3> QED BY <3>2, <3>3
    <2> QED BY <2>1, <2>3, <2>5, DeploymentFrame
  <1>8. CASE RequestFails(c)
    <2>1. Lasting /\ UNCHANGED <<run, answered>>
      BY <1>8, StoresLast DEF RequestFails
    <2>2. ProcessesOK'
      BY <1>2, <1>3, <1>8 DEF RequestFails, GoTo
    <2> QED BY <2>1, <2>2, DeploymentFrame
  <1> QED BY <1>4, <1>5, <1>6, <1>7, <1>8 DEF Serve

LEMMA DeletePetInv ==
    ASSUME TypeOK, DeploymentInv, DeletePet
    PROVE  DeploymentInv'
  <1>1. PICK s \in Stores, id \in PetIds :
           /\ id \in pets[s]
           /\ pets' = [pets EXCEPT ![s] = @ \ {id}]
           /\ deleted' = [deleted EXCEPT ![s] = @ \cup {id}]
    BY StoreOf DEF DeletePet, Processes, TypeOK
  <1>2. UNCHANGED <<tables, processes, keys, run, requests>>
    BY DEF DeletePet
  <1>3. \A t \in Stores, pet \in PetIds : Stored(t, pet) => Stored(t, pet)'
    BY <1>1 DEF Stored, TypeOK
  <1>4. Lasting
    BY <1>2, <1>3 DEF Lasting
  <1>5. ProcessesOK'
    BY <1>2, ProcessesFrame DEF DeploymentInv, requests
  <1> QED BY <1>2, <1>4, <1>5, DeploymentFrame DEF requests

(* An execution's step: the effects on its own run and on no other.        *)
LEMMA RetryRuns ==
    ASSUME TypeOK, NEW k \in Keys, NEW beaten, Retry(k, beaten), NEW l \in Keys
    PROVE  \/ run'[l] = run[l]
           \/ l = k /\ run'[l] = NoRun
           \/ /\ run'[l].stage = run[l].stage /\ run'[l].wired = run[l].wired
              /\ run'[l].store = run[l].store /\ run'[l].pet = run[l].pet
  <1>1. run \in [Keys -> Runs]
    BY DEF TypeOK, Runs
  <1>2. CASE run[k].attempt < Attempts
    <2>1. run' = [run EXCEPT ![k] = [run[k] EXCEPT !.attempt = @ + 1, !.beaten = beaten]]
      BY <1>1, <1>2 DEF Retry
    <2> QED BY <1>1, <2>1 DEF Runs
  <1>3. CASE ~(run[k].attempt < Attempts)
    BY <1>1, <1>3 DEF Retry, Close
  <1> QED BY <1>2, <1>3

LEMMA RetryInv ==
    ASSUME TypeOK, DeploymentInv, NEW k \in Keys, NEW beaten \in BOOLEAN, Retry(k, beaten),
           Lasting, UNCHANGED <<tables, processes>>
    PROVE  DeploymentInv'
  <1>1. ProcessesOK'
    <2>1. \A c \in Clients : pc'[c] # "idle" => pc[c] # "idle"
      BY DEF Retry, Close, requests
    <2> QED BY <2>1, ProcessesFrame DEF DeploymentInv
  <1>2. UNCHANGED answered
    BY DEF Retry, requests
  <1>3. ASSUME NEW l \in Keys PROVE run'[l] = run[l] \/ RunOK(l)'
    <2>1. RunOK(l) /\ run[l] \in Runs
      BY DEF DeploymentInv, TypeOK, Runs
    <2>2. CASE run'[l] = NoRun
      BY <2>2, Constants DEF RunOK
    <2>3. CASE /\ run'[l].stage = run[l].stage /\ run'[l].wired = run[l].wired
               /\ run'[l].store = run[l].store /\ run'[l].pet = run[l].pet
      <3>1. run[l].store # "lost" => run[l].store \in Stores
        BY <2>1 DEF Runs
      <3>2. run[l].pet \in PetIds /\ run[l].pet # NoRecord
        BY <2>1, DeploymentAssumption DEF Runs
      <3>3. ASSUME NEW s \in Stores, NEW pet \in PetIds, keys[s][l] = pet, Stored(s, pet)
            PROVE  keys'[s][l] = pet /\ pet \in pets'[s] \cup deleted'[s]
        BY <3>3, DeploymentAssumption DEF Lasting, Stored
      <3>4. run[l].store # "lost" =>
               /\ keys'[run[l].store][l] = run[l].pet
               /\ run[l].pet \in pets'[run[l].store] \cup deleted'[run[l].store]
        BY <2>1, <3>1, <3>2, <3>3 DEF RunOK
      <3> QED BY <2>1, <2>3, <3>4 DEF RunOK, Stored
    <2> QED BY <2>2, <2>3, RetryRuns
  <1> QED BY <1>1, <1>2, <1>3, DeploymentFrame

(* An execution comes to know its pet only once it is stored and bound.    *)
LEMMA PersistedInv ==
    ASSUME TypeOK, DeploymentInv, NEW k \in Keys, NEW id \in PetIds, Persisted(k, id),
           Lasting, UNCHANGED <<tables, processes>>, run[k].stage # "closed",
           NEW s \in Stores, s = PetStore("worker"),
           keys'[s][k] = id, Stored(s, id)'
    PROVE  DeploymentInv'
  <1>1. UNCHANGED requests /\ run \in [Keys -> Runs]
    BY DEF Persisted, TypeOK, Runs
  <1>2. ProcessesOK'
    BY <1>1, ProcessesFrame DEF DeploymentInv, requests
  <1>3. ASSUME NEW l \in Keys PROVE run'[l] = run[l] \/ RunOK(l)'
    <2>1. CASE l = k
      <3>1. run'[k] = [run[k] EXCEPT !.stage = "sync", !.attempt = 1, !.pet = id, !.store = s]
        BY <1>1 DEF Persisted
      <3>2. run'[k].pet = id /\ run'[k].store = s /\ run'[k].wired = run[k].wired
        BY <1>1, <3>1 DEF Runs
      <3>3. run[k].wired => Migrated
        BY DEF DeploymentInv, RunOK
      <3>4. keys'[run'[k].store][k] = run'[k].pet
            /\ run'[k].pet \in pets'[run'[k].store] \cup deleted'[run'[k].store]
        BY <3>2 DEF Stored
      <3> QED BY <2>1, <3>2, <3>3, <3>4 DEF RunOK, Stored
    <2>2. CASE l # k
      BY <1>1, <2>2 DEF Persisted
    <2> QED BY <2>1, <2>2
  <1> QED BY <1>1, <1>2, <1>3, DeploymentFrame DEF requests

LEMMA PersistPetInv ==
    ASSUME TypeOK, DeploymentInv, NEW k \in Keys, PersistPet(k)
    PROVE  DeploymentInv'
  <1>0. /\ UNCHANGED <<tables, processes>> /\ run[k].stage = "persist"
        /\ "worker" \in Processes
    BY DEF PersistPet, Performs, Processes
  <1>s. PICK s \in Stores : s = PetStore("worker") /\ Bound("worker", k) = keys[s][k]
    BY <1>0, StoreOf
  <1>1. CASE Retry(k, FALSE) /\ UNCHANGED stores
    BY <1>0, <1>1, RetryInv, StoresLast
  <1>2. CASE /\ Replays("worker", k)
             /\ Persisted(k, Bound("worker", k))
             /\ UNCHANGED stores
    <2>1. PICK pet \in PetIds : pet = keys[s][k] /\ pet \in pets[s]
      BY <1>2, <1>s DEF Replays, TypeOK
    <2>2. Persisted(k, pet)
      BY <1>2, <1>s, <2>1
    <2>3. keys'[s][k] = pet /\ Stored(s, pet)'
      BY <1>2, <2>1 DEF Stored, stores
    <2>4. Lasting
      BY <1>0, <1>2, StoresLast
    <2> QED BY <1>0, <1>s, <2>2, <2>3, <2>4, PersistedInv
  <1>3. ASSUME NEW id \in PetIds, NEW recorded \in BOOLEAN,
               SaveNew("worker", k, id, recorded),
               (recorded /\ Persisted(k, id)) \/ Retry(k, FALSE)
        PROVE  DeploymentInv'
    <2>1. Lasting /\ Stored(s, id)' /\ (recorded => keys'[s][k] = id)
      BY <1>0, <1>3, <1>s, SaveNewLasts
    <2> QED BY <1>0, <1>3, <1>s, <2>1, PersistedInv, RetryInv
  <1> QED BY <1>1, <1>2, <1>3 DEF PersistPet

LEMMA SyncPetInv ==
    ASSUME TypeOK, DeploymentInv, NEW k \in Keys, SyncPetWithPartner(k)
    PROVE  DeploymentInv'
  <1>0. UNCHANGED <<tables, processes, stores>> /\ run \in [Keys -> Runs]
    BY DEF SyncPetWithPartner, Performs, TypeOK, Runs
  <1>1. Lasting
    BY <1>0, StoresLast
  <1>2. ASSUME NEW beaten \in BOOLEAN, Retry(k, partner /\ beaten) PROVE DeploymentInv'
    <2>1. (partner /\ beaten) \in BOOLEAN
      OBVIOUS
    <2> QED BY <1>0, <1>1, <1>2, <2>1, RetryInv
  <1>3. CASE /\ UNCHANGED answered \/ Note(run[k].store, k, run[k].pet)
             /\ Close(k)
    <2>1. ProcessesOK'
      BY <1>0, <1>3, ProcessesFrame DEF Close, DeploymentInv
    <2>2. ASSUME NEW l \in Keys PROVE run'[l] = run[l] \/ RunOK(l)'
      <3>1. run'[l] = run[l] \/ run'[l] = NoRun
        BY <1>0, <1>3 DEF Close
      <3> QED BY <3>1, Constants DEF RunOK
    <2>3. CASE UNCHANGED answered
      BY <1>1, <2>1, <2>2, <2>3, DeploymentFrame
    <2>4. CASE Note(run[k].store, k, run[k].pet)
      <3>1. PICK s \in Stores \cup {"lost"}, pet \in PetIds : s = run[k].store /\ pet = run[k].pet
        BY <1>0 DEF Runs
      <3>2. Note(s, k, pet)
        BY <2>4, <3>1
      <3>3. s # "lost" => Stored(s, pet)'
        BY <1>0, <3>1 DEF DeploymentInv, RunOK, Stored, stores
      <3>4. \A t \in Stores, l \in Keys :
               answered'[t][l] = answered[t][l]
               \/ \E q \in PetIds : Stored(t, q)' /\ answered'[t][l] = answered[t][l] \cup {q}
        BY <3>2, <3>3, Noted
      <3> QED BY <1>1, <2>1, <2>2, <3>4, DeploymentFrame
    <2> QED BY <1>3, <2>3, <2>4
  <1>4. \A beaten \in {run[k].beaten, Skips(k) \/ Finds(k)} : beaten \in BOOLEAN
    BY <1>0 DEF Runs, Skips, Finds
  <1> QED BY <1>2, <1>3, <1>4 DEF SyncPetWithPartner

LEMMA DeploymentStep == TypeOK /\ DeploymentInv /\ [Next]_vars => DeploymentInv'
  <1> SUFFICES ASSUME TypeOK, DeploymentInv, [Next]_vars PROVE DeploymentInv'
    OBVIOUS
  <1>1. CASE UNCHANGED vars
    BY <1>1 DEF vars, DeploymentInv, ProcessesOK, RunOK, Stored
  <1>2. ASSUME NEW p \in Processes, GiveUp(p) \/ Crash(p) PROVE DeploymentInv'
    BY <1>2, ExitInv DEF GiveUp, Crash
  <1> QED BY <1>1, <1>2, StartsInv, RequestsInv, DeletePetInv, PersistPetInv, SyncPetInv DEF Next, Work

LEMMA DeploymentInvariant == Spec => [](TypeOK /\ DeploymentInv)
  <1>1. Init => TypeOK /\ DeploymentInv
    BY TypeInit, DeploymentInit
  <1>2. (TypeOK /\ DeploymentInv) /\ [Next]_vars => (TypeOK /\ DeploymentInv)'
    BY TypeStep, DeploymentStep
  <1> QED BY <1>1, <1>2, PTL DEF Spec

(* A pet answered 200 is in the store it was answered from until it is     *)
(* deleted there, through every start and migration of the processes.      *)
THEOREM AnsweredPetsStay == Spec => []AnsweredPetsAreStored
  <1>1. DeploymentInv => AnsweredPetsAreStored
    BY DEF DeploymentInv, AnsweredPetsAreStored, Stored
  <1> QED BY <1>1, DeploymentInvariant, PTL

(* Although only the API migrates, no execution started by an API in       *)
(* Postgres meets a database that lacks a table, and an API whose /readyz  *)
(* answers 200 can serve.                                                  *)
THEOREM CreationsFindTheirTables == Spec => []CreationsFindTables
  <1>1. DeploymentInv => CreationsFindTables
    BY DEF DeploymentInv, ProcessesOK, RunOK, CreationsFindTables, Ready, Works
  <1> QED BY <1>1, DeploymentInvariant, PTL

-----------------------------------------------------------------------------
(* Each store is a registry of keys                                        *)

(* The steps of a KeyRegistry, on the keys and answers of store s.         *)
Same(s) == keys'[s] = keys[s] /\ answered'[s] = answered[s]
Answers(s, k) ==
    /\ keys[s][k] # NoRecord /\ keys'[s] = keys[s]
    /\ answered'[s] = [answered[s] EXCEPT ![k] = @ \cup {keys[s][k]}]
Binds(s, k, id) ==
    /\ keys[s][k] = NoRecord /\ keys'[s] = [keys[s] EXCEPT ![k] = id]
    /\ \/ answered'[s] = answered[s]
       \/ answered'[s] = [answered[s] EXCEPT ![k] = @ \cup {id}]
Forgets(s) ==
    /\ s # "postgres" /\ keys'[s] = [k \in Keys |-> NoRecord]
    /\ answered'[s] = [k \in Keys |-> {}]
StoreStep(s) ==
    \/ Same(s)
    \/ \E k \in Keys : Answers(s, k) \/ \E id \in PetIds : Binds(s, k, id)
    \/ Forgets(s)

LEMMA NoteEffects ==
    ASSUME TypeOK, NEW s, NEW k \in Keys, NEW pet \in PetIds, Note(s, k, pet)
    PROVE  /\ s \in Stores => answered'[s] = [answered[s] EXCEPT ![k] = @ \cup {pet}]
           /\ \A t \in Stores \ {s} : answered'[t] = answered[t]
  BY DEF Note, TypeOK

LEMMA ReplaySteps ==
    ASSUME TypeOK, NEW c \in Clients, Replay(c) \/ Fail(c), UNCHANGED stores
    PROVE  \A t \in Stores : StoreStep(t)
  <1>0. UNCHANGED keys /\ key[c] \in Keys /\ "api" \in Processes
    BY DEF stores, TypeOK, Processes
  <1>1. CASE Replay(c)
    <2>1. PICK s \in Stores, k \in Keys, pet \in PetIds :
             Note(s, k, pet) /\ keys[s][k] = pet /\ pet # NoRecord
      <3>1. /\ Bound("api", key[c]) \in pets[PetStore("api")] /\ Bound("api", key[c]) # NoRecord
            /\ Note(PetStore("api"), key[c], Bound("api", key[c]))
        BY <1>1 DEF Replay, Replays
      <3>2. PetStore("api") \in Stores /\ Bound("api", key[c]) = keys[PetStore("api")][key[c]]
        BY <1>0, StoreOf
      <3>3. Bound("api", key[c]) \in PetIds
        BY <3>1, <3>2 DEF TypeOK
      <3>4. PICK s \in Stores, pet \in PetIds : s = PetStore("api") /\ pet = Bound("api", key[c])
        BY <3>2, <3>3
      <3>5. Note(s, key[c], pet) /\ keys[s][key[c]] = pet /\ pet # NoRecord
        BY <3>1, <3>2, <3>4
      <3> QED BY <1>0, <3>5
    <2>2. ASSUME NEW t \in Stores PROVE StoreStep(t)
      <3>1. CASE t = s
        <4>1. answered'[s] = [answered[s] EXCEPT ![k] = @ \cup {pet}]
          BY <2>1, NoteEffects
        <4>2. Answers(s, k)
          BY <1>0, <2>1, <4>1 DEF Answers
        <4> QED BY <3>1, <4>2 DEF StoreStep
      <3>2. CASE t # s
        <4>1. answered'[t] = answered[t]
          <5>1. Note(s, k, pet) /\ t \in Stores \ {s}
            BY <2>1, <3>2
          <5> QED BY <5>1, NoteEffects
        <4>2. Same(t)
          BY <1>0, <4>1 DEF Same
        <4> QED BY <4>2 DEF StoreStep
      <3> QED BY <3>1, <3>2
    <2> QED BY <2>2
  <1>2. CASE Fail(c)
    BY <1>0, <1>2 DEF Fail, StoreStep, Same
  <1> QED BY <1>1, <1>2

LEMMA SaveSteps ==
    ASSUME TypeOK, NEW p \in Processes, NEW k \in Keys, NEW id \in PetIds, NEW recorded \in BOOLEAN,
           SaveNew(p, k, id, recorded),
           (recorded /\ Note(PetStore(p), k, id)) \/ UNCHANGED answered
    PROVE  \A t \in Stores : StoreStep(t)
  <1>1. PICK s \in Stores :
           /\ s = PetStore(p) /\ keys[s][k] = NoRecord
           /\ keys' = IF recorded THEN [keys EXCEPT ![s] = [@ EXCEPT ![k] = id]] ELSE keys
    BY SaveNewEffects, StoreOf
  <1>2. keys \in [Stores -> [Keys -> PetIds \cup {NoRecord}]]
    BY DEF TypeOK
  <1>3. \/ UNCHANGED answered
        \/ /\ recorded /\ answered'[s] = [answered[s] EXCEPT ![k] = @ \cup {id}]
           /\ \A t \in Stores \ {s} : answered'[t] = answered[t]
    <2>1. (recorded /\ Note(s, k, id)) \/ UNCHANGED answered
      BY <1>1
    <2> QED BY <2>1, NoteEffects
  <1>4. ASSUME NEW t \in Stores, t # s PROVE StoreStep(t)
    BY <1>1, <1>2, <1>3, <1>4 DEF StoreStep, Same
  <1>5. CASE recorded
    <2>1. keys'[s] = [keys[s] EXCEPT ![k] = id]
      BY <1>1, <1>2, <1>5
    <2>2. answered'[s] = answered[s] \/ answered'[s] = [answered[s] EXCEPT ![k] = @ \cup {id}]
      BY <1>3
    <2>3. Binds(s, k, id)
      BY <1>1, <2>1, <2>2 DEF Binds
    <2> QED BY <1>4, <2>3 DEF StoreStep
  <1>6. CASE ~recorded
    <2>1. Same(s)
      BY <1>1, <1>3, <1>6 DEF Same
    <2> QED BY <1>4, <2>1 DEF StoreStep
  <1> QED BY <1>5, <1>6

LEMMA StoreSteps == TypeOK /\ DeploymentInv /\ [Next]_vars => \A s \in Stores : StoreStep(s)
  <1> SUFFICES ASSUME TypeOK, DeploymentInv, [Next]_vars PROVE \A s \in Stores : StoreStep(s)
    OBVIOUS
  <1>1. ASSUME UNCHANGED <<keys, answered>> PROVE \A s \in Stores : StoreStep(s)
    BY <1>1 DEF StoreStep, Same
  <1>2. CASE UNCHANGED vars
    BY <1>1, <1>2 DEF vars
  <1>3. ASSUME NEW p \in Processes, Start(p) \/ Dial(p) PROVE \A s \in Stores : StoreStep(s)
    BY <1>1, <1>3 DEF Start, Dial, stores, requests
  <1>4. ASSUME NEW p \in Processes, GiveUp(p) \/ Crash(p), NEW s \in Stores PROVE StoreStep(s)
    <2>1. Exit(p) /\ p # "postgres"
      BY <1>4 DEF GiveUp, Crash, Processes
    <2>2. CASE s = p
      BY <2>1, <2>2, ExitEffects DEF StoreStep, Forgets
    <2>3. CASE s # p
      BY <2>1, <2>3, ExitEffects DEF StoreStep, Same
    <2> QED BY <2>2, <2>3
  <1>5. CASE Migrate \/ Toggle \/ DeletePet
    BY <1>1, <1>5 DEF Migrate, Toggle, DeletePet, stores, requests
  <1>6. ASSUME NEW c \in Clients, AddPet(c) \/ Serve(c) \/ RequestFails(c)
        PROVE  \A s \in Stores : StoreStep(s)
    <2>1. CASE AddPet(c) \/ ExecuteWorkflow(c) \/ RequestFails(c)
      BY <1>1, <2>1 DEF AddPet, ExecuteWorkflow, RequestFails, stores
    <2>2. CASE HandlerLookup(c)
      <3>1. UNCHANGED stores /\ (Replay(c) \/ Fail(c) \/ UNCHANGED answered)
        BY <2>2 DEF HandlerLookup
      <3> QED BY <1>1, <3>1, ReplaySteps DEF stores
    <2>3. CASE AddInline(c)
      <3>1. ASSUME NEW id \in PetIds, NEW recorded \in BOOLEAN,
                   SaveNew("api", key[c], id, recorded),
                   (recorded /\ Note(PetStore("api"), key[c], id)) \/ UNCHANGED answered
            PROVE  \A s \in Stores : StoreStep(s)
        <4>1. PICK k \in Keys : k = key[c]
          BY DEF TypeOK
        <4>2. SaveNew("api", k, id, recorded) /\ ((recorded /\ Note(PetStore("api"), k, id)) \/ UNCHANGED answered)
          BY <3>1, <4>1
        <4> QED BY <4>2, SaveSteps DEF Processes
      <3> QED BY <2>3, <3>1, ReplaySteps DEF AddInline
    <2> QED BY <1>6, <2>1, <2>2, <2>3 DEF Serve
  <1>7. ASSUME NEW k \in Keys, PersistPet(k) PROVE \A s \in Stores : StoreStep(s)
    <2>1. UNCHANGED answered
      <3>1. ASSUME Retry(k, FALSE) PROVE UNCHANGED answered
        BY <3>1 DEF Retry, requests
      <3>2. ASSUME NEW id, Persisted(k, id) PROVE UNCHANGED answered
        BY <3>2 DEF Persisted, requests
      <3> QED BY <1>7, <3>1, <3>2 DEF PersistPet
    <2>2. ASSUME NEW id \in PetIds, NEW recorded \in BOOLEAN, SaveNew("worker", k, id, recorded)
          PROVE  \A s \in Stores : StoreStep(s)
      BY <2>1, <2>2, SaveSteps DEF Processes
    <2>3. UNCHANGED stores \/ \E id \in PetIds, recorded \in BOOLEAN : SaveNew("worker", k, id, recorded)
      BY <1>7 DEF PersistPet
    <2> QED BY <1>1, <2>1, <2>2, <2>3 DEF stores
  <1>8. ASSUME NEW k \in Keys, SyncPetWithPartner(k) PROVE \A s \in Stores : StoreStep(s)
    <2>1. UNCHANGED keys /\ RunOK(k) /\ run[k] \in Runs
      BY <1>8 DEF SyncPetWithPartner, stores, DeploymentInv, TypeOK, Runs
    <2>2. UNCHANGED answered \/ Note(run[k].store, k, run[k].pet)
      BY <1>8 DEF SyncPetWithPartner, Retry, requests
    <2>3. CASE Note(run[k].store, k, run[k].pet)
      <3>1. PICK s \in Stores \cup {"lost"}, pet \in PetIds : s = run[k].store /\ pet = run[k].pet
        BY <2>1 DEF Runs
      <3>2. Note(s, k, pet) /\ (s # "lost" => keys[s][k] = pet /\ pet # NoRecord)
        BY <2>1, <2>3, <3>1, DeploymentAssumption DEF RunOK
      <3>3. ASSUME NEW t \in Stores PROVE StoreStep(t)
        <4>1. CASE t = s
          <5>1. s # "lost"
            BY <4>1 DEF Stores
          <5>2. answered'[s] = [answered[s] EXCEPT ![k] = @ \cup {pet}]
            BY <3>2, <4>1, NoteEffects
          <5>3. Answers(s, k)
            BY <2>1, <3>2, <5>1, <5>2 DEF Answers
          <5> QED BY <4>1, <5>3 DEF StoreStep
        <4>2. CASE t # s
          <5>1. answered'[t] = answered[t]
            BY <3>2, <4>2, NoteEffects
          <5> QED BY <2>1, <5>1 DEF StoreStep, Same
        <4> QED BY <4>1, <4>2
      <3> QED BY <3>3
    <2> QED BY <1>1, <2>1, <2>2, <2>3
  <1> QED BY <1>2, <1>3, <1>4, <1>5, <1>6, <1>7, <1>8 DEF Next, Work

LEMMA DatabaseStep == StoreStep("postgres") => [Database!Next]_(Database!regVars)
  <1> SUFFICES ASSUME StoreStep("postgres") PROVE [Database!Next]_(Database!regVars)
    OBVIOUS
  <1>1. CASE Same("postgres")
    BY <1>1 DEF Same, Database!regVars
  <1>2. ASSUME NEW k \in Keys, Answers("postgres", k) PROVE Database!Next
    BY <1>2 DEF Answers, Database!Next, Database!Answer
  <1>3. ASSUME NEW k \in Keys, NEW id \in PetIds, Binds("postgres", k, id) PROVE Database!Next
    BY <1>3 DEF Binds, Database!Next, Database!Bind, Database!BindAndAnswer
  <1> QED BY <1>1, <1>2, <1>3 DEF StoreStep, Forgets

LEMMA ApiStep == StoreStep("api") => [OfApi!Next]_(OfApi!regVars)
  <1> SUFFICES ASSUME StoreStep("api") PROVE [OfApi!Next]_(OfApi!regVars)
    OBVIOUS
  <1>1. CASE Same("api")
    BY <1>1 DEF Same, OfApi!regVars
  <1>2. ASSUME NEW k \in Keys, Answers("api", k) PROVE OfApi!Next
    BY <1>2 DEF Answers, OfApi!Next, OfApi!Answer
  <1>3. ASSUME NEW k \in Keys, NEW id \in PetIds, Binds("api", k, id) PROVE OfApi!Next
    BY <1>3 DEF Binds, OfApi!Next, OfApi!Bind, OfApi!BindAndAnswer
  <1>4. CASE Forgets("api")
    BY <1>4 DEF Forgets, OfApi!Next, OfApi!Forget
  <1> QED BY <1>1, <1>2, <1>3, <1>4 DEF StoreStep

LEMMA WorkerStep == StoreStep("worker") => [OfWorker!Next]_(OfWorker!regVars)
  <1> SUFFICES ASSUME StoreStep("worker") PROVE [OfWorker!Next]_(OfWorker!regVars)
    OBVIOUS
  <1>1. CASE Same("worker")
    BY <1>1 DEF Same, OfWorker!regVars
  <1>2. ASSUME NEW k \in Keys, Answers("worker", k) PROVE OfWorker!Next
    BY <1>2 DEF Answers, OfWorker!Next, OfWorker!Answer
  <1>3. ASSUME NEW k \in Keys, NEW id \in PetIds, Binds("worker", k, id) PROVE OfWorker!Next
    BY <1>3 DEF Binds, OfWorker!Next, OfWorker!Bind, OfWorker!BindAndAnswer
  <1>4. CASE Forgets("worker")
    BY <1>4 DEF Forgets, OfWorker!Next, OfWorker!Forget
  <1> QED BY <1>1, <1>2, <1>3, <1>4 DEF StoreStep

(* Whatever processes die, fall back and come back, inline or through      *)
(* Temporal: each store, for as long as it lives, binds a key once, and    *)
(* all answers for its pets are for that binding.                          *)
THEOREM RegistriesImplemented == Spec => ImplementsRegistry
  <1>1. Init => Database!Init /\ OfApi!Init /\ OfWorker!Init
    BY DEF Init, Stores, Database!Init, OfApi!Init, OfWorker!Init
  <1>2. TypeOK /\ DeploymentInv /\ [Next]_vars =>
           /\ [Database!Next]_(Database!regVars)
           /\ [OfApi!Next]_(OfApi!regVars)
           /\ [OfWorker!Next]_(OfWorker!regVars)
    BY StoreSteps, DatabaseStep, ApiStep, WorkerStep DEF Stores
  <1> QED BY <1>1, <1>2, DeploymentInvariant, PTL
             DEF Spec, ImplementsRegistry, Database!Spec, OfApi!Spec, OfWorker!Spec
=============================================================================
