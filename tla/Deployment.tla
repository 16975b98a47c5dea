----------------------------- MODULE Deployment -----------------------------
(***************************************************************************)
(* The processes of a deployment around their shared services: the API     *)
(* and the worker start, connect to Postgres or fall back to memory for    *)
(* the rest of their lives, migrate (the API only), reach Temporal or give *)
(* up, serve, die and are started again.  A client creates pets under a    *)
(* key, and each process works on the store it was wired to: Postgres, or  *)
(* the memory it loses when it ends.                                       *)
(*                                                                         *)
(* Postgres is away whenever it likes: any statement may fail.  The races  *)
(* of one creation with another are in PetService and PetWorkflow; AddPet  *)
(* and each activity are one step here, with all their outcomes, and all   *)
(* requests under one key carry one payload without an id.                 *)
(***************************************************************************)
EXTENDS Naturals

CONSTANTS Clients,        \* concurrent POST /pet requests
          Keys,           \* values of the Idempotency-Key header
          NoRecord,       \* "the key is free"
          MaxId,          \* the sequence gives out 1..MaxId (a bound)
          Attempts        \* MaximumAttempts of an activity (5 and 3)

Processes == {"api", "worker"}
Stores    == {"postgres", "api", "worker"}  \* the database, the memory of each process
PetIds    == 0 .. MaxId
(* Of AutoMigrate's five tables, in its order, those a keyed create needs. *)
Tables    == {"pets", "pet_idempotency_keys"}
NoRun     == [stage |-> "closed", attempt |-> 0, beaten |-> FALSE,
              pet |-> 0, store |-> "lost", wired |-> FALSE]

ASSUME DeploymentAssumption ==
    /\ MaxId \in Nat \ {0} /\ Attempts \in Nat \ {0}
    /\ NoRecord \notin PetIds

VARIABLES
    inline,   \* TEMPORAL_DISABLED, the same at every start of the API
    partner,  \* PARTNER_API_BASE_URL is set
    up,       \* Temporal can be reached
    tables,   \* the tables there are
    phase,    \* how far each process is with its start
    db,       \* the process is connected to Postgres
    pets, seq, keys, \* the pets of each store, the sequence, the keys of each store
    run,      \* the execution of each key, kept by Temporal
    pc, key,  \* the requests: the next call, the key
    answered, \* history: the pets of each store a key was answered 200 with
    deleted   \* history: the pets deleted from each store

processes == <<phase, db>>
stores    == <<pets, seq, keys, deleted>>
requests  == <<pc, key, answered>>
config    == <<inline, partner>>
vars == <<inline, partner, up, tables, phase, db, pets, seq, keys, run, pc, key, answered, deleted>>

Init ==
    /\ inline \in BOOLEAN /\ partner \in BOOLEAN
    /\ up \in BOOLEAN
    /\ tables = {}
    /\ phase = [p \in Processes |-> "down"]
    /\ db = [p \in Processes |-> FALSE]
    /\ pets = [s \in Stores |-> {}]
    /\ seq = 0
    /\ keys = [s \in Stores |-> [k \in Keys |-> NoRecord]]
    /\ run = [k \in Keys |-> NoRun]
    /\ pc = [c \in Clients |-> "idle"]
    /\ key \in [Clients -> Keys]
    /\ answered = [s \in Stores |-> [k \in Keys |-> {}]]
    /\ deleted = [s \in Stores |-> {}]

-----------------------------------------------------------------------------
(* Starting a process                                                      *)

MoveTo(p, next) == phase' = [phase EXCEPT ![p] = next]

(* The process ends with its memory, the API with its requests, too.  What *)
(* an execution has from the worker's memory is nobody's any more.         *)
Exit(p) ==
    /\ MoveTo(p, "down")
    /\ db' = [db EXCEPT ![p] = FALSE]
    /\ pets' = [pets EXCEPT ![p] = {}]
    /\ deleted' = [deleted EXCEPT ![p] = {}]
    /\ keys' = [keys EXCEPT ![p] = [k \in Keys |-> NoRecord]]
    /\ answered' = [answered EXCEPT ![p] = [k \in Keys |-> {}]]
    /\ run' = [k \in Keys |-> IF run[k].store = p THEN [run[k] EXCEPT !.store = "lost"]
                                                  ELSE run[k]]
    /\ pc' = IF p = "api" THEN [c \in Clients |-> "idle"] ELSE pc
    /\ UNCHANGED <<config, up, tables, seq, key>>

(* Mutant: the API leaves the tables to others, as the worker does.        *)
NeverMigrates(p, reached) == "dial"
AfterConnect(p, reached) == IF p = "api" /\ reached THEN "migrate" ELSE "dial"

(* POSTGRES_DSN is unset, or the one ping fails or succeeds: for as long   *)
(* as it lives the process does not try again.                             *)
Start(p) ==
    /\ phase[p] = "down"
    /\ \E reached \in BOOLEAN :
         /\ db' = [db EXCEPT ![p] = reached]
         /\ MoveTo(p, AfterConnect(p, reached))
    /\ UNCHANGED <<config, up, tables, stores, run, requests>>

(* Mutant: the tables are made anew.                                       *)
RecreatedRows == {}
(* AutoMigrate adds what is missing, one table after the other, and may    *)
(* end between two of them (GiveUp, Crash).                                *)
MigratedRows == pets["postgres"]

Migrate ==
    /\ phase["api"] = "migrate"
    /\ \/ /\ "pets" \notin tables
          /\ tables' = {"pets"}
          /\ UNCHANGED phase
       \/ /\ "pets" \in tables
          /\ tables' = Tables
          /\ MoveTo("api", "dial")
    /\ pets' = [pets EXCEPT !["postgres"] = MigratedRows]
    /\ UNCHANGED <<config, up, db, seq, keys, deleted, run, requests>>

Dials(p) == p = "worker" \/ ~inline

Dial(p) ==
    /\ phase[p] = "dial"
    /\ Dials(p) => up
    /\ MoveTo(p, "serving")
    /\ UNCHANGED <<config, up, tables, db, stores, run, requests>>

(* Neither a failed migration nor an unreachable Temporal is survived.     *)
GiveUp(p) ==
    /\ phase[p] = "migrate" \/ (phase[p] = "dial" /\ Dials(p))
    /\ Exit(p)

Crash(p) == phase[p] # "down" /\ Exit(p)

(* Temporal goes away, or comes back with its executions.                  *)
Toggle ==
    /\ up' = ~up
    /\ UNCHANGED <<config, tables, processes, stores, run, requests>>

-----------------------------------------------------------------------------
(* The stores                                                              *)

(* What buildPetRepository and buildPetIdempotencyStore hand out.          *)
PetStore(p) == IF db[p] THEN "postgres" ELSE p

(* Mutant: the keys stay in memory.                                        *)
KeysInMemory(p) == p
KeyStore(p) == IF db[p] THEN "postgres" ELSE p

(* In Postgres a keyed create works once both tables are there: it begins  *)
(* with the second one.                                                    *)
Migrated == tables = Tables
Works(p) == db[p] => Migrated

Bound(p, k) == keys[KeyStore(p)][k]

(* Service.AddPet under a free key: the pet is saved and, unless a         *)
(* statement fails in between, its key recorded.                           *)
SaveNew(p, k, id, recorded) ==
    /\ Works(p) /\ Bound(p, k) = NoRecord
    /\ id = IF db[p] THEN seq + 1 ELSE 0
    /\ id \in PetIds
    /\ recorded \/ db[p]
    /\ pets' = [pets EXCEPT ![PetStore(p)] = @ \cup {id}]
    /\ deleted' = [deleted EXCEPT ![PetStore(p)] = @ \ {id}]
    /\ seq' = IF db[p] THEN id ELSE seq
    /\ keys' = IF recorded THEN [keys EXCEPT ![KeyStore(p)][k] = id] ELSE keys

Replays(p, k) == Works(p) /\ Bound(p, k) # NoRecord /\ Bound(p, k) \in pets[PetStore(p)]

-----------------------------------------------------------------------------
(* Requests                                                                *)

GoTo(c, place) == pc' = [pc EXCEPT ![c] = place]

(* A pet of the worker's lost memory is noted nowhere.                     *)
Note(store, k, pet) ==
    answered' = [s \in Stores |-> [answered[s] EXCEPT ![k] = IF s = store THEN @ \cup {pet} ELSE @]]

AddPet(c) ==
    /\ phase["api"] = "serving" /\ pc[c] = "idle"
    /\ \E k \in Keys : key' = [key EXCEPT ![c] = k]
    /\ GoTo(c, "lookup")
    /\ UNCHANGED <<config, up, tables, processes, stores, run, answered>>

Replay(c) ==
    /\ Replays("api", key[c])
    /\ Note(PetStore("api"), key[c], Bound("api", key[c]))
    /\ GoTo(c, "idle")

(* The pet of the record was deleted, or a statement fails.                *)
Fail(c) ==
    /\ db["api"] \/ (Bound("api", key[c]) # NoRecord /\ ~Replays("api", key[c]))
    /\ GoTo(c, "idle")
    /\ UNCHANGED answered

HandlerLookup(c) ==
    /\ pc[c] = "lookup"
    /\ \/ Replay(c) \/ Fail(c)
       \/ /\ Works("api") /\ Bound("api", key[c]) = NoRecord
          /\ GoTo(c, IF inline THEN "add" ELSE "start")
          /\ UNCHANGED answered
    /\ UNCHANGED <<config, up, tables, processes, stores, run, key>>

(* InlinePetWorkflows calls the API's own service.  A partner's failure    *)
(* comes after the record.                                                 *)
AddInline(c) ==
    /\ pc[c] = "add"
    /\ \/ (Replay(c) \/ Fail(c)) /\ UNCHANGED stores
       \/ \E id \in PetIds, recorded \in BOOLEAN :
            /\ SaveNew("api", key[c], id, recorded)
            /\ GoTo(c, "idle")
            /\ \/ recorded /\ Note(PetStore("api"), key[c], id)
               \/ (recorded => partner) /\ UNCHANGED answered
    /\ UNCHANGED <<config, up, tables, processes, run, key>>

(* TemporalPetWorkflows starts an execution or joins the one that runs,    *)
(* and then waits for its result.                                          *)
ExecuteWorkflow(c) ==
    /\ pc[c] = "start"
    /\ IF up
         THEN /\ GoTo(c, "waiting")
              /\ run' = IF run[key[c]].stage = "closed"
                          THEN [run EXCEPT ![key[c]] = [NoRun EXCEPT
                                    !.stage = "persist", !.attempt = 1, !.wired = db["api"]]]
                          ELSE run
         ELSE GoTo(c, "idle") /\ UNCHANGED run
    /\ UNCHANGED <<config, up, tables, processes, stores, key, answered>>

(* The client leaves, or a call fails.                                     *)
RequestFails(c) ==
    /\ pc[c] # "idle"
    /\ GoTo(c, "idle")
    /\ UNCHANGED <<config, up, tables, processes, stores, run, key, answered>>

DeletePet ==
    /\ phase["api"] = "serving" /\ Works("api")
    /\ \E id \in pets[PetStore("api")] :
         /\ pets' = [pets EXCEPT ![PetStore("api")] = @ \ {id}]
         /\ deleted' = [deleted EXCEPT ![PetStore("api")] = @ \cup {id}]
    /\ UNCHANGED <<config, up, tables, processes, seq, keys, run, requests>>

-----------------------------------------------------------------------------
(* Executions                                                              *)

Waiting(k) == {c \in Clients : pc[c] = "waiting" /\ key[c] = k}

Close(k) ==
    /\ run' = [run EXCEPT ![k] = NoRun]
    /\ pc' = [c \in Clients |-> IF c \in Waiting(k) THEN "idle" ELSE pc[c]]
    /\ UNCHANGED key

(* Mutants: attempts are not counted; the policy's limit is left out.      *)
RetryUncounted(k, beaten) == UNCHANGED <<run, requests>>
RetryUnlimited(k, beaten) == run' = [run EXCEPT ![k].attempt = @ + 1] /\ UNCHANGED requests
(* The attempt failed or its result was lost; its heartbeat is kept.       *)
Retry(k, beaten) ==
    IF run[k].attempt < Attempts
      THEN /\ run' = [run EXCEPT ![k].attempt = @ + 1, ![k].beaten = beaten]
           /\ UNCHANGED requests
      ELSE Close(k) /\ UNCHANGED answered

Persisted(k, id) ==
    /\ run' = [run EXCEPT ![k] = [@ EXCEPT !.stage = "sync", !.attempt = 1,
                                           !.pet = id, !.store = PetStore("worker")]]
    /\ UNCHANGED requests

Performs(k, stage) ==
    /\ run[k].stage = stage
    /\ phase["worker"] = "serving" /\ up
    /\ UNCHANGED <<config, up, tables, processes>>

PersistPet(k) ==
    /\ Performs(k, "persist")
    /\ \/ Retry(k, FALSE) /\ UNCHANGED stores
       \/ /\ Replays("worker", k)
          /\ Persisted(k, Bound("worker", k))
          /\ UNCHANGED stores
       \/ \E id \in PetIds, recorded \in BOOLEAN :
            /\ SaveNew("worker", k, id, recorded)
            /\ (recorded /\ Persisted(k, id)) \/ Retry(k, FALSE)

(* Without a partner, or after a heartbeat, there is nothing left to do;   *)
(* the pet is looked for where the worker is wired to by now.              *)
Skips(k)  == ~partner \/ run[k].beaten
Finds(k)  == /\ db["worker"] => "pets" \in tables
             /\ run[k].pet \in pets[PetStore("worker")]

SyncPetWithPartner(k) ==
    /\ Performs(k, "sync")
    /\ \/ \E beaten \in {run[k].beaten, Skips(k) \/ Finds(k)} : Retry(k, partner /\ beaten)
       \/ /\ Skips(k) \/ Finds(k)
          /\ IF Waiting(k) = {} THEN UNCHANGED answered ELSE Note(run[k].store, k, run[k].pet)
          /\ Close(k)
    /\ UNCHANGED stores

-----------------------------------------------------------------------------
Serve(c) == HandlerLookup(c) \/ AddInline(c) \/ ExecuteWorkflow(c)
Work(k)  == PersistPet(k) \/ SyncPetWithPartner(k)

Next ==
    \/ \E p \in Processes : Start(p) \/ Dial(p) \/ GiveUp(p) \/ Crash(p)
    \/ Migrate
    \/ Toggle
    \/ \E c \in Clients : AddPet(c) \/ Serve(c) \/ RequestFails(c)
    \/ \E k \in Keys : Work(k)
    \/ DeletePet

Spec == Init /\ [][Next]_vars

(* A serving API goes on with its requests and a serving worker with the   *)
(* tasks Temporal hands it.  No process is promised to be started again    *)
(* and no service to come back.                                            *)
FairSpec == Spec /\ (\A c \in Clients : WF_vars(Serve(c))) /\ (\A k \in Keys : WF_vars(Work(k)))

-----------------------------------------------------------------------------
(* What is checked                                                         *)

(* Every variable keeps its type; attempts stay within the policy.         *)
TypeOK ==
    /\ inline \in BOOLEAN /\ partner \in BOOLEAN /\ up \in BOOLEAN
    /\ tables \in SUBSET Tables
    /\ phase \in [Processes -> {"down", "migrate", "dial", "serving"}]
    /\ db \in [Processes -> BOOLEAN]
    /\ pets \in [Stores -> SUBSET PetIds]
    /\ seq \in PetIds
    /\ keys \in [Stores -> [Keys -> PetIds \cup {NoRecord}]]
    /\ run \in [Keys -> [stage : {"closed", "persist", "sync"}, attempt : 0 .. Attempts,
                         beaten : BOOLEAN, pet : PetIds, store : Stores \cup {"lost"},
                         wired : BOOLEAN]]
    /\ pc \in [Clients -> {"idle", "lookup", "add", "start", "waiting"}]
    /\ key \in [Clients -> Keys]
    /\ answered \in [Stores -> [Keys -> SUBSET PetIds]]
    /\ deleted \in [Stores -> SUBSET PetIds]

(* Each store, for as long as it lives, binds a key once, and whatever     *)
(* processes die, fall back or come back in between, inline or through     *)
(* Temporal, all answers for its pets are for that binding: a second pet   *)
(* under a key means a second store.                                       *)
Database == INSTANCE KeyRegistry WITH Records <- PetIds, Durable <- TRUE,
                bound <- keys["postgres"], answered <- answered["postgres"]
OfApi    == INSTANCE KeyRegistry WITH Records <- PetIds, Durable <- FALSE,
                bound <- keys["api"], answered <- answered["api"]
OfWorker == INSTANCE KeyRegistry WITH Records <- PetIds, Durable <- FALSE,
                bound <- keys["worker"], answered <- answered["worker"]
ImplementsRegistry == Database!Spec /\ OfApi!Spec /\ OfWorker!Spec

(* A pet answered 200 is in the store it was answered from until it is     *)
(* deleted there, through every start and migration of the processes.      *)
AnsweredPetsAreStored ==
    \A s \in Stores, k \in Keys : answered[s][k] \subseteq pets[s] \cup deleted[s]

(* Only the API migrates, and the worker may be up before it: still, no    *)
(* execution started by an API in Postgres meets a database that lacks a   *)
(* table, and an API whose /readyz answers 200 can serve.                 *)
Ready ==
    /\ phase["api"] = "serving"
    /\ ~inline => up
CreationsFindTables ==
    /\ Ready => Works("api")
    /\ \A k \in Keys : run[k].stage # "closed" /\ run[k].wired => Migrated

(* Callers wait without a timeout of their own, and yet every one is       *)
(* answered once the worker and Temporal stay: even when Postgres never    *)
(* comes back, or has no tables, the attempts run out.                     *)
Away == phase["worker"] # "serving" \/ ~up
CallersAreAnswered ==
    \A c \in Clients : []<>Away \/ (pc[c] # "idle" ~> pc[c] = "idle")

=============================================================================
