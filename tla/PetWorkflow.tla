---------------------------- MODULE PetWorkflow -----------------------------
(***************************************************************************)
(* Creating pets through Temporal.  The API's handler looks the key up and *)
(* starts (or joins) a workflow execution; a worker performs its two       *)
(* activities, PersistPet and SyncPetWithPartner, in attempts that may     *)
(* fail, time out or die with the worker at every step.  API and worker    *)
(* share one Postgres.                                                     *)
(*                                                                         *)
(* An execution is named by its workflow id: the hashed key of a keyed     *)
(* request, a fresh id (the client's own name here) for any other.  What   *)
(* the Temporal server does (one running execution per id, one attempt at  *)
(* a time, retries up to the policy's limit) is its contract, not code of  *)
(* this repository.  An attempt's context ends with its timeout, so that a *)
(* lost attempt makes no further call.                                     *)
(***************************************************************************)
EXTENDS Naturals, FiniteSets

CONSTANTS Clients,         \* concurrent POST /pet requests
          MaxId,           \* ids are 1..MaxId (a bound); 0 is "no id given"
          Keys, NoKey,     \* values of the Idempotency-Key header, and none
          Names,           \* the pet data the model tells apart
          Invalid,         \* a payload the aggregate refuses
          NoPet, NoRecord, \* no row in the pets table, in the key table
          NoHash,          \* no partner_sync_hash attribute
          PersistAttempts, \* MaximumAttempts of persistOptions (5)
          SyncAttempts,    \* MaximumAttempts of syncOptions (3)
          PartnerEnabled,  \* the worker has a PartnerSync
          Issued,          \* the requests clients make (a bound)
          Others           \* what the API does to pets meanwhile (a bound)

PetIds   == 0 .. MaxId
Hashes   == {NoHash} \cup (Names \X {0, 1})
Pet      == [name : Names, hash : Hashes]
MaybePet == Pet \cup {NoPet}
Request  == [key : Keys \cup {NoKey}, id : PetIds, body : Names \cup {Invalid}]
NoReq    == [key |-> NoKey, id |-> 0, body |-> Invalid]
Held     == [id : PetIds, pet : MaybePet]
NoHeld   == [id |-> 0, pet |-> NoPet]
Flows    == Keys \cup Clients

Fingerprint(r) == <<r.id, r.body>>
Record == [hash : PetIds \X (Names \cup {Invalid}), pet : PetIds]

PersistStages == {"persistTask", "lookup", "replay", "save", "reread", "record", "persisted"}
SyncStages    == {"syncTask", "load", "send", "mark", "remark", "beat", "synced"}
Stages        == {"closed"} \cup PersistStages \cup SyncStages
Queued        == {"closed", "persistTask", "syncTask"}
PCs           == {"idle", "handlerLookup", "reload", "start", "waiting"}
Codes         == {"none", "ok", "notFound", "conflict", "failed"}

ASSUME WorkflowAssumption ==
    /\ MaxId \in Nat \ {0}
    /\ PersistAttempts \in Nat \ {0}
    /\ SyncAttempts \in Nat \ {0}
    /\ NoKey \notin Flows
    /\ Keys \cap Clients = {}
    /\ Invalid \notin Names
    /\ NoPet \notin Pet
    /\ NoRecord \notin Record
    /\ NoHash \notin Names \X {0, 1}
    /\ PartnerEnabled \in BOOLEAN
    /\ Issued \subseteq Request
    /\ Others \subseteq {"UpdatePet", "DeletePet"}

VARIABLES
    pets, seq, idem, \* the shared database: pets, their id sequence, keys
    partner,    \* the title the partner was last told for each id
    pc,         \* the next shared call of each API request
    req,        \* the request being served
    reply,      \* the last answer given to each client
    stage,      \* the next step of each execution, "closed" when none runs
    attempt,    \* the attempt of its current activity
    input,      \* the request it was started with
    made,       \* the pet its PersistPet returned, 0 until then
    beaten,     \* the heartbeat details say Completed
    held,       \* the aggregate in the attempt's (or handler's) hands
    answered,   \* history: the pets each key was answered 200 with
    chosen,     \* history: the ids clients chose, until they are given out
    deleted,    \* history: the ids whose pet was deleted and not saved again
    overtaken   \* history: others wrote or synced made[f] since it was loaded

store   == <<pets, seq, idem, chosen, deleted>>
api     == <<pc, req, reply, answered>>
run     == <<attempt, input, made, beaten>>
vars    == <<pets, seq, idem, partner, pc, req, reply, stage, attempt, input, made,
             beaten, held, answered, chosen, deleted, overtaken>>

Init ==
    /\ pets = [i \in PetIds |-> NoPet]
    /\ seq = 0
    /\ idem = [k \in Keys |-> NoRecord]
    /\ partner = [i \in PetIds |-> NoPet]
    /\ pc = [c \in Clients |-> "idle"]
    /\ req = [c \in Clients |-> NoReq]
    /\ reply = [c \in Clients |-> "none"]
    /\ stage = [f \in Flows |-> "closed"]
    /\ attempt = [f \in Flows |-> 0]
    /\ input = [f \in Flows |-> NoReq]
    /\ made = [f \in Flows |-> 0]
    /\ beaten = [f \in Flows |-> FALSE]
    /\ held = [f \in Flows |-> NoHeld]
    /\ answered = [k \in Keys |-> {}]
    /\ chosen = {} /\ deleted = {}
    /\ overtaken = [f \in Flows |-> FALSE]

-----------------------------------------------------------------------------
(* The API's handler                                                       *)

Keyed(r) == r.key # NoKey
FlowOf(c) == IF Keyed(req[c]) THEN req[c].key ELSE c

GoTo(c, place) == pc' = [pc EXCEPT ![c] = place]

Answer(c, code) ==
    /\ GoTo(c, "idle")
    /\ req' = [req EXCEPT ![c] = NoReq]
    /\ reply' = [reply EXCEPT ![c] = code]

(* Bound: a client whose own unkeyed execution still runs waits for it.    *)
AddPet(c) ==
    /\ pc[c] = "idle"
    /\ \E r \in Issued :
         /\ ~Keyed(r) => stage[c] = "closed"
         /\ req' = [req EXCEPT ![c] = r]
         /\ GoTo(c, IF Keyed(r) THEN "handlerLookup" ELSE "start")
    /\ reply' = [reply EXCEPT ![c] = "none"]
    /\ UNCHANGED <<store, partner, stage, run, held, answered, overtaken>>

HandlerLookup(c) ==
    /\ pc[c] = "handlerLookup"
    /\ LET record == idem[req[c].key] IN
       \/ record = NoRecord /\ GoTo(c, "start") /\ UNCHANGED <<req, reply>>
       \/ /\ record # NoRecord /\ record.hash # Fingerprint(req[c])
          /\ Answer(c, "conflict")
       \/ /\ record # NoRecord /\ record.hash = Fingerprint(req[c])
          /\ GoTo(c, "reload") /\ UNCHANGED <<req, reply>>
    /\ UNCHANGED <<store, partner, stage, run, held, answered, overtaken>>

(* The handler replays the pet of the record it looked up: records never   *)
(* change.                                                                 *)
Reload(c) ==
    /\ pc[c] = "reload"
    /\ LET key == req[c].key
           pet == idem[key].pet IN
       IF pets[pet] = NoPet
         THEN Answer(c, "notFound") /\ UNCHANGED answered
         ELSE Answer(c, "ok") /\ answered' = [answered EXCEPT ![key] = @ \cup {pet}]
    /\ UNCHANGED <<store, partner, stage, run, held, overtaken>>

(* ExecuteWorkflow starts an execution, or joins the one that runs under   *)
(* the same id, whatever that one's input is.                              *)
Start(c) ==
    /\ pc[c] = "start"
    /\ GoTo(c, "waiting")
    /\ LET f == FlowOf(c) IN
       \/ /\ stage[f] = "closed"
          /\ stage' = [stage EXCEPT ![f] = "persistTask"]
          /\ attempt' = [attempt EXCEPT ![f] = 1]
          /\ input' = [input EXCEPT ![f] = req[c]]
          /\ UNCHANGED <<made, beaten>>
       \/ /\ stage[f] # "closed"
          /\ UNCHANGED <<stage, run>>
    /\ UNCHANGED <<store, partner, req, reply, held, answered, overtaken>>

(* A statement or the start fails, the client leaves, or the API dies: the *)
(* execution, once started, goes on.                                       *)
RequestFails(c) ==
    /\ pc[c] # "idle"
    /\ Answer(c, "failed")
    /\ UNCHANGED <<store, partner, stage, run, held, answered, overtaken>>

-----------------------------------------------------------------------------
(* Executions                                                              *)

Waiting(f) == {c \in Clients : pc[c] = "waiting" /\ FlowOf(c) = f}

(* The execution ends and everyone who waits for it is answered.           *)
Close(f, code) ==
    /\ stage' = [stage EXCEPT ![f] = "closed"]
    /\ attempt' = [attempt EXCEPT ![f] = 0]
    /\ input' = [input EXCEPT ![f] = NoReq]
    /\ made' = [made EXCEPT ![f] = 0]
    /\ beaten' = [beaten EXCEPT ![f] = FALSE]
    /\ held' = [held EXCEPT ![f] = NoHeld]
    /\ overtaken' = [overtaken EXCEPT ![f] = FALSE]
    /\ pc' = [c \in Clients |-> IF c \in Waiting(f) THEN "idle" ELSE pc[c]]
    /\ req' = [c \in Clients |-> IF c \in Waiting(f) THEN NoReq ELSE req[c]]
    /\ reply' = [c \in Clients |-> IF c \in Waiting(f) THEN code ELSE reply[c]]

SyncPhase(f) == stage[f] \in SyncStages
Limit(f)     == IF SyncPhase(f) THEN SyncAttempts ELSE PersistAttempts
Task(f)      == IF SyncPhase(f) THEN "syncTask" ELSE "persistTask"

(* Mutant: attempts are not counted.                                       *)
RetryUncounted(f) ==
    /\ stage' = [stage EXCEPT ![f] = Task(f)]
    /\ held' = [held EXCEPT ![f] = NoHeld]
    /\ UNCHANGED <<api, run, overtaken>>

(* The attempt failed; every error is retryable.                           *)
Retry(f) ==
    IF attempt[f] < Limit(f)
      THEN /\ stage' = [stage EXCEPT ![f] = Task(f)]
           /\ attempt' = [attempt EXCEPT ![f] = @ + 1]
           /\ held' = [held EXCEPT ![f] = NoHeld]
           /\ UNCHANGED <<api, input, made, beaten, overtaken>>
      ELSE Close(f, "failed") /\ UNCHANGED answered

(* A call fails, the attempt times out, or the worker dies: what the       *)
(* attempt did so far stays done.                                          *)
AttemptFails(f) ==
    /\ stage[f] \notin Queued
    /\ Retry(f)
    /\ UNCHANGED <<store, partner>>

Step(f, next) ==
    /\ stage' = [stage EXCEPT ![f] = next]
    /\ UNCHANGED <<api, run>>

(* History: f (or the API) writes row i or tells the partner about it.     *)
Overtakes(f, i) ==
    overtaken' = [g \in Flows |-> overtaken[g] \/ (g # f /\ SyncPhase(g) /\ made[g] = i)]

-----------------------------------------------------------------------------
(* PersistPet: AddPet of a service without partner                         *)

KeyRecord(f) == idem[input[f].key]

PersistStart(f) ==
    /\ stage[f] = "persistTask"
    /\ Step(f, IF Keyed(input[f]) THEN "lookup" ELSE "save")
    /\ UNCHANGED <<store, partner, held, overtaken>>

(* Mutant: a key bound to another payload is taken for a free one.         *)
FreeOrOther(f) == KeyRecord(f) # NoRecord => KeyRecord(f).hash # Fingerprint(input[f])
Free(f) == KeyRecord(f) = NoRecord

(* A mismatch is an error like any other: it is retried, and surfaces as   *)
(* the failure of the workflow.                                            *)
PersistLookup(f) ==
    /\ stage[f] = "lookup"
    /\ \/ Free(f) /\ Step(f, "save") /\ UNCHANGED <<held, overtaken>>
       \/ ~Free(f) /\ KeyRecord(f).hash # Fingerprint(input[f]) /\ Retry(f)
       \/ /\ ~Free(f) /\ KeyRecord(f).hash = Fingerprint(input[f])
          /\ Step(f, "replay")
          /\ held' = [held EXCEPT ![f] = [id |-> KeyRecord(f).pet, pet |-> NoPet]]
          /\ UNCHANGED overtaken
    /\ UNCHANGED <<store, partner>>

ReadBack(f, here, next) ==
    /\ stage[f] = here
    /\ LET row == pets[held[f].id] IN
       IF row = NoPet THEN Retry(f)
       ELSE /\ Step(f, next)
            /\ held' = [held EXCEPT ![f] = [id |-> held[f].id, pet |-> row]]
            /\ UNCHANGED overtaken
    /\ UNCHANGED <<store, partner>>

PersistReplay(f) == ReadBack(f, "replay", "persisted")

(* Mutant: nothing is validated.                                           *)
NeverRefused(f) == FALSE
Refused(f) == input[f].body = Invalid

(* A refused payload too is retried, and surfaces as a failure.            *)
PersistRefuse(f) ==
    /\ stage[f] = "save" /\ Refused(f)
    /\ Retry(f)
    /\ UNCHANGED <<store, partner>>

(* Mutant: ids are given out from the sequence, which stays where it was.   *)
Unadvanced(f) == seq
(* Explicit ids do not advance the sequence.                               *)
Advanced(f) == IF input[f].id = 0 THEN seq + 1 ELSE seq

PersistSave(f) ==
    /\ stage[f] = "save" /\ ~Refused(f)
    /\ LET pet == [name |-> input[f].body, hash |-> NoHash]
           id  == IF input[f].id = 0 THEN seq + 1 ELSE input[f].id IN
       /\ id \in PetIds
       /\ seq' = Advanced(f)
       /\ chosen' = IF input[f].id = 0 THEN chosen \ {id} ELSE chosen \cup {id}
       /\ deleted' = deleted \ {id}
       /\ pets' = [pets EXCEPT ![id] = pet]
       /\ held' = [held EXCEPT ![f] = [id |-> id, pet |-> pet]]
       /\ Overtakes(f, id)
    /\ stage' = [stage EXCEPT ![f] = "reread"]
    /\ UNCHANGED <<idem, partner, api, attempt, input, made, beaten>>

PersistReread(f) ==
    ReadBack(f, "reread", IF Keyed(input[f]) THEN "record" ELSE "persisted")

(* Mutant: the record names the id of the request.                         *)
RecordOfInput(f) == [hash |-> Fingerprint(input[f]), pet |-> input[f].id]
NewRecord(f) == [hash |-> Fingerprint(input[f]), pet |-> held[f].id]

(* The key is still free: no other attempt runs under it (KeyIsFree).      *)
PersistRecord(f) ==
    /\ stage[f] = "record"
    /\ idem' = [idem EXCEPT ![input[f].key] = NewRecord(f)]
    /\ Step(f, "persisted")
    /\ UNCHANGED <<pets, seq, chosen, deleted, partner, held, overtaken>>

(* The attempt reports its projection and the sequence goes on.            *)
Persisted(f) ==
    /\ stage[f] = "persisted"
    /\ stage' = [stage EXCEPT ![f] = "syncTask"]
    /\ attempt' = [attempt EXCEPT ![f] = 1]
    /\ made' = [made EXCEPT ![f] = held[f].id]
    /\ held' = [held EXCEPT ![f] = NoHeld]
    /\ UNCHANGED <<store, partner, api, input, beaten, overtaken>>

-----------------------------------------------------------------------------
(* SyncPetWithPartner                                                      *)

(* Mutant: any retry takes the sync for done.                              *)
RetriesSkip(f) == ~PartnerEnabled \/ attempt[f] > 1
Skips(f) == ~PartnerEnabled \/ beaten[f]

SyncStart(f) ==
    /\ stage[f] = "syncTask"
    /\ Step(f, IF Skips(f) THEN "synced" ELSE "load")
    /\ UNCHANGED <<store, partner, held, overtaken>>

(* The hash covers the pet's attributes, the stored hash among them, so    *)
(* that it never equals it.  Nested hashes are told apart by parity.       *)
PartnerHash(pet) == <<pet.name, IF pet.hash = NoHash THEN 0 ELSE 1 - pet.hash[2]>>

SyncLoad(f) ==
    /\ stage[f] = "load"
    /\ LET row == pets[made[f]] IN
       IF row = NoPet THEN Retry(f)
       ELSE /\ Step(f, IF row.hash = PartnerHash(row) THEN "synced" ELSE "send")
            /\ held' = [held EXCEPT ![f] = [id |-> made[f], pet |-> row]]
            /\ overtaken' = [overtaken EXCEPT ![f] = FALSE]
    /\ UNCHANGED <<store, partner>>

SyncSend(f) ==
    /\ stage[f] = "send"
    /\ partner' = [partner EXCEPT ![held[f].id] = held[f].pet.name]
    /\ Overtakes(f, held[f].id)
    /\ Step(f, "mark")
    /\ UNCHANGED <<store, held>>

(* Mutant: the pet is rebuilt from the request.                            *)
MarkedRequest(f) == [name |-> input[f].body, hash |-> PartnerHash(held[f].pet)]
(* updatePartnerSyncHash on the aggregate loaded before the partner call.  *)
Marked(f) == [held[f].pet EXCEPT !.hash = PartnerHash(held[f].pet)]

SyncMark(f) ==
    /\ stage[f] = "mark"
    /\ pets' = [pets EXCEPT ![held[f].id] = Marked(f)]
    /\ deleted' = deleted \ {held[f].id}
    /\ Overtakes(f, held[f].id)
    /\ Step(f, "remark")
    /\ UNCHANGED <<seq, idem, chosen, partner, held>>

SyncRemark(f) == ReadBack(f, "remark", "beat")

(* The SDK keeps a failed heartbeat to itself.                             *)
SyncHeartbeat(f) ==
    /\ stage[f] = "beat"
    /\ stage' = [stage EXCEPT ![f] = "synced"]
    /\ \E heard \in BOOLEAN : beaten' = [beaten EXCEPT ![f] = heard]
    /\ UNCHANGED <<store, partner, api, attempt, input, made, held, overtaken>>

(* The last activity reports and the execution completes with the pet.     *)
Synced(f) ==
    /\ stage[f] = "synced"
    /\ answered' = IF f \in Keys /\ Waiting(f) # {}
                     THEN [answered EXCEPT ![f] = @ \cup {made[f]}] ELSE answered
    /\ Close(f, "ok")
    /\ UNCHANGED <<store, partner>>

-----------------------------------------------------------------------------
(* The API's other writers, one step each (PetService takes them apart)    *)

UpdatePet ==
    /\ "UpdatePet" \in Others
    /\ \E i \in PetIds, name \in Names :
         /\ pets[i] # NoPet
         /\ pets' = [pets EXCEPT ![i].name = name]
         /\ \/ UNCHANGED partner
            \/ PartnerEnabled /\ partner' = [partner EXCEPT ![i] = name]
         /\ Overtakes(NoKey, i)
    /\ UNCHANGED <<seq, idem, chosen, deleted, api, stage, run, held>>

DeletePet ==
    /\ "DeletePet" \in Others
    /\ \E i \in PetIds :
         /\ pets[i] # NoPet
         /\ pets' = [pets EXCEPT ![i] = NoPet]
         /\ deleted' = deleted \cup {i}
         /\ Overtakes(NoKey, i)
    /\ UNCHANGED <<seq, idem, chosen, partner, api, stage, run, held>>

-----------------------------------------------------------------------------
Serve(c) == HandlerLookup(c) \/ Reload(c) \/ Start(c)

Work(f) ==
    \/ PersistStart(f) \/ PersistLookup(f) \/ PersistReplay(f) \/ PersistRefuse(f)
    \/ PersistSave(f) \/ PersistReread(f) \/ PersistRecord(f) \/ Persisted(f)
    \/ SyncStart(f) \/ SyncLoad(f) \/ SyncSend(f) \/ SyncMark(f) \/ SyncRemark(f)
    \/ SyncHeartbeat(f) \/ Synced(f) \/ AttemptFails(f)

Next ==
    \/ \E c \in Clients : AddPet(c) \/ Serve(c) \/ RequestFails(c)
    \/ \E f \in Flows : Work(f)
    \/ UpdatePet \/ DeletePet

Spec == Init /\ [][Next]_vars

(* Temporal hands every task to a worker and ends every attempt, by its    *)
(* timeout (one minute, thirty seconds) if nothing else does; the API's    *)
(* goroutines are scheduled as in PetService.                              *)
FairSpec == Spec /\ (\A f \in Flows : WF_vars(Work(f))) /\ (\A c \in Clients : WF_vars(Serve(c)))

-----------------------------------------------------------------------------
(* What is checked                                                         *)

(* Every variable keeps its type; attempts stay within the retry policies. *)
TypeOK ==
    /\ pets \in [PetIds -> MaybePet]
    /\ seq \in PetIds
    /\ idem \in [Keys -> Record \cup {NoRecord}]
    /\ partner \in [PetIds -> Names \cup {NoPet}]
    /\ pc \in [Clients -> PCs]
    /\ req \in [Clients -> Request]
    /\ reply \in [Clients -> Codes]
    /\ stage \in [Flows -> Stages]
    /\ attempt \in [Flows -> Nat]
    /\ \A f \in Flows : attempt[f] <= Limit(f)
    /\ input \in [Flows -> Request]
    /\ made \in [Flows -> PetIds]
    /\ beaten \in [Flows -> BOOLEAN]
    /\ held \in [Flows -> Held]
    /\ answered \in [Keys -> SUBSET PetIds]
    /\ chosen \subseteq PetIds /\ deleted \subseteq PetIds
    /\ overtaken \in [Flows -> BOOLEAN]

(* While an attempt saves and records under a key, the key is free: no     *)
(* retry of a recorded create writes a pet (AddPet's lookup, run again by  *)
(* every attempt).                                                         *)
KeyIsFree ==
    \A k \in Keys : stage[k] \in {"save", "reread", "record"} => idem[k] = NoRecord

(* One key is one pet: handlers that replay and callers of one execution   *)
(* or of several, across lost attempts, are all answered with the pet the  *)
(* key was first bound to.                                                 *)
PetRegistry == INSTANCE KeyRegistry WITH
    Records <- PetIds \ {0}, NoRecord <- 0, Durable <- TRUE,
    bound <- [k \in Keys |-> IF idem[k] = NoRecord THEN 0 ELSE idem[k].pet]
ImplementsPetRegistry == PetRegistry!Spec

(* The pet of a recorded key is there unless it was deleted: attempts lost *)
(* before or after the record, and saves of others, leave no record        *)
(* without its pet, so that a replay answers 404 for deleted pets only.    *)
RecordedPetsExist ==
    \A k \in Keys :
        idem[k] # NoRecord => pets[idem[k].pet] # NoPet \/ idem[k].pet \in deleted

(* The sequence passes over no id that clients choose, so that a creation  *)
(* without an id can overwrite a pet.  It is one whose id a client chose:  *)
(* never the pet of another creation without an id, whether that one's     *)
(* execution completed or was lost.                                        *)
AssignedIdsAreSafe ==
    \A f \in Flows :
        stage[f] = "save" /\ stage'[f] = "reread" /\ input[f].id = 0
          => pets[held'[f].id] = NoPet \/ held'[f].id \in chosen
AssignedIdsOverwriteChosenOnes == [][AssignedIdsAreSafe]_vars

(* An execution about to complete, whose pet nobody else wrote or synced   *)
(* since it was loaded, has told the partner about the pet that is stored, whatever *)
(* attempts were lost and whichever heartbeats arrived.                    *)
CompletedRunsAreSynced ==
    \A f \in Flows :
        stage[f] = "synced" /\ PartnerEnabled /\ ~overtaken[f]
          => pets[made[f]] # NoPet /\ partner[made[f]] = pets[made[f]].name

(* Saving the hash of a pet nobody else wrote since it was loaded changes  *)
(* the hash and nothing else (SyncPetWithPartner saves the whole pet).     *)
MarkIsolated ==
    \A f \in Flows :
        stage[f] = "mark" /\ stage'[f] = "remark" /\ ~overtaken[f]
          => pets[made[f]] # NoPet /\ pets'[made[f]].name = pets[made[f]].name
MarkChangesOnlyTheHash == [][MarkIsolated]_vars

(* Every caller of an execution is answered, in spite of lost attempts.    *)
CallersAreAnswered == \A c \in Clients : pc[c] = "waiting" ~> pc[c] = "idle"

-----------------------------------------------------------------------------
(* What the repository says and the code does not do                       *)

(* README.md:46: under one key "mismatches return HTTP 409".               *)
MismatchIsRefused ==
    [][\A c \in Clients :
         pc[c] = "waiting" /\ Keyed(req[c]) /\ pc'[c] = "idle" /\ reply'[c] = "ok"
           => idem[req[c].key].hash = Fingerprint(req[c])]_vars

(* activities/pets/pet.go:115: the hash is there "to avoid re-sending      *)
(* identical payloads on retries".                                         *)
IdenticalPayloadIsNotResent ==
    \A f \in Flows :
        stage[f] = "send" /\ held[f].pet.hash # NoHash => held[f].pet.hash[1] # held[f].pet.name

=============================================================================
