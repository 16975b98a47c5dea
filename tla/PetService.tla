----------------------------- MODULE PetService -----------------------------
(***************************************************************************)
(* The pets bounded context of the API server when creates run inline (no  *)
(* Temporal): the HTTP handlers of generated/go/api_pet.go, the use cases  *)
(* of internal/domains/pets/application/service.go, one of the two pet     *)
(* repositories (memory or Postgres), the idempotency store of the same    *)
(* backend, and the partner that is told about every saved pet.            *)
(*                                                                         *)
(* Every HTTP request runs in a goroutine of its own.  A client here is    *)
(* one such goroutine: it serves one request after another, and pc[c] is   *)
(* the next call it makes to something shared.  Each such call is a step;  *)
(* between two of them any other request may move.                         *)
(***************************************************************************)
EXTENDS Naturals, FiniteSets

CONSTANTS Clients,        \* concurrent requests
          MaxId,          \* ids are 1..MaxId (a bound); 0 is "no id given"
          Keys, NoKey,    \* values of the Idempotency-Key header, and none
          Names, Lengths, \* the two pet fields the model tells apart
          Keep,           \* a field a partial update leaves out
          Invalid,        \* a payload the aggregate refuses
          NoPet,          \* no row or map entry
          NoRecord,       \* no idempotency record
          Backend,        \* "memory" or "postgres"
          TranslateError, \* gorm.Config.TranslateError of the connection
          PartnerEnabled, \* a PartnerSync is wired
          Ops,            \* the operations clients issue (a bound)
          Creates         \* the key, id and body of the creates among them (a bound)

PetIds == 0 .. MaxId
Pet    == [name : Names, hair : Lengths]
Patch  == [name : Names \cup {Keep}, hair : Lengths \cup {Keep}]
MaybePet == Pet \cup {NoPet}

(* FingerprintAddPet hashes the whole input except the key itself, the id  *)
(* included: two inputs have equal hashes when they are equal.             *)
Fingerprint(r) == <<r.id, r.body>>
Hashes == PetIds \X (Pet \cup {Invalid})
Record == [hash : Hashes, pet : PetIds]

Request ==
    [op : {"add"}, key : Keys \cup {NoKey}, id : PetIds, body : Pet \cup {Invalid}]
      \cup [op : {"update"}, key : {NoKey}, id : PetIds, body : Patch \cup {Invalid}]
NoReq  == [op |-> "none", key |-> NoKey, id |-> 0, body |-> Invalid]
Held   == [id : PetIds, pet : MaybePet]
NoHeld == [id |-> 0, pet |-> NoPet]

AllOps == {"AddPet", "UpdatePet", "UpdatePetWithForm", "GroomPet", "DeletePet"}
PCs    == {"idle", "handlerLookup", "serviceLookup", "reload", "load", "save",
           "reread", "sync", "record", "recheck"}
Codes  == {"none", "ok", "notFound", "invalid", "conflict", "syncFailed", "storeFailed"}

ASSUME ServiceAssumption ==
    /\ MaxId \in Nat \ {0}
    /\ NoKey \notin Keys
    /\ Keep \notin Names \cup Lengths
    /\ Invalid \notin Pet \cup Patch
    /\ NoPet \notin Pet
    /\ NoRecord \notin Record
    /\ Backend \in {"memory", "postgres"}
    /\ TranslateError \in BOOLEAN
    /\ PartnerEnabled \in BOOLEAN
    /\ Ops \subseteq AllOps

VARIABLES
    pets,       \* the repository: the pet stored under each id
    seq,        \* last value of the Postgres sequence behind pets.id
    idem,       \* the idempotency store: the record of each key
    partner,    \* what the partner was last told about each id
    pc,         \* the next shared call of each request
    req,        \* the request being served
    held,       \* the aggregate or projection in the goroutine's hands
    syncFailed, \* the partner call of this create failed
    reply,      \* the last answer given to each client
    answered,   \* history: the records each key was answered 200 for
    stale,      \* history: ids the partner may disagree about
    overtaken,  \* history: someone else wrote held[c].id since c touched it
    late        \* history: the key was already bound when the request came

store   == <<pets, seq, idem>>
local   == <<pc, req, held, syncFailed>>
history == <<answered, stale, overtaken, late>>
vars    == <<pets, seq, idem, partner, pc, req, held, syncFailed, reply,
             answered, stale, overtaken, late>>

Init ==
    /\ pets = [i \in PetIds |-> NoPet]
    /\ seq = 0
    /\ idem = [k \in Keys |-> NoRecord]
    /\ partner = [i \in PetIds |-> NoPet]
    /\ pc = [c \in Clients |-> "idle"]
    /\ req = [c \in Clients |-> NoReq]
    /\ held = [c \in Clients |-> NoHeld]
    /\ syncFailed = [c \in Clients |-> FALSE]
    /\ reply = [c \in Clients |-> "none"]
    /\ answered = [k \in Keys |-> {}]
    /\ stale = {}
    /\ overtaken = [c \in Clients |-> FALSE]
    /\ late = [c \in Clients |-> FALSE]

-----------------------------------------------------------------------------
(* Building blocks                                                         *)

Keyed(c) == req[c].op = "add" /\ req[c].key # NoKey

GoTo(c, place) == pc' = [pc EXCEPT ![c] = place]

(* The handler writes its response and the goroutine ends.                 *)
Answer(c, code) ==
    /\ GoTo(c, "idle")
    /\ req' = [req EXCEPT ![c] = NoReq]
    /\ held' = [held EXCEPT ![c] = NoHeld]
    /\ syncFailed' = [syncFailed EXCEPT ![c] = FALSE]
    /\ late' = [late EXCEPT ![c] = FALSE]
    /\ reply' = [reply EXCEPT ![c] = code]

(* History: a 200 answer to a keyed create, for the pet it returned.       *)
NoteAnswer(c, pet) ==
    answered' = [answered EXCEPT ![req[c].key] =
                    @ \cup {[hash |-> Fingerprint(req[c]), pet |-> pet]}]

(* History: c writes row i; whoever holds a copy of it has been overtaken. *)
Overtakes(c, i) ==
    overtaken' = [d \in Clients |->
        IF d = c THEN FALSE
        ELSE overtaken[d] \/ (pc[d] \in {"save", "sync"} /\ held[d] # NoHeld /\ held[d].id = i)]
CaughtUp(c) == overtaken' = [overtaken EXCEPT ![c] = FALSE]

(* Mutant: a partial update resets the hair length it leaves out.          *)
PatchedFromZero(pet, patch) ==
    [name |-> IF patch.name = Keep THEN pet.name ELSE patch.name,
     hair |-> IF patch.hair = Keep THEN CHOOSE h \in Lengths : TRUE ELSE patch.hair]

(* applyPartialMutation on a loaded pet: fields left out keep their value. *)
Patched(pet, patch) ==
    [name |-> IF patch.name = Keep THEN pet.name ELSE patch.name,
     hair |-> IF patch.hair = Keep THEN pet.hair ELSE patch.hair]

(* The aggregate the use case passes to repo.Save.                         *)
Aggregate(c) ==
    IF req[c].op = "add" THEN [id |-> req[c].id, pet |-> req[c].body]
    ELSE [id |-> held[c].id, pet |-> Patched(held[c].pet, req[c].body)]

-----------------------------------------------------------------------------
(* Requests arrive                                                         *)

Arrive(c, r, place) ==
    /\ pc[c] = "idle"
    /\ GoTo(c, place)
    /\ req' = [req EXCEPT ![c] = r]
    /\ reply' = [reply EXCEPT ![c] = "none"]
    /\ UNCHANGED <<store, partner, held, syncFailed, answered, stale, overtaken>>

(* Bound: creates without an id stop arriving when MaxId would be passed.  *)
SequenceLeft ==
    seq + Cardinality({c \in Clients : req[c].op = "add" /\ req[c].id = 0}) < MaxId

AddPet(c) ==
    /\ "AddPet" \in Ops
    /\ \E key \in Keys \cup {NoKey}, id \in PetIds, body \in Pet \cup {Invalid} :
         /\ [key |-> key, id |-> id, body |-> body] \in Creates
         /\ Backend = "postgres" /\ id = 0 => SequenceLeft
         /\ Arrive(c, [op |-> "add", key |-> key, id |-> id, body |-> body],
                   IF key = NoKey THEN "save" ELSE "handlerLookup")
         /\ late' = [late EXCEPT ![c] = key # NoKey /\ idem[key] # NoRecord]

Update(c, id, body) ==
    /\ Arrive(c, [op |-> "update", key |-> NoKey, id |-> id, body |-> body], "load")
    /\ UNCHANGED late

UpdatePet(c) ==
    /\ "UpdatePet" \in Ops
    /\ \E id \in PetIds, body \in Patch \cup {Invalid} : Update(c, id, body)

(* The form of POST /pet/:petId cannot reach the hair length ...           *)
UpdatePetWithForm(c) ==
    /\ "UpdatePetWithForm" \in Ops
    /\ \E id \in PetIds :
          \/ \E name \in Names \cup {Keep} : Update(c, id, [name |-> name, hair |-> Keep])
          \/ Update(c, id, Invalid)

(* ... and grooming changes nothing else.                                  *)
GroomPet(c) ==
    /\ "GroomPet" \in Ops
    /\ \E id \in PetIds :
          \/ \E hair \in Lengths : Update(c, id, [name |-> Keep, hair |-> hair])
          \/ Update(c, id, Invalid)

(* One repository call: neither the idempotency store nor the partner      *)
(* hears of a deletion.                                                    *)
DeletePet(c) ==
    /\ "DeletePet" \in Ops
    /\ pc[c] = "idle"
    /\ \E id \in PetIds :
         /\ pets' = [pets EXCEPT ![id] = NoPet]
         /\ stale' = stale \ {id}
         /\ IF pets[id] = NoPet THEN Answer(c, "notFound") /\ UNCHANGED overtaken
                                ELSE Answer(c, "ok") /\ Overtakes(c, id)
    /\ UNCHANGED <<seq, idem, partner, answered>>

-----------------------------------------------------------------------------
(* Idempotent replay: the handler looks the key up, and the use case does  *)
(* so once more.                                                           *)

KeyRecord(c) == idem[req[c].key]

(* Mutants: the payload is not compared; a mismatch counts as a free key.  *)
MatchesAny(c) == TRUE
FreeOrOther(c) == KeyRecord(c) # NoRecord => KeyRecord(c).hash # Fingerprint(req[c])

Matches(c) == KeyRecord(c).hash = Fingerprint(req[c])
Free(c)    == KeyRecord(c) = NoRecord

Lookup(c, here, free) ==
    /\ pc[c] = here
    /\ \/ /\ Free(c)
          /\ GoTo(c, free)
          /\ UNCHANGED <<req, held, syncFailed, late, reply>>
       \/ /\ ~Free(c) /\ ~Matches(c)
          /\ Answer(c, "conflict")
       \/ /\ ~Free(c) /\ Matches(c)
          /\ GoTo(c, "reload")
          /\ held' = [held EXCEPT ![c] = [id |-> KeyRecord(c).pet, pet |-> NoPet]]
          /\ UNCHANGED <<req, syncFailed, late, reply>>
    /\ UNCHANGED <<store, partner, answered, stale, overtaken>>

HandlerLookup(c) == Lookup(c, "handlerLookup", "serviceLookup")
ServiceLookup(c) == Lookup(c, "serviceLookup", "save")

(* The replayed pet is read from the repository as it is now.              *)
Reload(c) ==
    /\ pc[c] = "reload"
    /\ IF pets[held[c].id] = NoPet
         THEN Answer(c, "notFound") /\ UNCHANGED answered
         ELSE Answer(c, "ok") /\ NoteAnswer(c, held[c].id)
    /\ UNCHANGED <<store, partner, stale, overtaken>>

-----------------------------------------------------------------------------
(* Load, mutate, save                                                      *)

Load(c) ==
    /\ pc[c] = "load"
    /\ LET id == req[c].id IN
       IF pets[id] = NoPet
         THEN Answer(c, "notFound")
         ELSE /\ GoTo(c, "save")
              /\ held' = [held EXCEPT ![c] = [id |-> id, pet |-> pets[id]]]
              /\ UNCHANGED <<req, syncFailed, late, reply>>
    /\ UNCHANGED <<store, partner, answered, stale, overtaken>>

(* Mutant: nothing is validated.                                           *)
AlwaysValid(c) == TRUE
Valid(c) == req[c].body # Invalid

(* The aggregate refuses the payload before anything is written.           *)
Refuse(c) ==
    /\ pc[c] = "save" /\ ~Valid(c)
    /\ Answer(c, "invalid")
    /\ CaughtUp(c)
    /\ UNCHANGED <<store, partner, answered, stale>>

Write(c, id, pet) ==
    /\ pets' = [pets EXCEPT ![id] = pet]
    /\ held' = [held EXCEPT ![c] = [id |-> id, pet |-> pet]]
    /\ stale' = IF PartnerEnabled THEN stale \cup {id} ELSE stale
    /\ Overtakes(c, id)
    /\ UNCHANGED <<idem, partner, req, syncFailed, reply, answered, late>>

(* The map keeps a pet without id under key 0.                             *)
SaveMemory(c) ==
    /\ Backend = "memory"
    /\ pc[c] = "save" /\ Valid(c)
    /\ Write(c, Aggregate(c).id, Aggregate(c).pet)
    /\ GoTo(c, "sync")
    /\ UNCHANGED seq

(* INSERT ... ON CONFLICT (id) DO UPDATE: the sequence supplies a missing  *)
(* id, and knows nothing of the ids clients chose themselves.              *)
UpsertPostgres(c) ==
    /\ Backend = "postgres"
    /\ pc[c] = "save" /\ Valid(c)
    /\ LET agg == Aggregate(c) IN
       IF agg.id = 0
         THEN seq < MaxId /\ seq' = seq + 1 /\ Write(c, seq + 1, agg.pet)
         ELSE UNCHANGED seq /\ Write(c, agg.id, agg.pet)
    /\ GoTo(c, "reread")

(* Mutant: Save returns what it meant to write.                            *)
SavedCopy(c) == held[c].pet
(* Save returns what a second statement reads back.                        *)
StoredRow(c) == pets[held[c].id]

RereadPostgres(c) ==
    /\ pc[c] = "reread"
    /\ IF StoredRow(c) = NoPet
         THEN Answer(c, "notFound")
         ELSE /\ GoTo(c, "sync")
              /\ held' = [held EXCEPT ![c] = [id |-> held[c].id, pet |-> StoredRow(c)]]
              /\ UNCHANGED <<req, syncFailed, late, reply>>
    /\ CaughtUp(c)
    /\ UNCHANGED <<store, partner, answered, stale>>

-----------------------------------------------------------------------------
(* Tell the partner, then record the key                                   *)

(* Mutant: a failed partner call ends the create at once.                  *)
RecordsWhenSynced(c, failed) == Keyed(c) /\ ~failed
(* A keyed create goes on to record its key even when the partner call     *)
(* failed; any other request is answered.                                  *)
GoesOnToRecord(c, failed) == Keyed(c)

AfterSync(c, failed) ==
    /\ CaughtUp(c)
    /\ IF GoesOnToRecord(c, failed)
         THEN /\ GoTo(c, "record")
              /\ syncFailed' = [syncFailed EXCEPT ![c] = failed]
              /\ UNCHANGED <<req, held, late, reply>>
         ELSE Answer(c, IF failed THEN "syncFailed" ELSE "ok")
    /\ UNCHANGED <<store, answered>>

(* The partner's payload has a title but no hair length.                   *)
ToPayload(pet) == pet.name

(* The partner is told what Save returned, when there is one.              *)
SyncDelivered(c) ==
    /\ pc[c] = "sync"
    /\ IF PartnerEnabled
         THEN /\ partner' = [partner EXCEPT ![held[c].id] = ToPayload(held[c].pet)]
              /\ stale' = IF overtaken[c] THEN stale \cup {held[c].id} ELSE stale \ {held[c].id}
         ELSE UNCHANGED <<partner, stale>>
    /\ AfterSync(c, FALSE)

(* An error status, a refused connection or the five-second timeout: the   *)
(* partner may have applied the request all the same.                      *)
SyncFails(c) ==
    /\ pc[c] = "sync" /\ PartnerEnabled
    /\ \/ UNCHANGED partner
       \/ partner' = [partner EXCEPT ![held[c].id] = ToPayload(held[c].pet)]
    /\ stale' = stale \cup {held[c].id}
    /\ AfterSync(c, TRUE)

(* A conflict outranks the sync error; otherwise the sync error surfaces.  *)
Outcome(c) == IF syncFailed[c] THEN "syncFailed" ELSE "ok"

Settle(c) ==
    /\ Answer(c, Outcome(c))
    /\ IF syncFailed[c] THEN UNCHANGED answered ELSE NoteAnswer(c, held[c].id)

NewRecord(c) == [hash |-> Fingerprint(req[c]), pet |-> held[c].id]

Bind(c) ==
    /\ idem' = [idem EXCEPT ![req[c].key] = NewRecord(c)]
    /\ Settle(c)
    /\ UNCHANGED <<pets, seq, partner, stale, overtaken>>

RecordNew(c) == pc[c] = "record" /\ Free(c) /\ Bind(c)

(* Mutant: any record will do.                                             *)
RecordedAnyhow(c) == TRUE
Recorded(c) == KeyRecord(c) = NewRecord(c)

(* The key was taken while this request was saving and syncing its pet.    *)
SettleTaken(c) ==
    /\ IF Recorded(c)
         THEN Settle(c)
         ELSE Answer(c, "conflict") /\ UNCHANGED answered
    /\ UNCHANGED <<store, partner, stale, overtaken>>

(* Mutant: a taken key is tried again and again.                           *)
RecordRetried(c) == Backend = "memory" /\ pc[c] = "record" /\ ~Free(c) /\ UNCHANGED vars

RecordTakenMemory(c) ==
    /\ Backend = "memory"
    /\ pc[c] = "record" /\ ~Free(c)
    /\ SettleTaken(c)

(* The unique violation only becomes gorm.ErrDuplicatedKey, and is only    *)
(* looked at again, when the connection translates errors.                 *)
RecordTakenPostgres(c) ==
    /\ Backend = "postgres"
    /\ pc[c] = "record" /\ ~Free(c)
    /\ IF TranslateError
         THEN GoTo(c, "recheck") /\ UNCHANGED <<req, held, syncFailed, late, reply>>
         ELSE Answer(c, "storeFailed")
    /\ UNCHANGED <<store, partner, answered, stale, overtaken>>

Recheck(c) ==
    /\ pc[c] = "recheck"
    /\ SettleTaken(c)

-----------------------------------------------------------------------------
(* Failures                                                                *)

(* A statement fails: the error reaches the handler as HTTP 500.  An       *)
(* upsert that took effect although its answer was lost is one that fails  *)
(* at the reread.                                                          *)
StoreFails(c) ==
    /\ Backend = "postgres"
    /\ pc[c] \in PCs \ {"idle", "sync"}
    /\ pc[c] = "save" => Valid(c)
    /\ Answer(c, "storeFailed")
    /\ CaughtUp(c)
    /\ UNCHANGED <<store, partner, answered, stale>>

(* The record is committed and the answer of its INSERT lost.              *)
RecordUnheard(c) ==
    /\ Backend = "postgres"
    /\ pc[c] = "record" /\ Free(c)
    /\ idem' = [idem EXCEPT ![req[c].key] = NewRecord(c)]
    /\ Answer(c, "storeFailed")
    /\ UNCHANGED <<pets, seq, partner, answered, stale, overtaken>>

(* The process serving c dies: the database keeps what was written.        *)
Abandon(c) ==
    /\ Backend = "postgres"
    /\ pc[c] # "idle"
    /\ Answer(c, "none")
    /\ CaughtUp(c)
    /\ UNCHANGED <<store, partner, answered, stale>>

(* With everything in memory a restart forgets all but the partner.        *)
Restart ==
    /\ Backend = "memory"
    /\ pets' = [i \in PetIds |-> NoPet]
    /\ idem' = [k \in Keys |-> NoRecord]
    /\ pc' = [c \in Clients |-> "idle"]
    /\ req' = [c \in Clients |-> NoReq]
    /\ held' = [c \in Clients |-> NoHeld]
    /\ syncFailed' = [c \in Clients |-> FALSE]
    /\ reply' = [c \in Clients |-> "none"]
    /\ answered' = [k \in Keys |-> {}]
    /\ stale' = {}
    /\ overtaken' = [c \in Clients |-> FALSE]
    /\ late' = [c \in Clients |-> FALSE]
    /\ UNCHANGED <<seq, partner>>

-----------------------------------------------------------------------------
ClientArrives(c) ==
    AddPet(c) \/ UpdatePet(c) \/ UpdatePetWithForm(c) \/ GroomPet(c) \/ DeletePet(c)

Serve(c) ==
    \/ HandlerLookup(c) \/ ServiceLookup(c) \/ Reload(c)
    \/ Load(c) \/ Refuse(c) \/ SaveMemory(c) \/ UpsertPostgres(c) \/ RereadPostgres(c)
    \/ SyncDelivered(c) \/ SyncFails(c)
    \/ RecordNew(c) \/ RecordTakenMemory(c) \/ RecordTakenPostgres(c) \/ Recheck(c)

Next ==
    \/ \E c \in Clients :
          ClientArrives(c) \/ Serve(c) \/ StoreFails(c) \/ RecordUnheard(c) \/ Abandon(c)
    \/ Restart

Spec == Init /\ [][Next]_vars

(* A goroutine is always scheduled again and every call it makes returns:  *)
(* memory and gorm calls do, the partner client has its timeout.  Nothing  *)
(* is assumed about new requests, failures or restarts.                    *)
FairSpec == Spec /\ \A c \in Clients : WF_vars(Serve(c))

-----------------------------------------------------------------------------
(* What is checked                                                         *)

(* Every variable keeps its type, in the middle of any request too.        *)
TypeOK ==
    /\ pets \in [PetIds -> MaybePet]
    /\ seq \in 0 .. MaxId
    /\ idem \in [Keys -> Record \cup {NoRecord}]
    /\ partner \in [PetIds -> Names \cup {NoPet}]
    /\ pc \in [Clients -> PCs]
    /\ req \in [Clients -> Request \cup {NoReq}]
    /\ held \in [Clients -> Held]
    /\ syncFailed \in [Clients -> BOOLEAN]
    /\ reply \in [Clients -> Codes]
    /\ answered \in [Keys -> SUBSET Record]
    /\ stale \in SUBSET PetIds
    /\ overtaken \in [Clients -> BOOLEAN]
    /\ late \in [Clients -> BOOLEAN]

(* Whatever requests race under one key, all its 200 answers are for one   *)
(* payload and one pet, the ones in the key's record (replayIdempotentPet, *)
(* IdempotencyStore.Save).                                                 *)
OneFingerprintPerKey ==
    \A k \in Keys : answered[k] \subseteq {idem[k]} \ {NoRecord}

(* A request that comes after its key was bound never reaches repo.Save:   *)
(* neither pets nor partner see a retry (AddPet's two lookups).            *)
LateRequestsNeverSave ==
    \A c \in Clients : late[c] => pc[c] \in {"handlerLookup", "reload"}

(* A keyed create answered 200, or answered with a partner failure after   *)
(* its pet was saved, leaves its own payload's hash in the store: the next *)
(* retry replays (idempotencyStore.Save runs before the sync error).       *)
CreateIsRecorded ==
    \A c \in Clients :
        Keyed(c) /\ pc'[c] = "idle" /\ reply'[c] \in {"ok", "syncFailed"}
          => idem'[req[c].key] # NoRecord /\ idem'[req[c].key].hash = Fingerprint(req[c])
AnsweredCreatesAreRecorded == [][CreateIsRecorded]_vars

(* An update nobody overtook between its load and its save finds the pet   *)
(* there and changes the fields of its payload only (UpdatePet,            *)
(* UpdatePetWithForm, GroomPet work on the loaded copy).                   *)
IsolatedUpdate ==
    \A c \in Clients :
        pc[c] = "save" /\ pc'[c] \in {"sync", "reread"}
          /\ req[c].op = "update" /\ ~overtaken[c]
          => LET id == req[c].id IN
             /\ pets[id] # NoPet
             /\ \A field \in {"name", "hair"} :
                  pets'[id][field] = IF req[c].body[field] = Keep THEN pets[id][field]
                                                                 ELSE req[c].body[field]
IsolatedUpdateTouchesOnlyItsFields == [][IsolatedUpdate]_vars

(* The partner holds the stored pet's payload, unless the last word on     *)
(* that pet is still under way, failed, or crossed another one             *)
(* (saveAndSync pushes what Save returned).                                *)
PartnerAgrees ==
    PartnerEnabled =>
      \A i \in PetIds \ stale : pets[i] # NoPet => partner[i] = ToPayload(pets[i])

(* The service, its two stores and all its races implement the registry.   *)
Registry == INSTANCE KeyRegistry WITH
                Records <- Record, Durable <- (Backend = "postgres"), bound <- idem
ImplementsRegistry == Registry!Spec

(* No request waits for another one: each is answered (or dies with its    *)
(* process), whatever the others do meanwhile.                             *)
RequestsAreAnswered == \A c \in Clients : pc[c] # "idle" ~> pc[c] = "idle"

-----------------------------------------------------------------------------
(* What the repository says and the code does not do                       *)

(* ports/idempotency.go:21: keys are kept "so retries can be replayed      *)
(* safely": one payload under one key is one pet.                          *)
Saved(c) == pc[c] \in {"sync", "record", "recheck"} /\ Keyed(c)
RetriesAreSafe ==
    \A c, d \in Clients :
        Saved(c) /\ Saved(d) /\ req[c] = req[d] => held[c].id = held[d].id

(* postgres/idempotency_store.go:40-41: a key that exists is answered with *)
(* its record or with ErrIdempotencyConflict, never with a bare failure.   *)
TakenKeyIsReported ==
    [][\A c \in Clients : RecordTakenPostgres(c) => reply'[c] # "storeFailed"]_vars

=============================================================================
