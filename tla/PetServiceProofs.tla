-------------------------- MODULE PetServiceProofs --------------------------
(***************************************************************************)
(* Theorems about PetService, for any number of clients, ids, keys, names  *)
(* and lengths, both backends, with or without a partner.                  *)
(*                                                                         *)
(* The inductive invariant has three layers, each proved on top of the     *)
(* ones before it: Typed (types, and what kind of request is at each       *)
(* place), KeysInv (idempotency records, replays and 200 answers) and      *)
(* CopiesInv (what a goroutine's copy of a pet says about the stored one). *)
(***************************************************************************)
EXTENDS PetService, TLAPS

(* Only keyed creates look keys up and record them; only updates load; a   *)
(* loaded or saved aggregate is a pet.                                     *)
Placed(c) ==
    /\ pc[c] = "idle" => req[c] = NoReq
    /\ pc[c] \in {"handlerLookup", "serviceLookup", "reload", "record", "recheck"} => Keyed(c)
    /\ pc[c] = "load" => req[c].op = "update"
    /\ pc[c] = "save" /\ req[c].op = "update" => held[c].pet \in Pet
    /\ pc[c] \in {"reread", "sync"} => held[c].pet \in Pet

Typed == TypeOK /\ \A c \in Clients : Placed(c)

LEMMA TypedInit == Init => Typed
  <1> USE ServiceAssumption
  <1>1. Init => TypeOK
    BY DEF Init, TypeOK, PetIds, MaybePet, PCs, NoReq, Held, NoHeld, Codes
  <1>2. Init => \A c \in Clients : Placed(c)
    BY DEF Init, Placed
  <1> QED BY <1>1, <1>2 DEF Typed

(* What Answer does to the types, whatever else the step does.             *)
LEMMA AnswerTyped ==
    ASSUME Typed, NEW c \in Clients, NEW code \in Codes, Answer(c, code)
    PROVE  /\ pc' \in [Clients -> PCs]
           /\ req' \in [Clients -> Request \cup {NoReq}]
           /\ held' \in [Clients -> Held]
           /\ syncFailed' \in [Clients -> BOOLEAN]
           /\ reply' \in [Clients -> Codes]
           /\ late' \in [Clients -> BOOLEAN]
           /\ \A d \in Clients : Placed(d)'
  <1> USE ServiceAssumption DEF Answer, GoTo, Typed, TypeOK
  <1>1. NoHeld \in Held
    BY DEF NoHeld, Held, PetIds, MaybePet
  <1>2. "idle" \in PCs
    BY DEF PCs
  <1>3. \A d \in Clients : Placed(d)'
    BY <1>2 DEF Placed, Keyed
  <1> QED BY <1>1, <1>2, <1>3

LEMMA TypedArrive ==
    ASSUME Typed, NEW c \in Clients, NEW r \in Request, NEW place \in PCs, Arrive(c, r, place),
           late' \in [Clients -> BOOLEAN],
           place \in {"save", "handlerLookup", "load"},
           place = "save" => r.op = "add",
           place = "load" => r.op = "update",
           place = "handlerLookup" => r.op = "add" /\ r.key # NoKey
    PROVE  Typed'
  <1> USE DEF Arrive, GoTo, Typed, store
  <1>1. TypeOK'
    BY DEF TypeOK, Codes
  <1>2. \A d \in Clients : Placed(d)'
    BY DEF TypeOK, Placed, Keyed
  <1> QED BY <1>1, <1>2

-----------------------------------------------------------------------------
(* One lemma per kind of step.                                             *)

LEMMA TypedArrivals ==
    ASSUME Typed, NEW c \in Clients, ClientArrives(c)
    PROVE  Typed'
  <1> USE ServiceAssumption
  <1>1. CASE AddPet(c)
    <2>1. PICK key \in Keys \cup {NoKey}, id \in PetIds, body \in Pet \cup {Invalid} :
             /\ Arrive(c, [op |-> "add", key |-> key, id |-> id, body |-> body],
                       IF key = NoKey THEN "save" ELSE "handlerLookup")
             /\ late' = [late EXCEPT ![c] = key # NoKey /\ idem[key] # NoRecord]
      BY <1>1 DEF AddPet
    <2>2. [op |-> "add", key |-> key, id |-> id, body |-> body] \in Request
      BY DEF Request
    <2>3. late' \in [Clients -> BOOLEAN]
      BY <2>1 DEF Typed, TypeOK
    <2> QED BY <2>1, <2>2, <2>3, TypedArrive DEF PCs
  <1>2. ASSUME NEW id \in PetIds, NEW body \in Patch \cup {Invalid}, Update(c, id, body)
        PROVE  Typed'
    <2>1. [op |-> "update", key |-> NoKey, id |-> id, body |-> body] \in Request
      BY DEF Request
    <2>2. late' \in [Clients -> BOOLEAN]
      BY <1>2 DEF Update, Typed, TypeOK
    <2> QED BY <1>2, <2>1, <2>2, TypedArrive DEF Update, PCs
  <1>3. CASE UpdatePet(c)
    BY <1>2, <1>3 DEF UpdatePet
  <1>4. CASE UpdatePetWithForm(c)
    <2>1. \A name \in Names \cup {Keep} : [name |-> name, hair |-> Keep] \in Patch
      BY DEF Patch
    <2> QED BY <1>2, <1>4, <2>1 DEF UpdatePetWithForm
  <1>5. CASE GroomPet(c)
    <2>1. \A hair \in Lengths : [name |-> Keep, hair |-> hair] \in Patch
      BY DEF Patch
    <2> QED BY <1>2, <1>5, <2>1 DEF GroomPet
  <1>6. CASE DeletePet(c)
    <2>1. PICK id \in PetIds, code \in Codes :
             /\ pets' = [pets EXCEPT ![id] = NoPet]
             /\ stale' = stale \ {id}
             /\ Answer(c, code)
             /\ UNCHANGED overtaken \/ Overtakes(c, id)
             /\ UNCHANGED <<seq, idem, partner, answered>>
      BY <1>6 DEF DeletePet, Codes
    <2>2. overtaken' \in [Clients -> BOOLEAN]
      BY <2>1 DEF Overtakes, Typed, TypeOK
    <2> QED BY <2>1, <2>2, AnswerTyped DEF Typed, TypeOK, MaybePet
  <1> QED BY <1>1, <1>3, <1>4, <1>5, <1>6 DEF ClientArrives

(* Settling a create answers it, and notes the answer in its history.      *)
LEMMA NoteTyped ==
    ASSUME Typed, NEW c \in Clients, NEW pet \in PetIds, Keyed(c), NoteAnswer(c, pet)
    PROVE  answered' \in [Keys -> SUBSET Record]
  <1>1. req[c].key \in Keys /\ Fingerprint(req[c]) \in Hashes
    BY ServiceAssumption DEF Typed, TypeOK, Request, NoReq, Keyed, Fingerprint, Hashes
  <1>2. [hash |-> Fingerprint(req[c]), pet |-> pet] \in Record
    BY <1>1 DEF Record
  <1> QED BY <1>1, <1>2 DEF NoteAnswer, Typed, TypeOK

LEMMA TypedLookups ==
    ASSUME Typed, NEW c \in Clients, HandlerLookup(c) \/ ServiceLookup(c) \/ Reload(c)
    PROVE  Typed'
  <1> USE ServiceAssumption
  <1>1. ASSUME NEW here, NEW free \in {"serviceLookup", "save"}, Lookup(c, here, free),
               here \in {"handlerLookup", "serviceLookup"}
        PROVE  Typed'
    <2>1. Keyed(c) /\ req[c].key \in Keys /\ req[c].op = "add"
      BY <1>1 DEF Lookup, Typed, TypeOK, Placed, Keyed, Request, NoReq
    <2>2. /\ UNCHANGED <<pets, seq, idem, partner, answered, stale, overtaken>>
      BY <1>1 DEF Lookup, store
    <2>3. CASE Answer(c, "conflict")
      BY <2>2, <2>3, AnswerTyped DEF Typed, TypeOK, Codes
    <2>4. CASE GoTo(c, free) /\ UNCHANGED <<req, held, syncFailed, late, reply>>
      <3>1. TypeOK'
        BY <2>2, <2>4 DEF Typed, TypeOK, GoTo, PCs
      <3>2. \A d \in Clients : Placed(d)'
        BY <2>1, <2>4 DEF Typed, TypeOK, GoTo, Placed, Keyed
      <3> QED BY <3>1, <3>2 DEF Typed
    <2>5. CASE /\ ~Free(c)
               /\ GoTo(c, "reload")
               /\ held' = [held EXCEPT ![c] = [id |-> KeyRecord(c).pet, pet |-> NoPet]]
               /\ UNCHANGED <<req, syncFailed, late, reply>>
      <3>1. KeyRecord(c) \in Record
        BY <2>1, <2>5 DEF Free, KeyRecord, Typed, TypeOK
      <3>2. [id |-> KeyRecord(c).pet, pet |-> NoPet] \in Held
        BY <3>1 DEF Record, Held, MaybePet
      <3>3. TypeOK'
        BY <2>2, <2>5, <3>2 DEF Typed, TypeOK, GoTo, PCs
      <3>4. \A d \in Clients : Placed(d)'
        BY <2>1, <2>5 DEF Typed, TypeOK, GoTo, Placed, Keyed
      <3> QED BY <3>3, <3>4 DEF Typed
    <2> QED BY <1>1, <2>3, <2>4, <2>5 DEF Lookup
  <1>2. CASE HandlerLookup(c) \/ ServiceLookup(c)
    BY <1>1, <1>2 DEF HandlerLookup, ServiceLookup
  <1>3. CASE Reload(c)
    <2>1. held[c].id \in PetIds /\ Keyed(c)
      BY <1>3 DEF Reload, Typed, TypeOK, Held, Placed
    <2>2. answered' \in [Keys -> SUBSET Record]
      BY <1>3, <2>1, NoteTyped DEF Reload, Typed, TypeOK
    <2>3. PICK code \in Codes : Answer(c, code)
      BY <1>3 DEF Reload, Codes
    <2> QED BY <1>3, <2>2, <2>3, AnswerTyped DEF Reload, Typed, TypeOK, store
  <1> QED BY <1>2, <1>3

LEMMA AggregateTyped ==
    ASSUME Typed, NEW c \in Clients, pc[c] = "save", Valid(c)
    PROVE  Aggregate(c).id \in PetIds /\ Aggregate(c).pet \in Pet
  <1> USE ServiceAssumption DEF Typed, TypeOK, Aggregate, Valid
  <1>1. CASE req[c].op = "add"
    BY <1>1 DEF Request, NoReq
  <1>2. CASE req[c].op # "add"
    <2>1. req[c].op = "update" /\ req[c].body \in Patch
      BY <1>2 DEF Request, NoReq
    <2>2. held[c].pet \in Pet /\ held[c].id \in PetIds
      BY <2>1 DEF Placed, Held
    <2>3. Patched(held[c].pet, req[c].body) \in Pet
      BY <2>1, <2>2 DEF Patched, Patch, Pet
    <2> QED BY <1>2, <2>2, <2>3
  <1> QED BY <1>1, <1>2

LEMMA TypedSaves ==
    ASSUME Typed, NEW c \in Clients,
           Load(c) \/ Refuse(c) \/ SaveMemory(c) \/ UpsertPostgres(c) \/ RereadPostgres(c)
    PROVE  Typed'
  <1> USE ServiceAssumption
  <1>1. ASSUME CaughtUp(c) PROVE overtaken' \in [Clients -> BOOLEAN]
    BY <1>1 DEF CaughtUp, Typed, TypeOK
  <1>2. CASE Load(c)
    <2> DEFINE i == req[c].id
    <2>1. i \in PetIds /\ req[c].op = "update" /\ pc[c] = "load"
      BY <1>2 DEF Load, Typed, TypeOK, Placed, Request, NoReq, PetIds
    <2>2. CASE pets[i] = NoPet
      BY <1>2, <2>2, AnswerTyped DEF Load, Typed, TypeOK, store, Codes
    <2>3. CASE pets[i] # NoPet
      <3>1. pets[i] \in Pet
        BY <2>1, <2>3 DEF Typed, TypeOK, MaybePet
      <3>2. /\ GoTo(c, "save")
            /\ held' = [held EXCEPT ![c] = [id |-> i, pet |-> pets[i]]]
            /\ UNCHANGED <<req, syncFailed, late, reply, pets, seq, idem, partner,
                           answered, stale, overtaken>>
        BY <1>2, <2>3 DEF Load, store
      <3>3. TypeOK'
        BY <2>1, <3>1, <3>2 DEF Typed, TypeOK, GoTo, PCs, Held, MaybePet
      <3>4. \A d \in Clients : Placed(d)'
        BY <2>1, <3>1, <3>2 DEF Typed, TypeOK, GoTo, Placed, Keyed
      <3> QED BY <3>3, <3>4 DEF Typed
    <2> QED BY <2>2, <2>3
  <1>3. CASE Refuse(c)
    BY <1>1, <1>3, AnswerTyped DEF Refuse, Typed, TypeOK, store, Codes
  <1>4. ASSUME NEW id \in PetIds, NEW pet \in Pet, Write(c, id, pet), seq' \in 0 .. MaxId,
               NEW place \in {"sync", "reread"}, GoTo(c, place)
        PROVE  Typed'
    <2>1. overtaken' \in [Clients -> BOOLEAN]
      BY <1>4 DEF Write, Overtakes, Typed, TypeOK
    <2>2. TypeOK'
      BY <1>4, <2>1 DEF Write, GoTo, Typed, TypeOK, Held, MaybePet, PCs
    <2>3. \A d \in Clients : Placed(d)'
      BY <1>4 DEF Write, GoTo, Typed, TypeOK, Placed, Keyed
    <2> QED BY <2>2, <2>3 DEF Typed
  <1>5. CASE SaveMemory(c)
    BY <1>4, <1>5, AggregateTyped DEF SaveMemory, Typed, TypeOK
  <1>6. CASE UpsertPostgres(c)
    <2> DEFINE agg == Aggregate(c)
    <2>1. agg.id \in PetIds /\ agg.pet \in Pet /\ GoTo(c, "reread") /\ seq \in 0 .. MaxId
      BY <1>6, AggregateTyped DEF UpsertPostgres, Typed, TypeOK
    <2>2. CASE agg.id = 0
      <3>1. seq < MaxId /\ seq' = seq + 1 /\ Write(c, seq + 1, agg.pet)
        BY <1>6, <2>2 DEF UpsertPostgres
      <3>2. seq + 1 \in PetIds /\ seq' \in 0 .. MaxId
        BY <2>1, <3>1 DEF PetIds
      <3> QED BY <1>4, <2>1, <3>1, <3>2
    <2>3. CASE agg.id # 0
      <3>1. UNCHANGED seq /\ Write(c, agg.id, agg.pet)
        BY <1>6, <2>3 DEF UpsertPostgres
      <3> QED BY <1>4, <2>1, <3>1
    <2> QED BY <2>2, <2>3
  <1>7. CASE RereadPostgres(c)
    <2>1. CASE StoredRow(c) = NoPet
      BY <1>1, <1>7, <2>1, AnswerTyped DEF RereadPostgres, Typed, TypeOK, store, Codes
    <2>2. CASE StoredRow(c) # NoPet
      <3>1. StoredRow(c) \in Pet
        BY <2>2 DEF StoredRow, Typed, TypeOK, Held, MaybePet
      <3>2. /\ GoTo(c, "sync")
            /\ held' = [held EXCEPT ![c] = [id |-> held[c].id, pet |-> StoredRow(c)]]
            /\ UNCHANGED <<req, syncFailed, late, reply, pets, seq, idem, partner,
                           answered, stale>>
        BY <1>7, <2>2 DEF RereadPostgres, store
      <3>3. TypeOK'
        BY <1>1, <1>7, <3>1, <3>2 DEF RereadPostgres, Typed, TypeOK, GoTo, PCs, Held, MaybePet
      <3>4. \A d \in Clients : Placed(d)'
        BY <3>1, <3>2 DEF Typed, TypeOK, GoTo, Placed, Keyed, Held
      <3> QED BY <3>3, <3>4 DEF Typed
    <2> QED BY <2>1, <2>2
  <1> QED BY <1>2, <1>3, <1>5, <1>6, <1>7

LEMMA TypedSyncs ==
    ASSUME Typed, NEW c \in Clients, SyncDelivered(c) \/ SyncFails(c)
    PROVE  Typed'
  <1> USE ServiceAssumption
  <1>1. held[c].id \in PetIds /\ held[c].pet \in Pet /\ pc[c] = "sync"
    BY DEF SyncDelivered, SyncFails, Typed, TypeOK, Held, Placed
  <1>2. partner' \in [PetIds -> Names \cup {NoPet}] /\ stale' \in SUBSET PetIds
    BY <1>1 DEF SyncDelivered, SyncFails, ToPayload, Pet, Typed, TypeOK
  <1>3. PICK failed \in BOOLEAN : AfterSync(c, failed)
    BY DEF SyncDelivered, SyncFails
  <1>4. overtaken' \in [Clients -> BOOLEAN]
    BY <1>3 DEF AfterSync, CaughtUp, Typed, TypeOK
  <1>5. UNCHANGED <<pets, seq, idem, answered>>
    BY <1>3 DEF AfterSync, store
  <1>6. CASE Keyed(c)
    <2>1. /\ GoTo(c, "record")
          /\ syncFailed' = [syncFailed EXCEPT ![c] = failed]
          /\ UNCHANGED <<req, held, late, reply>>
      BY <1>3, <1>6 DEF AfterSync, GoesOnToRecord
    <2>2. TypeOK'
      BY <1>2, <1>4, <1>5, <2>1 DEF Typed, TypeOK, GoTo, PCs
    <2>3. \A d \in Clients : Placed(d)'
      BY <1>6, <2>1 DEF Typed, TypeOK, GoTo, Placed, Keyed
    <2> QED BY <2>2, <2>3 DEF Typed
  <1>7. CASE ~Keyed(c)
    <2>1. PICK code \in Codes : Answer(c, code)
      BY <1>3, <1>7 DEF AfterSync, GoesOnToRecord, Codes
    <2> QED BY <1>2, <1>4, <1>5, <2>1, AnswerTyped DEF Typed, TypeOK
  <1> QED BY <1>6, <1>7

LEMMA SettleTyped ==
    ASSUME Typed, NEW c \in Clients, Keyed(c), Settle(c)
    PROVE  /\ answered' \in [Keys -> SUBSET Record]
           /\ \E code \in Codes : Answer(c, code)
  <1>1. held[c].id \in PetIds
    BY DEF Typed, TypeOK, Held
  <1>2. answered' \in [Keys -> SUBSET Record]
    BY <1>1, NoteTyped DEF Settle, Typed, TypeOK
  <1>3. Outcome(c) \in Codes
    BY DEF Outcome, Codes
  <1> QED BY <1>2, <1>3 DEF Settle

LEMMA NewRecordTyped ==
    ASSUME Typed, NEW c \in Clients, Keyed(c)
    PROVE  NewRecord(c) \in Record /\ req[c].key \in Keys
  <1>1. req[c].key \in Keys /\ Fingerprint(req[c]) \in Hashes /\ held[c].id \in PetIds
    BY ServiceAssumption
       DEF Typed, TypeOK, Request, NoReq, Keyed, Fingerprint, Hashes, Held
  <1> QED BY <1>1 DEF NewRecord, Record

LEMMA TypedRecords ==
    ASSUME Typed, NEW c \in Clients,
           \/ RecordNew(c) \/ RecordTakenMemory(c)
           \/ RecordTakenPostgres(c) \/ Recheck(c)
    PROVE  Typed'
  <1> USE ServiceAssumption
  <1>1. Keyed(c)
    BY DEF RecordNew, RecordTakenMemory, RecordTakenPostgres, Recheck, Typed, Placed
  <1>2. CASE RecordNew(c)
    <2>1. idem' \in [Keys -> Record \cup {NoRecord}]
      BY <1>1, <1>2, NewRecordTyped DEF RecordNew, Bind, Typed, TypeOK
    <2>2. PICK code \in Codes : Answer(c, code) /\ answered' \in [Keys -> SUBSET Record]
      BY <1>1, <1>2, SettleTyped DEF RecordNew, Bind
    <2> QED BY <1>2, <2>1, <2>2, AnswerTyped DEF RecordNew, Bind, Typed, TypeOK
  <1>3. ASSUME SettleTaken(c) PROVE Typed'
    <2>1. PICK code \in Codes : Answer(c, code) /\ answered' \in [Keys -> SUBSET Record]
      BY <1>1, <1>3, SettleTyped DEF SettleTaken, Codes, Typed, TypeOK
    <2> QED BY <1>3, <2>1, AnswerTyped DEF SettleTaken, store, Typed, TypeOK
  <1>4. CASE RecordTakenMemory(c) \/ Recheck(c)
    BY <1>3, <1>4 DEF RecordTakenMemory, Recheck
  <1>5. CASE RecordTakenPostgres(c)
    <2>1. CASE TranslateError
      <3>1. /\ GoTo(c, "recheck")
            /\ UNCHANGED <<req, held, syncFailed, late, reply, pets, seq, idem, partner,
                           answered, stale, overtaken>>
        BY <1>5, <2>1 DEF RecordTakenPostgres, store
      <3>2. TypeOK'
        BY <3>1 DEF Typed, TypeOK, GoTo, PCs
      <3>3. \A d \in Clients : Placed(d)'
        BY <1>1, <3>1 DEF Typed, TypeOK, GoTo, Placed, Keyed
      <3> QED BY <3>2, <3>3 DEF Typed
    <2>2. CASE ~TranslateError
      BY <1>5, <2>2, AnswerTyped DEF RecordTakenPostgres, store, Codes, Typed, TypeOK
    <2> QED BY <2>1, <2>2
  <1> QED BY <1>2, <1>4, <1>5

LEMMA TypedFailures ==
    ASSUME Typed, NEW c \in Clients, StoreFails(c) \/ RecordUnheard(c) \/ Abandon(c)
    PROVE  Typed'
  <1>1. PICK code \in Codes : Answer(c, code)
    BY DEF StoreFails, RecordUnheard, Abandon, Codes
  <1>2. overtaken' \in [Clients -> BOOLEAN]
    BY DEF StoreFails, RecordUnheard, Abandon, CaughtUp, Typed, TypeOK
  <1>3. idem' \in [Keys -> Record \cup {NoRecord}]
    <2>1. CASE RecordUnheard(c)
      BY <2>1, NewRecordTyped DEF RecordUnheard, Typed, TypeOK, Placed
    <2>2. CASE StoreFails(c) \/ Abandon(c)
      BY <2>2 DEF StoreFails, Abandon, store, Typed, TypeOK
    <2> QED BY <2>1, <2>2
  <1> QED
    BY <1>1, <1>2, <1>3, AnswerTyped
       DEF StoreFails, RecordUnheard, Abandon, store, Typed, TypeOK

LEMMA TypedRestart == Typed /\ Restart => Typed'
  <1> USE ServiceAssumption
  <1>1. Typed /\ Restart => TypeOK'
    BY DEF Restart, Typed, TypeOK, PetIds, MaybePet, PCs, NoReq, Held, NoHeld, Codes
  <1>2. Restart => \A c \in Clients : Placed(c)'
    BY DEF Restart, Placed
  <1> QED BY <1>1, <1>2 DEF Typed

(* The prover sees a step once, as one of these cases.                     *)
LEMMA StepCases ==
    ASSUME [Next]_vars
    PROVE  \/ \E c \in Clients :
                \/ ClientArrives(c)
                \/ HandlerLookup(c) \/ ServiceLookup(c) \/ Reload(c)
                \/ Load(c) \/ Refuse(c) \/ SaveMemory(c) \/ UpsertPostgres(c) \/ RereadPostgres(c)
                \/ SyncDelivered(c) \/ SyncFails(c)
                \/ RecordNew(c) \/ RecordTakenMemory(c) \/ RecordTakenPostgres(c) \/ Recheck(c)
                \/ StoreFails(c) \/ RecordUnheard(c) \/ Abandon(c)
           \/ Restart
           \/ UNCHANGED vars
  BY DEF Next, Serve

LEMMA TypedStep == Typed /\ [Next]_vars => Typed'
  <1> SUFFICES ASSUME Typed, [Next]_vars PROVE Typed'
    OBVIOUS
  <1>1. CASE UNCHANGED vars
    <2>1. TypeOK'
      BY <1>1 DEF Typed, TypeOK, vars
    <2>2. \A c \in Clients : Placed(c)'
      BY <1>1 DEF Typed, Placed, Keyed, vars
    <2> QED BY <2>1, <2>2 DEF Typed
  <1> QED
    BY <1>1, StepCases, TypedArrivals, TypedLookups, TypedSaves, TypedSyncs, TypedRecords,
       TypedFailures, TypedRestart

(* Every variable of the service keeps its type at every step of every     *)
(* interleaving, failure and restart.                                      *)
THEOREM TypeCorrect == Spec => []TypeOK
  <1>1. Spec => []Typed
    BY TypedInit, TypedStep, PTL DEF Spec
  <1>2. Typed => TypeOK
    BY DEF Typed
  <1> QED BY <1>1, <1>2, PTL

-----------------------------------------------------------------------------
(* Keys: a replaying request holds exactly the record its key is bound to, *)
(* and a late one has not left the lookups.  OneFingerprintPerKey is not   *)
(* inductive without the first: Reload answers for what the goroutine      *)
(* holds, not for what the store says.                                     *)
Replaying(c) == pc[c] = "reload" => KeyRecord(c) = NewRecord(c)
LateBound(c) ==
    late[c] => pc[c] \in {"handlerLookup", "reload"} /\ Keyed(c) /\ ~Free(c)

KeysInv == OneFingerprintPerKey /\ \A c \in Clients : Replaying(c) /\ LateBound(c)

LEMMA KeysInit == Init => KeysInv
  <1>1. Init => OneFingerprintPerKey
    BY DEF Init, OneFingerprintPerKey
  <1>2. Init => \A c \in Clients : Replaying(c) /\ LateBound(c)
    BY DEF Init, Replaying, LateBound
  <1> QED BY <1>1, <1>2 DEF KeysInv

(* A step of c leaves the goroutines of the others alone.                  *)
Aside(c) ==
    \A d \in Clients \ {c} :
        /\ pc'[d] = pc[d] /\ req'[d] = req[d]
        /\ held'[d] = held[d] /\ late'[d] = late[d]

LEMMA AnswerAside ==
    ASSUME Typed, NEW c \in Clients, NEW code, Answer(c, code)
    PROVE  Aside(c) /\ pc'[c] = "idle" /\ ~late'[c]
  BY DEF Answer, GoTo, Aside, Typed, TypeOK

(* Most steps touch neither records nor answers.                           *)
LEMMA KeysFrame ==
    ASSUME Typed, KeysInv, NEW c \in Clients, Aside(c), UNCHANGED <<idem, answered>>,
           Replaying(c)', LateBound(c)'
    PROVE  KeysInv'
  <1>1. OneFingerprintPerKey'
    BY DEF KeysInv, OneFingerprintPerKey
  <1>2. ASSUME NEW d \in Clients, d # c PROVE Replaying(d)' /\ LateBound(d)'
    BY <1>2 DEF Aside, KeysInv, Replaying, LateBound, KeyRecord, NewRecord, Free, Keyed, Fingerprint
  <1> QED BY <1>1, <1>2 DEF KeysInv

LEMMA KeysAnswer ==
    ASSUME Typed, KeysInv, NEW c \in Clients, NEW code, Answer(c, code),
           UNCHANGED <<idem, answered>>
    PROVE  KeysInv'
  <1>1. Aside(c) /\ pc'[c] = "idle" /\ ~late'[c]
    BY AnswerAside
  <1>2. Replaying(c)' /\ LateBound(c)'
    BY <1>1 DEF Replaying, LateBound
  <1> QED BY <1>1, <1>2, KeysFrame

(* From one place to another, neither of them a place of late requests.    *)
LEMMA KeysMove ==
    ASSUME Typed, KeysInv, NEW c \in Clients, NEW place, GoTo(c, place),
           pc[c] \notin {"handlerLookup", "reload"}, place # "reload",
           UNCHANGED <<req, late, idem, answered>>,
           \A d \in Clients \ {c} : held'[d] = held[d]
    PROVE  KeysInv'
  <1>1. Aside(c) /\ pc'[c] = place
    BY DEF GoTo, Aside, Typed, TypeOK
  <1>2. Replaying(c)' /\ LateBound(c)'
    BY <1>1 DEF Replaying, LateBound, KeysInv
  <1> QED BY <1>1, <1>2, KeysFrame

LEMMA KeysArrivals ==
    ASSUME Typed, KeysInv, NEW c \in Clients, ClientArrives(c)
    PROVE  KeysInv'
  <1>1. CASE AddPet(c)
    <2>1. PICK key \in Keys \cup {NoKey}, id \in PetIds, body \in Pet \cup {Invalid} :
             /\ Arrive(c, [op |-> "add", key |-> key, id |-> id, body |-> body],
                       IF key = NoKey THEN "save" ELSE "handlerLookup")
             /\ late' = [late EXCEPT ![c] = key # NoKey /\ idem[key] # NoRecord]
      BY <1>1 DEF AddPet
    <2>2. Aside(c) /\ UNCHANGED <<idem, answered>>
      BY <2>1 DEF Arrive, GoTo, Aside, Typed, TypeOK, store
    <2>3. Replaying(c)' /\ LateBound(c)'
      BY <2>1 DEF Arrive, GoTo, Typed, TypeOK, store, Replaying, LateBound, Keyed, Free, KeyRecord
    <2> QED BY <2>2, <2>3, KeysFrame
  <1>2. ASSUME NEW id, NEW body, Update(c, id, body) PROVE KeysInv'
    <2>1. Aside(c) /\ UNCHANGED <<idem, answered>>
      BY <1>2 DEF Update, Arrive, GoTo, Aside, Typed, TypeOK, store
    <2>2. Replaying(c)' /\ LateBound(c)'
      BY <1>2 DEF Update, Arrive, GoTo, Typed, TypeOK, KeysInv, Replaying, LateBound
    <2> QED BY <2>1, <2>2, KeysFrame
  <1>3. CASE UpdatePet(c) \/ UpdatePetWithForm(c) \/ GroomPet(c)
    BY <1>2, <1>3 DEF UpdatePet, UpdatePetWithForm, GroomPet
  <1>4. CASE DeletePet(c)
    BY <1>4, KeysAnswer DEF DeletePet
  <1> QED BY <1>1, <1>3, <1>4 DEF ClientArrives

(* Answering 200 under a key whose record is the one noted.                *)
LEMMA KeysNote ==
    ASSUME Typed, KeysInv, NEW c \in Clients, NEW code, Keyed(c), Answer(c, code),
           KeyRecord(c) = NewRecord(c), NoteAnswer(c, held[c].id), UNCHANGED idem
    PROVE  KeysInv'
  <1>1. Aside(c) /\ pc'[c] = "idle" /\ ~late'[c]
    BY AnswerAside
  <1>2. OneFingerprintPerKey'
    <2>1. req[c].key \in Keys /\ NewRecord(c) # NoRecord
      BY NewRecordTyped, ServiceAssumption
    <2> QED BY <2>1 DEF NoteAnswer, NewRecord, KeyRecord, KeysInv, OneFingerprintPerKey, Typed, TypeOK
  <1>3. ASSUME NEW d \in Clients PROVE Replaying(d)' /\ LateBound(d)'
    BY <1>1, <1>3
       DEF Aside, KeysInv, Replaying, LateBound, KeyRecord, NewRecord, Free, Keyed, Fingerprint
  <1> QED BY <1>2, <1>3 DEF KeysInv

LEMMA KeysLookups ==
    ASSUME Typed, KeysInv, NEW c \in Clients, HandlerLookup(c) \/ ServiceLookup(c) \/ Reload(c)
    PROVE  KeysInv'
  <1>1. ASSUME NEW here \in {"handlerLookup", "serviceLookup"}, NEW free \in {"serviceLookup", "save"},
               Lookup(c, here, free)
        PROVE  KeysInv'
    <2>1. UNCHANGED <<idem, answered>> /\ Keyed(c)
      BY <1>1 DEF Lookup, store, Typed, Placed
    <2>2. CASE Answer(c, "conflict")
      BY <2>1, <2>2, KeysAnswer
    <2>3. CASE Free(c) /\ GoTo(c, free) /\ UNCHANGED <<req, held, syncFailed, late, reply>>
      <3>1. Aside(c) /\ pc'[c] = free /\ ~late'[c]
        BY <2>3 DEF GoTo, Aside, Typed, TypeOK, KeysInv, LateBound
      <3>2. Replaying(c)' /\ LateBound(c)'
        BY <1>1, <3>1 DEF Replaying, LateBound
      <3> QED BY <2>1, <3>1, <3>2, KeysFrame
    <2>4. CASE /\ ~Free(c) /\ Matches(c)
               /\ GoTo(c, "reload")
               /\ held' = [held EXCEPT ![c] = [id |-> KeyRecord(c).pet, pet |-> NoPet]]
               /\ UNCHANGED <<req, syncFailed, late, reply>>
      <3>1. KeyRecord(c) \in Record
        BY <2>1, <2>4, NewRecordTyped DEF Free, KeyRecord, Typed, TypeOK
      <3>2. Aside(c) /\ pc'[c] = "reload" /\ held'[c].id = KeyRecord(c).pet
        BY <2>4 DEF GoTo, Aside, Typed, TypeOK
      <3>3. Replaying(c)'
        BY <2>1, <2>4, <3>1, <3>2 DEF Replaying, KeyRecord, NewRecord, Matches, Fingerprint, Record
      <3>4. LateBound(c)'
        BY <2>1, <2>4, <3>2 DEF LateBound, Keyed, Free, KeyRecord
      <3> QED BY <2>1, <3>2, <3>3, <3>4, KeysFrame
    <2> QED BY <1>1, <2>2, <2>3, <2>4 DEF Lookup
  <1>2. CASE HandlerLookup(c) \/ ServiceLookup(c)
    BY <1>1, <1>2 DEF HandlerLookup, ServiceLookup
  <1>3. CASE Reload(c)
    <2>1. Keyed(c) /\ KeyRecord(c) = NewRecord(c) /\ UNCHANGED idem
      BY <1>3 DEF Reload, store, Typed, Placed, KeysInv, Replaying
    <2> QED BY <1>3, <2>1, KeysNote, KeysAnswer DEF Reload
  <1> QED BY <1>2, <1>3

LEMMA KeysSaves ==
    ASSUME Typed, KeysInv, NEW c \in Clients,
           Load(c) \/ Refuse(c) \/ SaveMemory(c) \/ UpsertPostgres(c) \/ RereadPostgres(c)
    PROVE  KeysInv'
  <1>1. UNCHANGED <<idem, answered>>
    BY DEF Load, Refuse, SaveMemory, UpsertPostgres, RereadPostgres, Write, store
  <1>2. \/ \E code : Answer(c, code)
        \/ \E place \in {"save", "sync", "reread"} : \E h :
              /\ GoTo(c, place) /\ held' = [held EXCEPT ![c] = h]
              /\ UNCHANGED <<req, late>>
    BY DEF Load, Refuse, SaveMemory, UpsertPostgres, RereadPostgres, Write
  <1>3. pc[c] \in {"load", "save", "reread"}
    BY DEF Load, Refuse, SaveMemory, UpsertPostgres, RereadPostgres
  <1>4. CASE \E code : Answer(c, code)
    BY <1>1, <1>4, KeysAnswer
  <1>5. ASSUME NEW place \in {"save", "sync", "reread"}, NEW h,
               GoTo(c, place), held' = [held EXCEPT ![c] = h], UNCHANGED <<req, late>>
        PROVE  KeysInv'
    <2>1. \A d \in Clients \ {c} : held'[d] = held[d]
      BY <1>5 DEF Typed, TypeOK
    <2> QED BY <1>1, <1>3, <1>5, <2>1, KeysMove
  <1> QED BY <1>2, <1>4, <1>5

LEMMA KeysSyncs ==
    ASSUME Typed, KeysInv, NEW c \in Clients, SyncDelivered(c) \/ SyncFails(c)
    PROVE  KeysInv'
  <1>1. PICK failed \in BOOLEAN : AfterSync(c, failed) /\ pc[c] = "sync"
    BY DEF SyncDelivered, SyncFails
  <1>2. UNCHANGED <<idem, answered>>
    BY <1>1 DEF AfterSync, store
  <1>3. CASE GoTo(c, "record") /\ UNCHANGED <<req, held, late, reply>>
    BY <1>1, <1>2, <1>3, KeysMove
  <1>4. CASE Answer(c, IF failed THEN "syncFailed" ELSE "ok")
    BY <1>2, <1>4, KeysAnswer
  <1> QED BY <1>1, <1>3, <1>4 DEF AfterSync

(* A free key is bound, whether its INSERT is heard of or not.             *)
LEMMA KeysBind ==
    ASSUME Typed, KeysInv, NEW c \in Clients, RecordNew(c) \/ RecordUnheard(c)
    PROVE  KeysInv'
  <1> DEFINE k == req[c].key
  <1>1. Keyed(c)
    BY DEF RecordNew, RecordUnheard, Typed, Placed
  <1>2. k \in Keys /\ NewRecord(c) \in Record /\ NewRecord(c) # NoRecord
    BY <1>1, NewRecordTyped, ServiceAssumption
  <1>3. idem[k] = NoRecord /\ idem' = [idem EXCEPT ![k] = NewRecord(c)]
    BY DEF RecordNew, RecordUnheard, Bind, Free, KeyRecord
  <1>4. Aside(c) /\ pc'[c] = "idle" /\ ~late'[c]
    BY AnswerAside DEF RecordNew, RecordUnheard, Bind, Settle
  <1>5. UNCHANGED answered \/ answered' = [answered EXCEPT ![k] = @ \cup {NewRecord(c)}]
    BY DEF RecordNew, RecordUnheard, Bind, Settle, NoteAnswer, NewRecord
  <1>6. OneFingerprintPerKey'
    BY <1>2, <1>3, <1>5 DEF KeysInv, OneFingerprintPerKey, Typed, TypeOK
  <1>7. ASSUME NEW d \in Clients PROVE Replaying(d)' /\ LateBound(d)'
    <2>1. CASE d = c
      BY <1>4, <2>1 DEF Replaying, LateBound
    <2>2. CASE d # c
      <3>1. /\ pc'[d] = pc[d] /\ req'[d] = req[d]
            /\ held'[d] = held[d] /\ late'[d] = late[d]
        BY <1>4, <2>2 DEF Aside
      <3>2. Keyed(d) => req[d].key \in Keys
        BY NewRecordTyped
      <3>3. Keyed(d) /\ ~Free(d) => KeyRecord(d)' = KeyRecord(d)
        BY <1>2, <1>3, <3>1, <3>2 DEF KeyRecord, Free, Typed, TypeOK
      <3>4. NewRecord(d)' = NewRecord(d) /\ (Keyed(d)' <=> Keyed(d))
        BY <3>1 DEF NewRecord, Fingerprint, Keyed
      <3>5. pc[d] = "reload" => Keyed(d) /\ ~Free(d)
        BY NewRecordTyped, ServiceAssumption DEF KeysInv, Replaying, Free, Typed, Placed
      <3> QED BY <3>1, <3>3, <3>4, <3>5 DEF KeysInv, Replaying, LateBound, Free
    <2> QED BY <2>1, <2>2
  <1> QED BY <1>6, <1>7 DEF KeysInv

LEMMA KeysRecords ==
    ASSUME Typed, KeysInv, NEW c \in Clients,
           \/ RecordNew(c) \/ RecordTakenMemory(c)
           \/ RecordTakenPostgres(c) \/ Recheck(c)
    PROVE  KeysInv'
  <1>1. Keyed(c) /\ pc[c] \in {"record", "recheck"}
    BY DEF RecordNew, RecordTakenMemory, RecordTakenPostgres, Recheck, Typed, Placed
  <1>2. CASE RecordNew(c)
    BY <1>2, KeysBind
  <1>3. ASSUME SettleTaken(c) PROVE KeysInv'
    <2>1. UNCHANGED idem
      BY <1>3 DEF SettleTaken, store
    <2>2. CASE Recorded(c) /\ Settle(c)
      BY <1>1, <2>1, <2>2, KeysNote, KeysAnswer DEF Recorded, Settle
    <2>3. CASE Answer(c, "conflict") /\ UNCHANGED answered
      BY <2>1, <2>3, KeysAnswer
    <2> QED BY <1>3, <2>2, <2>3 DEF SettleTaken
  <1>4. CASE RecordTakenMemory(c) \/ Recheck(c)
    BY <1>3, <1>4 DEF RecordTakenMemory, Recheck
  <1>5. CASE RecordTakenPostgres(c)
    <2>1. UNCHANGED <<idem, answered>>
      BY <1>5 DEF RecordTakenPostgres, store
    <2>2. CASE GoTo(c, "recheck") /\ UNCHANGED <<req, held, syncFailed, late, reply>>
      BY <1>1, <2>1, <2>2, KeysMove
    <2>3. CASE Answer(c, "storeFailed")
      BY <2>1, <2>3, KeysAnswer
    <2> QED BY <1>5, <2>2, <2>3 DEF RecordTakenPostgres
  <1> QED BY <1>2, <1>4, <1>5

LEMMA KeysFailures ==
    ASSUME Typed, KeysInv, NEW c \in Clients, StoreFails(c) \/ RecordUnheard(c) \/ Abandon(c)
    PROVE  KeysInv'
  <1>1. CASE RecordUnheard(c)
    BY <1>1, KeysBind
  <1>2. CASE StoreFails(c) \/ Abandon(c)
    <2>1. UNCHANGED <<idem, answered>> /\ \E code : Answer(c, code)
      BY <1>2 DEF StoreFails, Abandon, store
    <2> QED BY <2>1, KeysAnswer
  <1> QED BY <1>1, <1>2

LEMMA KeysRestart == Restart => KeysInv'
  BY DEF Restart, KeysInv, OneFingerprintPerKey, Replaying, LateBound

LEMMA KeysStep == Typed /\ KeysInv /\ [Next]_vars => KeysInv'
  <1> SUFFICES ASSUME Typed, KeysInv, [Next]_vars PROVE KeysInv'
    OBVIOUS
  <1>1. CASE UNCHANGED vars
    BY <1>1 DEF vars, KeysInv, OneFingerprintPerKey, Replaying, LateBound, KeyRecord, NewRecord,
                Free, Keyed, Fingerprint
  <1> QED
    BY <1>1, StepCases, KeysArrivals, KeysLookups, KeysSaves, KeysSyncs, KeysRecords,
       KeysFailures, KeysRestart

LEMMA KeysInvariant == Spec => [](Typed /\ KeysInv)
  <1>1. Typed /\ KeysInv /\ [Next]_vars => (Typed /\ KeysInv)'
    BY TypedStep, KeysStep
  <1> QED BY TypedInit, KeysInit, <1>1, PTL DEF Spec

(* All 200 answers under one key are for the payload and the pet of the    *)
(* key's record, however its requests interleave, fail and restart.        *)
THEOREM OneFingerprint == Spec => []OneFingerprintPerKey
  <1>1. KeysInv => OneFingerprintPerKey
    BY DEF KeysInv
  <1> QED BY <1>1, KeysInvariant, PTL

(* A retry of a bound key never saves a pet nor tells the partner.         *)
THEOREM LateNeverSaves == Spec => []LateRequestsNeverSave
  <1>1. KeysInv => LateRequestsNeverSave
    BY DEF KeysInv, LateBound, LateRequestsNeverSave
  <1> QED BY <1>1, KeysInvariant, PTL

-----------------------------------------------------------------------------
(* The service implements the registry: idem is its binding.               *)

LEMMA RegistryInit == Init => Registry!Init
  BY DEF Init, Registry!Init

LEMMA RegistryNote ==
    ASSUME Typed, NEW c \in Clients, Keyed(c), KeyRecord(c) = NewRecord(c),
           NoteAnswer(c, held[c].id), UNCHANGED idem
    PROVE  Registry!Next
  <1>1. req[c].key \in Keys /\ NewRecord(c) # NoRecord
    BY NewRecordTyped, ServiceAssumption
  <1>2. Registry!Answer(req[c].key)
    BY <1>1 DEF Registry!Answer, NoteAnswer, KeyRecord, NewRecord
  <1> QED BY <1>1, <1>2 DEF Registry!Next

LEMMA RegistryStep ==
    Typed /\ KeysInv /\ [Next]_vars => [Registry!Next]_<<idem, answered>>
  <1> SUFFICES ASSUME Typed, KeysInv, [Next]_vars
               PROVE  Registry!Next \/ UNCHANGED <<idem, answered>>
    OBVIOUS
  <1>1. ASSUME NEW c \in Clients, Reload(c) PROVE Registry!Next \/ UNCHANGED <<idem, answered>>
    <2>1. Keyed(c) /\ KeyRecord(c) = NewRecord(c) /\ UNCHANGED idem
      BY <1>1 DEF Reload, store, Typed, Placed, KeysInv, Replaying
    <2> QED BY <1>1, <2>1, RegistryNote DEF Reload
  <1>2. ASSUME NEW c \in Clients, SettleTaken(c), pc[c] \in {"record", "recheck"}
        PROVE  Registry!Next \/ UNCHANGED <<idem, answered>>
    <2>1. Keyed(c) /\ UNCHANGED idem
      BY <1>2 DEF SettleTaken, store, Typed, Placed
    <2> QED BY <1>2, <2>1, RegistryNote DEF SettleTaken, Recorded, Settle
  <1>3. ASSUME NEW c \in Clients, RecordNew(c) \/ RecordUnheard(c) PROVE Registry!Next
    <2> DEFINE k == req[c].key
    <2>1. k \in Keys /\ NewRecord(c) \in Record
      BY <1>3, NewRecordTyped DEF RecordNew, RecordUnheard, Typed, Placed
    <2>2. /\ idem[k] = NoRecord /\ idem' = [idem EXCEPT ![k] = NewRecord(c)]
          /\ UNCHANGED answered \/ answered' = [answered EXCEPT ![k] = @ \cup {NewRecord(c)}]
      BY <1>3 DEF RecordNew, RecordUnheard, Bind, Free, KeyRecord, Settle, NoteAnswer, NewRecord
    <2>3. Registry!Bind(k, NewRecord(c)) \/ Registry!BindAndAnswer(k, NewRecord(c))
      BY <2>2 DEF Registry!Bind, Registry!BindAndAnswer
    <2> QED BY <2>1, <2>3 DEF Registry!Next
  <1>4. ASSUME Restart PROVE Registry!Next
    BY <1>4 DEF Restart, Registry!Next, Registry!Forget
  <1>5. ASSUME NEW c \in Clients,
               \/ ClientArrives(c) \/ HandlerLookup(c) \/ ServiceLookup(c)
               \/ Load(c) \/ Refuse(c) \/ SaveMemory(c) \/ UpsertPostgres(c) \/ RereadPostgres(c)
               \/ SyncDelivered(c) \/ SyncFails(c)
               \/ RecordTakenPostgres(c) \/ StoreFails(c) \/ Abandon(c)
        PROVE  UNCHANGED <<idem, answered>>
    BY <1>5 DEF ClientArrives, AddPet, UpdatePet, UpdatePetWithForm, GroomPet, DeletePet, Update,
                Arrive, HandlerLookup, ServiceLookup, Lookup, Load, Refuse, SaveMemory,
                UpsertPostgres, RereadPostgres, Write, SyncDelivered, SyncFails,
                AfterSync, RecordTakenPostgres, StoreFails, Abandon, store
  <1> QED
    BY <1>1, <1>2, <1>3, <1>4, <1>5, StepCases DEF RecordTakenMemory, Recheck, vars

(* Inline creates keep the promise of the write-once registry, in memory   *)
(* (which may forget everything) and in Postgres (which may not).          *)
THEOREM RegistryImplemented == Spec => ImplementsRegistry
  <1>1. Typed /\ KeysInv /\ [Next]_vars => [Registry!Next]_Registry!regVars
    BY RegistryStep DEF Registry!regVars
  <1> QED
    BY RegistryInit, KeysInvariant, <1>1, PTL DEF Spec, ImplementsRegistry, Registry!Spec

-----------------------------------------------------------------------------
(* Steps and answers of a single request                                   *)

Acts(c) ==
    \/ ClientArrives(c)
    \/ HandlerLookup(c) \/ ServiceLookup(c) \/ Reload(c)
    \/ Load(c) \/ Refuse(c) \/ SaveMemory(c) \/ UpsertPostgres(c) \/ RereadPostgres(c)
    \/ SyncDelivered(c) \/ SyncFails(c)
    \/ RecordNew(c) \/ RecordTakenMemory(c) \/ RecordTakenPostgres(c) \/ Recheck(c)
    \/ StoreFails(c) \/ RecordUnheard(c) \/ Abandon(c)

(* Every step of c moves c with GoTo and leaves the others alone.          *)
LEMMA ActsAside ==
    ASSUME Typed, NEW c \in Clients, Acts(c)
    PROVE  Aside(c)
  <1>1. /\ \E place : GoTo(c, place)
        /\ UNCHANGED req \/ \E r : req' = [req EXCEPT ![c] = r]
        /\ UNCHANGED held \/ \E h : held' = [held EXCEPT ![c] = h]
        /\ UNCHANGED late \/ \E l : late' = [late EXCEPT ![c] = l]
    <2>1. CASE ClientArrives(c)
      BY <2>1 DEF ClientArrives, AddPet, UpdatePet, UpdatePetWithForm, GroomPet, DeletePet, Update,
                  Arrive, Answer
    <2>2. CASE HandlerLookup(c) \/ ServiceLookup(c) \/ Reload(c)
      BY <2>2 DEF HandlerLookup, ServiceLookup, Reload, Lookup, Answer
    <2>3. CASE Load(c) \/ Refuse(c) \/ SaveMemory(c) \/ UpsertPostgres(c) \/ RereadPostgres(c)
      BY <2>3 DEF Load, Refuse, SaveMemory, UpsertPostgres, RereadPostgres, Write, Answer
    <2>4. CASE SyncDelivered(c) \/ SyncFails(c)
      BY <2>4 DEF SyncDelivered, SyncFails, AfterSync, Answer
    <2>5. CASE RecordNew(c) \/ RecordTakenMemory(c) \/ RecordTakenPostgres(c) \/ Recheck(c)
      BY <2>5 DEF RecordNew, Bind, RecordTakenMemory, RecordTakenPostgres, Recheck, SettleTaken,
                  Settle, Answer
    <2>6. CASE StoreFails(c) \/ RecordUnheard(c) \/ Abandon(c)
      BY <2>6 DEF StoreFails, RecordUnheard, Abandon, Answer
    <2> QED BY <2>1, <2>2, <2>3, <2>4, <2>5, <2>6 DEF Acts
  <1> QED BY <1>1 DEF Aside, GoTo, Typed, TypeOK

LEMMA WhoMoved ==
    ASSUME Typed, [Next]_vars, NEW c \in Clients, pc'[c] # pc[c]
    PROVE  Acts(c) \/ Restart
  <1>1. CASE UNCHANGED vars
    BY <1>1 DEF vars
  <1>2. ASSUME NEW d \in Clients, Acts(d) PROVE Acts(c)
    BY <1>2, ActsAside DEF Aside
  <1> QED BY <1>1, <1>2, StepCases DEF Acts

LEMMA AnswerReply ==
    ASSUME Typed, NEW c \in Clients, NEW code, Answer(c, code)
    PROVE  reply'[c] = code
  BY DEF Answer, Typed, TypeOK

(* A keyed create answered 200, or with the partner's failure, is recorded *)
(* with its own fingerprint: only the replay and Settle answer so.         *)
THEOREM CreatesAreRecorded == Spec => AnsweredCreatesAreRecorded
  <1> DEFINE Leaves(c) == /\ Keyed(c) /\ pc'[c] = "idle"
                          /\ reply'[c] \in {"ok", "syncFailed"}
             Bound(c)  == /\ idem'[req[c].key] # NoRecord
                          /\ idem'[req[c].key].hash = Fingerprint(req[c])
  <1>1. ASSUME Typed, KeysInv, [Next]_vars, NEW c \in Clients, Leaves(c) PROVE Bound(c)
    <2>1. NewRecord(c) # NoRecord /\ req[c].key \in Keys
      BY <1>1, NewRecordTyped, ServiceAssumption
    <2>2. pc[c] # "idle"
      BY <1>1 DEF Typed, Placed, Keyed, NoReq
    <2>3. Acts(c)
      <3>1. Restart => reply'[c] = "none"
        BY DEF Restart
      <3> QED BY <1>1, <2>2, <3>1, WhoMoved
    <2>4. ASSUME NEW code, Answer(c, code) PROVE code \in {"ok", "syncFailed"}
      BY <1>1, <2>4, AnswerReply
    <2>5. \A place : GoTo(c, place) => place = "idle"
      BY <1>1 DEF GoTo, Typed, TypeOK
    <2>6. CASE ClientArrives(c)
      BY <2>2, <2>6 DEF ClientArrives, AddPet, UpdatePet, UpdatePetWithForm, GroomPet, DeletePet,
                        Update, Arrive
    <2>7. CASE HandlerLookup(c) \/ ServiceLookup(c)
      BY <2>4, <2>5, <2>7 DEF HandlerLookup, ServiceLookup, Lookup
    <2>8. CASE Reload(c)
      <3>1. KeyRecord(c) = NewRecord(c) /\ UNCHANGED idem
        BY <1>1, <2>8 DEF Reload, store, KeysInv, Replaying
      <3> QED BY <2>1, <3>1 DEF KeyRecord, NewRecord
    <2>9. CASE Load(c) \/ Refuse(c) \/ SaveMemory(c) \/ UpsertPostgres(c) \/ RereadPostgres(c)
      BY <2>4, <2>5, <2>9 DEF Load, Refuse, SaveMemory, UpsertPostgres, RereadPostgres
    <2>10. CASE SyncDelivered(c) \/ SyncFails(c)
      BY <1>1, <2>5, <2>10 DEF SyncDelivered, SyncFails, AfterSync, GoesOnToRecord
    <2>11. CASE RecordNew(c)
      BY <1>1, <2>1, <2>11 DEF RecordNew, Bind, NewRecord, Typed, TypeOK
    <2>12. ASSUME SettleTaken(c) PROVE Bound(c)
      BY <2>1, <2>4, <2>12 DEF SettleTaken, store, Recorded, KeyRecord, NewRecord
    <2>13. CASE RecordTakenMemory(c) \/ Recheck(c)
      BY <2>12, <2>13 DEF RecordTakenMemory, Recheck
    <2>14. CASE RecordTakenPostgres(c)
      BY <2>4, <2>5, <2>14 DEF RecordTakenPostgres
    <2>15. CASE StoreFails(c) \/ RecordUnheard(c) \/ Abandon(c)
      BY <2>4, <2>15 DEF StoreFails, RecordUnheard, Abandon
    <2> QED
      BY <2>3, <2>6, <2>7, <2>8, <2>9, <2>10, <2>11, <2>13, <2>14, <2>15 DEF Acts
  <1>2. Typed /\ KeysInv /\ [Next]_vars => [CreateIsRecorded]_vars
    BY <1>1 DEF CreateIsRecorded
  <1> QED BY <1>2, KeysInvariant, PTL DEF Spec, AnsweredCreatesAreRecorded

-----------------------------------------------------------------------------
(* Copies: until someone overtakes it, what a goroutine loaded or saved is *)
(* what the repository holds; Postgres has no row 0.                       *)
Fresh(c) == ~overtaken[c] => pets[held[c].id] = held[c].pet
Updating(c) == pc[c] = "save" /\ req[c].op = "update"

CopyOK(c) ==
    /\ Updating(c) => held[c].id = req[c].id /\ Fresh(c)
    /\ pc[c] = "sync" => Fresh(c)
RowZero == Backend = "postgres" => pets[0] = NoPet

CopiesInv == RowZero /\ PartnerAgrees /\ \A c \in Clients : CopyOK(c)

LEMMA CopiesInit == Init => CopiesInv
  <1>1. Init => RowZero /\ PartnerAgrees
    BY ServiceAssumption DEF Init, RowZero, PartnerAgrees, PetIds
  <1>2. Init => \A c \in Clients : CopyOK(c)
    BY DEF Init, CopyOK, Updating
  <1> QED BY <1>1, <1>2 DEF CopiesInv

(* The others when c leaves the repository alone ...                       *)
LEMMA CopiesAside ==
    ASSUME Typed, CopiesInv, NEW c \in Clients, Aside(c), UNCHANGED pets,
           \A d \in Clients \ {c} : overtaken'[d] = overtaken[d],
           NEW d \in Clients, d # c
    PROVE  CopyOK(d)'
  BY DEF CopiesInv, CopyOK, Fresh, Updating, Aside

(* ... and when it writes or deletes row i: copies of i are overtaken.     *)
LEMMA CopiesOvertaken ==
    ASSUME Typed, CopiesInv, NEW c \in Clients, Aside(c), NEW i \in PetIds, NEW x,
           pets' = [pets EXCEPT ![i] = x], Overtakes(c, i),
           NEW d \in Clients, d # c
    PROVE  CopyOK(d)'
  <1>1. /\ pc'[d] = pc[d] /\ req'[d] = req[d] /\ held'[d] = held[d]
        /\ held[d].id \in PetIds
    BY DEF Aside, Typed, TypeOK, Held
  <1>2. overtaken'[d] =
          (overtaken[d] \/ (pc[d] \in {"save", "sync"} /\ held[d] # NoHeld /\ held[d].id = i))
    BY DEF Overtakes
  <1>3. Updating(d) \/ pc[d] = "sync" => held[d] # NoHeld
    BY ServiceAssumption DEF Updating, Typed, Placed, NoHeld
  <1>4. held[d].id # i => pets'[held[d].id] = pets[held[d].id]
    BY <1>1 DEF Typed, TypeOK
  <1>5. ASSUME Updating(d) \/ pc[d] = "sync" PROVE Fresh(d)'
    <2>1. Fresh(d)
      BY <1>5 DEF CopiesInv, CopyOK
    <2>2. CASE held[d].id = i
      BY <1>1, <1>2, <1>3, <1>5, <2>2 DEF Fresh, Updating
    <2>3. CASE held[d].id # i
      BY <1>1, <1>2, <1>4, <2>1, <2>3 DEF Fresh
    <2> QED BY <2>2, <2>3
  <1> QED BY <1>1, <1>5 DEF CopyOK, CopiesInv, Updating

(* Steps that touch neither pets nor what is said about the partner.       *)
LEMMA CopiesFrame ==
    ASSUME Typed, CopiesInv, NEW c \in Clients, Acts(c), UNCHANGED <<pets, partner, stale>>,
           UNCHANGED overtaken \/ CaughtUp(c), CopyOK(c)'
    PROVE  CopiesInv'
  <1>1. Aside(c)
    BY ActsAside
  <1>2. \A d \in Clients \ {c} : overtaken'[d] = overtaken[d]
    BY DEF CaughtUp, Typed, TypeOK
  <1>3. \A d \in Clients : CopyOK(d)'
    BY <1>1, <1>2, CopiesAside
  <1>4. RowZero' /\ PartnerAgrees'
    BY DEF CopiesInv, RowZero, PartnerAgrees
  <1> QED BY <1>3, <1>4 DEF CopiesInv

LEMMA ElsewhereOK ==
    ASSUME Typed, NEW c \in Clients, NEW place, GoTo(c, place), place \notin {"save", "sync"}
    PROVE  CopyOK(c)'
  BY DEF GoTo, Typed, TypeOK, CopyOK, Updating

LEMMA CopiesArrivals ==
    ASSUME Typed, CopiesInv, NEW c \in Clients, ClientArrives(c)
    PROVE  CopiesInv'
  <1>1. Acts(c) /\ Aside(c)
    BY ActsAside DEF Acts
  <1>2. CASE AddPet(c)
    <2>1. PICK key, id, body, place :
             Arrive(c, [op |-> "add", key |-> key, id |-> id, body |-> body], place)
             /\ place \in {"save", "handlerLookup"}
      BY <1>2 DEF AddPet
    <2>2. CopyOK(c)'
      BY <2>1 DEF Arrive, GoTo, Typed, TypeOK, CopyOK, Updating
    <2> QED BY <1>1, <2>1, <2>2, CopiesFrame DEF Arrive, store
  <1>3. ASSUME NEW id, NEW body, Update(c, id, body) PROVE CopiesInv'
    <2>1. CopyOK(c)'
      BY <1>3, ElsewhereOK DEF Update, Arrive
    <2> QED BY <1>1, <1>3, <2>1, CopiesFrame DEF Update, Arrive, store
  <1>4. CASE UpdatePet(c) \/ UpdatePetWithForm(c) \/ GroomPet(c)
    BY <1>3, <1>4 DEF UpdatePet, UpdatePetWithForm, GroomPet
  <1>5. CASE DeletePet(c)
    <2>1. PICK id \in PetIds :
             /\ pets' = [pets EXCEPT ![id] = NoPet] /\ stale' = stale \ {id}
             /\ (pets[id] = NoPet /\ UNCHANGED overtaken) \/ Overtakes(c, id)
             /\ \E code : Answer(c, code)
             /\ UNCHANGED partner
      BY <1>5 DEF DeletePet
    <2>2. CopyOK(c)'
      BY <2>1, ElsewhereOK DEF Answer
    <2>3. \A d \in Clients \ {c} : CopyOK(d)'
      <3>1. CASE pets[id] = NoPet /\ UNCHANGED overtaken
        <4>1. UNCHANGED pets
          BY <2>1, <3>1 DEF Typed, TypeOK
        <4> QED BY <1>1, <3>1, <4>1, CopiesAside
      <3>2. CASE Overtakes(c, id)
        BY <1>1, <2>1, <3>2, CopiesOvertaken
      <3> QED BY <2>1, <3>1, <3>2
    <2>4. RowZero' /\ PartnerAgrees'
      BY <2>1, ServiceAssumption DEF CopiesInv, RowZero, PartnerAgrees, Typed, TypeOK, PetIds
    <2> QED BY <2>2, <2>3, <2>4 DEF CopiesInv
  <1> QED BY <1>2, <1>4, <1>5 DEF ClientArrives

LEMMA CopiesLookups ==
    ASSUME Typed, CopiesInv, NEW c \in Clients, HandlerLookup(c) \/ ServiceLookup(c) \/ Reload(c)
    PROVE  CopiesInv'
  <1>1. Acts(c) /\ UNCHANGED <<pets, partner, stale, overtaken>>
    BY DEF Acts, HandlerLookup, ServiceLookup, Lookup, Reload, store
  <1>2. CopyOK(c)'
    <2>1. CASE ServiceLookup(c) /\ GoTo(c, "save") /\ UNCHANGED req
      <3>1. req[c].op = "add"
        BY <2>1 DEF ServiceLookup, Lookup, Typed, Placed, Keyed
      <3> QED BY <2>1, <3>1 DEF GoTo, Typed, TypeOK, CopyOK, Updating
    <2>2. CASE \E place : GoTo(c, place) /\ place \notin {"save", "sync"}
      BY <2>2, ElsewhereOK
    <2> QED BY <2>1, <2>2 DEF HandlerLookup, ServiceLookup, Lookup, Reload, Answer
  <1> QED BY <1>1, <1>2, CopiesFrame

LEMMA CopiesWrite ==
    ASSUME Typed, CopiesInv, NEW c \in Clients, Acts(c), NEW id \in PetIds, NEW pet \in Pet,
           Write(c, id, pet), NEW place \in {"sync", "reread"}, GoTo(c, place),
           Backend = "postgres" => id # 0
    PROVE  CopiesInv'
  <1>1. pets'[id] = pet /\ held'[c] = [id |-> id, pet |-> pet] /\ pc'[c] = place
    BY DEF Write, GoTo, Typed, TypeOK
  <1>2. CopyOK(c)'
    BY <1>1 DEF CopyOK, Updating, Fresh
  <1>3. \A d \in Clients \ {c} : CopyOK(d)'
    BY ActsAside, CopiesOvertaken DEF Write
  <1>4. RowZero'
    BY DEF Write, CopiesInv, RowZero, Typed, TypeOK, PetIds
  <1>5. PartnerAgrees'
    BY DEF Write, CopiesInv, PartnerAgrees, Typed, TypeOK
  <1> QED BY <1>2, <1>3, <1>4, <1>5 DEF CopiesInv

LEMMA CopiesSaves ==
    ASSUME Typed, CopiesInv, NEW c \in Clients,
           Load(c) \/ Refuse(c) \/ SaveMemory(c) \/ UpsertPostgres(c) \/ RereadPostgres(c)
    PROVE  CopiesInv'
  <1>1. Acts(c)
    BY DEF Acts
  <1>2. CASE Load(c)
    <2>1. UNCHANGED <<pets, partner, stale, overtaken>>
      BY <1>2 DEF Load, store
    <2>2. CopyOK(c)'
      <3>1. CASE Answer(c, "notFound")
        BY <3>1, ElsewhereOK DEF Answer
      <3>2. CASE /\ GoTo(c, "save") /\ UNCHANGED req
                 /\ held' = [held EXCEPT ![c] = [id |-> req[c].id, pet |-> pets[req[c].id]]]
        BY <2>1, <3>2 DEF GoTo, Typed, TypeOK, CopyOK, Updating, Fresh
      <3> QED BY <1>2, <3>1, <3>2 DEF Load
    <2> QED BY <1>1, <2>1, <2>2, CopiesFrame
  <1>3. CASE Refuse(c)
    <2>1. CopyOK(c)'
      BY <1>3, ElsewhereOK DEF Refuse, Answer
    <2> QED BY <1>1, <1>3, <2>1, CopiesFrame DEF Refuse, store
  <1>4. CASE SaveMemory(c)
    BY <1>1, <1>4, AggregateTyped, CopiesWrite DEF SaveMemory
  <1>5. CASE UpsertPostgres(c)
    <2>1. PICK id \in PetIds : Write(c, id, Aggregate(c).pet) /\ id # 0
      BY <1>5, AggregateTyped, ServiceAssumption DEF UpsertPostgres, PetIds, Typed, TypeOK
    <2> QED BY <1>1, <1>5, <2>1, AggregateTyped, CopiesWrite DEF UpsertPostgres
  <1>6. CASE RereadPostgres(c)
    <2>1. UNCHANGED <<pets, partner, stale>> /\ CaughtUp(c)
      BY <1>6 DEF RereadPostgres, store
    <2>2. CopyOK(c)'
      <3>1. CASE Answer(c, "notFound")
        BY <3>1, ElsewhereOK DEF Answer
      <3>2. CASE /\ GoTo(c, "sync")
                 /\ held' = [held EXCEPT ![c] = [id |-> held[c].id, pet |-> StoredRow(c)]]
        BY <2>1, <3>2 DEF GoTo, Typed, TypeOK, CopyOK, Updating, Fresh, StoredRow
      <3> QED BY <1>6, <3>1, <3>2 DEF RereadPostgres
    <2> QED BY <1>1, <2>1, <2>2, CopiesFrame
  <1> QED BY <1>2, <1>3, <1>4, <1>5, <1>6

LEMMA CopiesSyncs ==
    ASSUME Typed, CopiesInv, NEW c \in Clients, SyncDelivered(c) \/ SyncFails(c)
    PROVE  CopiesInv'
  <1>1. Acts(c) /\ Aside(c)
    BY ActsAside DEF Acts
  <1>2. PICK failed \in BOOLEAN : AfterSync(c, failed)
    BY DEF SyncDelivered, SyncFails
  <1>3. UNCHANGED pets /\ \A d \in Clients \ {c} : overtaken'[d] = overtaken[d]
    BY <1>2 DEF AfterSync, store, CaughtUp, Typed, TypeOK
  <1>4. CopyOK(c)'
    BY <1>2, ElsewhereOK DEF AfterSync, Answer
  <1>5. \A d \in Clients \ {c} : CopyOK(d)'
    BY <1>1, <1>3, CopiesAside
  <1>6. RowZero'
    BY <1>3 DEF CopiesInv, RowZero
  <1>7. PartnerAgrees'
    <2>1. held[c].id \in PetIds /\ CopyOK(c) /\ pc[c] = "sync"
      BY DEF SyncDelivered, SyncFails, Typed, TypeOK, Held, CopiesInv
    <2>2. CASE ~PartnerEnabled
      BY <2>2 DEF PartnerAgrees
    <2>3. CASE PartnerEnabled /\ SyncDelivered(c)
      BY <1>3, <2>1, <2>3 DEF SyncDelivered, CopiesInv, PartnerAgrees, CopyOK, Fresh, Typed, TypeOK
    <2>4. CASE SyncFails(c)
      BY <1>3, <2>1, <2>4 DEF SyncFails, CopiesInv, PartnerAgrees, Typed, TypeOK
    <2> QED BY <2>2, <2>3, <2>4
  <1> QED BY <1>4, <1>5, <1>6, <1>7 DEF CopiesInv

LEMMA CopiesRecords ==
    ASSUME Typed, CopiesInv, NEW c \in Clients,
           \/ RecordNew(c) \/ RecordTakenMemory(c)
           \/ RecordTakenPostgres(c) \/ Recheck(c)
           \/ StoreFails(c) \/ RecordUnheard(c) \/ Abandon(c)
    PROVE  CopiesInv'
  <1>1. Acts(c)
    BY DEF Acts
  <1>2. UNCHANGED <<pets, partner, stale>> /\ (UNCHANGED overtaken \/ CaughtUp(c))
    BY DEF RecordNew, Bind, RecordTakenMemory, RecordTakenPostgres, Recheck, SettleTaken,
           StoreFails, RecordUnheard, Abandon, store
  <1>3. \E place : GoTo(c, place) /\ place \in {"idle", "recheck"}
    BY DEF RecordNew, Bind, RecordTakenMemory, RecordTakenPostgres, Recheck, SettleTaken, Settle,
           StoreFails, RecordUnheard, Abandon, Answer
  <1>4. CopyOK(c)'
    BY <1>3, ElsewhereOK
  <1> QED BY <1>1, <1>2, <1>4, CopiesFrame

LEMMA CopiesRestart == Restart => CopiesInv'
  <1>1. Restart => RowZero' /\ PartnerAgrees'
    BY ServiceAssumption DEF Restart, RowZero, PartnerAgrees, PetIds
  <1>2. Restart => \A c \in Clients : CopyOK(c)'
    BY DEF Restart, CopyOK, Updating
  <1> QED BY <1>1, <1>2 DEF CopiesInv

LEMMA CopiesStep == Typed /\ CopiesInv /\ [Next]_vars => CopiesInv'
  <1> SUFFICES ASSUME Typed, CopiesInv, [Next]_vars PROVE CopiesInv'
    OBVIOUS
  <1>1. CASE UNCHANGED vars
    BY <1>1 DEF vars, CopiesInv, RowZero, PartnerAgrees, CopyOK, Updating, Fresh
  <1> QED
    BY <1>1, StepCases, CopiesArrivals, CopiesLookups, CopiesSaves, CopiesSyncs, CopiesRecords,
       CopiesRestart

LEMMA CopiesInvariant == Spec => [](Typed /\ CopiesInv)
  <1>1. Typed /\ CopiesInv /\ [Next]_vars => (Typed /\ CopiesInv)'
    BY TypedStep, CopiesStep
  <1> QED BY TypedInit, CopiesInit, <1>1, PTL DEF Spec

(* Where nothing failed or crossed, the partner has the stored pet's own   *)
(* payload: saves return what was stored, and that is what is sent.        *)
THEOREM PartnerInAgreement == Spec => []PartnerAgrees
  <1>1. CopiesInv => PartnerAgrees
    BY DEF CopiesInv
  <1> QED BY <1>1, CopiesInvariant, PTL

(* An update that nobody overtook finds its pet and changes only the       *)
(* fields of its payload.                                                  *)
THEOREM UpdatesAreIsolated == Spec => IsolatedUpdateTouchesOnlyItsFields
  <1>1. ASSUME Typed, CopiesInv, [Next]_vars, NEW c \in Clients,
               pc[c] = "save", pc'[c] \in {"sync", "reread"}, req[c].op = "update", ~overtaken[c]
        PROVE  /\ pets[req[c].id] # NoPet
               /\ \A field \in {"name", "hair"} :
                    pets'[req[c].id][field] = IF req[c].body[field] = Keep
                                                THEN pets[req[c].id][field]
                                                ELSE req[c].body[field]
    <2>1. /\ held[c].id = req[c].id /\ pets[req[c].id] = held[c].pet
          /\ held[c].pet \in Pet /\ held[c].id \in PetIds
      BY <1>1 DEF CopiesInv, CopyOK, Fresh, Updating, Typed, TypeOK, Held, Placed
    <2>2. SaveMemory(c) \/ UpsertPostgres(c)
      <3>1. Acts(c)
        <4>1. Restart => pc'[c] = "idle"
          BY DEF Restart
        <4> QED BY <1>1, <4>1, WhoMoved
      <3>2. \A place : GoTo(c, place) => place \in {"sync", "reread"}
        BY <1>1 DEF GoTo, Typed, TypeOK
      <3> QED
        BY <1>1, <3>1, <3>2
           DEF Acts, ClientArrives, AddPet, UpdatePet, UpdatePetWithForm, GroomPet, DeletePet,
               Update, Arrive, HandlerLookup, ServiceLookup, Lookup, Reload, Load, Refuse,
               RereadPostgres, SyncDelivered, SyncFails, RecordNew,
               RecordTakenMemory, RecordTakenPostgres, Recheck, StoreFails, RecordUnheard,
               Abandon, Answer
    <2>3. Aggregate(c).id = held[c].id /\ Aggregate(c).pet = Patched(held[c].pet, req[c].body)
      BY <1>1 DEF Aggregate
    <2>4. Backend = "postgres" => held[c].id # 0
      BY <1>1, <2>1, ServiceAssumption DEF CopiesInv, RowZero
    <2>5. pets' = [pets EXCEPT ![held[c].id] = Patched(held[c].pet, req[c].body)]
      BY <2>2, <2>3, <2>4 DEF SaveMemory, UpsertPostgres, Write
    <2>6. pets'[req[c].id] = Patched(pets[req[c].id], req[c].body)
      BY <1>1, <2>1, <2>5 DEF Typed, TypeOK
    <2> QED BY <2>1, <2>6, ServiceAssumption DEF Patched
  <1>2. Typed /\ CopiesInv /\ [Next]_vars => [IsolatedUpdate]_vars
    BY <1>1 DEF IsolatedUpdate
  <1> QED BY <1>2, CopiesInvariant, PTL DEF Spec, IsolatedUpdateTouchesOnlyItsFields
=============================================================================
