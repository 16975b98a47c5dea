------------------------- MODULE PetWorkflowProofs --------------------------
(***************************************************************************)
(* Theorems about PetWorkflow, for any number of clients, keys, ids, names *)
(* and attempts, with or without a partner and other writers.              *)
(*                                                                         *)
(* The inductive invariant has four layers, each proved on top of Typed:   *)
(* Typed (types, and what an execution holds at each step), KeysInv (the   *)
(* records of keys and the executions under them), RowsInv (which pets are *)
(* there and which ids were given out) and SyncInv (what an execution      *)
(* knows of its pet and of the partner until somebody overtakes it).       *)
(***************************************************************************)
EXTENDS PetWorkflow, TLAPS

(* What an execution holds at each step: the request it was started with,  *)
(* a key where keys are looked up and recorded, a pet where one was saved  *)
(* or loaded, and that pet's id in the second activity.  A handler that    *)
(* replays has found a record.                                             *)
PlacedFlow(f) ==
    /\ stage[f] # "closed" /\ f \in Keys => input[f].key = f
    /\ stage[f] # "closed" /\ f \in Clients => input[f].key = NoKey
    /\ stage[f] \in {"lookup", "replay", "record"} => f \in Keys
    /\ stage[f] \in {"reread", "record", "persisted", "send", "mark", "remark", "beat"}
         => held[f].pet \in Pet
    /\ stage[f] \in {"send", "mark", "remark", "beat"} => held[f].id = made[f]
PlacedCaller(c) ==
    /\ pc[c] \in {"handlerLookup", "reload"} => Keyed(req[c])
    /\ pc[c] = "reload" => idem[req[c].key] # NoRecord

Typed ==
    /\ TypeOK
    /\ \A f \in Flows : PlacedFlow(f)
    /\ \A c \in Clients : PlacedCaller(c)

LEMMA Constants ==
    /\ NoReq \in Request /\ NoHeld \in Held /\ 0 \in PetIds
    /\ \A r \in Request : r.key \in Keys \cup {NoKey} /\ r.id \in PetIds /\ r.body \in Names \cup {Invalid}
    /\ \A h \in Held : h.id \in PetIds /\ h.pet \in MaybePet
    /\ \A p \in Pet : p.name \in Names /\ p.hash \in Hashes
    /\ \A i \in PetIds : i \in Nat /\ i <= MaxId
  <1> USE WorkflowAssumption
  <1>1. 0 \in PetIds
    BY DEF PetIds
  <1>2. NoReq \in Request
    BY <1>1 DEF NoReq, Request
  <1>3. NoHeld \in Held
    BY <1>1 DEF NoHeld, Held, MaybePet
  <1>4. \A r \in Request : r.key \in Keys \cup {NoKey} /\ r.id \in PetIds /\ r.body \in Names \cup {Invalid}
    BY DEF Request
  <1>5. \A h \in Held : h.id \in PetIds /\ h.pet \in MaybePet
    BY DEF Held
  <1>6. \A p \in Pet : p.name \in Names /\ p.hash \in Hashes
    BY DEF Pet
  <1>7. \A i \in PetIds : i \in Nat /\ i <= MaxId
    BY DEF PetIds
  <1> QED BY <1>1, <1>2, <1>3, <1>4, <1>5, <1>6, <1>7

LEMMA TypedInit == Init => Typed
  <1> USE WorkflowAssumption, Constants
  <1>1. Init => TypeOK
    BY DEF Init, TypeOK, MaybePet, PCs, Codes, Stages, SyncPhase, SyncStages, Limit
  <1>2. Init => (\A f \in Flows : PlacedFlow(f)) /\ (\A c \in Clients : PlacedCaller(c))
    BY DEF Init, PlacedFlow, PlacedCaller
  <1> QED BY <1>1, <1>2 DEF Typed

-----------------------------------------------------------------------------
(* Frames: whom a step leaves alone.                                       *)

(* The executions other than f go on where they were ...                   *)
Aside(f) ==
    \A g \in Flows \ {f} :
        /\ stage'[g] = stage[g] /\ attempt'[g] = attempt[g] /\ input'[g] = input[g]
        /\ made'[g] = made[g] /\ beaten'[g] = beaten[g] /\ held'[g] = held[g]
(* ... and so do callers, unless they are answered.                        *)
CallersStay ==
    \A c \in Clients : (pc'[c] = pc[c] /\ req'[c] = req[c]) \/ pc'[c] = "idle"

(* f's attempt is over: its task is queued again, or the execution closed. *)
Falls(f) ==
    /\ Aside(f) /\ CallersStay
    /\ UNCHANGED <<store, partner, answered>>
    /\ \A g \in Flows \ {f} : overtaken'[g] = overtaken[g]
    /\ \/ stage'[f] = "closed" /\ beaten'[f] = FALSE
       \/ /\ stage'[f] = Task(f) /\ input'[f] = input[f]
          /\ made'[f] = made[f] /\ beaten'[f] = beaten[f] /\ overtaken'[f] = overtaken[f]

LEMMA CloseFrame ==
    ASSUME Typed, NEW f \in Flows, NEW code, Close(f, code)
    PROVE  /\ Aside(f) /\ CallersStay
           /\ \A g \in Flows \ {f} : overtaken'[g] = overtaken[g]
           /\ stage'[f] = "closed" /\ beaten'[f] = FALSE
  BY DEF Close, Aside, CallersStay, Typed, TypeOK

LEMMA RetryFalls ==
    ASSUME Typed, NEW f \in Flows, Retry(f), UNCHANGED <<store, partner>>
    PROVE  Falls(f)
  <1>1. CASE attempt[f] < Limit(f)
    BY <1>1 DEF Retry, Falls, Aside, CallersStay, Typed, TypeOK, api
  <1>2. CASE ~(attempt[f] < Limit(f))
    BY <1>2, CloseFrame DEF Retry, Falls
  <1> QED BY <1>1, <1>2

LEMMA CloseTyped ==
    ASSUME Typed, NEW f \in Flows, NEW code \in Codes, Close(f, code),
           UNCHANGED <<store, partner>>, answered' \in [Keys -> SUBSET PetIds]
    PROVE  Typed'
  <1> USE WorkflowAssumption, Constants DEF Close, Typed, store
  <1>1. TypeOK'
    <2> USE DEF TypeOK
    <2>1. pc' \in [Clients -> PCs] /\ req' \in [Clients -> Request] /\ reply' \in [Clients -> Codes]
      BY DEF PCs
    <2>2. stage' \in [Flows -> Stages] /\ attempt' \in [Flows -> Nat]
      BY DEF Stages
    <2>3. \A g \in Flows : attempt'[g] <= Limit(g)'
      BY DEF Limit, SyncPhase, SyncStages
    <2> QED BY <2>1, <2>2, <2>3
  <1>2. \A g \in Flows : PlacedFlow(g)'
    BY DEF TypeOK, PlacedFlow
  <1>3. \A c \in Clients : PlacedCaller(c)'
    BY DEF TypeOK, PlacedCaller
  <1> QED BY <1>1, <1>2, <1>3

LEMMA RetryTyped ==
    ASSUME Typed, NEW f \in Flows, stage[f] # "closed", Retry(f), UNCHANGED <<store, partner>>
    PROVE  Typed'
  <1> USE WorkflowAssumption, Constants
  <1>1. CASE attempt[f] < Limit(f)
    <2>0. /\ stage' = [stage EXCEPT ![f] = Task(f)]
          /\ attempt' = [attempt EXCEPT ![f] = @ + 1]
          /\ held' = [held EXCEPT ![f] = NoHeld]
          /\ UNCHANGED <<api, input, made, beaten, overtaken>>
      BY <1>1 DEF Retry
    <2> USE <2>0 DEF Typed, store, api
    <2>1. Task(f) \in Stages /\ (Task(f) \in SyncStages <=> SyncPhase(f)) /\ Task(f) \in {"persistTask", "syncTask"}
      BY DEF Task, Stages, SyncStages, PersistStages
    <2>2. TypeOK'
      <3> USE DEF TypeOK
      <3>1. Limit(f) \in Nat
        BY DEF Limit
      <3>2. stage' \in [Flows -> Stages] /\ held' \in [Flows -> Held]
        BY <2>1
      <3>3. attempt' \in [Flows -> Nat]
        OBVIOUS
      <3>4. \A g \in Flows : attempt'[g] <= Limit(g)'
        BY <1>1, <2>1, <3>1 DEF Limit, SyncPhase
      <3> QED BY <3>2, <3>3, <3>4
    <2>3. \A g \in Flows : PlacedFlow(g)'
      BY <2>1 DEF TypeOK, PlacedFlow
    <2>4. \A c \in Clients : PlacedCaller(c)'
      BY DEF TypeOK, PlacedCaller
    <2> QED BY <2>2, <2>3, <2>4
  <1>2. CASE ~(attempt[f] < Limit(f))
    BY <1>2, CloseTyped DEF Retry, Typed, TypeOK, Codes
  <1> QED BY <1>1, <1>2

LEMMA OvertakesTyped ==
    ASSUME Typed, NEW f, NEW i, Overtakes(f, i)
    PROVE  overtaken' \in [Flows -> BOOLEAN]
  BY DEF Overtakes, Typed, TypeOK

(* A step of f within its activity that keeps its request and counters.    *)
LEMMA StepTyped ==
    ASSUME Typed, NEW f \in Flows, NEW next \in Stages, stage[f] # "closed",
           stage' = [stage EXCEPT ![f] = next],
           next # "closed", next \in SyncStages <=> SyncPhase(f),
           UNCHANGED <<pc, req, reply, attempt, input, made>>,
           beaten' \in [Flows -> BOOLEAN],
           \E h \in Held : held' = [held EXCEPT ![f] = h],
           pets' \in [PetIds -> MaybePet], seq' \in PetIds,
           idem' \in [Keys -> Record \cup {NoRecord}],
           \A k \in Keys : idem[k] # NoRecord => idem'[k] # NoRecord,
           partner' \in [PetIds -> Names \cup {NoPet}],
           answered' \in [Keys -> SUBSET PetIds],
           chosen' \subseteq PetIds, deleted' \subseteq PetIds,
           overtaken' \in [Flows -> BOOLEAN],
           next \in {"lookup", "replay", "record"} => f \in Keys,
           next \in {"reread", "record", "persisted", "send", "mark", "remark", "beat"}
             => held'[f].pet \in Pet,
           next \in {"send", "mark", "remark", "beat"} => held'[f].id = made[f]
    PROVE  Typed'
  <1> USE WorkflowAssumption, Constants DEF Typed
  <1>1. TypeOK'
    <2> USE DEF TypeOK
    <2>1. stage' \in [Flows -> Stages] /\ held' \in [Flows -> Held]
      OBVIOUS
    <2>2. \A g \in Flows : attempt'[g] <= Limit(g)'
      BY DEF Limit, SyncPhase
    <2> QED BY <2>1, <2>2
  <1>2. \A g \in Flows : PlacedFlow(g)'
    <2>1. ASSUME NEW g \in Flows, g # f PROVE PlacedFlow(g)'
      BY <2>1 DEF TypeOK, PlacedFlow
    <2>2. PlacedFlow(f)'
      BY DEF TypeOK, PlacedFlow
    <2> QED BY <2>1, <2>2
  <1>3. \A c \in Clients : PlacedCaller(c)'
    <2> SUFFICES ASSUME NEW c \in Clients PROVE PlacedCaller(c)'
      OBVIOUS
    <2>1. Keyed(req[c]) => req[c].key \in Keys
      BY DEF TypeOK, Keyed
    <2> QED BY <2>1 DEF PlacedCaller, Keyed
  <1> QED BY <1>1, <1>2, <1>3

(* A step of a caller, which leaves the executions alone.                  *)
LEMMA CallerTyped ==
    ASSUME Typed, NEW c \in Clients, NEW place \in PCs, NEW r \in Request, NEW code \in Codes,
           pc' = [pc EXCEPT ![c] = place], req' = [req EXCEPT ![c] = r],
           reply' = [reply EXCEPT ![c] = code], answered' \in [Keys -> SUBSET PetIds],
           place \in {"handlerLookup", "reload"} => Keyed(r),
           place = "reload" => idem[r.key] # NoRecord,
           UNCHANGED <<store, partner, stage, run, held, overtaken>>
    PROVE  Typed'
  <1> USE DEF Typed, store, run
  <1>1. TypeOK'
    BY DEF TypeOK, Limit, SyncPhase
  <1>2. \A g \in Flows : PlacedFlow(g)'
    BY DEF PlacedFlow
  <1>3. \A d \in Clients : PlacedCaller(d)'
    BY DEF TypeOK, PlacedCaller, Keyed
  <1> QED BY <1>1, <1>2, <1>3

LEMMA FlowOfTyped ==
    ASSUME Typed, NEW c \in Clients
    PROVE  /\ FlowOf(c) \in Flows
           /\ FlowOf(c) \in Keys => req[c].key = FlowOf(c)
           /\ FlowOf(c) \in Clients => req[c].key = NoKey
  <1>1. req[c].key \in Keys \cup {NoKey}
    BY Constants DEF Typed, TypeOK
  <1> QED BY <1>1, WorkflowAssumption DEF FlowOf, Keyed, Flows

-----------------------------------------------------------------------------
(* One lemma per kind of step.                                             *)

LEMMA TypedRequests ==
    ASSUME Typed, NEW c \in Clients, AddPet(c) \/ Serve(c) \/ RequestFails(c)
    PROVE  Typed'
  <1> USE WorkflowAssumption, Constants
  <1>1. ASSUME NEW code \in Codes, Answer(c, code), answered' \in [Keys -> SUBSET PetIds],
               UNCHANGED <<store, partner, stage, run, held, overtaken>>
        PROVE  Typed'
    BY <1>1, CallerTyped DEF Answer, GoTo, PCs
  <1>2. CASE AddPet(c)
    <2>1. PICK r \in Issued :
             /\ req' = [req EXCEPT ![c] = r]
             /\ GoTo(c, IF Keyed(r) THEN "handlerLookup" ELSE "start")
      BY <1>2 DEF AddPet
    <2>2. UNCHANGED <<store, partner, stage, run, held, answered, overtaken>>
          /\ reply' = [reply EXCEPT ![c] = "none"]
      BY <1>2 DEF AddPet
    <2> QED BY <2>1, <2>2, CallerTyped DEF GoTo, PCs, Codes, Typed, TypeOK
  <1>3. CASE HandlerLookup(c)
    <2>1. UNCHANGED <<store, partner, stage, run, held, answered, overtaken>>
          /\ answered' \in [Keys -> SUBSET PetIds] /\ Keyed(req[c])
      BY <1>3 DEF HandlerLookup, Typed, TypeOK, PlacedCaller
    <2>2. CASE (GoTo(c, "start") \/ (GoTo(c, "reload") /\ idem[req[c].key] # NoRecord)) /\ UNCHANGED <<req, reply>>
      <3>1. req[c] \in Request /\ reply[c] \in Codes
            /\ req' = [req EXCEPT ![c] = req[c]] /\ reply' = [reply EXCEPT ![c] = reply[c]]
        BY <2>2 DEF Typed, TypeOK
      <3>2. CASE GoTo(c, "start")
        BY <2>1, <3>1, <3>2, CallerTyped DEF GoTo, PCs
      <3>3. CASE GoTo(c, "reload") /\ idem[req[c].key] # NoRecord
        BY <2>1, <3>1, <3>3, CallerTyped DEF GoTo, PCs
      <3> QED BY <2>2, <3>2, <3>3
    <2>3. CASE Answer(c, "conflict")
      BY <1>1, <2>1, <2>3 DEF Codes
    <2> QED BY <1>3, <2>2, <2>3 DEF HandlerLookup
  <1>4. CASE Reload(c)
    <2>1. UNCHANGED <<store, partner, stage, run, held, overtaken>>
      BY <1>4 DEF Reload
    <2>2. req[c].key \in Keys /\ idem[req[c].key].pet \in PetIds
      BY <1>4 DEF Reload, Typed, TypeOK, PlacedCaller, Keyed, Record
    <2>3. CASE Answer(c, "notFound") /\ UNCHANGED answered
      BY <1>1, <2>1, <2>3 DEF Codes, Typed, TypeOK
    <2>4. CASE /\ Answer(c, "ok")
               /\ answered' = [answered EXCEPT ![req[c].key] = @ \cup {idem[req[c].key].pet}]
      BY <1>1, <2>1, <2>2, <2>4 DEF Codes, Typed, TypeOK
    <2> QED BY <1>4, <2>3, <2>4 DEF Reload
  <1>5. CASE Start(c)
    <2> DEFINE f == FlowOf(c)
    <2>1. /\ pc' = [pc EXCEPT ![c] = "waiting"]
          /\ UNCHANGED <<store, partner, req, reply, held, answered, overtaken, made, beaten>>
          /\ \/ /\ stage[f] = "closed"
                /\ stage' = [stage EXCEPT ![f] = "persistTask"]
                /\ attempt' = [attempt EXCEPT ![f] = 1]
                /\ input' = [input EXCEPT ![f] = req[c]]
             \/ UNCHANGED <<stage, attempt, input>>
      BY <1>5 DEF Start, GoTo, run
    <2>2. /\ f \in Flows
          /\ f \in Keys => req[c].key = f
          /\ f \in Clients => req[c].key = NoKey
      BY FlowOfTyped
    <2> HIDE DEF f
    <2>3. TypeOK'
      <3>1. stage' \in [Flows -> Stages] /\ attempt' \in [Flows -> Nat]
        <4>1. "persistTask" \in Stages /\ stage \in [Flows -> Stages] /\ attempt \in [Flows -> Nat]
          BY DEF Stages, PersistStages, Typed, TypeOK
        <4>2. \/ stage' = [stage EXCEPT ![f] = "persistTask"] /\ attempt' = [attempt EXCEPT ![f] = 1]
              \/ stage' = stage /\ attempt' = attempt
          BY <2>1
        <4> QED BY <4>1, <4>2
      <3>4. input' \in [Flows -> Request]
        <4>1. req[c] \in Request /\ input \in [Flows -> Request]
          BY DEF Typed, TypeOK
        <4>2. input' = [input EXCEPT ![f] = req[c]] \/ input' = input
          BY <2>1
        <4> QED BY <4>1, <4>2
      <3> USE <2>1, <2>2 DEF Typed, TypeOK, store
      <3>2. pc' \in [Clients -> PCs]
        BY DEF PCs
      <3>3. \A g \in Flows : attempt'[g] <= Limit(g)'
        BY DEF Limit, SyncPhase, SyncStages
      <3> QED BY <3>1, <3>2, <3>3, <3>4
    <2>4. ASSUME NEW g \in Flows PROVE PlacedFlow(g)'
      <3>1. UNCHANGED <<held, made>>
        BY <2>1
      <3>2. CASE stage'[g] = stage[g] /\ input'[g] = input[g]
        BY <3>1, <3>2 DEF Typed, PlacedFlow
      <3>3. CASE stage'[g] = "persistTask" /\ g = f /\ input'[g] = req[c]
        BY <2>2, <3>3 DEF PlacedFlow
      <3>4. stage \in [Flows -> Stages] /\ input \in [Flows -> Request]
        BY DEF Typed, TypeOK
      <3> QED BY <2>1, <3>2, <3>3, <3>4
    <2>5. \A d \in Clients : PlacedCaller(d)'
      BY <2>1 DEF Typed, TypeOK, PlacedCaller, Keyed, store
    <2> QED BY <2>3, <2>4, <2>5 DEF Typed
  <1>6. CASE RequestFails(c)
    BY <1>1, <1>6 DEF RequestFails, Codes, Typed, TypeOK
  <1> QED BY <1>2, <1>3, <1>4, <1>5, <1>6 DEF Serve

(* A step that writes nothing to the database.                             *)
LEMMA ReadTyped ==
    ASSUME Typed, NEW f \in Flows, NEW next \in Stages, stage[f] # "closed", Step(f, next),
           next # "closed", next \in SyncStages <=> SyncPhase(f),
           \E h \in Held : held' = [held EXCEPT ![f] = h],
           UNCHANGED <<store, partner>>, overtaken' \in [Flows -> BOOLEAN],
           next \in {"lookup", "replay", "record"} => f \in Keys,
           next \in {"reread", "record", "persisted", "send", "mark", "remark", "beat"}
             => held'[f].pet \in Pet,
           next \in {"send", "mark", "remark", "beat"} => held'[f].id = made[f]
    PROVE  Typed'
  <1>1. /\ stage' = [stage EXCEPT ![f] = next]
        /\ UNCHANGED <<pc, req, reply, answered, attempt, input, made, beaten>>
        /\ UNCHANGED <<pets, seq, idem, chosen, deleted, partner>>
    BY DEF Step, api, run, store
  <1>2. /\ beaten' \in [Flows -> BOOLEAN]
        /\ pets' \in [PetIds -> MaybePet] /\ seq' \in PetIds
        /\ idem' \in [Keys -> Record \cup {NoRecord}]
        /\ \A k \in Keys : idem[k] # NoRecord => idem'[k] # NoRecord
        /\ partner' \in [PetIds -> Names \cup {NoPet}]
        /\ answered' \in [Keys -> SUBSET PetIds]
        /\ chosen' \subseteq PetIds /\ deleted' \subseteq PetIds
    BY <1>1 DEF Typed, TypeOK
  <1> QED BY <1>1, <1>2, StepTyped

LEMMA KeptHeld ==
    ASSUME Typed, NEW f \in Flows, UNCHANGED held
    PROVE  \E h \in Held : held' = [held EXCEPT ![f] = h]
  <1>1. held[f] \in Held /\ held' = [held EXCEPT ![f] = held[f]]
    BY DEF Typed, TypeOK
  <1> QED BY <1>1

LEMMA ReadBackTyped ==
    ASSUME Typed, NEW f \in Flows, NEW here \in Stages, NEW next \in Stages,
           ReadBack(f, here, next), here # "closed",
           next # "closed", next \in SyncStages <=> here \in SyncStages,
           next \in {"lookup", "replay", "record"} => f \in Keys,
           next \in {"send", "mark", "remark", "beat"} => held[f].id = made[f]
    PROVE  Typed'
  <1> USE WorkflowAssumption, Constants
  <1>1. stage[f] = here /\ UNCHANGED <<store, partner>>
    BY DEF ReadBack
  <1>2. CASE Retry(f)
    BY <1>1, <1>2, RetryTyped
  <1>3. CASE /\ Step(f, next) /\ UNCHANGED overtaken /\ pets[held[f].id] # NoPet
             /\ held' = [held EXCEPT ![f] = [id |-> held[f].id, pet |-> pets[held[f].id]]]
    <2>1. held[f].id \in PetIds /\ pets[held[f].id] \in Pet
      BY <1>3 DEF Typed, TypeOK, MaybePet
    <2>2. [id |-> held[f].id, pet |-> pets[held[f].id]] \in Held
      BY <2>1 DEF Held, MaybePet
    <2>3. held'[f] = [id |-> held[f].id, pet |-> pets[held[f].id]]
      BY <1>3 DEF Typed, TypeOK
    <2>4. overtaken' \in [Flows -> BOOLEAN]
      BY <1>3 DEF Typed, TypeOK
    <2>5. SyncPhase(f) <=> here \in SyncStages
      BY <1>1 DEF SyncPhase
    <2>6. \E h \in Held : held' = [held EXCEPT ![f] = h]
      BY <1>3, <2>2
    <2>7. held'[f].pet \in Pet /\ held'[f].id = held[f].id
      BY <2>1, <2>3
    <2> QED BY <1>1, <1>3, <2>4, <2>5, <2>6, <2>7, ReadTyped
  <1> QED BY <1>2, <1>3 DEF ReadBack

LEMMA TypedPersist ==
    ASSUME Typed, NEW f \in Flows,
           \/ PersistStart(f) \/ PersistLookup(f) \/ PersistReplay(f) \/ PersistRefuse(f)
           \/ PersistSave(f) \/ PersistReread(f) \/ PersistRecord(f) \/ Persisted(f)
    PROVE  Typed'
  <1> USE WorkflowAssumption, Constants
  <1>0. /\ overtaken \in [Flows -> BOOLEAN] /\ input[f] \in Request
        /\ stage[f] # "closed" /\ Keyed(input[f]) => f \in Keys /\ input[f].key = f
    BY DEF Typed, TypeOK, PlacedFlow, Keyed, Flows
  <1>1. CASE PersistStart(f)
    <2>1. stage[f] = "persistTask" /\ UNCHANGED <<store, partner, held, overtaken>>
      BY <1>1 DEF PersistStart
    <2>2. CASE Step(f, "lookup") /\ Keyed(input[f])
      <3>1. f \in Keys
        BY <1>0, <2>1, <2>2
      <3>2. "lookup" \in Stages /\ ("lookup" \in SyncStages <=> SyncPhase(f))
        BY <2>1 DEF Stages, PersistStages, SyncStages, SyncPhase
      <3> QED BY <1>0, <2>1, <2>2, <3>1, <3>2, KeptHeld, ReadTyped
    <2>3. CASE Step(f, "save")
      BY <1>0, <2>1, <2>3, KeptHeld, ReadTyped DEF Stages, PersistStages, SyncStages, SyncPhase
    <2> QED BY <1>1, <2>2, <2>3 DEF PersistStart, Step
  <1>2. CASE PersistLookup(f)
    <2>1. stage[f] = "lookup" /\ UNCHANGED <<store, partner>>
      BY <1>2 DEF PersistLookup
    <2>2. CASE Step(f, "save") /\ UNCHANGED <<held, overtaken>>
      BY <1>0, <2>1, <2>2, KeptHeld, ReadTyped DEF Stages, PersistStages, SyncStages, SyncPhase
    <2>3. CASE Retry(f)
      BY <2>1, <2>3, RetryTyped
    <2>4. CASE /\ ~Free(f) /\ Step(f, "replay") /\ UNCHANGED overtaken
               /\ held' = [held EXCEPT ![f] = [id |-> KeyRecord(f).pet, pet |-> NoPet]]
      <3>0. f \in Keys /\ input[f].key = f
        BY <2>1 DEF Typed, PlacedFlow
      <3>a. idem \in [Keys -> Record \cup {NoRecord}]
        BY DEF Typed, TypeOK
      <3>1. f \in Keys /\ KeyRecord(f) \in Record
        BY <2>4, <3>0, <3>a DEF Free, KeyRecord
      <3>2. [id |-> KeyRecord(f).pet, pet |-> NoPet] \in Held
        BY <3>1 DEF Record, Held, MaybePet
      <3> QED BY <1>0, <2>1, <2>4, <3>1, <3>2, ReadTyped
              DEF Stages, PersistStages, SyncStages, SyncPhase
    <2> QED BY <1>2, <2>2, <2>3, <2>4 DEF PersistLookup
  <1>3. CASE PersistReplay(f)
    BY <1>3, ReadBackTyped DEF PersistReplay, Stages, PersistStages, SyncStages
  <1>4. CASE PersistRefuse(f)
    BY <1>4, RetryTyped DEF PersistRefuse
  <1>5. CASE PersistSave(f)
    <2> DEFINE pet == [name |-> input[f].body, hash |-> NoHash]
               id  == IF input[f].id = 0 THEN seq + 1 ELSE input[f].id
    <2>1. /\ stage[f] = "save" /\ id \in PetIds
          /\ seq' = (IF input[f].id = 0 THEN seq + 1 ELSE seq)
          /\ chosen' = (IF input[f].id = 0 THEN chosen \ {id} ELSE chosen \cup {id})
          /\ deleted' = deleted \ {id}
          /\ pets' = [pets EXCEPT ![id] = pet]
          /\ held' = [held EXCEPT ![f] = [id |-> id, pet |-> pet]]
          /\ stage' = [stage EXCEPT ![f] = "reread"]
          /\ UNCHANGED <<idem, partner, pc, req, reply, answered, attempt, input, made, beaten>>
      BY <1>5 DEF PersistSave, Advanced, api
    <2>2. overtaken' \in [Flows -> BOOLEAN]
      BY <1>5, OvertakesTyped DEF PersistSave
    <2>3. pet \in Pet
      BY <1>0, <1>5 DEF PersistSave, Refused, Pet, Hashes
    <2>4. [id |-> id, pet |-> pet] \in Held
      BY <2>1, <2>3 DEF Held, MaybePet
    <2>5. seq' \in PetIds
      BY <2>1 DEF Typed, TypeOK
    <2>6. held'[f].pet \in Pet
      BY <2>1, <2>3 DEF Typed, TypeOK
    <2>7. pets' \in [PetIds -> MaybePet] /\ chosen' \subseteq PetIds /\ deleted' \subseteq PetIds
      BY <2>1, <2>3 DEF Typed, TypeOK, MaybePet
    <2>8. /\ beaten' \in [Flows -> BOOLEAN] /\ idem' \in [Keys -> Record \cup {NoRecord}]
          /\ partner' \in [PetIds -> Names \cup {NoPet}] /\ answered' \in [Keys -> SUBSET PetIds]
          /\ \A k \in Keys : idem[k] # NoRecord => idem'[k] # NoRecord
      BY <2>1 DEF Typed, TypeOK
    <2>9. \E h \in Held : held' = [held EXCEPT ![f] = h]
      BY <2>1, <2>4
    <2>10. "reread" \in Stages /\ ("reread" \in SyncStages <=> SyncPhase(f))
      BY <2>1 DEF Stages, PersistStages, SyncStages, SyncPhase
    <2> HIDE DEF id, pet
    <2> QED BY <2>1, <2>2, <2>5, <2>6, <2>7, <2>8, <2>9, <2>10, StepTyped
  <1>6. CASE PersistReread(f)
    <2>1. PICK next \in {"record", "persisted"} :
             ReadBack(f, "reread", next) /\ (next = "record" => Keyed(input[f]))
      BY <1>6 DEF PersistReread
    <2>2. "reread" \in Stages /\ next \in Stages /\ (next \in SyncStages <=> "reread" \in SyncStages)
      BY DEF Stages, PersistStages, SyncStages
    <2>3. next = "record" => f \in Keys
      BY <1>0, <2>1 DEF ReadBack
    <2> QED BY <2>1, <2>2, <2>3, ReadBackTyped
  <1>7. CASE PersistRecord(f)
    <2>1. /\ stage[f] = "record" /\ f \in Keys /\ input[f].key = f
          /\ idem' = [idem EXCEPT ![f] = NewRecord(f)]
          /\ stage' = [stage EXCEPT ![f] = "persisted"]
          /\ UNCHANGED <<pets, seq, chosen, deleted, partner, held, overtaken>>
          /\ UNCHANGED <<pc, req, reply, answered, attempt, input, made, beaten>>
      BY <1>7 DEF PersistRecord, Step, Typed, PlacedFlow, api, run
    <2>2. NewRecord(f) \in Record /\ NewRecord(f) # NoRecord
      BY <1>0 DEF NewRecord, Fingerprint, Record, Typed, TypeOK
    <2>3. /\ idem' \in [Keys -> Record \cup {NoRecord}]
          /\ \A k \in Keys : idem[k] # NoRecord => idem'[k] # NoRecord
      BY <2>1, <2>2 DEF Typed, TypeOK
    <2>4. held'[f].pet \in Pet
      BY <2>1 DEF Typed, PlacedFlow
    <2>5. /\ beaten' \in [Flows -> BOOLEAN] /\ overtaken' \in [Flows -> BOOLEAN]
          /\ pets' \in [PetIds -> MaybePet] /\ seq' \in PetIds
          /\ partner' \in [PetIds -> Names \cup {NoPet}]
          /\ answered' \in [Keys -> SUBSET PetIds]
          /\ chosen' \subseteq PetIds /\ deleted' \subseteq PetIds
      BY <2>1 DEF Typed, TypeOK
    <2>6. "persisted" \in Stages /\ ("persisted" \in SyncStages <=> SyncPhase(f))
      BY <2>1 DEF Stages, PersistStages, SyncStages, SyncPhase
    <2>7. \E h \in Held : held' = [held EXCEPT ![f] = h]
      BY <2>1, KeptHeld
    <2> QED BY <2>1, <2>3, <2>4, <2>5, <2>6, <2>7, StepTyped
  <1>8. CASE Persisted(f)
    <2>1. /\ stage[f] = "persisted" /\ stage' = [stage EXCEPT ![f] = "syncTask"]
          /\ attempt' = [attempt EXCEPT ![f] = 1] /\ made' = [made EXCEPT ![f] = held[f].id]
          /\ held' = [held EXCEPT ![f] = NoHeld]
          /\ UNCHANGED <<pets, seq, idem, chosen, deleted, partner, input, beaten, overtaken>>
          /\ UNCHANGED <<pc, req, reply, answered>>
      BY <1>8 DEF Persisted, store, api
    <2>2. TypeOK'
      <3> USE <2>1 DEF Typed, TypeOK
      <3>1. stage' \in [Flows -> Stages] /\ attempt' \in [Flows -> Nat]
            /\ made' \in [Flows -> PetIds] /\ held' \in [Flows -> Held]
        BY DEF Stages, SyncStages
      <3>2. \A g \in Flows : attempt'[g] <= Limit(g)'
        BY DEF Limit, SyncPhase, SyncStages
      <3> QED BY <3>1, <3>2
    <2>3. \A g \in Flows : PlacedFlow(g)'
      BY <2>1 DEF Typed, TypeOK, PlacedFlow
    <2>4. \A c \in Clients : PlacedCaller(c)'
      BY <2>1 DEF Typed, PlacedCaller, Keyed
    <2> QED BY <2>2, <2>3, <2>4 DEF Typed
  <1> QED BY <1>1, <1>2, <1>3, <1>4, <1>5, <1>6, <1>7, <1>8

(* The hash of a pet is one: nested hashes are told apart by parity.       *)
LEMMA PartnerHashTyped ==
    ASSUME NEW pet \in Pet
    PROVE  PartnerHash(pet) \in Names \X {0, 1} /\ pet.hash # PartnerHash(pet)
  <1>1. CASE pet.hash = NoHash
    BY <1>1, WorkflowAssumption DEF PartnerHash, Pet
  <1>2. CASE pet.hash # NoHash
    <2>1. PICK name \in Names, bit \in {0, 1} : pet.hash = <<name, bit>>
      BY <1>2 DEF Pet, Hashes
    <2>2. PartnerHash(pet) = <<pet.name, 1 - bit>> /\ pet.name \in Names
      BY <1>2, <2>1 DEF PartnerHash, Pet
    <2>3. 1 - bit \in {0, 1} /\ 1 - bit # bit
      OBVIOUS
    <2> QED BY <2>1, <2>2, <2>3
  <1> QED BY <1>1, <1>2

LEMMA MarkedTyped ==
    ASSUME NEW f \in Flows, held[f].pet \in Pet
    PROVE  Marked(f) \in Pet /\ Marked(f).name = held[f].pet.name
  <1>1. Marked(f) = [name |-> held[f].pet.name, hash |-> PartnerHash(held[f].pet)]
    BY DEF Marked, Pet
  <1> QED BY <1>1, PartnerHashTyped DEF Pet, Hashes

LEMMA TypedSync ==
    ASSUME Typed, NEW f \in Flows,
           \/ SyncStart(f) \/ SyncLoad(f) \/ SyncSend(f) \/ SyncMark(f)
           \/ SyncRemark(f) \/ SyncHeartbeat(f) \/ Synced(f) \/ AttemptFails(f)
    PROVE  Typed'
  <1> USE WorkflowAssumption, Constants
  <1>0. overtaken \in [Flows -> BOOLEAN]
    BY DEF Typed, TypeOK
  <1>1. CASE SyncStart(f)
    <2>1. stage[f] = "syncTask" /\ UNCHANGED <<store, partner, held, overtaken>>
      BY <1>1 DEF SyncStart
    <2>2. CASE Step(f, "synced")
      BY <1>0, <2>1, <2>2, KeptHeld, ReadTyped DEF Stages, PersistStages, SyncStages, SyncPhase
    <2>3. CASE Step(f, "load")
      BY <1>0, <2>1, <2>3, KeptHeld, ReadTyped DEF Stages, PersistStages, SyncStages, SyncPhase
    <2> QED BY <1>1, <2>2, <2>3 DEF SyncStart, Step
  <1>2. CASE SyncLoad(f)
    <2> DEFINE row == pets[made[f]]
    <2>1. stage[f] = "load" /\ UNCHANGED <<store, partner>>
      BY <1>2 DEF SyncLoad
    <2>2. CASE Retry(f)
      BY <2>1, <2>2, RetryTyped
    <2>3. CASE /\ row # NoPet /\ held' = [held EXCEPT ![f] = [id |-> made[f], pet |-> row]]
               /\ overtaken' = [overtaken EXCEPT ![f] = FALSE]
               /\ Step(f, "synced") \/ Step(f, "send")
      <3>1. row \in Pet /\ [id |-> made[f], pet |-> row] \in Held
        BY <2>3 DEF Typed, TypeOK, MaybePet, Held
      <3>2. held'[f] = [id |-> made[f], pet |-> row]
        BY <2>3 DEF Typed, TypeOK
      <3>3. overtaken' \in [Flows -> BOOLEAN] /\ held'[f].pet \in Pet /\ held'[f].id = made[f]
        BY <1>0, <2>3, <3>1, <3>2
      <3>6. \E h \in Held : held' = [held EXCEPT ![f] = h]
        BY <2>3, <3>1
      <3> HIDE DEF row
      <3>4. CASE Step(f, "synced")
        BY <2>1, <3>3, <3>4, <3>6, ReadTyped
           DEF Stages, PersistStages, SyncStages, SyncPhase
      <3>5. CASE Step(f, "send")
        BY <2>1, <3>3, <3>5, <3>6, ReadTyped
           DEF Stages, PersistStages, SyncStages, SyncPhase
      <3> QED BY <2>3, <3>4, <3>5
    <2> QED BY <1>2, <2>2, <2>3 DEF SyncLoad, Step
  <1>3. CASE SyncSend(f)
    <2>1. /\ stage[f] = "send" /\ stage' = [stage EXCEPT ![f] = "mark"]
          /\ partner' = [partner EXCEPT ![held[f].id] = held[f].pet.name]
          /\ UNCHANGED <<pets, seq, idem, chosen, deleted, held>>
          /\ UNCHANGED <<pc, req, reply, answered, attempt, input, made, beaten>>
      BY <1>3 DEF SyncSend, Step, store, api, run
    <2>2. held[f].pet \in Pet /\ held'[f] = held[f] /\ held[f].id = made[f]
      BY <2>1 DEF Typed, PlacedFlow
    <2>3. /\ beaten' \in [Flows -> BOOLEAN] /\ idem' \in [Keys -> Record \cup {NoRecord}]
          /\ \A k \in Keys : idem[k] # NoRecord => idem'[k] # NoRecord
          /\ pets' \in [PetIds -> MaybePet] /\ seq' \in PetIds
          /\ answered' \in [Keys -> SUBSET PetIds]
          /\ chosen' \subseteq PetIds /\ deleted' \subseteq PetIds
      BY <2>1 DEF Typed, TypeOK
    <2>4. partner' \in [PetIds -> Names \cup {NoPet}]
      BY <2>1, <2>2 DEF Typed, TypeOK
    <2>5. overtaken' \in [Flows -> BOOLEAN]
      BY <1>3, OvertakesTyped DEF SyncSend
    <2>6. "mark" \in Stages /\ ("mark" \in SyncStages <=> SyncPhase(f))
      BY <2>1 DEF Stages, SyncStages, SyncPhase
    <2>7. \E h \in Held : held' = [held EXCEPT ![f] = h]
      BY <2>1, KeptHeld
    <2> QED BY <2>1, <2>2, <2>3, <2>4, <2>5, <2>6, <2>7, StepTyped
  <1>4. CASE SyncMark(f)
    <2>1. /\ stage[f] = "mark" /\ stage' = [stage EXCEPT ![f] = "remark"]
          /\ pets' = [pets EXCEPT ![held[f].id] = Marked(f)]
          /\ deleted' = deleted \ {held[f].id}
          /\ UNCHANGED <<seq, idem, chosen, partner, held>>
          /\ UNCHANGED <<pc, req, reply, answered, attempt, input, made, beaten>>
      BY <1>4 DEF SyncMark, Step, api, run
    <2>2. held[f].pet \in Pet /\ held'[f] = held[f] /\ held[f].id = made[f]
      BY <2>1 DEF Typed, PlacedFlow
    <2>3. /\ beaten' \in [Flows -> BOOLEAN] /\ idem' \in [Keys -> Record \cup {NoRecord}]
          /\ \A k \in Keys : idem[k] # NoRecord => idem'[k] # NoRecord
          /\ seq' \in PetIds /\ partner' \in [PetIds -> Names \cup {NoPet}]
          /\ answered' \in [Keys -> SUBSET PetIds]
          /\ chosen' \subseteq PetIds /\ deleted' \subseteq PetIds
      BY <2>1 DEF Typed, TypeOK
    <2>4. pets' \in [PetIds -> MaybePet]
      BY <2>1, <2>2, MarkedTyped DEF Typed, TypeOK, MaybePet
    <2>5. overtaken' \in [Flows -> BOOLEAN]
      BY <1>4, OvertakesTyped DEF SyncMark
    <2>6. "remark" \in Stages /\ ("remark" \in SyncStages <=> SyncPhase(f))
      BY <2>1 DEF Stages, SyncStages, SyncPhase
    <2>7. \E h \in Held : held' = [held EXCEPT ![f] = h]
      BY <2>1, KeptHeld
    <2> QED BY <2>1, <2>2, <2>3, <2>4, <2>5, <2>6, <2>7, StepTyped
  <1>5. CASE SyncRemark(f)
    <2>1. stage[f] = "remark" /\ held[f].id = made[f]
      BY <1>5 DEF SyncRemark, ReadBack, Typed, PlacedFlow
    <2> QED BY <1>5, <2>1, ReadBackTyped DEF SyncRemark, Stages, SyncStages, PersistStages
  <1>6. CASE SyncHeartbeat(f)
    <2>1. /\ stage[f] = "beat" /\ stage' = [stage EXCEPT ![f] = "synced"]
          /\ \E heard \in BOOLEAN : beaten' = [beaten EXCEPT ![f] = heard]
          /\ UNCHANGED <<pets, seq, idem, chosen, deleted, partner>>
          /\ UNCHANGED <<pc, req, reply, answered, attempt, input, made, held, overtaken>>
      BY <1>6 DEF SyncHeartbeat, store, api
    <2>2. beaten' \in [Flows -> BOOLEAN]
      BY <2>1 DEF Typed, TypeOK
    <2>3. /\ overtaken' \in [Flows -> BOOLEAN] /\ idem' \in [Keys -> Record \cup {NoRecord}]
          /\ \A k \in Keys : idem[k] # NoRecord => idem'[k] # NoRecord
          /\ pets' \in [PetIds -> MaybePet] /\ seq' \in PetIds
          /\ partner' \in [PetIds -> Names \cup {NoPet}]
          /\ answered' \in [Keys -> SUBSET PetIds]
          /\ chosen' \subseteq PetIds /\ deleted' \subseteq PetIds
      BY <2>1 DEF Typed, TypeOK
    <2>4. "synced" \in Stages /\ ("synced" \in SyncStages <=> SyncPhase(f))
      BY <2>1 DEF Stages, SyncStages, SyncPhase
    <2>5. \E h \in Held : held' = [held EXCEPT ![f] = h]
      BY <2>1, KeptHeld
    <2> QED BY <2>1, <2>2, <2>3, <2>4, <2>5, StepTyped
  <1>7. CASE Synced(f)
    <2>1. answered' \in [Keys -> SUBSET PetIds]
      BY <1>7 DEF Synced, Typed, TypeOK
    <2> QED BY <1>7, <2>1, CloseTyped DEF Synced, Codes
  <1>8. CASE AttemptFails(f)
    BY <1>8, RetryTyped DEF AttemptFails, Queued
  <1> QED BY <1>1, <1>2, <1>3, <1>4, <1>5, <1>6, <1>7, <1>8

(* The API's other writers leave requests and executions alone.            *)
LEMMA TypedOthers ==
    ASSUME Typed, UpdatePet \/ DeletePet
    PROVE  Typed'
  <1> USE WorkflowAssumption, Constants
  <1>1. UNCHANGED <<seq, idem, chosen, pc, req, reply, answered, stage, attempt, input, made, beaten, held>>
    BY DEF UpdatePet, DeletePet, api, run
  <1>2. /\ pets' \in [PetIds -> MaybePet] /\ deleted' \subseteq PetIds
        /\ partner' \in [PetIds -> Names \cup {NoPet}]
    <2>1. CASE UpdatePet
      <3>1. PICK i \in PetIds, name \in Names :
               /\ pets[i] # NoPet /\ pets' = [pets EXCEPT ![i].name = name]
               /\ UNCHANGED partner \/ partner' = [partner EXCEPT ![i] = name]
        BY <2>1 DEF UpdatePet
      <3>2. pets[i] \in Pet
        BY <3>1 DEF Typed, TypeOK, MaybePet
      <3>3. [pets[i] EXCEPT !.name = name] \in Pet
        BY <3>2 DEF Pet
      <3>4. deleted' = deleted
        BY <2>1 DEF UpdatePet
      <3> QED BY <3>1, <3>3, <3>4 DEF Typed, TypeOK, MaybePet
    <2>2. CASE DeletePet
      BY <2>2 DEF DeletePet, Typed, TypeOK, MaybePet
    <2> QED BY <2>1, <2>2
  <1>3. overtaken' \in [Flows -> BOOLEAN]
    BY OvertakesTyped DEF UpdatePet, DeletePet
  <1>4. TypeOK'
    BY <1>1, <1>2, <1>3 DEF Typed, TypeOK, Limit, SyncPhase
  <1>5. (\A f \in Flows : PlacedFlow(f)') /\ (\A c \in Clients : PlacedCaller(c)')
    BY <1>1 DEF Typed, PlacedFlow, PlacedCaller
  <1> QED BY <1>4, <1>5 DEF Typed

LEMMA TypedStep == Typed /\ [Next]_vars => Typed'
  <1>1. Typed /\ UNCHANGED vars => Typed'
    BY DEF vars, Typed, TypeOK, Limit, SyncPhase, PlacedFlow, PlacedCaller
  <1> QED BY <1>1, TypedRequests, TypedPersist, TypedSync, TypedOthers DEF Next, Work

LEMMA TypedInvariant == Spec => []Typed
  BY TypedInit, TypedStep, PTL DEF Spec

(* Every variable keeps its type, and attempts stay within the policies.   *)
THEOREM TypeCorrect == Spec => []TypeOK
  <1>1. Typed => TypeOK
    BY DEF Typed
  <1> QED BY <1>1, TypedInvariant, PTL

-----------------------------------------------------------------------------
(* Frames of whole steps.                                                  *)

(* A request at most starts an execution ...                               *)
LEMMA RequestFrame ==
    ASSUME Typed, NEW c \in Clients, AddPet(c) \/ Serve(c) \/ RequestFails(c)
    PROVE  /\ UNCHANGED <<pets, seq, idem, chosen, deleted, partner, made, beaten, held, overtaken>>
           /\ \/ UNCHANGED stage
              \/ \E f \in Flows : /\ stage[f] = "closed"
                                  /\ stage' = [stage EXCEPT ![f] = "persistTask"]
  <1>1. CASE Start(c)
    BY <1>1, FlowOfTyped DEF Start, store, run
  <1>2. CASE AddPet(c) \/ HandlerLookup(c) \/ Reload(c) \/ RequestFails(c)
    BY <1>2 DEF AddPet, HandlerLookup, Reload, RequestFails, store, run
  <1> QED BY <1>1, <1>2 DEF Serve

(* ... and the API's other writers none.                                   *)
LEMMA OthersFrame ==
    ASSUME UpdatePet \/ DeletePet
    PROVE  UNCHANGED <<seq, idem, chosen, pc, req, reply, answered, stage, made, beaten, held>>
  BY DEF UpdatePet, DeletePet, api, run

LEMMA ReadBackFrame ==
    ASSUME Typed, NEW f \in Flows, NEW here, NEW next, ReadBack(f, here, next)
    PROVE  /\ Aside(f) /\ CallersStay
           /\ UNCHANGED <<store, partner, answered>>
           /\ \A g \in Flows \ {f} : overtaken'[g] = overtaken[g]
  <1>1. CASE Retry(f)
    BY <1>1, RetryFalls DEF ReadBack, Falls
  <1>2. CASE /\ Step(f, next) /\ UNCHANGED overtaken
             /\ held' = [held EXCEPT ![f] = [id |-> held[f].id, pet |-> pets[held[f].id]]]
    BY <1>2 DEF ReadBack, Step, api, run, Aside, CallersStay, Typed, TypeOK
  <1> QED BY <1>1, <1>2 DEF ReadBack

LEMMA WorkFrame ==
    ASSUME Typed, NEW f \in Flows, Work(f)
    PROVE  Aside(f) /\ CallersStay
  <1> USE DEF Typed, TypeOK
  <1>1. CASE PersistStart(f) \/ SyncStart(f)
    BY <1>1 DEF PersistStart, SyncStart, Step, api, run, Aside, CallersStay
  <1>2. CASE PersistLookup(f)
    <2>1. CASE Retry(f)
      BY <1>2, <2>1, RetryFalls DEF PersistLookup, Falls
    <2>2. CASE Step(f, "save") /\ UNCHANGED held
      BY <2>2 DEF Step, api, run, Aside, CallersStay
    <2>3. CASE Step(f, "replay") /\ held' = [held EXCEPT ![f] = [id |-> KeyRecord(f).pet, pet |-> NoPet]]
      BY <2>3 DEF Step, api, run, Aside, CallersStay
    <2> QED BY <1>2, <2>1, <2>2, <2>3 DEF PersistLookup
  <1>3. CASE PersistReplay(f) \/ PersistReread(f) \/ SyncRemark(f)
    BY <1>3, ReadBackFrame DEF PersistReplay, PersistReread, SyncRemark
  <1>4. CASE PersistRefuse(f) \/ AttemptFails(f)
    BY <1>4, RetryFalls DEF PersistRefuse, AttemptFails, Falls
  <1>5. CASE PersistSave(f)
    BY <1>5 DEF PersistSave, api, Aside, CallersStay
  <1>6. CASE PersistRecord(f) \/ Persisted(f)
    BY <1>6 DEF PersistRecord, Persisted, Step, store, api, run, Aside, CallersStay
  <1>7. CASE SyncLoad(f)
    <2>1. CASE Retry(f)
      BY <1>7, <2>1, RetryFalls DEF SyncLoad, Falls
    <2>2. CASE /\ Step(f, "synced") \/ Step(f, "send")
               /\ held' = [held EXCEPT ![f] = [id |-> made[f], pet |-> pets[made[f]]]]
      BY <2>2 DEF Step, api, run, Aside, CallersStay
    <2> QED BY <1>7, <2>1, <2>2 DEF SyncLoad, Step
  <1>8. CASE SyncSend(f) \/ SyncMark(f) \/ SyncHeartbeat(f)
    BY <1>8 DEF SyncSend, SyncMark, SyncHeartbeat, Step, store, api, run, Aside, CallersStay
  <1>9. CASE Synced(f)
    BY <1>9, CloseFrame DEF Synced
  <1> QED BY <1>1, <1>2, <1>3, <1>4, <1>5, <1>6, <1>7, <1>8, <1>9 DEF Work

-----------------------------------------------------------------------------
(* Keys: one execution at a time works under a key, and it records the key *)
(* it found free; what it works on from then on is the pet of the record.  *)

BoundTo(k, pet) == idem[k] # NoRecord /\ idem[k].pet = pet
KeyOK(k) ==
    /\ stage[k] \in {"save", "reread", "record"} => idem[k] = NoRecord
    /\ stage[k] \in {"reread", "record"} => held[k].id # 0
    /\ stage[k] \in {"replay", "persisted"} => BoundTo(k, held[k].id)
    /\ stage[k] \in SyncStages => BoundTo(k, made[k])
    /\ idem[k] # NoRecord => idem[k].pet # 0
KeysInv == \A k \in Keys : KeyOK(k)

LEMMA KeysInit == Init => KeysInv
  BY DEF Init, KeysInv, KeyOK, SyncStages, Flows

(* The keys of the other executions ...                                    *)
LEMMA KeysFrame ==
    ASSUME Typed, KeysInv, NEW f \in Flows, Aside(f),
           \A k \in Keys \ {f} : idem'[k] = idem[k],
           f \in Keys => KeyOK(f)'
    PROVE  KeysInv'
  BY DEF KeysInv, KeyOK, BoundTo, Aside, Flows

(* ... and f's own, when its attempt is over.                              *)
LEMMA KeysFalls ==
    ASSUME Typed, KeysInv, NEW f \in Flows, Falls(f)
    PROVE  KeysInv'
  <1>1. Aside(f) /\ UNCHANGED idem
    BY DEF Falls, store
  <1>2. stage'[f] = "closed" \/ stage'[f] = "persistTask"
        \/ (stage'[f] = "syncTask" /\ SyncPhase(f) /\ made'[f] = made[f])
    BY DEF Falls, Task
  <1>3. f \in Keys => KeyOK(f)'
    BY <1>1, <1>2 DEF KeysInv, KeyOK, BoundTo, SyncPhase, SyncStages
  <1> QED BY <1>1, <1>3, KeysFrame

LEMMA KeysPersist ==
    ASSUME Typed, KeysInv, NEW f \in Flows, Work(f),
           \/ PersistStart(f) \/ PersistLookup(f) \/ PersistReplay(f) \/ PersistRefuse(f)
           \/ PersistSave(f) \/ PersistReread(f) \/ PersistRecord(f) \/ Persisted(f)
    PROVE  KeysInv'
  <1> USE WorkflowAssumption
  <1>0. /\ Aside(f)
        /\ stage \in [Flows -> Stages] /\ held \in [Flows -> Held] /\ made \in [Flows -> PetIds]
        /\ f \in Keys => KeyOK(f) /\ (stage[f] # "closed" => input[f].key = f)
    BY WorkFrame DEF Typed, TypeOK, PlacedFlow, KeysInv
  <1> USE DEF Step, store, api, run, KeyOK, BoundTo, SyncStages
  <1>1. CASE PersistStart(f)
    <2>1. f \in Keys => Keyed(input[f])
      BY <1>0, <1>1 DEF PersistStart, Keyed, Flows
    <2>2. f \in Keys => KeyOK(f)'
      BY <1>0, <1>1, <2>1 DEF PersistStart
    <2> QED BY <1>0, <1>1, <2>2, KeysFrame DEF PersistStart
  <1>2. CASE PersistLookup(f)
    <2>1. CASE Retry(f)
      BY <1>2, <2>1, RetryFalls, KeysFalls DEF PersistLookup
    <2>2. CASE UNCHANGED idem /\ Free(f) /\ Step(f, "save") /\ UNCHANGED held
      BY <1>0, <1>2, <2>2, KeysFrame DEF PersistLookup, Free, KeyRecord
    <2>3. CASE /\ UNCHANGED idem /\ ~Free(f) /\ Step(f, "replay")
               /\ held' = [held EXCEPT ![f] = [id |-> KeyRecord(f).pet, pet |-> NoPet]]
      BY <1>0, <1>2, <2>3, KeysFrame DEF PersistLookup, Free, KeyRecord
    <2> QED BY <1>2, <2>1, <2>2, <2>3 DEF PersistLookup
  <1>3. ASSUME NEW here \in {"replay", "reread"}, NEW next \in {"record", "persisted"},
               ReadBack(f, here, next),
               next = "record" \/ f \notin Keys \/ here = "replay",
               next = "persisted" \/ here = "reread"
        PROVE  KeysInv'
    <2>1. UNCHANGED idem /\ stage[f] = here
      BY <1>3 DEF ReadBack
    <2>2. CASE Retry(f)
      BY <1>3, <2>2, RetryFalls, KeysFalls DEF ReadBack
    <2>3. CASE /\ stage' = [stage EXCEPT ![f] = next]
               /\ held' = [held EXCEPT ![f] = [id |-> held[f].id, pet |-> pets[held[f].id]]]
      <3>1. stage'[f] = next /\ held'[f].id = held[f].id
        BY <1>0, <2>3
      <3>2. f \in Keys => KeyOK(f)'
        BY <1>0, <1>3, <2>1, <3>1
      <3> QED BY <1>0, <2>1, <3>2, KeysFrame
    <2> QED BY <1>3, <2>2, <2>3 DEF ReadBack
  <1>4. CASE PersistReplay(f)
    BY <1>3, <1>4 DEF PersistReplay
  <1>5. CASE PersistRefuse(f)
    BY <1>5, RetryFalls, KeysFalls DEF PersistRefuse
  <1>6. CASE PersistSave(f)
    <2>1. PICK id \in PetIds :
             /\ id = (IF input[f].id = 0 THEN seq + 1 ELSE input[f].id)
             /\ held' = [held EXCEPT ![f] = [id |-> id, pet |-> [name |-> input[f].body, hash |-> NoHash]]]
      BY <1>6 DEF PersistSave
    <2>2. stage[f] = "save" /\ stage' = [stage EXCEPT ![f] = "reread"] /\ UNCHANGED idem
      BY <1>6 DEF PersistSave
    <2>3. held'[f].id # 0
      BY <1>0, <2>1, Constants DEF Typed, TypeOK
    <2>4. f \in Keys => KeyOK(f)'
      BY <1>0, <2>2, <2>3
    <2> QED BY <1>0, <2>2, <2>4, KeysFrame
  <1>7. CASE PersistReread(f)
    <2>1. f \in Keys => Keyed(input[f])
      BY <1>0, <1>7 DEF PersistReread, ReadBack, Keyed, Flows
    <2>2. PICK next \in {"record", "persisted"} :
             ReadBack(f, "reread", next) /\ (f \in Keys => next = "record")
      BY <1>7, <2>1 DEF PersistReread
    <2> QED BY <1>3, <2>2
  <1>8. CASE PersistRecord(f)
    <2>1. /\ stage[f] = "record" /\ f \in Keys /\ stage' = [stage EXCEPT ![f] = "persisted"]
          /\ idem' = [idem EXCEPT ![f] = NewRecord(f)] /\ UNCHANGED held
      BY <1>8 DEF PersistRecord, Typed, PlacedFlow
    <2>2. NewRecord(f) \in Record /\ NewRecord(f).pet = held[f].id
      BY <2>1, Constants DEF NewRecord, Fingerprint, Record, Typed, TypeOK
    <2>3. idem'[f] # NoRecord /\ idem'[f].pet = held[f].id /\ held[f].id # 0
      BY <1>0, <2>1, <2>2 DEF Typed, TypeOK
    <2>4. KeyOK(f)' /\ \A k \in Keys \ {f} : idem'[k] = idem[k]
      BY <1>0, <2>1, <2>3 DEF Typed, TypeOK
    <2> QED BY <1>0, <2>4, KeysFrame
  <1>9. CASE Persisted(f)
    <2>1. f \in Keys => KeyOK(f)'
      BY <1>0, <1>9 DEF Persisted
    <2> QED BY <1>0, <1>9, <2>1, KeysFrame DEF Persisted
  <1> QED BY <1>1, <1>2, <1>4, <1>5, <1>6, <1>7, <1>8, <1>9

LEMMA KeysSync ==
    ASSUME Typed, KeysInv, NEW f \in Flows, Work(f),
           \/ SyncStart(f) \/ SyncLoad(f) \/ SyncSend(f) \/ SyncMark(f)
           \/ SyncRemark(f) \/ SyncHeartbeat(f) \/ Synced(f) \/ AttemptFails(f)
    PROVE  KeysInv'
  <1>0. Aside(f) /\ stage \in [Flows -> Stages] /\ (f \in Keys => KeyOK(f))
    BY WorkFrame DEF Typed, TypeOK, KeysInv
  <1>1. CASE Retry(f) /\ UNCHANGED <<store, partner>>
    BY <1>1, RetryFalls, KeysFalls
  <1>2. ASSUME NEW next \in SyncStages, stage[f] \in SyncStages, UNCHANGED <<idem, made>>,
               stage' = [stage EXCEPT ![f] = next]
        PROVE  KeysInv'
    <2>1. stage'[f] = next
      BY <1>0, <1>2
    <2>2. f \in Keys => KeyOK(f)'
      BY <1>0, <1>2, <2>1 DEF KeyOK, BoundTo, SyncStages
    <2> QED BY <1>0, <1>2, <2>2, KeysFrame
  <1>3. CASE Synced(f)
    <2>1. stage'[f] = "closed" /\ UNCHANGED idem
      BY <1>3, CloseFrame DEF Synced, store
    <2>2. f \in Keys => KeyOK(f)'
      BY <1>0, <2>1 DEF KeyOK, BoundTo, SyncStages
    <2> QED BY <1>0, <2>1, <2>2, KeysFrame
  <1> QED BY <1>1, <1>2, <1>3
          DEF SyncStart, SyncLoad, SyncSend, SyncMark, SyncRemark, ReadBack, SyncHeartbeat,
              AttemptFails, Step, store, run, SyncStages

LEMMA KeysStep == Typed /\ KeysInv /\ [Next]_vars => KeysInv'
  <1> SUFFICES ASSUME Typed, KeysInv, [Next]_vars PROVE KeysInv'
    OBVIOUS
  <1>1. ASSUME UNCHANGED <<stage, idem, held, made>> PROVE KeysInv'
    BY <1>1 DEF KeysInv, KeyOK, BoundTo
  <1>2. ASSUME NEW c \in Clients, AddPet(c) \/ Serve(c) \/ RequestFails(c) PROVE KeysInv'
    <2>1. CASE UNCHANGED stage
      BY <1>1, <1>2, <2>1, RequestFrame
    <2>2. ASSUME NEW f \in Flows, stage[f] = "closed", stage' = [stage EXCEPT ![f] = "persistTask"]
          PROVE  KeysInv'
      BY <1>2, <2>2, RequestFrame DEF KeysInv, KeyOK, BoundTo, SyncStages, Typed, TypeOK
    <2> QED BY <1>2, <2>1, <2>2, RequestFrame
  <1>3. CASE UpdatePet \/ DeletePet
    BY <1>1, <1>3, OthersFrame
  <1>4. CASE UNCHANGED vars
    BY <1>1, <1>4 DEF vars
  <1> QED BY <1>2, <1>3, <1>4, KeysPersist, KeysSync DEF Next, Work

LEMMA KeysInvariant == Spec => [](Typed /\ KeysInv)
  <1>1. Typed /\ KeysInv /\ [Next]_vars => (Typed /\ KeysInv)'
    BY TypedStep, KeysStep
  <1> QED BY TypedInit, KeysInit, <1>1, PTL DEF Spec

(* While an attempt saves and records under a key, the key is free: no     *)
(* retry of a recorded create writes a pet.                                *)
THEOREM RetriesFindTheirKey == Spec => []KeyIsFree
  <1>1. KeysInv => KeyIsFree
    BY DEF KeysInv, KeyOK, KeyIsFree
  <1> QED BY <1>1, KeysInvariant, PTL

-----------------------------------------------------------------------------
(* The registry of keys.                                                   *)

BoundPets == [k \in Keys |-> IF idem[k] = NoRecord THEN 0 ELSE idem[k].pet]

LEMMA PetRegistryInit == Init => PetRegistry!Init
  BY DEF Init, PetRegistry!Init

(* An answer for the pet of the record is the registry's Answer.           *)
LEMMA PetRegistryAnswer ==
    ASSUME NEW k \in Keys, idem[k] # NoRecord, idem[k].pet # 0, UNCHANGED idem,
           answered' = [answered EXCEPT ![k] = @ \cup {idem[k].pet}]
    PROVE  PetRegistry!Next
  <1>1. PetRegistry!Answer(k)
    BY DEF PetRegistry!Answer
  <1> QED BY <1>1 DEF PetRegistry!Next

LEMMA PetRegistryStep ==
    Typed /\ KeysInv /\ [Next]_vars => PetRegistry!Next \/ (UNCHANGED <<BoundPets, answered>>)
  <1> SUFFICES ASSUME Typed, KeysInv, [Next]_vars
               PROVE  PetRegistry!Next \/ (UNCHANGED <<BoundPets, answered>>)
    OBVIOUS
  <1>1. UNCHANGED <<idem, answered>> => UNCHANGED <<BoundPets, answered>>
    BY DEF BoundPets
  <1>2. ASSUME NEW c \in Clients, AddPet(c) \/ HandlerLookup(c) \/ Start(c) \/ RequestFails(c)
        PROVE  UNCHANGED <<idem, answered>>
    BY <1>2 DEF AddPet, HandlerLookup, Start, RequestFails, store
  <1>3. ASSUME NEW c \in Clients, Reload(c)
        PROVE  PetRegistry!Next \/ UNCHANGED <<idem, answered>>
    <2>1. /\ req[c].key \in Keys /\ idem[req[c].key] # NoRecord
          /\ idem[req[c].key].pet # 0 /\ UNCHANGED idem
      BY <1>3, Constants DEF Reload, store, Typed, TypeOK, PlacedCaller, Keyed, KeysInv, KeyOK
    <2> QED BY <1>3, <2>1, PetRegistryAnswer DEF Reload
  <1>4. ASSUME NEW f \in Flows, PersistRecord(f)
        PROVE  PetRegistry!Next
    <2>1. /\ f \in Keys /\ idem[f] = NoRecord /\ held[f].id # 0
          /\ idem' = [idem EXCEPT ![f] = NewRecord(f)] /\ UNCHANGED answered
      BY <1>4 DEF PersistRecord, Step, api, Typed, PlacedFlow, KeysInv, KeyOK
    <2>2. NewRecord(f) \in Record /\ NewRecord(f).pet = held[f].id /\ held[f].id \in PetIds
      BY <2>1, Constants DEF NewRecord, Fingerprint, Record, Typed, TypeOK
    <2>3. BoundPets[f] = 0 /\ BoundPets' = [BoundPets EXCEPT ![f] = held[f].id]
      BY <2>1, <2>2, WorkflowAssumption DEF BoundPets, Typed, TypeOK
    <2>4. held[f].id \in PetIds \ {0}
      BY <2>1, <2>2
    <2>5. \E r \in PetIds \ {0} : PetRegistry!Bind(f, r)
      BY <2>1, <2>3, <2>4 DEF PetRegistry!Bind, BoundPets
    <2> QED BY <2>1, <2>5 DEF PetRegistry!Next, PetRegistry!Bind
  <1>5. ASSUME NEW f \in Flows, Synced(f)
        PROVE  PetRegistry!Next \/ UNCHANGED <<idem, answered>>
    <2>1. UNCHANGED idem
      BY <1>5 DEF Synced, store
    <2>2. f \in Keys => idem[f] # NoRecord /\ idem[f].pet = made[f] /\ made[f] # 0
      BY <1>5 DEF Synced, KeysInv, KeyOK, BoundTo, SyncStages
    <2> QED BY <1>5, <2>1, <2>2, PetRegistryAnswer DEF Synced
  <1>6. ASSUME NEW f \in Flows, Retry(f), UNCHANGED <<store, partner>>
        PROVE  UNCHANGED <<idem, answered>>
    BY <1>6 DEF Retry, store, api
  <1>7. ASSUME NEW f \in Flows,
               \/ PersistStart(f) \/ PersistLookup(f) \/ PersistReplay(f) \/ PersistRefuse(f)
               \/ PersistSave(f) \/ PersistReread(f) \/ Persisted(f)
               \/ SyncStart(f) \/ SyncLoad(f) \/ SyncSend(f) \/ SyncMark(f) \/ SyncRemark(f)
               \/ SyncHeartbeat(f) \/ AttemptFails(f)
        PROVE  UNCHANGED <<idem, answered>>
    BY <1>6, <1>7
       DEF PersistStart, PersistLookup, PersistReplay, PersistRefuse, PersistSave, PersistReread,
           Persisted, SyncStart, SyncLoad, SyncSend, SyncMark, SyncRemark, SyncHeartbeat,
           AttemptFails, ReadBack, Step, store, api
  <1>8. CASE UpdatePet \/ DeletePet
    BY <1>1, <1>8, OthersFrame
  <1>9. CASE UNCHANGED vars
    BY <1>1, <1>9 DEF vars
  <1> QED
    BY <1>1, <1>2, <1>3, <1>4, <1>5, <1>7, <1>8, <1>9 DEF Next, Serve, Work

(* One key is one pet: across lost attempts, joined executions and         *)
(* replays, the durable registry keeps its promise.                        *)
THEOREM PetRegistryImplemented == Spec => ImplementsPetRegistry
  <1>1. Typed /\ KeysInv /\ [Next]_vars => [PetRegistry!Next]_PetRegistry!regVars
    BY PetRegistryStep DEF PetRegistry!regVars, BoundPets
  <1> QED
    BY PetRegistryInit, KeysInvariant, <1>1, PTL DEF Spec, ImplementsPetRegistry, PetRegistry!Spec

-----------------------------------------------------------------------------
(* Rows: which pets are there, and which ids were given out.               *)

There(i) == pets[i] # NoPet \/ i \in deleted
Given(i) == i <= seq \/ i \in chosen
RowsOK(f) ==
    /\ stage[f] \in {"reread", "record"} => There(held[f].id)
    /\ stage[f] \in {"reread", "record", "persisted"} => Given(held[f].id)
    /\ stage[f] \in SyncStages => Given(made[f])

RowsInv ==
    /\ RecordedPetsExist
    /\ \A i \in PetIds : pets[i] # NoPet => Given(i)
    /\ \A f \in Flows : RowsOK(f)

LEMMA RowsInit == Init => RowsInv
  BY Constants DEF Init, RowsInv, RecordedPetsExist, RowsOK, SyncStages

(* What was there or given stays so, whatever a step writes ...            *)
Lasting ==
    \A i \in PetIds : (There(i) => There(i)') /\ (Given(i) => Given(i)')

(* ... so that a step need only answer for the executions it moves and for *)
(* the rows and records it adds.                                           *)
Kept(g) == stage'[g] = stage[g] /\ held'[g] = held[g] /\ made'[g] = made[g]

LEMMA RowsFrame ==
    ASSUME Typed, RowsInv, Lasting,
           \A g \in Flows : Kept(g) \/ RowsOK(g)',
           \A k \in Keys : idem'[k] = idem[k] \/ (idem'[k] \in Record /\ There(idem[k].pet)'),
           \A i \in PetIds : pets'[i] # NoPet => pets[i] # NoPet \/ Given(i)'
    PROVE  RowsInv'
  <1>1. RecordedPetsExist'
    <2> SUFFICES ASSUME NEW k \in Keys, idem'[k] # NoRecord PROVE There(idem[k].pet)'
      BY DEF RecordedPetsExist, There
    <2>1. CASE idem'[k] = idem[k]
      <3>1. idem[k] \in Record /\ There(idem[k].pet)
        BY <2>1 DEF RowsInv, RecordedPetsExist, There, Typed, TypeOK
      <3> QED BY <2>1, <3>1 DEF Lasting, Record, There
    <2> QED BY <2>1
  <1>2. \A i \in PetIds : pets'[i] # NoPet => Given(i)'
    BY DEF RowsInv, Lasting
  <1>3. \A g \in Flows : RowsOK(g)'
    <2> SUFFICES ASSUME NEW g \in Flows, Kept(g) PROVE RowsOK(g)'
      OBVIOUS
    <2>1. held[g].id \in PetIds /\ made[g] \in PetIds /\ RowsOK(g)
      BY Constants DEF Typed, TypeOK, RowsInv
    <2> QED BY <2>1 DEF Kept, RowsOK, Lasting, There, Given
  <1> QED BY <1>1, <1>2, <1>3 DEF RowsInv

(* Steps that leave the database alone.                                    *)
LEMMA RowsRead ==
    ASSUME Typed, RowsInv, UNCHANGED store, \A g \in Flows : Kept(g) \/ RowsOK(g)'
    PROVE  RowsInv'
  <1>1. Lasting
    BY DEF Lasting, There, Given, store
  <1> QED BY <1>1, RowsFrame DEF store

LEMMA AsideKept ==
    ASSUME NEW f \in Flows, Aside(f), RowsOK(f)'
    PROVE  \A g \in Flows : Kept(g) \/ RowsOK(g)'
  BY DEF Aside, Kept

LEMMA RowsFalls ==
    ASSUME Typed, RowsInv, NEW f \in Flows, Falls(f)
    PROVE  RowsInv'
  <1>1. Aside(f) /\ UNCHANGED store
    BY DEF Falls
  <1>2. stage'[f] = "closed" \/ stage'[f] = "persistTask"
        \/ (stage'[f] = "syncTask" /\ SyncPhase(f) /\ made'[f] = made[f])
    BY DEF Falls, Task
  <1>3. RowsOK(f)'
    BY <1>1, <1>2 DEF RowsInv, RowsOK, Given, SyncPhase, SyncStages, store
  <1> QED BY <1>1, <1>3, AsideKept, RowsRead

(* A saved row is there, and lasts like the others.                        *)
LEMMA WriteLasts ==
    ASSUME Typed, NEW i \in PetIds, NEW pet \in Pet, pets' = [pets EXCEPT ![i] = pet],
           deleted' = deleted \ {i}
    PROVE  /\ \A j \in PetIds : There(j) => There(j)'
           /\ There(i)'
           /\ \A j \in PetIds : pets'[j] # NoPet => pets[j] # NoPet \/ j = i
  BY WorkflowAssumption DEF There, Typed, TypeOK

LEMMA RowsPersist ==
    ASSUME Typed, RowsInv, NEW f \in Flows, Work(f),
           \/ PersistStart(f) \/ PersistLookup(f) \/ PersistReplay(f) \/ PersistRefuse(f)
           \/ PersistSave(f) \/ PersistReread(f) \/ PersistRecord(f) \/ Persisted(f)
    PROVE  RowsInv'
  <1> USE WorkflowAssumption
  <1>0. /\ Aside(f) /\ RowsOK(f)
        /\ stage \in [Flows -> Stages] /\ held \in [Flows -> Held] /\ made \in [Flows -> PetIds]
        /\ held[f].id \in PetIds
    BY WorkFrame, Constants DEF Typed, TypeOK, RowsInv
  <1>1. CASE Retry(f) /\ UNCHANGED <<store, partner>>
    BY <1>1, RetryFalls, RowsFalls
  <1>2. ASSUME NEW next \in {"lookup", "save", "replay"}, Step(f, next), UNCHANGED store
        PROVE  RowsInv'
    <2>1. RowsOK(f)'
      BY <1>0, <1>2 DEF Step, RowsOK, SyncStages
    <2> QED BY <1>0, <1>2, <2>1, AsideKept, RowsRead
  <1>3. ASSUME NEW here \in {"replay", "reread"}, NEW next \in {"record", "persisted"},
               ReadBack(f, here, next), here = "replay" => next = "persisted"
        PROVE  RowsInv'
    <2>1. UNCHANGED <<store, partner>> /\ stage[f] = here
      BY <1>3 DEF ReadBack
    <2>2. CASE /\ stage' = [stage EXCEPT ![f] = next] /\ pets[held[f].id] # NoPet
               /\ held' = [held EXCEPT ![f] = [id |-> held[f].id, pet |-> pets[held[f].id]]]
      <3>1. stage'[f] = next /\ held'[f].id = held[f].id
        BY <1>0, <2>2
      <3>2. Given(held[f].id) /\ There(held[f].id)
        BY <1>0, <2>2 DEF RowsInv, There
      <3>3. RowsOK(f)'
        BY <2>1, <3>1, <3>2 DEF RowsOK, There, Given, SyncStages, store
      <3> QED BY <1>0, <2>1, <3>3, AsideKept, RowsRead
    <2> QED BY <1>1, <1>3, <2>1, <2>2 DEF ReadBack, Step
  <1>4. CASE PersistStart(f) \/ PersistLookup(f)
    BY <1>1, <1>2, <1>4 DEF PersistStart, PersistLookup
  <1>5. CASE PersistReplay(f) \/ PersistReread(f)
    BY <1>3, <1>5 DEF PersistReplay, PersistReread
  <1>6. CASE PersistRefuse(f)
    BY <1>1, <1>6 DEF PersistRefuse
  <1>7. CASE PersistSave(f)
    <2>1. [name |-> input[f].body, hash |-> NoHash] \in Pet
      BY <1>7, Constants DEF PersistSave, Refused, Pet, Hashes, Typed, TypeOK
    <2>2. PICK id \in PetIds, pet \in Pet :
             /\ id = IF input[f].id = 0 THEN seq + 1 ELSE input[f].id
             /\ seq' = (IF input[f].id = 0 THEN seq + 1 ELSE seq)
             /\ chosen' = (IF input[f].id = 0 THEN chosen \ {id} ELSE chosen \cup {id})
             /\ deleted' = deleted \ {id}
             /\ pets' = [pets EXCEPT ![id] = pet]
             /\ held' = [held EXCEPT ![f] = [id |-> id, pet |-> pet]]
             /\ stage' = [stage EXCEPT ![f] = "reread"]
             /\ UNCHANGED idem
      BY <1>7, <2>1 DEF PersistSave, Advanced
    <2>3. /\ Given(id)'
          /\ \A j \in PetIds : Given(j) => Given(j)'
      BY <2>2, Constants DEF Given, Typed, TypeOK
    <2>4. stage'[f] = "reread" /\ held'[f].id = id
      BY <1>0, <2>2
    <2>5. /\ \A j \in PetIds : There(j) => There(j)'
          /\ There(id)'
          /\ \A j \in PetIds : pets'[j] # NoPet => pets[j] # NoPet \/ j = id
      BY <2>2, WriteLasts
    <2>6. RowsOK(f)'
      BY <2>3, <2>4, <2>5 DEF RowsOK, SyncStages, There, Given
    <2>7. Lasting
      BY <2>3, <2>5 DEF Lasting
    <2>8. \A j \in PetIds : pets'[j] # NoPet => pets[j] # NoPet \/ Given(j)'
      BY <2>3, <2>5
    <2> QED BY <1>0, <2>2, <2>6, <2>7, <2>8, AsideKept, RowsFrame
  <1>8. CASE PersistRecord(f)
    <2>1. /\ stage[f] = "record" /\ f \in Keys /\ stage' = [stage EXCEPT ![f] = "persisted"]
          /\ idem' = [idem EXCEPT ![f] = NewRecord(f)]
          /\ UNCHANGED <<held, pets, seq, chosen, deleted>>
      BY <1>8 DEF PersistRecord, Step, Typed, PlacedFlow
    <2>2. NewRecord(f) \in Record /\ NewRecord(f).pet = held[f].id
      BY <2>1, Constants DEF NewRecord, Fingerprint, Record, Typed, TypeOK
    <2>3. idem'[f] = NewRecord(f) /\ \A k \in Keys \ {f} : idem'[k] = idem[k]
      BY <2>1 DEF Typed, TypeOK
    <2>4. There(held[f].id) /\ Given(held[f].id)
      BY <1>0, <2>1 DEF RowsOK
    <2>5. There(idem[f].pet)'
      BY <2>1, <2>2, <2>3, <2>4 DEF There
    <2>6. RowsOK(f)'
      BY <1>0, <2>1, <2>4 DEF RowsOK, SyncStages, There, Given
    <2>7. Lasting
      BY <2>1 DEF Lasting, There, Given
    <2>8. \A k \in Keys : idem'[k] = idem[k] \/ (idem'[k] \in Record /\ There(idem[k].pet)')
      BY <2>2, <2>3, <2>5
    <2> QED BY <1>0, <2>1, <2>6, <2>7, <2>8, AsideKept, RowsFrame
  <1>9. CASE Persisted(f)
    <2>1. RowsOK(f)'
      BY <1>0, <1>9 DEF Persisted, RowsOK, Given, SyncStages, store
    <2> QED BY <1>0, <1>9, <2>1, AsideKept, RowsRead DEF Persisted
  <1> QED BY <1>4, <1>5, <1>6, <1>7, <1>8, <1>9

LEMMA RowsSync ==
    ASSUME Typed, RowsInv, NEW f \in Flows, Work(f),
           \/ SyncStart(f) \/ SyncLoad(f) \/ SyncSend(f) \/ SyncMark(f)
           \/ SyncRemark(f) \/ SyncHeartbeat(f) \/ Synced(f) \/ AttemptFails(f)
    PROVE  RowsInv'
  <1>0. Aside(f) /\ stage \in [Flows -> Stages] /\ RowsOK(f)
    BY WorkFrame DEF Typed, TypeOK, RowsInv
  <1>1. CASE Retry(f) /\ UNCHANGED <<store, partner>>
    BY <1>1, RetryFalls, RowsFalls
  <1>2. ASSUME NEW next \in SyncStages, stage[f] \in SyncStages, UNCHANGED <<seq, chosen, made>>,
               stage' = [stage EXCEPT ![f] = next]
        PROVE  RowsOK(f)'
    BY <1>0, <1>2 DEF RowsOK, Given, SyncStages
  <1>3. ASSUME NEW next \in SyncStages, stage[f] \in SyncStages, UNCHANGED <<store, made>>,
               stage' = [stage EXCEPT ![f] = next]
        PROVE  RowsInv'
    BY <1>0, <1>2, <1>3, AsideKept, RowsRead DEF store
  <1>4. CASE SyncMark(f)
    <2>1. /\ stage[f] = "mark" /\ stage' = [stage EXCEPT ![f] = "remark"]
          /\ pets' = [pets EXCEPT ![held[f].id] = Marked(f)]
          /\ deleted' = deleted \ {held[f].id}
          /\ UNCHANGED <<seq, idem, chosen, made>>
      BY <1>4 DEF SyncMark, Step, run
    <2>2. /\ held[f].id \in PetIds /\ Marked(f) \in Pet /\ held[f].id = made[f]
      BY <2>1, MarkedTyped, Constants DEF Typed, TypeOK, PlacedFlow
    <2>3. Given(held[f].id)
      BY <1>0, <2>1, <2>2 DEF RowsOK, SyncStages
    <2>4. /\ \A j \in PetIds : There(j) => There(j)'
          /\ \A j \in PetIds : pets'[j] # NoPet => pets[j] # NoPet \/ j = held[f].id
      BY <2>1, <2>2, WriteLasts
    <2>5. Lasting
      BY <2>1, <2>4 DEF Lasting, Given
    <2>6. RowsOK(f)'
      BY <1>2, <2>1 DEF SyncStages
    <2>7. \A j \in PetIds : pets'[j] # NoPet => pets[j] # NoPet \/ Given(j)'
      BY <2>2, <2>3, <2>4, <2>5 DEF Lasting
    <2> QED BY <1>0, <2>1, <2>5, <2>6, <2>7, AsideKept, RowsFrame
  <1>5. CASE Synced(f)
    <2>1. stage'[f] = "closed" /\ UNCHANGED store
      BY <1>5, CloseFrame DEF Synced
    <2>2. RowsOK(f)'
      BY <2>1 DEF RowsOK, SyncStages
    <2> QED BY <1>0, <2>1, <2>2, AsideKept, RowsRead
  <1>6. CASE SyncLoad(f) /\ ~Retry(f)
    BY <1>3, <1>6 DEF SyncLoad, Step, run, SyncStages
  <1>7. CASE SyncRemark(f) /\ ~Retry(f)
    BY <1>3, <1>7 DEF SyncRemark, ReadBack, Step, run, SyncStages
  <1>8. CASE SyncStart(f) \/ SyncSend(f) \/ SyncHeartbeat(f)
    BY <1>3, <1>8 DEF SyncStart, SyncSend, SyncHeartbeat, Step, run, SyncStages
  <1> QED BY <1>1, <1>4, <1>5, <1>6, <1>7, <1>8
          DEF SyncLoad, SyncRemark, ReadBack, AttemptFails

LEMMA RowsOthers ==
    ASSUME Typed, RowsInv, UpdatePet \/ DeletePet
    PROVE  RowsInv'
  <1> USE WorkflowAssumption
  <1>1. UNCHANGED <<seq, idem, chosen>> /\ \A g \in Flows : Kept(g)
    BY OthersFrame DEF Kept
  <1>2. \A j \in PetIds : (There(j) => There(j)') /\ (pets'[j] # NoPet => pets[j] # NoPet)
    <2>1. CASE UpdatePet
      <3>1. PICK i \in PetIds, name \in Names :
               pets[i] # NoPet /\ pets' = [pets EXCEPT ![i].name = name]
        BY <2>1 DEF UpdatePet
      <3>2. pets[i] \in Pet
        BY <3>1 DEF Typed, TypeOK, MaybePet
      <3>3. [pets[i] EXCEPT !.name = name] \in Pet
        BY <3>2 DEF Pet
      <3>4. UNCHANGED deleted
        BY <2>1 DEF UpdatePet
      <3> QED BY <3>1, <3>3, <3>4 DEF There, Typed, TypeOK
    <2>2. CASE DeletePet
      BY <2>2 DEF DeletePet, There, Typed, TypeOK
    <2> QED BY <2>1, <2>2
  <1>3. Lasting
    BY <1>1, <1>2 DEF Lasting, Given
  <1> QED BY <1>1, <1>2, <1>3, RowsFrame

LEMMA RowsStep == Typed /\ RowsInv /\ [Next]_vars => RowsInv'
  <1> SUFFICES ASSUME Typed, RowsInv, [Next]_vars PROVE RowsInv'
    OBVIOUS
  <1>1. ASSUME NEW c \in Clients, AddPet(c) \/ Serve(c) \/ RequestFails(c) PROVE RowsInv'
    <2>1. UNCHANGED <<store, made, held>>
      BY <1>1, RequestFrame DEF store
    <2>2. \A g \in Flows : stage'[g] = stage[g] \/ stage'[g] = "persistTask"
      BY <1>1, RequestFrame DEF Typed, TypeOK
    <2>3. \A g \in Flows : Kept(g) \/ RowsOK(g)'
      BY <2>1, <2>2 DEF Kept, RowsOK, SyncStages
    <2> QED BY <2>1, <2>3, RowsRead
  <1>2. CASE UNCHANGED vars
    BY <1>2, RowsRead DEF vars, store, Kept
  <1> QED BY <1>1, <1>2, RowsPersist, RowsSync, RowsOthers DEF Next, Work

LEMMA RowsInvariant == Spec => [](Typed /\ RowsInv)
  <1>1. Typed /\ RowsInv /\ [Next]_vars => (Typed /\ RowsInv)'
    BY TypedStep, RowsStep
  <1> QED BY TypedInit, RowsInit, <1>1, PTL DEF Spec

(* The pet of a recorded key is there unless it was deleted: lost attempts *)
(* and saves of others leave no record without its pet.                    *)
THEOREM RecordsHaveTheirPets == Spec => []RecordedPetsExist
  <1>1. RowsInv => RecordedPetsExist
    BY DEF RowsInv
  <1> QED BY <1>1, RowsInvariant, PTL

(* Only f's own save takes it from its save to the reread, and its mark    *)
(* from the mark to the remark.                                            *)
LEMMA StageSteps ==
    ASSUME Typed, [Next]_vars, NEW f \in Flows,
           \/ stage[f] = "save" /\ stage'[f] = "reread"
           \/ stage[f] = "mark" /\ stage'[f] = "remark"
    PROVE  /\ stage[f] = "save" => PersistSave(f)
           /\ stage[f] = "mark" => SyncMark(f)
  <1>1. stage'[f] # stage[f] /\ stage \in [Flows -> Stages]
    BY DEF Typed, TypeOK
  <1>2. PICK g \in Flows : Work(g)
    <2>1. \A c \in Clients : ~(AddPet(c) \/ Serve(c) \/ RequestFails(c))
      BY <1>1, RequestFrame
    <2>2. ~(UpdatePet \/ DeletePet) /\ ~UNCHANGED vars
      BY <1>1, OthersFrame DEF vars
    <2> QED BY <2>1, <2>2 DEF Next
  <1>3. g = f
    BY <1>1, <1>2, WorkFrame DEF Aside
  <1>4. \A next : Step(f, next) => next = stage'[f]
    BY <1>1 DEF Step
  <1>5. ~Retry(f)
    BY <1>1, CloseFrame DEF Retry, Task
  <1> QED
    BY <1>2, <1>3, <1>4, <1>5
       DEF Work, PersistStart, PersistLookup, PersistReplay, PersistRefuse, PersistReread,
           PersistSave, PersistRecord, Persisted, SyncStart, SyncLoad, SyncSend, SyncMark,
           SyncRemark, SyncHeartbeat, Synced, AttemptFails, ReadBack

(* A creation without an id overwrites no pet but one whose id a client    *)
(* chose, which the sequence had yet to reach.                             *)
THEOREM AssignedIdsAreNew == Spec => AssignedIdsOverwriteChosenOnes
  <1>1. ASSUME Typed, RowsInv, [Next]_vars, NEW f \in Flows,
               stage[f] = "save", stage'[f] = "reread", input[f].id = 0
        PROVE  pets[held'[f].id] = NoPet \/ held'[f].id \in chosen
    <2>1. PersistSave(f)
      BY <1>1, StageSteps
    <2>2. /\ seq + 1 \in PetIds
          /\ \E pet : held' = [held EXCEPT ![f] = [id |-> seq + 1, pet |-> pet]]
      BY <1>1, <2>1 DEF PersistSave
    <2>3. ~(seq + 1 <= seq)
      <3>1. seq \in Nat
        BY <1>1, Constants DEF Typed, TypeOK
      <3> QED BY <3>1
    <2>4. held'[f].id = seq + 1
      <3>1. held \in [Flows -> Held]
        BY <1>1 DEF Typed, TypeOK
      <3> QED BY <2>2, <3>1
    <2>5. Given(seq + 1) => seq + 1 \in chosen
      BY <2>3 DEF Given
    <2> QED BY <1>1, <2>2, <2>4, <2>5 DEF RowsInv
  <1>2. Typed /\ RowsInv /\ [Next]_vars => [AssignedIdsAreSafe]_vars
    BY <1>1 DEF AssignedIdsAreSafe
  <1> QED BY <1>2, RowsInvariant, PTL DEF Spec, AssignedIdsOverwriteChosenOnes, AssignedIdsAreSafe

-----------------------------------------------------------------------------
(* The partner: what an execution knows of its pet and of what the partner *)
(* was told, until somebody else writes the pet or tells the partner.      *)

Current(f) == pets[made[f]] # NoPet /\ pets[made[f]].name = held[f].pet.name
Told(f) == pets[made[f]] # NoPet /\ partner[made[f]] = pets[made[f]].name
SyncOK(f) ==
    /\ beaten[f] => stage[f] \in {"syncTask", "synced"}
    /\ stage[f] \in {"send", "mark"} /\ ~overtaken[f] => Current(f)
    /\ stage[f] \in {"mark", "remark", "beat"} /\ ~overtaken[f] => Told(f)
    /\ stage[f] = "synced" /\ PartnerEnabled /\ ~overtaken[f] => Told(f)
    /\ beaten[f] /\ PartnerEnabled /\ ~overtaken[f] => Told(f)
SyncInv == \A f \in Flows : SyncOK(f)

LEMMA SyncInit == Init => SyncInv
  BY DEF Init, SyncInv, SyncOK

(* Another step leaves g's pet and what was said of it alone, or g knows.  *)
Undisturbed(g) ==
    \/ ~SyncPhase(g)
    \/ overtaken'[g]
    \/ /\ overtaken'[g] = overtaken[g]
       /\ pets'[made[g]] = pets[made[g]] /\ partner'[made[g]] = partner[made[g]]

LEMMA SyncKept ==
    ASSUME NEW g \in Flows, SyncOK(g), Undisturbed(g), stage'[g] = stage[g],
           made'[g] = made[g], beaten'[g] = beaten[g], held'[g] = held[g]
    PROVE  SyncOK(g)'
  BY DEF SyncOK, Current, Told, Undisturbed, SyncPhase, SyncStages

LEMMA SyncFrame ==
    ASSUME Typed, SyncInv, NEW f \in Flows, Aside(f),
           \A g \in Flows \ {f} : Undisturbed(g), SyncOK(f)'
    PROVE  SyncInv'
  <1> SUFFICES ASSUME NEW g \in Flows, g # f PROVE SyncOK(g)'
    BY DEF SyncInv
  <1>1. SyncOK(g) /\ Undisturbed(g)
    BY DEF SyncInv
  <1>2. stage'[g] = stage[g] /\ made'[g] = made[g] /\ beaten'[g] = beaten[g] /\ held'[g] = held[g]
    BY DEF Aside
  <1> QED BY <1>1, <1>2, SyncKept

(* Writes of row i, and calls about it, overtake whoever syncs it.         *)
LEMMA OvertakesOthers ==
    ASSUME Typed, NEW f, NEW i \in PetIds, NEW p, NEW said, Overtakes(f, i),
           UNCHANGED pets \/ pets' = [pets EXCEPT ![i] = p],
           UNCHANGED partner \/ partner' = [partner EXCEPT ![i] = said]
    PROVE  /\ \A g \in Flows \ {f} : Undisturbed(g)
           /\ f \in Flows => overtaken'[f] = overtaken[f]
  <1>1. ASSUME NEW g \in Flows, g # f PROVE Undisturbed(g)
    <2>1. overtaken'[g] = (overtaken[g] \/ (SyncPhase(g) /\ made[g] = i))
      BY <1>1 DEF Overtakes
    <2>2. CASE made[g] = i
      BY <2>1, <2>2 DEF Undisturbed
    <2>3. CASE made[g] # i
      <3>1. pets'[made[g]] = pets[made[g]] /\ partner'[made[g]] = partner[made[g]]
        BY <2>3 DEF Typed, TypeOK
      <3>2. overtaken'[g] = overtaken[g]
        BY <2>1, <2>3 DEF Typed, TypeOK
      <3> QED BY <3>1, <3>2 DEF Undisturbed
    <2> QED BY <2>2, <2>3
  <1>2. f \in Flows => overtaken'[f] = overtaken[f]
    BY DEF Overtakes, Typed, TypeOK
  <1> QED BY <1>1, <1>2

LEMMA SyncFalls ==
    ASSUME Typed, SyncInv, NEW f \in Flows, Falls(f)
    PROVE  SyncInv'
  <1>1. Aside(f) /\ \A g \in Flows \ {f} : Undisturbed(g)
    BY DEF Falls, Undisturbed, store
  <1>2. SyncOK(f)
    BY DEF SyncInv
  <1>3. CASE stage'[f] = "closed" /\ beaten'[f] = FALSE
    BY <1>1, <1>3, SyncFrame DEF SyncOK
  <1>4. CASE /\ stage'[f] = Task(f) /\ made'[f] = made[f]
             /\ beaten'[f] = beaten[f] /\ overtaken'[f] = overtaken[f]
    <2>1. UNCHANGED <<pets, partner>>
      BY DEF Falls, store
    <2>2. stage'[f] = "syncTask" \/ (stage'[f] = "persistTask" /\ ~SyncPhase(f))
      BY <1>4 DEF Task
    <2>3. SyncOK(f)'
      BY <1>2, <1>4, <2>1, <2>2 DEF SyncOK, Told, SyncPhase, SyncStages
    <2> QED BY <1>1, <2>3, SyncFrame
  <1> QED BY <1>3, <1>4 DEF Falls

(* In the first activity nothing is known yet.                             *)
LEMMA SyncPersist ==
    ASSUME Typed, SyncInv, NEW f \in Flows, Work(f),
           \/ PersistStart(f) \/ PersistLookup(f) \/ PersistReplay(f) \/ PersistRefuse(f)
           \/ PersistSave(f) \/ PersistReread(f) \/ PersistRecord(f) \/ Persisted(f)
    PROVE  SyncInv'
  <1>0. Aside(f) /\ SyncOK(f) /\ stage \in [Flows -> Stages]
    BY WorkFrame DEF Typed, TypeOK, SyncInv
  <1>1. CASE Retry(f) /\ UNCHANGED <<store, partner>>
    BY <1>1, RetryFalls, SyncFalls
  <1>2. ASSUME NEW next \in PersistStages \cup {"syncTask"}, stage[f] \in PersistStages,
               stage' = [stage EXCEPT ![f] = next], UNCHANGED beaten
        PROVE  SyncOK(f)'
    BY <1>0, <1>2 DEF SyncOK, PersistStages
  <1>3. ASSUME NEW next \in PersistStages \cup {"syncTask"}, stage[f] \in PersistStages,
               stage' = [stage EXCEPT ![f] = next], UNCHANGED <<beaten, pets, partner, overtaken>>
        PROVE  SyncInv'
    <2>1. \A g \in Flows \ {f} : Undisturbed(g)
      BY <1>3 DEF Undisturbed
    <2>2. SyncOK(f)'
      BY <1>2, <1>3
    <2> QED BY <1>0, <2>1, <2>2, SyncFrame
  <1>4. CASE PersistSave(f)
    <2>1. PICK id \in PetIds : (\E pet : pets' = [pets EXCEPT ![id] = pet]) /\ Overtakes(f, id)
      BY <1>4 DEF PersistSave
    <2>2. UNCHANGED <<partner, beaten>> /\ stage[f] = "save" /\ stage' = [stage EXCEPT ![f] = "reread"]
      BY <1>4 DEF PersistSave
    <2>3. \A g \in Flows \ {f} : Undisturbed(g)
      BY <2>1, <2>2, OvertakesOthers
    <2>4. SyncOK(f)'
      BY <1>2, <2>2 DEF PersistStages
    <2> QED BY <1>0, <2>3, <2>4, SyncFrame
  <1>5. CASE PersistLookup(f) /\ ~Retry(f)
    BY <1>3, <1>5 DEF PersistLookup, Step, store, run, PersistStages
  <1>6. CASE (PersistReplay(f) \/ PersistReread(f)) /\ ~Retry(f)
    BY <1>3, <1>6 DEF PersistReplay, PersistReread, ReadBack, Step, store, run, PersistStages
  <1>7. CASE PersistStart(f) \/ PersistRecord(f) \/ Persisted(f)
    BY <1>3, <1>7 DEF PersistStart, PersistRecord, Persisted, Step, store, run, PersistStages
  <1> QED BY <1>1, <1>4, <1>5, <1>6, <1>7
          DEF PersistLookup, PersistReplay, PersistReread, PersistRefuse, ReadBack

LEMMA SyncSync ==
    ASSUME Typed, SyncInv, NEW f \in Flows, Work(f),
           \/ SyncStart(f) \/ SyncLoad(f) \/ SyncSend(f) \/ SyncMark(f)
           \/ SyncRemark(f) \/ SyncHeartbeat(f) \/ Synced(f) \/ AttemptFails(f)
    PROVE  SyncInv'
  <1>0. /\ Aside(f) /\ SyncOK(f) /\ stage \in [Flows -> Stages]
        /\ made[f] \in PetIds /\ overtaken \in [Flows -> BOOLEAN]
    BY WorkFrame DEF Typed, TypeOK, SyncInv
  <1>1. CASE Retry(f) /\ UNCHANGED <<store, partner>>
    BY <1>1, RetryFalls, SyncFalls
  <1>2. ASSUME UNCHANGED <<pets, partner>>, \A g \in Flows \ {f} : overtaken'[g] = overtaken[g],
               SyncOK(f)'
        PROVE  SyncInv'
    BY <1>0, <1>2, SyncFrame DEF Undisturbed
  <1>3. CASE SyncStart(f)
    <2>1. /\ stage[f] = "syncTask" /\ UNCHANGED <<pets, partner, made, beaten, overtaken>>
          /\ \/ stage' = [stage EXCEPT ![f] = "synced"] /\ (PartnerEnabled => beaten[f])
             \/ stage' = [stage EXCEPT ![f] = "load"] /\ ~beaten[f]
      BY <1>3 DEF SyncStart, Skips, Step, store, run
    <2>2. SyncOK(f)'
      BY <1>0, <2>1 DEF SyncOK, Told
    <2> QED BY <1>2, <2>1, <2>2
  <1>4. CASE SyncLoad(f) /\ ~Retry(f)
    <2>1. /\ stage[f] = "load" /\ pets[made[f]] # NoPet
          /\ held' = [held EXCEPT ![f] = [id |-> made[f], pet |-> pets[made[f]]]]
          /\ overtaken' = [overtaken EXCEPT ![f] = FALSE]
          /\ UNCHANGED <<pets, partner, made, beaten>>
          /\ Step(f, IF pets[made[f]].hash = PartnerHash(pets[made[f]]) THEN "synced" ELSE "send")
      BY <1>4 DEF SyncLoad, Step, store, run
    <2>2. pets[made[f]] \in Pet
      BY <1>0, <2>1 DEF Typed, TypeOK, MaybePet
    <2>3. stage' = [stage EXCEPT ![f] = "send"]
      BY <2>1, <2>2, PartnerHashTyped DEF Step
    <2>4. held'[f].pet = pets[made[f]] /\ stage'[f] = "send"
      BY <1>0, <2>1, <2>3 DEF Typed, TypeOK
    <2>5. SyncOK(f)'
      BY <1>0, <2>1, <2>4 DEF SyncOK, Current
    <2>6. \A g \in Flows \ {f} : overtaken'[g] = overtaken[g]
      BY <1>0, <2>1
    <2> QED BY <1>2, <2>1, <2>5, <2>6
  <1>5. CASE SyncSend(f)
    <2>1. /\ stage[f] = "send" /\ stage' = [stage EXCEPT ![f] = "mark"]
          /\ partner' = [partner EXCEPT ![held[f].id] = held[f].pet.name]
          /\ Overtakes(f, held[f].id)
          /\ UNCHANGED <<pets, held, made, beaten>>
      BY <1>5 DEF SyncSend, Step, store, run
    <2>2. held[f].id = made[f]
      BY <2>1 DEF Typed, PlacedFlow
    <2>3. overtaken'[f] = overtaken[f] /\ \A g \in Flows \ {f} : Undisturbed(g)
      BY <1>0, <2>1, <2>2, OvertakesOthers
    <2>4. partner'[made[f]] = held[f].pet.name
      BY <1>0, <2>1, <2>2 DEF Typed, TypeOK
    <2>5. SyncOK(f)'
      BY <1>0, <2>1, <2>3, <2>4 DEF SyncOK, Current, Told
    <2> QED BY <1>0, <2>3, <2>5, SyncFrame
  <1>6. CASE SyncMark(f)
    <2>1. /\ stage[f] = "mark" /\ stage' = [stage EXCEPT ![f] = "remark"]
          /\ pets' = [pets EXCEPT ![held[f].id] = Marked(f)]
          /\ Overtakes(f, held[f].id)
          /\ UNCHANGED <<partner, held, made, beaten>>
      BY <1>6 DEF SyncMark, Step, run
    <2>2. held[f].id = made[f] /\ Marked(f) \in Pet /\ Marked(f).name = held[f].pet.name
      BY <2>1, MarkedTyped DEF Typed, PlacedFlow
    <2>3. overtaken'[f] = overtaken[f] /\ \A g \in Flows \ {f} : Undisturbed(g)
      BY <1>0, <2>1, <2>2, OvertakesOthers
    <2>4. pets'[made[f]] # NoPet /\ pets'[made[f]].name = held[f].pet.name
      BY <1>0, <2>1, <2>2, WorkflowAssumption DEF Typed, TypeOK
    <2>5. SyncOK(f)'
      BY <1>0, <2>1, <2>3, <2>4 DEF SyncOK, Current, Told
    <2> QED BY <1>0, <2>3, <2>5, SyncFrame
  <1>7. CASE SyncRemark(f) /\ ~Retry(f)
    <2>1. /\ stage[f] = "remark" /\ stage' = [stage EXCEPT ![f] = "beat"]
          /\ UNCHANGED <<pets, partner, made, beaten, overtaken>>
      BY <1>7 DEF SyncRemark, ReadBack, Step, store, run
    <2>2. SyncOK(f)'
      BY <1>0, <2>1 DEF SyncOK, Told
    <2> QED BY <1>2, <2>1, <2>2
  <1>8. CASE SyncHeartbeat(f)
    <2>1. /\ stage[f] = "beat" /\ stage' = [stage EXCEPT ![f] = "synced"]
          /\ UNCHANGED <<pets, partner, made, overtaken>>
      BY <1>8 DEF SyncHeartbeat, store
    <2>2. SyncOK(f)'
      BY <1>0, <2>1 DEF SyncOK, Told
    <2> QED BY <1>2, <2>1, <2>2
  <1>9. CASE Synced(f)
    <2>1. /\ stage'[f] = "closed" /\ beaten'[f] = FALSE /\ UNCHANGED <<pets, partner>>
          /\ \A g \in Flows \ {f} : overtaken'[g] = overtaken[g]
      BY <1>9, CloseFrame DEF Synced, store
    <2>2. SyncOK(f)'
      BY <2>1 DEF SyncOK
    <2> QED BY <1>2, <2>1, <2>2
  <1> QED BY <1>1, <1>3, <1>4, <1>5, <1>6, <1>7, <1>8, <1>9
          DEF SyncLoad, SyncRemark, ReadBack, AttemptFails

LEMMA SyncStep == Typed /\ SyncInv /\ [Next]_vars => SyncInv'
  <1> SUFFICES ASSUME Typed, SyncInv, [Next]_vars PROVE SyncInv'
    OBVIOUS
  <1>1. ASSUME NEW c \in Clients, AddPet(c) \/ Serve(c) \/ RequestFails(c) PROVE SyncInv'
    <2>1. UNCHANGED <<pets, partner, made, beaten, held, overtaken>>
      BY <1>1, RequestFrame
    <2>2. \A g \in Flows : stage'[g] = stage[g] \/ (stage[g] = "closed" /\ stage'[g] = "persistTask")
      BY <1>1, RequestFrame DEF Typed, TypeOK
    <2> QED BY <2>1, <2>2 DEF SyncInv, SyncOK, Current, Told
  <1>2. CASE UpdatePet \/ DeletePet
    <2>1. PICK i \in PetIds :
             /\ \E p : pets' = [pets EXCEPT ![i] = p]
             /\ \E said : UNCHANGED partner \/ partner' = [partner EXCEPT ![i] = said]
             /\ Overtakes(NoKey, i)
      BY <1>2 DEF UpdatePet, DeletePet
    <2>2. \A g \in Flows : Undisturbed(g)
      <3>1. PICK p : pets' = [pets EXCEPT ![i] = p]
        BY <2>1
      <3>2. PICK said : UNCHANGED partner \/ partner' = [partner EXCEPT ![i] = said]
        BY <2>1
      <3>3. Overtakes(NoKey, i) /\ (UNCHANGED pets \/ pets' = [pets EXCEPT ![i] = p])
        BY <2>1, <3>1
      <3>4. \A g \in Flows \ {NoKey} : Undisturbed(g)
        BY <3>2, <3>3, OvertakesOthers
      <3> QED BY <3>4, WorkflowAssumption
    <2>3. UNCHANGED <<stage, made, beaten, held>>
      BY <1>2, OthersFrame
    <2>4. ASSUME NEW g \in Flows PROVE SyncOK(g)'
      <3>1. SyncOK(g) /\ Undisturbed(g)
        BY <2>2 DEF SyncInv
      <3> QED BY <2>3, <3>1, SyncKept
    <2> QED BY <2>4 DEF SyncInv
  <1>3. CASE UNCHANGED vars
    BY <1>3 DEF vars, SyncInv, SyncOK, Current, Told
  <1> QED BY <1>1, <1>2, <1>3, SyncPersist, SyncSync DEF Next, Work

LEMMA SyncInvariant == Spec => [](Typed /\ SyncInv)
  <1>1. Typed /\ SyncInv /\ [Next]_vars => (Typed /\ SyncInv)'
    BY TypedStep, SyncStep
  <1> QED BY TypedInit, SyncInit, <1>1, PTL DEF Spec

(* An execution about to complete, whose pet nobody else wrote or synced,  *)
(* has told the partner about the pet that is stored.                      *)
THEOREM CompletedRunsInSync == Spec => []CompletedRunsAreSynced
  <1>1. SyncInv => CompletedRunsAreSynced
    BY DEF SyncInv, SyncOK, Told, CompletedRunsAreSynced
  <1> QED BY <1>1, SyncInvariant, PTL

(* Saving the hash of a pet nobody else wrote since it was loaded changes  *)
(* the hash and nothing else.                                              *)
THEOREM MarksAreIsolated == Spec => MarkChangesOnlyTheHash
  <1>1. ASSUME Typed, SyncInv, [Next]_vars, NEW f \in Flows,
               stage[f] = "mark", stage'[f] = "remark", ~overtaken[f]
        PROVE  pets[made[f]] # NoPet /\ pets'[made[f]].name = pets[made[f]].name
    <2>1. SyncMark(f)
      BY <1>1, StageSteps
    <2>2. /\ Current(f) /\ made[f] \in PetIds
          /\ held[f].id = made[f] /\ Marked(f).name = held[f].pet.name
      BY <1>1, MarkedTyped DEF SyncInv, SyncOK, Typed, TypeOK, PlacedFlow
    <2>3. pets'[made[f]] = Marked(f)
      BY <1>1, <2>1, <2>2 DEF SyncMark, Typed, TypeOK
    <2> QED BY <2>2, <2>3 DEF Current
  <1>2. Typed /\ SyncInv /\ [Next]_vars => [MarkIsolated]_vars
    BY <1>1 DEF MarkIsolated
  <1> QED BY <1>2, SyncInvariant, PTL DEF Spec, MarkChangesOnlyTheHash
=============================================================================
