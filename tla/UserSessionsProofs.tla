------------------------- MODULE UserSessionsProofs -------------------------
(***************************************************************************)
(* Theorems about UserSessions, for any clients, names and folding of      *)
(* names, any passwords, ids, lists of users and times, on both backends.  *)
(*                                                                         *)
(* The inductive invariant has two layers: Typed (types, what each place   *)
(* works on, and the purger's time) and OwnersInv (which sessions, logins  *)
(* and updates still have the account they are about).                     *)
(***************************************************************************)
EXTENDS UserSessions, TLAPS, SequenceTheorems, FiniteSetTheorems

(* Updates are about one account; only Postgres purges, and the time a     *)
(* purge compares with is past.                                            *)
Placed(c) == op[c] = "update" => Len(todo[c]) = 1
Purging   == cutoff # NoCutoff => backend = "postgres" /\ cutoff <= now
Typed     == TypeOK /\ (\A c \in Clients : Placed(c)) /\ Purging

(* What the steps below establish about the clients.                       *)
ClientsTyped ==
    /\ pc \in [Clients -> PCs]
    /\ op \in [Clients -> Updates \cup {"none", "create"}]
    /\ todo \in [Clients -> Seq(Entry)]
    /\ \A c \in Clients : (pc[c] = "idle") <=> (todo[c] = <<>>)
    /\ at \in [Clients -> Time]
    /\ \A c \in Clients : Placed(c)

LEMMA RowIsName == ASSUME NEW n \in Names PROVE Row(n) \in Names
  BY SessionsAssumption DEF Row

(* A call under way is about an account.                                   *)
LEMMA ThisIsEntry ==
    ASSUME Typed, NEW c \in Clients, pc[c] # "idle"
    PROVE  /\ This(c) \in Entry
           /\ This(c).name \in Names /\ This(c).id \in 0 .. MaxId /\ This(c).password \in Passwords
           /\ RowOf(c) \in Names
           /\ Tail(todo[c]) \in Seq(Entry)
           /\ Len(Tail(todo[c])) = Len(todo[c]) - 1
           /\ Len(todo[c]) \in Nat \ {0}
  <1>1. todo[c] \in Seq(Entry) /\ todo[c] # <<>>
    BY DEF Typed, TypeOK
  <1>2. This(c) \in Entry /\ Tail(todo[c]) \in Seq(Entry) /\ Len(Tail(todo[c])) = Len(todo[c]) - 1
    BY <1>1, HeadTailProperties DEF This
  <1>3. Len(todo[c]) \in Nat \ {0}
    BY <1>1, EmptySeq, LenProperties
  <1>4. This(c).name \in Names /\ This(c).id \in 0 .. MaxId /\ This(c).password \in Passwords
    BY <1>2 DEF Entry
  <1> QED BY <1>2, <1>3, <1>4, RowIsName DEF RowOf

LEMMA TypedInit == Init => Typed
  <1> SUFFICES ASSUME Init PROVE Typed
    OBVIOUS
  <1>1. <<>> \in Seq(Entry) /\ Len(<<>>) = 0
    OBVIOUS
  <1>2. TypeOK
    BY <1>1, SessionsAssumption DEF Init, TypeOK, Time, PCs, NoCutoff
  <1>3. (\A c \in Clients : Placed(c)) /\ Purging
    BY DEF Init, Placed, Purging
  <1> QED BY <1>2, <1>3 DEF Typed

LEMMA CallTyped ==
    ASSUME Typed, NEW c \in Clients, NEW name \in Updates \cup {"create"}, NEW list \in Seq(Entry),
           list # <<>>, name = "update" => Len(list) = 1, NEW place \in PCs \ {"idle"},
           Call(c, name, list, place)
    PROVE  Typed'
  <1> USE DEF Call, GoTo, Typed, data, clock
  <1>1. /\ pc' \in [Clients -> PCs]
        /\ op' \in [Clients -> Updates \cup {"none", "create"}]
        /\ todo' \in [Clients -> Seq(Entry)]
        /\ at' \in [Clients -> Time]
    BY DEF TypeOK
  <1>2. \A d \in Clients : (pc'[d] = "idle") <=> (todo'[d] = <<>>)
    BY DEF TypeOK
  <1>3. ASSUME NEW d \in Clients PROVE Placed(d)'
    <2>1. CASE d = c
      <3>1. op'[d] = name /\ todo'[d] = list
        BY <2>1 DEF TypeOK
      <3> QED BY <3>1, Zenon DEF Placed
    <2>2. CASE d # c
      BY <2>2 DEF TypeOK, Placed
    <2> QED BY <2>1, <2>2
  <1>4. ClientsTyped'
    BY <1>1, <1>2, <1>3 DEF ClientsTyped
  <1> QED BY <1>4 DEF TypeOK, ClientsTyped, Purging

LEMMA FinishTyped ==
    ASSUME Typed, NEW c \in Clients, Finish(c)
    PROVE  ClientsTyped'
  <1>1. <<>> \in Seq(Entry) /\ Len(<<>>) = 0
    OBVIOUS
  <1>2. 0 \in Time
    BY SessionsAssumption DEF Time
  <1> QED BY <1>1, <1>2 DEF Finish, GoTo, Typed, TypeOK, ClientsTyped, Placed, PCs

LEMMA GoOnTyped ==
    ASSUME Typed, NEW c \in Clients, pc[c] # "idle", GoOn(c)
    PROVE  ClientsTyped'
  <1>1. CASE Len(todo[c]) = 1
    BY <1>1, FinishTyped DEF GoOn
  <1>2. CASE Len(todo[c]) # 1
    <2>1. GoTo(c, "saveUser") /\ todo' = [todo EXCEPT ![c] = Tail(@)] /\ UNCHANGED <<op, at>>
      BY <1>2 DEF GoOn
    <2>2. /\ Tail(todo[c]) \in Seq(Entry)
          /\ Len(Tail(todo[c])) = Len(todo[c]) - 1
          /\ Len(todo[c]) \in Nat \ {0}
      BY ThisIsEntry
    <2>3. Tail(todo[c]) # <<>>
      <3>1. Len(Tail(todo[c])) # 0
        BY <1>2, <2>2
      <3>2. Len(<<>>) = 0
        BY EmptySeq
      <3> QED BY <3>1, <3>2, Zenon
    <2>4. ASSUME NEW d \in Clients PROVE Placed(d)'
      <3>1. CASE d = c
        <4>1. op'[c] = op[c] /\ op[c] # "update"
          BY <1>2, <2>1, Zenon DEF Typed, Placed
        <4> QED BY <3>1, <4>1, Zenon DEF Placed
      <3>2. CASE d # c
        BY <2>1, <3>2 DEF Typed, TypeOK, Placed
      <3> QED BY <3>1, <3>2
    <2>5. "saveUser" \in PCs
      BY DEF PCs
    <2> QED BY <2>1, <2>2, <2>3, <2>4, <2>5 DEF GoTo, Typed, TypeOK, ClientsTyped
  <1> QED BY <1>1, <1>2

(* A client moves on without changing what it works on.                    *)
LEMMA MoveTyped ==
    ASSUME Typed, NEW c \in Clients, NEW place \in PCs \ {"idle"}, pc[c] # "idle",
           GoTo(c, place), UNCHANGED <<op, todo>>, at' \in [Clients -> Time]
    PROVE  ClientsTyped'
  BY DEF GoTo, Typed, TypeOK, ClientsTyped, Placed

LEMMA OvertakesTyped ==
    ASSUME Typed, NEW c \in Clients, Overtakes(c) \/ Uncrossed(c)
    PROVE  crossed' \in [Clients -> BOOLEAN]
  BY DEF Overtakes, Uncrossed, Typed, TypeOK

-----------------------------------------------------------------------------
(* One lemma per group of actions.                                         *)

LEMMA TypedCalls ==
    ASSUME Typed, NEW c \in Clients,
           CreateUsers(c) \/ Update(c) \/ Delete(c) \/ Login(c) \/ Logout(c)
    PROVE  Typed'
  <1>1. CASE CreateUsers(c)
    BY <1>1, CallTyped, SessionsAssumption DEF CreateUsers, PCs
  <1>2. \A u \in Entries : <<u>> \in Seq(Entry) /\ <<u>> # <<>> /\ Len(<<u>>) = 1
    BY SessionsAssumption
  <1>3. CASE Update(c)
    BY <1>2, <1>3, CallTyped DEF Update, PCs, Updates
  <1>4. CASE Delete(c)
    BY <1>2, <1>4, CallTyped DEF Delete, PCs, Updates
  <1>5. CASE Login(c)
    BY <1>2, <1>5, CallTyped DEF Login, PCs, Updates
  <1>6. CASE Logout(c)
    BY <1>6 DEF Logout, Typed, TypeOK, Placed, Purging, clock, client
  <1> QED BY <1>1, <1>3, <1>4, <1>5, <1>6

LEMMA TypedLoads ==
    ASSUME Typed, NEW c \in Clients, LoadMissing(c) \/ LoadForUpdate(c) \/ LoadForLogin(c)
    PROVE  Typed'
  <1>1. CASE LoadMissing(c)
    BY <1>1, FinishTyped, OvertakesTyped DEF LoadMissing, Typed, TypeOK, ClientsTyped, Purging, data, clock
  <1>2. CASE LoadForUpdate(c)
    <2>1. pc[c] # "idle" /\ users[RowOf(c)] \in User
      BY <1>2, ThisIsEntry DEF LoadForUpdate, Typed, TypeOK
    <2>2. WithExistingId(c, users[RowOf(c)]) \in Entry
      BY <2>1, ThisIsEntry DEF WithExistingId, Entry, User
    <2>3. <<WithExistingId(c, users[RowOf(c)])>> \in Seq(Entry)
          /\ Len(<<WithExistingId(c, users[RowOf(c)])>>) = 1
          /\ <<WithExistingId(c, users[RowOf(c)])>> # <<>>
      BY <2>2
    <2>4. ClientsTyped'
      BY <1>2, <2>1, <2>3 DEF LoadForUpdate, GoTo, Typed, TypeOK, ClientsTyped, Placed, PCs
    <2> QED BY <1>2, <2>4 DEF LoadForUpdate, Typed, TypeOK, ClientsTyped, Purging, data, clock
  <1>3. CASE LoadForLogin(c)
    <2>1. CASE users[RowOf(c)].password # This(c).password
      BY <1>3, <2>1, FinishTyped, OvertakesTyped
         DEF LoadForLogin, Typed, TypeOK, ClientsTyped, Purging, data, clock
    <2>2. CASE users[RowOf(c)].password = This(c).password
      <3>1. /\ pc[c] # "idle" /\ GoTo(c, "saveSession") /\ UNCHANGED <<op, todo>>
            /\ at' \in [Clients -> Time] /\ crossed' \in [Clients -> BOOLEAN]
        BY <1>3, <2>2 DEF LoadForLogin, Typed, TypeOK, DeleteUnderWay
      <3>2. ClientsTyped'
        BY <3>1, MoveTyped DEF PCs
      <3> QED BY <1>3, <3>1, <3>2 DEF LoadForLogin, Typed, TypeOK, ClientsTyped, Purging, data, clock
    <2> QED BY <2>1, <2>2
  <1> QED BY <1>1, <1>2, <1>3

LEMMA TypedSaves ==
    ASSUME Typed, NEW c \in Clients, SaveMemory(c) \/ SavePostgres(c) \/ RereadUser(c)
    PROVE  Typed'
  <1>0. pc[c] # "idle"
    BY DEF SaveMemory, SavePostgres, RereadUser
  <1>1. CASE SaveMemory(c)
    <2>1. users' \in [Names -> User \cup {NoUser}]
      BY <1>0, <1>1, ThisIsEntry DEF SaveMemory, Typed, TypeOK, User
    <2> QED BY <1>0, <1>1, <2>1, GoOnTyped, OvertakesTyped
            DEF SaveMemory, Typed, TypeOK, ClientsTyped, Purging, clock
  <1>2. CASE SavePostgres(c)
    <2> DEFINE id == IF This(c).id = 0 THEN seq + 1 ELSE This(c).id
    <2>1. id \in 0 .. MaxId /\ seq' \in 0 .. MaxId
      BY <1>0, <1>2, ThisIsEntry, SessionsAssumption DEF SavePostgres, Typed, TypeOK
    <2>2. UNCHANGED <<backend, sessions, now, cutoff>>
      BY <1>2 DEF SavePostgres, clock
    <2>3. CASE /\ users' = [users EXCEPT ![This(c).name].password = This(c).password]
               /\ users[This(c).name] # NoUser
               /\ Overtakes(c) /\ GoTo(c, "reread") /\ UNCHANGED <<op, todo, at>>
      <3>1. users' \in [Names -> User \cup {NoUser}]
        BY <1>0, <2>3, ThisIsEntry DEF Typed, TypeOK, User
      <3> QED BY <1>0, <2>1, <2>2, <2>3, <3>1, MoveTyped, OvertakesTyped
              DEF Typed, TypeOK, ClientsTyped, Purging, PCs
    <2>4. CASE /\ users' = [users EXCEPT ![This(c).name] = [id |-> id, password |-> This(c).password]]
               /\ Overtakes(c) /\ GoTo(c, "reread") /\ UNCHANGED <<op, todo, at>>
      <3>1. users' \in [Names -> User \cup {NoUser}]
        BY <1>0, <2>1, <2>4, ThisIsEntry DEF Typed, TypeOK, User
      <3> QED BY <1>0, <2>1, <2>2, <2>4, <3>1, MoveTyped, OvertakesTyped
              DEF Typed, TypeOK, ClientsTyped, Purging, PCs
    <2>5. CASE Finish(c) /\ Uncrossed(c) /\ UNCHANGED users
      BY <2>1, <2>2, <2>5, FinishTyped, OvertakesTyped DEF Typed, TypeOK, ClientsTyped, Purging
    <2> QED BY <1>2, <2>3, <2>4, <2>5 DEF SavePostgres
  <1>3. CASE RereadUser(c)
    <2>1. ClientsTyped'
      BY <1>0, <1>3, GoOnTyped, FinishTyped DEF RereadUser
    <2> QED BY <1>3, <2>1 DEF RereadUser, Typed, TypeOK, ClientsTyped, Purging, data, clock
  <1> QED BY <1>1, <1>2, <1>3

(* What is left of the sessions after a delete, marked or not.             *)
LEMMA ExcuseTyped ==
    ASSUME NEW left, left \subseteq Session, NEW n, NEW failed \in BOOLEAN
    PROVE  /\ Excuse(left, n, failed) \subseteq Session
           /\ \A t \in Excuse(left, n, failed) : \E s \in left :
                /\ t.user = s.user /\ t.at = s.at
                /\ ~t.crossed => ~s.crossed /\ (Row(s.user) = Row(n) => ~failed /\ s.user = n)
  <1> DEFINE x(s) == s.crossed \/ (Row(s.user) = Row(n) /\ (failed \/ s.user # n))
             e(s) == [s EXCEPT !.crossed = x(s)]
  <1>1. Excuse(left, n, failed) = {e(s) : s \in left}
    BY DEF Excuse
  <1>2. ASSUME NEW s \in left
        PROVE  e(s) \in Session /\ e(s).user = s.user /\ e(s).at = s.at /\ e(s).crossed = x(s)
    <2>1. x(s) \in BOOLEAN
      BY DEF Session
    <2> HIDE DEF x
    <2> QED BY <2>1 DEF Session
  <1>3. ASSUME NEW s \in left, ~e(s).crossed
        PROVE  ~s.crossed /\ (Row(s.user) = Row(n) => ~failed /\ s.user = n)
    BY <1>2, <1>3
  <1> HIDE DEF e, x
  <1> QED BY <1>1, <1>2, <1>3

LEMMA TypedDrops ==
    ASSUME Typed, NEW c \in Clients,
           DropSessions(c) \/ DropUser(c) \/ SaveSession(c) \/ Abandon(c)
    PROVE  Typed'
  <1>1. CASE DropSessions(c)
    <2>1. sessions' \subseteq Session
      <3> DEFINE n == This(c).name
      <3>1. WithoutSessions(n) \subseteq Session /\ sessions \subseteq Session
        BY DEF WithoutSessions, Typed, TypeOK
      <3>2. \/ sessions' = Excuse(WithoutSessions(n), n, FALSE)
            \/ sessions' = Excuse(sessions, n, TRUE)
        BY <1>1 DEF DropSessions
      <3> HIDE DEF n
      <3>3. Excuse(WithoutSessions(n), n, FALSE) \subseteq Session
        BY <3>1, ExcuseTyped, Zenon
      <3>4. Excuse(sessions, n, TRUE) \subseteq Session
        BY <3>1, ExcuseTyped, Zenon
      <3> QED BY <3>2, <3>3, <3>4
    <2>2. crossed' \in [Clients -> BOOLEAN]
      BY <1>1 DEF DropSessions, Typed, TypeOK
    <2>3. pc[c] # "idle" /\ GoTo(c, "dropUser") /\ UNCHANGED <<op, todo, at>>
      BY <1>1 DEF DropSessions
    <2>4. ClientsTyped'
      BY <2>3, MoveTyped DEF Typed, TypeOK, PCs
    <2> QED BY <1>1, <2>1, <2>2, <2>4 DEF DropSessions, Typed, TypeOK, ClientsTyped, Purging, clock
  <1>2. CASE DropUser(c)
    BY <1>2, FinishTyped, OvertakesTyped DEF DropUser, Typed, TypeOK, ClientsTyped, Purging, clock
  <1>3. CASE SaveSession(c)
    <2>1. [user |-> This(c).name, at |-> at[c], crossed |-> crossed[c]] \in Session
      BY <1>3, ThisIsEntry DEF SaveSession, Session, Typed, TypeOK
    <2>2. sessions' \subseteq Session
      BY <1>3, <2>1 DEF SaveSession, Typed, TypeOK
    <2> QED BY <1>3, <2>2, FinishTyped, OvertakesTyped
            DEF SaveSession, Typed, TypeOK, ClientsTyped, Purging, clock
  <1>4. CASE Abandon(c)
    BY <1>4, FinishTyped, OvertakesTyped DEF Abandon, Typed, TypeOK, ClientsTyped, Purging, data, clock
  <1> QED BY <1>1, <1>2, <1>3, <1>4

LEMMA TypedTime ==
    ASSUME Typed, PurgeBegins \/ PurgeDeletes \/ PurgeFails \/ Tick \/ Restart
    PROVE  Typed'
  <1> USE SessionsAssumption DEF Typed, TypeOK, Placed, Purging, data, client, clock
  <1>1. CASE PurgeBegins
    BY <1>1 DEF PurgeBegins, Time
  <1>2. CASE PurgeDeletes
    BY <1>2 DEF PurgeDeletes
  <1>3. CASE PurgeFails
    BY <1>3 DEF PurgeFails
  <1>4. CASE Tick
    BY <1>4 DEF Tick, Time, NoCutoff
  <1>5. CASE Restart
    <2>1. <<>> \in Seq(Entry) /\ Len(<<>>) = 0
      OBVIOUS
    <2> QED BY <1>5, <2>1 DEF Restart, PCs, Time
  <1> QED BY <1>1, <1>2, <1>3, <1>4, <1>5

LEMMA TypedNext == Typed /\ [Next]_vars => Typed'
  <1> SUFFICES ASSUME Typed, [Next]_vars PROVE Typed'
    OBVIOUS
  <1>1. CASE UNCHANGED vars
    BY <1>1 DEF vars, Typed, TypeOK, Placed, Purging
  <1>2. CASE Next
    BY <1>2, TypedCalls, TypedLoads, TypedSaves, TypedDrops, TypedTime DEF Next
  <1> QED BY <1>1, <1>2

(* Every variable keeps its type, for any instance.                        *)
THEOREM TypeCorrect == Spec => []TypeOK
  <1>1. Typed => TypeOK
    BY DEF Typed
  <1> QED BY <1>1, TypedInit, TypedNext, PTL DEF Spec

-----------------------------------------------------------------------------
(* Who still has the account they are about: sessions and logins no delete *)
(* crossed, and updates nobody overtook.                                   *)
Kept(row) == users[row] # NoUser /\ ~DeleteUnderWay(row)

SessionKept(s) == ~s.crossed => Kept(Row(s.user))
LoginKept(c)   == pc[c] = "saveSession" /\ ~crossed[c] => Kept(RowOf(c))
UpdateKept(c)  ==
    pc[c] = "saveUser" /\ op[c] = "update" /\ ~crossed[c]
      => users[RowOf(c)] # NoUser /\ users[RowOf(c)].id = This(c).id

Owners ==
    /\ \A s \in sessions : SessionKept(s)
    /\ \A c \in Clients : LoginKept(c) /\ UpdateKept(c)

LEMMA OwnersInit == Init => Owners
  BY DEF Init, Owners, SessionKept, LoginKept, UpdateKept

(* The other clients stay where they are, with what they work on.          *)
OthersStay(c) ==
    /\ backend' = backend
    /\ \A d \in Clients \ {c} : pc'[d] = pc[d] /\ op'[d] = op[d] /\ todo'[d] = todo[d]

LEMMA StayingRows ==
    ASSUME NEW c \in Clients, OthersStay(c)
    PROVE  /\ \A n : Row(n)' = Row(n)
           /\ \A d \in Clients \ {c} : This(d)' = This(d) /\ RowOf(d)' = RowOf(d)
           /\ pc'[c] # "dropUser" => \A row : DeleteUnderWay(row)' => DeleteUnderWay(row)
  <1>1. \A n : Row(n)' = Row(n)
    BY DEF OthersStay, Row
  <1>2. \A d \in Clients \ {c} : This(d)' = This(d) /\ RowOf(d)' = RowOf(d)
    BY DEF OthersStay, Row, RowOf, This
  <1> QED BY <1>1, <1>2 DEF DeleteUnderWay, OthersStay

(* A step of c that keeps every account, adds no session and starts no     *)
(* delete keeps the owners of all others.                                  *)
LEMMA OwnersFrame ==
    ASSUME Typed, Owners, NEW c \in Clients, OthersStay(c), pc'[c] # "dropUser",
           \A n \in Names : users[n] # NoUser => users'[n] # NoUser,
           \A s \in sessions' : s \in sessions,
           \A d \in Clients \ {c} : crossed[d] => crossed'[d],
           \A d \in Clients \ {c} :
              pc[d] = "saveUser" /\ op[d] = "update" /\ ~crossed'[d]
                => users'[RowOf(d)] = users[RowOf(d)],
           LoginKept(c)', UpdateKept(c)'
    PROVE  Owners'
  <1>1. ASSUME NEW s \in sessions' PROVE SessionKept(s)'
    <2>1. s \in sessions /\ Row(s.user) \in Names
      BY RowIsName DEF Typed, TypeOK, Session
    <2> QED BY <2>1, StayingRows DEF Owners, SessionKept, Kept
  <1>2. ASSUME NEW d \in Clients, d # c PROVE LoginKept(d)'
    <2>1. pc'[d] = "saveSession" => RowOf(d) \in Names
      BY <1>2, ThisIsEntry DEF OthersStay
    <2> QED BY <1>2, <2>1, StayingRows DEF Owners, LoginKept, Kept, OthersStay
  <1>3. ASSUME NEW d \in Clients, d # c PROVE UpdateKept(d)'
    BY <1>3, StayingRows DEF Owners, UpdateKept, OthersStay
  <1> QED BY <1>1, <1>2, <1>3 DEF Owners

(* A client that ends up idle, or before its next create, owns nothing.    *)
LEMMA NothingToKeep ==
    ASSUME NEW c \in Clients, pc'[c] # "saveSession", pc'[c] # "saveUser" \/ op'[c] # "update"
    PROVE  LoginKept(c)' /\ UpdateKept(c)'
  BY DEF LoginKept, UpdateKept

LEMMA FinishStays ==
    ASSUME Typed, NEW c \in Clients, Finish(c), backend' = backend
    PROVE  OthersStay(c) /\ pc'[c] = "idle"
  BY DEF Finish, GoTo, OthersStay, Typed, TypeOK

LEMMA GoOnStays ==
    ASSUME Typed, NEW c \in Clients, pc[c] # "idle", GoOn(c), backend' = backend
    PROVE  /\ OthersStay(c)
           /\ pc'[c] = "idle" \/ (pc'[c] = "saveUser" /\ op'[c] # "update")
  <1>1. CASE Len(todo[c]) = 1
    BY <1>1, FinishStays DEF GoOn
  <1>2. CASE Len(todo[c]) # 1
    <2>1. GoTo(c, "saveUser") /\ todo' = [todo EXCEPT ![c] = Tail(@)] /\ op' = op
      BY <1>2 DEF GoOn
    <2>2. op[c] # "update"
      BY <1>2, Zenon DEF Typed, Placed
    <2> QED BY <2>1, <2>2 DEF GoTo, OthersStay, Typed, TypeOK
  <1> QED BY <1>1, <1>2

LEMMA OwnersCalls ==
    ASSUME Typed, Owners, NEW c \in Clients,
           CreateUsers(c) \/ Update(c) \/ Delete(c) \/ Login(c) \/ Logout(c)
    PROVE  Owners'
  <1>1. CASE Logout(c)
    BY <1>1 DEF Logout, client, clock, Owners, SessionKept, LoginKept, UpdateKept, Kept,
            DeleteUnderWay, RowOf, Row, This
  <1>2. ASSUME NEW name, NEW list, NEW place, Call(c, name, list, place),
               place \in {"dropSessions", "loadUser"} \/ (place = "saveUser" /\ name = "create")
        PROVE  Owners'
    <2>1. /\ OthersStay(c) /\ UNCHANGED <<users, sessions, crossed>>
          /\ pc'[c] \notin {"dropUser", "saveSession"}
          /\ pc'[c] # "saveUser" \/ op'[c] # "update"
      BY <1>2 DEF Call, GoTo, data, OthersStay, Typed, TypeOK
    <2> QED BY <2>1, NothingToKeep, OwnersFrame
  <1> QED BY <1>1, <1>2 DEF CreateUsers, Update, Delete, Login

LEMMA OwnersLoads ==
    ASSUME Typed, Owners, NEW c \in Clients, LoadMissing(c) \/ LoadForUpdate(c) \/ LoadForLogin(c)
    PROVE  Owners'
  <1>1. ASSUME Finish(c), Uncrossed(c), UNCHANGED <<data, clock>>
        PROVE  Owners'
    <2>1. /\ OthersStay(c) /\ pc'[c] = "idle"
          /\ UNCHANGED <<users, sessions>>
          /\ \A d \in Clients \ {c} : crossed'[d] = crossed[d]
      BY <1>1, FinishStays DEF data, Uncrossed, Typed, TypeOK
    <2> QED BY <2>1, NothingToKeep, OwnersFrame
  <1>2. CASE LoadForUpdate(c)
    <2>1. /\ OthersStay(c) /\ pc'[c] = "saveUser"
          /\ UNCHANGED <<backend, users, sessions, crossed>>
          /\ todo'[c] = <<WithExistingId(c, users[RowOf(c)])>>
      BY <1>2 DEF LoadForUpdate, GoTo, data, OthersStay, Typed, TypeOK
    <2>2. This(c)' = WithExistingId(c, users[RowOf(c)])
      BY <2>1 DEF This
    <2>3. This(c)'.name = This(c).name /\ This(c)'.id = users[RowOf(c)].id
      BY <1>2, <2>2, ThisIsEntry DEF LoadForUpdate, WithExistingId, Entry
    <2>4. RowOf(c)' = RowOf(c)
      BY <2>1, <2>3 DEF RowOf, Row
    <2>5. LoginKept(c)' /\ UpdateKept(c)'
      BY <1>2, <2>1, <2>3, <2>4 DEF LoadForUpdate, LoginKept, UpdateKept
    <2> QED BY <2>1, <2>5, OwnersFrame
  <1>3. CASE LoadForLogin(c) /\ users[RowOf(c)].password = This(c).password
    <2>1. /\ OthersStay(c) /\ pc'[c] = "saveSession"
          /\ UNCHANGED <<backend, users, sessions>>
          /\ todo'[c] = todo[c]
          /\ crossed'[c] = DeleteUnderWay(RowOf(c))
          /\ \A d \in Clients \ {c} : crossed'[d] = crossed[d]
      BY <1>3 DEF LoadForLogin, GoTo, data, OthersStay, Typed, TypeOK
    <2>2. RowOf(c)' = RowOf(c)
      BY <2>1 DEF RowOf, Row, This
    <2>3. ~crossed'[c] => ~DeleteUnderWay(RowOf(c))'
      BY <2>1, <2>2, StayingRows
    <2>4. LoginKept(c)' /\ UpdateKept(c)'
      BY <1>3, <2>1, <2>2, <2>3 DEF LoadForLogin, LoginKept, UpdateKept, Kept
    <2> QED BY <2>1, <2>4, OwnersFrame
  <1> QED BY <1>1, <1>2, <1>3 DEF LoadMissing, LoadForLogin

(* Saving marks whoever is about to write the same account.                *)
LEMMA OvertakesMarks ==
    ASSUME Typed, NEW c \in Clients, Overtakes(c), OthersStay(c), NEW d \in Clients \ {c}
    PROVE  /\ crossed[d] => crossed'[d]
           /\ pc[d] = "saveUser" /\ op[d] = "update" /\ ~crossed'[d] => RowOf(d) # RowOf(c)
  BY DEF Overtakes

LEMMA OwnersSaves ==
    ASSUME Typed, Owners, NEW c \in Clients, SaveMemory(c) \/ SavePostgres(c) \/ RereadUser(c)
    PROVE  Owners'
  <1>0. pc[c] # "idle"
    BY DEF SaveMemory, SavePostgres, RereadUser
  <1>1. ASSUME NEW user \in User, users' = [users EXCEPT ![RowOf(c)] = user], Overtakes(c),
               OthersStay(c), UNCHANGED sessions, pc'[c] \notin {"dropUser", "saveSession"},
               pc'[c] # "saveUser" \/ op'[c] # "update"
        PROVE  Owners'
    <2>1. user # NoUser
      BY SessionsAssumption
    <2>2. \A n \in Names : users[n] # NoUser => users'[n] # NoUser
      BY <1>1, <2>1 DEF Typed, TypeOK
    <2>3. ASSUME NEW d \in Clients \ {c}, pc[d] = "saveUser", op[d] = "update", ~crossed'[d]
          PROVE  users'[RowOf(d)] = users[RowOf(d)]
      BY <1>1, <2>3, OvertakesMarks, ThisIsEntry DEF Typed, TypeOK
    <2>4. \A d \in Clients \ {c} : crossed[d] => crossed'[d]
      BY <1>1, OvertakesMarks
    <2> QED BY <1>1, <2>2, <2>3, <2>4, NothingToKeep, OwnersFrame
  <1>2. CASE SaveMemory(c)
    <2>1. [id |-> This(c).id, password |-> This(c).password] \in User
      BY <1>0, ThisIsEntry DEF User
    <2> QED BY <1>0, <1>1, <1>2, <2>1, GoOnStays DEF SaveMemory
  <1>3. CASE SavePostgres(c)
    <2> DEFINE id == IF This(c).id = 0 THEN seq + 1 ELSE This(c).id
    <2>1. /\ RowOf(c) = This(c).name /\ This(c).name \in Names /\ This(c).password \in Passwords
          /\ id \in 0 .. MaxId
          /\ backend' = backend /\ UNCHANGED sessions
      BY <1>0, <1>3, ThisIsEntry, SessionsAssumption DEF SavePostgres, RowOf, Row, Typed, TypeOK
    <2>2. CASE Overtakes(c) /\ GoTo(c, "reread") /\ UNCHANGED <<op, todo, at>>
      <3>1. OthersStay(c) /\ pc'[c] = "reread"
        BY <2>1, <2>2 DEF GoTo, OthersStay, Typed, TypeOK
      <3>2. CASE /\ users' = [users EXCEPT ![This(c).name].password = This(c).password]
                 /\ users[This(c).name] # NoUser
        <4>1. users[This(c).name] \in User
          BY <2>1, <3>2 DEF Typed, TypeOK
        <4>2. [users[This(c).name] EXCEPT !.password = This(c).password] \in User
          BY <2>1, <4>1 DEF User
        <4> QED BY <1>1, <2>1, <2>2, <3>1, <3>2, <4>2
      <3>3. CASE users' = [users EXCEPT ![This(c).name] = [id |-> id, password |-> This(c).password]]
        <4>1. [id |-> id, password |-> This(c).password] \in User
          BY <2>1 DEF User
        <4> QED BY <1>1, <2>1, <2>2, <3>1, <3>3, <4>1
      <3>4. ~Finish(c)
        BY <2>1, <3>1, FinishStays
      <3> QED BY <1>3, <3>2, <3>3, <3>4 DEF SavePostgres
    <2>3. CASE Finish(c) /\ Uncrossed(c) /\ UNCHANGED users
      <3>1. /\ OthersStay(c) /\ pc'[c] = "idle"
            /\ \A d \in Clients \ {c} : crossed'[d] = crossed[d]
        BY <2>1, <2>3, FinishStays DEF Uncrossed, Typed, TypeOK
      <3> QED BY <2>1, <2>3, <3>1, NothingToKeep, OwnersFrame
    <2> QED BY <1>3, <2>2, <2>3 DEF SavePostgres
  <1>4. CASE RereadUser(c)
    <2>1. /\ OthersStay(c) /\ UNCHANGED <<users, sessions, crossed>>
          /\ pc'[c] = "idle" \/ (pc'[c] = "saveUser" /\ op'[c] # "update")
      BY <1>0, <1>4, FinishStays, GoOnStays DEF RereadUser, data
    <2> QED BY <2>1, NothingToKeep, OwnersFrame
  <1> QED BY <1>2, <1>3, <1>4

(* Dropping sessions marks the logins that loaded the account before.      *)
LEMMA OwnersDrops ==
    ASSUME Typed, Owners, NEW c \in Clients,
           DropSessions(c) \/ DropUser(c) \/ SaveSession(c) \/ Abandon(c)
    PROVE  Owners'
  <1>0. pc[c] # "idle" /\ RowOf(c) \in Names
    BY ThisIsEntry DEF DropSessions, DropUser, SaveSession, Abandon
  <1>1. CASE DropSessions(c)
    <2> DEFINE n == This(c).name
    <2>1. /\ OthersStay(c) /\ pc'[c] = "dropUser" /\ todo'[c] = todo[c]
          /\ UNCHANGED <<backend, users>>
          /\ \A d \in Clients : crossed'[d] =
               (crossed[d] \/ (pc[d] = "saveSession" /\ RowOf(d) = RowOf(c)))
      BY <1>1 DEF DropSessions, GoTo, OthersStay, Typed, TypeOK
    <2>2. ASSUME NEW row, DeleteUnderWay(row)', row # Row(n)
          PROVE  DeleteUnderWay(row)
      <3>1. PICK d \in Clients : pc'[d] = "dropUser" /\ RowOf(d)' = row
        BY <2>2 DEF DeleteUnderWay
      <3>2. d # c
        BY <2>1, <2>2, <3>1 DEF RowOf, Row, This
      <3> QED BY <2>1, <3>1, <3>2, StayingRows DEF DeleteUnderWay, OthersStay
    <2>3. ASSUME NEW t \in sessions', ~t.crossed
          PROVE  Kept(Row(t.user))'
      <3>1. sessions \subseteq Session /\ WithoutSessions(n) \subseteq sessions
        BY DEF Typed, TypeOK, WithoutSessions
      <3>2. CASE sessions' = Excuse(WithoutSessions(n), n, FALSE)
        <4> HIDE DEF n
        <4>1. WithoutSessions(n) \subseteq Session
          BY <3>1
        <4>2. \A u \in Excuse(WithoutSessions(n), n, FALSE) : \E s \in WithoutSessions(n) :
                 /\ u.user = s.user
                 /\ ~u.crossed => ~s.crossed /\ (Row(s.user) = Row(n) => s.user = n)
          <5>1. PICK failed \in BOOLEAN : failed = FALSE
            OBVIOUS
          <5>2. \A u \in Excuse(WithoutSessions(n), n, failed) : \E s \in WithoutSessions(n) :
                   /\ u.user = s.user /\ u.at = s.at
                   /\ ~u.crossed => ~s.crossed /\ (Row(s.user) = Row(n) => ~failed /\ s.user = n)
            BY <4>1, ExcuseTyped
          <5> QED BY <5>1, <5>2, Zenon
        <4>3. PICK s \in WithoutSessions(n) :
                 t.user = s.user /\ ~s.crossed /\ (Row(s.user) = Row(n) => s.user = n)
          BY <2>3, <3>2, <4>2, Zenon
        <4>4. Row(s.user) # Row(n) /\ s \in sessions
          BY <4>3 DEF WithoutSessions
        <4> QED BY <2>1, <2>2, <4>3, <4>4, StayingRows DEF Owners, SessionKept, Kept
      <3>3. CASE sessions' = Excuse(sessions, n, TRUE)
        <4> HIDE DEF n
        <4>1. \A u \in Excuse(sessions, n, TRUE) : \E s \in sessions :
                 /\ u.user = s.user
                 /\ ~u.crossed => ~s.crossed /\ Row(s.user) # Row(n)
          <5>1. PICK failed \in BOOLEAN : failed = TRUE
            OBVIOUS
          <5>2. \A u \in Excuse(sessions, n, failed) : \E s \in sessions :
                   /\ u.user = s.user /\ u.at = s.at
                   /\ ~u.crossed => ~s.crossed /\ (Row(s.user) = Row(n) => ~failed /\ s.user = n)
            BY <3>1, ExcuseTyped
          <5> QED BY <5>1, <5>2, Zenon
        <4>2. PICK s \in sessions : t.user = s.user /\ ~s.crossed /\ Row(s.user) # Row(n)
          BY <2>3, <3>3, <4>1, Zenon
        <4> QED BY <2>1, <2>2, <4>2, StayingRows DEF Owners, SessionKept, Kept
      <3> QED BY <1>1, <3>2, <3>3 DEF DropSessions
    <2>4. ASSUME NEW d \in Clients PROVE LoginKept(d)'
      <3>1. CASE d = c
        BY <2>1, <3>1 DEF LoginKept
      <3>2. CASE d # c
        <4> SUFFICES ASSUME pc'[d] = "saveSession", ~crossed'[d] PROVE Kept(RowOf(d))'
          BY DEF LoginKept
        <4>1. pc[d] = "saveSession" /\ ~crossed[d] /\ RowOf(d) # Row(n) /\ RowOf(d)' = RowOf(d)
          BY <2>1, <3>2, StayingRows DEF OthersStay, RowOf
        <4> QED BY <2>1, <2>2, <4>1 DEF Owners, LoginKept, Kept
      <3> QED BY <3>1, <3>2
    <2>5. ASSUME NEW d \in Clients PROVE UpdateKept(d)'
      <3>1. CASE d = c
        BY <2>1, <3>1 DEF UpdateKept
      <3>2. CASE d # c
        BY <2>1, <3>2, StayingRows DEF Owners, UpdateKept, OthersStay
      <3> QED BY <3>1, <3>2
    <2> QED BY <2>3, <2>4, <2>5 DEF Owners, SessionKept
  <1>2. CASE DropUser(c)
    <2>1. /\ OthersStay(c) /\ pc'[c] = "idle" /\ UNCHANGED <<backend, sessions>>
          /\ users' = [users EXCEPT ![RowOf(c)] = NoUser]
          /\ pc[c] = "dropUser" /\ Overtakes(c)
      BY <1>2, FinishStays DEF DropUser
    <2>2. DeleteUnderWay(RowOf(c))
      BY <2>1 DEF DeleteUnderWay
    <2>3. ASSUME NEW row \in Names, Kept(row) PROVE Kept(row)'
      <3>1. row # RowOf(c)
        BY <2>2, <2>3 DEF Kept
      <3> QED BY <2>1, <2>3, <3>1, StayingRows DEF Kept, Typed, TypeOK
    <2>4. ASSUME NEW s \in sessions' PROVE SessionKept(s)'
      <3>1. s \in sessions /\ Row(s.user) \in Names
        BY <2>1, RowIsName DEF Typed, TypeOK, Session
      <3> QED BY <2>1, <2>3, <3>1, StayingRows DEF Owners, SessionKept
    <2>5. ASSUME NEW d \in Clients, d # c PROVE LoginKept(d)' /\ UpdateKept(d)'
      <3>1. pc'[d] = pc[d] /\ op'[d] = op[d] /\ RowOf(d)' = RowOf(d) /\ This(d)' = This(d)
        BY <2>1, <2>5, StayingRows DEF OthersStay
      <3>2. /\ ~crossed'[d] => ~crossed[d]
            /\ pc[d] = "saveUser" /\ op[d] = "update" /\ ~crossed'[d] => RowOf(d) # RowOf(c)
        BY <2>1, <2>5, OvertakesMarks
      <3>3. pc[d] # "idle" => RowOf(d) \in Names
        BY ThisIsEntry
      <3>4. LoginKept(d)'
        BY <2>3, <3>1, <3>2, <3>3 DEF Owners, LoginKept
      <3>5. UpdateKept(d)'
        BY <2>1, <3>1, <3>2, <3>3 DEF Owners, UpdateKept, Typed, TypeOK
      <3> QED BY <3>4, <3>5
    <2> QED BY <2>1, <2>4, <2>5, NothingToKeep DEF Owners
  <1>3. CASE SaveSession(c)
    <2>1. /\ OthersStay(c) /\ pc'[c] = "idle" /\ UNCHANGED <<backend, users>>
          /\ \A d \in Clients \ {c} : crossed'[d] = crossed[d]
      BY <1>3, FinishStays DEF SaveSession, Uncrossed, Typed, TypeOK
    <2>2. \A row : Kept(row) => Kept(row)'
      BY <2>1, StayingRows DEF Kept
    <2>3. ASSUME NEW s \in sessions' PROVE SessionKept(s)'
      <3>1. CASE s \in sessions
        BY <2>1, <2>2, <3>1, StayingRows DEF Owners, SessionKept
      <3>2. CASE s = [user |-> This(c).name, at |-> at[c], crossed |-> crossed[c]]
        <4>1. s.crossed = crossed[c] /\ Row(s.user) = RowOf(c)
          BY <3>2 DEF RowOf
        <4>2. ~crossed[c] => Kept(RowOf(c))
          BY <1>3 DEF SaveSession, Owners, LoginKept
        <4> QED BY <2>1, <2>2, <4>1, <4>2, StayingRows DEF SessionKept
      <3> QED BY <1>3, <3>1, <3>2 DEF SaveSession
    <2>4. ASSUME NEW d \in Clients, d # c PROVE LoginKept(d)' /\ UpdateKept(d)'
      <3>1. /\ pc'[d] = pc[d] /\ op'[d] = op[d] /\ RowOf(d)' = RowOf(d)
            /\ This(d)' = This(d) /\ crossed'[d] = crossed[d]
        BY <2>1, <2>4, StayingRows DEF OthersStay
      <3> QED BY <2>1, <2>2, <3>1 DEF Owners, LoginKept, UpdateKept
    <2> QED BY <2>1, <2>3, <2>4, NothingToKeep DEF Owners
  <1>4. CASE Abandon(c)
    <2>1. /\ OthersStay(c) /\ pc'[c] = "idle" /\ UNCHANGED <<users, sessions>>
          /\ \A d \in Clients \ {c} : crossed'[d] = crossed[d]
      BY <1>4, FinishStays DEF Abandon, data, Uncrossed, Typed, TypeOK
    <2> QED BY <2>1, NothingToKeep, OwnersFrame
  <1> QED BY <1>1, <1>2, <1>3, <1>4

LEMMA OwnersTime ==
    ASSUME Owners, PurgeBegins \/ PurgeDeletes \/ PurgeFails \/ Tick \/ Restart
    PROVE  Owners'
  <1>1. CASE Restart
    BY <1>1 DEF Restart, Owners, LoginKept, UpdateKept
  <1>2. CASE PurgeBegins \/ PurgeDeletes \/ PurgeFails \/ Tick
    <2>1. UNCHANGED <<backend, users, pc, op, todo, at, crossed>> /\ sessions' \subseteq sessions
      BY <1>2 DEF PurgeBegins, PurgeDeletes, PurgeFails, Tick, data, client
    <2> QED BY <2>1 DEF Owners, SessionKept, LoginKept, UpdateKept, Kept, DeleteUnderWay,
                        RowOf, Row, This
  <1> QED BY <1>1, <1>2

LEMMA OwnersNext == Typed /\ Owners /\ [Next]_vars => Owners'
  <1> SUFFICES ASSUME Typed, Owners, [Next]_vars PROVE Owners'
    OBVIOUS
  <1>1. CASE UNCHANGED vars
    BY <1>1 DEF vars, Owners, SessionKept, LoginKept, UpdateKept, Kept, DeleteUnderWay, RowOf, Row, This
  <1>2. CASE Next
    BY <1>2, OwnersCalls, OwnersLoads, OwnersSaves, OwnersDrops, OwnersTime DEF Next
  <1> QED BY <1>1, <1>2

(* A session without an account comes from one of the named races, for any *)
(* number of clients and spellings.                                        *)
THEOREM SessionsOwned == Spec => []SessionsHaveAccounts
  <1>1. Owners => SessionsHaveAccounts
    BY DEF Owners, SessionKept, Kept, SessionsHaveAccounts
  <1> QED BY <1>1, TypedInit, TypedNext, OwnersInit, OwnersNext, PTL DEF Spec

(* An update nobody overtook finds the account and keeps its id.           *)
THEOREM UpdatesKeepTheId == Spec => IsolatedUpdatesKeepTheId
  <1>1. Typed /\ Owners /\ [Next]_vars => [IsolatedUpdate]_vars
    <2> SUFFICES ASSUME Typed, Owners,
                        NEW c \in Clients, op[c] = "update", ~crossed[c],
                        SaveMemory(c) \/ SavePostgres(c)
                 PROVE  LET row == RowOf(c) IN
                        users[row] # NoUser /\ users'[row] # NoUser /\ users'[row].id = users[row].id
      BY DEF IsolatedUpdate
    <2>1. /\ pc[c] = "saveUser" /\ RowOf(c) \in Names
          /\ This(c).id \in 0 .. MaxId /\ This(c).password \in Passwords
      BY ThisIsEntry DEF SaveMemory, SavePostgres
    <2>2. users[RowOf(c)] # NoUser /\ users[RowOf(c)] \in User /\ users[RowOf(c)].id = This(c).id
      BY <2>1 DEF Owners, UpdateKept, Typed, TypeOK
    <2>3. ASSUME NEW user \in User, users' = [users EXCEPT ![RowOf(c)] = user], user.id = This(c).id
          PROVE  users'[RowOf(c)] # NoUser /\ users'[RowOf(c)].id = users[RowOf(c)].id
      BY <2>1, <2>2, <2>3, SessionsAssumption DEF Typed, TypeOK
    <2>4. CASE SaveMemory(c)
      <3>1. [id |-> This(c).id, password |-> This(c).password] \in User
        BY <2>1 DEF User
      <3> QED BY <2>2, <2>3, <2>4, <3>1 DEF SaveMemory
    <2>5. CASE SavePostgres(c)
      <3>1. This(c).name = RowOf(c)
        BY <2>5 DEF SavePostgres, RowOf, Row
      <3>2. users' = [users EXCEPT ![RowOf(c)].password = This(c).password]
        BY <2>2, <2>5, <3>1 DEF SavePostgres
      <3>3. [users[RowOf(c)] EXCEPT !.password = This(c).password] \in User
            /\ [users[RowOf(c)] EXCEPT !.password = This(c).password].id = This(c).id
        BY <2>1, <2>2 DEF User
      <3> QED BY <2>2, <2>3, <3>2, <3>3
    <2> QED BY <2>4, <2>5
  <1> QED BY <1>1, TypedInit, TypedNext, OwnersInit, OwnersNext, PTL DEF Spec, IsolatedUpdatesKeepTheId

-----------------------------------------------------------------------------
(* What ends live sessions                                                 *)

(* Sessions are kept but for those of one user, and expired ones.          *)
Keeps(u) == \A x \in sessions : x.user # u /\ Live(x) => \E y \in sessions' : y.user = x.user /\ y.at = x.at

LEMMA KeepsIsEnough ==
    ASSUME Typed, NEW u, Keeps(u)
    PROVE  Cardinality(EndedUsers) <= 1
  <1>1. EndedUsers \subseteq {u}
    <2> SUFFICES ASSUME NEW x \in sessions, Live(x), x.user # u,
                        \A y \in sessions' : y.user # x.user \/ y.at < x.at
                 PROVE  FALSE
      BY DEF EndedUsers
    <2>1. PICK y \in sessions' : y.user = x.user /\ y.at = x.at
      BY DEF Keeps
    <2>2. x.at \in Nat
      BY SessionsAssumption DEF Typed, TypeOK, Session, Time
    <2> QED BY <2>1, <2>2
  <1>2. EndedUsers = {} \/ EndedUsers = {u}
    BY <1>1
  <1> QED BY <1>2, FS_EmptySet, FS_Singleton

LEMMA ExcuseKeeps ==
    ASSUME NEW left, left \subseteq Session, NEW n, NEW failed \in BOOLEAN, NEW s \in left
    PROVE  \E t \in Excuse(left, n, failed) : t.user = s.user /\ t.at = s.at
  <1> DEFINE x == s.crossed \/ (Row(s.user) = Row(n) /\ (failed \/ s.user # n))
             t == [s EXCEPT !.crossed = x]
  <1>1. t \in Excuse(left, n, failed)
    BY DEF Excuse
  <1>2. t.user = s.user /\ t.at = s.at
    BY DEF Session
  <1> QED BY <1>1, <1>2

LEMMA OneUserEnds ==
    ASSUME Typed, [Next]_vars, ~Restart
    PROVE  \E u : Keeps(u)
  <1>1. ASSUME UNCHANGED sessions PROVE \E u : Keeps(u)
    BY <1>1 DEF Keeps
  <1>2. CASE UNCHANGED vars
    BY <1>1, <1>2 DEF vars
  <1>3. ASSUME NEW c \in Clients, Logout(c) PROVE \E u : Keeps(u)
    <2>1. PICK n \in Names : sessions' = {s \in sessions : s.user # n}
      BY <1>3 DEF Logout
    <2> QED BY <2>1 DEF Keeps
  <1>4. ASSUME NEW c \in Clients, DropSessions(c) PROVE \E u : Keeps(u)
    <2>1. PICK n : n = This(c).name
      OBVIOUS
    <2>2. \/ sessions' = Excuse(WithoutSessions(n), n, FALSE)
          \/ sessions' = Excuse(sessions, n, TRUE)
      BY <1>4, <2>1 DEF DropSessions
    <2>3. WithoutSessions(n) \subseteq Session /\ sessions \subseteq Session
      BY DEF WithoutSessions, Typed, TypeOK
    <2>4. Keeps(n)
      <3> SUFFICES ASSUME NEW x \in sessions, x.user # n
                   PROVE  \E y \in sessions' : y.user = x.user /\ y.at = x.at
        BY DEF Keeps
      <3>1. x \in WithoutSessions(n)
        BY DEF WithoutSessions
      <3>2. \E y \in Excuse(WithoutSessions(n), n, FALSE) : y.user = x.user /\ y.at = x.at
        BY <2>3, <3>1, ExcuseKeeps
      <3>3. \E y \in Excuse(sessions, n, TRUE) : y.user = x.user /\ y.at = x.at
        BY <2>3, ExcuseKeeps
      <3> QED BY <2>2, <3>2, <3>3
    <2> QED BY <2>4
  <1>5. ASSUME NEW c \in Clients, SaveSession(c) PROVE \E u : Keeps(u)
    <2>1. PICK n : n = This(c).name
      OBVIOUS
    <2>2. \A x \in sessions : x.user # n => x \in sessions'
      BY <1>5, <2>1 DEF SaveSession, Replaced
    <2> QED BY <2>2 DEF Keeps
  <1>6. CASE PurgeDeletes
    <2>1. backend = "postgres" /\ cutoff <= now
      BY <1>6 DEF PurgeDeletes, Typed, Purging
    <2>2. cutoff \in Nat /\ now \in Nat
      BY <1>6, SessionsAssumption DEF PurgeDeletes, Typed, TypeOK, Time
    <2>3. ASSUME NEW x \in sessions, Live(x) PROVE x \in sessions'
      <3>1. x.at \in Nat /\ SessionTTL \in Nat /\ now < x.at + SessionTTL
        BY <2>1, <2>3, SessionsAssumption DEF Typed, TypeOK, Session, Time, Live
      <3>2. ~Purged(x)
        BY <2>1, <2>2, <3>1 DEF Purged
      <3> QED BY <1>6, <3>2 DEF PurgeDeletes
    <2> QED BY <2>3 DEF Keeps
  <1>7. CASE PurgeBegins \/ PurgeFails \/ Tick
    BY <1>1, <1>7 DEF PurgeBegins, PurgeFails, Tick, data
  <1>8. ASSUME NEW c \in Clients,
               \/ CreateUsers(c) \/ Update(c) \/ Delete(c) \/ Login(c)
               \/ LoadMissing(c) \/ LoadForUpdate(c) \/ LoadForLogin(c)
               \/ SaveMemory(c) \/ SavePostgres(c) \/ RereadUser(c)
               \/ DropUser(c) \/ Abandon(c)
        PROVE  \E u : Keeps(u)
    <2>1. UNCHANGED sessions
      BY <1>8 DEF CreateUsers, Update, Delete, Login, Call, LoadMissing, LoadForUpdate, LoadForLogin,
                  SaveMemory, SavePostgres, RereadUser, DropUser, Abandon, data
    <2> QED BY <1>1, <2>1
  <1> QED BY <1>2, <1>3, <1>4, <1>5, <1>6, <1>7, <1>8 DEF Next

(* No step but the restart of a memory process ends live sessions of two   *)
(* users: neither a delete or a newer login, nor a purge that compares     *)
(* with the time it read before.                                           *)
THEOREM LiveSessionsEndOneUserAtATime == Spec => LiveSessionsEndByUser
  <1>1. Typed /\ [Next]_vars => [~Restart => Cardinality(EndedUsers) <= 1]_vars
    <2> SUFFICES ASSUME Typed, [Next]_vars, ~Restart PROVE Cardinality(EndedUsers) <= 1
      OBVIOUS
    <2>1. PICK u : Keeps(u)
      BY OneUserEnds
    <2> QED BY <2>1, KeepsIsEnough
  <1> QED BY <1>1, TypedInit, TypedNext, PTL DEF Spec, LiveSessionsEndByUser
=============================================================================
