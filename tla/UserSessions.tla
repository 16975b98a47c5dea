---------------------------- MODULE UserSessions ----------------------------
(***************************************************************************)
(* The users bounded context: accounts, the sessions that logins open, and *)
(* the purger that removes expired ones.  The accounts and the sessions    *)
(* are two stores without a transaction around them, so that a use case    *)
(* that touches both does so in steps, and others run in between.          *)
(*                                                                         *)
(* The use cases are those of users/application/service.go.  The HTTP      *)
(* handlers call all of them except Login and Logout, whose endpoints      *)
(* check the password themselves and keep no session: sessions exist for   *)
(* callers of the service.  Payloads reach the service validated.          *)
(***************************************************************************)
EXTENDS Naturals, Sequences, FiniteSets

CONSTANTS Clients,    \* concurrent calls of the service
          Names,      \* usernames, as callers spell them
          Fold,       \* strings.ToLower on them
          Passwords,  \* what the model tells apart of an account's fields
          NoUser,     \* no row or map entry
          MaxId,      \* ids are 1..MaxId (a bound); 0 is "no id given"
          MaxTime,    \* the clock stops there (a bound)
          SessionTTL, \* lifetime of a session, in ticks of the model's clock
          Backends,   \* the backends a process may start with
          Batches,    \* the lists of users that are created (a bound)
          Entries,    \* the users other calls are about (a bound)
          Ops         \* the other use cases that are called (a bound)

Time    == 0 .. MaxTime
User    == [id : 0 .. MaxId, password : Passwords]
Entry   == [name : Names, id : 0 .. MaxId, password : Passwords]
Session == [user : Names, at : Time, crossed : BOOLEAN]
Updates == {"update", "delete", "login", "logout"}
PCs     == {"idle", "loadUser", "saveUser", "reread", "dropSessions", "dropUser", "saveSession"}
NoCutoff == MaxTime + 1

ASSUME SessionsAssumption ==
    /\ Fold \in [Names -> Names]
    /\ \A n \in Names : Fold[Fold[n]] = Fold[n]
    /\ NoUser \notin User
    /\ MaxId \in Nat
    /\ MaxTime \in Nat
    /\ SessionTTL \in Nat \ {0}
    /\ Backends \subseteq {"memory", "postgres"}
    /\ \A b \in Batches : b \in Seq(Entry) /\ b # <<>>
    /\ Entries \subseteq Entry
    /\ Ops \subseteq Updates

VARIABLES
    backend,  \* where this deployment keeps accounts and sessions
    users,    \* the account under each (folded) name
    seq,      \* the Postgres sequence behind users.id
    sessions, \* the sessions; a token is a name and a time
    now,      \* the clock
    cutoff,   \* the time a purge under way compares with, or NoCutoff
    pc,       \* the next store call of each client
    op,       \* the use case it performs
    todo,     \* the accounts it is about, in order
    at,       \* the time in the token it made
    crossed   \* history: a delete (for an update, any write) of the account
              \* overlapped since it was loaded

data   == <<backend, users, seq, sessions>>
clock  == <<now, cutoff>>
client == <<pc, op, todo, at, crossed>>
vars   == <<backend, users, seq, sessions, now, cutoff, pc, op, todo, at, crossed>>

Init ==
    /\ backend \in Backends
    /\ users = [n \in Names |-> NoUser]
    /\ seq = 0
    /\ sessions = {}
    /\ now = 0
    /\ cutoff = NoCutoff
    /\ pc = [c \in Clients |-> "idle"]
    /\ op = [c \in Clients |-> "none"]
    /\ todo = [c \in Clients |-> <<>>]
    /\ at = [c \in Clients |-> 0]
    /\ crossed = [c \in Clients |-> FALSE]

-----------------------------------------------------------------------------
(* Building blocks                                                         *)

(* The map of accounts folds names; the tables, and the map of sessions,   *)
(* take them as they are spelled.                                          *)
Row(n)  == IF backend = "memory" THEN Fold[n] ELSE n
This(c) == Head(todo[c])
RowOf(c) == Row(This(c).name)

GoTo(c, place) == pc' = [pc EXCEPT ![c] = place]

Finish(c) ==
    /\ GoTo(c, "idle")
    /\ op' = [op EXCEPT ![c] = "none"]
    /\ todo' = [todo EXCEPT ![c] = <<>>]
    /\ at' = [at EXCEPT ![c] = 0]

Uncrossed(c) == crossed' = [crossed EXCEPT ![c] = FALSE]

Call(c, name, list, place) ==
    /\ pc[c] = "idle"
    /\ GoTo(c, place)
    /\ op' = [op EXCEPT ![c] = name]
    /\ todo' = [todo EXCEPT ![c] = list]
    /\ UNCHANGED <<data, clock, at, crossed>>

(* History: c writes an account that an update holds a copy of.            *)
Overtakes(c) ==
    crossed' = [d \in Clients |->
        IF d = c THEN FALSE
        ELSE crossed[d] \/ (pc[d] = "saveUser" /\ op[d] = "update" /\ RowOf(d) = RowOf(c))]

(* A delete has dropped an account's sessions and not yet the account.     *)
DeleteUnderWay(row) == \E d \in Clients : pc[d] = "dropUser" /\ RowOf(d) = row

-----------------------------------------------------------------------------
(* Calls of the service                                                    *)

CreateUsers(c) == \E batch \in Batches : Call(c, "create", batch, "saveUser")

Update(c) ==
    /\ "update" \in Ops
    /\ \E u \in Entries : Call(c, "update", <<u>>, "loadUser")

Delete(c) ==
    /\ "delete" \in Ops
    /\ \E u \in Entries : Call(c, "delete", <<u>>, "dropSessions")

Login(c) ==
    /\ "login" \in Ops
    /\ \E u \in Entries : Call(c, "login", <<u>>, "loadUser")

(* One call of the session store.                                          *)
Logout(c) ==
    /\ "logout" \in Ops
    /\ pc[c] = "idle"
    /\ \E n \in Names : sessions' = {s \in sessions : s.user # n}
    /\ UNCHANGED <<backend, users, seq, clock, client>>

-----------------------------------------------------------------------------
(* Accounts                                                                *)

LoadMissing(c) ==
    /\ pc[c] = "loadUser" /\ users[RowOf(c)] = NoUser
    /\ Finish(c) /\ Uncrossed(c)
    /\ UNCHANGED <<data, clock>>

(* Mutant: the payload's id is kept.                                       *)
OwnId(c, existing) == This(c)
(* The payload takes over the id of the account it replaces.               *)
WithExistingId(c, existing) == [This(c) EXCEPT !.id = existing.id]

LoadForUpdate(c) ==
    /\ pc[c] = "loadUser" /\ op[c] = "update" /\ users[RowOf(c)] # NoUser
    /\ todo' = [todo EXCEPT ![c] = <<WithExistingId(c, users[RowOf(c)])>>]
    /\ GoTo(c, "saveUser")
    /\ UNCHANGED <<data, clock, op, at, crossed>>

(* The token and its expiry are made from the clock before the session is  *)
(* saved.                                                                  *)
LoadForLogin(c) ==
    /\ pc[c] = "loadUser" /\ op[c] = "login" /\ users[RowOf(c)] # NoUser
    /\ IF users[RowOf(c)].password # This(c).password
         THEN Finish(c) /\ Uncrossed(c)
         ELSE /\ GoTo(c, "saveSession")
              /\ at' = [at EXCEPT ![c] = now]
              /\ crossed' = [crossed EXCEPT ![c] = DeleteUnderWay(RowOf(c))]
              /\ UNCHANGED <<op, todo>>
    /\ UNCHANGED <<data, clock>>

(* Mutant: the end of the list is noticed one account too late.            *)
GoOnPastEnd(c) ==
    IF Len(todo[c]) = 0 THEN Finish(c)
    ELSE GoTo(c, "saveUser") /\ todo' = [todo EXCEPT ![c] = Tail(@)] /\ UNCHANGED <<op, at>>

(* The list goes on with its next account: what was saved stays saved.     *)
GoOn(c) ==
    IF Len(todo[c]) = 1 THEN Finish(c)
    ELSE GoTo(c, "saveUser") /\ todo' = [todo EXCEPT ![c] = Tail(@)] /\ UNCHANGED <<op, at>>

SaveMemory(c) ==
    /\ backend = "memory"
    /\ pc[c] = "saveUser"
    /\ users' = [users EXCEPT ![RowOf(c)] = [id |-> This(c).id, password |-> This(c).password]]
    /\ Overtakes(c)
    /\ GoOn(c)
    /\ UNCHANGED <<backend, seq, sessions, clock>>

IdTaken(id) == \E n \in Names : users[n] # NoUser /\ users[n].id = id

(* INSERT ... ON CONFLICT (username) DO UPDATE: the id of an account that  *)
(* exists stays, and an id somebody else has is an error, which ends the   *)
(* list.                                                                   *)
SavePostgres(c) ==
    /\ backend = "postgres"
    /\ pc[c] = "saveUser"
    /\ LET name == This(c).name
           id == IF This(c).id = 0 THEN seq + 1 ELSE This(c).id IN
       /\ id <= MaxId
       /\ seq' = IF This(c).id = 0 THEN id ELSE seq
       /\ \/ /\ users[name] # NoUser
             /\ users' = [users EXCEPT ![name].password = This(c).password]
             /\ Overtakes(c)
             /\ GoTo(c, "reread") /\ UNCHANGED <<op, todo, at>>
          \/ /\ users[name] = NoUser /\ ~IdTaken(id)
             /\ users' = [users EXCEPT ![name] = [id |-> id, password |-> This(c).password]]
             /\ Overtakes(c)
             /\ GoTo(c, "reread") /\ UNCHANGED <<op, todo, at>>
          \/ /\ users[name] = NoUser /\ IdTaken(id)
             /\ Finish(c) /\ Uncrossed(c)
             /\ UNCHANGED users
    /\ UNCHANGED <<backend, sessions, clock>>

(* Save returns what a second statement reads; an account deleted since    *)
(* ends the list.                                                          *)
RereadUser(c) ==
    /\ pc[c] = "reread"
    /\ IF users[RowOf(c)] = NoUser THEN Finish(c) ELSE GoOn(c)
    /\ UNCHANGED <<data, clock, crossed>>

-----------------------------------------------------------------------------
(* Sessions                                                                *)

(* Mutant: the sessions are left to expire.                                *)
KeptSessions(n) == sessions
WithoutSessions(n) == {s \in sessions : s.user # n}

(* History: sessions of the same account that outlive the delete, because  *)
(* the statement failed or the name is spelled in another way.             *)
Excuse(left, n, failed) ==
    {[s EXCEPT !.crossed = @ \/ (Row(s.user) = Row(n) /\ (failed \/ s.user # n))] : s \in left}

(* Delete ignores the error of the session store and goes on.              *)
DropSessions(c) ==
    /\ pc[c] = "dropSessions"
    /\ LET n == This(c).name IN
       \/ sessions' = Excuse(WithoutSessions(n), n, FALSE)
       \/ backend = "postgres" /\ sessions' = Excuse(sessions, n, TRUE)
    /\ crossed' = [d \in Clients |->
                      crossed[d] \/ (pc[d] = "saveSession" /\ RowOf(d) = RowOf(c))]
    /\ GoTo(c, "dropUser")
    /\ UNCHANGED <<backend, users, seq, clock, op, todo, at>>

DropUser(c) ==
    /\ pc[c] = "dropUser"
    /\ users' = [users EXCEPT ![RowOf(c)] = NoUser]
    /\ Overtakes(c)
    /\ Finish(c)
    /\ UNCHANGED <<backend, seq, sessions, clock>>

(* In memory the new session replaces the user's last one; in Postgres it  *)
(* only replaces a session of the same token.                              *)
Replaced(s, user, time) == s.user = user /\ (backend = "memory" \/ s.at = time)

SaveSession(c) ==
    /\ pc[c] = "saveSession"
    /\ LET user == This(c).name IN
       sessions' = {s \in sessions : ~Replaced(s, user, at[c])}
                     \cup {[user |-> user, at |-> at[c], crossed |-> crossed[c]]}
    /\ Finish(c) /\ Uncrossed(c)
    /\ UNCHANGED <<backend, users, seq, clock>>

-----------------------------------------------------------------------------
(* The purger (the API's ticker or the CLI), and time                      *)

(* Mutants: an expiry that is due now is left; created, not expired.       *)
PurgedLate(s)  == s.at + SessionTTL < cutoff
PurgedEarly(s) == s.at <= cutoff
Purged(s) == s.at + SessionTTL <= cutoff

(* PurgeExpired reads the clock ...                                        *)
PurgeBegins ==
    /\ backend = "postgres"
    /\ cutoff = NoCutoff
    /\ cutoff' = now
    /\ UNCHANGED <<data, now, client>>

(* ... and then deletes, by the time it read.                              *)
PurgeDeletes ==
    /\ cutoff # NoCutoff
    /\ sessions' = {s \in sessions : ~Purged(s)}
    /\ cutoff' = NoCutoff
    /\ UNCHANGED <<backend, users, seq, now, client>>

(* A failed purge is logged; the ticker goes on.                           *)
PurgeFails ==
    /\ cutoff # NoCutoff
    /\ cutoff' = NoCutoff
    /\ UNCHANGED <<data, now, client>>

Tick ==
    /\ now < MaxTime
    /\ now' = now + 1
    /\ UNCHANGED <<data, cutoff, client>>

-----------------------------------------------------------------------------
(* Failures                                                                *)

(* A statement fails, or the process serving c dies: the tables keep what  *)
(* was written.                                                            *)
Abandon(c) ==
    /\ backend = "postgres"
    /\ pc[c] # "idle"
    /\ Finish(c) /\ Uncrossed(c)
    /\ UNCHANGED <<data, clock>>

(* With everything in memory a restart forgets it.                         *)
Restart ==
    /\ backend = "memory"
    /\ users' = [n \in Names |-> NoUser]
    /\ sessions' = {}
    /\ pc' = [c \in Clients |-> "idle"]
    /\ op' = [c \in Clients |-> "none"]
    /\ todo' = [c \in Clients |-> <<>>]
    /\ at' = [c \in Clients |-> 0]
    /\ crossed' = [c \in Clients |-> FALSE]
    /\ UNCHANGED <<backend, seq, clock>>

-----------------------------------------------------------------------------
Next ==
    \/ \E c \in Clients :
         \/ CreateUsers(c) \/ Update(c) \/ Delete(c) \/ Login(c) \/ Logout(c)
         \/ LoadMissing(c) \/ LoadForUpdate(c) \/ LoadForLogin(c)
         \/ SaveMemory(c) \/ SavePostgres(c) \/ RereadUser(c)
         \/ DropSessions(c) \/ DropUser(c) \/ SaveSession(c) \/ Abandon(c)
    \/ PurgeBegins \/ PurgeDeletes \/ PurgeFails \/ Tick \/ Restart

Spec == Init /\ [][Next]_vars

(* The ticker fires again whatever the last purge did, and a statement     *)
(* that is tried again and again succeeds in the end.                      *)
FairSpec == Spec /\ WF_vars(PurgeBegins) /\ SF_vars(PurgeDeletes)

-----------------------------------------------------------------------------
(* What is checked                                                         *)

(* Every variable keeps its type, and only a call under way has accounts   *)
(* to work on.                                                             *)
TypeOK ==
    /\ backend \in Backends
    /\ users \in [Names -> User \cup {NoUser}]
    /\ seq \in 0 .. MaxId
    /\ sessions \in SUBSET Session
    /\ now \in Time
    /\ cutoff \in Time \cup {NoCutoff}
    /\ pc \in [Clients -> PCs]
    /\ op \in [Clients -> Updates \cup {"none", "create"}]
    /\ todo \in [Clients -> Seq(Entry)]
    /\ \A c \in Clients : (pc[c] = "idle") <=> (todo[c] = <<>>)
    /\ at \in [Clients -> Time]
    /\ crossed \in [Clients -> BOOLEAN]

(* A session whose account is gone was opened by a login that overlapped   *)
(* the delete, or survived a delete whose statement failed or that spelled *)
(* the name differently: any other session was dropped before its account  *)
(* was (Delete drops sessions first, Login loads the account first).       *)
SessionsHaveAccounts ==
    \A s \in sessions : users[Row(s.user)] = NoUser => s.crossed

(* An update nobody overtook between its load and its save finds the       *)
(* account there and keeps its id (Update copies the id it loaded).        *)
IsolatedUpdate ==
    \A c \in Clients :
        op[c] = "update" /\ ~crossed[c] /\ (SaveMemory(c) \/ SavePostgres(c))
          => LET row == RowOf(c) IN
             users[row] # NoUser /\ users'[row] # NoUser /\ users'[row].id = users[row].id
IsolatedUpdatesKeepTheId == [][IsolatedUpdate]_vars

(* Whatever ends live sessions in one step, a delete, a logout, a newer    *)
(* login or a purge whose time is already past, ends those of one user     *)
(* only; a restart of a memory process aside.                              *)
Live(s) == backend = "postgres" => now < s.at + SessionTTL
EndedUsers ==
    {s.user : s \in {x \in sessions : Live(x) /\ \A y \in sessions' : y.user # x.user \/ y.at < x.at}}
LiveSessionsEndByUser == [][~Restart => Cardinality(EndedUsers) <= 1]_vars

(* An expired session is purged in the end, whatever purges fail and       *)
(* however the clock moves between the two steps of one.                   *)
ExpiredSessionsArePurged ==
    \A n \in Names, t \in Time :
        (/\ backend = "postgres" /\ t + SessionTTL <= now
         /\ \E s \in sessions : s.user = n /\ s.at = t)
          ~> ~ \E s \in sessions : s.user = n /\ s.at = t

=============================================================================
