------------------------ MODULE ChatServiceSessions ------------------------
(***************************************************************************)
(* Proof of MapSound and OneSession.                                       *)
(*                                                                         *)
(* Ordered says how the requests of one connection follow each other: a    *)
(* client sends nothing behind a login until it is answered, and one       *)
(* logout ends a chat, so a login or a logout finds none of its kind       *)
(* behind it.  MapKept ties an entry of _userConnMap to the connection it  *)
(* points to, and SessionsKept ties a user's entry, handlers and state.    *)
(* What login reads of the state may be stale when it acts on it, so       *)
(* OneSession rests on LoginsApart: no two logins of a user are in that    *)
(* gap at a time.  They are not if a person is at one client at a time.    *)
(***************************************************************************)
EXTENDS ChatServiceDelivery

CloseSteps == {"close_unsubscribe", "close_offline"}
BeforeInline == {"login_insert", "login_subscribe", "login_inline"}

(* A request on its way on c, a handler of c that is at one of some steps, *)
(* a login and a logout under way, and an entry that points to c.          *)
Sent(c, op, u) ==
  \E i \in DOMAIN reqs[c] : reqs[c][i].op = op /\ reqs[c][i].user = u
Runs(c, steps, u) == pc[c] \in steps /\ js[c].user = u
LogsIn(c, u)  == Sent(c, "login", u) \/ Runs(c, LoginSteps, u)
LogsOut(c, u) == Sent(c, "logout", u) \/ Runs(c, LogoutSteps, u)
Mapped(c, u)  == \E s \in Server : userConnMap[s][u] = c

-----------------------------------------------------------------------------
(* The order of the requests of a connection.                              *)

(* No request is behind a login, and at most one logout is on its way. *)
LoginLast(c) ==
  \A i \in DOMAIN reqs[c] : reqs[c][i].op = "login" => i = Len(reqs[c])
LogoutOnce(c) ==
  \A i, j \in DOMAIN reqs[c] :
    reqs[c][i].op = "logout" /\ reqs[c][j].op = "logout" => i = j
NoneBehindLogin(c) == pc[c] \in LoginSteps => reqs[c] = <<>>
NoneBehindLogout(c) ==
  pc[c] \in LogoutSteps => \A u \in User : ~Sent(c, "logout", u)

(* A client waits for the answer to its login, and leaves the chat when it *)
(* logs out.                                                               *)
LoginAwaited(c) ==
  \A u \in User :
    link[c] = "open" /\ LogsIn(c, u) => screen[c] = "wait" /\ me[c] = u
LogoutLeft(c) ==
  \A u \in User : link[c] = "open" /\ LogsOut(c, u) => screen[c] # "chat"

(* A client logs in its own users. *)
OwnUser(c) == \A u \in User : LogsIn(c, u) => u \in Uses[c]

(* The close handler runs when the peer is gone, and nothing after it. *)
ClosingDead(c) == pc[c] \in CloseSteps => link[c] = "dead" /\ reqs[c] = <<>>
GoneIdle(c) == ~Alive(c) => pc[c] = "idle" /\ reqs[c] = <<>>

(* A client without a connection shows its menu. *)
GoneMenu(c) == link[c] # "open" => screen[c] = "menu"

InOrder(c) ==
  /\ LoginLast(c) /\ LogoutOnce(c) /\ NoneBehindLogin(c) /\ NoneBehindLogout(c)
  /\ LoginAwaited(c) /\ LogoutLeft(c) /\ OwnUser(c)
  /\ ClosingDead(c) /\ GoneIdle(c) /\ GoneMenu(c)

Ordered == \A c \in Conn : InOrder(c)

-----------------------------------------------------------------------------
(* The entries of _userConnMap.                                            *)

Leaving(c, u) == Sent(c, "logout", u) \/ Runs(c, {"logout"}, u)

(* An entry of a server's map points to one of its connections. *)
EntryPlaced(c) ==
  \A s \in Server, u \in User :
    userConnMap[s][u] = c => at[c] = s /\ link[c] # "new" /\ u \in Uses[c]

(* An entry is gone before the next login on its connection, which follows *)
(* a logout, unless that logout was lost in a batch.                       *)
EntryLast(c) ==
  \A u \in User : Mapped(c, u) =>
    /\ pc[c] \notin {"login", "login_insert"}
    /\ pc[c] \in LoginSteps => js[c].user = u
    /\ \A v \in User : Sent(c, "login", v) => Leaving(c, u)
    /\ link[c] = "open" /\ screen[c] = "menu" => Leaving(c, u)
    /\ link[c] = "open" /\ screen[c] = "chat" => me[c] = u \/ Leaving(c, u)

(* A connection has one entry, and none when it is closed. *)
OneEntry(c) == \A u, v \in User : Mapped(c, u) /\ Mapped(c, v) => u = v
EntryAlive(c) ==
  \A u \in User : Mapped(c, u) => Alive(c) /\ pc[c] \notin CloseSteps

(***************************************************************************)
(* A logout is not lost in a batch, or each client logs in only one user.  *)
(***************************************************************************)
SoleUse == MaxBatch = 1 \/ \A c \in Conn : \A u, v \in Uses[c] : u = v

EntryKept(c) ==
  /\ EntryPlaced(c)
  /\ MaxBatch = 1 => EntryLast(c)
  /\ SoleUse => OneEntry(c) /\ EntryAlive(c)

MapKept == \A c \in Conn : EntryKept(c)

-----------------------------------------------------------------------------
(* The sessions of a user.                                                 *)

(* c holds u from the check of login to the end of logout or close: in a   *)
(* handler, in the map, in the chat of its client, or in a logout sent.    *)
Holds(c, u) ==
  \/ Runs(c, SessionSteps \cup {"logout"}, u)
  \/ Mapped(c, u)
  \/ link[c] = "open" /\ screen[c] = "chat" /\ me[c] = u
  \/ Sent(c, "logout", u)

(* The steps of a holder that has no entry. *)
Unmapped == {"login_insert", "logout_unsubscribe", "logout_offline"}
              \cup CloseSteps

(* No two logins of a user are between the check of his state and its update. *)
LoginsApart ==
  \A u \in User : \A c, d \in Conn :
    Runs(c, BeforeInline, u) /\ Runs(d, BeforeInline, u) => c = d

(* A user logs in at one client at a time. *)
TryOnce ==
  \A u \in User : \A c, d \in Conn : LogsIn(c, u) /\ LogsIn(d, u) => c = d

(* A user is held by one connection. *)
HoldOnce ==
  \A u \in User : \A c, d \in Conn : Holds(c, u) /\ Holds(d, u) => c = d

(* He is offline while nobody holds him, or his login is not yet done. *)
OfflineHeld(c) ==
  \A u \in User :
    state[u] = "offline" /\ Holds(c, u) => Runs(c, BeforeInline, u)
BeforeOffline(c) ==
  \A u \in User : Runs(c, BeforeInline, u) => state[u] = "offline"

(* A holder has an entry, except at some of its steps, when it has none. *)
HeldMapped(c) ==
  \A u \in User : Holds(c, u) => Mapped(c, u) \/ Runs(c, Unmapped, u)
UnmappedNone(c) == \A u \in User : Runs(c, Unmapped, u) => ~Mapped(c, u)

SessionKept(c) ==
  OfflineHeld(c) /\ BeforeOffline(c) /\ HeldMapped(c) /\ UnmappedNone(c)

SessionsKept == HoldOnce /\ \A c \in Conn : SessionKept(c)

-----------------------------------------------------------------------------
(* What a step leaves alone.                                               *)

(* The link, the client and the unread requests of d are as before. *)
SameClient(d) ==
  /\ reqs'[d] = reqs[d] /\ link'[d] = link[d] /\ at'[d] = at[d]
  /\ screen'[d] = screen[d] /\ me'[d] = me[d]

(* So is its handler; or it is at a step between chat requests. *)
SameJob(d) == pc'[d] = pc[d] /\ js'[d] = js[d]
SameSession(d) ==
  \/ SameJob(d)
  \/ pc[d] \in ChatSteps /\ pc'[d] \in ChatSteps \cup {"idle"}

Same(d) == SameClient(d) /\ SameSession(d)

(* No entry of d is new. *)
MapShrinks(d) ==
  \A s \in Server, u \in User :
    userConnMap'[s][u] = d => userConnMap[s][u] = d

(* A step of one connection leaves the others alone. *)
LEMMA ClientOthers ==
  ASSUME TypeOK, NEW c \in Conn, ClientStep(c)
  PROVE  /\ \A d \in Conn \ {c} : Same(d)
         /\ SameJob(c) /\ UNCHANGED <<userConnMap, state, logins, cmds, subs>>
<1> USE DEF TypeOK, Same, SameClient, SameJob, SameSession, mapVars, jobVars,
           dbVars, busVars, envVars, userVars
<1>1. CASE Connect(c) BY <1>1 DEF Connect
<1>2. CASE ClientGone(c) BY <1>2 DEF ClientGone
<1>3. CASE ClientLogout(c) BY <1>3 DEF ClientLogout, Send
<1>4. ASSUME NEW u \in Uses[c], NEW pwd \in Passwords, ClientLogin(c, u, pwd)
      PROVE  /\ \A d \in Conn \ {c} : Same(d)
             /\ SameJob(c)
             /\ UNCHANGED <<userConnMap, state, logins, cmds, subs>>
  BY <1>4 DEF ClientLogin, Send
<1>5. ASSUME NEW u \in User, NEW m \in Msg, ClientChat(c, u, m)
      PROVE  /\ \A d \in Conn \ {c} : Same(d)
             /\ SameJob(c)
             /\ UNCHANGED <<userConnMap, state, logins, cmds, subs>>
  BY <1>5 DEF ClientChat, Send
<1>6. ASSUME NEW m \in Msg, ClientGroupChat(c, m)
      PROVE  /\ \A d \in Conn \ {c} : Same(d)
             /\ SameJob(c)
             /\ UNCHANGED <<userConnMap, state, logins, cmds, subs>>
  BY <1>6 DEF ClientGroupChat, Send
<1>7. QED BY <1>1, <1>2, <1>3, <1>4, <1>5, <1>6, ClientStep(c) DEF ClientStep

(* So does a step of login, *)
LEMMA LoginOthers ==
  ASSUME TypeOK, NEW c \in Conn, LoginStep(c)
  PROVE  \A d \in Conn \ {c} : Same(d)
BY DEF LoginStep, login, login_insert, login_subscribe, login_inline,
       login_query, login_remove, login_reply, Reply, Done, Goto, TypeOK, Same,
       SameClient, SameJob, SameSession, mapVars, jobVars, dbVars, busVars,
       envVars, userVars

(* one of logout or of a close, *)
LEMMA LeaveOthers ==
  ASSUME TypeOK, NEW c \in Conn, LeaveStep(c)
  PROVE  \A d \in Conn \ {c} : Same(d)
<1> USE DEF Done, Goto, TypeOK, Same, SameClient, SameJob, SameSession, mapVars,
           jobVars, dbVars, busVars, envVars, userVars
<1>1. CASE logout(c) \/ logout_unsubscribe(c) \/ logout_offline(c)
  BY <1>1 DEF logout, logout_unsubscribe, logout_offline
<1>2. CASE ClientCloseException(c) BY <1>2 DEF ClientCloseException, Closed
<1>3. CASE close_unsubscribe(c)
  <2>1. /\ at' = at /\ me' = me /\ reqs' = reqs /\ screen' = screen
        /\ \/ link' = link /\ js' = js
           \/ /\ link' = [link EXCEPT ![c] = "closed"]
              /\ js' = [js EXCEPT ![c] = NoRequest]
        /\ \E step : pc' = [pc EXCEPT ![c] = step]
    BY <1>3 DEF close_unsubscribe, Closed
  <2>2. QED BY <2>1
<1>4. CASE close_offline(c) BY <1>4 DEF close_offline, Closed
<1>5. QED BY <1>1, <1>2, <1>3, <1>4, LeaveStep(c) DEF LeaveStep

(* and the reading of a request. *)
LEMMA ReadOthers ==
  ASSUME TypeOK, NEW c \in Conn, onMessage(c)
  PROVE  \A d \in Conn \ {c} : Same(d)
BY DEF onMessage, Goto, TypeOK, Same, SameClient, SameJob, SameSession

(* A chat concerns no session. *)
LEMMA ChatSame ==
  ASSUME TypeOK, NEW c \in Conn, ChatStep(c)
  PROVE  /\ \A d \in Conn : Same(d)
         /\ UNCHANGED <<userConnMap, state, logins, cmds, subs>>
<1> USE DEF Done, Goto, TypeOK, Same, SameClient, SameJob, SameSession, At,
           ChatSteps, mapVars, jobVars, dbVars, busVars, envVars, userVars
<1>1. CASE oneChat(c) \/ oneChat_query(c) \/ oneChat_insert(c)
  BY <1>1 DEF oneChat, oneChat_query, oneChat_insert, StoreOffline
<1>2. CASE oneChat_publish(c) BY <1>2 DEF oneChat_publish, publish
<1>3. CASE groupChat(c) BY <1>3 DEF groupChat
<1>4. CASE group_lock(c) BY <1>4 DEF group_lock
<1>5. CASE group_query(c) BY <1>5 DEF group_query
<1>6. CASE group_next(c)
  <2>1. \/ Unlock(c)
        \/ NextMember(c) /\ UNCHANGED <<pc, js>>
        \/ Goto(c, "group_query") /\ UNCHANGED <<idvec, connMutex, js>>
    BY <1>6 DEF group_next
  <2>2. CASE Unlock(c) BY <1>6, <2>2 DEF group_next, Unlock
  <2>3. CASE NextMember(c) /\ UNCHANGED <<pc, js>>
    BY <1>6, <2>3 DEF group_next, NextMember
  <2>4. CASE Goto(c, "group_query") /\ UNCHANGED <<idvec, connMutex, js>>
    BY <1>6, <2>4 DEF group_next
  <2>5. QED BY <2>1, <2>2, <2>3, <2>4
<1>7. CASE group_publish(c) BY <1>7 DEF group_publish, Unlock, publish
<1>8. CASE group_insert(c) BY <1>8 DEF group_insert, NextMember, StoreOffline
<1>9. QED
  BY <1>1, <1>2, <1>3, <1>4, <1>5, <1>6, <1>7, <1>8, ChatStep(c) DEF ChatStep

(* So do the observer, Redis, the reset and the restart of a server. *)
LEMMA ServerSame ==
  ASSUME TypeOK, NEW s \in Server,
         handleRedisSubscribeMessage(s) \/ RedisStep(s) \/ resetHandle(s)
           \/ restart(s)
  PROVE  (\A d \in Conn : Same(d)) /\ UNCHANGED <<userConnMap, logins>>
BY DEF handleRedisSubscribeMessage, RedisStep, resetHandle, restart, Same,
       SameClient, SameJob, SameSession, mapVars, jobVars, dbVars, busVars,
       envVars, userVars

(* What a server's end leaves of a connection. *)
LEMMA StopSame ==
  ASSUME TypeOK, NEW s \in Server, exit(s) \/ crash(s), NEW d \in Conn
  PROVE  /\ \/ SameClient(d) /\ SameJob(d) /\ ~(at[d] = s /\ Alive(d))
            \/ /\ at[d] = s /\ Alive(d) /\ link'[d] = "closed"
               /\ pc'[d] = "idle" /\ reqs'[d] = <<>> /\ screen'[d] = "menu"
         /\ MapShrinks(d) /\ at' = at
         /\ \A u \in User : userConnMap'[s][u] # d
         /\ \A r \in Server \ {s} : userConnMap'[r] = userConnMap[r]
         /\ UNCHANGED <<state, logins>>
<1>1. Stop(s) BY DEF exit, crash
<1>2. userConnMap'[s] = [u \in User |-> NoConn]
  BY <1>1 DEF Stop, TypeOK
<1>3. \A r \in Server \ {s} : userConnMap'[r] = userConnMap[r]
  BY <1>1 DEF Stop, TypeOK
<1>4. \A u \in User : userConnMap'[s][u] # d BY <1>2, ServiceAssumption
<1>5. MapShrinks(d) BY <1>3, <1>4 DEF MapShrinks
<1>6. QED
  BY <1>1, <1>3, <1>4, <1>5
     DEF Stop, TypeOK, SameClient, SameJob, Victims, dbVars

(* What is on its way, and the steps of sessions, of an untouched one. *)
LEMMA SameViews ==
  ASSUME NEW d \in Conn, NEW u, Same(d)
  PROVE  /\ \A op : Sent(d, op, u)' = Sent(d, op, u)
         /\ \A S \in SUBSET (Step \ (ChatSteps \cup {"idle"})) :
              /\ Runs(d, S, u)' = Runs(d, S, u)
              /\ (pc'[d] \in S) = (pc[d] \in S)
<1>1. \A op : Sent(d, op, u)' = Sent(d, op, u)
  BY DEF Sent, Same, SameClient
<1>2. ASSUME NEW S \in SUBSET (Step \ (ChatSteps \cup {"idle"}))
      PROVE  /\ Runs(d, S, u)' = Runs(d, S, u)
             /\ (pc'[d] \in S) = (pc[d] \in S)
  BY DEF Runs, Same, SameSession, SameJob
<1>3. QED BY <1>1, <1>2

(* The requests and the handler of d are as before. *)
SameWork(d) ==
  /\ SameJob(d)
  /\ reqs'[d] = reqs[d] /\ idvec'[d] = idvec[d] /\ vec'[d] = vec[d]

(* A handler works on its own connection. *)
LEMMA WorkOthers ==
  ASSUME TypeOK, NEW c \in Conn, WorkerStep(c), NEW d \in Conn \ {c}
  PROVE  SameWork(d)
<1> USE DEF Done, Goto, TypeOK, SameWork, SameJob, mapVars, jobVars, dbVars,
           busVars, envVars, userVars
<1>1. CASE onMessage(c) BY <1>1 DEF onMessage
<1>2. CASE LoginStep(c)
  BY <1>2 DEF LoginStep, login, login_insert, login_subscribe, login_inline,
              login_query, login_remove, login_reply, Reply
<1>3. CASE logout(c) \/ logout_unsubscribe(c) \/ logout_offline(c)
  BY <1>3 DEF logout, logout_unsubscribe, logout_offline
<1>4. CASE ClientCloseException(c) BY <1>4 DEF ClientCloseException
<1>5. CASE close_unsubscribe(c)
  <2>1. /\ reqs' = reqs /\ idvec' = idvec /\ vec' = vec
        /\ \/ js' = js
           \/ js' = [js EXCEPT ![c] = NoRequest]
        /\ \E step : pc' = [pc EXCEPT ![c] = step]
    BY <1>5 DEF close_unsubscribe, Closed
  <2>2. QED BY <2>1
<1>6. CASE close_offline(c) BY <1>6 DEF close_offline, Closed
<1>7. CASE oneChat(c) \/ oneChat_query(c) \/ oneChat_insert(c)
  BY <1>7 DEF oneChat, oneChat_query, oneChat_insert, StoreOffline
<1>8. CASE oneChat_publish(c) BY <1>8 DEF oneChat_publish, publish
<1>9. CASE groupChat(c) \/ group_lock(c) \/ group_query(c)
  BY <1>9 DEF groupChat, group_lock, group_query
<1>10. CASE group_next(c)
  <2>1. \/ Unlock(c)
        \/ NextMember(c) /\ UNCHANGED <<pc, js>>
        \/ Goto(c, "group_query") /\ UNCHANGED <<idvec, connMutex, js>>
    BY <1>10 DEF group_next
  <2>2. CASE Unlock(c) BY <1>10, <2>2 DEF group_next, Unlock
  <2>3. CASE NextMember(c) /\ UNCHANGED <<pc, js>>
    BY <1>10, <2>3 DEF group_next, NextMember
  <2>4. CASE Goto(c, "group_query") /\ UNCHANGED <<idvec, connMutex, js>>
    BY <1>10, <2>4 DEF group_next
  <2>5. QED BY <2>1, <2>2, <2>3, <2>4
<1>11. CASE group_publish(c) BY <1>11 DEF group_publish, Unlock, publish
<1>12. CASE group_insert(c) BY <1>12 DEF group_insert, NextMember, StoreOffline
<1>13. QED
  BY <1>1, <1>2, <1>3, <1>4, <1>5, <1>6, <1>7, <1>8, <1>9, <1>10, <1>11,
     <1>12, WorkerStep(c) DEF WorkerStep, LeaveStep, ChatStep

(* All but the first element of a queue are left when that is taken. *)
LEMMA TailKeeps ==
  ASSUME NEW S, NEW q \in Seq(S), NEW y, InSeq(y, q), y # Head(q)
  PROVE  InSeq(y, Tail(q))
<1>1. PICK i \in DOMAIN q : q[i] = y BY DEF InSeq
<1>2. i # 1 BY <1>1
<1>3. PICK j \in Nat : j = i - 1 BY <1>1
<1>4. j \in DOMAIN Tail(q) /\ Tail(q)[j] = q[i] BY <1>1, <1>2, <1>3
<1>5. QED BY <1>1, <1>4 DEF InSeq

-----------------------------------------------------------------------------
(* Ordered holds.                                                          *)

(* Nothing is on its way at the start. *)
LEMMA InitOrdered == Init => Ordered
BY DEF Init, Ordered, InOrder, LoginLast, LogoutOnce, NoneBehindLogin,
       NoneBehindLogout, LoginAwaited, LogoutLeft, OwnUser, ClosingDead,
       GoneIdle, GoneMenu, LogsIn, LogsOut, Sent, Runs, LoginSteps, LogoutSteps,
       CloseSteps, Alive

(* An untouched connection stays in order. *)
LEMMA Same_Ordered ==
  ASSUME TypeOK, NEW d \in Conn, InOrder(d), Same(d)
  PROVE  InOrder(d)'
<1> DEFINE Kinds == {LoginSteps, LogoutSteps, CloseSteps}
<1>1. \A u : /\ \A op : Sent(d, op, u)' = Sent(d, op, u)
             /\ \A S \in Kinds : /\ Runs(d, S, u)' = Runs(d, S, u)
                                 /\ (pc'[d] \in S) = (pc[d] \in S)
  <2>1. \A S \in Kinds : S \in SUBSET (Step \ (ChatSteps \cup {"idle"}))
    BY DEF LoginSteps, LogoutSteps, CloseSteps, Step, SessionSteps, ChatSteps
  <2>2. QED BY <2>1, SameViews
<1>2. LoginLast(d)' /\ LogoutOnce(d)'
  BY DEF InOrder, LoginLast, LogoutOnce, Same, SameClient
<1>3. NoneBehindLogin(d)' /\ NoneBehindLogout(d)' /\ ClosingDead(d)'
  BY <1>1 DEF InOrder, NoneBehindLogin, NoneBehindLogout, ClosingDead, Same,
              SameClient
<1>4. LoginAwaited(d)' /\ LogoutLeft(d)' /\ OwnUser(d)'
  BY <1>1 DEF InOrder, LoginAwaited, LogoutLeft, OwnUser, LogsIn, LogsOut,
              Same, SameClient
<1>5. GoneIdle(d)'
  BY DEF InOrder, GoneIdle, Alive, Same, SameClient, SameSession, SameJob,
         ChatSteps
<1>6. GoneMenu(d)' BY DEF InOrder, GoneMenu, Same, SameClient
<1>7. QED BY <1>2, <1>3, <1>4, <1>5, <1>6 DEF InOrder

(* So does one whose login or logout goes on. *)
LEMMA Goes_Ordered ==
  ASSUME TypeOK, NEW c \in Conn, InOrder(c), SameClient(c), js'[c] = js[c],
         \/ pc[c] \in LoginSteps /\ pc'[c] \in LoginSteps
         \/ pc[c] \in LogoutSteps /\ pc'[c] \in LogoutSteps
         \/ pc[c] \in CloseSteps /\ pc'[c] \in CloseSteps
  PROVE  InOrder(c)'
<1>1. \A op, u : Sent(c, op, u)' = Sent(c, op, u) BY DEF Sent, SameClient
<1>2. \A u : /\ Runs(c, LoginSteps, u)' = Runs(c, LoginSteps, u)
             /\ Runs(c, LogoutSteps, u)' = Runs(c, LogoutSteps, u)
  BY DEF Runs, LoginSteps, LogoutSteps, CloseSteps
<1>3. LoginLast(c)' /\ LogoutOnce(c)'
  BY DEF InOrder, LoginLast, LogoutOnce, SameClient
<1>4. NoneBehindLogin(c)' /\ NoneBehindLogout(c)' /\ ClosingDead(c)'
  BY <1>1 DEF InOrder, NoneBehindLogin, NoneBehindLogout, ClosingDead,
              SameClient, LoginSteps, LogoutSteps, CloseSteps
<1>5. LoginAwaited(c)' /\ LogoutLeft(c)' /\ OwnUser(c)'
  BY <1>1, <1>2 DEF InOrder, LoginAwaited, LogoutLeft, OwnUser, LogsIn,
                    LogsOut, SameClient
<1>6. GoneIdle(c)'
  BY DEF InOrder, GoneIdle, Alive, SameClient, LoginSteps, LogoutSteps,
         CloseSteps
<1>7. GoneMenu(c)' BY DEF InOrder, GoneMenu, SameClient
<1>8. QED BY <1>3, <1>4, <1>5, <1>6, <1>7 DEF InOrder

(* So does one whose handler ends, with an answer to a login or without. *)
LEMMA Ends_Ordered ==
  ASSUME TypeOK, Stages, NEW c \in Conn, InOrder(c), pc'[c] = "idle",
         reqs'[c] = reqs[c],
         \/ SameClient(c) /\ Alive(c)
         \/ link'[c] = link[c] /\ Alive(c) /\ pc[c] \in LoginSteps
         \/ pc[c] \in CloseSteps,
         link[c] # "open" => screen'[c] = screen[c] /\ link'[c] # "open",
         link'[c] = link[c] \/ pc[c] \in CloseSteps
  PROVE  InOrder(c)'
<1>1. \A op, u : Sent(c, op, u)' = Sent(c, op, u) BY DEF Sent
<1>2. /\ pc'[c] \notin LoginSteps \cup LogoutSteps \cup CloseSteps
      /\ \A u : ~Runs(c, LoginSteps, u)' /\ ~Runs(c, LogoutSteps, u)'
  BY DEF Runs, LoginSteps, LogoutSteps, CloseSteps
<1>3. LoginLast(c)' /\ LogoutOnce(c)' BY DEF InOrder, LoginLast, LogoutOnce
<1>4. NoneBehindLogin(c)' /\ NoneBehindLogout(c)' /\ ClosingDead(c)'
  BY <1>2 DEF NoneBehindLogin, NoneBehindLogout, ClosingDead
<1>5. reqs[c] = <<>> => \A op, u : ~Sent(c, op, u) BY DEF Sent
<1>6. OwnUser(c)' BY <1>1, <1>2 DEF InOrder, OwnUser, LogsIn
<1>7. GoneMenu(c)' BY DEF InOrder, GoneMenu, ClosingDead
<1>8. CASE SameClient(c) /\ Alive(c)
  <2>1. LoginAwaited(c)' /\ LogoutLeft(c)'
    BY <1>1, <1>2, <1>8 DEF InOrder, LoginAwaited, LogoutLeft, LogsIn, LogsOut,
                            SameClient
  <2>2. GoneIdle(c)' BY <1>8 DEF GoneIdle, Alive, SameClient
  <2>3. QED BY <1>3, <1>4, <1>6, <1>7, <2>1, <2>2 DEF InOrder
<1>9. CASE reqs[c] = <<>>
  <2>1. LoginAwaited(c)' /\ LogoutLeft(c)'
    BY <1>1, <1>2, <1>5, <1>9 DEF LoginAwaited, LogoutLeft, LogsIn, LogsOut
  <2>2. GoneIdle(c)' BY <1>9 DEF GoneIdle
  <2>3. QED BY <1>3, <1>4, <1>6, <1>7, <2>1, <2>2 DEF InOrder
<1>10. pc[c] \in LoginSteps \cup CloseSteps => reqs[c] = <<>>
  BY DEF InOrder, NoneBehindLogin, ClosingDead
<1>11. QED BY <1>8, <1>9, <1>10

(* A request that is sent is on its way, behind the others. *)
LEMMA SendSent ==
  ASSUME TypeOK, NEW c \in Conn,
         NEW op \in {"login", "logout", "oneChat", "groupChat"},
         NEW u \in Channel, NEW m \in Msg \cup {NoMsg}, NEW pwd \in BOOLEAN,
         Send(c, op, u, m, pwd)
  PROVE  /\ \A o, v : Sent(c, o, v)' <=> Sent(c, o, v) \/ (o = op /\ v = u)
         /\ reqs'[c] # <<>> /\ Len(reqs'[c]) = Len(reqs[c]) + 1
         /\ DOMAIN reqs'[c] = DOMAIN reqs[c] \cup {Len(reqs[c]) + 1}
         /\ \A i \in DOMAIN reqs[c] : reqs'[c][i] = reqs[c][i]
         /\ reqs'[c][Len(reqs[c]) + 1].op = op
<1> DEFINE r == [op |-> op, user |-> u, msg |-> m, pwd |-> pwd]
           q == reqs[c]
<1>1. reqs'[c] = Append(q, r) BY DEF Send, TypeOK
<1>2. q \in Seq(Request) /\ r \in Request BY DEF TypeOK, Request
<1>3. /\ Append(q, r) # <<>> /\ Len(Append(q, r)) = Len(q) + 1
      /\ DOMAIN Append(q, r) = DOMAIN q \cup {Len(q) + 1}
      /\ \A i \in DOMAIN q : Append(q, r)[i] = q[i]
      /\ Append(q, r)[Len(q) + 1] = r
  BY <1>2
<1>4. r.op = op /\ r.user = u OBVIOUS
<1> HIDE DEF r, q
<1>5. \A o, v : Sent(c, o, v)' <=> Sent(c, o, v) \/ (o = op /\ v = u)
  BY <1>1, <1>3, <1>4 DEF Sent, q
<1>6. QED BY <1>1, <1>3, <1>4, <1>5 DEF q

(* What a read leaves was there, and what it takes was not behind a login. *)
LEMMA ReadSent ==
  ASSUME TypeOK, NEW c \in Conn, onMessage(c), LoginLast(c), LogoutOnce(c)
  PROVE  /\ \A o, v : Sent(c, o, v)' => Sent(c, o, v)
         /\ Sent(c, js'[c].op, js'[c].user)
         /\ pc'[c] = js'[c].op /\ js'[c] \in Request
         /\ js'[c].op = "login" => /\ reqs'[c] = <<>>
                                   /\ \A v : ~Sent(c, "logout", v)
         /\ js'[c].op = "logout" => \A v : ~Sent(c, "logout", v)'
         /\ MaxBatch = 1 => \A o, v : Sent(c, o, v) =>
              Sent(c, o, v)' \/ (o = js'[c].op /\ v = js'[c].user)
         /\ LoginLast(c)' /\ LogoutOnce(c)'
<1> DEFINE q == reqs[c]
<1>1. /\ q \in Seq(Request) /\ q # <<>> /\ js'[c] = Head(q)
      /\ pc'[c] = Head(q).op
  BY DEF onMessage, TypeOK, Goto
<1>2. PICK n \in 1..MaxBatch :
        n <= Len(q) /\ reqs'[c] = SubSeq(q, n + 1, Len(q))
  BY DEF onMessage, TypeOK
<1>3. n \in Nat \ {0} /\ (MaxBatch = 1 => n = 1)
  BY <1>2, ServiceAssumption
<1> DEFINE t == SubSeq(q, n + 1, Len(q))
<1>4. /\ Head(q) = q[1] /\ 1 \in DOMAIN q /\ q[1] \in Request
      /\ DOMAIN q = 1..Len(q) /\ Len(q) \in Nat
  BY <1>1
<1>5. /\ DOMAIN t = 1..(Len(q) - n) /\ Len(t) = Len(q) - n /\ t \in Seq(Request)
      /\ \A i \in DOMAIN t : i \in Nat \ {0} /\ i + n \in DOMAIN q
                               /\ t[i] = q[i + n]
  <2>1. t \in Seq(Request) /\ Len(t) = Len(q) - n BY <1>1, <1>2, <1>3
  <2>2. DOMAIN t = 1..(Len(q) - n) BY <2>1
  <2>3. \A i \in DOMAIN t : i + n \in DOMAIN q /\ t[i] = q[i + n]
    BY <1>1, <1>2, <1>3, LaterElement
  <2>4. QED BY <1>2, <1>3, <1>4, <2>1, <2>2, <2>3
<1>6. Len(t) = 0 => t = <<>> BY <1>5
<1> HIDE DEF q, t
<1>7. \A o, v :
        Sent(c, o, v) <=> \E i \in DOMAIN q : q[i].op = o /\ q[i].user = v
  BY DEF Sent, q
<1>8. reqs'[c] = t BY <1>2 DEF t
<1>9. \A o, v :
        Sent(c, o, v)' <=> \E i \in DOMAIN t : t[i].op = o /\ t[i].user = v
  BY <1>8 DEF Sent
<1>10. \A o, v : Sent(c, o, v)' => Sent(c, o, v) BY <1>5, <1>7, <1>9
<1>11. Sent(c, js'[c].op, js'[c].user) BY <1>1, <1>4, <1>7
<1>12. ASSUME q[1].op = "login"
       PROVE  t = <<>> /\ \A v : ~Sent(c, "logout", v)
  <2>1. Len(q) = 1 BY <1>4, <1>12 DEF LoginLast, q
  <2>2. Len(t) = 0 BY <1>2, <1>3, <1>5, <2>1 DEF q
  <2>3. \A i \in DOMAIN q : i = 1 BY <1>4, <2>1
  <2>4. QED BY <1>6, <1>7, <1>12, <2>2, <2>3
<1>13. ASSUME q[1].op = "logout" PROVE \A v : ~Sent(c, "logout", v)'
  <2>1. \A i \in DOMAIN q : q[i].op = "logout" => i = 1
    BY <1>4, <1>13 DEF LogoutOnce, q
  <2>2. \A i \in DOMAIN t : i + n # 1 BY <1>3, <1>5
  <2>3. \A i \in DOMAIN t : t[i].op # "logout" BY <1>5, <2>1, <2>2
  <2>4. QED BY <1>9, <2>3
<1>14. ASSUME MaxBatch = 1, NEW o, NEW v, Sent(c, o, v)
       PROVE  Sent(c, o, v)' \/ (o = q[1].op /\ v = q[1].user)
  <2>1. PICK i \in DOMAIN q : q[i].op = o /\ q[i].user = v BY <1>7, <1>14
  <2>2. CASE i = 1 BY <2>1, <2>2
  <2>3. CASE i # 1
    <3>1. i - 1 \in DOMAIN t /\ (i - 1) + n = i
      BY <1>3, <1>4, <1>5, <1>14, <2>3
    <3>2. t[i - 1] = q[i] BY <1>5, <3>1
    <3>3. QED BY <1>9, <2>1, <3>1, <3>2
  <2>4. QED BY <2>2, <2>3
<1>15. LoginLast(c)'
  <2>1. ASSUME NEW i \in DOMAIN t, t[i].op = "login" PROVE i = Len(t)
    <3>1. i + n \in DOMAIN q /\ q[i + n].op = "login" BY <1>5, <2>1
    <3>2. i + n = Len(q) BY <3>1 DEF LoginLast, q
    <3>3. QED BY <1>3, <1>4, <1>5, <3>2
  <2>2. QED BY <1>8, <2>1 DEF LoginLast
<1>16. LogoutOnce(c)'
  <2>1. ASSUME NEW i \in DOMAIN t, NEW j \in DOMAIN t,
               t[i].op = "logout", t[j].op = "logout"
        PROVE  i = j
    <3>1. i + n \in DOMAIN q /\ j + n \in DOMAIN q BY <1>5
    <3>2. q[i + n].op = "logout" /\ q[j + n].op = "logout" BY <1>5, <2>1
    <3>3. i + n = j + n BY <3>1, <3>2 DEF LogoutOnce, q
    <3>4. QED BY <1>3, <1>5, <3>3
  <2>2. QED BY <1>8, <2>1 DEF LogoutOnce
<1>17. QED
  BY <1>1, <1>4, <1>8, <1>10, <1>11, <1>12, <1>13, <1>14, <1>15, <1>16

(* What the client of a session sends to end it, *)
LEMMA LogoutRequest ==
  ASSUME TypeOK, NEW c \in Conn, ClientLogout(c)
  PROVE  /\ Send(c, "logout", me[c], NoMsg, FALSE) /\ me[c] \in Channel
         /\ screen[c] = "chat" /\ screen'[c] = "menu"
BY DEF ClientLogout, TypeOK

(* and to begin one. *)
LEMMA LoginRequest ==
  ASSUME TypeOK, NEW c \in Conn, NEW u \in Uses[c], NEW pwd \in Passwords,
         ClientLogin(c, u, pwd)
  PROVE  /\ Send(c, "login", u, NoMsg, pwd)
         /\ u \in User /\ u \in Channel /\ pwd \in BOOLEAN
         /\ screen[c] = "menu" /\ screen'[c] = "wait" /\ me'[c] = u
<1>1. u \in User /\ u \in Channel /\ pwd \in BOOLEAN
  BY ServiceAssumption DEF Channel
<1>2. QED BY <1>1 DEF ClientLogin, TypeOK

(* A request sent while no login is under way leaves the rest in order. *)
LEMMA Send_Ordered ==
  ASSUME TypeOK, Stages, NEW c \in Conn, InOrder(c),
         NEW op \in {"login", "logout", "oneChat", "groupChat"},
         NEW u \in Channel, NEW m \in Msg \cup {NoMsg}, NEW pwd \in BOOLEAN,
         Send(c, op, u, m, pwd), SameJob(c), screen[c] # "wait",
         op = "login" =>
           u \in Uses[c] /\ screen'[c] = "wait" /\ me'[c] = u,
         op = "logout" => screen[c] = "chat" /\ screen'[c] = "menu",
         op \notin {"login", "logout"} =>
           screen'[c] = screen[c] /\ me'[c] = me[c]
  PROVE  InOrder(c)'
<1>1. /\ \A o, v : Sent(c, o, v)' <=> Sent(c, o, v) \/ (o = op /\ v = u)
      /\ reqs'[c] # <<>> /\ Len(reqs'[c]) = Len(reqs[c]) + 1
      /\ DOMAIN reqs'[c] = DOMAIN reqs[c] \cup {Len(reqs[c]) + 1}
      /\ \A i \in DOMAIN reqs[c] : reqs'[c][i] = reqs[c][i]
      /\ reqs'[c][Len(reqs[c]) + 1].op = op
  BY SMTT(20), SendSent
<1>2. link[c] = "open" /\ link'[c] = link[c] BY DEF Send
<1>3. \A v : Runs(c, LoginSteps, v)' = Runs(c, LoginSteps, v)
             /\ Runs(c, LogoutSteps, v)' = Runs(c, LogoutSteps, v)
  BY DEF SameJob, Runs
<1>4. \A v \in User : ~LogsIn(c, v) BY <1>2 DEF InOrder, LoginAwaited
<1>5. op = "logout" => \A v \in User : ~LogsOut(c, v)
  BY <1>2 DEF InOrder, LogoutLeft
<1>6. \A i \in DOMAIN reqs[c] :
        reqs[c][i].user \in User /\ Sent(c, reqs[c][i].op, reqs[c][i].user)
  BY DEF Stages, Formed, WellFormed, Sent
<1>7. pc[c] \notin LoginSteps
  BY <1>4 DEF LogsIn, Runs, Stages, UserKnown
<1>8. op = "logout" => pc[c] \notin LogoutSteps
  BY <1>5 DEF LogsOut, Runs, Stages, UserKnown
<1>9. \A i \in DOMAIN reqs[c] :
        /\ reqs[c][i].op # "login"
        /\ op = "logout" => reqs[c][i].op # "logout"
  BY <1>4, <1>5, <1>6 DEF LogsIn, LogsOut
<1>10. LoginLast(c)' BY <1>1, <1>9 DEF LoginLast
<1>11. LogoutOnce(c)' BY <1>1, <1>9 DEF LogoutOnce, InOrder
<1>12. NoneBehindLogin(c)' /\ NoneBehindLogout(c)'
  BY <1>1, <1>7, <1>8 DEF NoneBehindLogin, NoneBehindLogout, InOrder, SameJob
<1>13. LoginAwaited(c)' /\ OwnUser(c)'
  BY <1>1, <1>3, <1>4 DEF LoginAwaited, OwnUser, LogsIn
<1>14. LogoutLeft(c)'
  BY <1>1, <1>2, <1>3 DEF LogoutLeft, LogsOut, InOrder
<1>15. ClosingDead(c)' BY <1>2 DEF ClosingDead, InOrder, SameJob
<1>16. GoneIdle(c)' BY <1>2 DEF GoneIdle, Alive
<1>17. GoneMenu(c)' BY <1>2 DEF GoneMenu
<1>18. QED
  BY <1>10, <1>11, <1>12, <1>13, <1>14, <1>15, <1>16, <1>17 DEF InOrder

(* The client keeps its connection in order. *)
LEMMA Client_Ordered ==
  ASSUME TypeOK, TypeOK', Stages, NEW c \in Conn, InOrder(c), ClientStep(c)
  PROVE  InOrder(c)'
<1>1. SameJob(c) BY ClientOthers
<1>2. ASSUME reqs'[c] = reqs[c], Alive(c)',
             \A u \in User :
               link'[c] = "open" => ~LogsIn(c, u) /\ ~LogsOut(c, u),
             pc[c] \in CloseSteps => link'[c] = "dead",
             link'[c] # "open" => screen'[c] = "menu"
      PROVE  InOrder(c)'
  <2>1. \A u : /\ \A op : Sent(c, op, u)' = Sent(c, op, u)
               /\ LogsIn(c, u)' = LogsIn(c, u) /\ LogsOut(c, u)' = LogsOut(c, u)
    BY <1>1, <1>2 DEF LogsIn, LogsOut, Sent, Runs, SameJob
  <2>2. LoginLast(c)' /\ LogoutOnce(c)'
    BY <1>2 DEF InOrder, LoginLast, LogoutOnce
  <2>3. NoneBehindLogin(c)' /\ NoneBehindLogout(c)' /\ OwnUser(c)'
    BY <1>1, <1>2, <2>1
       DEF InOrder, NoneBehindLogin, NoneBehindLogout, OwnUser, SameJob
  <2>4. LoginAwaited(c)' /\ LogoutLeft(c)'
    BY <1>2, <2>1 DEF LoginAwaited, LogoutLeft
  <2>5. ClosingDead(c)' /\ GoneIdle(c)'
    BY <1>1, <1>2 DEF InOrder, ClosingDead, GoneIdle, SameJob, Alive
  <2>6. GoneMenu(c)' BY <1>2 DEF GoneMenu
  <2>7. QED BY <2>2, <2>3, <2>4, <2>5, <2>6 DEF InOrder
<1>3. CASE Connect(c)
  <2>1. /\ link[c] = "new" /\ link'[c] = "open" /\ reqs'[c] = reqs[c]
        /\ pc[c] = "idle" /\ reqs[c] = <<>>
    BY <1>3 DEF Connect, TypeOK, InOrder, GoneIdle, Alive
  <2>2. \A u \in User : ~LogsIn(c, u) /\ ~LogsOut(c, u)
    BY <2>1 DEF LogsIn, LogsOut, Sent, Runs, LoginSteps, LogoutSteps
  <2>3. QED BY <1>2, <2>1, <2>2 DEF CloseSteps, Alive
<1>4. CASE ClientGone(c)
  <2>1. link'[c] = "dead" /\ reqs'[c] = reqs[c] /\ screen'[c] = "menu"
    BY <1>4 DEF ClientGone, TypeOK
  <2>2. QED BY <1>2, <2>1 DEF Alive
<1>5. CASE ClientLogout(c)
  <2>1. /\ Send(c, "logout", me[c], NoMsg, FALSE) /\ screen[c] = "chat"
        /\ screen'[c] = "menu" /\ me[c] \in Channel
    BY <1>5, LogoutRequest
  <2>2. QED BY <1>1, <2>1, Send_Ordered
<1>6. ASSUME NEW u \in Uses[c], NEW pwd \in Passwords, ClientLogin(c, u, pwd)
      PROVE  InOrder(c)'
  <2>1. u \in Channel /\ pwd \in BOOLEAN BY <1>6, LoginRequest
  <2>2. /\ Send(c, "login", u, NoMsg, pwd) /\ screen[c] = "menu"
        /\ screen'[c] = "wait" /\ me'[c] = u
    BY <1>6, LoginRequest
  <2>3. QED BY <1>1, <2>1, <2>2, Send_Ordered
<1>7. ASSUME NEW u \in User, NEW m \in Msg, ClientChat(c, u, m)
      PROVE  InOrder(c)'
  <2>1. /\ Send(c, "oneChat", u, m, FALSE) /\ screen[c] = "chat"
        /\ screen'[c] = screen[c] /\ me'[c] = me[c] /\ u \in Channel
    BY <1>7 DEF ClientChat, Channel, userVars
  <2>2. QED BY <1>1, <2>1, Send_Ordered
<1>8. ASSUME NEW m \in Msg, ClientGroupChat(c, m)
      PROVE  InOrder(c)'
  <2>1. /\ Send(c, "groupChat", me[c], m, FALSE) /\ screen[c] = "chat"
        /\ screen'[c] = screen[c] /\ me'[c] = me[c] /\ me[c] \in Channel
    BY <1>8 DEF ClientGroupChat, TypeOK, userVars
  <2>2. QED BY <1>1, <2>1, Send_Ordered
<1>9. QED BY <1>3, <1>4, <1>5, <1>6, <1>7, <1>8 DEF ClientStep

(* So does a request that is read. *)
LEMMA Read_Ordered ==
  ASSUME TypeOK, TypeOK', Stages, NEW c \in Conn, InOrder(c), onMessage(c)
  PROVE  InOrder(c)'
<1>1. /\ \A o, v : Sent(c, o, v)' => Sent(c, o, v)
      /\ Sent(c, js'[c].op, js'[c].user)
      /\ pc'[c] = js'[c].op /\ js'[c] \in Request
      /\ js'[c].op = "login" => reqs'[c] = <<>>
      /\ js'[c].op = "logout" => \A v : ~Sent(c, "logout", v)'
      /\ LoginLast(c)' /\ LogoutOnce(c)'
  BY ReadSent DEF InOrder
<1>2. js'[c].op \in {"login", "logout", "oneChat", "groupChat"}
  BY <1>1 DEF Request
<1>3. Alive(c) /\ link'[c] = link[c] /\ screen'[c] = screen[c] /\ me'[c] = me[c]
  BY DEF onMessage, At
<1>4. \A v : LogsIn(c, v)' => LogsIn(c, v)
  BY <1>1, <1>2 DEF LogsIn, Runs, LoginSteps
<1>5. \A v : LogsOut(c, v)' => LogsOut(c, v)
  BY <1>1, <1>2 DEF LogsOut, Runs, LogoutSteps
<1>6. NoneBehindLogin(c)' /\ NoneBehindLogout(c)'
  BY <1>1, <1>2 DEF NoneBehindLogin, NoneBehindLogout, LoginSteps, LogoutSteps
<1>7. LoginAwaited(c)' /\ LogoutLeft(c)' /\ OwnUser(c)'
  BY <1>3, <1>4, <1>5 DEF InOrder, LoginAwaited, LogoutLeft, OwnUser
<1>8. ClosingDead(c)' /\ GoneIdle(c)' /\ GoneMenu(c)'
  BY <1>1, <1>2, <1>3
     DEF InOrder, ClosingDead, GoneIdle, GoneMenu, CloseSteps, Alive
<1>9. QED BY <1>1, <1>6, <1>7, <1>8 DEF InOrder

(* So does a login. *)
LEMMA Login_Ordered ==
  ASSUME TypeOK, Stages, NEW c \in Conn, InOrder(c), LoginStep(c)
  PROVE  InOrder(c)'
<1> USE DEF At, Goto, TypeOK, envVars, userVars, SameClient, LoginSteps
<1>1. CASE login(c)
  <2>1. CASE Goto(c, "login_insert") /\ UNCHANGED <<userVars, js>>
    BY <1>1, <2>1, Goes_Ordered DEF login
  <2>2. CASE Reply(c, "menu", NoUser)
    BY <1>1, <2>2, Ends_Ordered DEF login, Reply, Done
  <2>3. QED BY <1>1, <2>1, <2>2 DEF login
<1>2. CASE login_insert(c) BY <1>2, Goes_Ordered DEF login_insert
<1>3. CASE login_subscribe(c)
  BY <1>3, Goes_Ordered DEF login_subscribe
<1>4. CASE login_inline(c) BY <1>4, Goes_Ordered DEF login_inline
<1>5. CASE login_query(c) BY <1>5, Goes_Ordered DEF login_query
<1>6. CASE login_remove(c) BY <1>6, Goes_Ordered DEF login_remove
<1>7. CASE login_reply(c) BY <1>7, Ends_Ordered DEF login_reply, Reply, Done
<1>8. QED BY <1>1, <1>2, <1>3, <1>4, <1>5, <1>6, <1>7, LoginStep(c)
         DEF LoginStep

(* So do a logout and the end of a connection. *)
LEMMA Leave_Ordered ==
  ASSUME TypeOK, Stages, NEW c \in Conn, InOrder(c), LeaveStep(c)
  PROVE  InOrder(c)'
<1> USE DEF At, Goto, TypeOK, envVars, userVars, SameClient, LogoutSteps,
           CloseSteps
<1>1. CASE logout(c) BY <1>1, Goes_Ordered DEF logout
<1>2. CASE logout_unsubscribe(c) BY <1>2, Goes_Ordered DEF logout_unsubscribe
<1>3. CASE logout_offline(c) BY <1>3, Ends_Ordered DEF logout_offline, Done
<1>4. CASE ClientCloseException(c)
  <2>1. /\ pc'[c] = "close_unsubscribe" /\ reqs'[c] = <<>>
        /\ link[c] = "dead" /\ link'[c] = "dead" /\ screen' = screen
    BY <1>4 DEF ClientCloseException
  <2>2. \A op, u : ~Sent(c, op, u)' BY <2>1 DEF Sent
  <2>3. \A u : ~LogsIn(c, u)' /\ ~LogsOut(c, u)'
    BY <2>1, <2>2 DEF LogsIn, LogsOut, Runs, LoginSteps
  <2>4. LoginLast(c)' /\ LogoutOnce(c)' BY <2>1 DEF LoginLast, LogoutOnce
  <2>5. NoneBehindLogin(c)' /\ NoneBehindLogout(c)'
    BY <2>1, <2>2 DEF NoneBehindLogin, NoneBehindLogout
  <2>6. LoginAwaited(c)' /\ LogoutLeft(c)' /\ OwnUser(c)'
    BY <2>3 DEF LoginAwaited, LogoutLeft, OwnUser
  <2>7. ClosingDead(c)' /\ GoneIdle(c)' /\ GoneMenu(c)'
    BY <2>1 DEF InOrder, ClosingDead, GoneIdle, GoneMenu, Alive
  <2>8. QED BY <2>4, <2>5, <2>6, <2>7 DEF InOrder
<1>5. CASE close_unsubscribe(c)
  <2>1. CASE Closed(c)
    BY <1>5, <2>1, Ends_Ordered DEF close_unsubscribe, Closed, Done
  <2>2. CASE Goto(c, "close_offline") /\ UNCHANGED <<link, js>>
    BY <1>5, <2>2, Goes_Ordered DEF close_unsubscribe
  <2>3. QED BY <1>5, <2>1, <2>2 DEF close_unsubscribe
<1>6. CASE close_offline(c)
  BY <1>6, Ends_Ordered DEF close_offline, Closed, Done
<1>7. QED BY <1>1, <1>2, <1>3, <1>4, <1>5, <1>6, LeaveStep(c) DEF LeaveStep

(* The end of a server leaves its connections without requests. *)
LEMMA Stop_Ordered ==
  ASSUME TypeOK, NEW s \in Server, exit(s) \/ crash(s),
         NEW d \in Conn, InOrder(d)
  PROVE  InOrder(d)'
<1>1. CASE SameClient(d) /\ SameJob(d)
  BY <1>1, Same_Ordered DEF Same, SameSession
<1>2. CASE /\ pc'[d] = "idle" /\ reqs'[d] = <<>>
           /\ link'[d] = "closed" /\ screen'[d] = "menu"
  <2>1. \A op, u : ~Sent(d, op, u)' BY <1>2 DEF Sent
  <2>2. \A u : ~LogsIn(d, u)' /\ ~LogsOut(d, u)'
    BY <1>2, <2>1 DEF LogsIn, LogsOut, Runs, LoginSteps, LogoutSteps
  <2>3. LoginLast(d)' /\ LogoutOnce(d)' BY <1>2 DEF LoginLast, LogoutOnce
  <2>4. NoneBehindLogin(d)' /\ NoneBehindLogout(d)'
    BY <1>2, <2>1 DEF NoneBehindLogin, NoneBehindLogout
  <2>5. LoginAwaited(d)' /\ LogoutLeft(d)' /\ OwnUser(d)'
    BY <2>2 DEF LoginAwaited, LogoutLeft, OwnUser
  <2>6. ClosingDead(d)' /\ GoneIdle(d)' /\ GoneMenu(d)'
    BY <1>2 DEF ClosingDead, GoneIdle, GoneMenu, CloseSteps
  <2>7. QED BY <2>3, <2>4, <2>5, <2>6 DEF InOrder
<1>3. QED BY <1>1, <1>2, StopSame

(* Every step keeps the requests in order. *)
LEMMA OrderedStep ==
  ASSUME TypeOK, TypeOK', Stages, Ordered, [Next]_vars
  PROVE  Ordered'
<1>1. ASSUME NEW c \in Conn, \A d \in Conn \ {c} : Same(d), InOrder(c)'
      PROVE  Ordered'
  BY <1>1, Same_Ordered DEF Ordered
<1>2. ASSUME NEW c \in Conn, ClientStep(c) \/ WorkerStep(c)
      PROVE  Ordered'
  <2>1. InOrder(c) BY DEF Ordered
  <2>2. CASE ClientStep(c)
    BY <1>1, <2>1, <2>2, ClientOthers, Client_Ordered
  <2>3. CASE onMessage(c) BY <1>1, <2>1, <2>3, ReadOthers, Read_Ordered
  <2>4. CASE LoginStep(c) BY <1>1, <2>1, <2>4, LoginOthers, Login_Ordered
  <2>5. CASE LeaveStep(c) BY <1>1, <2>1, <2>5, LeaveOthers, Leave_Ordered
  <2>6. CASE ChatStep(c) BY <2>6, ChatSame, Same_Ordered DEF Ordered
  <2>7. QED BY <1>2, <2>2, <2>3, <2>4, <2>5, <2>6 DEF WorkerStep
<1>3. ASSUME NEW s \in Server, ServerStep(s)
      PROVE  Ordered'
  <2>1. CASE exit(s) \/ crash(s) BY <2>1, Stop_Ordered DEF Ordered
  <2>2. CASE ~(exit(s) \/ crash(s))
    BY <1>3, <2>2, ServerSame, Same_Ordered DEF Ordered, ServerStep
  <2>3. QED BY <2>1, <2>2
<1>4. CASE UNCHANGED vars
  <2>1. \A d \in Conn : Same(d)
    BY <1>4 DEF vars, envVars, userVars, jobVars, Same, SameClient,
                SameSession, SameJob
  <2>2. QED BY <2>1, Same_Ordered DEF Ordered
<1>5. QED BY <1>2, <1>3, <1>4 DEF Next

(***************************************************************************)
(* Whatever the servers, clients, batches and faults, nothing is behind a  *)
(* login on its connection and a chat ends in one logout.                  *)
(***************************************************************************)
THEOREM RequestsOrdered == Spec => []Ordered
<1>1. Init => Ordered BY InitOrdered
<1>2. TypeOK /\ TypeOK' /\ Stages /\ Ordered /\ [Next]_vars => Ordered'
  BY OrderedStep
<1>3. QED BY <1>1, <1>2, TypesHold, PTL DEF Spec

-----------------------------------------------------------------------------
(* MapKept holds.                                                          *)

(* The maps are empty at the start. *)
LEMMA InitMapKept == Init => MapKept
BY ServiceAssumption
   DEF Init, MapKept, EntryKept, EntryPlaced, EntryLast, OneEntry, EntryAlive,
       Mapped

(* A connection without an entry has none to keep. *)
LEMMA None_Kept ==
  ASSUME NEW c \in Conn,
         \A s \in Server, u \in User : userConnMap'[s][u] # c
  PROVE  EntryKept(c)'
<1>1. \A u \in User : ~Mapped(c, u)' BY DEF Mapped
<1>2. QED
  BY <1>1 DEF EntryKept, EntryPlaced, EntryLast, OneEntry, EntryAlive

(* If no entry of a connection is new, none of its users is newly mapped. *)
LEMMA ShrinksMapped ==
  ASSUME NEW c, MapShrinks(c), NEW u \in User, Mapped(c, u)'
  PROVE  Mapped(c, u)
BY DEF MapShrinks, Mapped

(* A connection whose client is left alone keeps its entries right, if its *)
(* handler gets to a login or a close from one.                            *)
LEMMA Works_Kept ==
  ASSUME TypeOK, NEW c \in Conn, EntryKept(c), MapShrinks(c), SameClient(c),
         pc'[c] \notin {"login"},
         pc'[c] \in LoginSteps => pc[c] \in LoginSteps /\ js'[c] = js[c],
         pc'[c] = "login_insert" => pc[c] \in {"login", "login_insert"},
         pc'[c] \in CloseSteps => pc[c] \in CloseSteps,
         \A u \in User :
           Mapped(c, u)' /\ Runs(c, {"logout"}, u) => Runs(c, {"logout"}, u)'
  PROVE  EntryKept(c)'
<1>1. \A u \in User : Mapped(c, u)' => Mapped(c, u) BY ShrinksMapped
<1>2. \A op, u : Sent(c, op, u)' = Sent(c, op, u) BY DEF Sent, SameClient
<1>3. \A u \in User : Mapped(c, u)' /\ Leaving(c, u) => Leaving(c, u)'
  BY <1>2 DEF Leaving
<1>4. EntryPlaced(c)'
  BY DEF EntryKept, EntryPlaced, MapShrinks, SameClient
<1>5. MaxBatch = 1 => EntryLast(c)'
  <2> SUFFICES ASSUME MaxBatch = 1, NEW u \in User, Mapped(c, u)'
               PROVE  /\ pc'[c] \notin {"login", "login_insert"}
                      /\ pc'[c] \in LoginSteps => js'[c].user = u
                      /\ \A v \in User : Sent(c, "login", v)' => Leaving(c, u)'
                      /\ link'[c] = "open" /\ screen'[c] = "menu"
                           => Leaving(c, u)'
                      /\ link'[c] = "open" /\ screen'[c] = "chat"
                           => me'[c] = u \/ Leaving(c, u)'
    BY DEF EntryLast
  <2>1. /\ pc[c] \notin {"login", "login_insert"}
        /\ pc[c] \in LoginSteps => js[c].user = u
        /\ \A v \in User : Sent(c, "login", v) => Leaving(c, u)
        /\ link[c] = "open" /\ screen[c] = "menu" => Leaving(c, u)
        /\ link[c] = "open" /\ screen[c] = "chat" => me[c] = u \/ Leaving(c, u)
    BY <1>1 DEF EntryKept, EntryLast
  <2>2. QED BY <1>2, <1>3, <2>1 DEF SameClient
<1>6. SoleUse => OneEntry(c)' /\ EntryAlive(c)'
  BY <1>1 DEF EntryKept, OneEntry, EntryAlive, Alive, SameClient
<1>7. QED BY <1>4, <1>5, <1>6 DEF EntryKept, SoleUse

(* An untouched connection is such a one. *)
LEMMA Same_Kept ==
  ASSUME TypeOK, NEW d \in Conn, EntryKept(d), Same(d), MapShrinks(d)
  PROVE  EntryKept(d)'
<1>1. CASE pc'[d] # "login"
  <2>1. /\ pc'[d] \in LoginSteps => pc[d] \in LoginSteps /\ js'[d] = js[d]
        /\ pc'[d] \in CloseSteps => pc[d] \in CloseSteps
        /\ \A u : Runs(d, {"logout"}, u) => Runs(d, {"logout"}, u)'
    BY DEF Same, SameSession, SameJob, ChatSteps, LoginSteps, CloseSteps, Runs
  <2>2. pc'[d] = "login_insert" => pc[d] = "login_insert"
    BY DEF Same, SameSession, SameJob, ChatSteps
  <2>3. QED BY <1>1, <2>1, <2>2, Works_Kept DEF Same
<1>2. CASE pc'[d] = "login"
  <2>1. SameJob(d) /\ SameClient(d)
    BY <1>2 DEF Same, SameSession, ChatSteps
  <2>2. \A u \in User : Mapped(d, u)' => Mapped(d, u) BY ShrinksMapped
  <2>3. EntryPlaced(d)'
    BY <2>1 DEF EntryKept, EntryPlaced, MapShrinks, SameClient
  <2>4. MaxBatch = 1 => EntryLast(d)'
    BY <1>2, <2>1, <2>2 DEF EntryKept, EntryLast, SameJob
  <2>5. SoleUse => OneEntry(d)' /\ EntryAlive(d)'
    BY <2>1, <2>2
       DEF EntryKept, OneEntry, EntryAlive, Alive, SameClient, SameJob
  <2>6. QED BY <2>3, <2>4, <2>5 DEF EntryKept, SoleUse
<1>3. QED BY <1>1, <1>2

(* The requests are about users. *)
LEMMA SentUser ==
  ASSUME Stages, NEW c \in Conn, NEW op, NEW u, Sent(c, op, u)
  PROVE  u \in User
BY DEF Stages, Formed, WellFormed, Sent

(* The client keeps the entries of its connection right. *)
LEMMA Client_Kept ==
  ASSUME TypeOK, TypeOK', Stages, NEW c \in Conn, InOrder(c), EntryKept(c),
         ClientStep(c)
  PROVE  EntryKept(c)'
<1>1. SameJob(c) /\ userConnMap' = userConnMap BY ClientOthers
<1>2. \A u : Mapped(c, u)' = Mapped(c, u) BY <1>1 DEF Mapped
<1>3. CASE Connect(c)
  <2>1. link[c] = "new" BY <1>3 DEF Connect
  <2>2. QED BY <1>1, <2>1, None_Kept DEF EntryKept, EntryPlaced
<1>4. ASSUME at'[c] = at[c], link[c] = "open", link'[c] \in {"open", "dead"},
             \A u \in User : Sent(c, "logout", u) => Sent(c, "logout", u)',
             \A u \in User : MaxBatch = 1 /\ Mapped(c, u) =>
               /\ \A v \in User : Sent(c, "login", v)' =>
                    Sent(c, "login", v) \/ Leaving(c, u)'
               /\ link'[c] = "open" =>
                    \/ screen'[c] = screen[c] /\ me'[c] = me[c]
                    \/ screen'[c] = "wait"
                    \/ Leaving(c, u)'
      PROVE  EntryKept(c)'
  <2>1. \A u \in User : Leaving(c, u) => Leaving(c, u)'
    BY <1>1, <1>4 DEF Leaving, Runs, SameJob
  <2>2. EntryPlaced(c)' BY <1>1, <1>4 DEF EntryKept, EntryPlaced
  <2>3. MaxBatch = 1 => EntryLast(c)'
    BY <1>1, <1>2, <1>4, <2>1 DEF EntryKept, EntryLast, SameJob
  <2>4. SoleUse => OneEntry(c)' /\ EntryAlive(c)'
    BY <1>1, <1>2, <1>4
       DEF EntryKept, OneEntry, EntryAlive, Alive, SameJob
  <2>5. QED BY <2>2, <2>3, <2>4 DEF EntryKept, SoleUse
<1>5. CASE ClientGone(c)
  <2>1. /\ at'[c] = at[c] /\ link[c] = "open" /\ link'[c] = "dead"
        /\ reqs' = reqs
    BY <1>5 DEF ClientGone, TypeOK
  <2>2. \A op, u : Sent(c, op, u)' = Sent(c, op, u) BY <2>1 DEF Sent
  <2>3. QED BY <1>4, <2>1, <2>2
<1>6. ASSUME NEW op \in {"login", "logout", "oneChat", "groupChat"},
             NEW u \in Channel, NEW m \in Msg \cup {NoMsg},
             NEW pwd \in BOOLEAN, Send(c, op, u, m, pwd)
      PROVE  /\ at'[c] = at[c] /\ link[c] = "open" /\ link'[c] = "open"
             /\ \A o, v : Sent(c, o, v)' <=> Sent(c, o, v) \/ (o = op /\ v = u)
  <2>1. \A o, v : Sent(c, o, v)' <=> Sent(c, o, v) \/ (o = op /\ v = u)
    BY SMTT(20), <1>6, SendSent
  <2>2. QED BY <1>6, <2>1 DEF Send
<1>7. CASE ClientLogout(c)
  <2>1. /\ Send(c, "logout", me[c], NoMsg, FALSE) /\ screen[c] = "chat"
        /\ me[c] \in Channel
    BY <1>7, LogoutRequest
  <2>2. /\ at'[c] = at[c] /\ link[c] = "open" /\ link'[c] = "open"
        /\ \A o, v : Sent(c, o, v)' <=>
                       Sent(c, o, v) \/ (o = "logout" /\ v = me[c])
    BY <1>6, <2>1
  <2>3. ASSUME NEW u \in User, MaxBatch = 1, Mapped(c, u) PROVE Leaving(c, u)'
    BY <1>1, <2>1, <2>2, <2>3
       DEF EntryKept, EntryLast, Leaving, Runs, SameJob
  <2>4. QED BY <1>4, <2>2, <2>3
<1>8. ASSUME NEW u \in Uses[c], NEW pwd \in Passwords, ClientLogin(c, u, pwd)
      PROVE  EntryKept(c)'
  <2>1. u \in Channel /\ pwd \in BOOLEAN
    BY <1>8, ServiceAssumption DEF Channel
  <2>2. /\ Send(c, "login", u, NoMsg, pwd) /\ screen[c] = "menu"
        /\ screen'[c] = "wait"
    BY <1>8, LoginRequest
  <2>3. /\ at'[c] = at[c] /\ link[c] = "open" /\ link'[c] = "open"
        /\ \A o, v : Sent(c, o, v)' <=>
                       Sent(c, o, v) \/ (o = "login" /\ v = u)
    BY <1>6, <2>1, <2>2
  <2>4. ASSUME NEW v \in User, MaxBatch = 1, Mapped(c, v) PROVE Leaving(c, v)'
    BY <1>1, <2>2, <2>3, <2>4
       DEF EntryKept, EntryLast, Leaving, Runs, SameJob
  <2>5. QED BY <1>4, <2>2, <2>3, <2>4
<1>9. ASSUME NEW u \in User, NEW m \in Msg, ClientChat(c, u, m)
      PROVE  EntryKept(c)'
  <2>1. /\ Send(c, "oneChat", u, m, FALSE) /\ u \in Channel
        /\ screen'[c] = screen[c] /\ me'[c] = me[c]
    BY <1>9 DEF ClientChat, Channel, userVars
  <2>2. QED BY <1>4, <1>6, <2>1
<1>10. ASSUME NEW m \in Msg, ClientGroupChat(c, m)
       PROVE  EntryKept(c)'
  <2>1. /\ Send(c, "groupChat", me[c], m, FALSE) /\ me[c] \in Channel
        /\ screen'[c] = screen[c] /\ me'[c] = me[c]
    BY <1>10 DEF ClientGroupChat, TypeOK, userVars
  <2>2. QED BY <1>4, <1>6, <2>1
<1>11. QED BY <1>3, <1>5, <1>7, <1>8, <1>9, <1>10 DEF ClientStep

(* So does a request that is read: a login finds no entry. *)
LEMMA Read_Kept ==
  ASSUME TypeOK, TypeOK', Stages, NEW c \in Conn, InOrder(c), EntryKept(c),
         onMessage(c)
  PROVE  EntryKept(c)'
<1>1. /\ \A o, v : Sent(c, o, v)' => Sent(c, o, v)
      /\ Sent(c, js'[c].op, js'[c].user)
      /\ pc'[c] = js'[c].op /\ js'[c] \in Request
      /\ js'[c].op = "login" => \A v : ~Sent(c, "logout", v)
      /\ MaxBatch = 1 => \A o, v : Sent(c, o, v) =>
           Sent(c, o, v)' \/ (o = js'[c].op /\ v = js'[c].user)
  BY ReadSent DEF InOrder
<1>2. pc'[c] \in {"login", "logout", "oneChat", "groupChat"}
  BY <1>1 DEF Request
<1>3. /\ Alive(c) /\ pc[c] = "idle" /\ link'[c] = link[c] /\ at'[c] = at[c]
      /\ screen'[c] = screen[c] /\ me'[c] = me[c] /\ userConnMap' = userConnMap
  BY DEF onMessage, At, mapVars
<1>4. \A u : Mapped(c, u)' = Mapped(c, u) BY <1>3 DEF Mapped
<1>5. js'[c].user \in User BY <1>1, SentUser
<1>6. EntryPlaced(c)' BY <1>3 DEF EntryKept, EntryPlaced
<1>7. MaxBatch = 1 => EntryLast(c)'
  <2>1. \A u : ~Runs(c, {"logout"}, u) BY <1>3 DEF Runs
  <2>2. ASSUME MaxBatch = 1, NEW u, Leaving(c, u) PROVE Leaving(c, u)'
    BY <1>1, <2>1, <2>2 DEF Leaving, Runs
  <2>3. ASSUME MaxBatch = 1, NEW u \in User, Mapped(c, u)
        PROVE  pc'[c] # "login"
    <3>1. pc'[c] = "login" => Leaving(c, u)
      BY <1>1, <1>5, <2>3 DEF EntryKept, EntryLast
    <3>2. QED BY <1>1, <2>1, <3>1 DEF Leaving
  <2>4. QED
    BY <1>1, <1>2, <1>3, <1>4, <2>2, <2>3
       DEF EntryKept, EntryLast, LoginSteps
<1>8. SoleUse => OneEntry(c)' /\ EntryAlive(c)'
  BY <1>2, <1>3, <1>4 DEF EntryKept, OneEntry, EntryAlive, Alive, CloseSteps
<1>9. QED BY <1>6, <1>7, <1>8 DEF EntryKept, SoleUse

(* What login_insert does to the map. *)
LEMMA InsertMap ==
  ASSUME TypeOK, Stages, NEW c \in Conn, login_insert(c)
  PROVE  /\ at[c] \in Server /\ js[c].user \in User
         /\ \A s \in Server, u \in User :
              userConnMap'[s][u] = IF /\ s = at[c] /\ u = js[c].user
                                      /\ userConnMap[s][u] = NoConn
                                   THEN c ELSE userConnMap[s][u]
<1>1. at[c] \in Server
  BY DEF login_insert, At, Alive, Stages, Placed
<1>2. js[c].user \in User
  BY DEF login_insert, At, Stages, UserKnown, LoginSteps
<1>3. userConnMap' = [userConnMap EXCEPT ![at[c]][js[c].user] =
                        IF @ = NoConn THEN c ELSE @]
  BY DEF login_insert
<1>4. QED BY <1>1, <1>2, <1>3 DEF TypeOK

(* So does a login, which adds an entry where there was none. *)
LEMMA Login_Kept ==
  ASSUME TypeOK, TypeOK', Stages, NEW c \in Conn, InOrder(c), EntryKept(c),
         LoginStep(c)
  PROVE  EntryKept(c)'
<1> USE DEF At, Goto, envVars, userVars, mapVars, SameClient
<1>1. MaxBatch = 1 => SoleUse BY DEF SoleUse
<1>2. userConnMap' = userConnMap => MapShrinks(c) BY DEF MapShrinks
<1>3. \A u : pc[c] # "logout" => ~Runs(c, {"logout"}, u) BY DEF Runs
<1> DEFINE Shows(u) == \/ screen'[c] = "chat" /\ me'[c] = u
                      \/ screen'[c] = "wait"
<1>4. ASSUME userConnMap' = userConnMap, at' = at, link' = link, reqs' = reqs,
             pc[c] \in {"login", "login_reply"},
             pc'[c] \in {"idle", "login_insert"},
             pc[c] = "login_reply" =>
               /\ pc'[c] = "idle"
               /\ link[c] = "open" => Shows(js[c].user)
      PROVE  EntryKept(c)'
  <2>1. \A u : Mapped(c, u)' = Mapped(c, u) BY <1>4 DEF Mapped
  <2>2. EntryPlaced(c)' BY <1>4 DEF EntryKept, EntryPlaced
  <2>3. MaxBatch = 1 => EntryLast(c)'
    <3> SUFFICES ASSUME MaxBatch = 1, NEW u \in User, Mapped(c, u)
                 PROVE  /\ pc'[c] = "idle"
                        /\ \A v \in User : ~Sent(c, "login", v)'
                        /\ link'[c] = "open" => Shows(u)
      BY <2>1 DEF EntryLast, LoginSteps
    <3>1. pc[c] \notin {"login", "login_insert"}
      BY DEF EntryKept, EntryLast
    <3>2. pc[c] \in LoginSteps => js[c].user = u BY DEF EntryKept, EntryLast
    <3>3. reqs[c] = <<>> BY <1>4 DEF InOrder, NoneBehindLogin, LoginSteps
    <3>4. \A v : ~Sent(c, "login", v)' BY <1>4, <3>3 DEF Sent
    <3>5. QED BY <1>4, <3>1, <3>2, <3>4 DEF LoginSteps
  <2>4. SoleUse => OneEntry(c)' /\ EntryAlive(c)'
    BY <1>4, <2>1 DEF EntryKept, OneEntry, EntryAlive, Alive, CloseSteps
  <2>5. QED BY <2>2, <2>3, <2>4 DEF EntryKept, SoleUse
<1>5. CASE login(c)
  <2>1. /\ userConnMap' = userConnMap /\ at' = at /\ link' = link
        /\ reqs' = reqs /\ pc[c] = "login"
        /\ pc'[c] \in {"idle", "login_insert"}
    BY <1>5 DEF login, TypeOK, Reply, Done
  <2>2. QED BY <1>4, <2>1
<1>6. CASE login_reply(c)
  <2>1. /\ userConnMap' = userConnMap /\ at' = at /\ link' = link
        /\ reqs' = reqs /\ pc[c] = "login_reply" /\ pc'[c] = "idle"
    BY <1>6 DEF login_reply, TypeOK, Reply, Done
  <2>2. js[c].user \in User
    BY <2>1 DEF Stages, UserKnown, LoginSteps
  <2>3. link[c] = "open" => screen[c] = "wait"
    BY <2>1, <2>2 DEF InOrder, LoginAwaited, LogsIn, Runs, LoginSteps
  <2>4. link[c] = "open" => Shows(js[c].user)
    BY <1>6, <2>3 DEF login_reply, TypeOK, Reply
  <2>5. QED BY <1>4, <2>1, <2>4
<1>7. CASE login_insert(c)
  <2> DEFINE u == js[c].user
  <2>1. /\ SameClient(c) /\ js' = js /\ pc[c] = "login_insert" /\ Alive(c)
        /\ pc'[c] = "login_subscribe"
    BY <1>7 DEF login_insert, TypeOK
  <2>2. /\ at[c] \in Server /\ u \in User
        /\ \A s \in Server, v \in User :
             userConnMap'[s][v] = c =>
               userConnMap[s][v] = c \/ (s = at[c] /\ v = u)
    BY <1>7, InsertMap
  <2>3. \A v \in User : Mapped(c, v)' => Mapped(c, v) \/ v = u
    BY <2>2 DEF Mapped
  <2>4. u \in Uses[c]
    BY <2>1, <2>2 DEF InOrder, OwnUser, LogsIn, Runs, LoginSteps
  <2>5. EntryPlaced(c)'
    BY <2>1, <2>2, <2>4 DEF EntryKept, EntryPlaced, Alive
  <2>6. MaxBatch = 1 => \A v \in User : ~Mapped(c, v)
    BY <2>1 DEF EntryKept, EntryLast
  <2>7. MaxBatch = 1 => EntryLast(c)'
    <3>1. reqs'[c] = <<>>
      BY <2>1 DEF InOrder, NoneBehindLogin, LoginSteps
    <3>2. \A v : ~Sent(c, "login", v)' BY <3>1 DEF Sent
    <3>3. link'[c] = "open" => screen'[c] = "wait"
      BY <2>1, <2>2 DEF InOrder, LoginAwaited, LogsIn, Runs, LoginSteps
    <3>4. QED BY <2>1, <2>3, <2>6, <3>2, <3>3 DEF EntryLast
  <2>8. SoleUse => OneEntry(c)'
    <3>1. CASE MaxBatch = 1 BY <2>3, <2>6, <3>1 DEF OneEntry
    <3>2. CASE \A v, w \in Uses[c] : v = w
      BY <2>5, <3>2 DEF EntryPlaced, OneEntry, Mapped
    <3>3. QED BY <3>1, <3>2 DEF SoleUse
  <2>9. EntryAlive(c)' BY <2>1 DEF EntryAlive, Alive, CloseSteps
  <2>10. QED BY <2>5, <2>7, <2>8, <2>9 DEF EntryKept
<1>8. CASE login_subscribe(c)
  <2>1. /\ SameClient(c) /\ js' = js /\ pc[c] = "login_subscribe"
        /\ pc'[c] = "login_inline" /\ MapShrinks(c)
    BY <1>2, <1>8 DEF login_subscribe, TypeOK
  <2>2. QED BY <1>3, <2>1, Works_Kept DEF LoginSteps, CloseSteps
<1>9. CASE login_inline(c)
  <2>1. /\ SameClient(c) /\ js' = js /\ pc[c] = "login_inline"
        /\ pc'[c] = "login_query" /\ MapShrinks(c)
    BY <1>2, <1>9 DEF login_inline, TypeOK
  <2>2. QED BY <1>3, <2>1, Works_Kept DEF LoginSteps, CloseSteps
<1>10. CASE login_query(c)
  <2>1. /\ SameClient(c) /\ js' = js /\ pc[c] = "login_query"
        /\ pc'[c] \in {"login_remove", "login_reply"} /\ MapShrinks(c)
    BY <1>2, <1>10 DEF login_query, TypeOK
  <2>2. QED BY <1>3, <2>1, Works_Kept DEF LoginSteps, CloseSteps
<1>11. CASE login_remove(c)
  <2>1. /\ SameClient(c) /\ js' = js /\ pc[c] = "login_remove"
        /\ pc'[c] = "login_reply" /\ MapShrinks(c)
    BY <1>2, <1>11 DEF login_remove, TypeOK
  <2>2. QED BY <1>3, <2>1, Works_Kept DEF LoginSteps, CloseSteps
<1>12. QED BY <1>5, <1>6, <1>7, <1>8, <1>9, <1>10, <1>11 DEF LoginStep

(* What an erasure does to the map. *)
LEMMA EraseMap ==
  ASSUME TypeOK, NEW s \in Server, NEW U, Erase(s, U)
  PROVE  /\ \A r \in Server, u \in User :
              userConnMap'[r][u] = IF r = s /\ u \in U THEN NoConn
                                   ELSE userConnMap[r][u]
         /\ \A d \in Conn : MapShrinks(d)
<1>1. \A r \in Server, u \in User :
        userConnMap'[r][u] = IF r = s /\ u \in U THEN NoConn
                             ELSE userConnMap[r][u]
  BY DEF Erase, TypeOK
<1>2. QED BY <1>1, ServiceAssumption DEF MapShrinks

(* What the handlers that end a session do to the map. *)
LEMMA LogoutMap ==
  ASSUME TypeOK, Stages, NEW c \in Conn, logout(c)
  PROVE  /\ at[c] \in Server /\ js[c].user \in User
         /\ \A s \in Server, u \in User :
              userConnMap'[s][u] = IF s = at[c] /\ u = js[c].user THEN NoConn
                                   ELSE userConnMap[s][u]
         /\ \A d \in Conn : MapShrinks(d)
<1>1. at[c] \in Server BY DEF logout, At, Alive, Stages, Placed
<1>2. js[c].user \in User BY DEF logout, At, Stages, UserKnown, LogoutSteps
<1>3. QED BY <1>1, <1>2, EraseMap DEF logout

(* Of a close: it erases entries of its connection, if it has any. *)
LEMMA CloseMap ==
  ASSUME TypeOK, Stages, NEW c \in Conn, ClientCloseException(c)
  PROVE  /\ at[c] \in Server
         /\ \E E \in SUBSET {u \in User : userConnMap[at[c]][u] = c} :
              /\ E = {} => js'[c].user = NoUser
                           /\ \A u \in User : userConnMap[at[c]][u] # c
              /\ E # {} => js'[c].user \in E
              /\ \A s \in Server, u \in User :
                   userConnMap'[s][u] = IF s = at[c] /\ u \in E THEN NoConn
                                        ELSE userConnMap[s][u]
         /\ \A d \in Conn : MapShrinks(d)
<1>1. at[c] \in Server BY DEF ClientCloseException, Stages, Placed
<1>2. PICK E \in SUBSET {u \in User : userConnMap[at[c]][u] = c},
           last \in Channel :
        /\ (E = {}) = (\A u \in User : userConnMap[at[c]][u] # c)
        /\ IF E = {} THEN last = NoUser ELSE last \in E
        /\ Erase(at[c], E)
        /\ js' = [js EXCEPT ![c] = [NoRequest EXCEPT !.user = last]]
  BY DEF ClientCloseException, Here
<1>3. js'[c].user = last BY <1>2 DEF TypeOK, NoRequest
<1>4. /\ \A s \in Server, u \in User :
           userConnMap'[s][u] = IF s = at[c] /\ u \in E THEN NoConn
                                ELSE userConnMap[s][u]
      /\ \A d \in Conn : MapShrinks(d)
  BY <1>1, <1>2, EraseMap
<1>5. /\ E = {} => js'[c].user = NoUser
                   /\ \A u \in User : userConnMap[at[c]][u] # c
      /\ E # {} => js'[c].user \in E
  BY <1>2, <1>3
<1>6. QED BY <1>1, <1>4, <1>5

(* So do a logout, which erases the entry, and the end of a connection. *)
LEMMA Leave_Kept ==
  ASSUME TypeOK, TypeOK', Stages, NEW c \in Conn, InOrder(c), EntryKept(c),
         LeaveStep(c)
  PROVE  EntryKept(c)'
<1> USE DEF At, Goto, envVars, userVars, mapVars, SameClient
<1>1. MaxBatch = 1 => SoleUse BY DEF SoleUse
<1>2. userConnMap' = userConnMap => MapShrinks(c) BY DEF MapShrinks
<1>3. \A u : pc[c] # "logout" => ~Runs(c, {"logout"}, u) BY DEF Runs
<1>4. CASE logout(c)
  <2>1. /\ SameClient(c) /\ pc[c] = "logout" /\ pc'[c] = "logout_unsubscribe"
    BY <1>4 DEF logout, TypeOK
  <2>2. /\ \A s \in Server, u \in User :
             userConnMap'[s][u] = IF s = at[c] /\ u = js[c].user THEN NoConn
                                  ELSE userConnMap[s][u]
        /\ MapShrinks(c) /\ js[c].user \in User
    BY <1>4, LogoutMap
  <2>3. \A s \in Server : userConnMap[s][js[c].user] = c => s = at[c]
    BY <2>2 DEF EntryKept, EntryPlaced
  <2>4. \A s \in Server : userConnMap'[s][js[c].user] # c
    BY <2>2, <2>3, ServiceAssumption
  <2>5. \A u \in User :
          Mapped(c, u)' /\ Runs(c, {"logout"}, u) => Runs(c, {"logout"}, u)'
    BY <2>4 DEF Runs, Mapped
  <2>6. /\ pc'[c] \notin LoginSteps \cup CloseSteps
        /\ pc'[c] \notin {"login", "login_insert"}
    BY <2>1 DEF LoginSteps, CloseSteps
  <2>7. QED BY <2>1, <2>2, <2>5, <2>6, Works_Kept
<1>5. CASE logout_unsubscribe(c)
  <2>1. /\ SameClient(c) /\ pc[c] = "logout_unsubscribe"
        /\ pc'[c] = "logout_offline" /\ MapShrinks(c)
    BY <1>2, <1>5 DEF logout_unsubscribe, TypeOK
  <2>2. QED BY <1>3, <2>1, Works_Kept DEF LoginSteps, CloseSteps
<1>6. CASE logout_offline(c)
  <2>1. /\ SameClient(c) /\ pc[c] = "logout_offline"
        /\ pc'[c] = "idle" /\ MapShrinks(c)
    BY <1>2, <1>6 DEF logout_offline, Done, TypeOK
  <2>2. QED BY <1>3, <2>1, Works_Kept DEF LoginSteps, CloseSteps
<1>7. ASSUME MapShrinks(c), at' = at, link'[c] # "new",
             SoleUse => \A u \in User : ~Mapped(c, u)'
      PROVE  EntryKept(c)'
  <2>1. EntryPlaced(c)' BY <1>7 DEF EntryKept, EntryPlaced, MapShrinks
  <2>2. SoleUse => EntryLast(c)' /\ OneEntry(c)' /\ EntryAlive(c)'
    BY <1>7 DEF EntryLast, OneEntry, EntryAlive
  <2>3. QED BY <1>1, <2>1, <2>2 DEF EntryKept, SoleUse
<1>8. CASE ClientCloseException(c)
  <2>1. at' = at /\ link'[c] = "dead" BY <1>8 DEF ClientCloseException
  <2>2. /\ at[c] \in Server /\ MapShrinks(c)
        /\ \E E \in SUBSET {u \in User : userConnMap[at[c]][u] = c} :
             /\ E = {} => \A u \in User : userConnMap[at[c]][u] # c
             /\ \A s \in Server, u \in User :
                  userConnMap'[s][u] = IF s = at[c] /\ u \in E THEN NoConn
                                       ELSE userConnMap[s][u]
    BY <1>8, CloseMap
  <2>3. ASSUME SoleUse, NEW u \in User, Mapped(c, u)' PROVE FALSE
    <3>1. userConnMap'[at[c]][u] = c /\ userConnMap[at[c]][u] = c
      BY <2>2, <2>3 DEF Mapped, EntryKept, EntryPlaced, MapShrinks
    <3>2. PICK v \in User : userConnMap[at[c]][v] = c
                              /\ userConnMap'[at[c]][v] = NoConn
      BY <2>2, <3>1
    <3>3. u = v BY <2>2, <2>3, <3>1, <3>2 DEF EntryKept, OneEntry, Mapped
    <3>4. QED BY <3>1, <3>2, <3>3, ServiceAssumption
  <2>4. QED BY <1>7, <2>1, <2>2, <2>3
<1>9. CASE close_unsubscribe(c) \/ close_offline(c)
  <2>1. /\ at' = at /\ MapShrinks(c) /\ Alive(c) /\ userConnMap' = userConnMap
        /\ link'[c] = link[c] \/ link'[c] = "closed"
        /\ pc[c] \in CloseSteps
    BY <1>2, <1>9
       DEF close_unsubscribe, close_offline, Closed, TypeOK, CloseSteps
  <2>2. SoleUse => \A u \in User : ~Mapped(c, u)'
    BY <2>1 DEF EntryKept, EntryAlive, Mapped
  <2>3. QED BY <1>7, <2>1, <2>2 DEF Alive
<1>10. QED BY <1>4, <1>5, <1>6, <1>8, <1>9 DEF LeaveStep

(* So does the end of a server, which loses its map. *)
LEMMA Stop_Kept ==
  ASSUME TypeOK, NEW s \in Server, exit(s) \/ crash(s),
         NEW d \in Conn, EntryKept(d)
  PROVE  EntryKept(d)'
<1>1. /\ \/ SameClient(d) /\ SameJob(d)
         \/ at[d] = s
      /\ MapShrinks(d) /\ \A u \in User : userConnMap'[s][u] # d
  BY StopSame
<1>2. CASE SameClient(d) /\ SameJob(d)
  BY <1>1, <1>2, Same_Kept DEF Same, SameSession
<1>3. CASE at[d] = s
  <2>1. \A r \in Server, u \in User : userConnMap'[r][u] # d
    BY <1>1, <1>3 DEF EntryKept, EntryPlaced, MapShrinks
  <2>2. QED BY <2>1, None_Kept
<1>4. QED BY <1>1, <1>2, <1>3

(* A step of one connection adds no entry for another. *)
LEMMA OthersShrink ==
  ASSUME TypeOK, Stages, NEW c \in Conn, LoginStep(c) \/ LeaveStep(c),
         NEW d \in Conn \ {c}
  PROVE  MapShrinks(d)
<1>1. CASE login_insert(c) BY <1>1, InsertMap DEF MapShrinks
<1>2. CASE logout(c) BY <1>2, LogoutMap
<1>3. CASE ClientCloseException(c) BY <1>3, CloseMap
<1>4. CASE UNCHANGED userConnMap BY <1>4 DEF MapShrinks
<1>5. QED
  BY <1>1, <1>2, <1>3, <1>4
     DEF LoginStep, login, login_subscribe, login_inline, login_query,
         login_remove, login_reply, LeaveStep, logout_unsubscribe,
         logout_offline, close_unsubscribe, close_offline, mapVars

(* Every step keeps the entries right. *)
LEMMA MapKeptStep ==
  ASSUME TypeOK, TypeOK', Stages, Ordered, MapKept, [Next]_vars
  PROVE  MapKept'
<1>1. userConnMap' = userConnMap => \A d \in Conn : MapShrinks(d)
  BY DEF MapShrinks
<1>2. ASSUME \A d \in Conn : Same(d), userConnMap' = userConnMap
      PROVE  MapKept'
  BY <1>1, <1>2, Same_Kept DEF MapKept
<1>3. ASSUME NEW c \in Conn, ClientStep(c) \/ WorkerStep(c)
      PROVE  MapKept'
  <2>1. InOrder(c) /\ EntryKept(c) BY DEF Ordered, MapKept
  <2>2. CASE ClientStep(c)
    <3>1. EntryKept(c)' BY <2>1, <2>2, Client_Kept
    <3>2. \A d \in Conn \ {c} : Same(d) /\ MapShrinks(d)
      BY <1>1, <2>2, ClientOthers
    <3>3. QED BY <3>1, <3>2, Same_Kept DEF MapKept
  <2>3. CASE onMessage(c)
    <3>1. EntryKept(c)' BY <2>1, <2>3, Read_Kept
    <3>2. \A d \in Conn \ {c} : Same(d) /\ MapShrinks(d)
      BY <1>1, <2>3, ReadOthers DEF onMessage, mapVars
    <3>3. QED BY <3>1, <3>2, Same_Kept DEF MapKept
  <2>4. CASE LoginStep(c) \/ LeaveStep(c)
    <3>1. EntryKept(c)' BY <2>1, <2>4, Login_Kept, Leave_Kept
    <3>2. \A d \in Conn \ {c} : Same(d) /\ MapShrinks(d)
      BY <2>4, OthersShrink, LoginOthers, LeaveOthers
    <3>3. QED BY <3>1, <3>2, Same_Kept DEF MapKept
  <2>5. CASE ChatStep(c) BY <1>2, <2>5, ChatSame
  <2>6. QED BY <1>3, <2>2, <2>3, <2>4, <2>5 DEF WorkerStep
<1>4. ASSUME NEW s \in Server, ServerStep(s)
      PROVE  MapKept'
  <2>1. CASE exit(s) \/ crash(s) BY <2>1, Stop_Kept DEF MapKept
  <2>2. CASE ~(exit(s) \/ crash(s))
    BY <1>2, <1>4, <2>2, ServerSame DEF ServerStep
  <2>3. QED BY <2>1, <2>2
<1>5. CASE UNCHANGED vars
  <2>1. (\A d \in Conn : Same(d)) /\ userConnMap' = userConnMap
    BY <1>5 DEF vars, envVars, userVars, jobVars, mapVars, Same, SameClient,
                SameSession, SameJob
  <2>2. QED BY <1>2, <2>1
<1>6. QED BY <1>3, <1>4, <1>5 DEF Next

(* What MapKept and DeliveryCorrect's invariant say together. *)
LEMMA KeptSound ==
  ASSUME SoleUse, MapKept, Entered PROVE MapSound
<1> SUFFICES ASSUME NEW s \in Server, NEW u \in User, NEW v \in User,
                    NEW c \in Conn, userConnMap[s][u] = c
             PROVE  /\ at[c] = s /\ Alive(c) /\ u \in logins[c]
                    /\ userConnMap[s][v] = c => u = v
  BY DEF MapSound
<1>1. EntryKept(c) BY DEF MapKept
<1>2. Mapped(c, u) /\ (userConnMap[s][v] = c => Mapped(c, v)) BY DEF Mapped
<1>3. at[c] = s BY <1>1 DEF EntryKept, EntryPlaced
<1>4. Alive(c) BY <1>1, <1>2 DEF EntryKept, EntryAlive
<1>5. userConnMap[s][v] = c => u = v BY <1>1, <1>2 DEF EntryKept, OneEntry
<1>6. u \in logins[c] BY ServiceAssumption DEF Entered
<1>7. QED BY <1>3, <1>4, <1>5, <1>6

(***************************************************************************)
(* Whatever the servers, users, clients and faults, and unless a logout is *)
(* lost in a batch and another user logs in on the connection it was sent  *)
(* on: an entry of _userConnMap points to a connection of that server that *)
(* is not closed, for the one user who logged in on it.                    *)
(***************************************************************************)
THEOREM MapSoundHolds == ASSUME SoleUse PROVE Spec => []MapSound
<1>1. Init => Ordered /\ MapKept /\ Addressed
  BY InitOrdered, InitMapKept, InitAddressed
<1>2. /\ TypeOK /\ TypeOK' /\ Stages /\ Ordered /\ MapKept /\ Addressed
      /\ [Next]_vars
      => Ordered' /\ MapKept' /\ Addressed'
  BY OrderedStep, MapKeptStep, AddressedStep
<1>3. Ordered /\ MapKept /\ Addressed => MapSound
  BY KeptSound DEF Addressed
<1>4. QED BY <1>1, <1>2, <1>3, TypesHold, PTL DEF Spec

-----------------------------------------------------------------------------
(* SessionsKept holds.                                                     *)

(* Nobody is held at the start. *)
LEMMA InitSessionsKept == Init => SessionsKept
BY ServiceAssumption
   DEF Init, SessionsKept, HoldOnce, SessionKept, OfflineHeld, BeforeOffline,
       HeldMapped, UnmappedNone, Holds, Sent, Runs, Mapped, SessionSteps,
       BeforeInline, Unmapped, CloseSteps

SameMapped(d) == \A u \in User : Mapped(d, u)' = Mapped(d, u)

(* An untouched connection holds and has the users it had. *)
LEMMA Same_Views ==
  ASSUME NEW d \in Conn, Same(d), SameMapped(d), NEW u \in User
  PROVE  /\ Holds(d, u)' = Holds(d, u)
         /\ Runs(d, BeforeInline, u)' = Runs(d, BeforeInline, u)
         /\ Runs(d, Unmapped, u)' = Runs(d, Unmapped, u)
<1> DEFINE InHandlers == SessionSteps \cup {"logout"}
           Kinds == {InHandlers, BeforeInline, Unmapped}
<1>1. \A S \in Kinds : S \in SUBSET (Step \ (ChatSteps \cup {"idle"}))
  BY DEF BeforeInline, Unmapped, CloseSteps, Step, SessionSteps, ChatSteps
<1>2. /\ \A op : Sent(d, op, u)' = Sent(d, op, u)
      /\ \A S \in Kinds : Runs(d, S, u)' = Runs(d, S, u)
  BY <1>1, SameViews
<1>3. Holds(d, u)' = Holds(d, u)
  BY <1>2 DEF Holds, SameMapped, Same, SameClient
<1>4. QED BY <1>2, <1>3

(* A connection that nobody holds keeps that. *)
LEMMA None_Session ==
  ASSUME NEW c \in Conn, pc'[c] \notin BeforeInline \cup Unmapped,
         \A u \in User : ~Holds(c, u)'
  PROVE  SessionKept(c)'
BY DEF SessionKept, OfflineHeld, BeforeOffline, HeldMapped, UnmappedNone, Runs

(* One whose holders, entries and states are left alone keeps them, if no *)
(* handler of it comes to a step of interest.                             *)
LEMMA Works_Session ==
  ASSUME NEW c \in Conn, SessionKept(c), SameMapped(c), state' = state,
         \A u \in User :
           /\ Holds(c, u)' => Holds(c, u)
           /\ Runs(c, BeforeInline, u)' <=> Runs(c, BeforeInline, u)
           /\ Runs(c, Unmapped, u)' <=> Runs(c, Unmapped, u)
  PROVE  SessionKept(c)'
BY DEF SessionKept, OfflineHeld, BeforeOffline, HeldMapped, UnmappedNone,
       SameMapped

(***************************************************************************)
(* A step of c keeps the sessions if it keeps those of c, takes no user    *)
(* that another connection holds, and changes the state only of a user c   *)
(* holds.                                                                  *)
(***************************************************************************)
LEMMA Own_Session ==
  ASSUME SessionsKept, NEW c \in Conn, SessionKept(c)',
         \A d \in Conn \ {c} : Same(d) /\ SameMapped(d),
         \A u \in User : state'[u] = state[u] \/ Holds(c, u),
         \A u \in User : Holds(c, u)' =>
           Holds(c, u) \/ \A d \in Conn \ {c} : ~Holds(d, u)
  PROVE  SessionsKept'
<1>1. \A d \in Conn \ {c}, u \in User :
        /\ Holds(d, u)' = Holds(d, u)
        /\ Runs(d, BeforeInline, u)' = Runs(d, BeforeInline, u)
        /\ Runs(d, Unmapped, u)' = Runs(d, Unmapped, u)
  BY Same_Views
<1>2. HoldOnce' BY <1>1 DEF SessionsKept, HoldOnce
<1>3. ASSUME NEW d \in Conn \ {c} PROVE SessionKept(d)'
  <2>1. \A u \in User : Holds(d, u) => state'[u] = state[u]
    BY DEF SessionsKept, HoldOnce
  <2>2. \A u \in User : Runs(d, BeforeInline, u) => Holds(d, u)
    BY DEF Holds, Runs, BeforeInline, SessionSteps
  <2>3. SessionKept(d) BY DEF SessionsKept
  <2>4. OfflineHeld(d)' BY <1>1, <2>1, <2>3 DEF SessionKept, OfflineHeld
  <2>5. BeforeOffline(d)'
    BY <1>1, <2>1, <2>2, <2>3 DEF SessionKept, BeforeOffline
  <2>6. HeldMapped(d)' /\ UnmappedNone(d)'
    BY <1>1, <2>3 DEF SessionKept, HeldMapped, UnmappedNone, SameMapped
  <2>7. QED BY <2>4, <2>5, <2>6 DEF SessionKept
<1>4. QED BY <1>2, <1>3 DEF SessionsKept

(* The client keeps the sessions. *)
LEMMA Client_Session ==
  ASSUME TypeOK, TypeOK', Stages, Ordered, MapKept, SessionsKept,
         NEW c \in Conn, ClientStep(c)
  PROVE  SessionsKept'
<1>1. /\ SameJob(c) /\ userConnMap' = userConnMap /\ state' = state
      /\ \A d \in Conn \ {c} : Same(d)
  BY ClientOthers
<1>2. \A d \in Conn : SameMapped(d) BY <1>1 DEF SameMapped, Mapped
<1>3. \A S, u : Runs(c, S, u)' = Runs(c, S, u) BY <1>1 DEF Runs, SameJob
<1>4. InOrder(c) /\ SessionKept(c) BY DEF Ordered, SessionsKept
<1>5. ASSUME \A u \in User : Holds(c, u)' => Holds(c, u)
      PROVE  SessionsKept'
  <2>1. SessionKept(c)' BY <1>1, <1>2, <1>3, <1>4, <1>5, Works_Session
  <2>2. QED BY <1>1, <1>2, <1>5, <2>1, Own_Session
<1>6. CASE Connect(c)
  <2>1. /\ link[c] = "new" /\ reqs' = reqs /\ screen' = screen /\ me' = me
    BY <1>6 DEF Connect
  <2>2. screen[c] = "menu" BY <1>4, <2>1 DEF InOrder, GoneMenu
  <2>3. \A op, u : Sent(c, op, u)' = Sent(c, op, u) BY <2>1 DEF Sent
  <2>4. \A u \in User : Holds(c, u)' => Holds(c, u)
    BY <1>2, <1>3, <2>1, <2>2, <2>3 DEF Holds, SameMapped
  <2>5. QED BY <1>5, <2>4
<1>7. CASE ClientGone(c)
  <2>1. link'[c] = "dead" /\ reqs' = reqs BY <1>7 DEF ClientGone, TypeOK
  <2>2. \A op, u : Sent(c, op, u)' = Sent(c, op, u) BY <2>1 DEF Sent
  <2>3. \A u \in User : Holds(c, u)' => Holds(c, u)
    BY <1>2, <1>3, <2>1, <2>2 DEF Holds, SameMapped
  <2>4. QED BY <1>5, <2>3
<1>8. ASSUME NEW op \in {"login", "logout", "oneChat", "groupChat"},
             NEW u \in Channel, NEW m \in Msg \cup {NoMsg},
             NEW pwd \in BOOLEAN, Send(c, op, u, m, pwd)
      PROVE  /\ link[c] = "open" /\ link'[c] = "open"
             /\ \A o, v : Sent(c, o, v)' <=> Sent(c, o, v) \/ (o = op /\ v = u)
  <2>1. \A o, v : Sent(c, o, v)' <=> Sent(c, o, v) \/ (o = op /\ v = u)
    BY SMTT(20), <1>8, SendSent
  <2>2. QED BY <1>8, <2>1 DEF Send
<1>9. CASE ClientLogout(c)
  <2>1. /\ Send(c, "logout", me[c], NoMsg, FALSE) /\ screen[c] = "chat"
        /\ me[c] \in Channel /\ screen'[c] = "menu"
    BY <1>9, LogoutRequest
  <2>2. /\ link[c] = "open"
        /\ \A o, v : Sent(c, o, v)' <=>
                       Sent(c, o, v) \/ (o = "logout" /\ v = me[c])
    BY <1>8, <2>1
  <2>3. \A u \in User : Holds(c, u)' => Holds(c, u)
    BY <1>2, <1>3, <2>1, <2>2 DEF Holds, SameMapped
  <2>4. QED BY <1>5, <2>3
<1>10. ASSUME NEW u \in Uses[c], NEW pwd \in Passwords, ClientLogin(c, u, pwd)
       PROVE  SessionsKept'
  <2>1. u \in User /\ u \in Channel /\ pwd \in BOOLEAN
    BY <1>10, ServiceAssumption DEF Channel
  <2>2. /\ Send(c, "login", u, NoMsg, pwd) /\ screen'[c] = "wait"
    BY <1>10, LoginRequest
  <2>3. \A o, v : Sent(c, o, v)' <=> Sent(c, o, v) \/ (o = "login" /\ v = u)
    BY <1>8, <2>1, <2>2
  <2>4. \A v \in User : Holds(c, v)' => Holds(c, v)
    BY <1>2, <1>3, <2>2, <2>3 DEF Holds, SameMapped
  <2>5. QED BY <1>5, <2>4
<1>11. ASSUME NEW op \in {"oneChat", "groupChat"}, NEW u \in Channel,
              NEW m \in Msg, Send(c, op, u, m, FALSE),
              UNCHANGED <<screen, me>>
       PROVE  SessionsKept'
  <2>1. /\ op \in {"login", "logout", "oneChat", "groupChat"}
        /\ m \in Msg \cup {NoMsg} /\ FALSE \in BOOLEAN
    OBVIOUS
  <2>2. \A o, v : Sent(c, o, v)' <=> Sent(c, o, v) \/ (o = op /\ v = u)
    BY <1>8, <1>11, <2>1
  <2>3. link[c] = "open" BY <1>11 DEF Send
  <2>4. \A v \in User : Holds(c, v)' => Holds(c, v)
    BY <1>2, <1>3, <1>11, <2>2, <2>3 DEF Holds, SameMapped
  <2>5. QED BY <1>5, <2>4
<1>12. ASSUME NEW u \in User, NEW m \in Msg, ClientChat(c, u, m)
       PROVE  SessionsKept'
  BY <1>11, <1>12 DEF ClientChat, Channel, userVars
<1>13. ASSUME NEW m \in Msg, ClientGroupChat(c, m) PROVE SessionsKept'
  BY <1>11, <1>13 DEF ClientGroupChat, TypeOK, userVars
<1>14. QED BY <1>6, <1>7, <1>9, <1>10, <1>12, <1>13 DEF ClientStep

(* So does a request that is read. *)
LEMMA Read_Session ==
  ASSUME TypeOK, TypeOK', Stages, Ordered, SessionsKept, NEW c \in Conn,
         onMessage(c)
  PROVE  SessionsKept'
<1>1. /\ \A o, v : Sent(c, o, v)' => Sent(c, o, v)
      /\ Sent(c, js'[c].op, js'[c].user)
      /\ pc'[c] = js'[c].op /\ js'[c] \in Request
  BY ReadSent DEF Ordered, InOrder
<1>2. /\ pc[c] = "idle" /\ link' = link /\ screen' = screen /\ me' = me
      /\ userConnMap' = userConnMap /\ state' = state
      /\ pc'[c] \in {"login", "logout", "oneChat", "groupChat"}
  BY <1>1 DEF onMessage, At, mapVars, dbVars, Request
<1>3. \A d \in Conn : SameMapped(d) BY <1>2 DEF SameMapped, Mapped
<1>4. \A u \in User : Holds(c, u)' => Holds(c, u)
  <2>1. \A u : Runs(c, SessionSteps \cup {"logout"}, u)' => Sent(c, "logout", u)
    BY <1>1, <1>2 DEF Runs, SessionSteps
  <2>2. QED BY <1>1, <1>2, <1>3, <2>1 DEF Holds, SameMapped
<1>5. \A u : /\ ~Runs(c, BeforeInline, u) /\ ~Runs(c, BeforeInline, u)'
             /\ ~Runs(c, Unmapped, u) /\ ~Runs(c, Unmapped, u)'
  BY <1>2 DEF Runs, BeforeInline, Unmapped, CloseSteps
<1>6. SessionKept(c)' BY <1>2, <1>3, <1>4, <1>5, Works_Session DEF SessionsKept
<1>7. QED BY <1>2, <1>3, <1>4, <1>6, ReadOthers, Own_Session

(* Whoever has passed login's check is held by his connection. *)
LEMMA RunsHolds ==
  ASSUME NEW c \in Conn, NEW u, Runs(c, SessionSteps \cup {"logout"}, u)
  PROVE  Holds(c, u)
BY DEF Holds

(* The check that a user is offline finds him held by nobody: whoever     *)
(* holds an offline user has passed the check and not yet made the update. *)
LEMMA OfflineFree ==
  ASSUME LoginsApart', SessionsKept, NEW c \in Conn, NEW u \in User,
         pc[c] = "login", Runs(c, BeforeInline, u)', state[u] = "offline",
         \A d \in Conn \ {c} : Same(d)
  PROVE  \A d \in Conn : ~Holds(d, u)
<1> SUFFICES ASSUME NEW d \in Conn, Holds(d, u) PROVE FALSE
  OBVIOUS
<1>1. Runs(d, BeforeInline, u) BY DEF SessionsKept, SessionKept, OfflineHeld
<1>2. d # c BY <1>1 DEF Runs, BeforeInline
<1>3. BeforeInline \in SUBSET (Step \ (ChatSteps \cup {"idle"}))
  BY DEF BeforeInline, Step, SessionSteps, ChatSteps
<1>4. Runs(d, BeforeInline, u)' BY <1>1, <1>2, <1>3, SameViews
<1>5. QED BY <1>2, <1>4 DEF LoginsApart

(* A handler changes no entry of another connection. *)
LEMMA OthersMapped ==
  ASSUME TypeOK, Stages, SessionsKept, NEW c \in Conn,
         LoginStep(c) \/ LeaveStep(c), NEW d \in Conn \ {c}
  PROVE  SameMapped(d)
<1>1. ASSUME \A s \in Server, u \in User :
               userConnMap'[s][u] = d <=> userConnMap[s][u] = d
      PROVE  SameMapped(d)
  BY <1>1 DEF SameMapped, Mapped
<1>2. CASE login_insert(c) BY <1>1, <1>2, InsertMap, ServiceAssumption
<1>3. CASE logout(c)
  <2>1. PICK u0 : u0 = js[c].user OBVIOUS
  <2>2. Holds(c, u0)
    BY <1>3, <2>1, RunsHolds DEF logout, At, Runs
  <2>3. u0 \in User BY <1>3, <2>1, LogoutMap
  <2>4. \A s \in Server : userConnMap[s][u0] # d
    BY <2>2, <2>3 DEF SessionsKept, HoldOnce, Holds, Mapped
  <2>5. \A s \in Server, u \in User :
          userConnMap'[s][u] = IF s = at[c] /\ u = u0 THEN NoConn
                               ELSE userConnMap[s][u]
    BY <1>3, <2>1, LogoutMap
  <2>6. QED BY <1>1, <2>4, <2>5, ServiceAssumption
<1>4. CASE ClientCloseException(c)
  BY <1>1, <1>4, CloseMap, ServiceAssumption
<1>5. CASE UNCHANGED userConnMap BY <1>1, <1>5
<1>6. QED
  BY <1>2, <1>3, <1>4, <1>5
     DEF LoginStep, login, login_subscribe, login_inline, login_query,
         login_remove, login_reply, LeaveStep, logout_unsubscribe,
         logout_offline, close_unsubscribe, close_offline, mapVars

(* login keeps the sessions. *)
LEMMA Check_Session ==
  ASSUME LoginsApart', TypeOK, TypeOK', Stages, Ordered, SessionsKept,
         NEW c \in Conn, login(c)
  PROVE  SessionsKept'
<1> DEFINE u0 == js[c].user
<1>1. /\ pc[c] = "login" /\ link' = link /\ reqs' = reqs
      /\ userConnMap' = userConnMap /\ state' = state
      /\ \A d \in Conn \ {c} : Same(d)
  BY LoginOthers DEF login, At, envVars, mapVars, dbVars, LoginStep
<1>2. \A d \in Conn : SameMapped(d) BY <1>1 DEF SameMapped, Mapped
<1>3. \A op, u : Sent(c, op, u)' = Sent(c, op, u) BY <1>1 DEF Sent
<1>4. u0 \in User BY <1>1 DEF Stages, UserKnown, LoginSteps
<1>5. \A u : ~Runs(c, BeforeInline, u) /\ ~Runs(c, Unmapped, u)
  BY <1>1 DEF Runs, BeforeInline, Unmapped, CloseSteps
<1>6. SessionKept(c) BY DEF SessionsKept
<1>7. CASE Reply(c, "menu", NoUser)
  <2>1. /\ pc'[c] = "idle"
        /\ link[c] = "open" =>
             screen'[c] = "menu" \/ UNCHANGED <<screen, me>>
    BY <1>7 DEF Reply, Done, Goto, TypeOK, userVars
  <2>2. \A u : /\ ~Runs(c, BeforeInline, u)' /\ ~Runs(c, Unmapped, u)'
               /\ ~Runs(c, SessionSteps \cup {"logout"}, u)'
    BY <2>1 DEF Runs, BeforeInline, Unmapped, CloseSteps, SessionSteps
  <2>3. \A u \in User : Holds(c, u)' => Holds(c, u)
    BY <1>1, <1>2, <1>3, <2>1, <2>2 DEF Holds, SameMapped
  <2>4. SessionKept(c)' BY <1>1, <1>2, <1>5, <1>6, <2>2, <2>3, Works_Session
  <2>5. QED BY <1>1, <1>2, <2>3, <2>4, Own_Session
<1>8. CASE /\ state[u0] = "offline"
           /\ Goto(c, "login_insert") /\ UNCHANGED <<userVars, js>>
  <2>1. /\ pc'[c] = "login_insert" /\ js' = js /\ screen' = screen /\ me' = me
    BY <1>8 DEF Goto, TypeOK, userVars
  <2>2. \A u : /\ Runs(c, BeforeInline, u)' = (u = u0)
               /\ Runs(c, Unmapped, u)' = (u = u0)
               /\ Runs(c, SessionSteps \cup {"logout"}, u)' => u = u0
    BY <1>1, <2>1 DEF Runs, BeforeInline, Unmapped
  <2>3. \A d \in Conn : ~Holds(d, u0)
    BY <1>1, <1>4, <1>8, <2>2, OfflineFree
  <2>4. \A u \in User : Holds(c, u)' => Holds(c, u) \/ u = u0
    BY <1>1, <1>2, <1>3, <2>1, <2>2 DEF Holds, SameMapped
  <2>5. OfflineHeld(c)'
    BY <1>1, <1>5, <1>6, <2>2, <2>4 DEF OfflineHeld, SessionKept
  <2>6. BeforeOffline(c)' BY <1>1, <1>8, <2>2 DEF BeforeOffline
  <2>7. HeldMapped(c)'
    BY <1>2, <1>5, <1>6, <2>2, <2>4 DEF HeldMapped, SessionKept, SameMapped
  <2>8. ~Mapped(c, u0) BY <2>3 DEF Holds
  <2>9. UnmappedNone(c)' BY <1>2, <2>2, <2>8 DEF UnmappedNone, SameMapped
  <2>10. SessionKept(c)' BY <2>5, <2>6, <2>7, <2>9 DEF SessionKept
  <2>11. QED BY <1>1, <1>2, <2>3, <2>4, <2>10, Own_Session
<1>9. QED BY <1>7, <1>8 DEF login

(* So does login_insert, which maps the user of the login. *)
LEMMA Insert_Session ==
  ASSUME TypeOK, TypeOK', Stages, MapKept, SessionsKept, NEW c \in Conn,
         login_insert(c)
  PROVE  SessionsKept'
<1>1. PICK u0 : u0 = js[c].user OBVIOUS
<1>2. /\ pc[c] = "login_insert" /\ pc'[c] = "login_subscribe" /\ js' = js
      /\ link' = link /\ reqs' = reqs /\ screen' = screen /\ me' = me
      /\ state' = state /\ \A d \in Conn \ {c} : Same(d)
  <2>1. \A d \in Conn \ {c} : Same(d) BY LoginOthers DEF LoginStep
  <2>2. QED
    BY <2>1 DEF login_insert, At, Goto, TypeOK, envVars, userVars, dbVars
<1>3. /\ at[c] \in Server /\ u0 \in User
      /\ \A s \in Server, u \in User :
           userConnMap'[s][u] = IF /\ s = at[c] /\ u = u0
                                   /\ userConnMap[s][u] = NoConn
                                THEN c ELSE userConnMap[s][u]
  BY <1>1, InsertMap
<1>4. \A d \in Conn \ {c} : SameMapped(d) BY OthersMapped DEF LoginStep
<1>5. \A u \in User \ {u0} : Mapped(c, u)' = Mapped(c, u)
  BY <1>3 DEF Mapped
<1>6. Holds(c, u0) BY <1>1, <1>2, RunsHolds DEF Runs, SessionSteps
<1>7. Mapped(c, u0)'
  <2> DEFINE d == userConnMap[at[c]][u0]
  <2>1. userConnMap'[at[c]][u0] = IF d = NoConn THEN c ELSE d BY <1>3
  <2>2. CASE d = NoConn BY <1>3, <2>1, <2>2 DEF Mapped
  <2>3. CASE d # NoConn
    <3>1. d \in Conn BY <1>3, <2>3 DEF TypeOK
    <3>2. Holds(d, u0) BY <1>3 DEF Holds, Mapped
    <3>3. d = c BY <1>3, <1>6, <3>1, <3>2 DEF SessionsKept, HoldOnce
    <3>4. QED BY <1>3, <2>1, <2>3, <3>3 DEF Mapped
  <2>4. QED BY <2>2, <2>3
<1>8. \A op, u : Sent(c, op, u)' = Sent(c, op, u) BY <1>2 DEF Sent
<1>9. \A u : /\ Runs(c, BeforeInline, u)' = Runs(c, BeforeInline, u)
             /\ ~Runs(c, Unmapped, u)' /\ (Runs(c, Unmapped, u) => u = u0)
             /\ Runs(c, SessionSteps \cup {"logout"}, u)' => u = u0
  BY <1>1, <1>2 DEF Runs, BeforeInline, Unmapped, CloseSteps
<1>10. \A u \in User : Holds(c, u)' => Holds(c, u)
  <2>1. \A u \in User \ {u0} : Holds(c, u)' => Holds(c, u)
    BY <1>2, <1>5, <1>8, <1>9 DEF Holds
  <2>2. QED BY <1>6, <2>1
<1>11. SessionKept(c) BY DEF SessionsKept
<1>12. OfflineHeld(c)' BY <1>2, <1>9, <1>10, <1>11 DEF OfflineHeld, SessionKept
<1>13. BeforeOffline(c)' BY <1>2, <1>9, <1>11 DEF BeforeOffline, SessionKept
<1>14. HeldMapped(c)'
  <2>1. ASSUME NEW u \in User \ {u0}, Holds(c, u)' PROVE Mapped(c, u)'
    BY <1>5, <1>9, <1>10, <1>11, <2>1 DEF HeldMapped, SessionKept
  <2>2. QED BY <1>7, <2>1 DEF HeldMapped
<1>15. UnmappedNone(c)' BY <1>9 DEF UnmappedNone
<1>16. SessionKept(c)' BY <1>12, <1>13, <1>14, <1>15 DEF SessionKept
<1>17. QED BY <1>2, <1>4, <1>10, <1>16, Own_Session

(* So do the steps after it. *)
LEMMA Login_Session ==
  ASSUME TypeOK, TypeOK', Stages, Ordered, SessionsKept, NEW c \in Conn,
         login_subscribe(c) \/ login_inline(c) \/ login_query(c)
           \/ login_remove(c) \/ login_reply(c)
  PROVE  SessionsKept'
<1> DEFINE u0 == js[c].user
<1> USE DEF At, Goto, envVars, userVars, mapVars, dbVars, busVars
<1>1. /\ userConnMap' = userConnMap /\ reqs' = reqs /\ link' = link
      /\ \A d \in Conn \ {c} : Same(d)
  BY LoginOthers
     DEF LoginStep, login_subscribe, login_inline, login_query, login_remove,
         login_reply
<1>2. \A d \in Conn : SameMapped(d) BY <1>1 DEF SameMapped, Mapped
<1>3. \A op, u : Sent(c, op, u)' = Sent(c, op, u) BY <1>1 DEF Sent
<1>4. SessionKept(c) BY DEF SessionsKept
<1>5. ASSUME pc[c] \in InSession \ {"login_insert"},
             \/ /\ pc'[c] \in InSession \ {"login_insert"} /\ js' = js
                /\ screen' = screen /\ me' = me
             \/ /\ pc'[c] = "idle"
                /\ \/ me'[c] = u0
                   \/ screen'[c] = screen[c] /\ me'[c] = me[c]
      PROVE  \A u \in User : /\ Holds(c, u)' => Holds(c, u)
                             /\ ~Runs(c, Unmapped, u)
                             /\ ~Runs(c, Unmapped, u)'
  <2> SUFFICES ASSUME NEW u \in User
               PROVE  /\ Holds(c, u)' => Holds(c, u)
                      /\ ~Runs(c, Unmapped, u)
                      /\ ~Runs(c, Unmapped, u)'
    OBVIOUS
  <2>1. Runs(c, SessionSteps \cup {"logout"}, u0)
    BY <1>5 DEF Runs, InSession, LoginSteps, SessionSteps
  <2>2. Runs(c, SessionSteps \cup {"logout"}, u)' => u = u0
    BY <1>5 DEF Runs, InSession, LoginSteps, SessionSteps
  <2>3. ~Runs(c, Unmapped, u) /\ ~Runs(c, Unmapped, u)'
    BY <1>5 DEF Runs, InSession, LoginSteps, Unmapped, CloseSteps
  <2>4. CASE u = u0 BY <2>1, <2>3, <2>4, RunsHolds
  <2>5. CASE u # u0
    <3>1. Holds(c, u)' => Holds(c, u)
      BY <1>1, <1>2, <1>3, <1>5, <2>2, <2>5 DEF Holds, SameMapped
    <3>2. QED BY <2>3, <3>1
  <2>6. QED BY <2>4, <2>5
<1>6. CASE login_inline(c)
  <2>1. /\ pc[c] = "login_inline" /\ pc'[c] = "login_query" /\ js' = js
        /\ screen' = screen /\ me' = me
        /\ state' = [state EXCEPT ![u0] = "inline"]
    BY <1>6 DEF login_inline, TypeOK, SetState
  <2>2. u0 \in User BY <2>1 DEF Stages, UserKnown, LoginSteps
  <2>3. \A u \in User : /\ Holds(c, u)' => Holds(c, u)
                        /\ ~Runs(c, Unmapped, u) /\ ~Runs(c, Unmapped, u)'
    BY <1>5, <2>1 DEF InSession, LoginSteps
  <2>4. state'[u0] = "inline" /\ \A u \in User \ {u0} : state'[u] = state[u]
    BY <2>1, <2>2 DEF TypeOK
  <2>5. \A u : Runs(c, BeforeInline, u) => u = u0 BY DEF Runs
  <2>6. OfflineHeld(c)'
    BY <1>4, <2>3, <2>4, <2>5 DEF OfflineHeld, SessionKept
  <2>7. BeforeOffline(c)' BY <2>1 DEF BeforeOffline, Runs, BeforeInline
  <2>8. HeldMapped(c)' /\ UnmappedNone(c)'
    BY <1>2, <1>4, <2>3
       DEF HeldMapped, UnmappedNone, SessionKept, SameMapped
  <2>9. SessionKept(c)' BY <2>6, <2>7, <2>8 DEF SessionKept
  <2>10. Holds(c, u0) BY <2>1, RunsHolds DEF Runs, SessionSteps
  <2>11. QED BY <1>1, <1>2, <2>3, <2>4, <2>9, <2>10, Own_Session
<1>7. ASSUME state' = state,
             \A u \in User : /\ Holds(c, u)' => Holds(c, u)
                             /\ ~Runs(c, Unmapped, u)
                             /\ ~Runs(c, Unmapped, u)',
             \A u : Runs(c, BeforeInline, u)' = Runs(c, BeforeInline, u)
      PROVE  SessionsKept'
  <2>1. SessionKept(c)' BY <1>2, <1>4, <1>7, Works_Session
  <2>2. QED BY <1>1, <1>2, <1>7, <2>1, Own_Session
<1>8. CASE login_subscribe(c)
  <2>1. /\ pc[c] = "login_subscribe" /\ pc'[c] = "login_inline" /\ js' = js
        /\ screen' = screen /\ me' = me /\ state' = state
    BY <1>8 DEF login_subscribe, TypeOK
  <2>2. \A u : Runs(c, BeforeInline, u)' = Runs(c, BeforeInline, u)
    BY <2>1 DEF Runs, BeforeInline
  <2>3. QED BY <1>5, <1>7, <2>1, <2>2 DEF InSession, LoginSteps
<1>9. CASE login_query(c) \/ login_remove(c)
  <2>1. /\ pc[c] \in {"login_query", "login_remove"}
        /\ pc'[c] \in {"login_remove", "login_reply"} /\ js' = js
        /\ screen' = screen /\ me' = me /\ state' = state
    BY <1>9 DEF login_query, login_remove, TypeOK
  <2>2. \A u : Runs(c, BeforeInline, u)' = Runs(c, BeforeInline, u)
    BY <2>1 DEF Runs, BeforeInline
  <2>3. QED BY <1>5, <1>7, <2>1, <2>2 DEF InSession, LoginSteps
<1>10. CASE login_reply(c)
  <2>1. /\ pc[c] = "login_reply" /\ pc'[c] = "idle" /\ state' = state
        /\ me'[c] = u0 \/ (screen'[c] = screen[c] /\ me'[c] = me[c])
    BY <1>10 DEF login_reply, TypeOK, Reply, Done, userVars
  <2>2. \A u : Runs(c, BeforeInline, u)' = Runs(c, BeforeInline, u)
    BY <2>1 DEF Runs, BeforeInline
  <2>3. QED BY <1>5, <1>7, <2>1, <2>2 DEF InSession, LoginSteps
<1>11. QED BY <1>6, <1>8, <1>9, <1>10

(* So do a logout and the end of a connection. *)
LEMMA Leave_Session ==
  ASSUME TypeOK, TypeOK', Stages, Ordered, MapKept, SessionsKept,
         NEW c \in Conn, LeaveStep(c)
  PROVE  SessionsKept'
<1>1. PICK u0 : u0 = js[c].user OBVIOUS
<1> USE DEF At, Goto, envVars, userVars, mapVars, dbVars, busVars
<1>2. /\ \A d \in Conn \ {c} : Same(d)
      /\ InOrder(c) /\ SessionKept(c) /\ EntryKept(c)
  BY LeaveOthers DEF Ordered, SessionsKept, MapKept
<1>3. \A d \in Conn : EntryKept(d) BY DEF MapKept
<1>4. CASE logout(c)
  <2>1. /\ pc[c] = "logout" /\ pc'[c] = "logout_unsubscribe" /\ js' = js
        /\ UNCHANGED <<link, reqs, screen, me, state>>
    BY <1>4 DEF logout, TypeOK
  <2>2. /\ at[c] \in Server /\ u0 \in User
        /\ \A s \in Server, u \in User :
             userConnMap'[s][u] = IF s = at[c] /\ u = u0 THEN NoConn
                                  ELSE userConnMap[s][u]
    BY <1>1, <1>4, LogoutMap
  <2>3. Holds(c, u0) BY <1>1, <2>1, RunsHolds DEF Runs
  <2>4. \A d \in Conn \ {c} : SameMapped(d) BY OthersMapped
  <2>5. ~Mapped(c, u0)'
    <3>1. \A s \in Server : userConnMap[s][u0] = c => s = at[c]
      BY <1>2, <2>2 DEF EntryKept, EntryPlaced
    <3>2. \A s \in Server : userConnMap'[s][u0] # c
      BY <2>2, <3>1, ServiceAssumption
    <3>3. QED BY <3>2 DEF Mapped
  <2>6. \A u \in User \ {u0} : Mapped(c, u)' = Mapped(c, u)
    BY <2>2 DEF Mapped
  <2>7. \A op, u : Sent(c, op, u)' = Sent(c, op, u) BY <2>1 DEF Sent
  <2>8. \A u : /\ ~Runs(c, BeforeInline, u)
               /\ ~Runs(c, BeforeInline, u)' /\ ~Runs(c, Unmapped, u)
               /\ Runs(c, Unmapped, u)' <=> u = u0
               /\ Runs(c, SessionSteps \cup {"logout"}, u)' => u = u0
    BY <1>1, <2>1 DEF Runs, LoginSteps, BeforeInline, Unmapped, CloseSteps,
                      SessionSteps
  <2>9. \A u \in User : Holds(c, u)' => Holds(c, u)
    <3>1. \A u \in User \ {u0} : Holds(c, u)' => Holds(c, u)
      BY <2>1, <2>6, <2>7, <2>8 DEF Holds
    <3>2. QED BY <2>3, <3>1
  <2>10. OfflineHeld(c)'
    BY <1>2, <2>1, <2>8, <2>9 DEF OfflineHeld, SessionKept
  <2>11. BeforeOffline(c)' BY <2>8 DEF BeforeOffline
  <2>12. HeldMapped(c)'
    BY <1>2, <2>6, <2>8, <2>9 DEF HeldMapped, SessionKept
  <2>13. UnmappedNone(c)' BY <2>5, <2>8 DEF UnmappedNone
  <2>14. SessionKept(c)' BY <2>10, <2>11, <2>12, <2>13 DEF SessionKept
  <2>15. QED BY <1>2, <2>1, <2>4, <2>9, <2>14, Own_Session
<1>5. CASE logout_unsubscribe(c)
  <2>1. /\ pc[c] = "logout_unsubscribe" /\ pc'[c] = "logout_offline" /\ js' = js
        /\ UNCHANGED <<link, reqs, screen, me, state, userConnMap>>
    BY <1>5 DEF logout_unsubscribe, TypeOK
  <2>2. \A d \in Conn : SameMapped(d) BY <2>1 DEF SameMapped, Mapped
  <2>3. \A op, u : Sent(c, op, u)' = Sent(c, op, u) BY <2>1 DEF Sent
  <2>4. \A u : /\ ~Runs(c, BeforeInline, u)
               /\ ~Runs(c, BeforeInline, u)'
               /\ Runs(c, Unmapped, u)' <=> Runs(c, Unmapped, u)
               /\ Runs(c, SessionSteps \cup {"logout"}, u)' =>
                    Runs(c, SessionSteps \cup {"logout"}, u)
    BY <2>1 DEF Runs, LoginSteps, BeforeInline, Unmapped, SessionSteps
  <2>5. \A u \in User : Holds(c, u)' => Holds(c, u)
    BY <2>1, <2>2, <2>3, <2>4 DEF Holds, SameMapped
  <2>6. SessionKept(c)' BY <1>2, <2>1, <2>2, <2>4, <2>5, Works_Session
  <2>7. QED BY <1>2, <2>1, <2>2, <2>5, <2>6, Own_Session
<1>6. ASSUME pc[c] \in {"logout_offline", "close_offline"}, pc'[c] = "idle",
             state' = [state EXCEPT ![u0] = "offline"],
             userConnMap' = userConnMap, reqs' = reqs, screen' = screen,
             me' = me, link'[c] = link[c] \/ link'[c] = "closed",
             pc[c] = "close_offline" => link'[c] = "closed"
      PROVE  SessionsKept'
  <2>1. \A d \in Conn : SameMapped(d) BY <1>6 DEF SameMapped, Mapped
  <2>2. \A op, u : Sent(c, op, u)' = Sent(c, op, u) BY <1>6 DEF Sent
  <2>3. \A u : /\ ~Runs(c, BeforeInline, u)
               /\ ~Runs(c, BeforeInline, u)' /\ ~Runs(c, Unmapped, u)'
               /\ ~Runs(c, SessionSteps \cup {"logout"}, u)'
               /\ Runs(c, Unmapped, u) <=> u = u0
    BY <1>1, <1>6 DEF Runs, LoginSteps, BeforeInline, Unmapped, CloseSteps,
                      SessionSteps
  <2>4. \A u \in User : Holds(c, u)' => Holds(c, u)
    BY <1>6, <2>1, <2>2, <2>3 DEF Holds, SameMapped
  <2>5. ASSUME u0 \in User PROVE ~Holds(c, u0)'
    <3>1. ~Mapped(c, u0)'
      BY <1>2, <2>1, <2>3, <2>5 DEF SessionKept, UnmappedNone, SameMapped
    <3>2. ~Sent(c, "logout", u0)
      <4>1. CASE pc[c] = "logout_offline"
        BY <1>2, <2>5, <4>1 DEF InOrder, NoneBehindLogout, LogoutSteps
      <4>2. CASE pc[c] = "close_offline"
        BY <1>2, <4>2 DEF InOrder, ClosingDead, CloseSteps, Sent
      <4>3. QED BY <1>6, <4>1, <4>2
    <3>3. ~(link'[c] = "open" /\ screen'[c] = "chat")
      <4>1. CASE pc[c] = "logout_offline"
        BY <1>1, <1>2, <1>6, <2>5, <4>1
           DEF InOrder, LogoutLeft, LogsOut, Runs, LogoutSteps
      <4>2. CASE pc[c] = "close_offline" BY <1>6, <4>2
      <4>3. QED BY <1>6, <4>1, <4>2
    <3>4. QED BY <2>2, <2>3, <3>1, <3>2, <3>3 DEF Holds
  <2>6. \A u \in User \ {u0} : state'[u] = state[u] BY <1>6 DEF TypeOK
  <2>7. OfflineHeld(c)'
    BY <1>2, <2>3, <2>4, <2>5, <2>6 DEF OfflineHeld, SessionKept
  <2>8. BeforeOffline(c)' BY <2>3 DEF BeforeOffline
  <2>9. HeldMapped(c)'
    BY <1>2, <2>1, <2>3, <2>4, <2>5 DEF HeldMapped, SessionKept, SameMapped
  <2>10. UnmappedNone(c)' BY <2>3 DEF UnmappedNone
  <2>11. SessionKept(c)' BY <2>7, <2>8, <2>9, <2>10 DEF SessionKept
  <2>12. Holds(c, u0) BY <1>1, <1>6, RunsHolds DEF Runs, SessionSteps
  <2>13. QED BY <1>2, <2>1, <2>4, <2>6, <2>11, <2>12, Own_Session
<1>7. CASE logout_offline(c)
  BY <1>1, <1>6, <1>7 DEF logout_offline, Done, SetState, TypeOK
<1>8. CASE close_offline(c)
  BY <1>1, <1>6, <1>8 DEF close_offline, Closed, Done, SetState, TypeOK
<1>9. CASE ClientCloseException(c)
  <2>1. /\ pc[c] = "idle" /\ pc'[c] = "close_unsubscribe" /\ reqs'[c] = <<>>
        /\ link'[c] = "dead" /\ state' = state
    BY <1>9 DEF ClientCloseException, TypeOK
  <2>2. PICK E \in SUBSET {u \in User : userConnMap[at[c]][u] = c} :
          /\ E = {} => js'[c].user = NoUser
          /\ E # {} => js'[c].user \in E
          /\ \A s \in Server, u \in User :
               userConnMap'[s][u] = IF s = at[c] /\ u \in E THEN NoConn
                                    ELSE userConnMap[s][u]
    BY <1>9, CloseMap
  <2>3. at[c] \in Server BY <1>9, CloseMap
  <2>4. \A d \in Conn \ {c} : SameMapped(d) BY OthersMapped
  <2>5. \A u \in User : Mapped(c, u)' => Mapped(c, u)
    BY <2>2, ServiceAssumption DEF Mapped
  <2>6. PICK last : last = js'[c].user OBVIOUS
  <2>7. last \in User => last \in E /\ Mapped(c, last)
    BY <2>2, <2>3, <2>6, BusAssumption DEF Mapped
  <2>8. last \in User => ~Mapped(c, last)'
    <3> SUFFICES ASSUME last \in User PROVE ~Mapped(c, last)' OBVIOUS
    <3>1. \A s \in Server : userConnMap[s][last] = c => s = at[c]
      BY <1>2 DEF EntryKept, EntryPlaced
    <3>2. last \in E BY <2>7
    <3>3. ASSUME NEW s \in Server, userConnMap'[s][last] = c PROVE FALSE
      <4>1. CASE s = at[c]
        <5>1. userConnMap'[s][last] = NoConn BY <2>2, <3>2, <4>1
        <5>2. QED BY <3>3, <5>1, ServiceAssumption
      <4>2. CASE s # at[c] BY <2>2, <3>1, <3>3, <4>2
      <4>3. QED BY <4>1, <4>2
    <3>4. QED BY <3>3 DEF Mapped
  <2>9. \A op, u : ~Sent(c, op, u)' BY <2>1 DEF Sent
  <2>10. \A u : /\ ~Runs(c, BeforeInline, u)
                /\ ~Runs(c, BeforeInline, u)' /\ ~Runs(c, Unmapped, u)
                /\ Runs(c, Unmapped, u)' <=> u = last
                /\ Runs(c, SessionSteps \cup {"logout"}, u)' => u = last
    BY <2>1, <2>6 DEF Runs, LoginSteps, BeforeInline, Unmapped, CloseSteps,
                      SessionSteps
  <2>11. \A u \in User : Holds(c, u)' => Mapped(c, u)' \/ u = last
    BY <2>1, <2>9, <2>10 DEF Holds
  <2>12. \A u \in User : Holds(c, u)' => Holds(c, u)
    BY <2>5, <2>7, <2>11 DEF Holds
  <2>13. OfflineHeld(c)'
    BY <1>2, <2>1, <2>10, <2>12 DEF OfflineHeld, SessionKept
  <2>14. BeforeOffline(c)' BY <2>10 DEF BeforeOffline
  <2>15. HeldMapped(c)' BY <2>10, <2>11 DEF HeldMapped
  <2>16. UnmappedNone(c)' BY <2>8, <2>10 DEF UnmappedNone
  <2>17. SessionKept(c)' BY <2>13, <2>14, <2>15, <2>16 DEF SessionKept
  <2>18. QED BY <1>2, <2>1, <2>4, <2>12, <2>17, Own_Session
<1>10. CASE close_unsubscribe(c)
  <2>1. /\ pc[c] = "close_unsubscribe" /\ Alive(c)
        /\ UNCHANGED <<reqs, screen, me, state, userConnMap>>
        /\ \/ js[c].user = NoUser /\ pc'[c] = "idle" /\ link'[c] = "closed"
           \/ pc'[c] = "close_offline" /\ link' = link /\ js' = js
    BY <1>10 DEF close_unsubscribe, Closed, Done, TypeOK
  <2>2. \A d \in Conn : SameMapped(d) BY <2>1 DEF SameMapped, Mapped
  <2>3. \A op, u : Sent(c, op, u)' = Sent(c, op, u) BY <2>1 DEF Sent
  <2>4. \A u \in User :
          /\ ~Runs(c, BeforeInline, u)
          /\ ~Runs(c, BeforeInline, u)'
          /\ Runs(c, Unmapped, u)' <=> Runs(c, Unmapped, u)
          /\ Runs(c, SessionSteps \cup {"logout"}, u)' =>
               Runs(c, SessionSteps \cup {"logout"}, u)
    BY <2>1, BusAssumption
       DEF Runs, LoginSteps, BeforeInline, Unmapped, CloseSteps, SessionSteps
  <2>5. \A u \in User : Holds(c, u)' => Holds(c, u)
    BY <2>1, <2>2, <2>3, <2>4 DEF Holds, SameMapped
  <2>6. SessionKept(c)' BY <1>2, <2>1, <2>2, <2>4, <2>5, Works_Session
  <2>7. QED BY <1>2, <2>1, <2>2, <2>5, <2>6, Own_Session
<1>11. QED BY <1>4, <1>5, <1>7, <1>8, <1>9, <1>10 DEF LeaveStep

(* The end of a server leaves its connections without sessions. *)
LEMMA Stop_Session ==
  ASSUME TypeOK, Ordered, MapKept, SessionsKept, NEW s \in Server,
         exit(s) \/ crash(s)
  PROVE  SessionsKept'
<1>1. ASSUME NEW d \in Conn
      PROVE  \/ Same(d) /\ SameMapped(d)
             \/ /\ pc'[d] = "idle"
                /\ \A u \in User : ~Holds(d, u)'
  <2>1. /\ \/ SameClient(d) /\ SameJob(d) /\ ~(at[d] = s /\ Alive(d))
           \/ /\ at[d] = s /\ Alive(d) /\ link'[d] = "closed"
              /\ pc'[d] = "idle" /\ reqs'[d] = <<>> /\ screen'[d] = "menu"
        /\ MapShrinks(d) /\ \A u \in User : userConnMap'[s][u] # d
        /\ \A r \in Server \ {s} : userConnMap'[r] = userConnMap[r]
    BY StopSame
  <2>2. EntryKept(d) /\ InOrder(d) BY DEF MapKept, Ordered
  <2>3. CASE at[d] # s
    <3>1. \A r \in Server, u \in User :
            userConnMap'[r][u] = d <=> userConnMap[r][u] = d
      BY <2>1, <2>2, <2>3 DEF EntryKept, EntryPlaced
    <3>2. SameMapped(d) BY <3>1 DEF SameMapped, Mapped
    <3>3. QED BY <2>1, <2>3, <3>2 DEF Same, SameSession
  <2>4. CASE at[d] = s
    <3>1. \A r \in Server, u \in User : userConnMap'[r][u] # d
      BY <2>1, <2>2, <2>4 DEF EntryKept, EntryPlaced, MapShrinks
    <3>2. \A u \in User : ~Mapped(d, u)' BY <3>1 DEF Mapped
    <3>3. /\ pc'[d] = "idle" /\ reqs'[d] = <<>> /\ link'[d] # "open"
      BY <2>1, <2>2, <2>4
         DEF InOrder, GoneIdle, Alive, SameClient, SameJob
    <3>4. \A op, u : ~Sent(d, op, u)' BY <3>3 DEF Sent
    <3>5. \A u : ~Runs(d, SessionSteps \cup {"logout"}, u)'
      BY <3>3 DEF Runs, SessionSteps
    <3>6. QED BY <3>2, <3>3, <3>4, <3>5 DEF Holds
  <2>5. QED BY <2>3, <2>4
<1>2. \A d \in Conn, u \in User : Holds(d, u)' => Holds(d, u)
  BY <1>1, Same_Views
<1>3. HoldOnce' BY <1>2 DEF SessionsKept, HoldOnce
<1>4. state' = state BY StopSame DEF exit, crash, Stop, dbVars
<1>5. ASSUME NEW d \in Conn PROVE SessionKept(d)'
  <2>1. CASE Same(d) /\ SameMapped(d)
    BY <1>4, <2>1, Same_Views, Works_Session DEF SessionsKept
  <2>2. CASE pc'[d] = "idle" /\ \A u \in User : ~Holds(d, u)'
    BY <2>2, None_Session DEF BeforeInline, Unmapped, CloseSteps
  <2>3. QED BY <1>1, <2>1, <2>2
<1>6. QED BY <1>3, <1>5 DEF SessionsKept

(* Every step keeps the sessions. *)
LEMMA SessionsKeptStep ==
  ASSUME LoginsApart', "sigint" \notin Faults, TypeOK, TypeOK', Stages,
         Ordered, MapKept, SessionsKept, [Next]_vars
  PROVE  SessionsKept'
<1>1. ASSUME \A d \in Conn : Same(d), UNCHANGED <<userConnMap, state>>
      PROVE  SessionsKept'
  <2>1. \A d \in Conn : SameMapped(d) BY <1>1 DEF SameMapped, Mapped
  <2>2. \A d \in Conn : SessionKept(d)'
    BY <1>1, <2>1, Same_Views, Works_Session DEF SessionsKept
  <2>3. HoldOnce'
    BY <1>1, <2>1, Same_Views DEF SessionsKept, HoldOnce
  <2>4. QED BY <2>2, <2>3 DEF SessionsKept
<1>2. ASSUME NEW c \in Conn, ClientStep(c) \/ WorkerStep(c)
      PROVE  SessionsKept'
  <2>1. CASE LoginStep(c)
    BY <2>1, Check_Session, Insert_Session, Login_Session DEF LoginStep
  <2>2. CASE ChatStep(c) BY <1>1, <2>2, ChatSame
  <2>3. QED
    BY <1>2, <2>1, <2>2, Client_Session, Read_Session, Leave_Session
       DEF WorkerStep
<1>3. ASSUME NEW s \in Server, ServerStep(s)
      PROVE  SessionsKept'
  <2>1. CASE exit(s) \/ crash(s) BY <2>1, Stop_Session
  <2>2. CASE handleRedisSubscribeMessage(s) \/ RedisStep(s) \/ restart(s)
    <3>1. state' = state
      BY <2>2 DEF handleRedisSubscribeMessage, RedisStep, restart, dbVars
    <3>2. QED BY <1>1, <2>2, <3>1, ServerSame
  <2>3. ~resetHandle(s) BY DEF resetHandle
  <2>4. QED BY <1>3, <2>1, <2>2, <2>3 DEF ServerStep
<1>4. CASE UNCHANGED vars
  <2>1. (\A d \in Conn : Same(d)) /\ UNCHANGED <<userConnMap, state>>
    BY <1>4 DEF vars, envVars, userVars, jobVars, mapVars, dbVars, Same,
                SameClient, SameSession, SameJob
  <2>2. QED BY <1>1, <2>1
<1>5. QED BY <1>2, <1>3, <1>4 DEF Next

(* Whatever counts as a session is held. *)
LEMMA KeptOnce ==
  ASSUME SessionsKept PROVE OneSession
<1>1. \A u \in User : \A c \in Sessions(u) : c \in Conn /\ Holds(c, u)
  BY DEF Sessions, Holds, Mapped, Runs
<1>2. QED BY <1>1 DEF OneSession, SessionsKept, HoldOnce

(***************************************************************************)
(* However many servers, users and clients there are, requests share a     *)
(* read and servers crash: if no server is stopped by SIGINT, a user has   *)
(* two sessions only after two logins of his were, at one moment, both     *)
(* past the check that he is offline and not yet past the update that says *)
(* he is not.  These are two SQL statements with a map insertion and a     *)
(* subscription between them, and nothing in the code keeps two logins out *)
(* of that gap.  It is the only way in: no logout, close, crash or login   *)
(* that comes later makes a second session.                                *)
(***************************************************************************)
THEOREM OneSessionHolds ==
  ASSUME "sigint" \notin Faults PROVE Spec /\ []LoginsApart => []OneSession
<1>1. Init => Ordered /\ MapKept /\ SessionsKept
  BY InitOrdered, InitMapKept, InitSessionsKept
<1>2. /\ LoginsApart' /\ TypeOK /\ TypeOK' /\ Stages /\ Ordered /\ MapKept
      /\ SessionsKept /\ [Next]_vars
      => Ordered' /\ MapKept' /\ SessionsKept'
  BY OrderedStep, MapKeptStep, SessionsKeptStep
<1>3. SessionsKept => OneSession BY KeptOnce
<1>4. QED BY <1>1, <1>2, <1>3, TypesHold, PTL DEF Spec

-----------------------------------------------------------------------------
(* A user logs in at one connection at a time, whatever the faults.        *)

(* TryOnce is kept if the only login that is new is of nobody else's. *)
LEMMA TryKept ==
  ASSUME TryOnce, NEW c \in Conn,
         \A d \in Conn \ {c}, u \in User : LogsIn(d, u)' => LogsIn(d, u),
         \A u \in User : LogsIn(c, u)' =>
           LogsIn(c, u) \/ \A d \in Conn \ {c} : ~LogsIn(d, u)
  PROVE  TryOnce'
BY DEF TryOnce

(* An untouched connection logs in whom it did. *)
LEMMA SameLogsIn ==
  ASSUME NEW d \in Conn, Same(d), NEW u \in User
  PROVE  LogsIn(d, u)' => LogsIn(d, u)
<1>1. LoginSteps \in SUBSET (Step \ (ChatSteps \cup {"idle"}))
  BY DEF LoginSteps, Step, SessionSteps, ChatSteps
<1>2. QED BY <1>1, SameViews DEF LogsIn

(* A request of another kind is no login. *)
LEMMA SendsNoLogin ==
  ASSUME TypeOK, NEW c \in Conn, NEW op \in {"logout", "oneChat", "groupChat"},
         NEW u \in Channel, NEW m \in Msg \cup {NoMsg},
         Send(c, op, u, m, FALSE)
  PROVE  \A v : Sent(c, "login", v)' => Sent(c, "login", v)
<1>1. PICK o \in {"login", "logout", "oneChat", "groupChat"} :
        o = op /\ o # "login"
  OBVIOUS
<1>2. PICK pwd \in BOOLEAN : pwd = FALSE OBVIOUS
<1>3. Send(c, o, u, m, pwd) BY <1>1, <1>2
<1>4. \A k, v : Sent(c, k, v)' <=> Sent(c, k, v) \/ (k = o /\ v = u)
  BY <1>3, SendSent
<1>5. QED BY <1>1, <1>4

(* A user whose login is under way is one of its connection, which is open *)
(* and shows that, or is gone.                                             *)
LEMMA TryEngages ==
  ASSUME Stages, NEW c \in Conn, NEW d \in Conn \ {c}, NEW u \in User,
         InOrder(d), LogsIn(d, u)
  PROVE  Engaged(c, u)
<1>1. u \in Uses[d] BY DEF InOrder, OwnUser
<1>2. Alive(d)
  BY DEF InOrder, GoneIdle, LogsIn, Sent, Runs, LoginSteps
<1>3. link[d] = "open" => me[d] = u BY DEF InOrder, LoginAwaited
<1>4. QED BY <1>1, <1>2, <1>3 DEF Engaged, Alive

(* A person who logs in is at no other client. *)
LEMMA Client_Tries ==
  ASSUME Exclusive, TypeOK, Stages, Ordered, TryOnce,
         NEW c \in Conn, ClientStep(c)
  PROVE  TryOnce'
<1>1. \A d \in Conn \ {c} : Same(d) BY ClientOthers
<1>2. \A d \in Conn \ {c}, u \in User : LogsIn(d, u)' => LogsIn(d, u)
  BY <1>1, SameLogsIn
<1>3. \A S, u : Runs(c, S, u)' = Runs(c, S, u)
  BY ClientOthers DEF Runs, SameJob
<1>4. CASE \A v : Sent(c, "login", v)' => Sent(c, "login", v)
  <2>1. \A u \in User : LogsIn(c, u)' => LogsIn(c, u)
    BY <1>3, <1>4 DEF LogsIn
  <2>2. QED BY <1>2, <2>1, TryKept
<1>5. CASE Connect(c) \/ ClientGone(c)
  <2>1. reqs' = reqs BY <1>5 DEF Connect, ClientGone
  <2>2. QED BY <1>4, <2>1 DEF Sent
<1>6. CASE ClientLogout(c)
  <2>1. me[c] \in Channel /\ Send(c, "logout", me[c], NoMsg, FALSE)
    BY <1>6 DEF ClientLogout, TypeOK
  <2>2. \A v : Sent(c, "login", v)' => Sent(c, "login", v)
    BY <2>1, SendsNoLogin
  <2>3. QED BY <1>4, <2>2
<1>7. ASSUME NEW u \in User, NEW m \in Msg, ClientChat(c, u, m)
      PROVE  TryOnce'
  <2>1. u \in Channel /\ Send(c, "oneChat", u, m, FALSE)
    BY <1>7 DEF ClientChat, Channel
  <2>2. \A v : Sent(c, "login", v)' => Sent(c, "login", v)
    BY <2>1, SendsNoLogin
  <2>3. QED BY <1>4, <2>2
<1>8. ASSUME NEW m \in Msg, ClientGroupChat(c, m) PROVE TryOnce'
  <2>1. me[c] \in Channel /\ Send(c, "groupChat", me[c], m, FALSE)
    BY <1>8 DEF ClientGroupChat, TypeOK
  <2>2. \A v : Sent(c, "login", v)' => Sent(c, "login", v)
    BY <2>1, SendsNoLogin
  <2>3. QED BY <1>4, <2>2
<1>9. ASSUME NEW u \in Uses[c], NEW pwd \in Passwords, ClientLogin(c, u, pwd)
      PROVE  TryOnce'
  <2>1. u \in User /\ u \in Channel /\ pwd \in BOOLEAN
    BY ServiceAssumption DEF Channel
  <2>2. Send(c, "login", u, NoMsg, pwd) /\ ~Engaged(c, u)
    BY <1>9 DEF ClientLogin
  <2>3. \A v : Sent(c, "login", v)' => Sent(c, "login", v) \/ v = u
    BY <2>1, <2>2, SendSent
  <2>4. \A d \in Conn \ {c} : ~LogsIn(d, u)
    BY <2>1, <2>2, TryEngages DEF Ordered
  <2>5. QED BY <1>2, <1>3, <2>3, <2>4, TryKept DEF LogsIn
<1>10. QED BY <1>5, <1>6, <1>7, <1>8, <1>9 DEF ClientStep

(* A handler logs in whom its request names. *)
LEMMA Worker_Tries ==
  ASSUME TypeOK, TypeOK', Stages, Ordered, TryOnce,
         NEW c \in Conn, WorkerStep(c)
  PROVE  TryOnce'
<1>1. CASE \A d \in Conn : Same(d)
  BY <1>1, SameLogsIn DEF TryOnce
<1>2. ASSUME \A d \in Conn \ {c} : Same(d),
             \A u \in User : LogsIn(c, u)' => LogsIn(c, u)
      PROVE  TryOnce'
  BY <1>2, SameLogsIn, TryKept
<1>3. CASE onMessage(c)
  <2>1. LoginLast(c) /\ LogoutOnce(c) BY DEF Ordered, InOrder
  <2>2. /\ \A u : Sent(c, "login", u)' => Sent(c, "login", u)
        /\ Sent(c, js'[c].op, js'[c].user)
        /\ pc'[c] = js'[c].op /\ js'[c] \in Request
    BY <1>3, <2>1, ReadSent
  <2>3. js'[c].op \in LoginSteps => js'[c].op = "login"
    BY <2>2 DEF Request, LoginSteps
  <2>4. \A u \in User : LogsIn(c, u)' => LogsIn(c, u)
    BY <2>2, <2>3 DEF LogsIn, Runs
  <2>5. QED BY <1>2, <1>3, <2>4, ReadOthers
<1>4. CASE LoginStep(c)
  <2>1. /\ reqs' = reqs /\ pc[c] \in LoginSteps
        /\ pc'[c] = "idle" \/ js'[c] = js[c]
    <3>1. pc \in [Conn -> Step] BY DEF TypeOK
    <3>2. QED
      BY <1>4, <3>1 DEF LoginStep, login, login_insert, login_subscribe,
                        login_inline, login_query, login_remove, login_reply,
                        Reply, Done, Goto, At, envVars, LoginSteps
  <2>2. \A u \in User : LogsIn(c, u)' => LogsIn(c, u)
    BY <2>1 DEF LogsIn, Sent, Runs, LoginSteps
  <2>3. QED BY <1>2, <1>4, <2>2, LoginOthers
<1>5. CASE LeaveStep(c)
  <2>1. reqs'[c] \in {reqs[c], <<>>} /\ pc'[c] \notin LoginSteps
    <3> USE DEF Done, Goto, TypeOK, LoginSteps, envVars
    <3>1. CASE logout(c) \/ logout_unsubscribe(c) \/ logout_offline(c)
      BY <3>1 DEF logout, logout_unsubscribe, logout_offline
    <3>2. CASE ClientCloseException(c) BY <3>2 DEF ClientCloseException
    <3>3. CASE close_unsubscribe(c) BY <3>3 DEF close_unsubscribe, Closed
    <3>4. CASE close_offline(c) BY <3>4 DEF close_offline, Closed
    <3>5. QED BY <1>5, <3>1, <3>2, <3>3, <3>4 DEF LeaveStep
  <2>2. \A u \in User : LogsIn(c, u)' => LogsIn(c, u)
    BY <2>1 DEF LogsIn, Sent, Runs
  <2>3. QED BY <1>2, <1>5, <2>2, LeaveOthers
<1>6. CASE ChatStep(c) BY <1>1, <1>6, ChatSame
<1>7. QED BY <1>3, <1>4, <1>5, <1>6 DEF WorkerStep

(* Every step keeps that. *)
LEMMA TryOnceStep ==
  ASSUME Exclusive, TypeOK, TypeOK', Stages, Ordered, TryOnce, [Next]_vars
  PROVE  TryOnce'
<1>1. CASE \A d \in Conn : Same(d)
  BY <1>1, SameLogsIn DEF TryOnce
<1>2. ASSUME NEW s \in Server, exit(s) \/ crash(s) PROVE TryOnce'
  <2>1. ASSUME NEW d \in Conn, NEW u \in User, LogsIn(d, u)'
        PROVE  LogsIn(d, u)
    <3>1. \/ SameClient(d) /\ SameJob(d)
          \/ pc'[d] = "idle" /\ reqs'[d] = <<>>
      BY <1>2, StopSame
    <3>2. QED
      BY <2>1, <3>1 DEF LogsIn, Sent, Runs, SameClient, SameJob, LoginSteps
  <2>2. QED BY <2>1 DEF TryOnce
<1>3. ASSUME NEW s \in Server, ServerStep(s) PROVE TryOnce'
  BY <1>1, <1>2, <1>3, ServerSame DEF ServerStep
<1>4. CASE UNCHANGED vars
  BY <1>1, <1>4 DEF vars, envVars, userVars, jobVars, Same, SameClient,
                    SameSession, SameJob
<1>5. QED BY <1>3, <1>4, Client_Tries, Worker_Tries DEF Next

(* Nobody logs in at the start. *)
LEMMA InitTryOnce == Init => TryOnce
BY DEF Init, TryOnce, LogsIn, Sent, Runs, LoginSteps

(***************************************************************************)
(* Two logins of a user are never in that gap if no person uses two        *)
(* clients at a time, whatever the faults.                                 *)
(***************************************************************************)
THEOREM LoginsApartHolds ==
  ASSUME Exclusive PROVE Spec => []LoginsApart
<1>1. Init => Ordered /\ TryOnce BY InitOrdered, InitTryOnce
<1>2. TypeOK /\ TypeOK' /\ Stages /\ Ordered /\ TryOnce /\ [Next]_vars
      => Ordered' /\ TryOnce'
  BY OrderedStep, TryOnceStep
<1>3. TryOnce => LoginsApart
  BY DEF TryOnce, LoginsApart, LogsIn, Runs, BeforeInline, LoginSteps
<1>4. QED BY <1>1, <1>2, <1>3, TypesHold, PTL DEF Spec
=============================================================================
