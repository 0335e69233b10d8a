----------------------------- MODULE ChatService -----------------------------
(***************************************************************************)
(* The cluster of chat servers: the message handlers of ChatService        *)
(* (chat_service.cpp), the muduo callbacks that run them (chat_server.cpp),*)
(* the user and offline_message tables they share, and the clients.        *)
(*                                                                         *)
(* A handler runs on the loop thread of its connection; setThreadNum(6)    *)
(* spreads the connections over the loops, so handlers of two connections  *)
(* interleave and those of one connection do not.  A step of a handler is  *)
(* one access to shared state: an SQL statement, a critical section of     *)
(* _connMutex, or a Redis command.  pc[c] is the next step of the handler  *)
(* running for connection c.                                               *)
(***************************************************************************)
EXTENDS RedisBus, FiniteSets

CONSTANTS
  Conn,       \* client connections (each is opened at most once)
  NoConn, NoServer, NoMsg,
  MembersExcept, \* MembersExcept[u]: the rows of one group without u, as MySQL
                 \* returns them
  Uses,       \* Uses[c]: the users that log in at client c
  Passwords,  \* subset of BOOLEAN: may a client type a right / a wrong password
  Exclusive,  \* environment: a person uses one client at a time
  MaxBatch,   \* bound: requests that may share one read of the socket
  MaxReqs,    \* bound: requests a client has under way
  Faults,     \* subset of {"sigint", "crash"}: server faults that may happen
  MaxFaults   \* bound on their number

ASSUME ServiceAssumption ==
  /\ NoConn \notin Conn /\ NoServer \notin Server /\ NoMsg \notin Msg
  /\ MembersExcept \in [User -> Seq(User)]
  /\ \A u \in User : \A i \in DOMAIN MembersExcept[u] : MembersExcept[u][i] # u
  /\ Uses \in [Conn -> SUBSET User]
  /\ Passwords \subseteq BOOLEAN /\ Exclusive \in BOOLEAN
  /\ MaxBatch \in Nat \ {0} /\ MaxReqs \in Nat /\ MaxFaults \in Nat

VARIABLES
  \* the clients and their TCP connections
  link,         \* link[c]: "new", "open", "closed", or "dead": the peer is
                \* gone and the server has not noticed
  at,           \* at[c]: the server the balancer chose for c
  screen,       \* screen[c]: the client shows its "menu", "wait"s, or "chat"s
  me,           \* me[c]: the id typed at login, g_currentUser
  reader,       \* reader[c]: the client's read thread runs
  reqs,         \* reqs[c]: requests sent on c that the server has not read
  got,          \* got[c]: chat messages the client has been sent, in order
  \* the processes
  up,           \* up[s]: "up", "exiting" (in resetHandle), "down"
  userConnMap,  \* _userConnMap of each server
  connMutex,    \* _connMutex, when held from one step to the next
  pc, js,       \* step and request of the handler of each connection
  idvec,        \* local of groupChat: members still to serve
  vec,          \* local of login: the offline messages read
  \* the database
  state,        \* user.state
  offline,      \* offline_message
  \* history
  dest,         \* dest[m]: the users m was addressed to, {} if not yet sent
  logins,       \* logins[c]: the users c has given the right password of
  faults        \* server faults so far

envVars  == <<link, at, reqs, up, dest, faults>>
userVars == <<screen, me, reader>>
mapVars  == <<userConnMap, connMutex>>
jobVars  == <<pc, js, idvec, vec>>
dbVars   == <<state, offline>>
vars == <<envVars, userVars, got, logins, mapVars, jobVars, dbVars, busVars>>

Request == [op : {"login", "logout", "oneChat", "groupChat"}, user : Channel,
            msg : Msg \cup {NoMsg}, pwd : BOOLEAN]

ChatSteps == {"oneChat", "oneChat_query", "oneChat_publish", "oneChat_insert",
              "groupChat", "group_lock", "group_next", "group_query",
              "group_publish", "group_insert"}

SessionSteps == {"login_insert", "login_subscribe", "login_inline",
                 "login_query", "login_remove", "login_reply",
                 "logout_unsubscribe", "logout_offline",
                 "close_unsubscribe", "close_offline"}

Step == {"idle", "login", "logout"} \cup SessionSteps \cup ChatSteps

NoRequest == [op |-> "logout", user |-> NoUser, msg |-> NoMsg, pwd |-> FALSE]

TypeOK ==
  /\ BusTypeOK
  /\ link \in [Conn -> {"new", "open", "dead", "closed"}]
  /\ at \in [Conn -> Server \cup {NoServer}]
  /\ screen \in [Conn -> {"menu", "wait", "chat"}]
  /\ me \in [Conn -> Channel]
  /\ reader \in [Conn -> BOOLEAN]
  /\ reqs \in [Conn -> Seq(Request)]
  /\ got \in [Conn -> Seq(Msg)]
  /\ up \in [Server -> {"up", "exiting", "down"}]
  /\ userConnMap \in [Server -> [User -> Conn \cup {NoConn}]]
  /\ connMutex \in [Server -> Conn \cup {NoConn}]
  /\ pc \in [Conn -> Step]
  /\ js \in [Conn -> Request]
  /\ idvec \in [Conn -> Seq(User)]
  /\ vec \in [Conn -> Seq(Msg)]
  /\ state \in [User -> {"offline", "inline"}]
  /\ offline \in [User -> Seq(Msg)]
  /\ dest \in [Msg -> SUBSET User]
  /\ logins \in [Conn -> SUBSET User]
  /\ faults \in Nat

Init ==
  /\ BusInit
  /\ link = [c \in Conn |-> "new"]
  /\ at = [c \in Conn |-> NoServer]
  /\ screen = [c \in Conn |-> "menu"]
  /\ me = [c \in Conn |-> NoUser]
  /\ reader = [c \in Conn |-> FALSE]
  /\ reqs = [c \in Conn |-> <<>>]
  /\ got = [c \in Conn |-> <<>>]
  /\ up = [s \in Server |-> "up"]
  /\ userConnMap = [s \in Server |-> [u \in User |-> NoConn]]
  /\ connMutex = [s \in Server |-> NoConn]
  /\ pc = [c \in Conn |-> "idle"]
  /\ js = [c \in Conn |-> NoRequest]
  /\ idvec = [c \in Conn |-> <<>>]
  /\ vec = [c \in Conn |-> <<>>]
  /\ state = [u \in User |-> "offline"]
  /\ offline = [u \in User |-> <<>>]
  /\ dest = [m \in Msg |-> {}]
  /\ logins = [c \in Conn |-> {}]
  /\ faults = 0

-----------------------------------------------------------------------------
(* The client program (client/main.cpp) and the balancer in front.         *)

Connect(c) ==
  /\ link[c] = "new"
  /\ \E s \in Server : up[s] = "up" /\ at' = [at EXCEPT ![c] = s]
  /\ link' = [link EXCEPT ![c] = "open"]
  /\ UNCHANGED <<me, reqs, up, dest, faults, screen, reader, got, logins,
                 mapVars, jobVars, dbVars, busVars>>

Send(c, op, u, m, pwd) ==
  /\ link[c] = "open" /\ Len(reqs[c]) < MaxReqs
  /\ reqs' = [reqs EXCEPT ![c] =
                Append(@, [op |-> op, user |-> u, msg |-> m, pwd |-> pwd])]
  /\ UNCHANGED <<link, at, up, faults, got, logins, mapVars, jobVars, dbVars,
                 busVars>>

(* The person behind u is at another client, or has lost a connection that *)
(* its server has not closed yet.                                          *)
Engaged(c, u) ==
  \E d \in Conn \ {c} : u \in Uses[d] /\ (me[d] = u \/ link[d] = "dead")

ClientLogin(c, u, pwd) ==
  /\ screen[c] = "menu" /\ (Exclusive => ~Engaged(c, u))
  /\ Send(c, "login", u, NoMsg, pwd)
  /\ screen' = [screen EXCEPT ![c] = "wait"]
  /\ me' = [me EXCEPT ![c] = u]
  /\ UNCHANGED <<dest, reader>>

ClientLogout(c) ==
  /\ screen[c] = "chat"
  /\ Send(c, "logout", me[c], NoMsg, FALSE)
  /\ screen' = [screen EXCEPT ![c] = "menu"]
  /\ me' = [me EXCEPT ![c] = NoUser]
  /\ UNCHANGED <<dest, reader>>

ClientChat(c, u, m) ==
  /\ screen[c] = "chat" /\ dest[m] = {}
  /\ Send(c, "oneChat", u, m, FALSE)
  /\ dest' = [dest EXCEPT ![m] = {u}]
  /\ UNCHANGED userVars

Members(u) == {MembersExcept[u][i] : i \in DOMAIN MembersExcept[u]}

(* A message to a group without other members is addressed to nobody. *)
ClientGroupChat(c, m) ==
  /\ screen[c] = "chat" /\ dest[m] = {} /\ Members(me[c]) # {}
  /\ Send(c, "groupChat", me[c], m, FALSE)
  /\ dest' = [dest EXCEPT ![m] = Members(me[c])]
  /\ UNCHANGED userVars

(* The client quits, is killed, or its network fails. *)
ClientGone(c) ==
  /\ link[c] = "open"
  /\ link' = [link EXCEPT ![c] = "dead"]
  /\ me' = [me EXCEPT ![c] = NoUser]
  /\ screen' = [screen EXCEPT ![c] = "menu"]
  /\ reader' = [reader EXCEPT ![c] = FALSE]
  /\ UNCHANGED <<at, reqs, up, dest, faults, got, logins, mapVars, jobVars,
                 dbVars, busVars>>

-----------------------------------------------------------------------------
(* Helpers of the handlers.                                                *)

Alive(c) == link[c] \in {"open", "dead"}
Free(c)  == connMutex[at[c]] = NoConn
Here(c)  == userConnMap[at[c]]

At(c, step) == Alive(c) /\ pc[c] = step
Goto(c, step) == pc' = [pc EXCEPT ![c] = step]

(* The handler returns, and its locals are gone. *)
Done(c) == Goto(c, "idle") /\ js' = [js EXCEPT ![c] = NoRequest]

(* conn->send: a connection whose peer is gone swallows what it is sent. *)
Push(c, ms) ==
  got' = IF link[c] = "open" THEN [got EXCEPT ![c] = @ \o ms] ELSE got

Erase(s, U) ==
  userConnMap' = [userConnMap EXCEPT ![s] =
                    [u \in User |-> IF u \in U THEN NoConn ELSE @[u]]]

SetState(u, st) == state' = [state EXCEPT ![u] = st]
StoreOffline(u, m) == offline' = [offline EXCEPT ![u] = Append(@, m)]

(***************************************************************************)
(* ChatServer::onMessage.  One read takes all n requests that have         *)
(* arrived; json::parse stops at the '\0' that ends the first of them, so  *)
(* only that one is handled.                                               *)
(***************************************************************************)
onMessage(c) ==
  /\ At(c, "idle") /\ reqs[c] # <<>>
  /\ \E n \in 1..MaxBatch :
       /\ n <= Len(reqs[c])
       /\ reqs' = [reqs EXCEPT ![c] = SubSeq(@, n + 1, Len(@))]
  /\ js' = [js EXCEPT ![c] = Head(reqs[c])]
  /\ Goto(c, Head(reqs[c]).op)
  /\ UNCHANGED <<link, at, me, up, dest, faults, screen, reader, got, logins,
                 mapVars, idvec, vec, dbVars, busVars>>

-----------------------------------------------------------------------------
(* ChatService::login                                                      *)

(***************************************************************************)
(* conn->send of the answer.  The client's main thread waits for it in     *)
(* recv and takes its user u from it, NoUser if it is refused.  A first    *)
(* success starts the read thread, which never stops: from then on both    *)
(* threads wait in recv, and the one that is not main drops the answer     *)
(* (ChatClient has the two threads).  A client that is gone sees nothing.  *)
(***************************************************************************)
Reply(c, scr, u) ==
  /\ \/ /\ link[c] = "open"
        /\ screen' = [screen EXCEPT ![c] = scr]
        /\ me' = [me EXCEPT ![c] = u]
        /\ reader' = [reader EXCEPT ![c] = @ \/ scr = "chat"]
     \/ (link[c] # "open" \/ reader[c]) /\ UNCHANGED userVars
  /\ Done(c)

(* Mutant: a repeated login is refused without an answer. *)
login_Silent(c) ==
  /\ At(c, "login")
  /\ logins' = [logins EXCEPT ![c] = @ \cup {js[c].user}]
  /\ IF js[c].pwd /\ state[js[c].user] = "offline"
     THEN Goto(c, "login_insert") /\ UNCHANGED <<userVars, js>>
     ELSE Done(c) /\ UNCHANGED userVars
  /\ UNCHANGED <<envVars, got, mapVars, idvec, vec, dbVars, busVars>>

(* UserModule::query and the checks on its row; errno 1 and 2 end here. *)
login(c) ==
  /\ At(c, "login")
  /\ IF js[c].pwd
     THEN /\ logins' = [logins EXCEPT ![c] = @ \cup {js[c].user}]
          /\ IF state[js[c].user] = "offline"
             THEN Goto(c, "login_insert") /\ UNCHANGED <<userVars, js>>
             ELSE Reply(c, "menu", NoUser)
     ELSE Reply(c, "menu", NoUser) /\ UNCHANGED logins
  /\ UNCHANGED <<envVars, got, mapVars, idvec, vec, dbVars, busVars>>

(* unordered_map::insert keeps an entry that is already there. *)
login_insert(c) ==
  /\ At(c, "login_insert") /\ Free(c)
  /\ userConnMap' = [userConnMap EXCEPT ![at[c]][js[c].user] =
                        IF @ = NoConn THEN c ELSE @]
  /\ Goto(c, "login_subscribe")
  /\ UNCHANGED <<envVars, userVars, got, logins, connMutex, js, idvec, vec,
                 dbVars, busVars>>

login_subscribe(c) ==
  /\ At(c, "login_subscribe")
  /\ subscribe(at[c], js[c].user)
  /\ Goto(c, "login_inline")
  /\ UNCHANGED <<envVars, userVars, got, logins, mapVars, js, idvec, vec,
                 dbVars>>

login_inline(c) ==
  /\ At(c, "login_inline")
  /\ SetState(js[c].user, "inline")
  /\ Goto(c, "login_query")
  /\ UNCHANGED <<envVars, userVars, got, logins, mapVars, js, idvec, vec,
                 offline, busVars>>

(* Mutant: the messages are removed before they are read. *)
login_query_AfterRemove(c) ==
  /\ At(c, "login_query")
  /\ vec' = [vec EXCEPT ![c] = <<>>]
  /\ offline' = [offline EXCEPT ![js[c].user] = <<>>]
  /\ Goto(c, "login_reply")
  /\ UNCHANGED <<envVars, userVars, got, logins, mapVars, js, idvec, state,
                 busVars>>

(* OfflineMsgModule::query, then OfflineMsgModule::remove if it found any. *)
login_query(c) ==
  /\ At(c, "login_query")
  /\ vec' = [vec EXCEPT ![c] = offline[js[c].user]]
  /\ Goto(c, IF vec'[c] = <<>> THEN "login_reply" ELSE "login_remove")
  /\ UNCHANGED <<envVars, userVars, got, logins, mapVars, js, idvec, dbVars,
                 busVars>>

(* Mutant: the messages are not removed once they are read. *)
login_remove_Skipped(c) ==
  /\ At(c, "login_remove")
  /\ Goto(c, "login_reply")
  /\ UNCHANGED <<envVars, userVars, got, logins, mapVars, js, idvec, vec,
                 dbVars, busVars>>

login_remove(c) ==
  /\ At(c, "login_remove")
  /\ offline' = [offline EXCEPT ![js[c].user] = <<>>]
  /\ Goto(c, "login_reply")
  /\ UNCHANGED <<envVars, userVars, got, logins, mapVars, js, idvec, vec,
                 state, busVars>>

(* Mutant: an empty record is sent when there are no messages. *)
login_reply_Empty(c) ==
  /\ At(c, "login_reply")
  /\ Push(c, IF vec[c] = <<>> THEN <<NoMsg>> ELSE vec[c])
  /\ Reply(c, "chat", js[c].user)
  /\ vec' = [vec EXCEPT ![c] = <<>>]
  /\ UNCHANGED <<envVars, logins, mapVars, idvec, dbVars, busVars>>

(* The friend and group queries only read; errno 0 goes out with vec. *)
login_reply(c) ==
  /\ At(c, "login_reply")
  /\ Push(c, vec[c])
  /\ Reply(c, "chat", js[c].user)
  /\ vec' = [vec EXCEPT ![c] = <<>>]
  /\ UNCHANGED <<envVars, logins, mapVars, idvec, dbVars, busVars>>

-----------------------------------------------------------------------------
(* ChatService::logout                                                     *)

(* Mutant: the entry of the map is left. *)
logout_KeepsEntry(c) ==
  /\ At(c, "logout") /\ Free(c)
  /\ Goto(c, "logout_unsubscribe")
  /\ UNCHANGED <<envVars, userVars, got, logins, mapVars, js, idvec, vec,
                 dbVars, busVars>>

(* Mutant: the database is updated first, not last. *)
logout_OfflineFirst(c) ==
  /\ At(c, "logout") /\ Free(c)
  /\ Erase(at[c], {js[c].user})
  /\ SetState(js[c].user, "offline")
  /\ Goto(c, "logout_unsubscribe")
  /\ UNCHANGED <<envVars, userVars, got, logins, connMutex, js, idvec, vec,
                 offline, busVars>>

logout(c) ==
  /\ At(c, "logout") /\ Free(c)
  /\ Erase(at[c], {js[c].user})
  /\ Goto(c, "logout_unsubscribe")
  /\ UNCHANGED <<envVars, userVars, got, logins, connMutex, js, idvec, vec,
                 dbVars, busVars>>

logout_unsubscribe(c) ==
  /\ At(c, "logout_unsubscribe")
  /\ unsubscribe(at[c], js[c].user)
  /\ Goto(c, "logout_offline")
  /\ UNCHANGED <<envVars, userVars, got, logins, mapVars, js, idvec, vec,
                 dbVars>>

logout_offline(c) ==
  /\ At(c, "logout_offline")
  /\ SetState(js[c].user, "offline")
  /\ Done(c)
  /\ UNCHANGED <<envVars, userVars, got, logins, mapVars, idvec, vec, offline,
                 busVars>>

-----------------------------------------------------------------------------
(* ChatServer::onConnection and ChatService::ClientCloseException          *)

(* Mutant: the id is looked up, the entry is not erased. *)
ClientCloseException_KeepsEntry(c) ==
  /\ link[c] = "dead" /\ pc[c] = "idle" /\ Free(c)
  /\ \E last \in Channel :
       /\ IF \A u \in User : Here(c)[u] # c
          THEN last = NoUser ELSE last \in User /\ Here(c)[last] = c
       /\ js' = [js EXCEPT ![c] = [NoRequest EXCEPT !.user = last]]
  /\ reqs' = [reqs EXCEPT ![c] = <<>>]
  /\ Goto(c, "close_unsubscribe")
  /\ UNCHANGED <<link, at, me, up, dest, faults, screen, reader, got, logins,
                 mapVars, idvec, vec, dbVars, busVars>>

(***************************************************************************)
(* The loop increments an iterator it has just erased.  Depending on what  *)
(* the freed node holds, the loop ends there, goes on with other entries,  *)
(* or crashes (see crash): it erases some of the connection's entries and  *)
(* keeps the id of the last one.  Requests not yet read are lost.          *)
(***************************************************************************)
ClientCloseException(c) ==
  /\ link[c] = "dead" /\ pc[c] = "idle" /\ Free(c)
  /\ \E E \in SUBSET {u \in User : Here(c)[u] = c}, last \in Channel :
       /\ (E = {}) = (\A u \in User : Here(c)[u] # c)
       /\ IF E = {} THEN last = NoUser ELSE last \in E
       /\ Erase(at[c], E)
       /\ js' = [js EXCEPT ![c] = [NoRequest EXCEPT !.user = last]]
  /\ reqs' = [reqs EXCEPT ![c] = <<>>]
  /\ Goto(c, "close_unsubscribe")
  /\ UNCHANGED <<link, at, me, up, dest, faults, screen, reader, got, logins,
                 connMutex, idvec, vec, dbVars, busVars>>

Closed(c) == link' = [link EXCEPT ![c] = "closed"] /\ Done(c)

(* Mutant: the channel is left subscribed. *)
close_unsubscribe_Skipped(c) ==
  /\ At(c, "close_unsubscribe")
  /\ IF js[c].user = NoUser
     THEN Closed(c)
     ELSE Goto(c, "close_offline") /\ UNCHANGED <<link, js>>
  /\ UNCHANGED <<at, me, reqs, up, dest, faults, screen, reader, got, logins,
                 mapVars, idvec, vec, dbVars, busVars>>

(* Mutant: the handler ends before it updates the database. *)
close_unsubscribe_Ends(c) ==
  /\ At(c, "close_unsubscribe")
  /\ unsubscribe(at[c], js[c].user)
  /\ Closed(c)
  /\ UNCHANGED <<at, me, reqs, up, dest, faults, screen, reader, got, logins,
                 mapVars, idvec, vec, dbVars>>

close_unsubscribe(c) ==
  /\ At(c, "close_unsubscribe")
  /\ unsubscribe(at[c], js[c].user)
  /\ IF js[c].user = NoUser
     THEN Closed(c)
     ELSE Goto(c, "close_offline") /\ UNCHANGED <<link, js>>
  /\ UNCHANGED <<at, me, reqs, up, dest, faults, screen, reader, got, logins,
                 mapVars, idvec, vec, dbVars>>

close_offline(c) ==
  /\ At(c, "close_offline")
  /\ SetState(js[c].user, "offline")
  /\ Closed(c)
  /\ UNCHANGED <<at, me, reqs, up, dest, faults, screen, reader, got, logins,
                 mapVars, idvec, vec, offline, busVars>>

-----------------------------------------------------------------------------
(* ChatService::oneChat                                                    *)

oneChat(c) ==
  /\ At(c, "oneChat") /\ Free(c)
  /\ LET d == Here(c)[js[c].user] IN
       IF d # NoConn
       THEN Push(d, <<js[c].msg>>) /\ Done(c)
       ELSE Goto(c, "oneChat_query") /\ UNCHANGED <<got, js>>
  /\ UNCHANGED <<envVars, userVars, logins, mapVars, idvec, vec, dbVars,
                 busVars>>

(* Mutant: the message is published without a look at the state. *)
oneChat_query_NoCheck(c) ==
  /\ At(c, "oneChat_query")
  /\ Goto(c, "oneChat_publish")
  /\ UNCHANGED <<envVars, userVars, got, logins, mapVars, js, idvec, vec,
                 dbVars, busVars>>

oneChat_query(c) ==
  /\ At(c, "oneChat_query")
  /\ Goto(c, IF state[js[c].user] = "inline"
             THEN "oneChat_publish" ELSE "oneChat_insert")
  /\ UNCHANGED <<envVars, userVars, got, logins, mapVars, js, idvec, vec,
                 dbVars, busVars>>

oneChat_publish(c) ==
  /\ At(c, "oneChat_publish")
  /\ publish(js[c].user, js[c].msg)
  /\ Done(c)
  /\ UNCHANGED <<envVars, userVars, got, logins, mapVars, idvec, vec, dbVars>>

(* Mutant: id and toid are mixed up. *)
oneChat_insert_Swapped(c) ==
  /\ At(c, "oneChat_insert")
  /\ StoreOffline(me[c], js[c].msg)
  /\ Done(c)
  /\ UNCHANGED <<envVars, userVars, got, logins, mapVars, idvec, vec, state,
                 busVars>>

oneChat_insert(c) ==
  /\ At(c, "oneChat_insert")
  /\ StoreOffline(js[c].user, js[c].msg)
  /\ Done(c)
  /\ UNCHANGED <<envVars, userVars, got, logins, mapVars, idvec, vec, state,
                 busVars>>

-----------------------------------------------------------------------------
(* ChatService::groupChat                                                  *)

(* GroupModule::queryGroupUsers: the members except the sender. *)
groupChat(c) ==
  /\ At(c, "groupChat")
  /\ idvec' = [idvec EXCEPT ![c] = MembersExcept[js[c].user]]
  /\ Goto(c, "group_lock")
  /\ UNCHANGED <<envVars, userVars, got, logins, mapVars, js, vec, dbVars,
                 busVars>>

group_lock(c) ==
  /\ At(c, "group_lock") /\ Free(c)
  /\ connMutex' = [connMutex EXCEPT ![at[c]] = c]
  /\ Goto(c, "group_next")
  /\ UNCHANGED <<envVars, userVars, got, logins, userConnMap, js, idvec, vec,
                 dbVars, busVars>>

(* The lock_guard goes out of scope. *)
Unlock(c) ==
  /\ connMutex' = [connMutex EXCEPT ![at[c]] = NoConn]
  /\ idvec' = [idvec EXCEPT ![c] = <<>>]
  /\ Done(c)

NextMember(c) == idvec' = [idvec EXCEPT ![c] = Tail(@)] /\ UNCHANGED connMutex

(* One iteration of the loop, up to the lookup of the member in the map. *)
group_next(c) ==
  /\ At(c, "group_next")
  /\ IF idvec[c] = <<>>
     THEN Unlock(c) /\ UNCHANGED got
     ELSE LET d == Here(c)[Head(idvec[c])] IN
          IF d # NoConn
          THEN Push(d, <<js[c].msg>>) /\ NextMember(c) /\ UNCHANGED <<pc, js>>
          ELSE Goto(c, "group_query") /\ UNCHANGED <<got, idvec, connMutex,
                                                     js>>
  /\ UNCHANGED <<envVars, userVars, logins, userConnMap, vec, dbVars, busVars>>

group_query(c) ==
  /\ At(c, "group_query")
  /\ Goto(c, IF state[Head(idvec[c])] = "inline"
             THEN "group_publish" ELSE "group_insert")
  /\ UNCHANGED <<envVars, userVars, got, logins, mapVars, js, idvec, vec,
                 dbVars, busVars>>

(* Mutant: the mutex is unlocked by hand and this return forgets to. *)
group_publish_KeepsLock(c) ==
  /\ At(c, "group_publish")
  /\ publish(Head(idvec[c]), js[c].msg)
  /\ idvec' = [idvec EXCEPT ![c] = <<>>]
  /\ Done(c)
  /\ UNCHANGED <<envVars, userVars, got, logins, mapVars, vec, dbVars>>

(* The loop returns after the first member that is published to. *)
group_publish(c) ==
  /\ At(c, "group_publish")
  /\ publish(Head(idvec[c]), js[c].msg)
  /\ Unlock(c)
  /\ UNCHANGED <<envVars, userVars, got, logins, userConnMap, vec, dbVars>>

group_insert(c) ==
  /\ At(c, "group_insert")
  /\ StoreOffline(Head(idvec[c]), js[c].msg)
  /\ NextMember(c)
  /\ Goto(c, "group_next")
  /\ UNCHANGED <<envVars, userVars, got, logins, userConnMap, js, vec, state,
                 busVars>>

-----------------------------------------------------------------------------
(* The observer thread: ChatService::handleRedisSubscribeMessage           *)

handleRedisSubscribeMessage(s) ==
  /\ up[s] # "down" /\ connMutex[s] = NoConn
  /\ TakeNotice(s)
  /\ LET n == Head(inbox[s])
         d == userConnMap[s][n.channel] IN
       IF d # NoConn
       THEN Push(d, <<n.msg>>) /\ UNCHANGED offline
       ELSE StoreOffline(n.channel, n.msg) /\ UNCHANGED got
  /\ UNCHANGED <<envVars, userVars, logins, mapVars, jobVars, state>>

-----------------------------------------------------------------------------
(* Server processes stop and start.                                        *)

(***************************************************************************)
(* SIGINT: resetHandle resets every inline user of the database, then      *)
(* exits; the other threads of the process run on until it has.            *)
(***************************************************************************)
resetHandle(s) ==
  /\ "sigint" \in Faults /\ faults < MaxFaults /\ up[s] = "up"
  /\ state' = [u \in User |-> "offline"]
  /\ up' = [up EXCEPT ![s] = "exiting"]
  /\ faults' = faults + 1
  /\ UNCHANGED <<link, at, me, reqs, dest, screen, reader, got, logins,
                 mapVars, jobVars, offline, busVars>>

Victims(s) == {c \in Conn : at[c] = s /\ Alive(c)}

(* The process of s is gone, and with it its memory and its connections. *)
Stop(s) ==
  /\ up' = [up EXCEPT ![s] = "down"]
  /\ link' = [c \in Conn |-> IF c \in Victims(s) THEN "closed" ELSE link[c]]
  /\ pc' = [c \in Conn |-> IF c \in Victims(s) THEN "idle" ELSE pc[c]]
  /\ reqs' = [c \in Conn |-> IF c \in Victims(s) THEN <<>> ELSE reqs[c]]
  /\ idvec' = [c \in Conn |-> IF c \in Victims(s) THEN <<>> ELSE idvec[c]]
  /\ vec' = [c \in Conn |-> IF c \in Victims(s) THEN <<>> ELSE vec[c]]
  /\ userConnMap' = [userConnMap EXCEPT ![s] = [u \in User |-> NoConn]]
  /\ connMutex' = [connMutex EXCEPT ![s] = NoConn]
  /\ Detach(s)
  /\ js' = [c \in Conn |-> IF c \in Victims(s) THEN NoRequest ELSE js[c]]
  /\ me' = [c \in Conn |-> IF c \in Victims(s) THEN NoUser ELSE me[c]]
  /\ screen' = [c \in Conn |-> IF c \in Victims(s) THEN "menu" ELSE screen[c]]
  /\ reader' = [c \in Conn |-> c \notin Victims(s) /\ reader[c]]
  /\ UNCHANGED <<at, dest, got, logins, dbVars>>

exit(s) == up[s] = "exiting" /\ Stop(s) /\ UNCHANGED faults

(***************************************************************************)
(* kill -9, an uncaught exception, a null connection from the pool, or the *)
(* stale iterator of ClientCloseException.                                 *)
(***************************************************************************)
crash(s) ==
  /\ "crash" \in Faults /\ faults < MaxFaults /\ up[s] # "down"
  /\ Stop(s)
  /\ faults' = faults + 1

restart(s) ==
  /\ up[s] = "down"
  /\ up' = [up EXCEPT ![s] = "up"]
  /\ UNCHANGED <<link, at, me, reqs, dest, faults, screen, reader, got, logins,
                 mapVars, jobVars, dbVars, busVars>>

-----------------------------------------------------------------------------
ClientStep(c) ==
  \/ Connect(c) \/ ClientLogout(c) \/ ClientGone(c)
  \/ \E u \in Uses[c], pwd \in Passwords : ClientLogin(c, u, pwd)
  \/ \E u \in User, m \in Msg : ClientChat(c, u, m)
  \/ \E m \in Msg : ClientGroupChat(c, m)

LoginStep(c) ==
  \/ login(c) \/ login_insert(c) \/ login_subscribe(c) \/ login_inline(c)
  \/ login_query(c) \/ login_remove(c) \/ login_reply(c)

LeaveStep(c) ==
  \/ logout(c) \/ logout_unsubscribe(c) \/ logout_offline(c)
  \/ ClientCloseException(c) \/ close_unsubscribe(c) \/ close_offline(c)

ChatStep(c) ==
  \/ oneChat(c) \/ oneChat_query(c) \/ oneChat_publish(c) \/ oneChat_insert(c)
  \/ groupChat(c) \/ group_lock(c) \/ group_next(c) \/ group_query(c)
  \/ group_publish(c) \/ group_insert(c)

WorkerStep(c) == onMessage(c) \/ LoginStep(c) \/ LeaveStep(c) \/ ChatStep(c)

RedisStep(s) ==
  RedisExecute(s) /\ UNCHANGED <<envVars, userVars, got, logins, mapVars,
                                 jobVars, dbVars>>

ServerStep(s) ==
  \/ handleRedisSubscribeMessage(s) \/ RedisStep(s)
  \/ resetHandle(s) \/ exit(s) \/ crash(s) \/ restart(s)

Next ==
  \/ \E c \in Conn : ClientStep(c) \/ WorkerStep(c)
  \/ \E s \in Server : ServerStep(s)

Spec == Init /\ [][Next]_vars

(***************************************************************************)
(* Threads that have work run: the loop thread of each connection, the     *)
(* observer of each server, and Redis.  A thread blocked by the bound on   *)
(* the subscribe socket gets its turn to write, however busy the others    *)
(* keep it.  People and faults owe nothing.                                *)
(***************************************************************************)
WriteStep(c) ==
  login_subscribe(c) \/ logout_unsubscribe(c) \/ close_unsubscribe(c)

FairSpec ==
  /\ Spec
  /\ \A c \in Conn : WF_vars(WorkerStep(c)) /\ SF_vars(WriteStep(c))
  /\ \A s \in Server : WF_vars(handleRedisSubscribeMessage(s))
  /\ \A s \in Server : WF_vars(RedisStep(s))

-----------------------------------------------------------------------------
(* Properties                                                              *)

InSeq(x, q) == \E i \in DOMAIN q : q[i] = x

(* u's registration is between two of the three stores that record it. *)
Moving(u) ==
  \/ \E c \in Conn : /\ js[c].user = u
                     /\ pc[c] \in {"login_subscribe", "login_inline",
                                  "logout_unsubscribe", "logout_offline",
                                  "close_unsubscribe", "close_offline"}
  \/ \E s \in Server : \E i \in DOMAIN cmds[s] : cmds[s][i].channel = u

(***************************************************************************)
(* RegistryAgreement: whenever no login, logout or close of u is under way *)
(* the database, the servers' _userConnMap and Redis tell the same story:  *)
(* u is offline, mapped nowhere and subscribed nowhere, or u is inline and *)
(* exactly one server has both its connection and its channel.  oneChat    *)
(* and groupChat route by all three and never compare them.                *)
(***************************************************************************)
RegistryAgreement ==
  \A u \in User : ~Moving(u) =>
    \/ /\ state[u] = "offline" /\ subs[u] = {}
       /\ \A s \in Server : userConnMap[s][u] = NoConn
    \/ /\ state[u] = "inline"
       /\ \E s \in Server :
            /\ subs[u] = {s} /\ userConnMap[s][u] # NoConn
            /\ \A r \in Server \ {s} : userConnMap[r][u] = NoConn

(* Connections between passing login's check for u and setting u offline. *)
Sessions(u) ==
  {c \in Conn : \/ \E s \in Server : userConnMap[s][u] = c
                \/ js[c].user = u /\ pc[c] \in SessionSteps}

(***************************************************************************)
(* OneSession: login's check that u is offline admits one connection at a  *)
(* time; the next one gets in only after the last one has set u offline.   *)
(***************************************************************************)
OneSession ==
  \A u \in User : \A c, d \in Sessions(u) : c = d

(***************************************************************************)
(* MapSound: an entry of _userConnMap points to a connection of that       *)
(* server that is not closed, for a user who logged in on it, and no       *)
(* connection has two entries, so the erasing loop of ClientCloseException *)
(* has at most one to erase.                                               *)
(***************************************************************************)
MapSound ==
  \A s \in Server : \A u, v \in User : \A c \in Conn :
    userConnMap[s][u] = c =>
      /\ at[c] = s /\ Alive(c) /\ u \in logins[c]
      /\ userConnMap[s][v] = c => u = v

(***************************************************************************)
(* NoMisdelivery: a chat message only ever reaches a connection on which   *)
(* one of the users it was addressed to has given the right password,      *)
(* whichever of the direct, Redis and offline paths it took.               *)
(***************************************************************************)
NoMisdelivery ==
  \A c \in Conn : \A i \in DOMAIN got[c] : dest[got[c][i]] \cap logins[c] # {}

Copies(m, c) == {<<c, i>> : i \in {j \in DOMAIN got[c] : got[c][j] = m}}

Received(m) == UNION {Copies(m, c) : c \in Conn}

(***************************************************************************)
(* AtMostOnce: no addressee is sent a message twice.  The copies of it can *)
(* be given to its addressees, each to one of its own, who has given the   *)
(* right password on the client that has it.                               *)
(***************************************************************************)
AtMostOnce ==
  \A m \in Msg : \E f \in [Received(m) -> dest[m]] :
    /\ \A x, y \in Received(m) : f[x] = f[y] => x = y
    /\ \A x \in Received(m) : f[x] \in logins[x[1]]

(***************************************************************************)
(* LoginAnswered: a client that waits for the answer to a login, its read  *)
(* thread not started yet, gets one (or is gone): every path through login *)
(* and its refusals sends one.  Nothing is claimed of the logins after a   *)
(* client's first success: their answer may go to the read thread.         *)
(***************************************************************************)
LoginAnswered ==
  \A c \in Conn :
    (screen[c] = "wait" /\ ~reader[c]) ~> (screen[c] # "wait")

(***************************************************************************)
(* HandlersFinish: no handler waits for _connMutex for ever.               *)
(***************************************************************************)
HandlersFinish == \A c \in Conn : (pc[c] # "idle") ~> (pc[c] = "idle")

Queued(m) == \E c \in Conn : /\ link[c] = "open"
                            /\ \E i \in DOMAIN reqs[c] : reqs[c][i].msg = m
Landed(m, u) == \/ InSeq(m, offline[u])
                \/ \E c \in Conn : u \in logins[c] /\ InSeq(m, got[c])
Quiet(u) == ~Moving(u) /\ \A c \in Conn : link[c] # "dead"

(***************************************************************************)
(* ChatLands: a message to a user whose registration does not change from  *)
(* the moment it is sent is delivered to him or stored for him.            *)
(***************************************************************************)
ChatLands ==
  \A m \in Msg, u \in User :
    []((Queued(m) /\ u \in dest[m] /\ []Quiet(u)) => <>Landed(m, u))

(***************************************************************************)
(* InlineHasConnection: a user whom the database shows inline has logged   *)
(* in on a connection that is not closed: whatever ends a connection also  *)
(* resets its users, and none of them is locked out as already logged in.  *)
(***************************************************************************)
InlineHasConnection ==
  \A u \in User : state[u] = "inline" =>
    \E c \in Conn : Alive(c) /\ u \in logins[c]

(***************************************************************************)
(* RegisteredIsInline: a user in the map of a running server, with no      *)
(* login, logout or close of his under way, is inline in the database, so  *)
(* the other servers publish to him and do not store his messages.         *)
(***************************************************************************)
RegisteredIsInline ==
  \A s \in Server, u \in User :
    up[s] = "up" /\ userConnMap[s][u] # NoConn /\ ~Moving(u)
      => state[u] = "inline"

(***************************************************************************)
(* OnlyReadIsRemoved: a message leaves the offline_message table only if   *)
(* the login that removes it has read it.                                  *)
(***************************************************************************)
OnlyReadIsRemoved ==
  [][\A u \in User, m \in Msg :
       InSeq(m, offline[u]) /\ ~InSeq(m, offline'[u]) =>
         \E c \in Conn : js[c].user = u /\ InSeq(m, vec[c])]_vars

(***************************************************************************)
(* OfflineDelivered: what is stored for u when login reads the table is    *)
(* sent to that client, unless it is gone by then.  (Which of its threads  *)
(* takes the answer that carries it, ChatClient models.)                   *)
(***************************************************************************)
OfflineDelivered ==
  \A c \in Conn : \A u \in Uses[c], m \in Msg :
    (pc[c] = "login_query" /\ js[c].user = u /\ InSeq(m, offline[u]))
      ~> (InSeq(m, got[c]) \/ link[c] # "open")
=============================================================================
