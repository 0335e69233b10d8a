-------------------------- MODULE ChatServiceTypes --------------------------
(***************************************************************************)
(* Proof that every reachable state of ChatService has the types its code  *)
(* relies on.  TypeOK alone is not inductive: a handler publishes and      *)
(* stores what js carries, so js must hold a user and a message by then.   *)
(* Stages says what the step of a handler implies about its locals.        *)
(***************************************************************************)
EXTENDS ChatServiceMail, TLAPS

LoginSteps == {"login", "login_insert", "login_subscribe", "login_inline",
               "login_query", "login_remove", "login_reply"}
LogoutSteps == {"logout", "logout_unsubscribe", "logout_offline"}

(* A connection that was opened has a server. *)
Placed == \A c \in Conn : link[c] # "new" => at[c] \in Server

(* A request names a user, and a chat request carries a message. *)
WellFormed(r) ==
  /\ r.user \in User
  /\ r.op \in {"oneChat", "groupChat"} => r.msg \in Msg

Formed == \A c \in Conn : \A i \in DOMAIN reqs[c] : WellFormed(reqs[c][i])

(* So does the request of a handler, up to the handler's end. *)
UserKnown ==
  \A c \in Conn : pc[c] \in LoginSteps \cup LogoutSteps \cup ChatSteps
                    => js[c].user \in User
MsgKnown == \A c \in Conn : pc[c] \in ChatSteps => js[c].msg \in Msg

(* groupChat is at a member when it looks for one. *)
MemberLeft == \A c \in Conn : pc[c] \in MemberSteps => idvec[c] # <<>>

(* The client in a chat is somebody. *)
Shown == \A c \in Conn : screen[c] = "chat" => me[c] \in User

Stages ==
  Placed /\ Formed /\ UserKnown /\ MsgKnown /\ MemberLeft /\ Shown

(* The initial state is typed. *)
LEMMA InitType == Init => TypeOK /\ Stages
BY ServiceAssumption, BusAssumption
   DEF Init, TypeOK, BusInit, BusTypeOK, Channel, Request, NoRequest, Step,
       Stages, Placed, Formed, UserKnown, MsgKnown, MemberLeft, Shown,
       LoginSteps, LogoutSteps, MemberSteps, ChatSteps, SessionSteps

-----------------------------------------------------------------------------
(* The operators the handlers are built from.                              *)

(* A request a client sends has the fields of a request. *)
LEMMA SendType ==
  ASSUME TypeOK, NEW c \in Conn,
         NEW op \in {"login", "logout", "oneChat", "groupChat"},
         NEW u \in Channel, NEW m \in Msg \cup {NoMsg}, NEW pwd \in BOOLEAN,
         Send(c, op, u, m, pwd)
  PROVE  reqs' \in [Conn -> Seq(Request)]
<1>1. [op |-> op, user |-> u, msg |-> m, pwd |-> pwd] \in Request
  BY DEF Request
<1>2. QED BY <1>1 DEF TypeOK, Send

(* The request of a connection without a handler is typed. *)
LEMMA NoRequestType == NoRequest \in Request
BY DEF NoRequest, Request, Channel

(* The end of a handler leaves a step and a request. *)
LEMMA DoneType ==
  ASSUME TypeOK, NEW c \in Conn, Done(c)
  PROVE  pc' \in [Conn -> Step] /\ js' \in [Conn -> Request]
BY NoRequestType DEF TypeOK, Done, Goto, Step

(* An answer leaves what the client shows and the handler typed. *)
LEMMA ReplyType ==
  ASSUME TypeOK, NEW c \in Conn, NEW scr \in {"menu", "wait", "chat"},
         NEW u \in Channel,
         Reply(c, scr, u)
  PROVE  /\ screen' \in [Conn -> {"menu", "wait", "chat"}]
         /\ me' \in [Conn -> Channel]
         /\ reader' \in [Conn -> BOOLEAN]
         /\ pc' \in [Conn -> Step]
         /\ js' \in [Conn -> Request]
<1>1. /\ screen' \in [Conn -> {"menu", "wait", "chat"}]
      /\ me' \in [Conn -> Channel]
  <2>1. CASE /\ screen' = [screen EXCEPT ![c] = scr]
             /\ me' = [me EXCEPT ![c] = u]
    BY <2>1 DEF TypeOK
  <2>2. CASE screen' = screen /\ me' = me BY <2>2 DEF TypeOK
  <2>3. QED BY <2>1, <2>2 DEF Reply, userVars
<1>2. reader' \in [Conn -> BOOLEAN]
  <2>1. CASE reader' = [reader EXCEPT ![c] = @ \/ scr = "chat"]
    <3>1. (reader[c] \/ scr = "chat") \in BOOLEAN BY Zenon
    <3>2. QED BY <2>1, <3>1, Zenon DEF TypeOK
  <2>2. CASE reader' = reader BY <2>2 DEF TypeOK
  <2>3. QED BY <2>1, <2>2 DEF Reply, userVars
<1>3. QED BY <1>1, <1>2, DoneType DEF Reply

(* What a client has been sent stays a sequence of messages. *)
LEMMA PushType ==
  ASSUME TypeOK, NEW c \in Conn, NEW ms \in Seq(Msg), Push(c, ms)
  PROVE  got' \in [Conn -> Seq(Msg)]
<1>1. got[c] \o ms \in Seq(Msg) BY DEF TypeOK
<1>2. QED BY <1>1 DEF TypeOK, Push

(* Erasing entries keeps a map a map of connections. *)
LEMMA EraseType ==
  ASSUME TypeOK, NEW s, NEW U, Erase(s, U)
  PROVE  userConnMap' \in [Server -> [User -> Conn \cup {NoConn}]]
<1>1. CASE s \in Server
  <2>1. userConnMap[s] \in [User -> Conn \cup {NoConn}] BY <1>1 DEF TypeOK
  <2>2. [u \in User |-> IF u \in U THEN NoConn ELSE userConnMap[s][u]]
           \in [User -> Conn \cup {NoConn}] BY <2>1
  <2>3. QED BY <2>2 DEF TypeOK, Erase
<1>2. CASE s \notin Server BY <1>2 DEF TypeOK, Erase
<1>3. QED BY <1>1, <1>2

(* An update of user.state stores one of its two values. *)
LEMMA SetStateType ==
  ASSUME TypeOK, NEW u, NEW st \in {"offline", "inline"}, SetState(u, st)
  PROVE  state' \in [User -> {"offline", "inline"}]
BY DEF TypeOK, SetState

(* An insert keeps offline_message a table of messages. *)
LEMMA StoreType ==
  ASSUME TypeOK, NEW u, NEW m \in Msg, StoreOffline(u, m)
  PROVE  offline' \in [User -> Seq(Msg)]
<1>1. CASE u \in User BY <1>1 DEF TypeOK, StoreOffline
<1>2. CASE u \notin User BY <1>2 DEF TypeOK, StoreOffline
<1>3. QED BY <1>1, <1>2

(* A command written to Redis keeps the bus typed. *)
LEMMA WriteType ==
  ASSUME TypeOK, NEW s, NEW u \in Channel,
         NEW op \in {"SUBSCRIBE", "UNSUBSCRIBE"},
         WriteCommand(s, op, u)
  PROVE  BusTypeOK'
<1>1. [op |-> op, channel |-> u] \in Command BY DEF Command
<1>2. CASE s \in Server BY <1>1, <1>2 DEF TypeOK, BusTypeOK, WriteCommand
<1>3. CASE s \notin Server BY <1>3 DEF TypeOK, BusTypeOK, WriteCommand
<1>4. QED BY <1>2, <1>3

(* A message published keeps the bus typed. *)
LEMMA PublishType ==
  ASSUME TypeOK, NEW u \in User, NEW m \in Msg, publish(u, m)
  PROVE  BusTypeOK'
<1>1. [channel |-> u, msg |-> m] \in Notice BY DEF Notice
<1>2. \A s \in Server :
        Append(inbox[s], [channel |-> u, msg |-> m]) \in Seq(Notice)
  BY <1>1 DEF TypeOK, BusTypeOK
<1>3. inbox' \in [Server -> Seq(Notice)]
  BY <1>2 DEF TypeOK, BusTypeOK, publish
<1>4. QED BY <1>3 DEF TypeOK, BusTypeOK, publish

(* The end of groupChat leaves its mutex and locals typed. *)
LEMMA UnlockType ==
  ASSUME TypeOK, NEW c \in Conn, Unlock(c)
  PROVE  /\ connMutex' \in [Server -> Conn \cup {NoConn}]
         /\ idvec' \in [Conn -> Seq(User)]
         /\ pc' \in [Conn -> Step] /\ js' \in [Conn -> Request]
<1>1. connMutex' \in [Server -> Conn \cup {NoConn}] BY DEF TypeOK, Unlock
<1>2. idvec' \in [Conn -> Seq(User)] BY DEF TypeOK, Unlock
<1>3. QED BY <1>1, <1>2, DoneType DEF Unlock

(* The next iteration of groupChat finds users in idvec. *)
LEMMA NextMemberType ==
  ASSUME TypeOK, NEW c \in Conn, idvec[c] # <<>>, NextMember(c)
  PROVE  /\ connMutex' \in [Server -> Conn \cup {NoConn}]
         /\ idvec' \in [Conn -> Seq(User)]
<1>1. Tail(idvec[c]) \in Seq(User) BY DEF TypeOK
<1>2. QED BY <1>1 DEF TypeOK, NextMember

-----------------------------------------------------------------------------
(* Every action keeps the types.                                           *)

(* Connect keeps every variable typed. *)
LEMMA Connect_Type ==
  ASSUME TypeOK, Stages, NEW c \in Conn, Connect(c)
  PROVE  TypeOK'
<1>1. QED
  BY DEF TypeOK, BusTypeOK, envVars, userVars, mapVars, jobVars, dbVars,
     busVars, Connect

(* ClientLogin keeps every variable typed. *)
LEMMA ClientLogin_Type ==
  ASSUME TypeOK, Stages, NEW c \in Conn, NEW u \in User, NEW pwd \in BOOLEAN,
         ClientLogin(c, u, pwd)
  PROVE  TypeOK'
<1>1. reqs' \in [Conn -> Seq(Request)]
  BY SendType DEF ClientLogin, Channel
<1>2. QED
  BY <1>1 DEF TypeOK, BusTypeOK, envVars, userVars, mapVars, jobVars, dbVars,
     busVars, ClientLogin, Send, Channel

(* ClientLogout keeps every variable typed. *)
LEMMA ClientLogout_Type ==
  ASSUME TypeOK, Stages, NEW c \in Conn, ClientLogout(c)
  PROVE  TypeOK'
<1>1. me[c] \in User
  BY DEF Stages, Shown, ClientLogout
<1>2. reqs' \in [Conn -> Seq(Request)]
  BY <1>1, SendType DEF ClientLogout, Channel
<1>3. QED
  BY <1>1, <1>2 DEF TypeOK, BusTypeOK, envVars, userVars, mapVars, jobVars,
     dbVars, busVars, ClientLogout, Send, Channel

(* ClientChat keeps every variable typed. *)
LEMMA ClientChat_Type ==
  ASSUME TypeOK, Stages, NEW c \in Conn, NEW u \in User, NEW m \in Msg,
         ClientChat(c, u, m)
  PROVE  TypeOK'
<1>1. reqs' \in [Conn -> Seq(Request)]
  BY SendType DEF ClientChat, Channel
<1>2. QED
  BY <1>1 DEF TypeOK, BusTypeOK, envVars, userVars, mapVars, jobVars, dbVars,
     busVars, ClientChat, Send

(* ClientGroupChat keeps every variable typed. *)
LEMMA ClientGroupChat_Type ==
  ASSUME TypeOK, Stages, NEW c \in Conn, NEW m \in Msg, ClientGroupChat(c, m)
  PROVE  TypeOK'
<1>1. me[c] \in User
  BY DEF Stages, Shown, ClientGroupChat
<1>2. reqs' \in [Conn -> Seq(Request)]
  BY <1>1, SendType DEF ClientGroupChat, Channel
<1>3. Members(me[c]) \subseteq User
  BY <1>1, ServiceAssumption DEF Members
<1>4. QED
  BY <1>1, <1>2, <1>3 DEF TypeOK, BusTypeOK, envVars, userVars, mapVars,
     jobVars, dbVars, busVars, ClientGroupChat, Send

(* ClientGone keeps every variable typed. *)
LEMMA ClientGone_Type ==
  ASSUME TypeOK, Stages, NEW c \in Conn, ClientGone(c)
  PROVE  TypeOK'
<1>1. QED
  BY DEF TypeOK, BusTypeOK, envVars, userVars, mapVars, jobVars, dbVars,
     busVars, ClientGone, Channel

(* onMessage keeps every variable typed. *)
LEMMA onMessage_Type ==
  ASSUME TypeOK, Stages, NEW c \in Conn, onMessage(c)
  PROVE  TypeOK'
<1>1. Head(reqs[c]) \in Request
  BY DEF onMessage, TypeOK
<1>2. reqs' \in [Conn -> Seq(Request)]
  BY DEF onMessage, TypeOK
<1>3. js' \in [Conn -> Request]
  BY <1>1 DEF onMessage, TypeOK
<1>4. Head(reqs[c]).op \in Step
  BY <1>1 DEF Request, Step, ChatSteps
<1>5. pc' \in [Conn -> Step]
  BY <1>4 DEF onMessage, TypeOK, Goto
<1>6. QED
  BY <1>1, <1>2, <1>3, <1>4, <1>5 DEF TypeOK, BusTypeOK, envVars, userVars,
     mapVars, jobVars, dbVars, busVars, onMessage

(* login keeps every variable typed. *)
LEMMA login_Type ==
  ASSUME TypeOK, Stages, NEW c \in Conn, login(c)
  PROVE  TypeOK'
<1>1. js[c].user \in User
  BY DEF login, At, Stages, UserKnown, LoginSteps
<1>2. logins' \in [Conn -> SUBSET User]
  <2>1. logins[c] \cup {js[c].user} \in SUBSET User BY <1>1 DEF TypeOK
  <2>2. CASE js[c].pwd
    <3>1. logins' = [logins EXCEPT ![c] = logins[c] \cup {js[c].user}]
      BY <2>2 DEF login, TypeOK
    <3>2. QED BY <2>1, <3>1 DEF TypeOK
  <2>3. CASE ~js[c].pwd BY <2>3 DEF login, TypeOK
  <2>4. QED BY <2>2, <2>3
<1>3. pc' \in [Conn -> Step] /\ js' \in [Conn -> Request]
  BY ReplyType DEF login, TypeOK, Goto, Step, SessionSteps, Channel
<1>4. /\ screen' \in [Conn -> {"menu", "wait", "chat"}]
      /\ me' \in [Conn -> Channel]
      /\ reader' \in [Conn -> BOOLEAN]
  BY ReplyType DEF login, TypeOK, userVars, Channel
<1>5. QED
  BY <1>1, <1>2, <1>3, <1>4 DEF TypeOK, BusTypeOK, envVars, userVars, mapVars,
     jobVars, dbVars, busVars, login

(* login_insert keeps every variable typed. *)
LEMMA login_insert_Type ==
  ASSUME TypeOK, Stages, NEW c \in Conn, login_insert(c)
  PROVE  TypeOK'
<1>1. pc' \in [Conn -> Step]
  BY DEF login_insert, TypeOK, Goto, Step, SessionSteps, ChatSteps
<1>2. at[c] \in Server /\ js[c].user \in User
  BY DEF login_insert, At, Alive, Stages, Placed, UserKnown, LoginSteps
<1>3. userConnMap' \in [Server -> [User -> Conn \cup {NoConn}]]
  <2>1. [userConnMap[at[c]] EXCEPT ![js[c].user] = IF @ = NoConn THEN c ELSE @]
          \in [User -> Conn \cup {NoConn}]
    BY <1>2 DEF TypeOK
  <2>2. userConnMap' = [userConnMap EXCEPT ![at[c]] =
                [userConnMap[at[c]] EXCEPT ![js[c].user] =
                   IF @ = NoConn THEN c ELSE @]]
    BY <1>2 DEF login_insert, TypeOK
  <2>3. QED BY <2>1, <2>2 DEF TypeOK
<1>4. QED
  BY <1>1, <1>2, <1>3 DEF TypeOK, BusTypeOK, envVars, userVars, mapVars,
     jobVars, dbVars, busVars, login_insert

(* login_subscribe keeps every variable typed. *)
LEMMA login_subscribe_Type ==
  ASSUME TypeOK, Stages, NEW c \in Conn, login_subscribe(c)
  PROVE  TypeOK'
<1>1. pc' \in [Conn -> Step]
  BY DEF login_subscribe, TypeOK, Goto, Step, SessionSteps, ChatSteps
<1>2. js[c].user \in Channel
  BY DEF TypeOK, Request
<1>3. BusTypeOK'
  BY <1>2, WriteType DEF login_subscribe, subscribe
<1>4. QED
  BY <1>1, <1>2, <1>3 DEF TypeOK, BusTypeOK, envVars, userVars, mapVars,
     jobVars, dbVars, busVars, login_subscribe, subscribe, WriteCommand

(* login_inline keeps every variable typed. *)
LEMMA login_inline_Type ==
  ASSUME TypeOK, Stages, NEW c \in Conn, login_inline(c)
  PROVE  TypeOK'
<1>1. pc' \in [Conn -> Step]
  BY DEF login_inline, TypeOK, Goto, Step, SessionSteps, ChatSteps
<1>2. state' \in [User -> {"offline", "inline"}]
  BY SetStateType DEF login_inline
<1>3. QED
  BY <1>1, <1>2 DEF TypeOK, BusTypeOK, envVars, userVars, mapVars, jobVars,
     dbVars, busVars, login_inline

(* login_query keeps every variable typed. *)
LEMMA login_query_Type ==
  ASSUME TypeOK, Stages, NEW c \in Conn, login_query(c)
  PROVE  TypeOK'
<1>1. pc' \in [Conn -> Step]
  BY DEF login_query, TypeOK, Goto, Step, SessionSteps, ChatSteps
<1>2. js[c].user \in User
  BY DEF login_query, At, Stages, UserKnown, LoginSteps
<1>3. vec' \in [Conn -> Seq(Msg)]
  BY <1>2 DEF login_query, TypeOK
<1>4. QED
  BY <1>1, <1>2, <1>3 DEF TypeOK, BusTypeOK, envVars, userVars, mapVars,
     jobVars, dbVars, busVars, login_query

(* login_remove keeps every variable typed. *)
LEMMA login_remove_Type ==
  ASSUME TypeOK, Stages, NEW c \in Conn, login_remove(c)
  PROVE  TypeOK'
<1>1. pc' \in [Conn -> Step]
  BY DEF login_remove, TypeOK, Goto, Step, SessionSteps, ChatSteps
<1>2. offline' \in [User -> Seq(Msg)]
  <2>1. <<>> \in Seq(Msg) OBVIOUS
  <2>2. QED BY <2>1 DEF login_remove, TypeOK
<1>3. QED
  BY <1>1, <1>2 DEF TypeOK, BusTypeOK, envVars, userVars, mapVars, jobVars,
     dbVars, busVars, login_remove

(* login_reply keeps every variable typed. *)
LEMMA login_reply_Type ==
  ASSUME TypeOK, Stages, NEW c \in Conn, login_reply(c)
  PROVE  TypeOK'
<1>1. vec[c] \in Seq(Msg) /\ js[c].user \in Channel
  BY DEF TypeOK, Request
<1>2. got' \in [Conn -> Seq(Msg)]
  BY <1>1, PushType DEF login_reply
<1>3. /\ screen' \in [Conn -> {"menu", "wait", "chat"}]
     /\ me' \in [Conn -> Channel]
     /\ reader' \in [Conn -> BOOLEAN]
     /\ pc' \in [Conn -> Step] /\ js' \in [Conn -> Request]
  BY <1>1, ReplyType DEF login_reply
<1>4. vec' \in [Conn -> Seq(Msg)]
  BY DEF login_reply, TypeOK
<1>5. QED
  BY <1>1, <1>2, <1>3, <1>4 DEF TypeOK, BusTypeOK, envVars, userVars, mapVars,
     jobVars, dbVars, busVars, login_reply

(* logout keeps every variable typed. *)
LEMMA logout_Type ==
  ASSUME TypeOK, Stages, NEW c \in Conn, logout(c)
  PROVE  TypeOK'
<1>1. pc' \in [Conn -> Step]
  BY DEF logout, TypeOK, Goto, Step, SessionSteps, ChatSteps
<1>2. userConnMap' \in [Server -> [User -> Conn \cup {NoConn}]]
  BY EraseType DEF logout
<1>3. QED
  BY <1>1, <1>2 DEF TypeOK, BusTypeOK, envVars, userVars, mapVars, jobVars,
     dbVars, busVars, logout

(* logout_unsubscribe keeps every variable typed. *)
LEMMA logout_unsubscribe_Type ==
  ASSUME TypeOK, Stages, NEW c \in Conn, logout_unsubscribe(c)
  PROVE  TypeOK'
<1>1. pc' \in [Conn -> Step]
  BY DEF logout_unsubscribe, TypeOK, Goto, Step, SessionSteps, ChatSteps
<1>2. js[c].user \in Channel
  BY DEF TypeOK, Request
<1>3. BusTypeOK'
  BY <1>2, WriteType DEF logout_unsubscribe, unsubscribe
<1>4. QED
  BY <1>1, <1>2, <1>3 DEF TypeOK, BusTypeOK, envVars, userVars, mapVars,
     jobVars, dbVars, busVars, logout_unsubscribe, unsubscribe, WriteCommand

(* logout_offline keeps every variable typed. *)
LEMMA logout_offline_Type ==
  ASSUME TypeOK, Stages, NEW c \in Conn, logout_offline(c)
  PROVE  TypeOK'
<1>1. pc' \in [Conn -> Step] /\ js' \in [Conn -> Request]
  BY DoneType DEF logout_offline
<1>2. state' \in [User -> {"offline", "inline"}]
  BY SetStateType DEF logout_offline
<1>3. QED
  BY <1>1, <1>2 DEF TypeOK, BusTypeOK, envVars, userVars, mapVars, jobVars,
     dbVars, busVars, logout_offline

(* ClientCloseException keeps every variable typed. *)
LEMMA ClientCloseException_Type ==
  ASSUME TypeOK, Stages, NEW c \in Conn, ClientCloseException(c)
  PROVE  TypeOK'
<1>1. pc' \in [Conn -> Step]
  BY DEF ClientCloseException, TypeOK, Goto, Step, SessionSteps, ChatSteps
<1>2. userConnMap' \in [Server -> [User -> Conn \cup {NoConn}]]
  BY EraseType DEF ClientCloseException
<1>3. \A u \in Channel : [NoRequest EXCEPT !.user = u] \in Request
  BY DEF NoRequest, Request, Channel
<1>4. js' \in [Conn -> Request]
  BY <1>3 DEF ClientCloseException, TypeOK
<1>5. reqs' \in [Conn -> Seq(Request)]
  BY DEF ClientCloseException, TypeOK
<1>6. QED
  BY <1>1, <1>2, <1>3, <1>4, <1>5 DEF TypeOK, BusTypeOK, envVars, userVars,
     mapVars, jobVars, dbVars, busVars, ClientCloseException

(* close_unsubscribe keeps every variable typed. *)
LEMMA close_unsubscribe_Type ==
  ASSUME TypeOK, Stages, NEW c \in Conn, close_unsubscribe(c)
  PROVE  TypeOK'
<1>1. js[c].user \in Channel
  BY DEF TypeOK, Request
<1>2. BusTypeOK'
  BY <1>1, WriteType DEF close_unsubscribe, unsubscribe
<1>3. pc' \in [Conn -> Step] /\ js' \in [Conn -> Request]
  BY DoneType DEF close_unsubscribe, Closed, TypeOK, Goto, Step, SessionSteps
<1>4. link' \in [Conn -> {"new", "open", "dead", "closed"}]
  BY DEF close_unsubscribe, Closed, TypeOK
<1>5. QED
  BY <1>1, <1>2, <1>3, <1>4 DEF TypeOK, BusTypeOK, envVars, userVars, mapVars,
     jobVars, dbVars, busVars, close_unsubscribe, unsubscribe, WriteCommand

(* close_offline keeps every variable typed. *)
LEMMA close_offline_Type ==
  ASSUME TypeOK, Stages, NEW c \in Conn, close_offline(c)
  PROVE  TypeOK'
<1>1. pc' \in [Conn -> Step] /\ js' \in [Conn -> Request]
  BY DoneType DEF close_offline, Closed
<1>2. state' \in [User -> {"offline", "inline"}]
  BY SetStateType DEF close_offline
<1>3. QED
  BY <1>1, <1>2 DEF TypeOK, BusTypeOK, envVars, userVars, mapVars, jobVars,
     dbVars, busVars, close_offline, Closed

(* oneChat keeps every variable typed. *)
LEMMA oneChat_Type ==
  ASSUME TypeOK, Stages, NEW c \in Conn, oneChat(c)
  PROVE  TypeOK'
<1>1. js[c].msg \in Msg /\ js[c].user \in User
  BY DEF oneChat, At, Stages, Placed, UserKnown, MsgKnown, ChatSteps
<1>2. Here(c)[js[c].user] \in Conn \cup {NoConn}
  <2>1. at[c] \in Server BY DEF oneChat, At, Alive, Stages, Placed
  <2>2. QED BY <1>1, <2>1 DEF Here, TypeOK
<1>3. got' \in [Conn -> Seq(Msg)]
  <2>1. <<js[c].msg>> \in Seq(Msg) BY <1>1
  <2>2. CASE Here(c)[js[c].user] # NoConn
    BY <1>2, <2>1, <2>2, PushType DEF oneChat
  <2>3. CASE Here(c)[js[c].user] = NoConn
    BY <2>3 DEF oneChat, TypeOK
  <2>4. QED BY <2>2, <2>3
<1>4. pc' \in [Conn -> Step] /\ js' \in [Conn -> Request]
  BY DoneType DEF oneChat, TypeOK, Goto, Step, ChatSteps
<1>5. QED
  BY <1>1, <1>2, <1>3, <1>4 DEF TypeOK, BusTypeOK, envVars, userVars, mapVars,
     jobVars, dbVars, busVars, oneChat

(* oneChat_query keeps every variable typed. *)
LEMMA oneChat_query_Type ==
  ASSUME TypeOK, Stages, NEW c \in Conn, oneChat_query(c)
  PROVE  TypeOK'
<1>1. pc' \in [Conn -> Step]
  BY DEF oneChat_query, TypeOK, Goto, Step, SessionSteps, ChatSteps
<1>2. QED
  BY <1>1 DEF TypeOK, BusTypeOK, envVars, userVars, mapVars, jobVars, dbVars,
     busVars, oneChat_query

(* oneChat_publish keeps every variable typed. *)
LEMMA oneChat_publish_Type ==
  ASSUME TypeOK, Stages, NEW c \in Conn, oneChat_publish(c)
  PROVE  TypeOK'
<1>1. js[c].msg \in Msg /\ js[c].user \in User
  BY DEF oneChat_publish, At, Stages, Placed, UserKnown, MsgKnown, ChatSteps
<1>2. BusTypeOK'
  BY <1>1, PublishType DEF oneChat_publish
<1>3. pc' \in [Conn -> Step] /\ js' \in [Conn -> Request]
  BY DoneType DEF oneChat_publish
<1>4. QED
  BY <1>1, <1>2, <1>3 DEF TypeOK, BusTypeOK, envVars, userVars, mapVars,
     jobVars, dbVars, busVars, oneChat_publish, publish

(* oneChat_insert keeps every variable typed. *)
LEMMA oneChat_insert_Type ==
  ASSUME TypeOK, Stages, NEW c \in Conn, oneChat_insert(c)
  PROVE  TypeOK'
<1>1. js[c].msg \in Msg /\ js[c].user \in User
  BY DEF oneChat_insert, At, Stages, Placed, UserKnown, MsgKnown, ChatSteps
<1>2. offline' \in [User -> Seq(Msg)]
  BY <1>1, StoreType DEF oneChat_insert
<1>3. pc' \in [Conn -> Step] /\ js' \in [Conn -> Request]
  BY DoneType DEF oneChat_insert
<1>4. QED
  BY <1>1, <1>2, <1>3 DEF TypeOK, BusTypeOK, envVars, userVars, mapVars,
     jobVars, dbVars, busVars, oneChat_insert

(* groupChat keeps every variable typed. *)
LEMMA groupChat_Type ==
  ASSUME TypeOK, Stages, NEW c \in Conn, groupChat(c)
  PROVE  TypeOK'
<1>1. js[c].msg \in Msg /\ js[c].user \in User
  BY DEF groupChat, At, Stages, Placed, UserKnown, MsgKnown, ChatSteps
<1>2. pc' \in [Conn -> Step]
  BY DEF groupChat, TypeOK, Goto, Step, SessionSteps, ChatSteps
<1>3. idvec' \in [Conn -> Seq(User)]
  BY <1>1, ServiceAssumption DEF groupChat, TypeOK
<1>4. QED
  BY <1>1, <1>2, <1>3 DEF TypeOK, BusTypeOK, envVars, userVars, mapVars,
     jobVars, dbVars, busVars, groupChat

(* group_lock keeps every variable typed. *)
LEMMA group_lock_Type ==
  ASSUME TypeOK, Stages, NEW c \in Conn, group_lock(c)
  PROVE  TypeOK'
<1>1. pc' \in [Conn -> Step]
  BY DEF group_lock, TypeOK, Goto, Step, SessionSteps, ChatSteps
<1>2. connMutex' \in [Server -> Conn \cup {NoConn}]
  BY DEF group_lock, TypeOK
<1>3. QED
  BY <1>1, <1>2 DEF TypeOK, BusTypeOK, envVars, userVars, mapVars, jobVars,
     dbVars, busVars, group_lock

(* group_next keeps every variable typed. *)
LEMMA group_next_Type ==
  ASSUME TypeOK, Stages, NEW c \in Conn, group_next(c)
  PROVE  TypeOK'
<1>1. js[c].msg \in Msg /\ js[c].user \in User /\ at[c] \in Server
  BY DEF group_next, At, Alive, Stages, Placed, UserKnown, MsgKnown, ChatSteps
<1> DEFINE d == Here(c)[Head(idvec[c])]
<1>2. CASE idvec[c] = <<>>
  BY <1>2, UnlockType DEF TypeOK, BusTypeOK, envVars, userVars, dbVars,
     busVars, group_next
<1>3. CASE idvec[c] # <<>> /\ d # NoConn
  <2>1. d \in Conn
    <3>1. Head(idvec[c]) \in User BY <1>3 DEF TypeOK
    <3>2. QED BY <1>1, <1>3, <3>1 DEF Here, TypeOK
  <2>2. got' \in [Conn -> Seq(Msg)]
    <3>1. <<js[c].msg>> \in Seq(Msg) BY <1>1
    <3>2. QED BY <1>3, <2>1, <3>1, PushType DEF group_next
  <2>3. QED
    BY <1>3, <2>2, NextMemberType
       DEF TypeOK, BusTypeOK, envVars, userVars, dbVars, busVars, group_next
<1>4. CASE idvec[c] # <<>> /\ d = NoConn
  <2>1. pc' \in [Conn -> Step]
    BY <1>4 DEF group_next, TypeOK, Goto, Step, ChatSteps
  <2>2. QED
    BY <1>4, <2>1
       DEF TypeOK, BusTypeOK, envVars, userVars, dbVars, busVars, group_next
<1>5. QED BY <1>2, <1>3, <1>4

(* group_query keeps every variable typed. *)
LEMMA group_query_Type ==
  ASSUME TypeOK, Stages, NEW c \in Conn, group_query(c)
  PROVE  TypeOK'
<1>1. pc' \in [Conn -> Step]
  BY DEF group_query, TypeOK, Goto, Step, ChatSteps
<1>2. QED
  BY <1>1 DEF TypeOK, BusTypeOK, envVars, userVars, mapVars, dbVars, busVars,
     group_query

(* group_publish keeps every variable typed. *)
LEMMA group_publish_Type ==
  ASSUME TypeOK, Stages, NEW c \in Conn, group_publish(c)
  PROVE  TypeOK'
<1>1. js[c].msg \in Msg /\ Head(idvec[c]) \in User
  BY DEF group_publish, At, Stages, UserKnown, MsgKnown, MemberLeft, ChatSteps,
     MemberSteps, TypeOK
<1>2. BusTypeOK' BY <1>1, PublishType DEF group_publish
<1>3. QED
  BY <1>2, UnlockType DEF TypeOK, BusTypeOK, envVars, userVars, dbVars,
     group_publish

(* group_insert keeps every variable typed. *)
LEMMA group_insert_Type ==
  ASSUME TypeOK, Stages, NEW c \in Conn, group_insert(c)
  PROVE  TypeOK'
<1>1. js[c].msg \in Msg /\ idvec[c] # <<>>
  BY DEF group_insert, At, Stages, UserKnown, MsgKnown, MemberLeft, ChatSteps,
     MemberSteps
<1>2. offline' \in [User -> Seq(Msg)] BY <1>1, StoreType DEF group_insert
<1>3. pc' \in [Conn -> Step]
  BY DEF group_insert, TypeOK, Goto, Step, ChatSteps
<1>4. QED
  BY <1>1, <1>2, <1>3, NextMemberType
     DEF TypeOK, BusTypeOK, envVars, userVars, busVars, group_insert

(* handleRedisSubscribeMessage keeps every variable typed. *)
LEMMA Observer_Type ==
  ASSUME TypeOK, Stages, NEW s \in Server, handleRedisSubscribeMessage(s)
  PROVE  TypeOK'
<1> DEFINE n == Head(inbox[s])
<1>1. n \in Notice
  BY DEF handleRedisSubscribeMessage, TakeNotice, TypeOK, BusTypeOK
<1>2. n.channel \in User /\ n.msg \in Msg BY <1>1 DEF Notice
<1>3. userConnMap[s][n.channel] \in Conn \cup {NoConn} BY <1>2 DEF TypeOK
<1>4. got' \in [Conn -> Seq(Msg)] /\ offline' \in [User -> Seq(Msg)]
  <2>1. CASE userConnMap[s][n.channel] # NoConn
    <3>1. <<n.msg>> \in Seq(Msg) BY <1>2
    <3>2. QED
      BY <1>3, <2>1, <3>1, PushType DEF handleRedisSubscribeMessage, TypeOK
  <2>2. CASE userConnMap[s][n.channel] = NoConn
    BY <1>2, <2>2, StoreType DEF handleRedisSubscribeMessage, TypeOK
  <2>3. QED BY <2>1, <2>2
<1>5. BusTypeOK'
  BY DEF handleRedisSubscribeMessage, TakeNotice, TypeOK, BusTypeOK
<1>6. QED
  BY <1>4, <1>5
     DEF TypeOK, BusTypeOK, envVars, userVars, mapVars, jobVars,
         handleRedisSubscribeMessage

(* RedisStep keeps every variable typed. *)
LEMMA RedisStep_Type ==
  ASSUME TypeOK, Stages, NEW s \in Server, RedisStep(s)
  PROVE  TypeOK'
<1>1. Head(cmds[s]) \in Command
  BY DEF RedisStep, RedisExecute, TypeOK, BusTypeOK
<1>2. Head(cmds[s]).channel \in Channel BY <1>1 DEF Command
<1>3. subs' \in [Channel -> SUBSET Server]
  <2>1. subs[Head(cmds[s]).channel] \cup {s} \in SUBSET Server
    BY <1>2 DEF TypeOK, BusTypeOK
  <2>2. subs[Head(cmds[s]).channel] \ {s} \in SUBSET Server
    BY <1>2 DEF TypeOK, BusTypeOK
  <2>3. QED BY <2>1, <2>2 DEF RedisStep, RedisExecute, TypeOK, BusTypeOK
<1>4. cmds' \in [Server -> Seq(Command)]
  BY DEF RedisStep, RedisExecute, TypeOK, BusTypeOK
<1>5. QED
  BY <1>3, <1>4
     DEF TypeOK, BusTypeOK, envVars, userVars, mapVars, jobVars, dbVars,
         RedisStep, RedisExecute

(* The loss of a process keeps every variable typed. *)
LEMMA Stop_Type ==
  ASSUME TypeOK, Stages, NEW s \in Server, Stop(s), faults' \in Nat
  PROVE  TypeOK'
<1>1. BusTypeOK'
  <2>1. cmds' \in [Server -> Seq(Command)] /\ inbox' \in [Server -> Seq(Notice)]
    BY DEF Stop, Detach, TypeOK, BusTypeOK
  <2>2. subs' \in [Channel -> SUBSET Server]
    BY DEF Stop, Detach, TypeOK, BusTypeOK
  <2>3. QED BY <2>1, <2>2 DEF BusTypeOK
<1>2. /\ link' \in [Conn -> {"new", "open", "dead", "closed"}]
      /\ reqs' \in [Conn -> Seq(Request)]
      /\ up' \in [Server -> {"up", "exiting", "down"}]
  BY DEF Stop, TypeOK
<1>3. /\ pc' \in [Conn -> Step] /\ js' \in [Conn -> Request]
      /\ idvec' \in [Conn -> Seq(User)] /\ vec' \in [Conn -> Seq(Msg)]
  BY NoRequestType DEF Stop, TypeOK, Step
<1>4. /\ screen' \in [Conn -> {"menu", "wait", "chat"}]
      /\ me' \in [Conn -> Channel]
      /\ reader' \in [Conn -> BOOLEAN]
  BY DEF Stop, TypeOK, Channel
<1>5. /\ userConnMap' \in [Server -> [User -> Conn \cup {NoConn}]]
      /\ connMutex' \in [Server -> Conn \cup {NoConn}]
  BY DEF Stop, TypeOK
<1>6. QED
  BY <1>1, <1>2, <1>3, <1>4, <1>5 DEF Stop, TypeOK, dbVars

(* The start and end of a process keep every variable typed. *)
LEMMA Process_Type ==
  ASSUME TypeOK, Stages, NEW s \in Server,
         resetHandle(s) \/ exit(s) \/ crash(s) \/ restart(s)
  PROVE  TypeOK'
<1>1. CASE resetHandle(s)
  BY <1>1 DEF TypeOK, BusTypeOK, mapVars, jobVars, busVars, resetHandle
<1>2. CASE exit(s) BY <1>2, Stop_Type DEF exit, TypeOK
<1>3. CASE crash(s) BY <1>3, Stop_Type DEF crash, TypeOK
<1>4. CASE restart(s)
  BY <1>4 DEF TypeOK, BusTypeOK, mapVars, jobVars, dbVars, busVars, restart
<1>5. QED BY <1>1, <1>2, <1>3, <1>4

(* Every step keeps the types. *)
LEMMA TypeStep ==
  ASSUME TypeOK, Stages, [Next]_vars
  PROVE  TypeOK'
<1>1. ASSUME NEW c \in Conn, ClientStep(c) PROVE TypeOK'
  BY <1>1, Connect_Type, ClientLogout_Type, ClientGone_Type, ClientLogin_Type,
     ClientChat_Type, ClientGroupChat_Type, ServiceAssumption DEF ClientStep
<1>2. ASSUME NEW c \in Conn, WorkerStep(c) PROVE TypeOK'
  <2>1. CASE onMessage(c) BY <2>1, onMessage_Type
  <2>2. CASE LoginStep(c)
    BY <2>2, login_Type, login_insert_Type, login_subscribe_Type,
       login_inline_Type, login_query_Type, login_remove_Type, login_reply_Type
       DEF LoginStep
  <2>3. CASE LeaveStep(c)
    BY <2>3, logout_Type, logout_unsubscribe_Type, logout_offline_Type,
       ClientCloseException_Type, close_unsubscribe_Type, close_offline_Type
       DEF LeaveStep
  <2>4. CASE ChatStep(c)
    BY <2>4, oneChat_Type, oneChat_query_Type, oneChat_publish_Type,
       oneChat_insert_Type, groupChat_Type, group_lock_Type, group_next_Type,
       group_query_Type, group_publish_Type, group_insert_Type DEF ChatStep
  <2>5. QED BY <1>2, <2>1, <2>2, <2>3, <2>4 DEF WorkerStep
<1>3. ASSUME NEW s \in Server, ServerStep(s) PROVE TypeOK'
  BY <1>3, Observer_Type, RedisStep_Type, Process_Type DEF ServerStep
<1>4. CASE UNCHANGED vars
  BY <1>4 DEF vars, envVars, userVars, mapVars, jobVars, dbVars, busVars,
              TypeOK, BusTypeOK
<1>5. QED BY <1>1, <1>2, <1>3, <1>4 DEF Next

-----------------------------------------------------------------------------
(* Every action keeps Stages.                                              *)

(* The end of a handler leaves nothing to know of its connection. *)
LEMMA Done_Stages ==
  ASSUME TypeOK, Stages, NEW c \in Conn, Done(c),
         \A d \in Conn \ {c} : idvec'[d] = idvec[d]
  PROVE  UserKnown' /\ MsgKnown' /\ MemberLeft'
<1>1. pc'[c] = "idle" /\ \A d \in Conn \ {c} : pc'[d] = pc[d] /\ js'[d] = js[d]
  BY DEF TypeOK, Done, Goto
<1>2. QED
  BY <1>1 DEF Stages, UserKnown, MsgKnown, MemberLeft, LoginSteps, LogoutSteps,
              ChatSteps, MemberSteps

(* An answer that lets the client chat has a user. *)
LEMMA Reply_Stages ==
  ASSUME TypeOK, Stages, NEW c \in Conn, NEW scr, NEW u, Reply(c, scr, u),
         scr = "chat" => u \in User
  PROVE  Shown'
<1>1. CASE UNCHANGED userVars
  BY <1>1 DEF Stages, Shown, userVars
<1>2. CASE /\ screen' = [screen EXCEPT ![c] = scr]
           /\ me' = [me EXCEPT ![c] = u]
  BY <1>2 DEF TypeOK, Stages, Shown
<1>3. QED BY <1>1, <1>2 DEF Reply

(* The clients keep Stages. *)
LEMMA Client_Stages ==
  ASSUME TypeOK, TypeOK', Stages, NEW c \in Conn, ClientStep(c)
  PROVE  Stages'
<1> USE DEF Stages, Placed, Formed, UserKnown, MsgKnown, MemberLeft, Shown,
           WellFormed, LoginSteps, LogoutSteps, MemberSteps, ChatSteps,
           envVars, userVars, mapVars, jobVars, dbVars, busVars,
           At, Alive, Goto, Done, Reply, NoRequest
<1>1. CASE Connect(c) BY <1>1 DEF TypeOK, Connect
<1>2. CASE ClientLogout(c) BY <1>2 DEF TypeOK, ClientLogout, Send
<1>3. CASE ClientGone(c) BY <1>3 DEF TypeOK, ClientGone
<1>4. ASSUME NEW u \in Uses[c], NEW pwd \in Passwords, ClientLogin(c, u, pwd)
      PROVE  Stages'
  <2>1. u \in User BY <1>4, ServiceAssumption
  <2>2. QED BY <1>4, <2>1 DEF TypeOK, ClientLogin, Send
<1>5. ASSUME NEW u \in User, NEW m \in Msg, ClientChat(c, u, m)
      PROVE  Stages'
  <2>1. Formed' BY <1>5 DEF TypeOK, ClientChat, Send
  <2>2. QED BY <1>5, <2>1 DEF ClientChat, Send
<1>6. ASSUME NEW m \in Msg, ClientGroupChat(c, m)
      PROVE  Stages'
  BY <1>6 DEF TypeOK, ClientGroupChat, Send
<1>7. QED BY <1>1, <1>2, <1>3, <1>4, <1>5, <1>6 DEF ClientStep

(* The dispatch of a request keeps Stages. *)
LEMMA Dispatch_Stages ==
  ASSUME TypeOK, TypeOK', Stages, NEW c \in Conn, onMessage(c)
  PROVE  Stages'
<1>1. /\ reqs[c] \in Seq(Request) /\ reqs[c] # <<>>
      /\ js' = [js EXCEPT ![c] = Head(reqs[c])]
      /\ pc' = [pc EXCEPT ![c] = Head(reqs[c]).op]
      /\ UNCHANGED <<link, at, me, screen, idvec>>
  BY DEF TypeOK, onMessage, Goto
<1>2. PICK n \in 1..MaxBatch :
        /\ n <= Len(reqs[c])
        /\ reqs' = [reqs EXCEPT ![c] = SubSeq(@, n + 1, Len(@))]
  BY DEF onMessage
<1>3. Head(reqs[c]) = reqs[c][1] /\ 1 \in DOMAIN reqs[c] BY <1>1
<1>4. WellFormed(Head(reqs[c])) BY <1>3 DEF Stages, Formed
<1>5. Placed' BY <1>1 DEF Stages, Placed
<1>6. Formed'
  <2>1. ASSUME NEW d \in Conn, NEW i \in DOMAIN reqs'[d]
        PROVE  WellFormed(reqs'[d][i])
    <3>1. CASE d # c
      <4>1. reqs'[d] = reqs[d] BY <1>2, <3>1 DEF TypeOK
      <4>2. QED BY <2>1, <4>1 DEF Stages, Formed
    <3>2. CASE d = c
      <4>1. reqs'[d] = SubSeq(reqs[c], n + 1, Len(reqs[c]))
        BY <1>2, <3>2 DEF TypeOK
      <4>2. n \in Nat \ {0} /\ n <= Len(reqs[c])
        BY <1>2, ServiceAssumption
      <4>3. /\ Len(reqs'[d]) = Len(reqs[c]) - n
            /\ \A k \in 1..Len(reqs'[d]) : reqs'[d][k] = reqs[c][k + n]
        BY <1>1, <4>1, <4>2
      <4>4. reqs'[d] \in Seq(Request) BY DEF TypeOK
      <4>5. i \in 1..Len(reqs'[d]) BY <2>1, <4>4
      <4>6. i + n \in DOMAIN reqs[c] /\ reqs'[d][i] = reqs[c][i + n]
        BY <1>1, <4>2, <4>3, <4>5
      <4>7. QED BY <4>6 DEF Stages, Formed
    <3>3. QED BY <3>1, <3>2
  <2>2. QED BY <2>1 DEF Formed, WellFormed
<1>7. UserKnown' BY <1>1, <1>4 DEF TypeOK, Stages, UserKnown, WellFormed
<1>8. MsgKnown'
  <2>1. pc'[c] = Head(reqs[c]).op /\ js'[c] = Head(reqs[c])
    BY <1>1 DEF TypeOK
  <2>2. \A d \in Conn \ {c} : pc'[d] = pc[d] /\ js'[d] = js[d]
    BY <1>1 DEF TypeOK
  <2>3. Head(reqs[c]) \in Request BY <1>1
  <2>4. pc'[c] \in ChatSteps => pc'[c] \in {"oneChat", "groupChat"}
    BY <2>1, <2>3 DEF Request, ChatSteps
  <2>5. pc'[c] \in ChatSteps => js'[c].msg \in Msg
    BY <1>4, <2>1, <2>4 DEF WellFormed
  <2>6. QED BY <2>2, <2>5 DEF Stages, MsgKnown
<1>9. MemberLeft'
  BY <1>1 DEF TypeOK, Request, Stages, MemberLeft, MemberSteps
<1>10. Shown' BY <1>1 DEF Stages, Shown
<1>11. QED BY <1>5, <1>6, <1>7, <1>8, <1>9, <1>10 DEF Stages

(* login keeps Stages. *)
LEMMA Login_Stages ==
  ASSUME TypeOK, TypeOK', Stages, NEW c \in Conn, LoginStep(c)
  PROVE  Stages'
<1> USE DEF Stages, Placed, Formed, UserKnown, MsgKnown, MemberLeft, Shown,
           WellFormed, LoginSteps, LogoutSteps, MemberSteps, ChatSteps,
           envVars, userVars, mapVars, jobVars, dbVars, busVars,
           At, Alive, Goto, Done, NoRequest
<1>1. CASE login(c)
  <2>1. CASE Goto(c, "login_insert") /\ UNCHANGED <<userVars, js>>
    BY <1>1, <2>1 DEF TypeOK, login
  <2>2. CASE Reply(c, "menu", NoUser)
    <3>1. UserKnown' /\ MsgKnown' /\ MemberLeft'
      BY <1>1, <2>2, Done_Stages DEF login, Reply
    <3>2. Shown' BY <2>2, Reply_Stages
    <3>3. QED BY <1>1, <3>1, <3>2 DEF login
  <2>3. QED BY <1>1, <2>1, <2>2 DEF TypeOK, login
<1>2. CASE login_insert(c) BY <1>2 DEF TypeOK, login_insert
<1>3. CASE login_subscribe(c) BY <1>3 DEF TypeOK, login_subscribe, subscribe,
  WriteCommand
<1>4. CASE login_inline(c) BY <1>4 DEF TypeOK, login_inline
<1>5. CASE login_query(c) BY <1>5 DEF TypeOK, login_query
<1>6. CASE login_remove(c) BY <1>6 DEF TypeOK, login_remove
<1>7. CASE login_reply(c)
  <2>1. js[c].user \in User BY <1>7 DEF login_reply
  <2>2. UserKnown' /\ MsgKnown' /\ MemberLeft'
    BY <1>7, Done_Stages DEF login_reply, Reply
  <2>3. Shown' BY <1>7, <2>1, Reply_Stages DEF login_reply
  <2>4. QED BY <1>7, <2>2, <2>3 DEF login_reply
<1>8. QED BY <1>1, <1>2, <1>3, <1>4, <1>5, <1>6, <1>7, LoginStep(c)
  DEF LoginStep

(* logout and close keep Stages. *)
LEMMA Leave_Stages ==
  ASSUME TypeOK, TypeOK', Stages, NEW c \in Conn, LeaveStep(c)
  PROVE  Stages'
<1> USE DEF Stages, Placed, Formed, UserKnown, MsgKnown, MemberLeft, Shown,
           WellFormed, LoginSteps, LogoutSteps, MemberSteps, ChatSteps,
           envVars, userVars, mapVars, jobVars, dbVars, busVars,
           At, Alive, Goto, Done, Reply, NoRequest
<1>1. CASE logout(c) BY <1>1 DEF TypeOK, logout
<1>2. CASE logout_unsubscribe(c) BY <1>2 DEF TypeOK, logout_unsubscribe,
  unsubscribe, WriteCommand
<1>3. CASE logout_offline(c) BY <1>3 DEF TypeOK, logout_offline
<1>4. CASE ClientCloseException(c) BY <1>4 DEF TypeOK, ClientCloseException
<1>5. CASE close_unsubscribe(c)
  <2>1. CASE Closed(c)
    <3>1. UserKnown' /\ MsgKnown' /\ MemberLeft'
      BY <1>5, <2>1, Done_Stages DEF close_unsubscribe, Closed
    <3>2. QED BY <1>5, <2>1, <3>1 DEF TypeOK, close_unsubscribe, Closed
  <2>2. CASE js[c].user # NoUser
    BY <1>5, <2>2 DEF TypeOK, close_unsubscribe
  <2>3. QED BY <1>5, <2>1, <2>2 DEF close_unsubscribe
<1>6. CASE close_offline(c) BY <1>6 DEF TypeOK, close_offline, Closed
<1>7. QED BY <1>1, <1>2, <1>3, <1>4, <1>5, <1>6, LeaveStep(c) DEF LeaveStep

(* oneChat and groupChat keep Stages. *)
LEMMA Chat_Stages ==
  ASSUME TypeOK, TypeOK', Stages, NEW c \in Conn, ChatStep(c)
  PROVE  Stages'
<1> USE DEF Stages, Placed, Formed, UserKnown, MsgKnown, MemberLeft, Shown,
           WellFormed, LoginSteps, LogoutSteps, MemberSteps, ChatSteps,
           envVars, userVars, mapVars, jobVars, dbVars, busVars,
           At, Alive, Goto, Done, Reply, NoRequest
<1>1. CASE oneChat(c)
  <2>1. CASE Done(c)
    <3>1. UserKnown' /\ MsgKnown' /\ MemberLeft'
      BY <1>1, <2>1, Done_Stages DEF oneChat
    <3>2. QED BY <1>1, <3>1 DEF oneChat
  <2>2. CASE Goto(c, "oneChat_query") /\ UNCHANGED js
    BY <1>1, <2>2 DEF TypeOK, oneChat
  <2>3. QED BY <1>1, <2>1, <2>2 DEF oneChat
<1>2. CASE oneChat_query(c) BY <1>2 DEF TypeOK, oneChat_query
<1>3. CASE oneChat_publish(c) BY <1>3 DEF TypeOK, oneChat_publish, publish
<1>4. CASE oneChat_insert(c) BY <1>4 DEF TypeOK, oneChat_insert
<1>5. CASE groupChat(c) BY <1>5 DEF TypeOK, groupChat
<1>6. CASE group_lock(c) BY <1>6 DEF TypeOK, group_lock
<1>7. CASE group_next(c)
  <2>1. CASE idvec[c] = <<>>
    <3>1. Unlock(c) BY <1>7, <2>1 DEF group_next
    <3>2. \A d \in Conn \ {c} : idvec'[d] = idvec[d]
      BY <3>1 DEF TypeOK, Unlock
    <3>3. UserKnown' /\ MsgKnown' /\ MemberLeft'
      BY <3>1, <3>2, Done_Stages DEF Unlock
    <3>4. QED BY <1>7, <3>3 DEF group_next
  <2>2. CASE idvec[c] # <<>> /\ Here(c)[Head(idvec[c])] # NoConn
    <3>1. UNCHANGED <<pc, js>> /\ pc[c] = "group_next"
      BY <1>7, <2>2 DEF group_next
    <3>2. idvec' = [idvec EXCEPT ![c] = Tail(@)]
      BY <1>7, <2>2, <3>1 DEF group_next, NextMember
    <3>3. \A d \in Conn \ {c} : idvec'[d] = idvec[d] BY <3>2 DEF TypeOK
    <3>4. MemberLeft' BY <3>1, <3>3
    <3>5. QED BY <1>7, <3>1, <3>4 DEF group_next
  <2>3. CASE idvec[c] # <<>> /\ Here(c)[Head(idvec[c])] = NoConn
    BY <1>7, <2>3 DEF TypeOK, group_next
  <2>4. QED BY <2>1, <2>2, <2>3
<1>8. CASE group_query(c) BY <1>8 DEF TypeOK, group_query
<1>9. CASE group_publish(c) BY <1>9 DEF TypeOK, group_publish, Unlock, publish
<1>10. CASE group_insert(c) BY <1>10 DEF TypeOK, group_insert, NextMember
<1>11. QED BY <1>1, <1>2, <1>3, <1>4, <1>5, <1>6, <1>7, <1>8, <1>9, <1>10,
  ChatStep(c) DEF ChatStep

(* The observer, Redis and the processes keep Stages. *)
LEMMA Server_Stages ==
  ASSUME TypeOK, TypeOK', Stages, NEW s \in Server, ServerStep(s)
  PROVE  Stages'
<1> USE DEF Stages, Placed, Formed, UserKnown, MsgKnown, MemberLeft, Shown,
           WellFormed, LoginSteps, LogoutSteps, MemberSteps, ChatSteps,
           envVars, userVars, mapVars, jobVars, dbVars, busVars,
           At, Alive, Goto, Done, Reply, NoRequest
<1>1. CASE handleRedisSubscribeMessage(s)
  BY <1>1 DEF TypeOK, handleRedisSubscribeMessage, TakeNotice
<1>2. CASE RedisStep(s) BY <1>2 DEF TypeOK, RedisStep, RedisExecute
<1>3. CASE resetHandle(s) BY <1>3 DEF TypeOK, resetHandle
<1>4. CASE exit(s) \/ crash(s)
  <2>1. Stop(s) BY <1>4 DEF exit, crash
  <2>2. Placed' /\ Formed' BY <2>1 DEF TypeOK, Stop, Victims
  <2>3. UserKnown' /\ MsgKnown' /\ MemberLeft' BY <2>1 DEF TypeOK, Stop
  <2>4. Shown' BY <2>1 DEF TypeOK, Stop
  <2>5. QED BY <2>2, <2>3, <2>4
<1>5. CASE restart(s) BY <1>5 DEF TypeOK, restart
<1>6. QED BY <1>1, <1>2, <1>3, <1>4, <1>5, ServerStep(s) DEF ServerStep

(* Every step keeps Stages. *)
LEMMA StagesStep ==
  ASSUME TypeOK, TypeOK', Stages, [Next]_vars
  PROVE  Stages'
<1>1. CASE UNCHANGED vars
  BY <1>1 DEF vars, envVars, userVars, mapVars, jobVars, dbVars, busVars,
              Stages, Placed, Formed, UserKnown, MsgKnown, MemberLeft, Shown
<1>2. CASE Next
  BY <1>2, Client_Stages, Dispatch_Stages, Login_Stages, Leave_Stages,
     Chat_Stages, Server_Stages DEF Next, WorkerStep
<1>3. QED BY <1>1, <1>2

(***************************************************************************)
(* Whatever the servers, users, connections, batches and faults, every     *)
(* reachable state is typed, and a handler has the user, the message and   *)
(* the member its step is about.                                           *)
(***************************************************************************)
THEOREM TypesHold == Spec => [](TypeOK /\ Stages)
<1>1. Init => TypeOK /\ Stages BY InitType
<1>2. TypeOK /\ Stages /\ [Next]_vars => (TypeOK /\ Stages)'
  BY TypeStep, StagesStep
<1>3. QED BY <1>1, <1>2, PTL DEF Spec

(***************************************************************************)
(* TypeOK holds in every reachable state.                                  *)
(***************************************************************************)
THEOREM TypeCorrect == Spec => []TypeOK
BY TypesHold, PTL
=============================================================================
