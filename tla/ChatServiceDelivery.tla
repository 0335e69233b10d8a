------------------------ MODULE ChatServiceDelivery ------------------------
(***************************************************************************)
(* Proof of NoMisdelivery.  A message is on its way in a request, a        *)
(* handler, offline_message, a login answer or a channel, and reaches a    *)
(* client through an entry of _userConnMap or the answer to a login.       *)
(* Addressed says that every one of these places holds it for a user it    *)
(* was addressed to, and that every entry, and every login past its check, *)
(* is of a user who gave the right password on that connection.            *)
(***************************************************************************)
EXTENDS ChatServiceTypes

InSession == LoginSteps \ {"login"}

(* An entry of a map is of a user who logged in on its connection. *)
Entered ==
  \A s \in Server, u \in User :
    userConnMap[s][u] # NoConn => u \in logins[userConnMap[s][u]]

(* login went past its check only with the right password. *)
Admitted ==
  \A c \in Conn : pc[c] \in InSession => js[c].user \in logins[c]

(* offline_message holds messages for their addressees. *)
Stored ==
  \A u \in User : \A i \in DOMAIN offline[u] : u \in dest[offline[u][i]]

(* So does the vector of a login, empty before it is read. *)
Reading ==
  \A c \in Conn :
    /\ pc[c] \notin {"login_remove", "login_reply"} => vec[c] = <<>>
    /\ \A i \in DOMAIN vec[c] : js[c].user \in dest[vec[c][i]]

(* A channel carries messages for its user. *)
Pushed ==
  \A s \in Server : \A i \in DOMAIN inbox[s] :
    inbox[s][i].channel \in dest[inbox[s][i].msg]

(* A request, and the handler it becomes, is about its addressees. *)
About(r, to) ==
  /\ r.op = "oneChat" => r.user \in to[r.msg]
  /\ r.op = "groupChat" => Members(r.user) \subseteq to[r.msg]

Asked == \A c \in Conn : \A i \in DOMAIN reqs[c] : About(reqs[c][i], dest)

Handled ==
  \A c \in Conn :
    /\ pc[c] \in OneChatSteps => js[c].user \in dest[js[c].msg]
    /\ pc[c] = "groupChat" => Members(js[c].user) \subseteq dest[js[c].msg]
    /\ pc[c] \in GroupSteps =>
         \A i \in DOMAIN idvec[c] : idvec[c][i] \in dest[js[c].msg]

Addressed ==
  /\ Entered /\ Admitted /\ Stored /\ Reading /\ Pushed /\ Asked /\ Handled
  /\ NoMisdelivery

(* Nothing is on its way at the start. *)
LEMMA InitAddressed == Init => Addressed
BY ServiceAssumption
   DEF Init, BusInit, Addressed, Entered, Admitted, Stored, Reading, Pushed,
       Asked, Handled, NoMisdelivery, NoRequest, InSession, LoginSteps,
       OneChatSteps, GroupSteps, MemberSteps

-----------------------------------------------------------------------------
(* The operators the handlers are built from.                              *)

(* An element of a longer sequence is the new one or an old one. *)
LEMMA AppendElement ==
  ASSUME NEW S, NEW q \in Seq(S), NEW x \in S, NEW i \in DOMAIN Append(q, x)
  PROVE  \/ Append(q, x)[i] = x
         \/ i \in DOMAIN q /\ Append(q, x)[i] = q[i]
OBVIOUS

(* What is left of a sequence was in it. *)
LEMMA TailElement ==
  ASSUME NEW S, NEW q \in Seq(S), q # <<>>, NEW i \in DOMAIN Tail(q)
  PROVE  i + 1 \in DOMAIN q /\ Tail(q)[i] = q[i + 1]
OBVIOUS

(* So was what is left after several elements are taken. *)
LEMMA LaterElement ==
  ASSUME NEW S, NEW q \in Seq(S), NEW n \in Nat, n <= Len(q),
         NEW i \in DOMAIN SubSeq(q, n + 1, Len(q))
  PROVE  i + n \in DOMAIN q /\ SubSeq(q, n + 1, Len(q))[i] = q[i + n]
<1>1. /\ Len(SubSeq(q, n + 1, Len(q))) = Len(q) - n
      /\ \A k \in 1..(Len(q) - n) : SubSeq(q, n + 1, Len(q))[k] = q[k + n]
  OBVIOUS
<1>2. SubSeq(q, n + 1, Len(q)) \in Seq(S) OBVIOUS
<1>3. i \in 1..(Len(q) - n) BY <1>1, <1>2
<1>4. QED BY <1>1, <1>3

(* A message pushed to a connection of an addressee is not misdelivered. *)
LEMMA Push_Delivered ==
  ASSUME TypeOK, NoMisdelivery, NEW c \in Conn, NEW ms \in Seq(Msg),
         Push(c, ms),
         \A i \in DOMAIN ms : dest[ms[i]] \cap logins[c] # {},
         UNCHANGED <<dest, logins>>
  PROVE  NoMisdelivery'
<1>1. ASSUME NEW d \in Conn, NEW i \in DOMAIN got'[d]
      PROVE  dest[got'[d][i]] \cap logins[d] # {}
  <2>1. CASE d # c \/ link[c] # "open"
    <3>1. got'[d] = got[d] BY <2>1 DEF TypeOK, Push
    <3>2. QED BY <1>1, <3>1 DEF NoMisdelivery
  <2>2. CASE d = c /\ link[c] = "open"
    <3>1. got'[d] = got[c] \o ms BY <2>2 DEF TypeOK, Push
    <3>2. got[c] \in Seq(Msg) BY DEF TypeOK
    <3>3. CASE i \in DOMAIN got[c]
      <4>1. got'[d][i] = got[c][i] BY <3>1, <3>2, <3>3
      <4>2. QED BY <2>2, <3>3, <4>1 DEF NoMisdelivery
    <3>4. CASE i \notin DOMAIN got[c]
      <4>1. /\ i - Len(got[c]) \in DOMAIN ms
            /\ got'[d][i] = ms[i - Len(got[c])]
        BY <1>1, <3>1, <3>2, <3>4
      <4>2. QED BY <2>2, <4>1
    <3>5. QED BY <3>3, <3>4
  <2>3. QED BY <2>1, <2>2
<1>2. QED BY <1>1 DEF NoMisdelivery

(* An entry that is erased leaves the others. *)
LEMMA Erase_Entered ==
  ASSUME TypeOK, Entered, NEW s \in Server, NEW U, Erase(s, U), UNCHANGED logins
  PROVE  Entered'
BY DEF TypeOK, Entered, Erase

(* A message stored for an addressee is stored right. *)
LEMMA Store_Stored ==
  ASSUME TypeOK, Stored, NEW u \in User, NEW m \in Msg, StoreOffline(u, m),
         u \in dest[m], UNCHANGED dest
  PROVE  Stored'
<1>1. ASSUME NEW v \in User, NEW i \in DOMAIN offline'[v]
      PROVE  v \in dest[offline'[v][i]]
  <2>1. CASE v # u
    <3>1. offline'[v] = offline[v] BY <2>1 DEF TypeOK, StoreOffline
    <3>2. QED BY <1>1, <3>1 DEF Stored
  <2>2. CASE v = u
    <3>1. offline'[v] = Append(offline[u], m) BY <2>2 DEF TypeOK, StoreOffline
    <3>2. offline[u] \in Seq(Msg) BY DEF TypeOK
    <3>3. \/ offline'[v][i] = m
          \/ i \in DOMAIN offline[u] /\ offline'[v][i] = offline[u][i]
      BY <1>1, <3>1, <3>2, AppendElement
    <3>4. QED BY <2>2, <3>3 DEF Stored
  <2>3. QED BY <2>1, <2>2
<1>2. QED BY <1>1 DEF Stored

(* A message published on the channel of an addressee is pushed right. *)
LEMMA Publish_Pushed ==
  ASSUME TypeOK, Pushed, NEW u \in User, NEW m \in Msg, publish(u, m),
         u \in dest[m], UNCHANGED dest
  PROVE  Pushed'
<1>1. ASSUME NEW s \in Server, NEW i \in DOMAIN inbox'[s]
      PROVE  inbox'[s][i].channel \in dest[inbox'[s][i].msg]
  <2>1. CASE s \notin subs[u]
    <3>1. inbox'[s] = inbox[s] BY <2>1 DEF publish
    <3>2. QED BY <1>1, <3>1 DEF Pushed
  <2>2. CASE s \in subs[u]
    <3> DEFINE n == [channel |-> u, msg |-> m]
    <3>1. inbox'[s] = Append(inbox[s], n) BY <2>2 DEF publish
    <3>2. inbox[s] \in Seq(Notice) BY DEF TypeOK, BusTypeOK
    <3>3. n \in Notice BY DEF Notice
    <3>4. \/ inbox'[s][i] = n
          \/ i \in DOMAIN inbox[s] /\ inbox'[s][i] = inbox[s][i]
      BY <1>1, <3>1, <3>2, <3>3, AppendElement
    <3>5. QED BY <3>4 DEF Pushed
  <2>3. QED BY <2>1, <2>2
<1>2. QED BY <1>1 DEF Pushed

(* A connection that is done with chats and logins has no addressee. *)
LEMMA Leave_Handled ==
  ASSUME TypeOK, Admitted, Reading, Handled, NEW c \in Conn,
         NEW step \in {"idle", "logout_unsubscribe", "logout_offline",
                       "close_unsubscribe", "close_offline"},
         Goto(c, step), UNCHANGED dest, vec'[c] = <<>>,
         \A d \in Conn : logins[d] \subseteq logins'[d],
         \A d \in Conn \ {c} :
           idvec'[d] = idvec[d] /\ vec'[d] = vec[d] /\ js'[d] = js[d]
  PROVE  Admitted' /\ Reading' /\ Handled'
<1>1. pc'[c] = step /\ \A d \in Conn \ {c} : pc'[d] = pc[d]
  BY DEF TypeOK, Goto
<1>2. Admitted' BY <1>1 DEF Admitted, InSession, LoginSteps
<1>3. Reading' BY <1>1 DEF Reading
<1>4. Handled' BY <1>1 DEF Handled, OneChatSteps, GroupSteps, MemberSteps
<1>5. QED BY <1>2, <1>3, <1>4

(* So has one whose handler ends. *)
LEMMA Done_Handled ==
  ASSUME TypeOK, Admitted, Reading, Handled, NEW c \in Conn, Done(c),
         UNCHANGED dest, vec'[c] = <<>>,
         \A d \in Conn : logins[d] \subseteq logins'[d],
         \A d \in Conn \ {c} : idvec'[d] = idvec[d] /\ vec'[d] = vec[d]
  PROVE  Admitted' /\ Reading' /\ Handled'
<1>1. Goto(c, "idle") /\ \A d \in Conn \ {c} : js'[d] = js[d]
  BY DEF Done, TypeOK
<1>2. QED BY <1>1, Leave_Handled

(* A handler that goes on keeps what it knows of its addressees. *)
LEMMA Goto_Handled ==
  ASSUME TypeOK, Admitted, Reading, Handled, NEW c \in Conn,
         NEW step \in Step \ {"groupChat"}, Goto(c, step),
         UNCHANGED <<js, dest>>,
         \A d \in Conn : logins[d] \subseteq logins'[d],
         \A d \in Conn \ {c} : idvec'[d] = idvec[d] /\ vec'[d] = vec[d],
         step \in InSession => js[c].user \in logins'[c],
         step \in OneChatSteps => js[c].user \in dest[js[c].msg],
         step \in GroupSteps =>
           \A i \in DOMAIN idvec'[c] : idvec'[c][i] \in dest[js[c].msg],
         step \notin {"login_remove", "login_reply"} => vec'[c] = <<>>,
         \A i \in DOMAIN vec'[c] : js[c].user \in dest[vec'[c][i]]
  PROVE  Admitted' /\ Reading' /\ Handled'
<1>1. pc'[c] = step /\ \A d \in Conn \ {c} : pc'[d] = pc[d]
  BY DEF TypeOK, Goto
<1>2. Admitted' BY <1>1 DEF Admitted
<1>3. Reading' BY <1>1 DEF Reading
<1>4. Handled' BY <1>1 DEF Handled
<1>5. QED BY <1>2, <1>3, <1>4

(* A request stays about its addressees when messages get more of them. *)
LEMMA About_Kept ==
  ASSUME NEW r \in Request, WellFormed(r), About(r, dest),
         \A k \in Msg : dest[k] \subseteq dest'[k]
  PROVE  About(r, dest')
BY DEF About, WellFormed

(* A request sent about its addressees, the old ones keeping theirs. *)
LEMMA Send_Asked ==
  ASSUME TypeOK, Stages, Asked, NEW c \in Conn,
         NEW op \in {"login", "logout", "oneChat", "groupChat"},
         NEW u \in Channel, NEW m \in Msg \cup {NoMsg}, NEW pwd \in BOOLEAN,
         Send(c, op, u, m, pwd),
         \A k \in Msg : dest[k] \subseteq dest'[k],
         op = "oneChat" => u \in dest'[m],
         op = "groupChat" => Members(u) \subseteq dest'[m]
  PROVE  Asked'
<1> DEFINE r == [op |-> op, user |-> u, msg |-> m, pwd |-> pwd]
<1>1. About(r, dest') BY DEF About
<1>2. r \in Request BY DEF Request
<1>3. ASSUME NEW d \in Conn, NEW i \in DOMAIN reqs'[d]
      PROVE  About(reqs'[d][i], dest')
  <2>1. reqs[d] \in Seq(Request) BY DEF TypeOK
  <2>2. CASE i \in DOMAIN reqs[d] /\ reqs'[d][i] = reqs[d][i]
    <3>1. About(reqs[d][i], dest) BY <2>2 DEF Asked
    <3>2. WellFormed(reqs[d][i]) BY <2>2 DEF Stages, Formed
    <3>3. reqs[d][i] \in Request BY <2>1, <2>2
    <3>4. About(reqs[d][i], dest') BY <3>1, <3>2, <3>3, About_Kept
    <3>5. QED BY <2>2, <3>4
  <2>3. CASE d # c
    <3>1. reqs'[d] = reqs[d] BY <2>3 DEF TypeOK, Send
    <3>2. QED BY <1>3, <2>2, <3>1
  <2>4. CASE d = c
    <3>1. reqs'[d] = Append(reqs[d], r) BY <2>4 DEF TypeOK, Send
    <3>2. \/ reqs'[d][i] = r
          \/ i \in DOMAIN reqs[d] /\ reqs'[d][i] = reqs[d][i]
      BY <1>2, <1>3, <2>1, <3>1, AppendElement
    <3>3. QED BY <1>1, <2>2, <3>2
  <2>5. QED BY <2>3, <2>4
<1>4. QED BY <1>3 DEF Asked

(***************************************************************************)
(* What a step leaves alone stays addressed, though messages get           *)
(* addressees and users log in.                                            *)
(***************************************************************************)
LEMMA Kept ==
  ASSUME TypeOK, Stages, Addressed,
         \A m \in Msg : dest[m] \subseteq dest'[m],
         \A c \in Conn : logins[c] \subseteq logins'[c]
  PROVE  /\ UNCHANGED userConnMap => Entered'
         /\ UNCHANGED offline => Stored'
         /\ UNCHANGED inbox => Pushed'
         /\ UNCHANGED reqs => Asked'
         /\ UNCHANGED got => NoMisdelivery'
         /\ UNCHANGED <<pc, js>> => Admitted'
         /\ UNCHANGED <<pc, js, vec>> => Reading'
         /\ UNCHANGED <<pc, js, idvec>> => Handled'
<1>1. ASSUME UNCHANGED userConnMap PROVE Entered'
  BY <1>1 DEF TypeOK, Addressed, Entered
<1>2. ASSUME UNCHANGED offline PROVE Stored'
  BY <1>2 DEF TypeOK, Addressed, Stored
<1>3. ASSUME UNCHANGED inbox PROVE Pushed'
  <2>1. ASSUME NEW s \in Server, NEW i \in DOMAIN inbox[s]
        PROVE  inbox[s][i].channel \in dest'[inbox[s][i].msg]
    <3>1. inbox[s] \in Seq(Notice) BY DEF TypeOK, BusTypeOK
    <3>2. inbox[s][i] \in Notice BY <3>1
    <3>3. inbox[s][i].msg \in Msg BY <3>2 DEF Notice
    <3>4. QED BY <3>3 DEF Addressed, Pushed
  <2>2. QED BY <1>3, <2>1 DEF Pushed
<1>4. ASSUME UNCHANGED reqs PROVE Asked'
  <2>1. ASSUME NEW c \in Conn, NEW i \in DOMAIN reqs[c]
        PROVE  About(reqs[c][i], dest')
    <3>1. About(reqs[c][i], dest) BY DEF Addressed, Asked
    <3>2. WellFormed(reqs[c][i]) BY DEF Stages, Formed
    <3>3. reqs[c] \in Seq(Request) BY DEF TypeOK
    <3>4. reqs[c][i] \in Request BY <3>3
    <3>5. QED BY <3>1, <3>2, <3>4, About_Kept
  <2>2. QED BY <1>4, <2>1 DEF Asked
<1>5. ASSUME UNCHANGED got PROVE NoMisdelivery'
  <2>1. ASSUME NEW c \in Conn, NEW i \in DOMAIN got[c]
        PROVE  dest'[got[c][i]] \cap logins'[c] # {}
    <3>1. got[c] \in Seq(Msg) BY DEF TypeOK
    <3>2. got[c][i] \in Msg BY <3>1
    <3>3. dest[got[c][i]] \cap logins[c] # {} BY DEF Addressed, NoMisdelivery
    <3>4. QED BY <3>2, <3>3
  <2>2. QED BY <1>5, <2>1 DEF NoMisdelivery
<1>6. ASSUME UNCHANGED <<pc, js>> PROVE Admitted'
  BY <1>6 DEF Addressed, Admitted
<1>7. ASSUME UNCHANGED <<pc, js, vec>> PROVE Reading'
  BY <1>7 DEF TypeOK, Addressed, Reading
<1>8. ASSUME UNCHANGED <<pc, js, idvec>> PROVE Handled'
  <2>1. ASSUME NEW c \in Conn
        PROVE  /\ pc[c] \in OneChatSteps => js[c].user \in dest'[js[c].msg]
               /\ pc[c] = "groupChat" =>
                    Members(js[c].user) \subseteq dest'[js[c].msg]
               /\ pc[c] \in GroupSteps =>
                    \A i \in DOMAIN idvec[c] : idvec[c][i] \in dest'[js[c].msg]
    <3>1. pc[c] \in OneChatSteps \cup {"groupChat"} \cup GroupSteps
            => js[c].msg \in Msg
      BY DEF Stages, MsgKnown, ChatSteps, OneChatSteps, GroupSteps, MemberSteps
    <3>2. QED BY <3>1 DEF Addressed, Handled
  <2>2. QED BY <1>8, <2>1 DEF Handled
<1>9. QED BY <1>1, <1>2, <1>3, <1>4, <1>5, <1>6, <1>7, <1>8

-----------------------------------------------------------------------------
(* Every action keeps the messages addressed.                              *)

(* The clients keep them addressed: a request is sent with its addressees. *)
LEMMA Client_Addressed ==
  ASSUME TypeOK, Stages, Addressed, NEW c \in Conn, ClientStep(c)
  PROVE  Addressed'
<1> USE DEF envVars, userVars, mapVars, jobVars, dbVars, busVars
<1>1. CASE Connect(c)
  BY <1>1, Kept DEF Connect, Addressed
<1>2. CASE ClientGone(c)
  BY <1>2, Kept DEF ClientGone, Addressed
<1>3. CASE ClientLogout(c)
  <2>1. me[c] \in Channel BY DEF TypeOK
  <2>2. Asked'
    BY <1>3, <2>1, Send_Asked DEF ClientLogout, Addressed
  <2>3. QED BY <1>3, <2>2, Kept DEF ClientLogout, Send, Addressed
<1>4. ASSUME NEW u \in Uses[c], NEW pwd \in Passwords, ClientLogin(c, u, pwd)
      PROVE  Addressed'
  <2>1. u \in Channel /\ pwd \in BOOLEAN BY ServiceAssumption DEF Channel
  <2>2. Asked'
    BY <1>4, <2>1, Send_Asked DEF ClientLogin, Addressed
  <2>3. QED BY <1>4, <2>2, Kept DEF ClientLogin, Send, Addressed
<1>5. ASSUME NEW u \in User, NEW m \in Msg, ClientChat(c, u, m)
      PROVE  Addressed'
  <2>1. u \in dest'[m] /\ \A k \in Msg : dest[k] \subseteq dest'[k]
    BY <1>5 DEF ClientChat, TypeOK
  <2>2. Send(c, "oneChat", u, m, FALSE) /\ u \in Channel
    BY <1>5 DEF ClientChat, Channel
  <2>3. Asked' BY <2>1, <2>2, Send_Asked DEF Addressed
  <2>4. UNCHANGED <<userConnMap, offline, inbox, got, pc, js, vec, idvec,
                    logins>>
    BY <2>2 DEF Send
  <2>5. QED BY <2>1, <2>3, <2>4, Kept DEF Addressed
<1>6. ASSUME NEW m \in Msg, ClientGroupChat(c, m)
      PROVE  Addressed'
  <2>1. /\ Members(me[c]) \subseteq dest'[m]
        /\ \A k \in Msg : dest[k] \subseteq dest'[k]
    BY <1>6 DEF ClientGroupChat, TypeOK
  <2>2. Send(c, "groupChat", me[c], m, FALSE) /\ me[c] \in Channel
    BY <1>6 DEF ClientGroupChat, TypeOK
  <2>3. Asked' BY <2>1, <2>2, Send_Asked DEF Addressed
  <2>4. UNCHANGED <<userConnMap, offline, inbox, got, pc, js, vec, idvec,
                    logins>>
    BY <2>2 DEF Send
  <2>5. QED BY <2>1, <2>3, <2>4, Kept DEF Addressed
<1>7. QED BY <1>1, <1>2, <1>3, <1>4, <1>5, <1>6 DEF ClientStep

(* onMessage hands a handler what its request was about. *)
LEMMA Dispatch_Addressed ==
  ASSUME TypeOK, TypeOK', Stages, Addressed, NEW c \in Conn, onMessage(c)
  PROVE  Addressed'
<1>1. /\ reqs[c] \in Seq(Request) /\ reqs[c] # <<>>
      /\ js' = [js EXCEPT ![c] = Head(reqs[c])]
      /\ pc' = [pc EXCEPT ![c] = Head(reqs[c]).op]
      /\ UNCHANGED <<dest, got, logins, userConnMap, offline, inbox, idvec,
                     vec>>
      /\ pc[c] = "idle"
  BY DEF TypeOK, onMessage, Goto, mapVars, dbVars, busVars, At
<1>2. PICK n \in 1..MaxBatch :
        /\ n <= Len(reqs[c])
        /\ reqs' = [reqs EXCEPT ![c] = SubSeq(@, n + 1, Len(@))]
  BY DEF onMessage
<1>3. Head(reqs[c]) = reqs[c][1] /\ 1 \in DOMAIN reqs[c] BY <1>1
<1>4. About(Head(reqs[c]), dest) /\ Head(reqs[c]) \in Request
  BY <1>1, <1>3 DEF Addressed, Asked
<1>5. /\ pc'[c] \in {"login", "logout", "oneChat", "groupChat"}
      /\ js'[c] = Head(reqs[c]) /\ pc'[c] = Head(reqs[c]).op
      /\ \A d \in Conn \ {c} : pc'[d] = pc[d] /\ js'[d] = js[d]
  BY <1>1, <1>4 DEF Request, TypeOK
<1>6. Asked'
  <2>1. ASSUME NEW d \in Conn, NEW i \in DOMAIN reqs'[d]
        PROVE  About(reqs'[d][i], dest)
    <3>1. CASE d # c
      <4>1. reqs'[d] = reqs[d] BY <1>2, <3>1 DEF TypeOK
      <4>2. QED BY <2>1, <4>1 DEF Addressed, Asked
    <3>2. CASE d = c
      <4>1. reqs'[d] = SubSeq(reqs[c], n + 1, Len(reqs[c]))
        BY <1>2, <3>2 DEF TypeOK
      <4>2. n \in Nat /\ n <= Len(reqs[c]) BY <1>2, ServiceAssumption
      <4>3. i + n \in DOMAIN reqs[c] /\ reqs'[d][i] = reqs[c][i + n]
        BY <1>1, <2>1, <4>1, <4>2, LaterElement
      <4>4. QED BY <4>3 DEF Addressed, Asked
    <3>3. QED BY <3>1, <3>2
  <2>2. QED BY <1>1, <2>1 DEF Asked
<1>7. Admitted' BY <1>1, <1>5 DEF Addressed, Admitted, InSession, LoginSteps
<1>8. Reading' BY <1>1, <1>5 DEF Addressed, Reading
<1>9. Handled'
  <2>1. js'[c].user = Head(reqs[c]).user /\ js'[c].msg = Head(reqs[c]).msg
    BY <1>5
  <2>2. /\ pc'[c] \in OneChatSteps => js'[c].user \in dest[js'[c].msg]
        /\ pc'[c] = "groupChat" =>
             Members(js'[c].user) \subseteq dest[js'[c].msg]
        /\ pc'[c] \notin GroupSteps
    BY <1>4, <1>5 DEF About, OneChatSteps, GroupSteps, MemberSteps
  <2>3. QED BY <1>1, <1>5, <2>2 DEF Addressed, Handled
<1>10. QED BY <1>1, <1>6, <1>7, <1>8, <1>9, Kept DEF Addressed

(* login lets in only who gave the right password, and reads his messages. *)
LEMMA Login_Addressed ==
  ASSUME TypeOK, Stages, Addressed, NEW c \in Conn, LoginStep(c)
  PROVE  Addressed'
<1> USE DEF envVars, userVars, mapVars, jobVars, dbVars, busVars
<1> DEFINE u == js[c].user
<1>1. Admitted /\ Reading /\ Handled /\ NoMisdelivery BY DEF Addressed
<1>2. CASE login(c)
  <2>1. /\ UNCHANGED <<dest, userConnMap, offline, inbox, reqs, got, idvec,
                       vec>>
        /\ vec[c] = <<>>
    BY <1>1, <1>2 DEF login, At, Reading
  <2>2. \A d \in Conn : logins[d] \subseteq logins'[d]
    <3>1. CASE js[c].pwd
      <4>1. logins' = [logins EXCEPT ![c] = @ \cup {u}]
        BY <1>2, <3>1 DEF login
      <4>2. QED BY <4>1 DEF TypeOK
    <3>2. CASE ~js[c].pwd BY <1>2, <3>2 DEF login
    <3>3. QED BY <3>1, <3>2
  <2>3. Admitted' /\ Reading' /\ Handled'
    <3>1. CASE Goto(c, "login_insert") /\ UNCHANGED js /\ js[c].pwd
      <4>1. u \in logins'[c] BY <1>2, <3>1 DEF login, TypeOK
      <4>2. QED
        BY <1>1, <2>1, <2>2, <3>1, <4>1, Goto_Handled
           DEF Step, SessionSteps, OneChatSteps, GroupSteps, MemberSteps
    <3>2. CASE Done(c) BY <1>1, <2>1, <2>2, <3>2, Done_Handled
    <3>3. QED BY <1>2, <3>1, <3>2 DEF login, Reply
  <2>4. QED BY <2>1, <2>2, <2>3, Kept DEF Addressed
<1>3. CASE login_insert(c)
  <2>1. /\ UNCHANGED <<dest, logins, offline, inbox, reqs, got, js, idvec, vec>>
        /\ Goto(c, "login_subscribe") /\ pc[c] = "login_insert"
    BY <1>3 DEF login_insert, At
  <2>2. u \in logins[c] /\ vec[c] = <<>>
    BY <1>1, <2>1 DEF Admitted, Reading, InSession, LoginSteps
  <2>3. Entered'
    BY <1>3, <2>1, <2>2 DEF login_insert, Addressed, Entered, TypeOK
  <2>4. Admitted' /\ Reading' /\ Handled'
    BY <1>1, <2>1, <2>2, Goto_Handled
       DEF Step, SessionSteps, OneChatSteps, GroupSteps, MemberSteps
  <2>5. QED BY <2>1, <2>3, <2>4, Kept DEF Addressed
<1>4. CASE login_subscribe(c)
  <2>1. /\ UNCHANGED <<dest, logins, userConnMap, offline, inbox, reqs, got, js,
                       idvec, vec>>
        /\ Goto(c, "login_inline") /\ pc[c] = "login_subscribe"
    BY <1>4 DEF login_subscribe, At, subscribe, WriteCommand
  <2>2. u \in logins[c] /\ vec[c] = <<>>
    BY <1>1, <2>1 DEF Admitted, Reading, InSession, LoginSteps
  <2>3. Admitted' /\ Reading' /\ Handled'
    BY <1>1, <2>1, <2>2, Goto_Handled
       DEF Step, SessionSteps, OneChatSteps, GroupSteps, MemberSteps
  <2>4. QED BY <2>1, <2>3, Kept DEF Addressed
<1>5. CASE login_inline(c)
  <2>1. /\ UNCHANGED <<dest, logins, userConnMap, offline, inbox, reqs, got, js,
                       idvec, vec>>
        /\ Goto(c, "login_query") /\ pc[c] = "login_inline"
    BY <1>5 DEF login_inline, At
  <2>2. u \in logins[c] /\ vec[c] = <<>>
    BY <1>1, <2>1 DEF Admitted, Reading, InSession, LoginSteps
  <2>3. Admitted' /\ Reading' /\ Handled'
    BY <1>1, <2>1, <2>2, Goto_Handled
       DEF Step, SessionSteps, OneChatSteps, GroupSteps, MemberSteps
  <2>4. QED BY <2>1, <2>3, Kept DEF Addressed
<1>6. CASE login_query(c)
  <2>1. /\ UNCHANGED <<dest, logins, userConnMap, offline, inbox, reqs, got, js,
                       idvec>>
        /\ vec' = [vec EXCEPT ![c] = offline[u]] /\ pc[c] = "login_query"
    BY <1>6 DEF login_query, At
  <2>2. u \in logins[c] /\ u \in User
    BY <1>1, <2>1 DEF Admitted, InSession, LoginSteps, Stages, UserKnown
  <2>3. /\ vec'[c] = offline[u] /\ \A d \in Conn \ {c} : vec'[d] = vec[d]
        /\ \A i \in DOMAIN vec'[c] : u \in dest[vec'[c][i]]
    BY <2>1, <2>2 DEF TypeOK, Addressed, Stored
  <2>4. PICK step \in {"login_remove", "login_reply"} : Goto(c, step)
    BY <1>6 DEF login_query, Goto
  <2>5. Admitted' /\ Reading' /\ Handled'
    BY <1>1, <2>1, <2>2, <2>3, <2>4, Goto_Handled
       DEF Step, SessionSteps, OneChatSteps, GroupSteps, MemberSteps
  <2>6. QED BY <2>1, <2>5, Kept DEF Addressed
<1>7. CASE login_remove(c)
  <2>1. /\ UNCHANGED <<dest, logins, userConnMap, inbox, reqs, got, js, idvec,
                       vec>>
        /\ Goto(c, "login_reply") /\ pc[c] = "login_remove"
        /\ offline' = [offline EXCEPT ![u] = <<>>]
    BY <1>7 DEF login_remove, At
  <2>2. Stored' BY <2>1 DEF TypeOK, Addressed, Stored
  <2>3. u \in logins[c] /\ \A i \in DOMAIN vec[c] : u \in dest[vec[c][i]]
    BY <1>1, <2>1 DEF Admitted, Reading, InSession, LoginSteps
  <2>4. Admitted' /\ Reading' /\ Handled'
    BY <1>1, <2>1, <2>3, Goto_Handled
       DEF Step, SessionSteps, OneChatSteps, GroupSteps, MemberSteps
  <2>5. QED BY <2>1, <2>2, <2>4, Kept DEF Addressed
<1>8. CASE login_reply(c)
  <2>1. /\ UNCHANGED <<dest, logins, userConnMap, offline, inbox, reqs, idvec>>
        /\ Push(c, vec[c]) /\ Done(c) /\ pc[c] = "login_reply"
        /\ vec' = [vec EXCEPT ![c] = <<>>]
    BY <1>8 DEF login_reply, At, Reply
  <2>2. u \in logins[c] /\ \A i \in DOMAIN vec[c] : u \in dest[vec[c][i]]
    BY <1>1, <2>1 DEF Admitted, Reading, InSession, LoginSteps
  <2>3. vec[c] \in Seq(Msg) BY DEF TypeOK
  <2>4. NoMisdelivery' BY <1>1, <2>1, <2>2, <2>3, Push_Delivered
  <2>5. vec'[c] = <<>> /\ \A d \in Conn \ {c} : vec'[d] = vec[d]
    BY <2>1 DEF TypeOK
  <2>6. Admitted' /\ Reading' /\ Handled'
    BY <1>1, <2>1, <2>5, Done_Handled
  <2>7. QED BY <2>1, <2>4, <2>6, Kept DEF Addressed
<1>9. QED
  BY LoginStep(c), <1>2, <1>3, <1>4, <1>5, <1>6, <1>7, <1>8 DEF LoginStep

(* logout and close only forget. *)
LEMMA Leave_Addressed ==
  ASSUME TypeOK, Stages, Addressed, NEW c \in Conn, LeaveStep(c)
  PROVE  Addressed'
<1> USE DEF envVars, userVars, mapVars, jobVars, dbVars, busVars
<1> DEFINE Steps == {"idle", "logout_unsubscribe", "logout_offline",
                     "close_unsubscribe", "close_offline"}
<1>1. /\ UNCHANGED <<dest, logins, offline, inbox, got, idvec, vec>>
      /\ pc[c] \in Steps \cup {"logout"}
      /\ \E step \in Steps : Goto(c, step)
      /\ \A d \in Conn \ {c} : js'[d] = js[d]
  BY LeaveStep(c)
     DEF LeaveStep, logout, logout_unsubscribe, logout_offline, unsubscribe,
         ClientCloseException, close_unsubscribe, close_offline, WriteCommand,
         At, Done, Closed, TypeOK
<1>2. Admitted' /\ Reading' /\ Handled'
  <2>1. vec[c] = <<>> BY <1>1 DEF Addressed, Reading
  <2>2. QED BY <1>1, <2>1, Leave_Handled DEF Addressed
<1>3. Asked'
  <2>1. CASE UNCHANGED reqs BY <1>1, <2>1, Kept
  <2>2. CASE reqs' = [reqs EXCEPT ![c] = <<>>]
    BY <1>1, <2>2 DEF TypeOK, Addressed, Asked
  <2>3. QED
    BY <2>1, <2>2, LeaveStep(c)
       DEF LeaveStep, logout, logout_unsubscribe, logout_offline,
           ClientCloseException, close_unsubscribe, close_offline
<1>4. Entered'
  <2>1. CASE UNCHANGED userConnMap BY <1>1, <2>1, Kept
  <2>2. CASE \E U : Erase(at[c], U) /\ link[c] # "new"
    BY <1>1, <2>2, Erase_Entered DEF Addressed, Stages, Placed
  <2>3. QED
    BY <2>1, <2>2, LeaveStep(c)
       DEF LeaveStep, logout, logout_unsubscribe, logout_offline, At, Alive,
           ClientCloseException, close_unsubscribe, close_offline
<1>5. QED BY <1>1, <1>2, <1>3, <1>4, Kept DEF Addressed

(* oneChat sends, publishes and stores its message for its addressee. *)
LEMMA OneChat_Addressed ==
  ASSUME TypeOK, Stages, Addressed, NEW c \in Conn,
         oneChat(c) \/ oneChat_query(c) \/ oneChat_publish(c)
           \/ oneChat_insert(c)
  PROVE  Addressed'
<1> USE DEF envVars, userVars, mapVars, jobVars, dbVars, busVars
<1> DEFINE u == js[c].user
           m == js[c].msg
<1>1. /\ UNCHANGED <<dest, logins, userConnMap, reqs, idvec, vec>>
      /\ pc[c] \in OneChatSteps /\ link[c] # "new"
  BY DEF oneChat, oneChat_query, oneChat_publish, oneChat_insert, At, Alive,
         OneChatSteps
<1>2. u \in User /\ m \in Msg /\ u \in dest[m] /\ vec[c] = <<>>
  <2>1. u \in User BY <1>1 DEF Stages, UserKnown, OneChatSteps, ChatSteps
  <2>2. m \in Msg BY <1>1 DEF Stages, MsgKnown, OneChatSteps, ChatSteps
  <2>3. u \in dest[m] BY <1>1 DEF Addressed, Handled
  <2>4. vec[c] = <<>> BY <1>1 DEF Addressed, Reading, OneChatSteps
  <2>5. QED BY <2>1, <2>2, <2>3, <2>4
<1>3. ASSUME Done(c) PROVE Admitted' /\ Reading' /\ Handled'
  BY <1>1, <1>2, <1>3, Done_Handled DEF Addressed
<1>4. ASSUME NEW step \in OneChatSteps, Goto(c, step), UNCHANGED js
      PROVE  Admitted' /\ Reading' /\ Handled'
  BY <1>1, <1>2, <1>4, Goto_Handled
     DEF Addressed, Step, ChatSteps, SessionSteps, OneChatSteps, GroupSteps,
         MemberSteps, InSession, LoginSteps
<1>5. CASE oneChat(c)
  <2> DEFINE d == Here(c)[u]
  <2>1. UNCHANGED <<offline, inbox>> BY <1>5 DEF oneChat
  <2>2. CASE d # NoConn
    <3>1. Push(d, <<m>>) /\ Done(c) BY <1>5, <2>2 DEF oneChat
    <3>2. d \in Conn /\ u \in logins[d]
      BY <1>1, <1>2, <2>2 DEF Here, TypeOK, Stages, Placed, Addressed, Entered
    <3>3. <<m>> \in Seq(Msg) /\ \A i \in DOMAIN <<m>> : <<m>>[i] = m BY <1>2
    <3>4. \A i \in DOMAIN <<m>> : dest[<<m>>[i]] \cap logins[d] # {}
      BY <1>2, <3>2, <3>3
    <3>5. NoMisdelivery' BY <1>1, <3>1, <3>2, <3>3, <3>4, Push_Delivered
                            DEF Addressed
    <3>6. QED BY <1>1, <1>3, <2>1, <3>1, <3>5, Kept DEF Addressed
  <2>3. CASE d = NoConn
    <3>1. Goto(c, "oneChat_query") /\ UNCHANGED <<js, got>>
      BY <1>5, <2>3 DEF oneChat
    <3>2. QED BY <1>1, <1>4, <2>1, <3>1, Kept DEF Addressed, OneChatSteps
  <2>4. QED BY <2>2, <2>3
<1>6. CASE oneChat_query(c)
  <2>1. PICK step \in OneChatSteps : Goto(c, step)
    BY <1>6 DEF oneChat_query, OneChatSteps
  <2>2. UNCHANGED <<js, offline, inbox, got>> BY <1>6 DEF oneChat_query
  <2>3. QED BY <1>1, <1>4, <2>1, <2>2, Kept DEF Addressed
<1>7. CASE oneChat_publish(c)
  <2>1. publish(u, m) /\ Done(c) /\ UNCHANGED <<offline, got>>
    BY <1>7 DEF oneChat_publish
  <2>2. Pushed' BY <1>1, <1>2, <2>1, Publish_Pushed DEF Addressed
  <2>3. QED BY <1>1, <1>3, <2>1, <2>2, Kept DEF Addressed
<1>8. CASE oneChat_insert(c)
  <2>1. StoreOffline(u, m) /\ Done(c) /\ UNCHANGED <<inbox, got>>
    BY <1>8 DEF oneChat_insert
  <2>2. Stored' BY <1>1, <1>2, <2>1, Store_Stored DEF Addressed
  <2>3. QED BY <1>1, <1>3, <2>1, <2>2, Kept DEF Addressed
<1>9. QED BY <1>5, <1>6, <1>7, <1>8

(* groupChat does so for the members it has still to serve. *)
LEMMA GroupChat_Addressed ==
  ASSUME TypeOK, Stages, Addressed, NEW c \in Conn,
         groupChat(c) \/ group_lock(c) \/ group_next(c) \/ group_query(c)
           \/ group_publish(c) \/ group_insert(c)
  PROVE  Addressed'
<1> USE DEF envVars, userVars, mapVars, jobVars, dbVars, busVars
<1> DEFINE m == js[c].msg
           v == Head(idvec[c])
           Rest(ids) == \A i \in DOMAIN ids : ids[i] \in dest[m]
<1>1. /\ UNCHANGED <<dest, logins, userConnMap, reqs, vec>>
      /\ pc[c] \in GroupSteps \cup {"groupChat"} /\ link[c] # "new"
  BY DEF groupChat, group_lock, group_next, group_query, group_publish,
         group_insert, At, Alive, GroupSteps, MemberSteps
<1>2. m \in Msg /\ vec[c] = <<>>
  <2>1. m \in Msg
    BY <1>1 DEF Stages, MsgKnown, GroupSteps, MemberSteps, ChatSteps
  <2>2. vec[c] = <<>> BY <1>1 DEF Addressed, Reading, GroupSteps, MemberSteps
  <2>3. QED BY <2>1, <2>2
<1>3. pc[c] \in GroupSteps => Rest(idvec[c]) BY DEF Addressed, Handled
<1>4. ASSUME Done(c), \A d \in Conn \ {c} : idvec'[d] = idvec[d]
      PROVE  Admitted' /\ Reading' /\ Handled'
  BY <1>1, <1>2, <1>4, Done_Handled DEF Addressed
<1>5. ASSUME NEW step \in GroupSteps, Goto(c, step), UNCHANGED js,
             Rest(idvec'[c]), \A d \in Conn \ {c} : idvec'[d] = idvec[d]
      PROVE  Admitted' /\ Reading' /\ Handled'
  BY <1>1, <1>2, <1>5, Goto_Handled
     DEF Addressed, Step, ChatSteps, SessionSteps, OneChatSteps, GroupSteps,
         MemberSteps, InSession, LoginSteps
<1>6. ASSUME idvec[c] # <<>>, pc[c] \in GroupSteps
      PROVE  v \in User /\ v \in dest[m] /\ Rest(Tail(idvec[c]))
  <2>1. idvec[c] \in Seq(User) BY DEF TypeOK
  <2>2. v = idvec[c][1] /\ 1 \in DOMAIN idvec[c] BY <1>6, <2>1
  <2>3. v \in User BY <1>6, <2>1
  <2>4. \A i \in DOMAIN Tail(idvec[c]) :
          i + 1 \in DOMAIN idvec[c] /\ Tail(idvec[c])[i] = idvec[c][i + 1]
    BY <1>6, <2>1, TailElement
  <2>5. QED BY <1>3, <1>6, <2>2, <2>3, <2>4
<1>7. CASE groupChat(c)
  <2>1. /\ UNCHANGED <<js, offline, inbox, got>> /\ Goto(c, "group_lock")
        /\ idvec' = [idvec EXCEPT ![c] = MembersExcept[js[c].user]]
        /\ pc[c] = "groupChat"
    BY <1>7 DEF groupChat, At
  <2>2. Members(js[c].user) \subseteq dest[m] BY <2>1 DEF Addressed, Handled
  <2>3. idvec'[c] = MembersExcept[js[c].user] BY <2>1 DEF TypeOK
  <2>4. Rest(idvec'[c]) BY <2>2, <2>3 DEF Members
  <2>5. \A d \in Conn \ {c} : idvec'[d] = idvec[d] BY <2>1 DEF TypeOK
  <2>6. Admitted' /\ Reading' /\ Handled'
    BY <1>5, <2>1, <2>4, <2>5 DEF GroupSteps
  <2>7. QED BY <1>1, <2>1, <2>6, Kept DEF Addressed
<1>8. CASE group_lock(c)
  <2>1. /\ UNCHANGED <<js, idvec, offline, inbox, got>> /\ Goto(c, "group_next")
        /\ pc[c] \in GroupSteps
    BY <1>8 DEF group_lock, At, GroupSteps
  <2>2. Admitted' /\ Reading' /\ Handled'
    BY <1>3, <1>5, <2>1 DEF GroupSteps
  <2>3. QED BY <1>1, <2>1, <2>2, Kept DEF Addressed
<1>9. CASE group_next(c)
  <2> DEFINE d == Here(c)[v]
  <2>1. UNCHANGED <<offline, inbox>> /\ pc[c] = "group_next"
    BY <1>9 DEF group_next, At
  <2>2. CASE idvec[c] = <<>>
    <3>1. Done(c) /\ UNCHANGED got /\ idvec' = [idvec EXCEPT ![c] = <<>>]
      BY <1>9, <2>2 DEF group_next, Unlock
    <3>2. \A e \in Conn \ {c} : idvec'[e] = idvec[e] BY <3>1 DEF TypeOK
    <3>3. QED BY <1>1, <1>4, <2>1, <3>1, <3>2, Kept DEF Addressed
  <2>3. CASE idvec[c] # <<>> /\ d # NoConn
    <3>1. /\ Push(d, <<m>>) /\ UNCHANGED <<pc, js>>
          /\ idvec' = [idvec EXCEPT ![c] = Tail(idvec[c])]
      BY <1>9, <2>3 DEF group_next, NextMember
    <3>2. v \in User /\ v \in dest[m] /\ Rest(Tail(idvec[c]))
      BY <1>6, <2>1, <2>3 DEF GroupSteps
    <3>3. d \in Conn /\ v \in logins[d]
      BY <1>1, <2>3, <3>2
         DEF Here, TypeOK, Stages, Placed, Addressed, Entered
    <3>4. <<m>> \in Seq(Msg) /\ \A i \in DOMAIN <<m>> : <<m>>[i] = m BY <1>2
    <3>5. \A i \in DOMAIN <<m>> : dest[<<m>>[i]] \cap logins[d] # {}
      BY <3>2, <3>3, <3>4
    <3>6. NoMisdelivery' BY <1>1, <3>1, <3>3, <3>4, <3>5, Push_Delivered
                            DEF Addressed
    <3>7. /\ idvec'[c] = Tail(idvec[c])
          /\ \A e \in Conn \ {c} : idvec'[e] = idvec[e]
      BY <3>1 DEF TypeOK
    <3>8. Goto(c, "group_next") BY <2>1, <3>1 DEF Goto, TypeOK
    <3>9. Admitted' /\ Reading' /\ Handled'
      BY <1>5, <3>1, <3>2, <3>7, <3>8 DEF GroupSteps
    <3>10. QED BY <1>1, <2>1, <3>6, <3>9, Kept DEF Addressed
  <2>4. CASE idvec[c] # <<>> /\ d = NoConn
    <3>1. Goto(c, "group_query") /\ UNCHANGED <<js, got, idvec>>
      BY <1>9, <2>4 DEF group_next
    <3>2. Admitted' /\ Reading' /\ Handled'
      BY <1>3, <1>5, <2>1, <3>1 DEF GroupSteps, MemberSteps
    <3>3. QED BY <1>1, <2>1, <3>1, <3>2, Kept DEF Addressed
  <2>5. QED BY <2>2, <2>3, <2>4
<1>10. CASE group_query(c)
  <2>1. UNCHANGED <<js, idvec, offline, inbox, got>> /\ pc[c] \in GroupSteps
    BY <1>10 DEF group_query, At, GroupSteps, MemberSteps
  <2>2. PICK step \in GroupSteps : Goto(c, step)
    BY <1>10 DEF group_query, GroupSteps, MemberSteps
  <2>3. Admitted' /\ Reading' /\ Handled' BY <1>3, <1>5, <2>1, <2>2
  <2>4. QED BY <1>1, <2>1, <2>3, Kept DEF Addressed
<1>11. CASE group_publish(c)
  <2>1. /\ publish(v, m) /\ Done(c) /\ UNCHANGED <<offline, got>>
        /\ idvec' = [idvec EXCEPT ![c] = <<>>] /\ pc[c] = "group_publish"
    BY <1>11 DEF group_publish, Unlock, At
  <2>2. v \in User /\ v \in dest[m]
    BY <1>6, <2>1 DEF Stages, MemberLeft, GroupSteps, MemberSteps
  <2>3. Pushed' BY <1>1, <1>2, <2>1, <2>2, Publish_Pushed DEF Addressed
  <2>4. \A e \in Conn \ {c} : idvec'[e] = idvec[e] BY <2>1 DEF TypeOK
  <2>5. QED BY <1>1, <1>4, <2>1, <2>3, <2>4, Kept DEF Addressed
<1>12. CASE group_insert(c)
  <2>1. /\ StoreOffline(v, m) /\ Goto(c, "group_next")
        /\ UNCHANGED <<js, inbox, got>>
        /\ idvec' = [idvec EXCEPT ![c] = Tail(idvec[c])]
        /\ pc[c] = "group_insert"
    BY <1>12 DEF group_insert, NextMember, At
  <2>2. v \in User /\ v \in dest[m] /\ Rest(Tail(idvec[c]))
    BY <1>6, <2>1 DEF Stages, MemberLeft, GroupSteps, MemberSteps
  <2>3. Stored' BY <1>1, <1>2, <2>1, <2>2, Store_Stored DEF Addressed
  <2>4. idvec'[c] = Tail(idvec[c]) /\ \A e \in Conn \ {c} : idvec'[e] = idvec[e]
    BY <2>1 DEF TypeOK
  <2>5. Admitted' /\ Reading' /\ Handled'
    BY <1>5, <2>1, <2>2, <2>4 DEF GroupSteps
  <2>6. QED BY <1>1, <2>1, <2>3, <2>5, Kept DEF Addressed
<1>13. QED BY <1>7, <1>8, <1>9, <1>10, <1>11, <1>12

(* The observer hands a message to the user of its channel. *)
LEMMA Observer_Addressed ==
  ASSUME TypeOK, Stages, Addressed, NEW s \in Server,
         handleRedisSubscribeMessage(s)
  PROVE  Addressed'
<1> USE DEF envVars, userVars, mapVars, jobVars, dbVars
<1> DEFINE n == Head(inbox[s])
           d == userConnMap[s][n.channel]
<1>1. /\ UNCHANGED <<dest, logins, userConnMap, reqs, pc, js, idvec, vec>>
      /\ inbox[s] # <<>> /\ inbox' = [inbox EXCEPT ![s] = Tail(@)]
  BY DEF handleRedisSubscribeMessage, TakeNotice
<1>2. inbox[s] \in Seq(Notice) BY DEF TypeOK, BusTypeOK
<1>3. n \in Notice /\ n = inbox[s][1] /\ 1 \in DOMAIN inbox[s] BY <1>1, <1>2
<1>4. n.channel \in User /\ n.msg \in Msg BY <1>3 DEF Notice
<1>5. n.channel \in dest[n.msg] BY <1>3 DEF Addressed, Pushed
<1>6. Pushed'
  <2>1. ASSUME NEW r \in Server, NEW i \in DOMAIN inbox'[r]
        PROVE  inbox'[r][i].channel \in dest[inbox'[r][i].msg]
    <3>1. CASE r # s
      <4>1. inbox'[r] = inbox[r] BY <1>1, <3>1 DEF TypeOK, BusTypeOK
      <4>2. QED BY <2>1, <4>1 DEF Addressed, Pushed
    <3>2. CASE r = s
      <4>1. inbox'[r] = Tail(inbox[s]) BY <1>1, <3>2 DEF TypeOK, BusTypeOK
      <4>2. i \in DOMAIN Tail(inbox[s]) BY <2>1, <4>1
      <4>3. i + 1 \in DOMAIN inbox[s] /\ inbox'[r][i] = inbox[s][i + 1]
        BY <1>1, <1>2, <4>1, <4>2, TailElement
      <4>4. QED BY <4>3 DEF Addressed, Pushed
    <3>3. QED BY <3>1, <3>2
  <2>2. QED BY <1>1, <2>1 DEF Pushed
<1>7. CASE d # NoConn
  <2>1. Push(d, <<n.msg>>) /\ UNCHANGED offline
    BY <1>7 DEF handleRedisSubscribeMessage
  <2>2. d \in Conn /\ n.channel \in logins[d]
    BY <1>4, <1>7 DEF TypeOK, Addressed, Entered
  <2>3. /\ <<n.msg>> \in Seq(Msg)
        /\ \A i \in DOMAIN <<n.msg>> : <<n.msg>>[i] = n.msg
    BY <1>4
  <2>4. \A i \in DOMAIN <<n.msg>> : dest[<<n.msg>>[i]] \cap logins[d] # {}
    BY <1>5, <2>2, <2>3
  <2>5. NoMisdelivery' BY <1>1, <2>1, <2>2, <2>3, <2>4, Push_Delivered
                          DEF Addressed
  <2>6. QED BY <1>1, <1>6, <2>1, <2>5, Kept DEF Addressed
<1>8. CASE d = NoConn
  <2>1. StoreOffline(n.channel, n.msg) /\ UNCHANGED got
    BY <1>8 DEF handleRedisSubscribeMessage
  <2>2. Stored' BY <1>1, <1>4, <1>5, <2>1, Store_Stored DEF Addressed
  <2>3. QED BY <1>1, <1>6, <2>1, <2>2, Kept DEF Addressed
<1>9. QED BY <1>7, <1>8

(* Redis, and a server that stops or starts, only lose what they hold. *)
LEMMA Process_Addressed ==
  ASSUME TypeOK, Stages, Addressed, NEW s \in Server,
         RedisStep(s) \/ resetHandle(s) \/ exit(s) \/ crash(s) \/ restart(s)
  PROVE  Addressed'
<1> USE DEF envVars, userVars, mapVars, jobVars, dbVars, busVars
<1>1. CASE RedisStep(s)
  BY <1>1, Kept DEF RedisStep, RedisExecute, Addressed
<1>2. CASE resetHandle(s) BY <1>2, Kept DEF resetHandle, Addressed
<1>3. CASE restart(s) BY <1>3, Kept DEF restart, Addressed
<1>4. CASE exit(s) \/ crash(s)
  <2>1. Stop(s) BY <1>4 DEF exit, crash
  <2>2. UNCHANGED <<dest, got, logins, offline>> BY <2>1 DEF Stop
  <2>3. Entered' BY <2>1 DEF Stop, TypeOK, Addressed, Entered
  <2>4. Pushed' BY <2>1 DEF Stop, Detach, TypeOK, BusTypeOK, Addressed, Pushed
  <2>5. Asked' BY <2>1 DEF Stop, Addressed, Asked
  <2>6. Admitted'
    BY <2>1 DEF Stop, Addressed, Admitted, InSession, LoginSteps
  <2>7. Reading' BY <2>1 DEF Stop, Addressed, Reading
  <2>8. Handled'
    BY <2>1 DEF Stop, Addressed, Handled, OneChatSteps, GroupSteps, MemberSteps
  <2>9. QED
    BY <2>2, <2>3, <2>4, <2>5, <2>6, <2>7, <2>8, Kept DEF Addressed
<1>5. QED BY <1>1, <1>2, <1>3, <1>4

(* Every step keeps the messages addressed. *)
LEMMA AddressedStep ==
  ASSUME TypeOK, TypeOK', Stages, Addressed, [Next]_vars
  PROVE  Addressed'
<1>1. ASSUME NEW c \in Conn, WorkerStep(c) PROVE Addressed'
  BY <1>1, Dispatch_Addressed, Login_Addressed, Leave_Addressed,
     OneChat_Addressed, GroupChat_Addressed DEF WorkerStep, ChatStep
<1>2. ASSUME NEW s \in Server, ServerStep(s) PROVE Addressed'
  BY <1>2, Observer_Addressed, Process_Addressed DEF ServerStep
<1>3. CASE UNCHANGED vars
  BY <1>3, Kept DEF vars, envVars, userVars, mapVars, jobVars, dbVars, busVars,
                    Addressed
<1>4. QED BY <1>1, <1>2, <1>3, Client_Addressed DEF Next

(***************************************************************************)
(* However many servers, users, clients, messages and faults there are, a  *)
(* chat message reaches only a connection on which one of the users it was *)
(* addressed to has given the right password.                              *)
(***************************************************************************)
THEOREM DeliveryCorrect == Spec => []NoMisdelivery
<1>1. Init => Addressed BY InitAddressed
<1>2. TypeOK /\ TypeOK' /\ Stages /\ Addressed /\ [Next]_vars => Addressed'
  BY AddressedStep
<1>3. Addressed => NoMisdelivery BY DEF Addressed
<1>4. QED BY <1>1, <1>2, <1>3, TypesHold, PTL DEF Spec
=============================================================================
