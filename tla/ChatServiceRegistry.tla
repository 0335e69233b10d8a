------------------------ MODULE ChatServiceRegistry ------------------------
(***************************************************************************)
(* Proof of RegistryAgreement, InlineHasConnection and NotLost, on top of  *)
(* the sessions of ChatServiceSessions.  Three stores record that a user   *)
(* is connected, and a handler updates them one by one; Redis executes the *)
(* command later still.  RegistryKept says what each of them holds in      *)
(* between: a server is subscribed to a user's channel, or will be when    *)
(* Redis has executed what it wrote, exactly while a connection of it      *)
(* holds him past subscribe and before unsubscribe (SubsHeld), and a user  *)
(* who is inline has an entry or a handler that is about to reset him      *)
(* (InlineHeld).  A handler that finds a user in a map or inline relies on *)
(* it, and so does NotLost.                                                *)
(***************************************************************************)
EXTENDS ChatServiceSessions

(* The steps of logout and close once the entry is erased. *)
UnsubscribeLeft == {"logout_unsubscribe", "close_unsubscribe"}
OfflineLeft == UnsubscribeLeft \cup {"logout_offline", "close_offline"}

(* No command on channel u is behind the first i that s has written. *)
LastOf(s, u, i) ==
  \A j \in DOMAIN cmds[s] : j > i => cmds[s][j].channel # u

(* s is subscribed to u when Redis has executed what s has written. *)
Subscribing(s, u) ==
  \/ s \in subs[u] /\ LastOf(s, u, 0)
  \/ \E i \in DOMAIN cmds[s] :
       /\ cmds[s][i].op = "SUBSCRIBE" /\ cmds[s][i].channel = u
       /\ LastOf(s, u, i)

(* A connection of s is past subscribe and before unsubscribe of u. *)
Channels(c, s, u) ==
  /\ at[c] = s
  /\ \/ Mapped(c, u) /\ ~Runs(c, {"login_subscribe"}, u)
     \/ Runs(c, UnsubscribeLeft, u)

SubsHeld ==
  \A s \in Server, u \in User :
    Subscribing(s, u) <=> \E c \in Conn : Channels(c, s, u)

(* u has an entry, or the handler that erased it has not finished. *)
Anchored(c, u) ==
  Mapped(c, u) \/ (Runs(c, OfflineLeft, u) /\ u \in logins[c])

InlineHeld ==
  \A u \in User : state[u] = "inline" => \E c \in Conn : Anchored(c, u)

AllUp == \A s \in Server : up[s] = "up"

RegistryKept == AllUp /\ InlineHeld /\ SubsHeld

(* At the start all stores are empty. *)
LEMMA InitRegistryKept == Init => RegistryKept
BY ServiceAssumption
   DEF Init, BusInit, Channel, RegistryKept, AllUp, InlineHeld, SubsHeld,
       Subscribing, LastOf, Channels, Mapped, Runs, UnsubscribeLeft

-----------------------------------------------------------------------------
(* What the bus makes of a command.                                        *)

(* The last command on a channel decides whether s will be subscribed. *)
LEMMA WriteSubscribes ==
  ASSUME TypeOK, NEW s \in Server, NEW op \in {"SUBSCRIBE", "UNSUBSCRIBE"},
         NEW u \in Channel, WriteCommand(s, op, u),
         NEW r \in Server, NEW v \in User
  PROVE  Subscribing(r, v)' <=> IF r = s /\ v = u THEN op = "SUBSCRIBE"
                                ELSE Subscribing(r, v)
<1>1. CASE r # s
  <2>1. cmds'[r] = cmds[r] /\ subs' = subs
    BY <1>1 DEF WriteCommand, TypeOK, BusTypeOK
  <2>2. QED BY <1>1, <2>1 DEF Subscribing, LastOf
<1>2. CASE r = s
  <2> DEFINE q == cmds[s]
             new == [op |-> op, channel |-> u]
  <2>1. q \in Seq(Command) /\ new \in Command
    BY DEF TypeOK, BusTypeOK, Command
  <2>2. cmds'[s] = Append(q, new) /\ subs' = subs
    BY DEF WriteCommand, TypeOK, BusTypeOK
  <2>3. PICK n : n = Len(q) + 1 OBVIOUS
  <2>4. /\ DOMAIN cmds'[s] = 1..n /\ DOMAIN q = 1..(n - 1) /\ n \in Nat \ {0}
        /\ cmds'[s][n] = new /\ \A i \in 1..(n - 1) : cmds'[s][i] = q[i]
    BY <2>1, <2>2, <2>3
  <2> HIDE DEF q
  <2>5. \A i \in 0..(n - 1) : LastOf(s, v, i)' <=> LastOf(s, v, i) /\ u # v
    <3> SUFFICES ASSUME NEW i \in 0..(n - 1)
                 PROVE  LastOf(s, v, i)' <=> LastOf(s, v, i) /\ u # v
      OBVIOUS
    <3>1. LastOf(s, v, i)' =>  LastOf(s, v, i) /\ u # v
      BY <2>4 DEF LastOf, q
    <3>2. LastOf(s, v, i) /\ u # v => LastOf(s, v, i)'
      BY <2>4 DEF LastOf, q
    <3>3. QED BY <3>1, <3>2
  <2>6. LastOf(s, v, n)' BY <2>4 DEF LastOf
  <2>7. CASE u = v
    <3>1. Subscribing(s, v)' => op = "SUBSCRIBE"
      BY <2>2, <2>4, <2>5, <2>7 DEF Subscribing
    <3>2. op = "SUBSCRIBE" => Subscribing(s, v)'
      BY <2>4, <2>6, <2>7 DEF Subscribing
    <3>3. QED BY <1>2, <2>7, <3>1, <3>2
  <2>8. CASE u # v
    <3>1. Subscribing(s, v)' => Subscribing(s, v)
      BY <2>2, <2>4, <2>5, <2>8 DEF Subscribing, q
    <3>2. Subscribing(s, v) => Subscribing(s, v)'
      BY <2>2, <2>4, <2>5, <2>8 DEF Subscribing, q
    <3>3. QED BY <1>2, <2>8, <3>1, <3>2
  <2>9. QED BY <2>7, <2>8
<1>3. QED BY <1>1, <1>2

(* Redis changes nothing about that when it executes a command. *)
LEMMA ExecuteSubscribes ==
  ASSUME TypeOK, NEW s \in Server, RedisExecute(s),
         NEW r \in Server, NEW v \in User
  PROVE  Subscribing(r, v)' <=> Subscribing(r, v)
<1> DEFINE q == cmds[s]
           first == Head(q)
<1>1. /\ cmds' = [cmds EXCEPT ![s] = Tail(q)] /\ q # <<>>
      /\ subs' = [subs EXCEPT ![first.channel] =
                    IF first.op = "SUBSCRIBE" THEN @ \cup {s} ELSE @ \ {s}]
  BY DEF RedisExecute
<1>2. q \in Seq(Command) /\ v \in Channel BY DEF TypeOK, BusTypeOK, Channel
<1>3. first = q[1] /\ first \in Command BY <1>1, <1>2
<1>4. first.channel \in Channel BY <1>3 DEF Command
<1>5. CASE r # s
  <2>1. cmds'[r] = cmds[r] /\ (r \in subs'[v] <=> r \in subs[v])
    BY <1>1, <1>2, <1>4, <1>5 DEF TypeOK, BusTypeOK
  <2>2. QED BY <2>1 DEF Subscribing, LastOf
<1>6. CASE r = s
  <2>1. cmds'[s] = Tail(q) BY <1>1 DEF TypeOK, BusTypeOK
  <2>2. PICK n : n = Len(q) OBVIOUS
  <2>3. /\ n \in Nat \ {0} /\ DOMAIN q = 1..n /\ DOMAIN cmds'[s] = 1..(n - 1)
        /\ \A i \in 1..(n - 1) : cmds'[s][i] = q[i + 1]
    <3>1. n \in Nat \ {0} /\ DOMAIN q = 1..n BY <1>1, <1>2, <2>2
    <3>2. Tail(q) = [i \in 1..(n - 1) |-> q[i + 1]] BY <1>1, <1>2, <2>2, <3>1
    <3>3. QED BY <2>1, <3>1, <3>2
  <2>4. s \in subs'[v] <=> IF first.channel = v THEN first.op = "SUBSCRIBE"
                           ELSE s \in subs[v]
    BY <1>1, <1>2, <1>4 DEF TypeOK, BusTypeOK
  <2> HIDE DEF q, first
  <2>5. \A i \in 0..(n - 1) : LastOf(s, v, i)' <=> LastOf(s, v, i + 1)
    <3> SUFFICES ASSUME NEW i \in 0..(n - 1)
                 PROVE  LastOf(s, v, i)' <=> LastOf(s, v, i + 1)
      OBVIOUS
    <3>1. ASSUME LastOf(s, v, i)', NEW j \in 1..n, j > i + 1
          PROVE  q[j].channel # v
      <4>1. j - 1 \in 1..(n - 1) /\ j - 1 > i /\ (j - 1) + 1 = j BY <3>1, <2>3
      <4>2. cmds'[s][j - 1].channel # v BY <2>3, <3>1, <4>1 DEF LastOf
      <4>3. QED BY <2>3, <4>1, <4>2
    <3>2. ASSUME LastOf(s, v, i + 1), NEW j \in 1..(n - 1), j > i
          PROVE  cmds'[s][j].channel # v
      <4>1. j + 1 \in DOMAIN q /\ j + 1 > i + 1 BY <2>3, <3>2
      <4>2. q[j + 1].channel # v BY <3>2, <4>1 DEF LastOf, q
      <4>3. QED BY <2>3, <4>2
    <3>3. LastOf(s, v, i)' => LastOf(s, v, i + 1) BY <2>3, <3>1 DEF LastOf, q
    <3>4. LastOf(s, v, i + 1) => LastOf(s, v, i)' BY <2>3, <3>2 DEF LastOf
    <3>5. QED BY <3>3, <3>4
  <2>6. LastOf(s, v, 0) <=> LastOf(s, v, 1) /\ first.channel # v
    <3>1. LastOf(s, v, 0) => LastOf(s, v, 1) /\ first.channel # v
      BY <1>3, <2>3 DEF LastOf, q
    <3>2. LastOf(s, v, 1) /\ first.channel # v => LastOf(s, v, 0)
      BY <1>3, <2>3 DEF LastOf, q
    <3>3. QED BY <3>1, <3>2
  <2>7. LastOf(s, v, 0)' <=> LastOf(s, v, 1) BY <2>3, <2>5
  <2> DEFINE Asks(i) == q[i].op = "SUBSCRIBE" /\ q[i].channel = v
                          /\ LastOf(s, v, i)
  <2>8. (\E i \in DOMAIN cmds'[s] :
           /\ cmds'[s][i].op = "SUBSCRIBE" /\ cmds'[s][i].channel = v
           /\ LastOf(s, v, i)')
        <=> \E i \in 2..n : Asks(i)
    <3>1. ASSUME NEW i \in 1..(n - 1),
                 cmds'[s][i].op = "SUBSCRIBE", cmds'[s][i].channel = v,
                 LastOf(s, v, i)'
          PROVE  \E k \in 2..n : Asks(k)
      <4>1. i + 1 \in 2..n /\ i \in 0..(n - 1) BY <2>3
      <4>2. Asks(i + 1) BY <2>3, <2>5, <3>1, <4>1
      <4>3. QED BY <4>1, <4>2
    <3>2. ASSUME NEW k \in 2..n, Asks(k)
          PROVE  \E i \in 1..(n - 1) :
                   /\ cmds'[s][i].op = "SUBSCRIBE" /\ cmds'[s][i].channel = v
                   /\ LastOf(s, v, i)'
      <4>1. k - 1 \in 1..(n - 1) /\ k - 1 \in 0..(n - 1) /\ (k - 1) + 1 = k
        BY <2>3
      <4>2. cmds'[s][k - 1] = q[k] BY <2>3, <4>1
      <4>3. LastOf(s, v, k - 1)' BY <2>5, <3>2, <4>1
      <4>4. QED BY <3>2, <4>1, <4>2, <4>3
    <3>3. QED BY <2>3, <3>1, <3>2
  <2>9. (\E i \in DOMAIN q : Asks(i)) <=> Asks(1) \/ \E i \in 2..n : Asks(i)
    BY <2>3
  <2>10. Subscribing(s, v)' <=>
          (s \in subs'[v] /\ LastOf(s, v, 1)) \/ \E i \in 2..n : Asks(i)
    BY <2>7, <2>8 DEF Subscribing
  <2>11. Subscribing(s, v) <=>
           (s \in subs[v] /\ LastOf(s, v, 0)) \/ \E i \in DOMAIN q : Asks(i)
    BY DEF Subscribing, q
  <2>12. Asks(1) <=> first.op = "SUBSCRIBE" /\ first.channel = v
                       /\ LastOf(s, v, 1)
    BY <1>3
  <2> HIDE DEF Asks
  <2>13. QED BY <1>6, <2>4, <2>6, <2>9, <2>10, <2>11, <2>12
<1>7. QED BY <1>5, <1>6

(* Nothing changes that where the bus is left alone. *)
LEMMA IdleSubscribes ==
  ASSUME UNCHANGED <<cmds, subs>>, NEW s \in Server, NEW u \in User
  PROVE  Subscribing(s, u)' <=> Subscribing(s, u)
BY DEF Subscribing, LastOf

-----------------------------------------------------------------------------
(* RegistryKept holds.                                                     *)

(* An untouched connection channels and anchors whom it did. *)
LEMMA Same_Channels ==
  ASSUME NEW d \in Conn, Same(d), SameMapped(d), logins[d] \subseteq logins'[d],
         NEW u \in User
  PROVE  /\ \A s \in Server : Channels(d, s, u)' <=> Channels(d, s, u)
         /\ Anchored(d, u) => Anchored(d, u)'
<1> DEFINE Kinds == {{"login_subscribe"}, UnsubscribeLeft, OfflineLeft}
<1>1. \A S \in Kinds : S \in SUBSET (Step \ (ChatSteps \cup {"idle"}))
  BY DEF UnsubscribeLeft, OfflineLeft, Step, SessionSteps, ChatSteps
<1>2. \A S \in Kinds : Runs(d, S, u)' = Runs(d, S, u) BY <1>1, SameViews
<1>3. Mapped(d, u)' = Mapped(d, u) /\ at'[d] = at[d]
  BY DEF SameMapped, Same, SameClient
<1>4. QED BY <1>2, <1>3 DEF Channels, Anchored

(* Who channels or is anchored is held. *)
LEMMA ChannelsHolds ==
  ASSUME NEW c \in Conn, NEW u \in User
  PROVE  /\ \A s \in Server : Channels(c, s, u) => Holds(c, u)
         /\ Anchored(c, u) => Holds(c, u)
BY DEF Channels, Anchored, Holds, Runs, UnsubscribeLeft, OfflineLeft,
       SessionSteps

(***************************************************************************)
(* A step of c keeps the registry if, for each server and user, it changes *)
(* neither side of SubsHeld, or sets both, or clears both while no other   *)
(* connection channels the user, and if c goes on anchoring whom the state *)
(* shows inline.                                                           *)
(***************************************************************************)
LEMMA Own_Registry ==
  ASSUME RegistryKept, NEW c \in Conn, up' = up,
         \A d \in Conn \ {c} :
           Same(d) /\ SameMapped(d) /\ logins[d] \subseteq logins'[d],
         \A u \in User : state'[u] = "inline" =>
           \/ Anchored(c, u)'
           \/ state[u] = "inline" /\ ~Anchored(c, u),
         \A s \in Server, u \in User :
           \/ /\ Subscribing(s, u)' <=> Subscribing(s, u)
              /\ Channels(c, s, u)' <=> Channels(c, s, u)
           \/ Subscribing(s, u)' /\ Channels(c, s, u)'
           \/ /\ ~Subscribing(s, u)' /\ ~Channels(c, s, u)'
              /\ \A d \in Conn \ {c} : ~Channels(d, s, u)
  PROVE  RegistryKept'
<1>1. \A d \in Conn \ {c}, u \in User :
        /\ \A s \in Server : Channels(d, s, u)' <=> Channels(d, s, u)
        /\ Anchored(d, u) => Anchored(d, u)'
  BY Same_Channels
<1>2. AllUp' BY DEF RegistryKept, AllUp
<1>3. InlineHeld' BY <1>1 DEF RegistryKept, InlineHeld
<1>4. SubsHeld'
  <2> SUFFICES ASSUME NEW s \in Server, NEW u \in User
               PROVE  (Subscribing(s, u) <=> \E d \in Conn : Channels(d, s, u))'
    BY DEF SubsHeld
  <2>1. Subscribing(s, u) <=> \E d \in Conn : Channels(d, s, u)
    BY DEF RegistryKept, SubsHeld
  <2>2. \A d \in Conn \ {c} : Channels(d, s, u)' <=> Channels(d, s, u) BY <1>1
  <2>3. QED BY <2>1, <2>2
<1>5. QED BY <1>2, <1>3, <1>4 DEF RegistryKept

(* So does a step that leaves the bus, the map and the handlers' stages. *)
LEMMA Idle_Registry ==
  ASSUME RegistryKept, NEW c \in Conn, UNCHANGED <<up, state, userConnMap>>,
         \A s \in Server, u \in User : Subscribing(s, u)' <=> Subscribing(s, u),
         \A d \in Conn \ {c} :
           Same(d) /\ logins[d] \subseteq logins'[d],
         \A u \in User :
           /\ \A s \in Server : Channels(c, s, u)' <=> Channels(c, s, u)
           /\ Anchored(c, u) => Anchored(c, u)'
  PROVE  RegistryKept'
<1>1. \A d \in Conn : SameMapped(d) BY DEF SameMapped, Mapped
<1>2. QED BY <1>1, Own_Registry

(* The client, and the reading of its requests, register nobody. *)
LEMMA Client_Registry ==
  ASSUME TypeOK, TypeOK', Ordered, MapKept, RegistryKept, NEW c \in Conn,
         ClientStep(c)
  PROVE  RegistryKept'
<1>1. /\ \A d \in Conn \ {c} : Same(d)
      /\ SameJob(c) /\ UNCHANGED <<userConnMap, state, logins, cmds, subs>>
  BY ClientOthers
<1>2. up' = up
  BY DEF ClientStep, Connect, ClientLogout, ClientGone, ClientLogin,
         ClientChat, ClientGroupChat, Send
<1>3. \A u \in User :
        /\ Mapped(c, u)' = Mapped(c, u)
        /\ \A S : Runs(c, S, u)' = Runs(c, S, u)
  BY <1>1 DEF Mapped, Runs, SameJob
<1>4. \A u \in User : Anchored(c, u) => Anchored(c, u)'
  BY <1>1, <1>3 DEF Anchored
<1>5. ASSUME NEW s \in Server, NEW u \in User
      PROVE  Channels(c, s, u)' <=> Channels(c, s, u)
  <2>1. CASE Connect(c)
    <3>1. link[c] = "new" BY <2>1 DEF Connect
    <3>2. ~Mapped(c, u) BY <3>1 DEF MapKept, EntryKept, EntryPlaced, Mapped
    <3>3. pc[c] = "idle" BY <3>1 DEF Ordered, InOrder, GoneIdle, Alive
    <3>4. ~Runs(c, UnsubscribeLeft, u) BY <3>3 DEF Runs, UnsubscribeLeft
    <3>5. QED BY <1>3, <3>2, <3>4 DEF Channels
  <2>2. CASE ~Connect(c)
    <3>1. at'[c] = at[c]
      BY <2>2 DEF ClientStep, ClientLogout, ClientGone, ClientLogin,
                  ClientChat, ClientGroupChat, Send
    <3>2. QED BY <1>3, <3>1 DEF Channels
  <2>3. QED BY <2>1, <2>2
<1>6. QED BY <1>1, <1>2, <1>4, <1>5, IdleSubscribes, Idle_Registry

(* A request that is read opens and closes no channel. *)
LEMMA Read_Registry ==
  ASSUME TypeOK, TypeOK', RegistryKept, NEW c \in Conn, onMessage(c)
  PROVE  RegistryKept'
<1>1. /\ pc[c] = "idle"
      /\ pc'[c] \in {"login", "logout", "oneChat", "groupChat"}
      /\ UNCHANGED <<at, up, state, userConnMap, logins, cmds, subs>>
  <2>1. Head(reqs[c]) \in Request BY DEF onMessage, TypeOK
  <2>2. pc'[c] = Head(reqs[c]).op BY DEF onMessage, Goto, TypeOK
  <2>3. QED
    BY <2>1, <2>2 DEF onMessage, At, Request, mapVars, dbVars, busVars
<1>2. \A u \in User :
        /\ ~Runs(c, UnsubscribeLeft, u) /\ ~Runs(c, UnsubscribeLeft, u)'
        /\ ~Runs(c, OfflineLeft, u)
        /\ ~Runs(c, {"login_subscribe"}, u)
        /\ ~Runs(c, {"login_subscribe"}, u)'
        /\ Mapped(c, u)' = Mapped(c, u)
  BY <1>1 DEF Runs, Mapped, UnsubscribeLeft, OfflineLeft
<1>3. \A u \in User :
        /\ \A s \in Server : Channels(c, s, u)' <=> Channels(c, s, u)
        /\ Anchored(c, u) => Anchored(c, u)'
  BY <1>1, <1>2 DEF Channels, Anchored
<1>4. QED BY <1>1, <1>3, ReadOthers, IdleSubscribes, Idle_Registry

(* Neither does a step that is no handler's of a session. *)
LEMMA Others_Registry ==
  ASSUME RegistryKept, \A d \in Conn : Same(d),
         UNCHANGED <<up, state, userConnMap, logins>>,
         \A s \in Server, u \in User : Subscribing(s, u)' <=> Subscribing(s, u)
  PROVE  RegistryKept'
<1>1. \A d \in Conn : SameMapped(d) BY DEF SameMapped, Mapped
<1>2. \A d \in Conn, u \in User :
        /\ \A s \in Server : Channels(d, s, u)' <=> Channels(d, s, u)
        /\ Anchored(d, u) => Anchored(d, u)'
  BY <1>1, Same_Channels
<1>3. AllUp' BY DEF RegistryKept, AllUp
<1>4. InlineHeld' BY <1>2 DEF RegistryKept, InlineHeld
<1>5. SubsHeld' BY <1>2 DEF RegistryKept, SubsHeld
<1>6. QED BY <1>3, <1>4, <1>5 DEF RegistryKept

(* What the steps of a session leave alone. *)
LEMMA SessionOthers ==
  ASSUME TypeOK, Stages, SessionsKept, NEW c \in Conn,
         LoginStep(c) \/ LeaveStep(c)
  PROVE  /\ \A d \in Conn \ {c} :
              Same(d) /\ SameMapped(d) /\ logins[d] \subseteq logins'[d]
         /\ logins[c] \subseteq logins'[c] /\ UNCHANGED <<at, up>>
<1>1. UNCHANGED <<at, up>>
  BY DEF LoginStep, login, login_insert, login_subscribe, login_inline,
         login_query, login_remove, login_reply, LeaveStep, logout,
         logout_unsubscribe, logout_offline, ClientCloseException,
         close_unsubscribe, close_offline, Closed, envVars
<1>2. \A d \in Conn : logins[d] \subseteq logins'[d]
  <2>1. CASE login(c)
    <3>1. \/ logins' = logins
          \/ logins' = [logins EXCEPT ![c] = @ \cup {js[c].user}]
      BY <2>1 DEF login
    <3>2. logins \in [Conn -> SUBSET User] BY DEF TypeOK
    <3>3. QED BY <3>1, <3>2
  <2>2. CASE logins' = logins BY <2>2
  <2>3. QED
    BY <2>1, <2>2
       DEF LoginStep, login_insert, login_subscribe, login_inline,
           login_query, login_remove, login_reply, LeaveStep, logout,
           logout_unsubscribe, logout_offline, ClientCloseException,
           close_unsubscribe, close_offline
<1>3. QED BY <1>1, <1>2, OthersMapped, LoginOthers, LeaveOthers

(* A holder past the insertion of login has his entry. *)
LEMMA RunsMapped ==
  ASSUME SessionsKept, NEW c \in Conn, NEW u \in User, js[c].user = u,
         pc[c] \in (SessionSteps \cup {"logout"}) \ Unmapped
  PROVE  Mapped(c, u)
BY RunsHolds DEF Runs, SessionsKept, SessionKept, HeldMapped

(* login keeps the registry: only login_subscribe opens a channel. *)
LEMMA Login_Registry ==
  ASSUME TypeOK, TypeOK', Stages, SessionsKept, RegistryKept,
         NEW c \in Conn, LoginStep(c)
  PROVE  RegistryKept'
<1>1. PICK u0 : u0 = js[c].user OBVIOUS
<1> USE DEF At, Goto, envVars, userVars, mapVars, dbVars, busVars
<1>2. /\ \A d \in Conn \ {c} :
           Same(d) /\ SameMapped(d) /\ logins[d] \subseteq logins'[d]
      /\ logins[c] \subseteq logins'[c] /\ UNCHANGED <<at, up>>
  BY SessionOthers
<1>3. \A d \in Conn \ {c} : Same(d) /\ logins[d] \subseteq logins'[d]
  BY <1>2
<1>4. u0 \in User
  <2>1. pc[c] \in LoginSteps
    BY DEF LoginStep, login, login_insert, login_subscribe, login_inline,
           login_query, login_remove, login_reply, LoginSteps
  <2>2. QED BY <1>1, <2>1 DEF Stages, UserKnown
<1>5. ASSUME pc[c] \in {"login", "login_inline", "login_query",
                        "login_remove", "login_reply"},
             pc'[c] \in {"idle", "login_insert", "login_query",
                         "login_remove", "login_reply"},
             userConnMap' = userConnMap
      PROVE  \A u \in User :
               /\ \A s \in Server : Channels(c, s, u)' <=> Channels(c, s, u)
               /\ Anchored(c, u) => Anchored(c, u)'
               /\ Mapped(c, u)' = Mapped(c, u)
  <2>1. \A u : /\ ~Runs(c, UnsubscribeLeft, u) /\ ~Runs(c, UnsubscribeLeft, u)'
               /\ ~Runs(c, OfflineLeft, u)
               /\ ~Runs(c, {"login_subscribe"}, u)
               /\ ~Runs(c, {"login_subscribe"}, u)'
    BY <1>5 DEF Runs, UnsubscribeLeft, OfflineLeft
  <2>2. \A u : Mapped(c, u)' = Mapped(c, u) BY <1>5 DEF Mapped
  <2>3. QED BY <1>2, <2>1, <2>2 DEF Channels, Anchored
<1>6. CASE login(c) \/ login_query(c) \/ login_remove(c) \/ login_reply(c)
  <2>1. /\ pc[c] \in {"login", "login_query", "login_remove", "login_reply"}
        /\ UNCHANGED <<userConnMap, state, cmds, subs>>
    BY <1>6 DEF login, login_query, login_remove, login_reply
  <2>2. pc'[c] \in {"idle", "login_insert", "login_remove", "login_reply"}
    <3>1. CASE login(c) \/ login_reply(c)
      BY <3>1 DEF login, login_reply, Reply, Done, TypeOK
    <3>2. CASE login_query(c) \/ login_remove(c)
      BY <3>2 DEF login_query, login_remove, TypeOK
    <3>3. QED BY <1>6, <3>1, <3>2
  <2>3. QED BY <1>2, <1>3, <1>5, <2>1, <2>2, IdleSubscribes, Idle_Registry
<1>7. CASE login_inline(c)
  <2>1. /\ pc[c] = "login_inline" /\ pc'[c] = "login_query"
        /\ UNCHANGED <<userConnMap, cmds, subs>>
        /\ state' = [state EXCEPT ![u0] = "inline"]
    BY <1>1, <1>7 DEF login_inline, SetState, TypeOK
  <2>2. Mapped(c, u0)
    BY <1>1, <1>4, <2>1, RunsMapped DEF SessionSteps, Unmapped, CloseSteps
  <2>3. /\ Anchored(c, u0)'
        /\ \A u \in User \ {u0} : /\ Anchored(c, u) => Anchored(c, u)'
                                  /\ state'[u] = state[u]
    BY <1>4, <1>5, <2>1, <2>2 DEF Anchored, TypeOK
  <2>4. \A s \in Server, u \in User :
          /\ Channels(c, s, u)' <=> Channels(c, s, u)
          /\ Subscribing(s, u)' <=> Subscribing(s, u)
    BY <1>5, <2>1, IdleSubscribes
  <2>5. QED BY <1>2, <2>3, <2>4, Own_Registry
<1>8. CASE login_insert(c)
  <2>1. /\ pc[c] = "login_insert" /\ pc'[c] = "login_subscribe" /\ js' = js
        /\ UNCHANGED <<state, cmds, subs>>
    BY <1>8 DEF login_insert, TypeOK
  <2>2. \A s \in Server, u \in User :
          userConnMap'[s][u] = IF /\ s = at[c] /\ u = u0
                                  /\ userConnMap[s][u] = NoConn
                               THEN c ELSE userConnMap[s][u]
    BY <1>1, <1>8, InsertMap
  <2>3. /\ \A u \in User \ {u0} : Mapped(c, u)' = Mapped(c, u)
        /\ \A u \in User : Mapped(c, u) => Mapped(c, u)'
    BY <2>2, ServiceAssumption DEF Mapped
  <2>4. ~Mapped(c, u0)
    BY <1>1, <1>4, <2>1
       DEF SessionsKept, SessionKept, UnmappedNone, Runs, Unmapped
  <2>5. \A u : /\ ~Runs(c, UnsubscribeLeft, u) /\ ~Runs(c, UnsubscribeLeft, u)'
               /\ ~Runs(c, OfflineLeft, u)
               /\ ~Runs(c, {"login_subscribe"}, u)
               /\ Runs(c, {"login_subscribe"}, u)' <=> u = u0
    BY <1>1, <2>1 DEF Runs, UnsubscribeLeft, OfflineLeft
  <2>6. \A u \in User :
          /\ \A s \in Server : Channels(c, s, u)' <=> Channels(c, s, u)
          /\ Anchored(c, u) => Anchored(c, u)'
    BY <1>2, <2>3, <2>4, <2>5 DEF Channels, Anchored
  <2>7. QED BY <1>2, <2>1, <2>6, IdleSubscribes, Own_Registry
<1>9. CASE login_subscribe(c)
  <2>1. /\ pc[c] = "login_subscribe" /\ pc'[c] = "login_inline" /\ js' = js
        /\ UNCHANGED <<userConnMap, state>>
        /\ WriteCommand(at[c], "SUBSCRIBE", u0)
    BY <1>1, <1>9 DEF login_subscribe, subscribe, TypeOK
  <2>2. at[c] \in Server /\ u0 \in Channel
    BY <1>4, <1>9 DEF login_subscribe, Stages, Placed, Alive, Channel
  <2>3. \A s \in Server, u \in User :
          Subscribing(s, u)' <=> \/ s = at[c] /\ u = u0
                                 \/ Subscribing(s, u)
    BY <2>1, <2>2, WriteSubscribes
  <2>4. \A u : Mapped(c, u)' = Mapped(c, u) BY <2>1 DEF Mapped
  <2>5. \A u : /\ ~Runs(c, UnsubscribeLeft, u) /\ ~Runs(c, UnsubscribeLeft, u)'
               /\ ~Runs(c, OfflineLeft, u)
               /\ Runs(c, {"login_subscribe"}, u) <=> u = u0
               /\ ~Runs(c, {"login_subscribe"}, u)'
    BY <1>1, <2>1 DEF Runs, UnsubscribeLeft, OfflineLeft
  <2>6. Mapped(c, u0)
    BY <1>1, <1>4, <2>1, RunsMapped DEF SessionSteps, Unmapped, CloseSteps
  <2>7. \A u \in User :
          /\ Anchored(c, u) => Anchored(c, u)'
          /\ u # u0 => \A s \in Server :
                         Channels(c, s, u)' <=> Channels(c, s, u)
    BY <1>2, <2>4, <2>5 DEF Channels, Anchored
  <2>8. \A s \in Server : Channels(c, s, u0)' <=> s = at[c]
    BY <1>2, <2>4, <2>5, <2>6 DEF Channels
  <2>9. \A s \in Server : s # at[c] => ~Channels(c, s, u0)
    BY DEF Channels
  <2>10. QED BY <1>2, <2>1, <2>3, <2>7, <2>8, <2>9, Own_Registry
<1>10. QED BY <1>6, <1>7, <1>8, <1>9 DEF LoginStep

(* logout keeps it: it opens no channel and closes that of its user. *)
LEMMA Logout_Registry ==
  ASSUME TypeOK, TypeOK', Stages, MapKept, SessionsKept, SessionsKept', Entered,
         RegistryKept, NEW c \in Conn,
         logout(c) \/ logout_unsubscribe(c) \/ logout_offline(c)
  PROVE  RegistryKept'
<1>1. PICK u0 : u0 = js[c].user OBVIOUS
<1> USE DEF At, Goto, envVars, userVars, mapVars, dbVars, busVars
<1>2. /\ \A d \in Conn \ {c} :
           Same(d) /\ SameMapped(d) /\ logins[d] \subseteq logins'[d]
      /\ logins[c] \subseteq logins'[c] /\ UNCHANGED <<at, up>>
  BY SessionOthers DEF LeaveStep
<1>3. u0 \in User /\ at[c] \in Server
  <2>1. pc[c] \in LogoutSteps /\ Alive(c)
    BY DEF logout, logout_unsubscribe, logout_offline, LogoutSteps
  <2>2. QED BY <1>1, <2>1 DEF Stages, UserKnown, Placed, Alive
<1>4. CASE logout(c)
  <2>1. /\ pc[c] = "logout" /\ pc'[c] = "logout_unsubscribe" /\ js' = js
        /\ UNCHANGED <<state, cmds, subs>>
    BY <1>4 DEF logout, TypeOK
  <2>2. \A s \in Server, u \in User :
          userConnMap'[s][u] = IF s = at[c] /\ u = u0 THEN NoConn
                               ELSE userConnMap[s][u]
    BY <1>1, <1>4, LogoutMap
  <2>3. \A u \in User \ {u0} : Mapped(c, u)' = Mapped(c, u)
    BY <2>2 DEF Mapped
  <2>4. Mapped(c, u0)
    BY <1>1, <1>3, <2>1, RunsMapped DEF SessionSteps, Unmapped, CloseSteps
  <2>5. u0 \in logins[c] BY <1>3, <2>4, ServiceAssumption DEF Mapped, Entered
  <2>6. \A u : /\ ~Runs(c, UnsubscribeLeft, u)
               /\ Runs(c, UnsubscribeLeft, u)' <=> u = u0
               /\ ~Runs(c, OfflineLeft, u)
               /\ Runs(c, OfflineLeft, u)' <=> u = u0
               /\ ~Runs(c, {"login_subscribe"}, u)
               /\ ~Runs(c, {"login_subscribe"}, u)'
    BY <1>1, <2>1 DEF Runs, UnsubscribeLeft, OfflineLeft
  <2>7. \A u \in User :
          /\ \A s \in Server : Channels(c, s, u)' <=> Channels(c, s, u)
          /\ Anchored(c, u) => Anchored(c, u)'
    BY <1>2, <2>3, <2>4, <2>5, <2>6 DEF Channels, Anchored
  <2>8. QED BY <1>2, <2>1, <2>7, IdleSubscribes, Own_Registry
<1>5. CASE logout_unsubscribe(c)
  <2>1. /\ pc[c] = "logout_unsubscribe" /\ pc'[c] = "logout_offline" /\ js' = js
        /\ UNCHANGED <<userConnMap, state>>
        /\ WriteCommand(at[c], "UNSUBSCRIBE", u0)
    BY <1>1, <1>5 DEF logout_unsubscribe, unsubscribe, TypeOK
  <2>2. u0 \in Channel BY <1>3 DEF Channel
  <2>3. \A s \in Server, u \in User :
          Subscribing(s, u)' <=> ~(s = at[c] /\ u = u0) /\ Subscribing(s, u)
    BY <1>3, <2>1, <2>2, WriteSubscribes
  <2>4. \A u : Mapped(c, u)' = Mapped(c, u) BY <2>1 DEF Mapped
  <2>5. \A u : /\ Runs(c, UnsubscribeLeft, u) <=> u = u0
               /\ ~Runs(c, UnsubscribeLeft, u)'
               /\ Runs(c, OfflineLeft, u)' <=> Runs(c, OfflineLeft, u)
               /\ ~Runs(c, {"login_subscribe"}, u)
               /\ ~Runs(c, {"login_subscribe"}, u)'
               /\ Runs(c, Unmapped, u)' <=> u = u0
               /\ Runs(c, SessionSteps \cup {"logout"}, u) <=> u = u0
    BY <1>1, <2>1 DEF Runs, UnsubscribeLeft, OfflineLeft, Unmapped, SessionSteps
  <2>6. ~Mapped(c, u0)'
    BY <1>3, <2>5 DEF SessionsKept, SessionKept, UnmappedNone
  <2>7. \A s \in Server : ~Channels(c, s, u0)'
    BY <2>5, <2>6 DEF Channels
  <2>8. \A d \in Conn \ {c}, s \in Server : ~Channels(d, s, u0)
    <3>1. Holds(c, u0) BY <2>5, RunsHolds
    <3>2. \A d \in Conn \ {c} : ~Holds(d, u0)
      BY <1>3, <3>1 DEF SessionsKept, HoldOnce
    <3>3. QED BY <1>3, <3>2, ChannelsHolds
  <2>9. \A s \in Server, u \in User :
          u # u0 \/ s # at[c] => (Channels(c, s, u)' <=> Channels(c, s, u))
    BY <1>2, <2>4, <2>5 DEF Channels
  <2>10. \A u \in User : Anchored(c, u) => Anchored(c, u)'
    BY <1>2, <2>4, <2>5 DEF Anchored
  <2>11. QED
    BY <1>2, <2>1, <2>3, <2>7, <2>8, <2>9, <2>10, Own_Registry
<1>6. CASE logout_offline(c)
  <2>1. /\ pc[c] = "logout_offline" /\ pc'[c] = "idle"
        /\ UNCHANGED <<userConnMap, cmds, subs>>
        /\ state' = [state EXCEPT ![u0] = "offline"]
    BY <1>1, <1>6 DEF logout_offline, SetState, Done, TypeOK
  <2>2. \A u : Mapped(c, u)' = Mapped(c, u) BY <2>1 DEF Mapped
  <2>3. \A u : /\ ~Runs(c, UnsubscribeLeft, u) /\ ~Runs(c, UnsubscribeLeft, u)'
               /\ Runs(c, OfflineLeft, u) => u = u0
               /\ ~Runs(c, {"login_subscribe"}, u)
               /\ ~Runs(c, {"login_subscribe"}, u)'
    BY <1>1, <2>1 DEF Runs, UnsubscribeLeft, OfflineLeft
  <2>4. /\ state'[u0] = "offline"
        /\ \A u \in User : u # u0 => state'[u] = state[u]
    BY <1>3, <2>1 DEF TypeOK
  <2>5. \A u \in User : u # u0 /\ Anchored(c, u) => Anchored(c, u)'
    BY <2>2, <2>3 DEF Anchored
  <2>6. \A s \in Server, u \in User :
          /\ Subscribing(s, u)' <=> Subscribing(s, u)
          /\ Channels(c, s, u)' <=> Channels(c, s, u)
    BY <1>2, <2>1, <2>2, <2>3, IdleSubscribes DEF Channels
  <2>7. QED BY <1>2, <2>4, <2>5, <2>6, Own_Registry
<1>7. QED BY <1>4, <1>5, <1>6

(* The end of a connection does the same for its one entry. *)
LEMMA Close_Registry ==
  ASSUME SoleUse, TypeOK, TypeOK', Stages, MapKept, SessionsKept, Entered,
         RegistryKept, NEW c \in Conn,
         ClientCloseException(c) \/ close_unsubscribe(c) \/ close_offline(c)
  PROVE  RegistryKept'
<1>1. PICK u0 : u0 = js[c].user OBVIOUS
<1> USE DEF At, Goto, envVars, userVars, mapVars, dbVars, busVars
<1>2. /\ \A d \in Conn \ {c} :
           Same(d) /\ SameMapped(d) /\ logins[d] \subseteq logins'[d]
      /\ logins[c] \subseteq logins'[c] /\ UNCHANGED <<at, up>>
  BY SessionOthers DEF LeaveStep
<1>3. EntryPlaced(c) /\ OneEntry(c) /\ EntryAlive(c) BY DEF MapKept, EntryKept
<1>4. CASE ClientCloseException(c)
  <2>1. /\ pc[c] = "idle" /\ pc'[c] = "close_unsubscribe"
        /\ UNCHANGED <<state, cmds, subs>>
    BY <1>4 DEF ClientCloseException, TypeOK
  <2>2. PICK last : last = js'[c].user OBVIOUS
  <2>3. PICK E \in SUBSET {u \in User : userConnMap[at[c]][u] = c} :
          /\ E = {} => last = NoUser
                       /\ \A u \in User : userConnMap[at[c]][u] # c
          /\ E # {} => last \in E
          /\ \A s \in Server, u \in User :
               userConnMap'[s][u] = IF s = at[c] /\ u \in E THEN NoConn
                                    ELSE userConnMap[s][u]
    BY <1>4, <2>2, CloseMap
  <2>4. at[c] \in Server BY <1>4, CloseMap
  <2>5. \A u \in User : Mapped(c, u) => userConnMap[at[c]][u] = c
    BY <1>3 DEF EntryPlaced, Mapped
  <2>6. \A u \in E : Mapped(c, u) BY <2>3, <2>4 DEF Mapped
  <2>7. \A u \in User : Mapped(c, u) <=> u = last
    <3>1. CASE E = {}
      BY <2>3, <2>5, <3>1, BusAssumption
    <3>2. CASE E # {}
      BY <1>3, <2>3, <2>6, <3>2 DEF OneEntry
    <3>3. QED BY <3>1, <3>2
  <2>8. \A u \in User : Mapped(c, u)' => Mapped(c, u)
    BY <2>3, ServiceAssumption DEF Mapped
  <2>9. \A u \in User : u = last => u \in logins[c]
    BY <2>7, ServiceAssumption DEF Mapped, Entered
  <2>10. \A u : /\ ~Runs(c, UnsubscribeLeft, u)
                /\ Runs(c, UnsubscribeLeft, u)' <=> u = last
                /\ ~Runs(c, OfflineLeft, u)
                /\ Runs(c, OfflineLeft, u)' <=> u = last
                /\ ~Runs(c, {"login_subscribe"}, u)
                /\ ~Runs(c, {"login_subscribe"}, u)'
    BY <2>1, <2>2 DEF Runs, UnsubscribeLeft, OfflineLeft
  <2>11. \A u \in User :
           /\ \A s \in Server : Channels(c, s, u)' <=> Channels(c, s, u)
           /\ Anchored(c, u) => Anchored(c, u)'
    BY <1>2, <2>7, <2>8, <2>9, <2>10 DEF Channels, Anchored
  <2>12. QED BY <1>2, <2>1, <2>11, IdleSubscribes, Own_Registry
<1>5. CASE close_unsubscribe(c)
  <2>1. /\ pc[c] = "close_unsubscribe" /\ Alive(c)
        /\ UNCHANGED <<userConnMap, state>>
        /\ WriteCommand(at[c], "UNSUBSCRIBE", u0)
        /\ \/ u0 = NoUser /\ pc'[c] = "idle"
           \/ pc'[c] = "close_offline" /\ js' = js
    BY <1>1, <1>5 DEF close_unsubscribe, unsubscribe, Closed, Done, TypeOK
  <2>2. u0 \in Channel /\ at[c] \in Server
    BY <1>1, <2>1 DEF TypeOK, Request, Stages, Placed, Alive
  <2>3. \A s \in Server, u \in User :
          Subscribing(s, u)' <=> ~(s = at[c] /\ u = u0) /\ Subscribing(s, u)
    BY <2>1, <2>2, WriteSubscribes
  <2>4. \A u \in User : ~Mapped(c, u) /\ ~Mapped(c, u)'
    <3>1. \A u : Mapped(c, u)' = Mapped(c, u) BY <2>1 DEF Mapped
    <3>2. QED BY <1>3, <2>1, <3>1 DEF EntryAlive, CloseSteps
  <2>5. \A u \in User : /\ Runs(c, UnsubscribeLeft, u) <=> u = u0
                        /\ ~Runs(c, UnsubscribeLeft, u)'
                        /\ Runs(c, OfflineLeft, u) => Runs(c, OfflineLeft, u)'
                        /\ Runs(c, SessionSteps \cup {"logout"}, u) <=> u = u0
    BY <1>1, <2>1, BusAssumption
       DEF Runs, UnsubscribeLeft, OfflineLeft, SessionSteps
  <2>6. \A u \in User, s \in Server :
          /\ ~Channels(c, s, u)'
          /\ u # u0 \/ s # at[c] => ~Channels(c, s, u)
    BY <2>4, <2>5 DEF Channels
  <2>7. \A d \in Conn \ {c}, s \in Server, u \in User :
          u = u0 => ~Channels(d, s, u)
    <3>1. \A u \in User : u = u0 => Holds(c, u) BY <2>5, RunsHolds
    <3>2. \A d \in Conn \ {c}, u \in User : u = u0 => ~Holds(d, u)
      BY <3>1 DEF SessionsKept, HoldOnce
    <3>3. QED BY <3>2, ChannelsHolds
  <2>8. \A u \in User : Anchored(c, u) => Anchored(c, u)'
    BY <1>2, <2>4, <2>5 DEF Anchored
  <2>9. QED BY <1>2, <2>1, <2>3, <2>6, <2>7, <2>8, Own_Registry
<1>6. CASE close_offline(c)
  <2>1. /\ pc[c] = "close_offline" /\ pc'[c] = "idle"
        /\ UNCHANGED <<userConnMap, cmds, subs>>
        /\ state' = [state EXCEPT ![u0] = "offline"]
    BY <1>1, <1>6 DEF close_offline, SetState, Closed, Done, TypeOK
  <2>2. \A u : Mapped(c, u)' = Mapped(c, u) BY <2>1 DEF Mapped
  <2>3. \A u : /\ ~Runs(c, UnsubscribeLeft, u) /\ ~Runs(c, UnsubscribeLeft, u)'
               /\ Runs(c, OfflineLeft, u) => u = u0
               /\ ~Runs(c, {"login_subscribe"}, u)
               /\ ~Runs(c, {"login_subscribe"}, u)'
    BY <1>1, <2>1 DEF Runs, UnsubscribeLeft, OfflineLeft
  <2>4. \A u \in User : /\ u = u0 => state'[u] = "offline"
                        /\ u # u0 => state'[u] = state[u]
    BY <2>1 DEF TypeOK
  <2>5. \A u \in User : u # u0 /\ Anchored(c, u) => Anchored(c, u)'
    BY <2>2, <2>3 DEF Anchored
  <2>6. \A s \in Server, u \in User :
          /\ Subscribing(s, u)' <=> Subscribing(s, u)
          /\ Channels(c, s, u)' <=> Channels(c, s, u)
    BY <1>2, <2>1, <2>2, <2>3, IdleSubscribes DEF Channels
  <2>7. QED BY <1>2, <2>4, <2>5, <2>6, Own_Registry
<1>7. QED BY <1>4, <1>5, <1>6

(* Every step keeps the registry, where no server ends. *)
LEMMA RegistryKeptStep ==
  ASSUME SoleUse, Faults = {}, TypeOK, TypeOK', Stages, Ordered, MapKept,
         SessionsKept, SessionsKept', Entered, RegistryKept, [Next]_vars
  PROVE  RegistryKept'
<1>1. ASSUME NEW c \in Conn, ClientStep(c) \/ WorkerStep(c)
      PROVE  RegistryKept'
  <2>1. CASE ChatStep(c)
    <3>1. /\ \A d \in Conn : Same(d)
          /\ UNCHANGED <<userConnMap, state, logins, cmds, subs>>
      BY <2>1, ChatSame
    <3>2. up' = up
      BY <2>1 DEF ChatStep, oneChat, oneChat_query, oneChat_publish,
                  oneChat_insert, groupChat, group_lock, group_next,
                  group_query, group_publish, group_insert, envVars
    <3>3. QED BY <3>1, <3>2, IdleSubscribes, Others_Registry
  <2>2. CASE LeaveStep(c)
    BY <2>2, Logout_Registry, Close_Registry DEF LeaveStep
  <2>3. QED
    BY <1>1, <2>1, <2>2, Client_Registry, Read_Registry, Login_Registry
       DEF WorkerStep
<1>2. ASSUME NEW s \in Server, ServerStep(s)
      PROVE  RegistryKept'
  <2>1. up[s] = "up" BY DEF RegistryKept, AllUp
  <2>2. handleRedisSubscribeMessage(s) \/ RedisStep(s)
    BY <1>2, <2>1 DEF ServerStep, resetHandle, exit, crash, restart
  <2>3. /\ \A d \in Conn : Same(d) /\ UNCHANGED <<userConnMap, logins>>
        /\ UNCHANGED <<up, state>>
    BY <2>2, ServerSame
       DEF handleRedisSubscribeMessage, RedisStep, envVars, dbVars
  <2>4. CASE handleRedisSubscribeMessage(s)
    <3>1. UNCHANGED <<cmds, subs>>
      BY <2>4 DEF handleRedisSubscribeMessage, TakeNotice
    <3>2. QED BY <2>3, <3>1, IdleSubscribes, Others_Registry, ServerSame, <2>2
  <2>5. CASE RedisStep(s)
    BY <2>2, <2>3, <2>5, ExecuteSubscribes, Others_Registry, ServerSame
       DEF RedisStep
  <2>6. QED BY <2>2, <2>4, <2>5
<1>3. CASE UNCHANGED vars
  <2>1. /\ \A d \in Conn : Same(d)
        /\ UNCHANGED <<up, userConnMap, state, logins, cmds, subs>>
    BY <1>3 DEF vars, envVars, userVars, jobVars, mapVars, dbVars, busVars,
                Same, SameClient, SameSession, SameJob
  <2>2. QED BY <2>1, IdleSubscribes, Others_Registry
<1>4. QED BY <1>1, <1>2, <1>3 DEF Next

-----------------------------------------------------------------------------
(* What the registry comes to between the steps of logins and logouts.     *)

(* The three stores agree about a user who is not between two of them. *)
LEMMA KeptAgreement ==
  ASSUME TypeOK, SessionsKept, MapKept, RegistryKept PROVE RegistryAgreement
<1> SUFFICES ASSUME NEW u \in User, ~Moving(u)
             PROVE  \/ /\ state[u] = "offline" /\ subs[u] = {}
                       /\ \A s \in Server : userConnMap[s][u] = NoConn
                    \/ /\ state[u] = "inline"
                       /\ \E s \in Server :
                            /\ subs[u] = {s} /\ userConnMap[s][u] # NoConn
                            /\ \A r \in Server \ {s} :
                                 userConnMap[r][u] = NoConn
  BY DEF RegistryAgreement
<1>1. \A c \in Conn :
        /\ ~Runs(c, OfflineLeft, u) /\ ~Runs(c, UnsubscribeLeft, u)
        /\ ~Runs(c, {"login_subscribe"}, u)
        /\ Runs(c, BeforeInline, u) => Runs(c, Unmapped, u)
  BY DEF Moving, Runs, OfflineLeft, UnsubscribeLeft, BeforeInline, Unmapped
<1>2. \A s \in Server : s \in subs[u] <=> \E c \in Conn : Channels(c, s, u)
  <2>1. \A s \in Server : Subscribing(s, u) <=> s \in subs[u]
    BY DEF Moving, Subscribing, LastOf
  <2>2. QED BY <2>1 DEF RegistryKept, SubsHeld
<1>3. \A c \in Conn, s \in Server :
        Channels(c, s, u) <=> at[c] = s /\ Mapped(c, u)
  BY <1>1 DEF Channels
<1>4. subs[u] \subseteq Server BY DEF TypeOK, BusTypeOK, Channel
<1>5. \A s \in Server :
        \/ userConnMap[s][u] = NoConn
        \/ \E c \in Conn : c = userConnMap[s][u] /\ Mapped(c, u) /\ at[c] = s
  BY DEF TypeOK, Mapped, MapKept, EntryKept, EntryPlaced
<1>6. \A c, d \in Conn : Mapped(c, u) /\ Mapped(d, u) => c = d
  BY DEF SessionsKept, HoldOnce, Holds
<1>7. CASE state[u] = "offline"
  <2>1. \A c \in Conn : ~Mapped(c, u)
    <3> SUFFICES ASSUME NEW c \in Conn, Mapped(c, u) PROVE FALSE OBVIOUS
    <3>1. Runs(c, BeforeInline, u)
      BY <1>7 DEF SessionsKept, SessionKept, OfflineHeld, Holds
    <3>2. QED
      BY <1>1, <3>1 DEF SessionsKept, SessionKept, UnmappedNone
  <2>2. QED BY <1>2, <1>3, <1>4, <1>5, <1>7, <2>1
<1>8. CASE state[u] = "inline"
  <2>1. PICK c \in Conn : Mapped(c, u)
    BY <1>1, <1>8 DEF RegistryKept, InlineHeld, Anchored
  <2>2. PICK s \in Server : userConnMap[s][u] = c BY <2>1 DEF Mapped
  <2>3. at[c] = s BY <2>2 DEF MapKept, EntryKept, EntryPlaced
  <2>4. \A r \in Server : r \in subs[u] <=> r = s
    BY <1>2, <1>3, <1>6, <2>1, <2>3
  <2>5. subs[u] = {s} BY <1>4, <2>4
  <2>6. \A r \in Server \ {s} : userConnMap[r][u] = NoConn
    BY <1>5, <1>6, <2>1, <2>3
  <2>7. QED BY <1>8, <2>2, <2>5, <2>6, ServiceAssumption
<1>9. QED BY <1>7, <1>8 DEF TypeOK

(* What anchors an inline user is a connection he logged in on. *)
LEMMA KeptInline ==
  ASSUME SoleUse, Ordered, MapKept, Entered, RegistryKept
  PROVE  InlineHasConnection
<1> SUFFICES ASSUME NEW u \in User, state[u] = "inline"
             PROVE  \E c \in Conn : Alive(c) /\ u \in logins[c]
  BY DEF InlineHasConnection
<1>1. PICK c \in Conn : Anchored(c, u) BY DEF RegistryKept, InlineHeld
<1>2. CASE Mapped(c, u)
  BY <1>2, ServiceAssumption
     DEF MapKept, EntryKept, EntryAlive, Entered, Mapped
<1>3. CASE Runs(c, OfflineLeft, u) /\ u \in logins[c]
  BY <1>3 DEF Runs, OfflineLeft, UnsubscribeLeft, Ordered, InOrder, GoneIdle
<1>4. QED BY <1>1, <1>2, <1>3 DEF Anchored

(* RegistryKept is an invariant where no server ends. *)
LEMMA RegistryKeptHolds ==
  ASSUME SoleUse, Faults = {}
  PROVE  Spec /\ []LoginsApart
           => [](/\ TypeOK /\ Stages /\ Ordered /\ MapKept /\ SessionsKept
                 /\ Addressed /\ Entered /\ RegistryKept)
<1>1. Init => Ordered /\ MapKept /\ SessionsKept /\ Addressed /\ RegistryKept
  BY InitOrdered, InitMapKept, InitSessionsKept, InitAddressed, InitRegistryKept
<1>2. /\ LoginsApart' /\ TypeOK /\ TypeOK' /\ Stages /\ Ordered /\ MapKept
      /\ SessionsKept /\ Addressed /\ RegistryKept /\ [Next]_vars
      => Ordered' /\ MapKept' /\ SessionsKept' /\ Addressed' /\ RegistryKept'
  <2> SUFFICES ASSUME LoginsApart', TypeOK, TypeOK', Stages, Ordered, MapKept,
                      SessionsKept, Addressed, RegistryKept, [Next]_vars
               PROVE  /\ Ordered' /\ MapKept' /\ SessionsKept' /\ Addressed'
                      /\ RegistryKept'
    OBVIOUS
  <2>1. Ordered' BY OrderedStep
  <2>2. MapKept' BY MapKeptStep
  <2>3. SessionsKept' BY SessionsKeptStep
  <2>4. Addressed' BY AddressedStep
  <2>5. RegistryKept' BY <2>3, RegistryKeptStep DEF Addressed
  <2>6. QED BY <2>1, <2>2, <2>3, <2>4, <2>5
<1>3. Addressed => Entered BY DEF Addressed
<1>4. QED BY <1>1, <1>2, <1>3, TypesHold, PTL DEF Spec

(***************************************************************************)
(* However many servers, users and clients there are and however far Redis *)
(* is behind with its commands: if two logins of a user are never both in  *)
(* the gap between login's check and its update (LoginsApartHolds gives a  *)
(* reason), no logout is lost before another user logs in on its           *)
(* connection and no server ends, then the database, the maps of all       *)
(* servers and Redis agree about every user that is not between two of     *)
(* them.                                                                   *)
(***************************************************************************)
THEOREM RegistryAgreementHolds ==
  ASSUME SoleUse, Faults = {}
  PROVE  Spec /\ []LoginsApart => []RegistryAgreement
<1>1. TypeOK /\ MapKept /\ SessionsKept /\ RegistryKept => RegistryAgreement
  BY KeptAgreement
<1>2. QED BY <1>1, RegistryKeptHolds, PTL

(***************************************************************************)
(* Under the same conditions nobody is locked out: a user whom the         *)
(* database shows inline has logged in on a connection that is not closed. *)
(***************************************************************************)
THEOREM InlineHolds ==
  ASSUME SoleUse, Faults = {}
  PROVE  Spec /\ []LoginsApart => []InlineHasConnection
<1>1. Ordered /\ MapKept /\ Entered /\ RegistryKept => InlineHasConnection
  BY KeptInline
<1>2. QED BY <1>1, RegistryKeptHolds, PTL

(***************************************************************************)
(* Crashes may happen here, and logouts may be lost: a user in the map of  *)
(* a running server whose registration is not under way is inline in the   *)
(* database, if two of his logins are never both in login's gap.           *)
(***************************************************************************)
THEOREM RegisteredIsInlineHolds ==
  ASSUME "sigint" \notin Faults
  PROVE  Spec /\ []LoginsApart => []RegisteredIsInline
<1>1. Init => Ordered /\ MapKept /\ SessionsKept
  BY InitOrdered, InitMapKept, InitSessionsKept
<1>2. /\ LoginsApart' /\ TypeOK /\ TypeOK' /\ Stages /\ Ordered /\ MapKept
      /\ SessionsKept /\ [Next]_vars
      => Ordered' /\ MapKept' /\ SessionsKept'
  BY OrderedStep, MapKeptStep, SessionsKeptStep
<1>3. TypeOK /\ SessionsKept => RegisteredIsInline
  <2> SUFFICES ASSUME TypeOK, SessionsKept, NEW s \in Server, NEW u \in User,
                      userConnMap[s][u] # NoConn, ~Moving(u)
               PROVE  state[u] = "inline"
    BY DEF RegisteredIsInline
  <2>1. PICK c \in Conn : c = userConnMap[s][u] BY DEF TypeOK
  <2>2. Mapped(c, u) /\ Holds(c, u) BY <2>1 DEF Mapped, Holds
  <2>3. ~Runs(c, Unmapped, u)
    BY <2>2 DEF SessionsKept, SessionKept, UnmappedNone
  <2>4. ~Runs(c, BeforeInline, u)
    BY <2>3 DEF Moving, Runs, BeforeInline, Unmapped
  <2>5. state[u] # "offline"
    BY <2>2, <2>4 DEF SessionsKept, SessionKept, OfflineHeld
  <2>6. QED BY <2>5 DEF TypeOK
<1>4. QED BY <1>1, <1>2, <1>3, TypesHold, PTL DEF Spec
-----------------------------------------------------------------------------
(* No message is lost but where Excused says.                              *)

(* m goes on, to another place or to u, or its loss is excused. *)
GoesOn(m, u) == Waits(m, u)' \/ HandedOver(m, u) \/ Excused(m, u)

(* The stores keep what they have. *)
StoresKeep(m, u) ==
  /\ StoredFor(m, u) => StoredFor(m, u)'
  /\ \A s \in Server : PushedFor(s, m, u) => PushedFor(s, m, u)'

(* Only what is in a place that the step of c works on can be lost. *)
LEMMA OthersWait ==
  ASSUME NEW c \in Conn, \A d \in Conn \ {c} : SameWork(d),
         NEW m \in Msg, NEW u \in User, Waits(m, u),
         \/ AskedFor(c, m, u) \/ CarriedFor(c, m, u) \/ ReadFor(c, m, u)
         \/ StoredFor(m, u) \/ \E s \in Server : PushedFor(s, m, u)
         => GoesOn(m, u)
  PROVE  GoesOn(m, u)
<1>1. ASSUME NEW d \in Conn \ {c},
             AskedFor(d, m, u) \/ CarriedFor(d, m, u) \/ ReadFor(d, m, u)
      PROVE  Waits(m, u)'
  <2>1. SameWork(d) OBVIOUS
  <2>2. AskedFor(d, m, u) => AskedFor(d, m, u)'
    BY <2>1 DEF SameWork, AskedFor, For
  <2>3. CarriedFor(d, m, u) => CarriedFor(d, m, u)'
    BY <2>1 DEF SameWork, SameJob, CarriedFor
  <2>4. ReadFor(d, m, u) => ReadFor(d, m, u)'
    BY <2>1 DEF SameWork, SameJob, ReadFor
  <2>5. QED BY <1>1, <2>2, <2>3, <2>4 DEF Waits
<1>2. QED BY <1>1 DEF GoesOn, Waits

(* What is in a store that keeps it goes on. *)
LEMMA StoresWait ==
  ASSUME NEW m \in Msg, NEW u \in User, StoresKeep(m, u),
         StoredFor(m, u) \/ \E s \in Server : PushedFor(s, m, u)
  PROVE  GoesOn(m, u)
BY DEF StoresKeep, GoesOn, Waits

(* Unchanged stores keep what they have, *)
LEMMA SameStores ==
  ASSUME UNCHANGED <<offline, inbox>>, NEW m, NEW u
  PROVE  StoresKeep(m, u)
BY DEF StoresKeep, StoredFor, PushedFor

(* so does the table when a message is added, *)
LEMMA StoreKeeps ==
  ASSUME TypeOK, NEW v \in User, NEW k \in Msg, StoreOffline(v, k),
         NEW m \in Msg, NEW u \in User
  PROVE  /\ StoredFor(m, u) => StoredFor(m, u)'
         /\ m = k /\ u = v => StoredFor(m, u)'
<1>1. PICK q : q = offline[v] OBVIOUS
<1>2. PICK r : r = Append(q, k) OBVIOUS
<1>3. /\ q \in Seq(Msg) /\ offline'[v] = r
      /\ \A w \in User \ {v} : offline'[w] = offline[w]
  BY <1>1, <1>2 DEF TypeOK, StoreOffline
<1>4. /\ \A i \in DOMAIN q : i \in DOMAIN r /\ r[i] = q[i]
      /\ Len(q) + 1 \in DOMAIN r /\ r[Len(q) + 1] = k
  BY <1>2, <1>3
<1>5. QED BY <1>1, <1>3, <1>4 DEF StoredFor, InSeq

(* and a channel when one is published. *)
LEMMA PublishKeeps ==
  ASSUME TypeOK, NEW v \in User, NEW k \in Msg, publish(v, k),
         NEW m \in Msg, NEW u \in User, NEW s \in Server
  PROVE  /\ PushedFor(s, m, u) => PushedFor(s, m, u)'
         /\ m = k /\ u = v /\ s \in subs[v] => PushedFor(s, m, u)'
<1>1. PICK q : q = inbox[s] OBVIOUS
<1>2. PICK n : n = [channel |-> v, msg |-> k] OBVIOUS
<1>3. PICK r : r = Append(q, n) OBVIOUS
<1>4. q \in Seq(Notice) /\ n \in Notice
  BY <1>1, <1>2 DEF TypeOK, BusTypeOK, Notice
<1>5. inbox'[s] = IF s \in subs[v] THEN r ELSE q
  BY <1>1, <1>2, <1>3 DEF publish
<1>6. /\ \A i \in DOMAIN q : i \in DOMAIN r /\ r[i] = q[i]
      /\ Len(q) + 1 \in DOMAIN r /\ r[Len(q) + 1] = n
  BY <1>3, <1>4
<1>7. QED BY <1>1, <1>2, <1>5, <1>6 DEF PushedFor, InSeq

(* A client that is sent a message of its user has it, unless it is gone. *)
LEMMA PushHands ==
  ASSUME TypeOK, NEW d \in Conn, Alive(d), NEW ms \in Seq(Msg), Push(d, ms),
         NEW m \in Msg, NEW u \in User, u \in logins[d], InSeq(m, ms)
  PROVE  GoesOn(m, u)
<1>1. CASE link[d] = "open"
  <2>1. PICK q : q = got[d] OBVIOUS
  <2>2. q \in Seq(Msg) /\ got'[d] = q \o ms
    BY <1>1, <2>1 DEF TypeOK, Push
  <2>3. PICK j \in DOMAIN ms : ms[j] = m BY DEF InSeq
  <2>4. /\ Len(q) + j \in DOMAIN (q \o ms) /\ Len(q) + j > Len(q)
        /\ (q \o ms)[Len(q) + j] = ms[j]
    BY <2>2
  <2>5. HandedOver(m, u) BY <2>1, <2>2, <2>3, <2>4 DEF HandedOver
  <2>6. QED BY <2>5 DEF GoesOn
<1>2. CASE link[d] = "dead" BY <1>2 DEF GoesOn, Excused
<1>3. QED BY <1>1, <1>2 DEF Alive

(* A message that is published to a user who is settled is in a channel. *)
LEMMA PublishGoes ==
  ASSUME TypeOK, RegistryAgreement, NEW c \in Conn,
         NEW m \in Msg, NEW u \in User, js[c].msg = m, PublishesTo(c, u),
         publish(u, m)
  PROVE  GoesOn(m, u)
<1>1. CASE Moving(u) \/ state[u] = "offline" BY <1>1 DEF GoesOn, Excused
<1>2. CASE ~Moving(u) /\ state[u] # "offline"
  <2>1. PICK s \in Server : s \in subs[u] BY <1>2 DEF RegistryAgreement
  <2>2. PushedFor(s, m, u)' BY <2>1, PublishKeeps
  <2>3. QED BY <2>2 DEF GoesOn, Waits
<1>3. QED BY <1>1, <1>2
(* What a client sends waits behind what it has sent. *)
LEMMA Client_Goes ==
  ASSUME TypeOK, NEW c \in Conn, ClientStep(c),
         NEW m \in Msg, NEW u \in User, Waits(m, u)
  PROVE  GoesOn(m, u)
<1>1. UNCHANGED <<jobVars, offline, inbox>>
  BY DEF ClientStep, Connect, ClientLogout, ClientGone, ClientLogin, ClientChat,
         ClientGroupChat, Send, dbVars, busVars
<1>2. reqs' = reqs \/ \E op, v, k, pwd : Send(c, op, v, k, pwd)
  BY DEF ClientStep, Connect, ClientLogout, ClientGone, ClientLogin, ClientChat,
         ClientGroupChat
<1>3. ASSUME NEW d \in Conn, AskedFor(d, m, u) PROVE AskedFor(d, m, u)'
  <2>1. PICK i \in DOMAIN reqs[d] : For(reqs[d][i], m, u)
    BY <1>3 DEF AskedFor
  <2>2. i \in DOMAIN reqs'[d] /\ reqs'[d][i] = reqs[d][i]
    <3>1. CASE reqs'[d] = reqs[d] BY <2>1, <3>1
    <3>2. ASSUME NEW x, reqs'[d] = Append(reqs[d], x)
          PROVE  i \in DOMAIN reqs'[d] /\ reqs'[d][i] = reqs[d][i]
      BY <2>1, <3>2 DEF TypeOK
    <3>3. ASSUME NEW op, NEW v, NEW k, NEW pwd, Send(c, op, v, k, pwd)
          PROVE  reqs'[d] = reqs[d] \/ \E x : reqs'[d] = Append(reqs[d], x)
      <4>1. PICK x : x = [op |-> op, user |-> v, msg |-> k, pwd |-> pwd]
        OBVIOUS
      <4>2. reqs' = [reqs EXCEPT ![c] = Append(@, x)]
        BY <3>3, <4>1 DEF Send
      <4>3. QED BY <4>2 DEF TypeOK
    <3>4. QED BY <1>2, <3>1, <3>2, <3>3
  <2>3. QED BY <2>1, <2>2 DEF AskedFor, For
<1>4. \A d \in Conn : /\ CarriedFor(d, m, u) => CarriedFor(d, m, u)'
                      /\ ReadFor(d, m, u) => ReadFor(d, m, u)'
  BY <1>1 DEF jobVars, CarriedFor, ReadFor
<1>5. StoresKeep(m, u) BY <1>1, SameStores
<1>6. QED BY <1>3, <1>4, <1>5 DEF Waits, GoesOn, StoresKeep

(* The request that is read is that of the handler, the others wait. *)
LEMMA Read_Goes ==
  ASSUME TypeOK, MaxBatch = 1, NEW c \in Conn, onMessage(c),
         NEW m \in Msg, NEW u \in User, Waits(m, u)
  PROVE  GoesOn(m, u)
<1>1. \A d \in Conn \ {c} : SameWork(d) BY WorkOthers DEF WorkerStep
<1>2. PICK q : q = reqs[c] OBVIOUS
<1>3. /\ q \in Seq(Request) /\ q # <<>> /\ UNCHANGED <<offline, inbox>>
      /\ pc[c] = "idle" /\ js'[c] = q[1] /\ pc'[c] = q[1].op
      /\ q[1] \in Request
  BY <1>2 DEF onMessage, At, Goto, TypeOK, dbVars, busVars
<1>4. reqs'[c] = SubSeq(q, 2, Len(q))
  BY <1>2 DEF onMessage, TypeOK
<1>5. \A i \in DOMAIN q : i # 1 => /\ i - 1 \in DOMAIN reqs'[c]
                                   /\ reqs'[c][i - 1] = q[i]
  BY <1>3, <1>4
<1>6. ASSUME AskedFor(c, m, u) PROVE GoesOn(m, u)
  <2>1. PICK i \in DOMAIN q : For(q[i], m, u) BY <1>2, <1>6 DEF AskedFor
  <2>2. CASE i = 1
    <3>1. CarriedFor(c, m, u)'
      BY <1>3, <2>1, <2>2 DEF For, CarriedFor, OneChatSteps
    <3>2. QED BY <3>1 DEF GoesOn, Waits
  <2>3. CASE i # 1
    <3>1. AskedFor(c, m, u)' BY <1>5, <2>1, <2>3 DEF AskedFor, For
    <3>2. QED BY <3>1 DEF GoesOn, Waits
  <2>4. QED BY <2>2, <2>3
<1>7. ~CarriedFor(c, m, u) /\ ~ReadFor(c, m, u)
  BY <1>3 DEF CarriedFor, ReadFor, OneChatSteps, GroupSteps, MemberSteps
<1>8. StoresKeep(m, u) BY <1>3, SameStores
<1>9. QED BY <1>1, <1>6, <1>7, <1>8, OthersWait, StoresWait

(* login takes what is stored to its client; remove may take more. *)
LEMMA Login_Goes ==
  ASSUME TypeOK, Stages, Addressed, NEW c \in Conn, LoginStep(c),
         NEW m \in Msg, NEW u \in User, Waits(m, u)
  PROVE  GoesOn(m, u)
<1>1. \A d \in Conn \ {c} : SameWork(d) BY WorkOthers DEF WorkerStep
<1>2. pc[c] \in LoginSteps /\ reqs'[c] = reqs[c] /\ inbox' = inbox
  BY DEF LoginStep, login, login_insert, login_subscribe, login_inline,
         login_query, login_remove, login_reply, At, LoginSteps, envVars,
         busVars, subscribe, WriteCommand
<1>3. ~CarriedFor(c, m, u)
  BY <1>2 DEF CarriedFor, LoginSteps, OneChatSteps, GroupSteps, MemberSteps
<1>4. AskedFor(c, m, u) => AskedFor(c, m, u)' BY <1>2 DEF AskedFor, For
<1>5. \A s \in Server : PushedFor(s, m, u) => PushedFor(s, m, u)'
  BY <1>2 DEF PushedFor
<1>6. CASE login_remove(c)
  <2>1. ~ReadFor(c, m, u) BY <1>6 DEF login_remove, At, ReadFor
  <2>2. ASSUME StoredFor(m, u) PROVE GoesOn(m, u)
    <3>1. CASE js[c].user # u
      <4>1. offline'[u] = offline[u] BY <1>6, <3>1 DEF login_remove, TypeOK
      <4>2. StoredFor(m, u)' BY <2>2, <4>1 DEF StoredFor
      <4>3. QED BY <4>2 DEF GoesOn, Waits
    <3>2. CASE js[c].user = u /\ InSeq(m, vec[c])
      <4>1. js'[c] = js[c] /\ vec'[c] = vec[c] /\ pc'[c] = "login_reply"
        BY <1>6 DEF login_remove, Goto, TypeOK
      <4>2. ReadFor(c, m, u)' BY <3>2, <4>1 DEF ReadFor
      <4>3. QED BY <4>2 DEF GoesOn, Waits
    <3>3. CASE js[c].user = u /\ ~InSeq(m, vec[c])
      BY <1>6, <2>2, <3>3 DEF login_remove, At, GoesOn, Excused
    <3>4. QED BY <3>1, <3>2, <3>3
  <2>3. QED
    BY <1>1, <1>3, <1>4, <1>5, <2>1, <2>2, OthersWait DEF GoesOn, Waits
<1>7. CASE ~login_remove(c)
  <2>1. offline' = offline
    BY <1>7 DEF LoginStep, login, login_insert, login_subscribe, login_inline,
                login_query, login_reply, dbVars
  <2>2. StoresKeep(m, u) BY <1>2, <2>1, SameStores
  <2>3. ASSUME ReadFor(c, m, u) PROVE GoesOn(m, u)
    <3>1. login_reply(c)
      BY <1>7, <2>3 DEF LoginStep, login, login_insert, login_subscribe,
                        login_inline, login_query, At, ReadFor
    <3>2. u \in logins[c]
      BY <2>3 DEF ReadFor, Addressed, Admitted, InSession, LoginSteps
    <3>3. Alive(c) /\ Push(c, vec[c]) BY <3>1 DEF login_reply, At
    <3>4. vec[c] \in Seq(Msg) /\ InSeq(m, vec[c]) BY <2>3 DEF TypeOK, ReadFor
    <3>5. QED BY <3>2, <3>3, <3>4, PushHands
  <2>4. QED
    BY <1>1, <1>3, <1>4, <2>2, <2>3, OthersWait, StoresWait DEF GoesOn, Waits
<1>8. QED BY <1>6, <1>7

(* logout and close carry nothing; a close drops the requests of a client *)
(* that is gone.                                                          *)
LEMMA Leave_Goes ==
  ASSUME TypeOK, NEW c \in Conn, LeaveStep(c),
         NEW m \in Msg, NEW u \in User, Waits(m, u)
  PROVE  GoesOn(m, u)
<1>1. \A d \in Conn \ {c} : SameWork(d) BY WorkOthers DEF WorkerStep
<1>2. /\ pc[c] \notin ChatSteps \cup {"login_reply"}
      /\ UNCHANGED <<offline, inbox>>
  BY DEF LeaveStep, logout, logout_unsubscribe, logout_offline,
         ClientCloseException, close_unsubscribe, close_offline, At, ChatSteps,
         dbVars, busVars, unsubscribe, WriteCommand
<1>3. ~CarriedFor(c, m, u) /\ ~ReadFor(c, m, u)
  BY <1>2 DEF CarriedFor, ReadFor, ChatSteps, OneChatSteps, GroupSteps,
              MemberSteps
<1>4. StoresKeep(m, u) BY <1>2, SameStores
<1>5. ASSUME AskedFor(c, m, u) PROVE GoesOn(m, u)
  <2>1. CASE ClientCloseException(c)
    BY <1>5, <2>1 DEF ClientCloseException, GoesOn, Excused
  <2>2. CASE ~ClientCloseException(c)
    <3>1. reqs' = reqs
      BY <2>2 DEF LeaveStep, logout, logout_unsubscribe, logout_offline,
                  close_unsubscribe, close_offline, envVars
    <3>2. AskedFor(c, m, u)' BY <1>5, <3>1 DEF AskedFor, For
    <3>3. QED BY <3>2 DEF GoesOn, Waits
  <2>3. QED BY <2>1, <2>2
<1>6. QED BY <1>1, <1>3, <1>4, <1>5, OthersWait, StoresWait
(* The message of oneChat goes to a client, a channel or the table. *)
LEMMA OneChat_Goes ==
  ASSUME TypeOK, Stages, MapSound, RegistryAgreement, NEW c \in Conn,
         oneChat(c) \/ oneChat_query(c) \/ oneChat_publish(c)
           \/ oneChat_insert(c),
         NEW m \in Msg, NEW u \in User, CarriedFor(c, m, u)
  PROVE  GoesOn(m, u)
<1>1. pc[c] \in OneChatSteps /\ js[c].msg = m /\ js[c].user = u
  BY DEF oneChat, oneChat_query, oneChat_publish, oneChat_insert, At,
         CarriedFor, OneChatSteps, GroupSteps, MemberSteps
<1>2. ASSUME js'[c] = js[c], pc'[c] \in OneChatSteps PROVE GoesOn(m, u)
  BY <1>1, <1>2 DEF GoesOn, Waits, CarriedFor
<1>3. CASE oneChat(c)
  <2>1. PICK d : d = userConnMap[at[c]][u] OBVIOUS
  <2>2. CASE d = NoConn
    BY <1>1, <1>2, <1>3, <2>1, <2>2
       DEF oneChat, Here, Goto, TypeOK, OneChatSteps
  <2>3. CASE d # NoConn
    <3>1. Push(d, <<m>>) BY <1>1, <1>3, <2>1, <2>3 DEF oneChat, Here
    <3>2. at[c] \in Server
      BY <1>3 DEF oneChat, At, Alive, Stages, Placed
    <3>3. d \in Conn BY <2>1, <2>3, <3>2 DEF TypeOK
    <3>4. Alive(d) /\ u \in logins[d] BY <2>1, <3>2, <3>3 DEF MapSound
    <3>5. <<m>> \in Seq(Msg) /\ InSeq(m, <<m>>) BY DEF InSeq
    <3>6. QED BY <3>1, <3>3, <3>4, <3>5, PushHands
  <2>4. QED BY <2>2, <2>3
<1>4. CASE oneChat_query(c)
  BY <1>2, <1>4 DEF oneChat_query, Goto, TypeOK, OneChatSteps
<1>5. CASE oneChat_publish(c)
  BY <1>1, <1>5, PublishGoes DEF oneChat_publish, At, PublishesTo
<1>6. CASE oneChat_insert(c)
  <2>1. StoreOffline(u, m) BY <1>1, <1>6 DEF oneChat_insert
  <2>2. QED BY <2>1, StoreKeeps DEF GoesOn, Waits
<1>7. QED BY <1>3, <1>4, <1>5, <1>6

(* So do those of groupChat, unless its loop ends too soon. *)
LEMMA GroupChat_Goes ==
  ASSUME TypeOK, Stages, MapSound, RegistryAgreement, NEW c \in Conn,
         \/ groupChat(c) \/ group_lock(c) \/ group_next(c) \/ group_query(c)
         \/ group_publish(c) \/ group_insert(c),
         NEW m \in Msg, NEW u \in User, CarriedFor(c, m, u)
  PROVE  GoesOn(m, u)
<1>1. js[c].msg = m BY DEF CarriedFor
<1>2. PICK q : q = idvec[c] OBVIOUS
<1>3. q \in Seq(User) BY <1>2 DEF TypeOK
<1>4. ASSUME js'[c] = js[c], pc'[c] \in GroupSteps, InSeq(u, idvec'[c])
      PROVE  GoesOn(m, u)
  BY <1>1, <1>4 DEF GoesOn, Waits, CarriedFor
<1>5. CASE groupChat(c)
  <2>1. u \in Members(js[c].user)
    BY <1>5 DEF groupChat, At, CarriedFor, OneChatSteps, GroupSteps,
                MemberSteps
  <2>2. /\ idvec'[c] = MembersExcept[js[c].user] /\ js'[c] = js[c]
        /\ pc'[c] = "group_lock"
    BY <1>5 DEF groupChat, Goto, TypeOK
  <2>3. InSeq(u, idvec'[c]) BY <2>1, <2>2 DEF Members, InSeq
  <2>4. QED BY <1>4, <2>2, <2>3 DEF GroupSteps
<1>6. CASE ~groupChat(c)
  <2>1. pc[c] \in GroupSteps /\ InSeq(u, q)
    BY <1>2, <1>6 DEF group_lock, group_next, group_query, group_publish,
                      group_insert, At, CarriedFor, OneChatSteps, GroupSteps,
                      MemberSteps
  <2>2. q # <<>> BY <2>1 DEF InSeq
  <2>3. Head(q) \in User BY <1>3, <2>2
  <2>4. u # Head(q) => InSeq(u, Tail(q)) BY <1>3, <2>1, TailKeeps
  <2>5. ASSUME js'[c] = js[c], pc'[c] \in GroupSteps, idvec'[c] = q
        PROVE  GoesOn(m, u)
    BY <1>4, <2>1, <2>5
  <2>6. ASSUME js'[c] = js[c], pc'[c] \in GroupSteps, idvec'[c] = Tail(q),
               u # Head(q)
        PROVE  GoesOn(m, u)
    BY <1>4, <2>4, <2>6
  <2>7. CASE group_lock(c) \/ group_query(c)
    <3>1. js'[c] = js[c] /\ idvec'[c] = q
      BY <1>2, <2>7 DEF group_lock, group_query
    <3>2. pc'[c] \in GroupSteps
      BY <2>7 DEF group_lock, group_query, Goto, TypeOK, GroupSteps,
                  MemberSteps
    <3>3. QED BY <2>5, <3>1, <3>2
  <2>8. CASE group_next(c)
    <3>1. PICK d : d = userConnMap[at[c]][Head(q)] OBVIOUS
    <3>2. CASE d = NoConn
      <4>1. js'[c] = js[c] /\ idvec'[c] = q /\ pc'[c] = "group_query"
        BY <1>2, <2>2, <2>8, <3>1, <3>2 DEF group_next, Here, Goto, TypeOK
      <4>2. QED BY <2>5, <4>1 DEF GroupSteps, MemberSteps
    <3>3. CASE d # NoConn
      <4>1. /\ Push(d, <<m>>) /\ NextMember(c) /\ UNCHANGED <<pc, js>>
            /\ pc[c] = "group_next"
        BY <1>1, <1>2, <2>2, <2>8, <3>1, <3>3 DEF group_next, Here, At
      <4>2. CASE u # Head(q)
        <5>1. idvec'[c] = Tail(q) BY <1>2, <4>1 DEF NextMember, TypeOK
        <5>2. QED BY <2>6, <4>1, <4>2, <5>1 DEF GroupSteps
      <4>3. CASE u = Head(q)
        <5>1. at[c] \in Server
          BY <2>8 DEF group_next, At, Alive, Stages, Placed
        <5>2. d \in Conn BY <2>3, <3>1, <3>3, <5>1 DEF TypeOK
        <5>3. Alive(d) /\ u \in logins[d]
          BY <3>1, <4>3, <5>1, <5>2 DEF MapSound
        <5>4. <<m>> \in Seq(Msg) /\ InSeq(m, <<m>>) BY DEF InSeq
        <5>5. QED BY <4>1, <5>2, <5>3, <5>4, PushHands
      <4>4. QED BY <4>2, <4>3
    <3>4. QED BY <3>2, <3>3
  <2>9. CASE group_publish(c)
    <3>1. pc[c] = "group_publish" /\ publish(Head(q), m)
      BY <1>1, <1>2, <2>9 DEF group_publish, At
    <3>2. CASE u # Head(q)
      BY <1>2, <3>1, <3>2 DEF GoesOn, Excused
    <3>3. CASE u = Head(q)
      <4>1. PublishesTo(c, u) BY <1>2, <3>1, <3>3 DEF PublishesTo
      <4>2. QED BY <1>1, <3>1, <3>3, <4>1, PublishGoes
    <3>4. QED BY <3>2, <3>3
  <2>10. CASE group_insert(c)
    <3>1. StoreOffline(Head(q), m) BY <1>1, <1>2, <2>10 DEF group_insert
    <3>2. CASE u = Head(q)
      BY <2>3, <3>1, <3>2, StoreKeeps DEF GoesOn, Waits
    <3>3. CASE u # Head(q)
      <4>1. js'[c] = js[c] /\ pc'[c] = "group_next" /\ idvec'[c] = Tail(q)
        BY <1>2, <2>10 DEF group_insert, NextMember, Goto, TypeOK
      <4>2. QED BY <2>6, <3>3, <4>1 DEF GroupSteps
    <3>4. QED BY <3>2, <3>3
  <2>11. QED BY <1>6, <2>7, <2>8, <2>9, <2>10
<1>7. QED BY <1>5, <1>6

(* What else is on its way stays where it is during a chat. *)
LEMMA Chat_Goes ==
  ASSUME TypeOK, Stages, MapSound, RegistryAgreement, NEW c \in Conn,
         ChatStep(c), NEW m \in Msg, NEW u \in User, Waits(m, u)
  PROVE  GoesOn(m, u)
<1>1. \A d \in Conn \ {c} : SameWork(d) BY WorkOthers DEF WorkerStep
<1>2. pc[c] \in ChatSteps /\ reqs' = reqs
  BY DEF ChatStep, oneChat, oneChat_query, oneChat_publish, oneChat_insert,
         groupChat, group_lock, group_next, group_query, group_publish,
         group_insert, At, ChatSteps, envVars
<1>3. ~ReadFor(c, m, u) BY <1>2 DEF ReadFor, ChatSteps
<1>4. AskedFor(c, m, u) => AskedFor(c, m, u)' BY <1>2 DEF AskedFor, For
<1>5. js[c].user \in User /\ js[c].msg \in Msg
  BY <1>2 DEF Stages, UserKnown, MsgKnown
<1>6. pc[c] \in MemberSteps => Head(idvec[c]) \in User
  <2>1. idvec[c] \in Seq(User) BY DEF TypeOK
  <2>2. pc[c] \in MemberSteps => idvec[c] # <<>> BY DEF Stages, MemberLeft
  <2>3. QED BY <2>1, <2>2
<1>7. \/ UNCHANGED <<offline, inbox>>
      \/ inbox' = inbox /\ \E v \in User : StoreOffline(v, js[c].msg)
      \/ offline' = offline /\ \E v \in User : publish(v, js[c].msg)
  <2>1. CASE oneChat_publish(c)
    BY <1>5, <2>1 DEF oneChat_publish, dbVars
  <2>2. CASE group_publish(c)
    BY <1>6, <2>2 DEF group_publish, At, MemberSteps, dbVars
  <2>3. CASE oneChat_insert(c)
    BY <1>5, <2>3 DEF oneChat_insert, busVars
  <2>4. CASE group_insert(c)
    BY <1>6, <2>4 DEF group_insert, At, MemberSteps, busVars
  <2>5. CASE oneChat(c) \/ oneChat_query(c) \/ groupChat(c) \/ group_lock(c)
               \/ group_next(c) \/ group_query(c)
    BY <2>5 DEF oneChat, oneChat_query, groupChat, group_lock, group_next,
                group_query, dbVars, busVars
  <2>6. QED BY <2>1, <2>2, <2>3, <2>4, <2>5 DEF ChatStep
<1>8. StoresKeep(m, u)
  <2>1. CASE UNCHANGED <<offline, inbox>> BY <2>1, SameStores
  <2>2. ASSUME inbox' = inbox, NEW v \in User, StoreOffline(v, js[c].msg)
        PROVE  StoresKeep(m, u)
    BY <1>5, <2>2, StoreKeeps DEF StoresKeep, PushedFor
  <2>3. ASSUME offline' = offline, NEW v \in User, publish(v, js[c].msg)
        PROVE  StoresKeep(m, u)
    BY <1>5, <2>3, PublishKeeps DEF StoresKeep, StoredFor
  <2>4. QED BY <1>7, <2>1, <2>2, <2>3
<1>9. CarriedFor(c, m, u) => GoesOn(m, u)
  BY OneChat_Goes, GroupChat_Goes DEF ChatStep
<1>10. QED
  BY <1>1, <1>3, <1>4, <1>8, <1>9, OthersWait, StoresWait DEF GoesOn, Waits

(* The observer sends the first message of its channel or stores it. *)
LEMMA Observer_Goes ==
  ASSUME TypeOK, MapSound, NEW s \in Server, handleRedisSubscribeMessage(s),
         NEW m \in Msg, NEW u \in User, Waits(m, u)
  PROVE  GoesOn(m, u)
<1>1. PICK q : q = inbox[s] OBVIOUS
<1>2. PICK n : n = Head(q) OBVIOUS
<1>3. PICK d : d = userConnMap[s][n.channel] OBVIOUS
<1>4. q \in Seq(Notice) /\ q # <<>> /\ n \in Notice
  BY <1>1, <1>2 DEF handleRedisSubscribeMessage, TakeNotice, TypeOK, BusTypeOK
<1>5. n.channel \in User /\ n.msg \in Msg BY <1>4 DEF Notice
<1>6. /\ inbox'[s] = Tail(q)
      /\ \A r \in Server \ {s} : inbox'[r] = inbox[r]
      /\ UNCHANGED <<reqs, jobVars>>
  BY <1>1 DEF handleRedisSubscribeMessage, TakeNotice, TypeOK, BusTypeOK,
              envVars
<1>7. \/ d # NoConn /\ Push(d, <<n.msg>>) /\ offline' = offline
      \/ d = NoConn /\ StoreOffline(n.channel, n.msg)
  BY <1>1, <1>2, <1>3 DEF handleRedisSubscribeMessage
<1>8. StoredFor(m, u) => StoredFor(m, u)'
  <2>1. CASE offline' = offline BY <2>1 DEF StoredFor
  <2>2. CASE StoreOffline(n.channel, n.msg) BY <1>5, <2>2, StoreKeeps
  <2>3. QED BY <1>7, <2>1, <2>2
<1>9. \A r \in Server \ {s} : PushedFor(r, m, u) => PushedFor(r, m, u)'
  BY <1>6 DEF PushedFor
<1>10. \A c \in Conn : /\ AskedFor(c, m, u) => AskedFor(c, m, u)'
                       /\ CarriedFor(c, m, u) => CarriedFor(c, m, u)'
                       /\ ReadFor(c, m, u) => ReadFor(c, m, u)'
  BY <1>6 DEF AskedFor, For, CarriedFor, ReadFor, jobVars
<1>11. ASSUME PushedFor(s, m, u) PROVE GoesOn(m, u)
  <2>1. PICK x : x = [channel |-> u, msg |-> m] OBVIOUS
  <2>2. InSeq(x, q) BY <1>1, <1>11, <2>1 DEF PushedFor
  <2>3. CASE x # n
    <3>1. InSeq(x, Tail(q)) BY <1>2, <1>4, <2>2, <2>3, TailKeeps
    <3>2. PushedFor(s, m, u)' BY <1>6, <2>1, <3>1 DEF PushedFor
    <3>3. QED BY <3>2 DEF GoesOn, Waits
  <2>4. CASE x = n
    <3>1. n.channel = u /\ n.msg = m BY <2>1, <2>4
    <3>2. CASE d # NoConn
      <4>1. d \in Conn BY <1>3, <1>5, <3>2 DEF TypeOK
      <4>2. Alive(d) /\ u \in logins[d] BY <1>3, <3>1, <4>1 DEF MapSound
      <4>3. <<m>> \in Seq(Msg) /\ InSeq(m, <<m>>) BY DEF InSeq
      <4>4. Push(d, <<m>>) BY <1>7, <3>1, <3>2
      <4>5. QED BY <4>1, <4>2, <4>3, <4>4, PushHands
    <3>3. CASE d = NoConn
      BY <1>7, <3>1, <3>3, StoreKeeps DEF GoesOn, Waits
    <3>4. QED BY <3>2, <3>3
  <2>5. QED BY <2>3, <2>4
<1>12. QED BY <1>8, <1>9, <1>10, <1>11 DEF Waits, GoesOn

(* Redis executes a command; what it has pushed stays. *)
LEMMA Redis_Goes ==
  ASSUME NEW s \in Server, RedisStep(s),
         NEW m \in Msg, NEW u \in User, Waits(m, u)
  PROVE  GoesOn(m, u)
<1>1. UNCHANGED <<reqs, jobVars, offline, inbox>>
  BY DEF RedisStep, RedisExecute, envVars, dbVars
<1>2. Waits(m, u)'
  BY <1>1 DEF Waits, AskedFor, For, CarriedFor, ReadFor, PushedFor, StoredFor,
              jobVars
<1>3. QED BY <1>2 DEF GoesOn

(* Every step lets m go on, where requests are read one by one and all *)
(* servers are up.                                                     *)
LEMMA GoesOnStep ==
  ASSUME MaxBatch = 1, Faults = {}, TypeOK, Stages, Addressed, MapSound,
         RegistryAgreement, AllUp, [Next]_vars,
         NEW m \in Msg, NEW u \in User, Waits(m, u)
  PROVE  GoesOn(m, u)
<1>1. ASSUME NEW c \in Conn, ClientStep(c) \/ WorkerStep(c)
      PROVE  GoesOn(m, u)
  BY <1>1, Client_Goes, Read_Goes, Login_Goes, Leave_Goes, Chat_Goes
     DEF WorkerStep
<1>2. ASSUME NEW s \in Server, ServerStep(s)
      PROVE  GoesOn(m, u)
  <2>1. up[s] = "up" BY DEF AllUp
  <2>2. handleRedisSubscribeMessage(s) \/ RedisStep(s)
    BY <1>2, <2>1 DEF ServerStep, resetHandle, exit, crash, restart
  <2>3. QED BY <2>2, Observer_Goes, Redis_Goes
<1>3. CASE UNCHANGED vars
  <2>1. UNCHANGED <<reqs, jobVars, offline, inbox>>
    BY <1>3 DEF vars, envVars, dbVars, busVars
  <2>2. Waits(m, u)'
    BY <2>1 DEF Waits, AskedFor, For, CarriedFor, ReadFor, PushedFor,
                StoredFor, jobVars
  <2>3. QED BY <2>2 DEF GoesOn
<1>4. QED BY <1>1, <1>2, <1>3 DEF Next

(***************************************************************************)
(* However many servers, users, clients and messages there are: if two     *)
(* logins of a user are never both in login's gap, requests are read one   *)
(* by one and no server ends, then a message on its way to a user stays on *)
(* its way until a client on which he is logged in has it, except on the   *)
(* paths that Excused lists.  Every SQL statement of the model succeeds.   *)
(***************************************************************************)
THEOREM NotLostHolds ==
  ASSUME MaxBatch = 1, Faults = {} PROVE Spec /\ []LoginsApart => NotLost
<1>1. SoleUse BY DEF SoleUse
<1>2. /\ TypeOK /\ Stages /\ Ordered /\ MapKept /\ SessionsKept /\ Addressed
      /\ Entered /\ RegistryKept /\ [Next]_vars
      => [\A m \in Msg, u \in User :
            Waits(m, u) /\ ~Waits(m, u)'
              => HandedOver(m, u) \/ Excused(m, u)]_vars
  <2> SUFFICES ASSUME TypeOK, Stages, MapKept, SessionsKept, Addressed, Entered,
                      RegistryKept, [Next]_vars,
                      NEW m \in Msg, NEW u \in User,
                      Waits(m, u), ~Waits(m, u)'
               PROVE  HandedOver(m, u) \/ Excused(m, u)
    OBVIOUS
  <2>1. MapSound BY <1>1, KeptSound
  <2>2. RegistryAgreement BY KeptAgreement
  <2>3. AllUp BY DEF RegistryKept
  <2>4. GoesOn(m, u) BY <2>1, <2>2, <2>3, GoesOnStep
  <2>5. QED BY <2>4 DEF GoesOn
<1>3. Spec /\ []LoginsApart
        => [](/\ TypeOK /\ Stages /\ Ordered /\ MapKept /\ SessionsKept
              /\ Addressed /\ Entered /\ RegistryKept)
  BY <1>1, RegistryKeptHolds
<1>4. QED BY <1>2, <1>3, PTL DEF Spec, NotLost
=============================================================================
