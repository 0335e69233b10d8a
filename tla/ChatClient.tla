----------------------------- MODULE ChatClient -----------------------------
(***************************************************************************)
(* The client program (client/main.cpp): its main thread, which reads the  *)
(* menu and the commands, sends requests and receives the answers to login *)
(* and reg; its read thread, started by the first login; the TCP streams   *)
(* to and from the server; what the server does with this connection; and  *)
(* what other clients and other servers do to the same users.              *)
(*                                                                         *)
(* Both threads receive from the one socket, and the server writes chat    *)
(* messages to it from the moment login has put the user into its map.     *)
(***************************************************************************)
EXTENDS Framing

CONSTANTS
  User, NoUser,
  Buffer,      \* units of the client's buffer of 1024 bytes
  AnswerSizes, \* units that the answer to a login may have
  ChatSizes,   \* units that a chat message may have
  RequestSizes,\* units that a chat command may have
  MaxRead,     \* bound: units the server finds at one read
  MaxSends,    \* bound: requests sent
  MaxChats,    \* bound: chat messages from others
  MaxOthers    \* bound: steps of other clients and servers, failed statements

ASSUME ClientAssumption ==
  /\ NoUser \notin User
  /\ Buffer \in Nat \ {0} /\ MaxRead \in Nat \ {0}
  /\ AnswerSizes \cup ChatSizes \cup RequestSizes \subseteq Nat \ {0}
  /\ MaxSends \in Nat /\ MaxChats \in Nat /\ MaxOthers \in Nat

VARIABLES
  \* the client process
  screen,     \* the main thread: at the "menu"; in recv for the answer to a
              \* "login" or a "reg"; at the commands of "chat"; or the process
              \* has ended: "quit", "died" (uncaught exception), "exit"
  current,    \* g_currentUser
  reader,     \* the read thread has been started (readthreadnumber)
  held,       \* the read thread's buffer: received and not yet displayed
  displayed,  \* the last chat message displayed, 0 for none
  late,       \* history: what it holds it had when current was let in
  \* the streams
  up, down,   \* to the server, to the client
  \* the server, as far as this connection goes
  link,       \* the server has the connection "open", or has "closed" it
  serving,    \* "idle", or the step of its handler: "login", "login_reply"
  job,        \* the request it handles
  mapped,     \* users whose entry of _userConnMap is this connection
  elsewhere,  \* users whose entry of _userConnMap is another connection
  inline,     \* users whose state is inline
  unheard,    \* history: users whose logout the server dropped
  whose,      \* history: the user each chat message was sent to
  touched,    \* history: users somebody else has acted on, or whose UPDATE
              \* has failed, since they were entered for this connection
  \* bounds
  sends, others

clientVars == <<screen, current, reader, held, displayed, late>>
userVars == <<mapped, elsewhere, inline, touched, others>>
serverVars == <<link, serving, job, userVars, unheard, whose>>
vars == <<clientVars, up, down, serverVars, sends>>

Request == [op : {"login", "reg", "chat", "logout"}, user : User \cup {NoUser}]

(* Fields that a message does not have are null when they are taken. *)
Ack == [type : {"login", "reg"}, errno : {"0", "1"}, user : User \cup {NoUser}]
Chat == [type : {"chat"}, errno : {"null"}, no : 1..MaxChats]

NoJob == [op |-> "none", user |-> NoUser]

Ended == {"quit", "died", "exit"}

TypeOK ==
  /\ screen \in {"menu", "login", "reg", "chat"} \cup Ended
  /\ current \in User \cup {NoUser}
  /\ reader \in BOOLEAN /\ late \in BOOLEAN
  /\ held \in Stream(Ack \cup Chat) /\ displayed \in 0..Len(whose)
  /\ up \in Stream(Request) /\ down \in Stream(Ack \cup Chat)
  /\ link \in {"open", "closed"}
  /\ serving \in {"idle", "login", "login_reply"}
  /\ job \in Request \cup {NoJob}
  /\ mapped \subseteq User /\ elsewhere \subseteq User
  /\ inline \subseteq User
  /\ unheard \subseteq User /\ touched \subseteq User
  /\ whose \in Seq(User) /\ Len(whose) <= MaxChats
  /\ sends \in 0..MaxSends /\ others \in 0..MaxOthers

Init ==
  /\ screen = "menu" /\ current = NoUser
  /\ reader = FALSE /\ held = <<>> /\ displayed = 0 /\ late = FALSE
  /\ up = <<>> /\ down = <<>>
  /\ link = "open" /\ serving = "idle" /\ job = NoJob
  /\ mapped = {} /\ elsewhere = {} /\ inline = {} /\ touched = {}
  /\ unheard = {} /\ whose = <<>>
  /\ sends = 0 /\ others = 0

-----------------------------------------------------------------------------
(* The main thread.                                                        *)

Alive == screen \notin Ended

(* send; the first one to a server that has closed the connection works. *)
Send(op, u, n) ==
  /\ sends < MaxSends
  /\ sends' = sends + 1
  /\ up' = IF link = "open"
           THEN up \o Units([op |-> op, user |-> u], n) ELSE up
  /\ UNCHANGED <<current, reader, held, displayed, late, down, serverVars>>

ClientLogin(u) ==
  /\ screen = "menu"
  /\ Send("login", u, 1)
  /\ screen' = "login"

ClientReg ==
  /\ screen = "menu"
  /\ Send("reg", NoUser, 1)
  /\ screen' = "reg"

(* The process ends, and its end of the connection with it. *)
End(how) ==
  /\ screen' = how
  /\ UNCHANGED <<current, reader, displayed, late>>

quit ==
  /\ screen = "menu"
  /\ End("quit")
  /\ UNCHANGED <<held, up, down, serverVars, sends>>

(* SIGPIPE, at a later send to a server that has closed the connection. *)
send_broken ==
  /\ screen \in {"menu", "chat"} /\ link = "closed"
  /\ End("died")
  /\ UNCHANGED <<held, up, down, serverVars, sends>>

(* chat, addfriend, creategroup, addgroup and groupchat expect no answer. *)
command ==
  /\ screen = "chat"
  /\ \E n \in RequestSizes : Send("chat", current, n)
  /\ UNCHANGED screen

(* Mutant: the command is there before anybody has logged in. *)
logout_AtMenu ==
  /\ screen \in {"menu", "chat"}
  /\ Send("logout", current, 1)
  /\ screen' = "menu"

(* The menu of mainMenu ends; what was loaded at the login stays. *)
logout ==
  /\ screen = "chat"
  /\ Send("logout", current, 1)
  /\ screen' = "menu"

(* recv: some of what has arrived, as much as the buffer holds. *)
Received(n) == n \in 1..Buffer /\ n <= Len(down)

Rest(n) ==
  /\ down' = Drop(down, n)
  /\ UNCHANGED <<up, serverVars, sends>>

(***************************************************************************)
(* A login has succeeded: the user of the answer is the current one, and   *)
(* the read thread is started unless there is one.                         *)
(***************************************************************************)
Load(m) ==
  /\ current' = m.user
  /\ reader' = TRUE /\ screen' = "chat"
  /\ late' = (held # <<>>)
  /\ UNCHANGED displayed

Menu == screen' = "menu" /\ UNCHANGED <<current, reader, displayed, late>>

(* Mutant: a text that is no answer is passed over. *)
recvAnswer_Tolerant ==
  /\ screen \in {"login", "reg"}
  /\ \E n \in 1..Buffer :
       /\ Received(n) /\ Rest(n) /\ UNCHANGED held
       /\ LET text == Take(down, n)
              m    == text[1].msg IN
          IF ~Parses(text) \/ m.errno = "null" THEN Menu
          ELSE IF m.errno = "0" /\ screen = "login" THEN Load(m) ELSE Menu

(***************************************************************************)
(* The answer to a login or a reg: whatever one recv brings is parsed and  *)
(* its errno taken; json throws where the text or the field is missing.    *)
(***************************************************************************)
recvAnswer ==
  /\ screen \in {"login", "reg"}
  /\ \E n \in 1..Buffer :
       /\ Received(n) /\ Rest(n) /\ UNCHANGED held
       /\ LET text == Take(down, n)
              m    == text[1].msg IN
          IF ~Parses(text) \/ m.errno = "null" THEN End("died")
          ELSE IF m.errno = "0" /\ screen = "login" THEN Load(m) ELSE Menu

(* recv returns 0, which main parses as an empty text, or -1. *)
recvClosed ==
  /\ screen \in {"login", "reg"} /\ link = "closed" /\ down = <<>>
  /\ End("died") \/ Menu
  /\ UNCHANGED <<held, up, down, serverVars, sends>>

-----------------------------------------------------------------------------
(* readTaskHandler: what is received is parsed and displayed in a step of  *)
(* its own, between which the main thread runs on.                         *)

(* Mutant: the thread runs from the start of the process. *)
readTaskHandler_Early ==
  /\ Alive /\ held = <<>>
  /\ \E n \in 1..Buffer :
       Received(n) /\ Rest(n) /\ held' = Take(down, n)
  /\ UNCHANGED <<screen, current, reader, displayed, late>>

(* recv *)
readTaskHandler ==
  /\ Alive /\ reader /\ held = <<>>
  /\ \E n \in 1..Buffer :
       Received(n) /\ Rest(n) /\ held' = Take(down, n)
  /\ UNCHANGED <<screen, current, reader, displayed, late>>

(* Only a private or a group chat is printed, anything else is dropped. *)
Show(m) ==
  /\ displayed' = IF m.type = "chat" THEN m.no ELSE displayed
  /\ late' = FALSE
  /\ UNCHANGED <<screen, current, reader>>

display ==
  /\ Alive /\ held # <<>> /\ held' = <<>>
  /\ IF Parses(held) THEN Show(held[1].msg) ELSE End("died")
  /\ UNCHANGED <<up, down, serverVars, sends>>

readClosed ==
  /\ Alive /\ reader /\ held = <<>> /\ link = "closed" /\ down = <<>>
  /\ End("exit")
  /\ UNCHANGED <<held, up, down, serverVars, sends>>

-----------------------------------------------------------------------------
(* The server, for this connection.  Its sends go nowhere once the client  *)
(* has ended; what its handlers do to the tables and to other clients is   *)
(* in ChatService and Accounts.                                            *)

Answer(type, errno, u, n) ==
  down' = down \o Units([type |-> type, errno |-> errno, user |-> u], n)

(* An uncaught exception in a loop thread ends the whole server. *)
ServerDies ==
  /\ link' = "closed" /\ serving' = "idle" /\ job' = NoJob
  /\ mapped' = {} /\ elsewhere' = {} /\ up' = <<>>
  /\ UNCHANGED <<down, inline, touched, others, unheard, whose>>

Loggedout(text) ==
  {text[i].msg.user : i \in {j \in DOMAIN text : text[j].msg.op = "logout"}}

(* reg answers at once; it and chat do not touch the session. *)
reg ==
  /\ \E e \in {"0", "1"} : Answer("reg", e, NoUser, 1)
  /\ UNCHANGED <<serving, job, userVars>>

(***************************************************************************)
(* updateState: the UPDATE of u's state is executed, or fails, which no    *)
(* caller looks at.                                                        *)
(***************************************************************************)
updateState(u, states) ==
  \/ inline' = states /\ UNCHANGED <<touched, others>>
  \/ /\ others < MaxOthers /\ others' = others + 1
     /\ touched' = touched \cup {u} /\ UNCHANGED inline

(* Mutant: the entry of the map stays. *)
logout_KeepsEntry(u) ==
  /\ updateState(u, inline \ {u})
  /\ UNCHANGED <<down, serving, job, mapped, elsewhere>>

(* ChatService::logout erases the entry of the id, whatever connection it  *)
(* is of.                                                                  *)
logout_handler(u) ==
  /\ mapped' = mapped \ {u} /\ elsewhere' = elsewhere \ {u}
  /\ updateState(u, inline \ {u})
  /\ UNCHANGED <<down, serving, job>>

Dispatch(req) ==
  \/ req.op = "reg" /\ reg
  \/ req.op = "logout" /\ logout_handler(req.user)
  \/ req.op = "chat" /\ UNCHANGED <<down, serving, job, userVars>>
  \/ /\ req.op = "login"
     /\ serving' = "login" /\ job' = req
     /\ UNCHANGED <<down, userVars>>

(***************************************************************************)
(* ChatServer::onMessage: everything that has arrived is taken, and one    *)
(* request is parsed.  A request that is split throws; the requests behind *)
(* the first are dropped.                                                  *)
(***************************************************************************)
onMessage ==
  /\ link = "open" /\ serving = "idle"
  /\ \E n \in 1..MaxRead :
       /\ n <= Len(up)
       /\ LET text == Take(up, n) IN
            IF ParsesFirst(text)
            THEN /\ up' = Drop(up, n)
                 /\ Dispatch(text[1].msg)
                 /\ unheard' = unheard \cup
                                Loggedout(Drop(text, text[1].of))
                 /\ UNCHANGED <<link, whose>>
            ELSE ServerDies
  /\ UNCHANGED <<clientVars, sends>>

(* Mutant: the user enters the map after he has been answered. *)
login_Unmapped ==
  /\ link = "open" /\ serving = "login" /\ job.user \notin inline
  /\ serving' = "login_reply"
  /\ UNCHANGED <<clientVars, up, down, link, job, userVars, unheard, whose,
                 sends>>

(***************************************************************************)
(* ChatService::login: refused, or entered into the map: insert keeps an   *)
(* entry that the user has there, of this connection or of another.        *)
(***************************************************************************)
login ==
  /\ link = "open" /\ serving = "login"
  /\ \/ /\ Answer("login", "1", NoUser, 1)
        /\ serving' = "idle" /\ job' = NoJob
        /\ UNCHANGED <<mapped, touched>>
     \/ /\ job.user \notin inline
        /\ serving' = "login_reply" /\ UNCHANGED <<down, job>>
        /\ IF job.user \in elsewhere
           THEN UNCHANGED <<mapped, touched>>
           ELSE /\ mapped' = mapped \cup {job.user}
                /\ touched' = touched \ {job.user}
  /\ UNCHANGED <<clientVars, up, link, elsewhere, inline, others, unheard,
                 whose, sends>>

(* Redis and the tables come next, and then the answer. *)
login_reply ==
  /\ link = "open" /\ serving = "login_reply"
  /\ updateState(job.user, inline \cup {job.user})
  /\ \E n \in AnswerSizes : Answer("login", "0", job.user, n)
  /\ serving' = "idle" /\ job' = NoJob
  /\ UNCHANGED <<clientVars, up, link, mapped, elsewhere, unheard, whose,
                 sends>>

(* A message of another user: oneChat, groupChat, or Redis's observer. *)
Push(u) ==
  /\ link = "open" /\ u \in mapped /\ Len(whose) < MaxChats
  /\ whose' = Append(whose, u)
  /\ \E n \in ChatSizes :
       down' = down \o Units([type |-> "chat", errno |-> "null",
                              no |-> Len(whose')], n)
  /\ UNCHANGED <<clientVars, up, link, serving, job, userVars, unheard, sends>>

(* Another client logs u in: this server enters the other connection for   *)
(* him if his state allows it and he has no entry, and sets him inline in  *)
(* a later step; another server only does the second here.                 *)
otherLogin(u) ==
  \/ /\ u \notin inline \cup mapped
     /\ elsewhere' = elsewhere \cup {u} /\ UNCHANGED <<mapped, inline>>
  \/ inline' = inline \cup {u} /\ UNCHANGED <<mapped, elsewhere>>

(* Another client logs u out, or its connection is lost: at this server,   *)
(* where the entry of the id goes, or at another.                          *)
otherLogout(u) ==
  /\ inline' = inline \ {u}
  /\ \/ mapped' = mapped \ {u} /\ elsewhere' = elsewhere \ {u}
     \/ UNCHANGED <<mapped, elsewhere>>

(* What others do to u, and resetState of another server to everybody. *)
otherClient(u) ==
  /\ otherLogin(u) \/ otherLogout(u)
  /\ touched' = touched \cup {u}

otherReset ==
  /\ inline' = {} /\ UNCHANGED <<mapped, elsewhere>>
  /\ touched' = User

somebodyElse ==
  /\ link = "open" /\ others < MaxOthers /\ others' = others + 1
  /\ otherReset \/ \E u \in User : otherClient(u)
  /\ UNCHANGED <<clientVars, up, down, link, serving, job, unheard, whose,
                 sends>>

(* The server ends at any point, or the network does. *)
serverGone ==
  /\ link = "open" /\ ServerDies
  /\ UNCHANGED <<clientVars, sends>>

-----------------------------------------------------------------------------
MainThread == recvAnswer \/ recvClosed
ReadThread == readTaskHandler \/ display \/ readClosed
LoopThread == Alive /\ (onMessage \/ login \/ login_reply)

Next ==
  \/ \E u \in User : ClientLogin(u)
  \/ ClientReg \/ quit \/ command \/ logout \/ send_broken
  \/ MainThread \/ ReadThread \/ LoopThread
  \/ Alive /\ serverGone
  \/ Alive /\ \E u \in User : Push(u)
  \/ Alive /\ somebodyElse

Spec == Init /\ [][Next]_vars

(* Threads that have something to read or to handle run; people need not. *)
FairSpec ==
  Spec /\ WF_vars(MainThread) /\ WF_vars(ReadThread) /\ WF_vars(LoopThread)

-----------------------------------------------------------------------------
(* Properties                                                              *)

Waiting == screen \in {"login", "reg"}

(***************************************************************************)
(* CurrentIsMapped: while the client shows the commands of a user, the     *)
(* server has his connection in its map, so that chats reach him and a     *)
(* lost connection sets him offline, and his state is inline: whatever     *)
(* this client's own requests, lost logouts and reads do, unless somebody  *)
(* else has logged him in or out, a server has reset the table, or an      *)
(* UPDATE has failed since.                                                *)
(***************************************************************************)
CurrentIsMapped ==
  screen = "chat" /\ link = "open" /\ current \notin touched =>
    current \in mapped \cap inline

(***************************************************************************)
(* AnswerAwaited: an answer that the server will send, or that is on its   *)
(* way, is one the main thread is waiting for: it is never left to a later *)
(* login or command, which would take it for its own.                      *)
(***************************************************************************)
Asked ==
  \/ \E i \in DOMAIN up : up[i].msg.op \in {"login", "reg"}
  \/ serving # "idle"
  \/ \E i \in DOMAIN down : down[i].msg.type \in {"login", "reg"}

AnswerAwaited == Alive /\ Asked => Waiting

(***************************************************************************)
(* DisplayedToAddressee: a chat message displayed while a user has the     *)
(* commands is one sent to him, however the previous user's logout, his    *)
(* login, the chats and the steps of the two threads cross each other,     *)
(* with two exceptions: the one chat that the read thread had received and *)
(* not yet displayed when he was let in, and the chats of a user whose     *)
(* logout the server dropped behind another request.                       *)
(***************************************************************************)
DisplayedToAddressee ==
  [][displayed' # displayed /\ screen = "chat" /\ ~late =>
       whose[displayed'] \in {current} \cup unheard]_vars

(***************************************************************************)
(* FirstAnswered: until its read thread runs, a client that has sent a     *)
(* login or a registration gets past the wait for the answer: answered,    *)
(* disconnected, or dead of an answer that is longer than its buffer.      *)
(***************************************************************************)
FirstAnswered == (Waiting /\ ~reader) ~> ~Waiting

(***************************************************************************)
(* EveryoneAnswered: the same, for a user who logs in after another.       *)
(***************************************************************************)
EveryoneAnswered == Waiting ~> ~Waiting
=============================================================================
