------------------------------ MODULE RedisBus ------------------------------
(***************************************************************************)
(* The publish/subscribe bus between the chat servers: class Redis         *)
(* (dao/redis.cpp) and the Redis server behind it.                         *)
(*                                                                         *)
(* A server keeps two Redis connections.  PUBLISH runs on the first one    *)
(* and waits for its reply, so it is one step.  SUBSCRIBE and UNSUBSCRIBE  *)
(* are only written to the socket of the second one: Redis executes them   *)
(* later, in order, and the caller does not wait.  What Redis pushes on    *)
(* that second connection is read by the observer thread.                  *)
(***************************************************************************)
EXTENDS Naturals, Sequences

CONSTANTS
  Server,    \* chat server processes
  User,      \* user ids; the channel of a user is its id
  Msg,       \* chat messages
  NoUser,    \* the id -1 of a default constructed User
  MaxCmds    \* bound: commands a subscribe socket holds before a writer blocks

ASSUME BusAssumption == NoUser \notin User /\ MaxCmds \in Nat \ {0}

VARIABLES
  cmds,      \* cmds[s]: commands written by s that Redis has not executed
  subs,      \* subs[u]: the servers subscribed to channel u
  inbox      \* inbox[s]: channel messages pushed to s, not yet read

busVars == <<cmds, subs, inbox>>

Channel == User \cup {NoUser}
Command == [op : {"SUBSCRIBE", "UNSUBSCRIBE"}, channel : Channel]
Notice  == [channel : User, msg : Msg]

BusTypeOK ==
  /\ cmds \in [Server -> Seq(Command)]
  /\ subs \in [Channel -> SUBSET Server]
  /\ inbox \in [Server -> Seq(Notice)]

BusInit ==
  /\ cmds = [s \in Server |-> <<>>]
  /\ subs = [u \in Channel |-> {}]
  /\ inbox = [s \in Server |-> <<>>]

(***************************************************************************)
(* redisAppendCommand followed by redisBufferWrite until done.             *)
(***************************************************************************)
WriteCommand(s, op, u) ==
  /\ Len(cmds[s]) < MaxCmds
  /\ cmds' = [cmds EXCEPT ![s] = Append(@, [op |-> op, channel |-> u])]
  /\ UNCHANGED <<subs, inbox>>

subscribe(s, u) == WriteCommand(s, "SUBSCRIBE", u)

unsubscribe(s, u) == WriteCommand(s, "UNSUBSCRIBE", u)

(***************************************************************************)
(* Redis fans the message out to the servers subscribed at this moment.    *)
(* The number of receivers is in the reply; publish() discards it.         *)
(***************************************************************************)
publish(u, m) ==
  /\ inbox' = [s \in Server |->
                 IF s \in subs[u]
                 THEN Append(inbox[s], [channel |-> u, msg |-> m])
                 ELSE inbox[s]]
  /\ UNCHANGED <<cmds, subs>>

(***************************************************************************)
(* Redis executes the oldest command of a subscribe connection.            *)
(***************************************************************************)
RedisExecute(s) ==
  /\ cmds[s] # <<>>
  /\ LET c == Head(cmds[s]) IN
       subs' = [subs EXCEPT ![c.channel] = IF c.op = "SUBSCRIBE"
                                           THEN @ \cup {s} ELSE @ \ {s}]
  /\ cmds' = [cmds EXCEPT ![s] = Tail(@)]
  /\ UNCHANGED inbox

(***************************************************************************)
(* The observer thread takes the next pushed message.                      *)
(***************************************************************************)
TakeNotice(s) ==
  /\ inbox[s] # <<>>
  /\ inbox' = [inbox EXCEPT ![s] = Tail(@)]
  /\ UNCHANGED <<cmds, subs>>

(***************************************************************************)
(* The process of s is gone: its sockets close and Redis forgets it.       *)
(***************************************************************************)
Detach(s) ==
  /\ cmds' = [cmds EXCEPT ![s] = <<>>]
  /\ inbox' = [inbox EXCEPT ![s] = <<>>]
  /\ subs' = [u \in Channel |-> subs[u] \ {s}]
=============================================================================
