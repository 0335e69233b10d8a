-------------------------------- MODULE Mail --------------------------------
(***************************************************************************)
(* What the cluster promises of a chat message, without servers, requests, *)
(* handlers, channels and tables: the mail that is on its way to each user.*)
(*                                                                         *)
(* A message is sent once, and is then in the box of each of its           *)
(* addressees.  It leaves a box for good, either for a client at which the *)
(* owner has given the right password, or lost.  That no message has to be *)
(* lost is not promised: the paths of ChatService drop some.               *)
(***************************************************************************)
EXTENDS Sequences, FiniteSets, SequencesExt

CONSTANTS User, Msg, Conn

VARIABLES
  box,     \* box[u]: the messages on their way to u
  dest,    \* dest[m]: the users m was addressed to, {} if not yet sent
  logins,  \* logins[c]: the users whose password was given at client c
  got      \* got[c]: the messages client c was handed, in order

vars == <<box, dest, logins, got>>

Init ==
  /\ box = [u \in User |-> {}]
  /\ dest = [m \in Msg |-> {}]
  /\ logins = [c \in Conn |-> {}]
  /\ got = [c \in Conn |-> <<>>]

Send(m) ==
  /\ dest[m] = {}
  /\ \E D \in SUBSET User :
       /\ dest' = [dest EXCEPT ![m] = D]
       /\ box' = [u \in User |-> IF u \in D THEN box[u] \cup {m} ELSE box[u]]
  /\ UNCHANGED <<logins, got>>

Enter(c, u) ==
  /\ logins' = [logins EXCEPT ![c] = @ \cup {u}]
  /\ UNCHANGED <<box, dest, got>>

(* c is handed some of u's messages, each of them once, in any order. *)
Deliver(c, u) ==
  /\ u \in logins[c]
  /\ \E ms \in SetToAllKPermutations(box[u]) :
       /\ got' = [got EXCEPT ![c] = @ \o ms]
       /\ box' = [box EXCEPT ![u] = @ \ ToSet(ms)]
  /\ UNCHANGED <<dest, logins>>

Lose ==
  /\ \E lost \in [User -> SUBSET Msg] :
       box' = [u \in User |-> box[u] \ lost[u]]
  /\ UNCHANGED <<dest, logins, got>>

Next ==
  \/ \E m \in Msg : Send(m)
  \/ \E c \in Conn, u \in User : Enter(c, u) \/ Deliver(c, u)
  \/ Lose

Spec == Init /\ [][Next]_vars
=============================================================================
