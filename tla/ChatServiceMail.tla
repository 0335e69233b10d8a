--------------------------- MODULE ChatServiceMail ---------------------------
(***************************************************************************)
(* ChatService as an implementation of Mail: where in the cluster a chat   *)
(* message is while it is on its way to an addressee.                      *)
(***************************************************************************)
EXTENDS ChatService

OneChatSteps ==
  {"oneChat", "oneChat_query", "oneChat_publish", "oneChat_insert"}
MemberSteps == {"group_query", "group_publish", "group_insert"}
GroupSteps == MemberSteps \cup {"group_lock", "group_next"}

(* A chat request is for one user or for the members of his groups. *)
For(r, m, u) ==
  /\ r.msg = m
  /\ \/ r.op = "oneChat" /\ r.user = u
     \/ r.op = "groupChat" /\ u \in Members(r.user)

AskedFor(c, m, u) == \E i \in DOMAIN reqs[c] : For(reqs[c][i], m, u)

CarriedFor(c, m, u) ==
  /\ js[c].msg = m
  /\ \/ pc[c] \in OneChatSteps /\ js[c].user = u
     \/ pc[c] = "groupChat" /\ u \in Members(js[c].user)
     \/ pc[c] \in GroupSteps /\ InSeq(u, idvec[c])

(* What login has read is still in the table until it has removed it. *)
ReadFor(c, m, u) ==
  pc[c] = "login_reply" /\ js[c].user = u /\ InSeq(m, vec[c])

PushedFor(s, m, u) == InSeq([channel |-> u, msg |-> m], inbox[s])

StoredFor(m, u) == InSeq(m, offline[u])

(* m is on its way to u. *)
Waits(m, u) ==
  \/ \E c \in Conn :
       AskedFor(c, m, u) \/ CarriedFor(c, m, u) \/ ReadFor(c, m, u)
  \/ \E s \in Server : PushedFor(s, m, u)
  \/ StoredFor(m, u)

Boxes == [u \in User |-> {m \in Msg : Waits(m, u)}]

(***************************************************************************)
(* MailKept: the cluster implements Mail.  A message that was sent is on   *)
(* its way to each addressee in one place at a time and goes from there to *)
(* a client on which he has given the right password, or is lost; whatever *)
(* handlers, servers and the offline_message table do with it, it never    *)
(* comes back and nobody is handed it twice.                               *)
(***************************************************************************)
Mailbox == INSTANCE Mail WITH box <- Boxes

MailKept == Mailbox!Spec

-----------------------------------------------------------------------------
(* What Mail leaves open: when a message is lost.                          *)

HandedOver(m, u) ==
  \E c \in Conn :
    /\ u \in logins[c]
    /\ \E i \in DOMAIN got'[c] : i > Len(got[c]) /\ got'[c][i] = m

PublishesTo(c, u) ==
  \/ pc[c] = "oneChat_publish" /\ js[c].user = u
  \/ pc[c] = "group_publish" /\ Head(idvec[c]) = u

(* Where the code drops m on its way to u. *)
Excused(m, u) ==
  \* u is on his way in or out, or has left since his state was read
  \/ \E c \in Conn : /\ js[c].msg = m /\ PublishesTo(c, u)
                     /\ Moving(u) \/ state[u] = "offline"
  \* the loop over the members ends before it comes to u
  \/ \E c \in Conn : /\ pc[c] = "group_publish" /\ CarriedFor(c, m, u)
                     /\ Head(idvec[c]) # u
  \* it was stored after the login of u has read what is
  \/ \E c \in Conn : /\ pc[c] = "login_remove" /\ js[c].user = u
                     /\ StoredFor(m, u) /\ ~InSeq(m, vec[c])
  \* the client of the sender, or that of u, is gone
  \/ \E c \in Conn : link[c] = "dead" /\ (AskedFor(c, m, u) \/ u \in logins[c])

(***************************************************************************)
(* NotLost: while requests are read one by one and no server stops, a      *)
(* message on its way to a user goes on until a client of his has it,      *)
(* except on the paths that Excused lists.  In particular no oneChat from  *)
(* a client that is there to one that stays, or to a user who stays logged *)
(* out, is lost, whichever handlers, servers and Redis commands run in     *)
(* between.                                                                *)
(***************************************************************************)
NotLost ==
  [][\A m \in Msg, u \in User :
       Waits(m, u) /\ ~Waits(m, u)' => HandedOver(m, u) \/ Excused(m, u)]_vars
=============================================================================
