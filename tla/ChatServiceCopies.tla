------------------------- MODULE ChatServiceCopies -------------------------
(***************************************************************************)
(* Proof that the cluster implements Mail, and so of AtMostOnce, for users *)
(* who stay on one server.                                                 *)
(*                                                                         *)
(* On its way to an addressee a message is in one place at a time: in a    *)
(* request, a handler, a channel, offline_message, or the answer to a      *)
(* login; and it is there once.  A step hands it on, hands it over to a    *)
(* client, or drops it.  Hence the boxes of Mail lose what a client is     *)
(* handed, and each copy that a client has is that of another addressee,   *)
(* one who is a user of that client and to whom it is not on its way any   *)
(* more.  A user who changes servers may still be subscribed on the last   *)
(* one, and publish then makes two copies.                                 *)
(***************************************************************************)
EXTENDS ChatServiceSessions, FiniteSetTheorems

(* Group rows are unique: no member is listed twice. *)
MembersOnce == \A u \in User : IsInjective(MembersExcept[u])

(* The balancer takes the clients of a user to one server, as it would if  *)
(* it chose by address, and surely does when there is only one.            *)
Sticky(home) == \A c \in Conn : \A u \in Uses[c] : at[c] \in {NoServer, home[u]}
OneServer == \A r, s \in Server : r = s

(* No other server is subscribed to his channel, or about to be. *)
SubsHome(home) ==
  \A s \in Server, u \in User :
    \/ s \in subs[u]
    \/ \E i \in DOMAIN cmds[s] :
         cmds[s][i].op = "SUBSCRIBE" /\ cmds[s][i].channel = u
    => s = home[u]

-----------------------------------------------------------------------------
(* Where a message m for u can be.                                         *)

Kind == {"request", "handler", "answer", "channel", "table"}
Holder == Conn \cup Server \cup {NoUser}

(* m for u is in the request of x, its handler, its answer, ... *)
Has(k, x, m, u) ==
  \/ k = "request" /\ x \in Conn /\ AskedFor(x, m, u)
  \/ k = "handler" /\ x \in Conn /\ CarriedFor(x, m, u)
  \/ k = "answer" /\ x \in Conn /\ ReadFor(x, m, u)
  \/ k = "channel" /\ x \in Server /\ PushedFor(x, m, u)
  \/ k = "table" /\ x = NoUser /\ StoredFor(m, u)

OnePlace ==
  \A m \in Msg, u \in User : \A k, l \in Kind, x, y \in Holder :
    Has(k, x, m, u) /\ Has(l, y, m, u) => k = l /\ x = y

-----------------------------------------------------------------------------
(* A place holds a message for a user once.                                *)

AskedOnce ==
  \A c \in Conn, m \in Msg, u \in User : \A i, j \in DOMAIN reqs[c] :
    For(reqs[c][i], m, u) /\ For(reqs[c][j], m, u) => i = j
CarriedOnce == \A c \in Conn : IsInjective(idvec[c])
PushedOnce == \A s \in Server : IsInjective(inbox[s])
StoredOnce == \A u \in User : IsInjective(offline[u])
ReadOnce == \A c \in Conn : IsInjective(vec[c])

(* What login has read and not yet removed is still stored. *)
ReadStored ==
  \A c \in Conn : pc[c] = "login_remove" =>
    \A i \in DOMAIN vec[c] : /\ i \in DOMAIN offline[js[c].user]
                             /\ offline[js[c].user][i] = vec[c][i]

HeldOnce == /\ AskedOnce /\ CarriedOnce /\ PushedOnce
            /\ StoredOnce /\ ReadOnce /\ ReadStored

-----------------------------------------------------------------------------
(* The copies that clients have.                                           *)

Waiting(m) ==
  {u \in User : \E k \in Kind, x \in Holder : Has(k, x, m, u)}

(* Each copy in C can be that of another user in T, one of its client. *)
Matches(C, T, L) ==
  \E f \in [C -> T] : /\ \A x, y \in C : f[x] = f[y] => x = y
                      /\ \A x \in C : f[x] \in L[x[1]]

(* Each copy is that of an addressee to whom m is not on its way. *)
Matched ==
  \A m \in Msg : Matches(Received(m), dest[m] \ Waiting(m), logins)

Single == OnePlace /\ HeldOnce /\ Matched

(* Who has given a password has given it. *)
LoginsGrow == \A c \in Conn : logins[c] \subseteq logins'[c]

-----------------------------------------------------------------------------
(* Copies and addressees.                                                  *)

(* No copy goes to more addressees, *)
LEMMA NoMore ==
  ASSUME NEW C \in SUBSET (Conn \X Nat), NEW T, NEW L, Matches(C, T, L),
         NEW C2 \in SUBSET C, NEW T2, T \subseteq T2,
         NEW L2, \A c \in Conn : L[c] \subseteq L2[c]
  PROVE  Matches(C2, T2, L2)
<1>1. PICK f \in [C -> T] : /\ \A x, y \in C : f[x] = f[y] => x = y
                            /\ \A x \in C : f[x] \in L[x[1]]
  BY DEF Matches
<1>2. PICK g : g = [x \in C2 |-> f[x]] OBVIOUS
<1>3. g \in [C2 -> T2] BY <1>1, <1>2
<1>4. \A x, y \in C2 : g[x] = g[y] => x = y BY <1>1, <1>2
<1>5. \A x \in C2 : g[x] \in L2[x[1]]
  <2>1. \A x \in C : x[1] \in Conn OBVIOUS
  <2>2. QED BY <1>1, <1>2, <2>1
<1>6. QED BY <1>3, <1>4, <1>5 DEF Matches

(* and one more copy to one more addressee. *)
LEMMA OneMore ==
  ASSUME NEW C \in SUBSET (Conn \X Nat), NEW T, NEW L, Matches(C, T, L),
         NEW C2, NEW T2, T \subseteq T2,
         NEW L2, \A c \in Conn : L[c] \subseteq L2[c],
         NEW z, C2 \subseteq C \cup {z}, NEW u \in T2 \ T, u \in L2[z[1]]
  PROVE  Matches(C2, T2, L2)
<1>1. PICK f \in [C -> T] : /\ \A x, y \in C : f[x] = f[y] => x = y
                            /\ \A x \in C : f[x] \in L[x[1]]
  BY DEF Matches
<1>2. PICK g : g = [x \in C2 |-> IF x \in C THEN f[x] ELSE u] OBVIOUS
<1>3. \A x \in C2 : x \in C => g[x] = f[x] /\ g[x] \in T BY <1>1, <1>2
<1>4. \A x \in C2 : x \notin C => g[x] = u /\ x = z BY <1>2
<1>5. g \in [C2 -> T2] BY <1>2, <1>3, <1>4
<1>6. \A x, y \in C2 : g[x] = g[y] => x = y BY <1>1, <1>3, <1>4
<1>7. \A x \in C2 : g[x] \in L2[x[1]]
  <2>1. \A x \in C : x[1] \in Conn OBVIOUS
  <2>2. QED BY <1>1, <1>3, <1>4, <2>1
<1>8. QED BY <1>5, <1>6, <1>7 DEF Matches

(* A copy is one of a client. *)
LEMMA ReceivedType ==
  ASSUME TypeOK, NEW m \in Msg PROVE Received(m) \subseteq Conn \X Nat
<1>1. ASSUME NEW x \in Received(m) PROVE x \in Conn \X Nat
  <2>1. PICK c \in Conn : x \in Copies(m, c) BY <1>1 DEF Received
  <2>2. got[c] \in Seq(Msg) BY DEF TypeOK
  <2>3. PICK i \in DOMAIN got[c] : x = <<c, i>> BY <2>1 DEF Copies
  <2>4. i \in Nat BY <2>2, <2>3
  <2>5. QED BY <2>3, <2>4
<1>2. QED BY <1>1

(* A place has a message for its addressees only. *)
LEMMA HasAddressee ==
  ASSUME TypeOK, Stages, Addressed, NEW m \in Msg, NEW u \in User, NEW k, NEW x,
         Has(k, x, m, u)
  PROVE  u \in dest[m]
<1>1. CASE x \in Conn /\ AskedFor(x, m, u)
  BY <1>1 DEF AskedFor, For, Addressed, Asked, About
<1>2. CASE x \in Conn /\ CarriedFor(x, m, u)
  BY <1>2 DEF CarriedFor, InSeq, Addressed, Handled
<1>3. CASE x \in Conn /\ ReadFor(x, m, u)
  BY <1>3 DEF ReadFor, InSeq, Addressed, Reading
<1>4. CASE x \in Server /\ PushedFor(x, m, u)
  <2>1. PICK i \in DOMAIN inbox[x] : inbox[x][i] = [channel |-> u, msg |-> m]
    BY <1>4 DEF PushedFor, InSeq
  <2>2. inbox[x][i].channel = u /\ inbox[x][i].msg = m BY <2>1
  <2>3. QED BY <1>4, <2>2 DEF Addressed, Pushed
<1>5. CASE StoredFor(m, u) BY <1>5 DEF StoredFor, InSeq, Addressed, Stored
<1>6. QED BY <1>1, <1>2, <1>3, <1>4, <1>5 DEF Has

(***************************************************************************)
(* A step hands messages on from one place to another, or from one place   *)
(* to a client, and each only if that place has it no more.                *)
(***************************************************************************)
LEMMA HandedOn ==
  ASSUME TypeOK, Stages, Addressed, OnePlace, Matched, LoginsGrow,
         dest' = dest,
         NEW k0 \in Kind, NEW x0 \in Holder, NEW k1, NEW x1,
         \A m \in Msg, u \in User, k \in Kind, x \in Holder :
           Has(k, x, m, u)' =>
             \/ Has(k, x, m, u)
             \/ /\ k = k1 /\ x = x1
                /\ Has(k0, x0, m, u) /\ ~Has(k0, x0, m, u)',
         \A m \in Msg :
           \/ Received(m)' \subseteq Received(m)
           \/ \E z : \E u \in User :
                /\ Received(m)' \subseteq Received(m) \cup {z}
                /\ u \in logins'[z[1]]
                /\ Has(k0, x0, m, u) /\ ~Has(k0, x0, m, u)'
                /\ \A k \in Kind, x \in Holder :
                     Has(k, x, m, u)' => Has(k, x, m, u)
  PROVE  OnePlace' /\ Matched'
<1>1. OnePlace'
  <2>1. ASSUME NEW m \in Msg, NEW u \in User, NEW k \in Kind, NEW l \in Kind,
               NEW x \in Holder, NEW y \in Holder,
               Has(k, x, m, u)', Has(l, y, m, u)'
        PROVE  k = l /\ x = y
    <3>1. CASE Has(k, x, m, u) /\ Has(l, y, m, u) BY <3>1 DEF OnePlace
    <3>2. CASE Has(k, x, m, u) /\ ~Has(l, y, m, u)
      BY <2>1, <3>2 DEF OnePlace
    <3>3. CASE ~Has(k, x, m, u) /\ Has(l, y, m, u)
      BY <2>1, <3>3 DEF OnePlace
    <3>4. CASE ~Has(k, x, m, u) /\ ~Has(l, y, m, u) BY <2>1, <3>4
    <3>5. QED BY <3>1, <3>2, <3>3, <3>4
  <2>2. QED BY <2>1 DEF OnePlace
<1>2. ASSUME NEW m \in Msg
      PROVE  Matches(Received(m)', dest[m] \ Waiting(m)', logins')
  <2>1. PICK C : C = Received(m) OBVIOUS
  <2>2. PICK W : W = Waiting(m) OBVIOUS
  <2>3. PICK C2 : C2 = Received(m)' OBVIOUS
  <2>4. PICK W2 : W2 = Waiting(m)' OBVIOUS
  <2>5. W2 \subseteq W
    <3>1. ASSUME NEW u \in W2 PROVE u \in W
      <4>1. PICK k \in Kind, x \in Holder : Has(k, x, m, u)' /\ u \in User
        BY <2>4, <3>1 DEF Waiting
      <4>2. Has(k, x, m, u) \/ Has(k0, x0, m, u) BY <4>1
      <4>3. QED BY <2>2, <4>1, <4>2 DEF Waiting
    <3>2. QED BY <3>1
  <2>6. PICK T : T = dest[m] \ W OBVIOUS
  <2>7. PICK T2 : T2 = dest[m] \ W2 OBVIOUS
  <2>8. PICK L : L = logins OBVIOUS
  <2>9. PICK L2 : L2 = logins' OBVIOUS
  <2>10. /\ Matches(C, T, L) /\ C \in SUBSET (Conn \X Nat)
         /\ T \subseteq T2 /\ \A c \in Conn : L[c] \subseteq L2[c]
    BY <2>1, <2>2, <2>5, <2>6, <2>7, <2>8, <2>9, ReceivedType
       DEF Matched, LoginsGrow
  <2>11. ASSUME C2 \subseteq C PROVE Matches(C2, T2, L2)
    BY <2>10, <2>11, NoMore
  <2>12. ASSUME NEW z, NEW u \in User, C2 \subseteq C \cup {z},
                u \in logins'[z[1]],
                Has(k0, x0, m, u), ~Has(k0, x0, m, u)',
                \A k \in Kind, x \in Holder :
                  Has(k, x, m, u)' => Has(k, x, m, u)
         PROVE  Matches(C2, T2, L2)
    <3>1. u \in W BY <2>2, <2>12 DEF Waiting
    <3>2. u \notin W2
      <4>1. \A k \in Kind, x \in Holder : ~Has(k, x, m, u)'
        BY <2>12 DEF OnePlace
      <4>2. QED BY <2>4, <4>1 DEF Waiting
    <3>3. u \in dest[m] BY <2>12, HasAddressee
    <3>4. u \in T2 \ T BY <2>6, <2>7, <3>1, <3>2, <3>3
    <3>5. u \in L2[z[1]] /\ C2 \subseteq C \cup {z} BY <2>9, <2>12
    <3>6. QED BY <2>10, <3>4, <3>5, OneMore
  <2>13. Matches(C2, T2, L2) BY <2>1, <2>3, <2>11, <2>12
  <2>14. QED BY <2>3, <2>4, <2>7, <2>9, <2>13
<1>3. QED BY <1>1, <1>2 DEF Matched

-----------------------------------------------------------------------------
(* Sequences without repetition.                                           *)

(* A new element at the end of one *)
LEMMA AppendOnce ==
  ASSUME NEW S, NEW q \in Seq(S), NEW x \in S, IsInjective(q), ~InSeq(x, q)
  PROVE  /\ IsInjective(Append(q, x))
         /\ \A y : InSeq(y, Append(q, x)) => InSeq(y, q) \/ y = x
<1>1. PICK r : r = Append(q, x) OBVIOUS
<1>2. \A i \in DOMAIN r : r[i] = x \/ (i \in DOMAIN q /\ r[i] = q[i])
  <2>1. \A i \in DOMAIN Append(q, x) :
          \/ Append(q, x)[i] = x
          \/ i \in DOMAIN q /\ Append(q, x)[i] = q[i]
    BY AppendElement
  <2>2. QED BY <1>1, <2>1
<1>3. DOMAIN r = DOMAIN q \cup {Len(q) + 1} BY <1>1
<1>4. \A i, j \in DOMAIN r : r[i] = r[j] => i = j
  <2>1. ASSUME NEW i \in DOMAIN r, NEW j \in DOMAIN r, r[i] = r[j]
        PROVE  i = j
    <3>1. CASE i \in DOMAIN q /\ j \in DOMAIN q
      <4>1. r[i] = q[i] /\ r[j] = q[j] BY <1>1, <3>1
      <4>2. QED BY <2>1, <3>1, <4>1 DEF IsInjective
    <3>2. CASE i \in DOMAIN q /\ j \notin DOMAIN q
      <4>1. r[i] = q[i] /\ r[j] = x BY <1>1, <1>2, <3>2
      <4>2. QED BY <2>1, <3>2, <4>1 DEF InSeq
    <3>3. CASE i \notin DOMAIN q /\ j \in DOMAIN q
      <4>1. r[j] = q[j] /\ r[i] = x BY <1>1, <1>2, <3>3
      <4>2. QED BY <2>1, <3>3, <4>1 DEF InSeq
    <3>4. CASE i \notin DOMAIN q /\ j \notin DOMAIN q BY <1>3, <3>4
    <3>5. QED BY <3>1, <3>2, <3>3, <3>4
  <2>2. QED BY <2>1
<1>5. \A y : InSeq(y, r) => InSeq(y, q) \/ y = x BY <1>2 DEF InSeq
<1>6. QED BY <1>1, <1>4, <1>5 DEF IsInjective

(* and one whose first element is taken. *)
LEMMA TailOnce ==
  ASSUME NEW S, NEW q \in Seq(S), q # <<>>, IsInjective(q)
  PROVE  /\ IsInjective(Tail(q)) /\ Head(q) \in S /\ InSeq(Head(q), q)
         /\ \A y : InSeq(y, Tail(q)) => InSeq(y, q) /\ y # Head(q)
<1>1. PICK r : r = Tail(q) OBVIOUS
<1>2. \A i \in DOMAIN r : i + 1 \in DOMAIN q /\ r[i] = q[i + 1]
  BY <1>1, TailElement
<1>3. DOMAIN r \subseteq Nat \ {0} /\ 1 \in DOMAIN q /\ Head(q) = q[1]
      /\ q[1] \in S
  BY <1>1
<1>4. \A i, j \in DOMAIN r : r[i] = r[j] => i = j
  <2>1. ASSUME NEW i \in DOMAIN r, NEW j \in DOMAIN r, r[i] = r[j]
        PROVE  i = j
    <3>1. i + 1 = j + 1 BY <1>2, <2>1 DEF IsInjective
    <3>2. QED BY <1>3, <3>1
  <2>2. QED BY <2>1
<1>5. ASSUME NEW y, InSeq(y, r) PROVE InSeq(y, q) /\ y # Head(q)
  <2>1. PICK i \in DOMAIN r : r[i] = y BY <1>5 DEF InSeq
  <2>2. i + 1 \in DOMAIN q /\ q[i + 1] = y /\ i + 1 # 1 BY <1>2, <1>3, <2>1
  <2>3. QED BY <1>3, <2>2 DEF InSeq, IsInjective
<1>6. QED BY <1>1, <1>3, <1>4, <1>5 DEF InSeq, IsInjective

-----------------------------------------------------------------------------
(* What the operations do to the places.                                   *)

(* A client has at most one copy more of what it is sent. *)
LEMMA PushReceived ==
  ASSUME TypeOK, NEW c \in Conn, NEW ms \in Seq(Msg), IsInjective(ms),
         Push(c, ms), NEW m \in Msg
  PROVE  \/ Received(m)' \subseteq Received(m)
         \/ /\ InSeq(m, ms)
            /\ \E i \in Nat : Received(m)' \subseteq Received(m) \cup {<<c, i>>}
<1>1. CASE link[c] # "open" BY <1>1 DEF Push, Received, Copies
<1>2. CASE link[c] = "open"
  <2>1. PICK q : q = got[c] OBVIOUS
  <2>2. /\ q \in Seq(Msg) /\ got'[c] = q \o ms
        /\ \A d \in Conn \ {c} : got'[d] = got[d]
    BY <1>2, <2>1 DEF Push, TypeOK
  <2>3. \A i \in DOMAIN (q \o ms) :
          \/ i \in DOMAIN q /\ (q \o ms)[i] = q[i]
          \/ \E j \in DOMAIN ms : i = Len(q) + j /\ (q \o ms)[i] = ms[j]
    <3>1. ASSUME NEW i \in DOMAIN (q \o ms), i \notin DOMAIN q
          PROVE  \E j \in DOMAIN ms : i = Len(q) + j /\ (q \o ms)[i] = ms[j]
      <4>1. /\ i - Len(q) \in DOMAIN ms /\ i = Len(q) + (i - Len(q))
            /\ (q \o ms)[i] = ms[i - Len(q)]
        BY <2>2, <3>1
      <4>2. QED BY <4>1
    <3>2. QED BY <2>2, <3>1
  <2>4. ASSUME NEW y \in Received(m)'
        PROVE  \/ y \in Received(m)
               \/ \E j \in DOMAIN ms : ms[j] = m /\ y = <<c, Len(q) + j>>
    <3>1. PICK d \in Conn : \E i \in DOMAIN got'[d] :
                             got'[d][i] = m /\ y = <<d, i>>
      BY <2>4 DEF Received, Copies
    <3>2. PICK i \in DOMAIN got'[d] : got'[d][i] = m /\ y = <<d, i>> BY <3>1
    <3>3. CASE i \in DOMAIN got[d] /\ got[d][i] = m
      BY <3>2, <3>3 DEF Received, Copies
    <3>4. CASE d # c BY <2>2, <3>2, <3>3, <3>4
    <3>5. CASE d = c
      <4>1. /\ i \in DOMAIN (q \o ms) /\ (q \o ms)[i] = m
            /\ y = <<c, i>> /\ got[d] = q
        BY <2>1, <2>2, <3>2, <3>5
      <4>2. CASE i \in DOMAIN q /\ (q \o ms)[i] = q[i]
        BY <3>3, <4>1, <4>2
      <4>3. CASE \E j \in DOMAIN ms : i = Len(q) + j /\ (q \o ms)[i] = ms[j]
        BY <4>1, <4>3
      <4>4. QED BY <2>3, <4>1, <4>2, <4>3
    <3>6. QED BY <3>4, <3>5
  <2>5. CASE ~InSeq(m, ms) BY <2>4, <2>5 DEF InSeq
  <2>6. CASE InSeq(m, ms)
    <3>1. PICK j \in DOMAIN ms : ms[j] = m BY <2>6 DEF InSeq
    <3>2. \A i \in DOMAIN ms : ms[i] = m => i = j BY <3>1 DEF IsInjective
    <3>3. Received(m)' \subseteq Received(m) \cup {<<c, Len(q) + j>>}
      BY <2>4, <3>2
    <3>4. Len(q) + j \in Nat BY <2>2, <3>1
    <3>5. QED BY <2>6, <3>3, <3>4
  <2>7. QED BY <2>5, <2>6
<1>3. QED BY <1>1, <1>2

(* A message that is stored was not. *)
LEMMA StoreOnce ==
  ASSUME TypeOK, Stages, HeldOnce, NEW u \in User, NEW m \in Msg,
         StoreOffline(u, m), ~StoredFor(m, u),
         \A c \in Conn : pc'[c] = "login_remove" =>
           /\ pc[c] = "login_remove" /\ js'[c] = js[c] /\ vec'[c] = vec[c]
  PROVE  /\ StoredOnce' /\ ReadStored'
         /\ \A k \in Msg, v \in User :
              StoredFor(k, v)' => StoredFor(k, v) \/ (k = m /\ v = u)
<1>1. PICK q : q = offline[u] OBVIOUS
<1>2. PICK r : r = Append(q, m) OBVIOUS
<1>3. /\ q \in Seq(Msg) /\ IsInjective(q) /\ ~InSeq(m, q)
      /\ offline'[u] = r /\ \A v \in User \ {u} : offline'[v] = offline[v]
  BY <1>1, <1>2 DEF TypeOK, StoreOffline, StoredFor, HeldOnce, StoredOnce
<1>4. IsInjective(r) /\ \A y : InSeq(y, r) => InSeq(y, q) \/ y = m
  BY <1>2, <1>3, AppendOnce
<1>5. \A i \in DOMAIN q : i \in DOMAIN r /\ r[i] = q[i] BY <1>2, <1>3
<1>6. StoredOnce' BY <1>3, <1>4 DEF HeldOnce, StoredOnce
<1>7. \A k \in Msg, v \in User :
        StoredFor(k, v)' => StoredFor(k, v) \/ (k = m /\ v = u)
  <2>1. ASSUME NEW k \in Msg, NEW v \in User, InSeq(k, offline'[v])
        PROVE  InSeq(k, offline[v]) \/ (k = m /\ v = u)
    <3>1. CASE v = u BY <1>1, <1>3, <1>4, <2>1, <3>1
    <3>2. CASE v # u BY <1>3, <2>1, <3>2
    <3>3. QED BY <3>1, <3>2
  <2>2. QED BY <2>1 DEF StoredFor
<1>8. \A v \in User : \A i \in DOMAIN offline[v] :
        i \in DOMAIN offline'[v] /\ offline'[v][i] = offline[v][i]
  BY <1>1, <1>3, <1>5
<1>9. \A c \in Conn : pc[c] = "login_remove" => js[c].user \in User
  BY DEF Stages, UserKnown, LoginSteps
<1>10. ReadStored' BY <1>8, <1>9 DEF HeldOnce, ReadStored
<1>11. QED BY <1>6, <1>7, <1>10

(* A message that is published was in no channel. *)
LEMMA PublishOnce ==
  ASSUME TypeOK, PushedOnce, NEW u \in User, NEW m \in Msg, publish(u, m),
         \A s \in Server : ~PushedFor(s, m, u)
  PROVE  /\ PushedOnce'
         /\ \A s \in Server, k \in Msg, v \in User :
              PushedFor(s, k, v)' => PushedFor(s, k, v) \/ (k = m /\ v = u)
<1>1. PICK n : n = [channel |-> u, msg |-> m] OBVIOUS
<1>2. n \in Notice /\ n.channel = u /\ n.msg = m BY <1>1 DEF Notice
<1>3. ASSUME NEW s \in Server
      PROVE  /\ IsInjective(inbox'[s])
             /\ \A y : InSeq(y, inbox'[s]) => InSeq(y, inbox[s]) \/ y = n
  <2>1. PICK q : q = inbox[s] OBVIOUS
  <2>2. q \in Seq(Notice) /\ IsInjective(q) /\ ~InSeq(n, q)
    BY <1>1, <2>1 DEF TypeOK, BusTypeOK, PushedOnce, PushedFor
  <2>3. inbox'[s] = q \/ inbox'[s] = Append(q, n)
    BY <1>1, <2>1 DEF publish
  <2>4. CASE inbox'[s] = q BY <2>1, <2>2, <2>4
  <2>5. CASE inbox'[s] = Append(q, n) BY <1>2, <2>1, <2>2, <2>5, AppendOnce
  <2>6. QED BY <2>3, <2>4, <2>5
<1>4. PushedOnce' BY <1>3 DEF PushedOnce
<1>5. ASSUME NEW s \in Server, NEW k \in Msg, NEW v \in User,
             PushedFor(s, k, v)', ~PushedFor(s, k, v)
      PROVE  k = m /\ v = u
  <2>1. PICK y : y = [channel |-> v, msg |-> k] OBVIOUS
  <2>2. InSeq(y, inbox'[s]) /\ ~InSeq(y, inbox[s])
    BY <1>5, <2>1 DEF PushedFor
  <2>3. y.channel = v /\ y.msg = k BY <2>1
  <2>4. y = n BY <1>3, <2>2
  <2>5. n.channel = v /\ n.msg = k BY <2>3, <2>4
  <2>6. QED BY <1>2, <2>5
<1>6. QED BY <1>4, <1>5
-----------------------------------------------------------------------------
(* What a step leaves alone.                                               *)

(* No message comes to the k of x. *)
Fewer(k, x) == \A m \in Msg, u \in User : Has(k, x, m, u)' => Has(k, x, m, u)

(* What login has read at c is still stored when c comes to remove it. *)
KeepsRead(c) ==
  pc'[c] = "login_remove" =>
    \A i \in DOMAIN vec'[c] : /\ i \in DOMAIN offline'[js'[c].user]
                              /\ offline'[js'[c].user][i] = vec'[c][i]

(* Nothing comes to what is unchanged, empty, or not in use. *)
LEMMA FewerConn ==
  ASSUME NEW d \in Conn
  PROVE  /\ reqs'[d] \in {reqs[d], <<>>} => Fewer("request", d)
         /\ SameJob(d) /\ idvec'[d] = idvec[d] => Fewer("handler", d)
         /\ SameJob(d) /\ vec'[d] = vec[d] => Fewer("answer", d)
         /\ pc'[d] \notin ChatSteps => Fewer("handler", d)
         /\ pc'[d] # "login_reply" => Fewer("answer", d)
<1>1. reqs'[d] \in {reqs[d], <<>>} => Fewer("request", d)
  BY DEF Fewer, Has, AskedFor
<1>2. SameJob(d) /\ idvec'[d] = idvec[d] => Fewer("handler", d)
  BY DEF Fewer, Has, CarriedFor, SameJob
<1>3. SameJob(d) /\ vec'[d] = vec[d] => Fewer("answer", d)
  BY DEF Fewer, Has, ReadFor, SameJob
<1>4. pc'[d] \notin ChatSteps => Fewer("handler", d)
  BY DEF Fewer, Has, CarriedFor, ChatSteps, OneChatSteps, GroupSteps,
         MemberSteps
<1>5. pc'[d] # "login_reply" => Fewer("answer", d)
  BY DEF Fewer, Has, ReadFor
<1>6. QED BY <1>1, <1>2, <1>3, <1>4, <1>5

(* Nothing comes to the stores of others. *)
LEMMA FewerStores ==
  /\ offline' = offline => Fewer("table", NoUser)
  /\ \A s \in Server : inbox'[s] = inbox[s] => Fewer("channel", s)
<1>1. offline' = offline => Fewer("table", NoUser)
  BY DEF Fewer, Has, StoredFor
<1>2. \A s \in Server : inbox'[s] = inbox[s] => Fewer("channel", s)
  BY DEF Fewer, Has, PushedFor
<1>3. QED BY <1>1, <1>2

(* Every place is of one of these kinds. *)
LEMMA FewerAll ==
  ASSUME NEW k \in Kind, NEW x,
         k = "request" /\ x \in Conn => Fewer("request", x),
         k = "handler" /\ x \in Conn => Fewer("handler", x),
         k = "answer" /\ x \in Conn => Fewer("answer", x),
         k = "channel" /\ x \in Server => Fewer("channel", x),
         k = "table" /\ x = NoUser => Fewer("table", NoUser)
  PROVE  Fewer(k, x)
BY DEF Fewer, Has, Kind

(* No message leaves the k of x, but those of ms that u is handed. *)
KeepsBut(k, x, u, ms) ==
  \A m \in Msg, v \in User :
    Has(k, x, m, v) => Has(k, x, m, v)' \/ (v = u /\ InSeq(m, ms))

(* None leaves what is unchanged, or is of others. *)
LEMMA KeepsConn ==
  ASSUME NEW d \in Conn, NEW u, NEW ms
  PROVE  /\ reqs'[d] = reqs[d] => KeepsBut("request", d, u, ms)
         /\ SameJob(d) /\ idvec'[d] = idvec[d] => KeepsBut("handler", d, u, ms)
         /\ SameJob(d) /\ vec'[d] = vec[d] => KeepsBut("answer", d, u, ms)
         /\ pc[d] \notin ChatSteps => KeepsBut("handler", d, u, ms)
         /\ pc[d] # "login_reply" => KeepsBut("answer", d, u, ms)
<1>1. reqs'[d] = reqs[d] => KeepsBut("request", d, u, ms)
  BY DEF KeepsBut, Has, AskedFor, For
<1>2. SameJob(d) /\ idvec'[d] = idvec[d] => KeepsBut("handler", d, u, ms)
  BY DEF KeepsBut, Has, CarriedFor, SameJob
<1>3. SameJob(d) /\ vec'[d] = vec[d] => KeepsBut("answer", d, u, ms)
  BY DEF KeepsBut, Has, ReadFor, SameJob
<1>4. pc[d] \notin ChatSteps => KeepsBut("handler", d, u, ms)
  BY DEF KeepsBut, Has, CarriedFor, ChatSteps, OneChatSteps, GroupSteps,
         MemberSteps
<1>5. pc[d] # "login_reply" => KeepsBut("answer", d, u, ms)
  BY DEF KeepsBut, Has, ReadFor
<1>6. QED BY <1>1, <1>2, <1>3, <1>4, <1>5

(* None leaves a store that is unchanged. *)
LEMMA KeepsStores ==
  ASSUME NEW u, NEW ms
  PROVE  /\ offline' = offline => KeepsBut("table", NoUser, u, ms)
         /\ \A s \in Server :
              inbox'[s] = inbox[s] => KeepsBut("channel", s, u, ms)
<1>1. offline' = offline => KeepsBut("table", NoUser, u, ms)
  BY DEF KeepsBut, Has, StoredFor
<1>2. \A s \in Server :
        inbox'[s] = inbox[s] => KeepsBut("channel", s, u, ms)
  BY DEF KeepsBut, Has, PushedFor
<1>3. QED BY <1>1, <1>2

(* Every place is of one of these kinds. *)
LEMMA KeepsAll ==
  ASSUME NEW k \in Kind, NEW x, NEW u, NEW ms,
         k = "request" /\ x \in Conn => KeepsBut("request", x, u, ms),
         k = "handler" /\ x \in Conn => KeepsBut("handler", x, u, ms),
         k = "answer" /\ x \in Conn => KeepsBut("answer", x, u, ms),
         k = "channel" /\ x \in Server => KeepsBut("channel", x, u, ms),
         k = "table" /\ x = NoUser => KeepsBut("table", NoUser, u, ms)
  PROVE  KeepsBut(k, x, u, ms)
BY DEF KeepsBut, Has, Kind

(* A message is on its way if it is in a place. *)
LEMMA WaitsSomewhere ==
  ASSUME NEW m, NEW u
  PROVE  /\ Waits(m, u) <=> \E k \in Kind, x \in Holder : Has(k, x, m, u)
         /\ Waits(m, u)' <=> \E k \in Kind, x \in Holder : Has(k, x, m, u)'
<1>1. {"request", "handler", "answer", "channel", "table"} \subseteq Kind
      /\ Conn \subseteq Holder /\ Server \subseteq Holder /\ NoUser \in Holder
  BY DEF Kind, Holder
<1>2. Waits(m, u) <=> \E k \in Kind, x \in Holder : Has(k, x, m, u)
  <2>1. ASSUME Waits(m, u) PROVE \E k \in Kind, x \in Holder : Has(k, x, m, u)
    BY <1>1, <2>1 DEF Waits, Has
  <2>2. ASSUME NEW k \in Kind, NEW x \in Holder, Has(k, x, m, u)
        PROVE  Waits(m, u)
    BY <2>2 DEF Waits, Has
  <2>3. QED BY <2>1, <2>2
<1>3. Waits(m, u)' <=> \E k \in Kind, x \in Holder : Has(k, x, m, u)'
  <2>1. ASSUME Waits(m, u)'
        PROVE  \E k \in Kind, x \in Holder : Has(k, x, m, u)'
    BY <1>1, <2>1 DEF Waits, Has
  <2>2. ASSUME NEW k \in Kind, NEW x \in Holder, Has(k, x, m, u)'
        PROVE  Waits(m, u)'
    BY <2>2 DEF Waits, Has
  <2>3. QED BY <2>1, <2>2
<1>4. QED BY <1>2, <1>3

(***************************************************************************)
(* What a step that sends nothing does to the mail: no client is handed a  *)
(* message and none is on its way to one more user, or a client of u is    *)
(* handed ms of his and nothing else changes.                              *)
(***************************************************************************)
NoneNew ==
  got' = got /\ \A m \in Msg, u \in User : Waits(m, u)' => Waits(m, u)

Handed(c, u, ms) ==
  /\ IsInjective(ms) /\ u \in logins[c]
  /\ got' = [got EXCEPT ![c] = @ \o ms]
  /\ \A m \in Msg : InSeq(m, ms) => Waits(m, u)
  /\ \A m \in Msg, v \in User :
       Waits(m, v)' <=> Waits(m, v) /\ ~(v = u /\ InSeq(m, ms))

MailGoes ==
  NoneNew \/ \E c \in Conn, u \in User, ms \in Seq(Msg) : Handed(c, u, ms)

(* What a handler does of its own keeps the places it has single. *)
LEMMA OwnOnce ==
  ASSUME HeldOnce, NEW c \in Conn, \A d \in Conn \ {c} : SameWork(d),
         reqs'[c] \in {reqs[c], <<>>}, IsInjective(idvec'[c]),
         IsInjective(vec'[c])
  PROVE  AskedOnce' /\ CarriedOnce' /\ ReadOnce'
<1>1. AskedOnce' BY DEF HeldOnce, AskedOnce, SameWork
<1>2. CarriedOnce' BY DEF HeldOnce, CarriedOnce, SameWork
<1>3. ReadOnce' BY DEF HeldOnce, ReadOnce, SameWork
<1>4. QED BY <1>1, <1>2, <1>3

(* A step of c that stores nothing and removes nothing. *)
LEMMA ReadKept ==
  ASSUME HeldOnce, NEW c \in Conn, \A d \in Conn \ {c} : SameWork(d),
         offline' = offline, KeepsRead(c)
  PROVE  StoredOnce' /\ ReadStored'
<1>1. StoredOnce' BY DEF HeldOnce, StoredOnce
<1>2. ReadStored' BY DEF HeldOnce, ReadStored, SameWork, SameJob, KeepsRead
<1>3. QED BY <1>1, <1>2

(* A message goes from the k0 of x0 to the k1 of x1, *)
LEMMA HandOver ==
  ASSUME TypeOK, Stages, Addressed, Single, LoginsGrow, UNCHANGED <<dest, got>>,
         NEW k0 \in Kind, NEW x0 \in Holder, NEW k1, NEW x1,
         \A m \in Msg, u \in User : Has(k1, x1, m, u)' =>
           \/ Has(k1, x1, m, u)
           \/ Has(k0, x0, m, u) /\ ~Has(k0, x0, m, u)',
         \A k \in Kind, x \in Holder : <<k, x>> # <<k1, x1>> => Fewer(k, x)
  PROVE  OnePlace' /\ Matched' /\ MailGoes
<1>1. OnePlace /\ Matched BY DEF Single
<1>2. \A m \in Msg, u \in User, k \in Kind, x \in Holder :
        Has(k, x, m, u)' =>
          \/ Has(k, x, m, u)
          \/ /\ k = k1 /\ x = x1
             /\ Has(k0, x0, m, u) /\ ~Has(k0, x0, m, u)'
  BY DEF Fewer
<1>3. \A m \in Msg : Received(m)' \subseteq Received(m)
  BY DEF Received, Copies
<1>4. OnePlace' /\ Matched' BY <1>1, <1>2, <1>3, HandedOn
<1>5. MailGoes BY <1>2, WaitsSomewhere DEF MailGoes, NoneNew
<1>6. QED BY <1>4, <1>5

(* from the k0 of x0 to a client, *)
LEMMA Deliver ==
  ASSUME TypeOK, Stages, Addressed, Single, LoginsGrow, UNCHANGED dest,
         NEW k0 \in Kind, NEW x0 \in Holder, NEW u \in User, NEW c \in Conn,
         NEW ms \in Seq(Msg), IsInjective(ms), Push(c, ms),
         \A m \in Msg : InSeq(m, ms) =>
           Has(k0, x0, m, u) /\ ~Has(k0, x0, m, u)',
         \A k \in Kind, x \in Holder : Fewer(k, x) /\ KeepsBut(k, x, u, ms),
         u \in logins[c]
  PROVE  OnePlace' /\ Matched' /\ MailGoes
<1>1. OnePlace /\ Matched BY DEF Single
<1>2. \A m \in Msg, v \in User, k \in Kind, x \in Holder :
        Has(k, x, m, v)' => Has(k, x, m, v)
  BY DEF Fewer
<1>3. \A m \in Msg :
        \/ Received(m)' \subseteq Received(m)
        \/ \E z : \E v \in User :
             /\ Received(m)' \subseteq Received(m) \cup {z}
             /\ v \in logins'[z[1]]
             /\ Has(k0, x0, m, v) /\ ~Has(k0, x0, m, v)'
             /\ \A k \in Kind, x \in Holder :
                  Has(k, x, m, v)' => Has(k, x, m, v)
  <2>1. ASSUME NEW m \in Msg, ~(Received(m)' \subseteq Received(m))
        PROVE  \E z : \E v \in User :
                 /\ Received(m)' \subseteq Received(m) \cup {z}
                 /\ v \in logins'[z[1]]
                 /\ Has(k0, x0, m, v) /\ ~Has(k0, x0, m, v)'
                 /\ \A k \in Kind, x \in Holder :
                      Has(k, x, m, v)' => Has(k, x, m, v)
    <3>1. /\ InSeq(m, ms)
          /\ \E i \in Nat : Received(m)' \subseteq Received(m) \cup {<<c, i>>}
      BY <2>1, PushReceived
    <3>2. PICK i \in Nat : Received(m)' \subseteq Received(m) \cup {<<c, i>>}
      BY <3>1
    <3>3. PICK z : z = <<c, i>> OBVIOUS
    <3>4. z[1] = c /\ u \in logins'[c] BY <3>3 DEF LoginsGrow
    <3>5. QED BY <1>2, <3>1, <3>2, <3>3, <3>4
  <2>2. QED BY <2>1
<1>4. OnePlace' /\ Matched' BY <1>1, <1>2, <1>3, HandedOn
<1>5. CASE link[c] # "open"
  <2>1. got' = got BY <1>5 DEF Push
  <2>2. MailGoes BY <1>2, <2>1, WaitsSomewhere DEF MailGoes, NoneNew
  <2>3. QED BY <1>4, <2>2
<1>6. CASE link[c] = "open"
  <2>1. got' = [got EXCEPT ![c] = @ \o ms] BY <1>6 DEF Push
  <2>2. \A m \in Msg : InSeq(m, ms) => Waits(m, u) BY WaitsSomewhere
  <2>3. ASSUME NEW m \in Msg, NEW v \in User, Waits(m, v)'
        PROVE  Waits(m, v) /\ ~(v = u /\ InSeq(m, ms))
    <3>1. PICK k \in Kind, x \in Holder : Has(k, x, m, v)'
      BY <2>3, WaitsSomewhere
    <3>2. Has(k, x, m, v) BY <1>2, <3>1
    <3>3. Waits(m, v) BY <3>2, WaitsSomewhere
    <3>4. ASSUME v = u, InSeq(m, ms) PROVE FALSE
      <4>1. k = k0 /\ x = x0 BY <1>1, <3>2, <3>4 DEF OnePlace
      <4>2. QED BY <3>1, <3>4, <4>1
    <3>5. QED BY <3>3, <3>4
  <2>4. ASSUME NEW m \in Msg, NEW v \in User, Waits(m, v),
               ~(v = u /\ InSeq(m, ms))
        PROVE  Waits(m, v)'
    <3>1. PICK k \in Kind, x \in Holder : Has(k, x, m, v)
      BY <2>4, WaitsSomewhere
    <3>2. Has(k, x, m, v)' BY <2>4, <3>1 DEF KeepsBut
    <3>3. QED BY <3>2, WaitsSomewhere
  <2>5. Handed(c, u, ms) BY <2>1, <2>2, <2>3, <2>4 DEF Handed
  <2>6. QED BY <1>4, <2>5 DEF MailGoes
<1>7. QED BY <1>5, <1>6

(* or nowhere. *)
LEMMA StayPut ==
  ASSUME TypeOK, Stages, Addressed, Single, LoginsGrow, UNCHANGED <<dest, got>>,
         \A k \in Kind, x \in Holder : Fewer(k, x)
  PROVE  OnePlace' /\ Matched' /\ MailGoes
<1>1. OnePlace /\ Matched BY DEF Single
<1>2. \A m \in Msg, v \in User, k \in Kind, x \in Holder :
        Has(k, x, m, v)' => Has(k, x, m, v)
  BY DEF Fewer
<1>3. \A m \in Msg : Received(m)' \subseteq Received(m)
  BY DEF Received, Copies
<1>4. "table" \in Kind /\ NoUser \in Holder BY DEF Kind, Holder
<1>5. OnePlace' /\ Matched' BY <1>1, <1>2, <1>3, <1>4, HandedOn
<1>6. MailGoes BY <1>2, WaitsSomewhere DEF MailGoes, NoneNew
<1>7. QED BY <1>5, <1>6
-----------------------------------------------------------------------------
(* The steps that move no message.                                         *)

(* A step that changes no place keeps what is in them. *)
LEMMA Unmoved ==
  ASSUME TypeOK, Stages, Addressed, Single, LoginsGrow,
         UNCHANGED <<reqs, jobVars, offline, inbox, got, dest>>
  PROVE  Single' /\ MailGoes
<1>1. \A d \in Conn : SameWork(d) BY DEF SameWork, SameJob, jobVars
<1>2. ASSUME NEW k \in Kind, NEW x \in Holder PROVE Fewer(k, x)
  BY <1>1, FewerConn, FewerStores, FewerAll DEF SameWork
<1>3. OnePlace' /\ Matched' /\ MailGoes BY <1>2, StayPut
<1>4. HeldOnce'
  BY DEF Single, HeldOnce, AskedOnce, For, CarriedOnce, PushedOnce, StoredOnce,
         ReadOnce, ReadStored, jobVars
<1>5. QED BY <1>3, <1>4 DEF Single

(* So does one of a handler that takes no message further. *)
LEMMA Quiet_Copied ==
  ASSUME TypeOK, Stages, Addressed, Single, LoginsGrow,
         UNCHANGED <<dest, got, offline, inbox>>,
         NEW c \in Conn, \A d \in Conn \ {c} : SameWork(d),
         reqs'[c] \in {reqs[c], <<>>}, IsInjective(idvec'[c]),
         IsInjective(vec'[c]), KeepsRead(c),
         Fewer("handler", c), Fewer("answer", c)
  PROVE  Single' /\ MailGoes
<1>1. ASSUME NEW k \in Kind, NEW x \in Holder PROVE Fewer(k, x)
  <2>1. \A d \in Conn : /\ Fewer("request", d)
                        /\ Fewer("handler", d) /\ Fewer("answer", d)
    BY FewerConn DEF SameWork
  <2>2. QED BY <2>1, FewerStores, FewerAll
<1>2. OnePlace' /\ Matched' /\ MailGoes BY <1>1, StayPut
<1>3. HeldOnce BY DEF Single
<1>4. PushedOnce' BY <1>3 DEF HeldOnce, PushedOnce
<1>5. HeldOnce' BY <1>3, <1>4, OwnOnce, ReadKept DEF HeldOnce
<1>6. QED BY <1>2, <1>5 DEF Single

(* Its vectors may stay as they are. *)
LEMMA SameVectors ==
  ASSUME Single, NEW c \in Conn
  PROVE  /\ idvec'[c] = idvec[c] => IsInjective(idvec'[c])
         /\ vec'[c] = vec[c] => IsInjective(vec'[c])
         /\ idvec'[c] = <<>> => IsInjective(idvec'[c])
         /\ vec'[c] = <<>> => IsInjective(vec'[c])
BY DEF Single, HeldOnce, CarriedOnce, ReadOnce, IsInjective

(* The handlers that carry no message leave the chats alone, *)
LEMMA Session_Copied ==
  ASSUME TypeOK, Stages, Addressed, Single, LoginsGrow, NEW c \in Conn,
         \/ login(c) \/ login_insert(c) \/ login_subscribe(c)
         \/ login_inline(c) \/ LeaveStep(c)
  PROVE  Single' /\ MailGoes
<1>1. \A d \in Conn \ {c} : SameWork(d)
  BY WorkOthers DEF WorkerStep, LoginStep
<1>2. /\ UNCHANGED <<dest, got, offline, inbox, idvec, vec>>
      /\ reqs'[c] \in {reqs[c], <<>>}
      /\ pc'[c] \in
           {"idle"} \cup (SessionSteps \ {"login_remove", "login_reply"})
  <2> USE DEF Done, Goto, TypeOK, mapVars, dbVars, busVars, envVars, userVars,
              SessionSteps
  <2>1. CASE login(c) \/ login_insert(c) \/ login_inline(c)
    BY <2>1 DEF login, login_insert, login_inline, Reply
  <2>2. CASE login_subscribe(c)
    BY <2>2 DEF login_subscribe, subscribe, WriteCommand
  <2>3. CASE logout(c) \/ logout_offline(c)
    BY <2>3 DEF logout, logout_offline
  <2>4. CASE logout_unsubscribe(c)
    BY <2>4 DEF logout_unsubscribe, unsubscribe, WriteCommand
  <2>5. CASE ClientCloseException(c) BY <2>5 DEF ClientCloseException
  <2>6. CASE close_unsubscribe(c)
    BY <2>6 DEF close_unsubscribe, Closed, unsubscribe, WriteCommand
  <2>7. CASE close_offline(c) BY <2>7 DEF close_offline, Closed
  <2>8. QED BY <2>1, <2>2, <2>3, <2>4, <2>5, <2>6, <2>7 DEF LeaveStep
<1>3. Fewer("handler", c) /\ Fewer("answer", c)
  BY <1>2, FewerConn DEF ChatSteps, SessionSteps
<1>4. KeepsRead(c) BY <1>2 DEF KeepsRead
<1>5. QED BY <1>1, <1>2, <1>3, <1>4, SameVectors, Quiet_Copied
(* and so does login when it reads the table. *)
LEMMA Query_Copied ==
  ASSUME TypeOK, Stages, Addressed, Single, LoginsGrow,
         NEW c \in Conn, login_query(c)
  PROVE  Single' /\ MailGoes
<1>1. \A d \in Conn \ {c} : SameWork(d)
  BY WorkOthers DEF WorkerStep, LoginStep
<1>2. /\ UNCHANGED <<dest, got, offline, inbox, idvec, reqs, js>>
      /\ vec'[c] = offline[js[c].user] /\ js[c].user \in User
      /\ pc'[c] = IF vec'[c] = <<>> THEN "login_reply" ELSE "login_remove"
  BY DEF login_query, At, Goto, TypeOK, Stages, UserKnown, LoginSteps, dbVars,
         busVars, envVars
<1>3. Fewer("handler", c) BY <1>2, FewerConn DEF ChatSteps
<1>4. Fewer("answer", c)
  <2>1. CASE vec'[c] = <<>>
    BY <2>1 DEF Fewer, Has, ReadFor, InSeq
  <2>2. CASE vec'[c] # <<>> BY <1>2, <2>2, FewerConn
  <2>3. QED BY <2>1, <2>2
<1>5. KeepsRead(c) BY <1>2 DEF KeepsRead
<1>6. IsInjective(vec'[c]) BY <1>2 DEF Single, HeldOnce, StoredOnce
<1>7. QED BY <1>1, <1>2, <1>3, <1>4, <1>5, <1>6, SameVectors, Quiet_Copied

-----------------------------------------------------------------------------
(* The steps that take a message further.                                  *)

(* What login removes from the table is in its answer. *)
LEMMA Remove_Copied ==
  ASSUME TypeOK, Stages, Addressed, TryOnce, Single, LoginsGrow,
         NEW c \in Conn, login_remove(c)
  PROVE  Single' /\ MailGoes
<1>1. \A d \in Conn \ {c} : SameWork(d)
  BY WorkOthers DEF WorkerStep, LoginStep
<1>2. PICK u \in User : u = js[c].user
  BY DEF login_remove, At, Stages, UserKnown, LoginSteps
<1>3. /\ UNCHANGED <<dest, got, inbox, idvec, vec, reqs, js>>
      /\ pc[c] = "login_remove" /\ pc'[c] = "login_reply"
      /\ offline'[u] = <<>> /\ \A v \in User \ {u} : offline'[v] = offline[v]
  BY <1>2 DEF login_remove, At, Goto, TypeOK, dbVars, busVars, envVars
<1>4. ASSUME NEW m \in Msg, NEW v \in User, Has("answer", c, m, v)'
      PROVE  Has("table", NoUser, m, v) /\ ~Has("table", NoUser, m, v)'
  <2>1. v = u /\ InSeq(m, vec[c])
    BY <1>2, <1>3, <1>4 DEF Has, ReadFor
  <2>2. StoredFor(m, u)
    BY <1>2, <1>3, <2>1 DEF Single, HeldOnce, ReadStored, InSeq, StoredFor
  <2>3. ~StoredFor(m, u)' BY <1>3 DEF StoredFor, InSeq
  <2>4. QED BY <2>1, <2>2, <2>3 DEF Has
<1>5. ASSUME NEW k \in Kind, NEW x \in Holder, <<k, x>> # <<"answer", c>>
      PROVE  Fewer(k, x)
  <2>1. \A d \in Conn : Fewer("request", d) /\ Fewer("handler", d)
    BY <1>1, <1>3, FewerConn DEF SameWork, ChatSteps
  <2>2. \A d \in Conn \ {c} : Fewer("answer", d)
    BY <1>1, FewerConn DEF SameWork
  <2>3. Fewer("table", NoUser)
    BY <1>3 DEF Fewer, Has, StoredFor, InSeq
  <2>4. QED BY <1>3, <1>5, <2>1, <2>2, <2>3, FewerStores, FewerAll
<1>6. "table" \in Kind /\ NoUser \in Holder BY DEF Kind, Holder
<1>7. OnePlace' /\ Matched' /\ MailGoes BY <1>3, <1>4, <1>5, <1>6, HandOver
<1>8. HeldOnce BY DEF Single
<1>9. AskedOnce' /\ CarriedOnce' /\ ReadOnce'
  BY <1>1, <1>3, <1>8, SameVectors, OwnOnce
<1>10. PushedOnce' BY <1>3, <1>8 DEF HeldOnce, PushedOnce
<1>11. StoredOnce' BY <1>3, <1>8 DEF HeldOnce, StoredOnce, IsInjective
<1>12. ReadStored'
  <2>1. ASSUME NEW d \in Conn, pc'[d] = "login_remove"
        PROVE  /\ js'[d] = js[d] /\ vec'[d] = vec[d]
               /\ pc[d] = "login_remove" /\ js[d].user \in User \ {u}
    <3>1. d # c BY <1>3, <2>1
    <3>2. pc[d] = "login_remove" /\ js'[d] = js[d] /\ vec'[d] = vec[d]
      BY <1>1, <2>1, <3>1 DEF SameWork, SameJob
    <3>3. js[d].user \in User BY <3>2 DEF Stages, UserKnown, LoginSteps
    <3>4. js[d].user # u
      BY <1>2, <1>3, <3>1, <3>2 DEF TryOnce, LogsIn, Runs, LoginSteps
    <3>5. QED BY <3>2, <3>3, <3>4
  <2>2. QED BY <1>3, <1>8, <2>1 DEF HeldOnce, ReadStored
<1>13. QED BY <1>7, <1>9, <1>10, <1>11, <1>12 DEF Single, HeldOnce

(* The answer takes what was read to the client. *)
LEMMA Reply_Copied ==
  ASSUME TypeOK, Stages, Addressed, Single, LoginsGrow,
         NEW c \in Conn, login_reply(c)
  PROVE  Single' /\ MailGoes
<1>1. \A d \in Conn \ {c} : SameWork(d)
  BY WorkOthers DEF WorkerStep, LoginStep
<1>2. PICK u \in User : u = js[c].user
  BY DEF login_reply, At, Stages, UserKnown, LoginSteps
<1>3. /\ UNCHANGED <<dest, offline, inbox, idvec, reqs>>
      /\ pc[c] = "login_reply" /\ pc'[c] = "idle" /\ vec'[c] = <<>>
      /\ Push(c, vec[c])
  BY DEF login_reply, Reply, Done, At, Goto, TypeOK, dbVars, busVars, envVars
<1>4. HeldOnce BY DEF Single
<1>5. IsInjective(vec[c]) /\ vec[c] \in Seq(Msg)
  BY <1>4 DEF HeldOnce, ReadOnce, TypeOK
<1>6. ASSUME NEW k \in Kind, NEW x \in Holder PROVE Fewer(k, x)
  <2>1. \A d \in Conn : /\ Fewer("request", d)
                        /\ Fewer("handler", d) /\ Fewer("answer", d)
    BY <1>1, <1>3, FewerConn DEF SameWork, ChatSteps
  <2>2. QED BY <1>3, <2>1, FewerStores, FewerAll
<1>7. ASSUME NEW m \in Msg, InSeq(m, vec[c])
      PROVE  Has("answer", c, m, u) /\ ~Has("answer", c, m, u)'
  BY <1>2, <1>3, <1>7 DEF Has, ReadFor
<1>8. "answer" \in Kind /\ c \in Holder BY DEF Kind, Holder
<1>9. ASSUME NEW k \in Kind, NEW x \in Holder
       PROVE  KeepsBut(k, x, u, vec[c])
  <2>1. \A d \in Conn : KeepsBut("request", d, u, vec[c])
    BY <1>3, KeepsConn
  <2>2. \A d \in Conn \ {c} : /\ KeepsBut("handler", d, u, vec[c])
                              /\ KeepsBut("answer", d, u, vec[c])
    BY <1>1, KeepsConn DEF SameWork
  <2>3. KeepsBut("handler", c, u, vec[c])
    BY <1>3, KeepsConn DEF ChatSteps
  <2>4. KeepsBut("answer", c, u, vec[c])
    BY <1>2 DEF KeepsBut, Has, ReadFor
  <2>5. QED BY <1>3, <2>1, <2>2, <2>3, <2>4, KeepsStores, KeepsAll
<1>10. u \in logins[c]
  BY <1>2, <1>3 DEF Addressed, Admitted, InSession, LoginSteps
<1>11. OnePlace' /\ Matched' /\ MailGoes
  BY <1>3, <1>5, <1>6, <1>7, <1>8, <1>9, <1>10, Deliver
<1>12. AskedOnce' /\ CarriedOnce' /\ ReadOnce'
  BY <1>1, <1>3, <1>4, SameVectors, OwnOnce
<1>13. PushedOnce' BY <1>3, <1>4 DEF HeldOnce, PushedOnce
<1>14. StoredOnce' /\ ReadStored'
  BY <1>1, <1>3, <1>4, ReadKept DEF KeepsRead
<1>15. QED BY <1>11, <1>12, <1>13, <1>14 DEF Single, HeldOnce
(* onMessage takes a request from the connection to its handler. *)
LEMMA Read_Copied ==
  ASSUME TypeOK, Stages, Addressed, Single, LoginsGrow,
         NEW c \in Conn, onMessage(c)
  PROVE  Single' /\ MailGoes
<1>1. \A d \in Conn \ {c} : SameWork(d) BY WorkOthers DEF WorkerStep
<1>2. PICK q : q = reqs[c] OBVIOUS
<1>3. /\ q \in Seq(Request) /\ q # <<>>
      /\ UNCHANGED <<dest, got, offline, inbox, idvec, vec>>
      /\ js'[c] = q[1] /\ pc'[c] = q[1].op /\ 1 \in DOMAIN q
  BY <1>2 DEF onMessage, Goto, TypeOK, dbVars, busVars
<1>4. q[1] \in Request BY <1>3
<1>5. pc'[c] \in {"login", "logout", "oneChat", "groupChat"}
  BY <1>3, <1>4 DEF Request
<1>6. PICK n \in Nat \ {0} : /\ n <= Len(q)
                             /\ reqs'[c] = SubSeq(q, n + 1, Len(q))
  BY <1>2, ServiceAssumption DEF onMessage, TypeOK
<1>7. PICK r : r = reqs'[c] OBVIOUS
<1>8. \A i \in DOMAIN r : i \in Nat \ {0} /\ i + n \in DOMAIN q
                          /\ r[i] = q[i + n]
  <2>1. q \in Seq(Request) BY <1>3
  <2>2. n \in Nat /\ n <= Len(q) /\ r = SubSeq(q, n + 1, Len(q))
    BY <1>6, <1>7
  <2>3. SubSeq(q, n + 1, Len(q)) \in Seq(Request)
    <3>1. n + 1 \in Nat \ {0} /\ Len(q) \in Nat BY <2>1
    <3>2. QED BY <2>1, <3>1
  <2>4. ASSUME NEW i \in DOMAIN r
        PROVE  i \in Nat \ {0} /\ i + n \in DOMAIN q /\ r[i] = q[i + n]
    <3>1. i \in DOMAIN SubSeq(q, n + 1, Len(q)) BY <2>2, <2>4
    <3>2. i \in Nat \ {0}
      BY <2>3, <3>1
    <3>3. i + n \in DOMAIN q /\ SubSeq(q, n + 1, Len(q))[i] = q[i + n]
      BY <2>1, <2>2, <3>1, LaterElement
    <3>4. QED BY <2>2, <3>2, <3>3
  <2>5. QED BY <2>4
<1>9. HeldOnce BY DEF Single
<1>10. ASSUME NEW m \in Msg, NEW u \in User
       PROVE  \A i, j \in DOMAIN q : For(q[i], m, u) /\ For(q[j], m, u) => i = j
  BY <1>2, <1>9 DEF HeldOnce, AskedOnce
<1>11. ASSUME NEW m \in Msg, NEW u \in User
       PROVE  /\ AskedFor(c, m, u) <=> \E i \in DOMAIN q : For(q[i], m, u)
              /\ AskedFor(c, m, u)' <=> \E i \in DOMAIN r : For(r[i], m, u)
  BY <1>2, <1>7 DEF AskedFor, For
<1>12. ASSUME NEW m \in Msg, NEW u \in User, Has("handler", c, m, u)'
       PROVE  Has("request", c, m, u) /\ ~Has("request", c, m, u)'
  <2>1. CarriedFor(c, m, u)' BY <1>12 DEF Has
  <2>2. For(q[1], m, u)
    BY <1>3, <1>5, <2>1 DEF CarriedFor, For, OneChatSteps, GroupSteps,
                            MemberSteps
  <2>3. AskedFor(c, m, u) BY <1>3, <1>11, <2>2
  <2>4. ASSUME NEW i \in DOMAIN r, For(r[i], m, u) PROVE FALSE
    <3>1. i + n = 1 BY <1>3, <1>8, <1>10, <2>2, <2>4
    <3>2. QED BY <1>8, <3>1
  <2>5. ~AskedFor(c, m, u)' BY <1>11, <2>4
  <2>6. QED BY <2>3, <2>5 DEF Has
<1>13. ASSUME NEW k \in Kind, NEW x \in Holder, <<k, x>> # <<"handler", c>>
       PROVE  Fewer(k, x)
  <2>1. Fewer("request", c)
    <3>1. \A m \in Msg, u \in User : AskedFor(c, m, u)' => AskedFor(c, m, u)
      BY <1>8, <1>11
    <3>2. QED BY <3>1 DEF Fewer, Has
  <2>2. Fewer("answer", c) BY <1>5, FewerConn
  <2>3. \A d \in Conn \ {c} : /\ Fewer("request", d)
                              /\ Fewer("handler", d) /\ Fewer("answer", d)
    BY <1>1, FewerConn DEF SameWork
  <2>4. QED BY <1>3, <1>13, <2>1, <2>2, <2>3, FewerStores, FewerAll
<1>14. "request" \in Kind /\ c \in Holder BY DEF Kind, Holder
<1>15. OnePlace' /\ Matched' /\ MailGoes BY <1>3, <1>12, <1>13, <1>14, HandOver
<1>16. AskedOnce'
  <2>1. ASSUME NEW m \in Msg, NEW u \in User,
               NEW i \in DOMAIN r, NEW j \in DOMAIN r,
               For(r[i], m, u), For(r[j], m, u)
        PROVE  i = j
    <3>1. i + n = j + n BY <1>8, <1>10, <2>1
    <3>2. QED BY <1>8, <3>1
  <2>2. QED BY <1>1, <1>7, <1>9, <2>1 DEF HeldOnce, AskedOnce, SameWork, For
<1>17. CarriedOnce' /\ ReadOnce' /\ PushedOnce'
  BY <1>3, <1>9 DEF HeldOnce, CarriedOnce, ReadOnce, PushedOnce
<1>18. StoredOnce' /\ ReadStored'
  BY <1>1, <1>3, <1>5, <1>9, ReadKept DEF KeepsRead
<1>19. QED BY <1>15, <1>16, <1>17, <1>18 DEF Single, HeldOnce

(***************************************************************************)
(* oneChat takes the message of its request to the client it finds in the  *)
(* map, to the channel, or to the table.                                   *)
(***************************************************************************)
LEMMA OneChat_Copied ==
  ASSUME TypeOK, Stages, Addressed, Single, LoginsGrow,
         NEW home, SubsHome(home),
         NEW c \in Conn,
         oneChat(c) \/ oneChat_query(c) \/ oneChat_publish(c)
           \/ oneChat_insert(c)
  PROVE  Single' /\ MailGoes
<1>1. \A d \in Conn \ {c} : SameWork(d)
  BY WorkOthers DEF WorkerStep, ChatStep
<1>2. pc[c] \in OneChatSteps /\ pc[c] \in ChatSteps
  BY DEF oneChat, oneChat_query, oneChat_publish, oneChat_insert, At, ChatSteps,
         OneChatSteps
<1>3. PICK u \in User, m0 \in Msg : u = js[c].user /\ m0 = js[c].msg
  BY <1>2 DEF Stages, UserKnown, MsgKnown
<1>4. UNCHANGED <<dest, idvec, vec, reqs>>
  BY DEF oneChat, oneChat_query, oneChat_publish, oneChat_insert, envVars
<1>5. HeldOnce BY DEF Single
<1>6. AskedOnce' /\ CarriedOnce' /\ ReadOnce'
  BY <1>1, <1>4, <1>5, SameVectors, OwnOnce
<1>7. Has("handler", c, m0, u) BY <1>2, <1>3 DEF Has, CarriedFor
<1>8. "handler" \in Kind /\ c \in Holder BY DEF Kind, Holder
<1>9. \A d \in Conn : Fewer("request", d)
  BY <1>4, FewerConn
<1>10. \A d \in Conn \ {c} : Fewer("handler", d) /\ Fewer("answer", d)
  BY <1>1, FewerConn DEF SameWork
<1>11. CASE pc'[c] \in OneChatSteps /\ js' = js
            /\ UNCHANGED <<got, offline, inbox>>
  <2>1. Fewer("handler", c)
    BY <1>2, <1>11 DEF Fewer, Has, CarriedFor, OneChatSteps, GroupSteps,
                       MemberSteps
  <2>2. Fewer("answer", c) /\ KeepsRead(c)
    BY <1>11, FewerConn DEF OneChatSteps, KeepsRead
  <2>3. QED
    BY <1>1, <1>4, <1>11, <2>1, <2>2, SameVectors, Quiet_Copied
<1>12. ASSUME pc'[c] = "idle"
       PROVE  /\ \A d \in Conn : Fewer("handler", d) /\ Fewer("answer", d)
              /\ \A m, v : ~Has("handler", c, m, v)'
              /\ KeepsRead(c)
  <2>1. pc'[c] \notin ChatSteps /\ pc'[c] # "login_reply"
    BY <1>12 DEF ChatSteps
  <2>2. \A m, v : ~Has("handler", c, m, v)'
    BY <1>12 DEF Has, CarriedFor, OneChatSteps, GroupSteps, MemberSteps
  <2>3. QED BY <1>10, <1>12, <2>1, <2>2, FewerConn DEF KeepsRead
<1>13. ASSUME NEW d \in Conn, Push(d, <<m0>>), u \in logins[d],
              pc'[c] = "idle", UNCHANGED <<offline, inbox>>
       PROVE  Single' /\ MailGoes
  <2>1. ASSUME NEW k \in Kind, NEW x \in Holder PROVE Fewer(k, x)
    BY <1>9, <1>12, <1>13, FewerStores, FewerAll
  <2>2. <<m0>> \in Seq(Msg) /\ IsInjective(<<m0>>) BY DEF IsInjective
  <2>3. \A m \in Msg : InSeq(m, <<m0>>) <=> m = m0 BY DEF InSeq
  <2>4. ASSUME NEW k \in Kind, NEW x \in Holder
        PROVE  KeepsBut(k, x, u, <<m0>>)
    <3>1. /\ \A f \in Conn : KeepsBut("request", f, u, <<m0>>)
          /\ \A f \in Conn \ {c} : KeepsBut("handler", f, u, <<m0>>)
          /\ \A f \in Conn \ {c} : KeepsBut("answer", f, u, <<m0>>)
      BY <1>1, <1>4, KeepsConn DEF SameWork
    <3>2. KeepsBut("answer", c, u, <<m0>>)
      BY <1>2, KeepsConn DEF OneChatSteps
    <3>3. KeepsBut("handler", c, u, <<m0>>)
      BY <1>2, <1>3, <2>3 DEF KeepsBut, Has, CarriedFor, OneChatSteps,
                              GroupSteps, MemberSteps
    <3>4. QED BY <1>13, <3>1, <3>2, <3>3, KeepsStores, KeepsAll
  <2>5. OnePlace' /\ Matched' /\ MailGoes
    BY <1>4, <1>7, <1>8, <1>12, <1>13, <2>1, <2>2, <2>3, <2>4, Deliver
  <2>6. PushedOnce' BY <1>5, <1>13 DEF HeldOnce, PushedOnce
  <2>7. StoredOnce' /\ ReadStored' BY <1>1, <1>5, <1>12, <1>13, ReadKept
  <2>8. QED BY <1>6, <2>5, <2>6, <2>7 DEF Single, HeldOnce
<1>14. CASE oneChat(c)
  <2>1. PICK d : d = userConnMap[at[c]][u] OBVIOUS
  <2>2. UNCHANGED <<offline, inbox>>
        /\ \/ d # NoConn /\ Push(d, <<m0>>) /\ Done(c)
           \/ Goto(c, "oneChat_query") /\ UNCHANGED <<got, js>>
    BY <1>3, <1>14, <2>1 DEF oneChat, Here, dbVars, busVars
  <2>3. d # NoConn => d \in Conn /\ u \in logins[d]
    BY <1>14, <2>1 DEF oneChat, At, Alive, Stages, Placed, TypeOK, Addressed,
                       Entered
  <2>4. CASE d # NoConn /\ Push(d, <<m0>>) /\ Done(c)
    BY <1>13, <2>2, <2>3, <2>4 DEF Done, Goto, TypeOK
  <2>5. CASE Goto(c, "oneChat_query") /\ UNCHANGED <<got, js>>
    BY <1>11, <2>2, <2>5 DEF Goto, TypeOK, OneChatSteps
  <2>6. QED BY <2>2, <2>4, <2>5
<1>15. CASE oneChat_query(c)
  BY <1>11, <1>15 DEF oneChat_query, Goto, TypeOK, OneChatSteps, dbVars, busVars
<1>16. CASE oneChat_publish(c)
  <2>1. /\ UNCHANGED <<got, offline>> /\ pc'[c] = "idle" /\ publish(u, m0)
    BY <1>3, <1>16 DEF oneChat_publish, Done, Goto, TypeOK, dbVars
  <2>2. PICK s : s = home[u] OBVIOUS
  <2>3. \A r \in Server : r # s => inbox'[r] = inbox[r]
    BY <2>1, <2>2 DEF SubsHome, publish
  <2>4. \A r \in Server : ~PushedFor(r, m0, u)
    <3>1. ASSUME NEW r \in Server PROVE ~Has("channel", r, m0, u)
      <4>1. "channel" \in Kind /\ r \in Holder /\ "channel" # "handler"
        BY DEF Kind, Holder
      <4>2. QED BY <1>7, <1>8, <4>1 DEF Single, OnePlace
    <3>2. QED BY <3>1 DEF Has
  <2>5. /\ PushedOnce'
        /\ \A m \in Msg, v \in User :
             s \in Server /\ PushedFor(s, m, v)' =>
               PushedFor(s, m, v) \/ (m = m0 /\ v = u)
    BY <1>5, <2>1, <2>4, PublishOnce DEF HeldOnce
  <2>6. \A m \in Msg, v \in User : Has("channel", s, m, v)' =>
          \/ Has("channel", s, m, v)
          \/ Has("handler", c, m, v) /\ ~Has("handler", c, m, v)'
    BY <1>7, <1>12, <2>1, <2>5 DEF Has
  <2>7. ASSUME NEW k \in Kind, NEW x \in Holder, <<k, x>> # <<"channel", s>>
        PROVE  Fewer(k, x)
    BY <1>9, <1>12, <2>1, <2>3, <2>7, FewerStores, FewerAll
  <2>8. OnePlace' /\ Matched' /\ MailGoes
    BY <1>4, <1>8, <2>1, <2>6, <2>7, HandOver
  <2>9. StoredOnce' /\ ReadStored' BY <1>1, <1>5, <1>12, <2>1, ReadKept
  <2>10. QED BY <1>6, <2>5, <2>8, <2>9 DEF Single, HeldOnce
<1>17. CASE oneChat_insert(c)
  <2>1. /\ UNCHANGED <<got, inbox>> /\ pc'[c] = "idle" /\ StoreOffline(u, m0)
    BY <1>3, <1>17 DEF oneChat_insert, Done, Goto, TypeOK, busVars
  <2>2. ~StoredFor(m0, u)
    <3>1. ~Has("table", NoUser, m0, u)
      <4>1. "table" \in Kind /\ NoUser \in Holder /\ "table" # "handler"
        BY DEF Kind, Holder
      <4>2. QED BY <1>7, <1>8, <4>1 DEF Single, OnePlace
    <3>2. QED BY <3>1 DEF Has
  <2>3. /\ StoredOnce' /\ ReadStored'
        /\ \A m \in Msg, v \in User :
             StoredFor(m, v)' => StoredFor(m, v) \/ (m = m0 /\ v = u)
    <3>1. \A d \in Conn : pc'[d] = "login_remove" =>
            /\ pc[d] = "login_remove" /\ js'[d] = js[d] /\ vec'[d] = vec[d]
      BY <1>1, <2>1 DEF SameWork, SameJob
    <3>2. QED BY <1>5, <2>1, <2>2, <3>1, StoreOnce
  <2>4. \A m \in Msg, v \in User : Has("table", NoUser, m, v)' =>
          \/ Has("table", NoUser, m, v)
          \/ Has("handler", c, m, v) /\ ~Has("handler", c, m, v)'
    BY <1>7, <1>12, <2>1, <2>3 DEF Has
  <2>5. ASSUME NEW k \in Kind, NEW x \in Holder, <<k, x>> # <<"table", NoUser>>
        PROVE  Fewer(k, x)
    BY <1>9, <1>12, <2>1, <2>5, FewerStores, FewerAll
  <2>6. OnePlace' /\ Matched' /\ MailGoes
    BY <1>4, <1>8, <2>1, <2>4, <2>5, HandOver
  <2>7. PushedOnce' BY <1>5, <2>1 DEF HeldOnce, PushedOnce
  <2>8. QED BY <1>6, <2>3, <2>6, <2>7 DEF Single, HeldOnce
<1>18. QED BY <1>14, <1>15, <1>16, <1>17
(* groupChat goes on with the members of the group and with no others, *)
LEMMA GroupOn_Copied ==
  ASSUME TypeOK, Stages, Addressed, Single, LoginsGrow,
         MembersOnce, NEW c \in Conn,
         \/ groupChat(c) \/ group_lock(c) \/ group_query(c)
         \/ group_next(c) /\ got' = got /\ pc'[c] # pc[c]
  PROVE  Single' /\ MailGoes
<1>1. \A d \in Conn \ {c} : SameWork(d)
  BY WorkOthers DEF WorkerStep, ChatStep
<1>2. /\ UNCHANGED <<dest, got, offline, inbox, vec, reqs>>
      /\ pc'[c] \in {"idle", "group_lock", "group_next", "group_query",
                     "group_publish", "group_insert"}
  <2> USE DEF Goto, TypeOK, dbVars, busVars, envVars
  <2>1. CASE groupChat(c) \/ group_lock(c) \/ group_query(c)
    BY <2>1 DEF groupChat, group_lock, group_query
  <2>2. CASE group_next(c) /\ got' = got /\ pc'[c] # pc[c]
    BY <2>2 DEF group_next, Unlock, Done
  <2>3. QED BY <2>1, <2>2
<1>3. Fewer("answer", c) /\ KeepsRead(c)
  BY <1>2, FewerConn DEF KeepsRead
<1>4. ASSUME IsInjective(idvec'[c]), Fewer("handler", c)
      PROVE  Single' /\ MailGoes
  BY <1>1, <1>2, <1>3, <1>4, SameVectors, Quiet_Copied
<1>5. CASE groupChat(c)
  <2>1. PICK u \in User : u = js[c].user
    BY <1>5 DEF groupChat, At, Stages, UserKnown, ChatSteps
  <2>2. /\ pc[c] = "groupChat" /\ pc'[c] = "group_lock" /\ js' = js
        /\ idvec'[c] = MembersExcept[u]
    BY <1>5, <2>1 DEF groupChat, At, Goto, TypeOK
  <2>3. Fewer("handler", c)
    BY <2>1, <2>2 DEF Fewer, Has, CarriedFor, Members, InSeq, OneChatSteps
  <2>4. QED BY <1>4, <2>2, <2>3 DEF MembersOnce
<1>6. ASSUME pc[c] \in GroupSteps, pc'[c] \in GroupSteps,
             UNCHANGED <<js, idvec>>
      PROVE  Single' /\ MailGoes
  <2>1. Fewer("handler", c)
    BY <1>6 DEF Fewer, Has, CarriedFor, GroupSteps, MemberSteps, OneChatSteps
  <2>2. QED BY <1>4, <1>6, <2>1, SameVectors
<1>7. CASE group_lock(c) \/ group_query(c)
  BY <1>6, <1>7 DEF group_lock, group_query, At, Goto, TypeOK, GroupSteps,
                    MemberSteps
<1>8. CASE group_next(c) /\ pc'[c] # pc[c]
  <2>1. \/ Unlock(c)
        \/ Goto(c, "group_query") /\ UNCHANGED <<js, idvec>>
    BY <1>8 DEF group_next
  <2>2. CASE Unlock(c)
    <3>1. idvec'[c] = <<>> /\ pc'[c] = "idle"
      BY <2>2 DEF Unlock, Done, Goto, TypeOK
    <3>2. Fewer("handler", c) BY <3>1, FewerConn DEF ChatSteps
    <3>3. QED BY <1>4, <3>1, <3>2, SameVectors
  <2>3. CASE Goto(c, "group_query") /\ UNCHANGED <<js, idvec>>
    BY <1>6, <1>8, <2>3 DEF group_next, At, Goto, TypeOK, GroupSteps,
                            MemberSteps
  <2>4. QED BY <2>1, <2>2, <2>3
<1>9. QED BY <1>5, <1>7, <1>8

(***************************************************************************)
(* and takes the message of its request to the client of the member it     *)
(* serves, to his channel, or to the table.                                *)
(***************************************************************************)
LEMMA GroupGives_Copied ==
  ASSUME TypeOK, Stages, Addressed, Single, LoginsGrow,
         NEW home, SubsHome(home),
         NEW c \in Conn,
         \/ group_publish(c) \/ group_insert(c)
         \/ group_next(c) /\ idvec[c] # <<>> /\ pc'[c] = pc[c]
  PROVE  Single' /\ MailGoes
<1>1. \A d \in Conn \ {c} : SameWork(d)
  BY WorkOthers DEF WorkerStep, ChatStep
<1>2. /\ pc[c] \in GroupSteps /\ pc[c] \in ChatSteps /\ idvec[c] # <<>>
      /\ at[c] \in Server
  BY DEF group_next, group_publish, group_insert, At, Alive, ChatSteps,
         GroupSteps, MemberSteps, Stages, MemberLeft, Placed
<1>3. PICK q : q = idvec[c] OBVIOUS
<1>4. q \in Seq(User) /\ IsInjective(q) /\ q # <<>>
  BY <1>2, <1>3 DEF TypeOK, Single, HeldOnce, CarriedOnce
<1>5. /\ IsInjective(Tail(q)) /\ Head(q) \in User /\ InSeq(Head(q), q)
      /\ \A y : InSeq(y, Tail(q)) => InSeq(y, q) /\ y # Head(q)
  BY <1>4, TailOnce
<1>6. PICK u \in User : u = Head(q) BY <1>5
<1>7. PICK m0 \in Msg : m0 = js[c].msg
  BY <1>2 DEF Stages, MsgKnown
<1>8. UNCHANGED <<dest, vec, reqs>>
  BY DEF group_next, group_publish, group_insert, envVars
<1>9. /\ \/ idvec'[c] = <<>> /\ pc'[c] = "idle"
         \/ idvec'[c] = Tail(q) /\ pc'[c] = "group_next" /\ js'[c] = js[c]
      /\ \/ /\ Push(userConnMap[at[c]][u], <<m0>>)
            /\ UNCHANGED <<offline, inbox>>
            /\ userConnMap[at[c]][u] \in Conn
            /\ u \in logins[userConnMap[at[c]][u]]
            /\ idvec'[c] = Tail(q) /\ pc'[c] = "group_next" /\ js'[c] = js[c]
         \/ publish(u, m0) /\ UNCHANGED <<got, offline>>
         \/ StoreOffline(u, m0) /\ UNCHANGED <<got, inbox>>
  <2> USE <1>3, <1>6, <1>7 DEF Goto, TypeOK, dbVars, busVars
  <2>1. CASE group_next(c) /\ idvec[c] # <<>> /\ pc'[c] = pc[c]
    <3>1. /\ pc[c] = "group_next" /\ pc' # [pc EXCEPT ![c] = "group_query"]
          /\ UNCHANGED <<offline, inbox>>
      BY <2>1 DEF group_next, At
    <3>2. /\ userConnMap[at[c]][u] # NoConn
          /\ Push(userConnMap[at[c]][u], <<m0>>)
          /\ NextMember(c) /\ UNCHANGED <<pc, js>>
      BY <2>1, <3>1 DEF group_next, Here
    <3>3. /\ userConnMap[at[c]][u] \in Conn
          /\ u \in logins[userConnMap[at[c]][u]]
      BY <1>2, <3>2 DEF Addressed, Entered
    <3>4. idvec'[c] = Tail(q) BY <3>2 DEF NextMember
    <3>5. QED BY <3>1, <3>2, <3>3, <3>4
  <2>2. CASE group_publish(c) BY <2>2 DEF group_publish, Unlock, Done
  <2>3. CASE group_insert(c) BY <2>3 DEF group_insert, NextMember
  <2>4. QED BY <2>1, <2>2, <2>3
<1>10. HeldOnce BY DEF Single
<1>11. AskedOnce' /\ CarriedOnce' /\ ReadOnce'
  BY <1>1, <1>5, <1>8, <1>9, <1>10, SameVectors, OwnOnce
<1>12. Has("handler", c, m0, u)
  BY <1>2, <1>3, <1>5, <1>6, <1>7 DEF Has, CarriedFor
<1>13. ~Has("handler", c, m0, u)' /\ Fewer("handler", c)
  <2>1. ASSUME NEW m \in Msg, NEW v \in User, CarriedFor(c, m, v)'
        PROVE  m = m0 /\ InSeq(v, q) /\ v # u
    <3>1. /\ pc'[c] = "group_next" /\ js'[c] = js[c]
          /\ idvec'[c] = Tail(q)
      BY <1>9, <2>1 DEF CarriedFor, OneChatSteps, GroupSteps, MemberSteps
    <3>2. m = m0 /\ InSeq(v, Tail(q))
      BY <1>7, <2>1, <3>1 DEF CarriedFor, OneChatSteps
    <3>3. QED BY <1>5, <1>6, <3>2
  <2>2. \A m \in Msg, v \in User : CarriedFor(c, m, v)' => CarriedFor(c, m, v)
    BY <1>2, <1>3, <1>7, <2>1 DEF CarriedFor
  <2>3. QED BY <2>1, <2>2 DEF Fewer, Has
<1>14. /\ \A d \in Conn : /\ Fewer("request", d)
                          /\ Fewer("handler", d) /\ Fewer("answer", d)
       /\ KeepsRead(c)
  BY <1>1, <1>8, <1>9, <1>13, FewerConn DEF SameWork, KeepsRead
<1>15. "handler" \in Kind /\ c \in Holder BY DEF Kind, Holder
<1>16. ASSUME NEW d \in Conn, Push(d, <<m0>>), UNCHANGED <<offline, inbox>>,
              u \in logins[d], idvec'[c] = Tail(q), pc'[c] = "group_next",
              js'[c] = js[c]
       PROVE  Single' /\ MailGoes
  <2>1. ASSUME NEW k \in Kind, NEW x \in Holder PROVE Fewer(k, x)
    BY <1>14, <1>16, FewerStores, FewerAll
  <2>2. <<m0>> \in Seq(Msg) /\ IsInjective(<<m0>>) BY DEF IsInjective
  <2>3. \A m \in Msg : InSeq(m, <<m0>>) <=> m = m0 BY DEF InSeq
  <2>4. ASSUME NEW k \in Kind, NEW x \in Holder
        PROVE  KeepsBut(k, x, u, <<m0>>)
    <3>1. /\ \A f \in Conn : KeepsBut("request", f, u, <<m0>>)
          /\ \A f \in Conn \ {c} : KeepsBut("handler", f, u, <<m0>>)
          /\ \A f \in Conn \ {c} : KeepsBut("answer", f, u, <<m0>>)
      BY <1>1, <1>8, KeepsConn DEF SameWork
    <3>2. KeepsBut("answer", c, u, <<m0>>)
      BY <1>2, KeepsConn DEF GroupSteps, MemberSteps
    <3>3. ASSUME NEW m \in Msg, NEW v \in User, CarriedFor(c, m, v), v # u
          PROVE  CarriedFor(c, m, v)'
      <4>1. m = js[c].msg /\ InSeq(v, q)
        BY <1>2, <1>3, <3>3 DEF CarriedFor, OneChatSteps, GroupSteps,
                                MemberSteps
      <4>2. InSeq(v, Tail(q)) BY <1>4, <1>6, <3>3, <4>1, TailKeeps
      <4>3. QED BY <1>16, <4>1, <4>2 DEF CarriedFor, GroupSteps
    <3>4. \A m \in Msg, v \in User : CarriedFor(c, m, v) => m = m0
      BY <1>7 DEF CarriedFor
    <3>5. KeepsBut("handler", c, u, <<m0>>)
      BY <2>3, <3>3, <3>4 DEF KeepsBut, Has
    <3>6. QED BY <1>16, <3>1, <3>2, <3>5, KeepsStores, KeepsAll
  <2>5. OnePlace' /\ Matched' /\ MailGoes
    BY <1>8, <1>12, <1>13, <1>15, <1>16, <2>1, <2>2, <2>3, <2>4, Deliver
  <2>6. PushedOnce' BY <1>10, <1>16 DEF HeldOnce, PushedOnce
  <2>7. StoredOnce' /\ ReadStored' BY <1>1, <1>10, <1>14, <1>16, ReadKept
  <2>8. QED BY <1>11, <2>5, <2>6, <2>7 DEF Single, HeldOnce
<1>17. CASE publish(u, m0) /\ UNCHANGED <<got, offline>>
  <2>1. PICK s : s = home[u] OBVIOUS
  <2>2. \A r \in Server : r # s => inbox'[r] = inbox[r]
    BY <1>17, <2>1 DEF SubsHome, publish
  <2>3. \A r \in Server : ~PushedFor(r, m0, u)
    <3>1. ASSUME NEW r \in Server PROVE ~Has("channel", r, m0, u)
      <4>1. "channel" \in Kind /\ r \in Holder /\ "channel" # "handler"
        BY DEF Kind, Holder
      <4>2. QED BY <1>12, <1>15, <4>1 DEF Single, OnePlace
    <3>2. QED BY <3>1 DEF Has
  <2>4. /\ PushedOnce'
        /\ \A m \in Msg, v \in User :
             s \in Server /\ PushedFor(s, m, v)' =>
               PushedFor(s, m, v) \/ (m = m0 /\ v = u)
    BY <1>10, <1>17, <2>3, PublishOnce DEF HeldOnce
  <2>5. \A m \in Msg, v \in User : Has("channel", s, m, v)' =>
          \/ Has("channel", s, m, v)
          \/ Has("handler", c, m, v) /\ ~Has("handler", c, m, v)'
    BY <1>12, <1>13, <2>4 DEF Has
  <2>6. ASSUME NEW k \in Kind, NEW x \in Holder, <<k, x>> # <<"channel", s>>
        PROVE  Fewer(k, x)
    BY <1>14, <1>17, <2>2, <2>6, FewerStores, FewerAll
  <2>7. OnePlace' /\ Matched' /\ MailGoes
    BY <1>8, <1>15, <1>17, <2>5, <2>6, HandOver
  <2>8. StoredOnce' /\ ReadStored' BY <1>1, <1>10, <1>14, <1>17, ReadKept
  <2>9. QED BY <1>11, <2>4, <2>7, <2>8 DEF Single, HeldOnce
<1>18. CASE StoreOffline(u, m0) /\ UNCHANGED <<got, inbox>>
  <2>1. ~StoredFor(m0, u)
    <3>1. ~Has("table", NoUser, m0, u)
      <4>1. "table" \in Kind /\ NoUser \in Holder /\ "table" # "handler"
        BY DEF Kind, Holder
      <4>2. QED BY <1>12, <1>15, <4>1 DEF Single, OnePlace
    <3>2. QED BY <3>1 DEF Has
  <2>2. /\ StoredOnce' /\ ReadStored'
        /\ \A m \in Msg, v \in User :
             StoredFor(m, v)' => StoredFor(m, v) \/ (m = m0 /\ v = u)
    <3>1. \A d \in Conn : pc'[d] = "login_remove" =>
            /\ pc[d] = "login_remove" /\ js'[d] = js[d] /\ vec'[d] = vec[d]
      BY <1>1, <1>9 DEF SameWork, SameJob
    <3>2. QED BY <1>10, <1>18, <2>1, <3>1, StoreOnce
  <2>3. \A m \in Msg, v \in User : Has("table", NoUser, m, v)' =>
          \/ Has("table", NoUser, m, v)
          \/ Has("handler", c, m, v) /\ ~Has("handler", c, m, v)'
    BY <1>12, <1>13, <2>2 DEF Has
  <2>4. ASSUME NEW k \in Kind, NEW x \in Holder, <<k, x>> # <<"table", NoUser>>
        PROVE  Fewer(k, x)
    BY <1>14, <1>18, <2>4, FewerStores, FewerAll
  <2>5. OnePlace' /\ Matched' /\ MailGoes
    BY <1>8, <1>15, <1>18, <2>3, <2>4, HandOver
  <2>6. PushedOnce' BY <1>10, <1>18 DEF HeldOnce, PushedOnce
  <2>7. QED BY <1>11, <2>2, <2>5, <2>6 DEF Single, HeldOnce
<1>19. QED BY <1>9, <1>16, <1>17, <1>18

(* A step of groupChat is one of these. *)
LEMMA GroupChat_Copied ==
  ASSUME TypeOK, Stages, Addressed, Single, LoginsGrow, MembersOnce,
         NEW home, SubsHome(home), NEW c \in Conn,
         groupChat(c) \/ group_lock(c) \/ group_next(c) \/ group_query(c)
           \/ group_publish(c) \/ group_insert(c)
  PROVE  Single' /\ MailGoes
<1>1. CASE group_next(c) /\ pc'[c] = pc[c]
  <2>1. pc'[c] # "idle"
    BY <1>1 DEF group_next, At
  <2>2. ~Unlock(c) BY <2>1 DEF Unlock, Done, Goto, TypeOK
  <2>3. idvec[c] # <<>> BY <1>1, <2>2 DEF group_next
  <2>4. QED BY <1>1, <2>3, GroupGives_Copied
<1>2. CASE group_next(c) /\ pc'[c] # pc[c]
  <2>1. got' = got BY <1>2 DEF group_next
  <2>2. QED BY <1>2, <2>1, GroupOn_Copied
<1>3. QED BY <1>1, <1>2, GroupOn_Copied, GroupGives_Copied
(***************************************************************************)
(* The observer takes a message from the channel to the client of its user *)
(* or to the table.                                                        *)
(***************************************************************************)
LEMMA Observer_Copied ==
  ASSUME TypeOK, Stages, Addressed, Single, LoginsGrow, NEW s \in Server,
         handleRedisSubscribeMessage(s)
  PROVE  Single' /\ MailGoes
<1>1. /\ UNCHANGED <<dest, reqs, pc, js, idvec, vec>>
      /\ inbox[s] # <<>> /\ inbox'[s] = Tail(inbox[s])
      /\ \A r \in Server \ {s} : inbox'[r] = inbox[r]
  BY DEF handleRedisSubscribeMessage, TakeNotice, TypeOK, BusTypeOK, envVars,
         jobVars
<1>2. \A d \in Conn : SameWork(d) BY <1>1 DEF SameWork, SameJob
<1>3. HeldOnce BY DEF Single
<1>4. PICK q : q = inbox[s] OBVIOUS
<1>5. q \in Seq(Notice) /\ q # <<>> /\ IsInjective(q)
  BY <1>1, <1>3, <1>4 DEF TypeOK, BusTypeOK, HeldOnce, PushedOnce
<1>6. PICK n \in Notice : n = Head(q) BY <1>5, TailOnce
<1>7. /\ IsInjective(Tail(q)) /\ InSeq(n, q)
      /\ \A y : InSeq(y, Tail(q)) => InSeq(y, q) /\ y # n
  BY <1>5, <1>6, TailOnce
<1>8. PICK u \in User, m0 \in Msg :
        /\ u = n.channel /\ m0 = n.msg /\ n = [channel |-> u, msg |-> m0]
  BY <1>6 DEF Notice
<1>9. /\ Has("channel", s, m0, u) /\ ~Has("channel", s, m0, u)'
      /\ Fewer("channel", s)
  <2>1. \A m \in Msg, v \in User : PushedFor(s, m, v)' =>
          PushedFor(s, m, v) /\ [channel |-> v, msg |-> m] # n
    BY <1>1, <1>4, <1>7 DEF PushedFor
  <2>2. PushedFor(s, m0, u) BY <1>4, <1>7, <1>8 DEF PushedFor
  <2>3. QED BY <1>8, <2>1, <2>2 DEF Has, Fewer
<1>10. "channel" \in Kind /\ s \in Holder BY DEF Kind, Holder
<1>11. AskedOnce' /\ CarriedOnce' /\ ReadOnce'
  BY <1>1, <1>3 DEF HeldOnce, AskedOnce, For, CarriedOnce, ReadOnce
<1>12. PushedOnce' BY <1>1, <1>3, <1>4, <1>7 DEF HeldOnce, PushedOnce
<1>13. \A d \in Conn : /\ Fewer("request", d)
                       /\ Fewer("handler", d) /\ Fewer("answer", d)
  BY <1>2, FewerConn DEF SameWork
<1>14. \A r \in Server : Fewer("channel", r) BY <1>1, <1>9, FewerStores
<1>15. PICK d : d = userConnMap[s][u] OBVIOUS
<1>16. \/ /\ d \in Conn /\ u \in logins[d]
          /\ Push(d, <<m0>>) /\ UNCHANGED offline
       \/ StoreOffline(u, m0) /\ UNCHANGED got
  BY <1>4, <1>6, <1>8, <1>15 DEF handleRedisSubscribeMessage, TypeOK,
                                 Addressed, Entered
<1>17. CASE /\ d \in Conn /\ u \in logins[d]
            /\ Push(d, <<m0>>) /\ UNCHANGED offline
  <2>1. ASSUME NEW k \in Kind, NEW x \in Holder PROVE Fewer(k, x)
    BY <1>13, <1>14, <1>17, FewerStores, FewerAll
  <2>2. <<m0>> \in Seq(Msg) /\ IsInjective(<<m0>>) BY DEF IsInjective
  <2>3. \A m \in Msg : InSeq(m, <<m0>>) <=> m = m0 BY DEF InSeq
  <2>4. ASSUME NEW k \in Kind, NEW x \in Holder
        PROVE  KeepsBut(k, x, u, <<m0>>)
    <3>1. \A f \in Conn : /\ KeepsBut("request", f, u, <<m0>>)
                          /\ KeepsBut("handler", f, u, <<m0>>)
                          /\ KeepsBut("answer", f, u, <<m0>>)
      BY <1>2, KeepsConn DEF SameWork
    <3>2. ASSUME NEW m \in Msg, NEW v \in User, PushedFor(s, m, v),
                 v # u \/ m # m0
          PROVE  PushedFor(s, m, v)'
      <4>1. PICK y : y = [channel |-> v, msg |-> m] OBVIOUS
      <4>2. InSeq(y, q) BY <1>4, <3>2, <4>1 DEF PushedFor
      <4>3. y.channel = v /\ y.msg = m BY <4>1
      <4>4. y # n BY <1>8, <3>2, <4>3
      <4>5. InSeq(y, Tail(q)) BY <1>5, <1>6, <4>2, <4>4, TailKeeps
      <4>6. QED BY <1>1, <1>4, <4>1, <4>5 DEF PushedFor
    <3>3. KeepsBut("channel", s, u, <<m0>>)
      BY <2>3, <3>2 DEF KeepsBut, Has
    <3>4. QED BY <1>1, <1>17, <3>1, <3>3, KeepsStores, KeepsAll
  <2>5. OnePlace' /\ Matched' /\ MailGoes
    BY <1>1, <1>9, <1>10, <1>17, <2>1, <2>2, <2>3, <2>4, Deliver
  <2>6. StoredOnce' /\ ReadStored'
    BY <1>1, <1>3, <1>17 DEF HeldOnce, StoredOnce, ReadStored
  <2>7. QED BY <1>11, <1>12, <2>5, <2>6 DEF Single, HeldOnce
<1>18. CASE StoreOffline(u, m0) /\ UNCHANGED got
  <2>1. ~StoredFor(m0, u)
    <3>1. ~Has("table", NoUser, m0, u)
      <4>1. "table" \in Kind /\ NoUser \in Holder /\ "table" # "channel"
        BY DEF Kind, Holder
      <4>2. QED BY <1>9, <1>10, <4>1 DEF Single, OnePlace
    <3>2. QED BY <3>1 DEF Has
  <2>2. /\ StoredOnce' /\ ReadStored'
        /\ \A m \in Msg, v \in User :
             StoredFor(m, v)' => StoredFor(m, v) \/ (m = m0 /\ v = u)
    BY <1>1, <1>3, <1>18, <2>1, StoreOnce
  <2>3. \A m \in Msg, v \in User : Has("table", NoUser, m, v)' =>
          \/ Has("table", NoUser, m, v)
          \/ Has("channel", s, m, v) /\ ~Has("channel", s, m, v)'
    BY <1>9, <2>2 DEF Has
  <2>4. ASSUME NEW k \in Kind, NEW x \in Holder, <<k, x>> # <<"table", NoUser>>
        PROVE  Fewer(k, x)
    BY <1>13, <1>14, <2>4, FewerAll
  <2>5. OnePlace' /\ Matched' /\ MailGoes
    BY <1>1, <1>10, <1>18, <2>3, <2>4, HandOver
  <2>6. QED BY <1>11, <1>12, <2>2, <2>5 DEF Single, HeldOnce
<1>19. QED BY <1>16, <1>17, <1>18

(* A server that ends loses the messages its connections had. *)
LEMMA Stop_Copied ==
  ASSUME TypeOK, Stages, Addressed, Single, LoginsGrow,
         NEW s \in Server, Stop(s)
  PROVE  Single' /\ MailGoes
<1>1. ASSUME NEW d \in Conn
      PROVE  \/ SameWork(d)
             \/ /\ pc'[d] = "idle" /\ reqs'[d] = <<>>
                /\ idvec'[d] = <<>> /\ vec'[d] = <<>>
  BY DEF Stop, TypeOK, SameWork, SameJob
<1>2. /\ UNCHANGED <<dest, got, offline>>
      /\ inbox'[s] = <<>> /\ \A r \in Server \ {s} : inbox'[r] = inbox[r]
  BY DEF Stop, Detach, TypeOK, BusTypeOK, dbVars
<1>3. ASSUME NEW k \in Kind, NEW x \in Holder PROVE Fewer(k, x)
  <2>1. \A d \in Conn : /\ Fewer("request", d)
                        /\ Fewer("handler", d) /\ Fewer("answer", d)
    BY <1>1, FewerConn DEF SameWork, ChatSteps
  <2>2. Fewer("channel", s)
    BY <1>2 DEF Fewer, Has, PushedFor, InSeq
  <2>3. QED BY <1>2, <2>1, <2>2, FewerStores, FewerAll
<1>4. OnePlace' /\ Matched' /\ MailGoes BY <1>2, <1>3, StayPut
<1>5. HeldOnce BY DEF Single
<1>6. AskedOnce'
  BY <1>1, <1>5 DEF HeldOnce, AskedOnce, SameWork, For
<1>7. CarriedOnce' /\ ReadOnce'
  BY <1>1, <1>5 DEF HeldOnce, CarriedOnce, ReadOnce, SameWork, IsInjective
<1>8. PushedOnce' BY <1>2, <1>5 DEF HeldOnce, PushedOnce, IsInjective
<1>9. StoredOnce' BY <1>2, <1>5 DEF HeldOnce, StoredOnce
<1>10. ReadStored'
  BY <1>1, <1>2, <1>5 DEF HeldOnce, ReadStored, SameWork, SameJob
<1>11. QED BY <1>4, <1>6, <1>7, <1>8, <1>9, <1>10 DEF Single, HeldOnce

-----------------------------------------------------------------------------
(* The client.                                                             *)

(* A request is for these. *)
To(op, u) == CASE op = "oneChat" -> {u}
               [] op = "groupChat" -> Members(u)
               [] OTHER -> {}

(* m is now on its way to D, and nothing else has changed. *)
Posted(m, D) ==
  /\ got' = got
  /\ \A k \in Msg, u \in User :
       Waits(k, u)' <=> Waits(k, u) \/ (k = m /\ u \in D)

(* A new message is in the request that sends it and nowhere else. *)
LEMMA Send_Copied ==
  ASSUME TypeOK, Stages, Addressed, Single, LoginsGrow, NEW c \in Conn,
         NEW op \in {"login", "logout", "oneChat", "groupChat"},
         NEW u0 \in Channel, NEW m0 \in Msg \cup {NoMsg}, NEW pwd \in BOOLEAN,
         Send(c, op, u0, m0, pwd),
         \A m \in Msg : m # m0 => dest'[m] = dest[m],
         m0 \in Msg => dest[m0] = {}
  PROVE  Single' /\ Posted(m0, To(op, u0))
<1>1. PICK r \in Request :
        r = [op |-> op, user |-> u0, msg |-> m0, pwd |-> pwd]
  BY DEF Request
<1>2. PICK q : q = reqs[c] OBVIOUS
<1>3. PICK p : p = reqs'[c] OBVIOUS
<1>4. /\ q \in Seq(Request) /\ p = Append(q, r)
      /\ \A d \in Conn \ {c} : reqs'[d] = reqs[d]
      /\ UNCHANGED <<got, pc, js, idvec, vec, offline, inbox>>
  BY <1>1, <1>2, <1>3 DEF Send, TypeOK, jobVars, dbVars, busVars
<1>5. r.msg = m0 BY <1>1
<1>6. /\ DOMAIN p = DOMAIN q \cup {Len(q) + 1} /\ Len(q) + 1 \notin DOMAIN q
      /\ p[Len(q) + 1] = r /\ \A i \in DOMAIN q : p[i] = q[i]
  BY <1>4
<1>7. HeldOnce /\ OnePlace /\ Matched BY DEF Single
<1>8. ASSUME NEW m \in Msg, NEW u \in User
      PROVE  /\ AskedFor(c, m, u) <=> \E i \in DOMAIN q : For(q[i], m, u)
             /\ AskedFor(c, m, u)' <=> \E i \in DOMAIN p : For(p[i], m, u)
  BY <1>2, <1>3 DEF AskedFor, For
<1>9. ASSUME NEW m \in Msg, NEW u \in User, NEW k, NEW x,
             Has(k, x, m, u)', ~Has(k, x, m, u)
      PROVE  k = "request" /\ x = c /\ m = m0
  <2>1. k = "request" /\ x \in Conn /\ AskedFor(x, m, u)'
    BY <1>4, <1>9 DEF Has, CarriedFor, ReadFor, PushedFor, StoredFor
  <2>2. x = c BY <1>4, <1>9, <2>1 DEF Has, AskedFor, For
  <2>3. For(r, m, u)
    BY <1>6, <1>8, <1>9, <2>1, <2>2 DEF Has
  <2>4. QED BY <1>5, <2>1, <2>2, <2>3 DEF For
<1>10. ASSUME NEW u \in User, NEW k, NEW x, m0 \in Msg
       PROVE  ~Has(k, x, m0, u)
  BY <1>10, HasAddressee
<1>11. OnePlace'
  <2>1. ASSUME NEW m \in Msg, NEW u \in User, NEW k \in Kind, NEW l \in Kind,
               NEW x \in Holder, NEW y \in Holder,
               Has(k, x, m, u)', Has(l, y, m, u)'
        PROVE  k = l /\ x = y
    <3>1. CASE m = m0 BY <1>9, <1>10, <2>1, <3>1
    <3>2. CASE m # m0
      <4>1. Has(k, x, m, u) /\ Has(l, y, m, u) BY <1>9, <2>1, <3>2
      <4>2. QED BY <1>7, <4>1 DEF OnePlace
    <3>3. QED BY <3>1, <3>2
  <2>2. QED BY <2>1 DEF OnePlace
<1>12. AskedOnce'
  <2>1. ASSUME NEW m \in Msg, NEW u \in User,
               NEW i \in DOMAIN p, NEW j \in DOMAIN p,
               For(p[i], m, u), For(p[j], m, u)
        PROVE  i = j
    <3>1. CASE m = m0
      <4>1. ~AskedFor(c, m, u) BY <1>10, <3>1 DEF Has
      <4>2. i \notin DOMAIN q /\ j \notin DOMAIN q
        BY <1>6, <1>8, <2>1, <4>1
      <4>3. QED BY <1>6, <4>2
    <3>2. CASE m # m0
      <4>1. ~For(r, m, u) BY <1>5, <3>2 DEF For
      <4>2. i \in DOMAIN q /\ j \in DOMAIN q BY <1>6, <2>1, <4>1
      <4>3. For(q[i], m, u) /\ For(q[j], m, u) BY <1>6, <2>1, <4>2
      <4>4. QED BY <1>2, <1>7, <4>2, <4>3 DEF HeldOnce, AskedOnce
    <3>3. QED BY <3>1, <3>2
  <2>2. ASSUME NEW d \in Conn \ {c}, NEW m \in Msg, NEW u \in User,
               NEW i \in DOMAIN reqs'[d], NEW j \in DOMAIN reqs'[d],
               For(reqs'[d][i], m, u), For(reqs'[d][j], m, u)
        PROVE  i = j
    BY <1>4, <1>7, <2>2 DEF HeldOnce, AskedOnce
  <2>3. QED BY <1>3, <2>1, <2>2 DEF AskedOnce, For
<1>13. CarriedOnce' /\ PushedOnce' /\ StoredOnce' /\ ReadOnce' /\ ReadStored'
  BY <1>4, <1>7 DEF HeldOnce, CarriedOnce, PushedOnce, StoredOnce, ReadOnce,
                    ReadStored
<1>14. ASSUME NEW m \in Msg
       PROVE  Matches(Received(m)', dest'[m] \ Waiting(m)', logins')
  <2>1. Received(m)' = Received(m) BY <1>4 DEF Received, Copies
  <2>2. PICK C : C = Received(m) OBVIOUS
  <2>3. PICK W : W = Waiting(m) OBVIOUS
  <2>4. PICK W2 : W2 = Waiting(m)' OBVIOUS
  <2> PICK T : T = dest[m] \ W OBVIOUS
  <2> PICK T2 : T2 = dest'[m] \ W2 OBVIOUS
  <2> PICK L : L = logins OBVIOUS
  <2> PICK L2 : L2 = logins' OBVIOUS
  <2>5. /\ Matches(C, T, L) /\ C \in SUBSET (Conn \X Nat)
        /\ \A d \in Conn : L[d] \subseteq L2[d]
    BY <1>7, <2>2, <2>3, ReceivedType DEF Matched, LoginsGrow
  <2>6. m = m0 => T \subseteq T2 OBVIOUS
  <2>7. ASSUME m # m0 PROVE T \subseteq T2
    <3>1. W2 \subseteq W
      <4>1. ASSUME NEW u \in W2 PROVE u \in W
        <5>1. PICK k \in Kind, x \in Holder : Has(k, x, m, u)' /\ u \in User
          BY <2>4, <4>1 DEF Waiting
        <5>2. Has(k, x, m, u) BY <1>9, <2>7, <5>1
        <5>3. QED BY <2>3, <5>1, <5>2 DEF Waiting
      <4>2. QED BY <4>1
    <3>2. QED BY <2>7, <3>1
  <2>8. T \subseteq T2 BY <2>6, <2>7
  <2>9. Matches(C, T2, L2) BY <2>5, <2>8, NoMore
  <2>10. QED BY <2>1, <2>2, <2>4, <2>9
<1>15. ASSUME NEW m \in Msg, NEW u \in User, NEW k, NEW x, Has(k, x, m, u)
       PROVE  Has(k, x, m, u)'
  <2>1. CASE k = "request" /\ x = c
    <3>1. \A i \in DOMAIN q : i \in DOMAIN p /\ p[i] = q[i] BY <1>6
    <3>2. AskedFor(c, m, u)' BY <1>8, <1>15, <2>1, <3>1 DEF Has
    <3>3. QED BY <2>1, <3>2 DEF Has
  <2>2. CASE k = "request" /\ x # c
    BY <1>4, <1>15, <2>2 DEF Has, AskedFor, For
  <2>3. CASE k # "request"
    BY <1>4, <1>15, <2>3 DEF Has, CarriedFor, ReadFor, PushedFor, StoredFor
  <2>4. QED BY <2>1, <2>2, <2>3
<1>16. \A u \in User : For(r, m0, u) <=> u \in To(op, u0)
  BY <1>1 DEF For, To
<1>17. ASSUME NEW m \in Msg, NEW u \in User
       PROVE  Waits(m, u)' <=> Waits(m, u) \/ (m = m0 /\ u \in To(op, u0))
  <2>1. ASSUME Waits(m, u)', ~Waits(m, u)
        PROVE  m = m0 /\ u \in To(op, u0)
    <3>1. PICK k \in Kind, x \in Holder : Has(k, x, m, u)'
      BY <2>1, WaitsSomewhere
    <3>2. ~Has(k, x, m, u) BY <2>1, WaitsSomewhere
    <3>3. k = "request" /\ x = c /\ m = m0 BY <1>9, <3>1, <3>2
    <3>4. For(r, m, u) BY <1>6, <1>8, <3>1, <3>2, <3>3 DEF Has
    <3>5. QED BY <1>16, <3>3, <3>4
  <2>2. ASSUME Waits(m, u) PROVE Waits(m, u)'
    <3>1. PICK k \in Kind, x \in Holder : Has(k, x, m, u)
      BY <2>2, WaitsSomewhere
    <3>2. Has(k, x, m, u)' BY <1>15, <3>1
    <3>3. QED BY <3>2, WaitsSomewhere
  <2>3. ASSUME m = m0, u \in To(op, u0) PROVE Waits(m, u)'
    <3>1. For(r, m, u) BY <1>16, <2>3
    <3>2. AskedFor(c, m, u)' BY <1>6, <1>8, <3>1
    <3>3. QED BY <3>2 DEF Waits
  <2>4. QED BY <2>1, <2>2, <2>3
<1>18. Posted(m0, To(op, u0)) BY <1>4, <1>17 DEF Posted
<1>19. QED
  BY <1>11, <1>12, <1>13, <1>14, <1>18 DEF Single, HeldOnce, Matched

(* A client sends a message once, to its addressees. *)
LEMMA Client_Copied ==
  ASSUME TypeOK, Stages, Addressed, Single, LoginsGrow,
         NEW c \in Conn, ClientStep(c)
  PROVE  /\ Single'
         /\ \/ dest' = dest /\ MailGoes
            \/ \E m \in Msg, D \in SUBSET User :
                 /\ dest[m] = {} /\ dest' = [dest EXCEPT ![m] = D]
                 /\ Posted(m, D)
<1>1. CASE Connect(c) \/ ClientGone(c)
  <2>1. dest' = dest BY <1>1 DEF Connect, ClientGone
  <2>2. QED BY <1>1, <2>1, Unmoved DEF Connect, ClientGone, dbVars, busVars
<1>2. ASSUME NEW op \in {"login", "logout"}, NEW u \in Channel,
             NEW pwd \in BOOLEAN, Send(c, op, u, NoMsg, pwd), dest' = dest
      PROVE  Single' /\ MailGoes
  <2>1. Single' /\ Posted(NoMsg, To(op, u))
    BY <1>2, ServiceAssumption, Send_Copied
  <2>2. To(op, u) = {} BY DEF To
  <2>3. QED BY <2>1, <2>2 DEF Posted, MailGoes, NoneNew
<1>3. CASE ClientLogout(c)
  <2>1. me[c] \in Channel /\ Send(c, "logout", me[c], NoMsg, FALSE)
        /\ dest' = dest
    BY <1>3 DEF ClientLogout, TypeOK
  <2>2. QED BY <1>2, <2>1
<1>4. ASSUME NEW u \in Uses[c], NEW pwd \in Passwords, ClientLogin(c, u, pwd)
      PROVE  Single' /\ dest' = dest /\ MailGoes
  <2>1. u \in Channel /\ pwd \in BOOLEAN BY ServiceAssumption DEF Channel
  <2>2. Send(c, "login", u, NoMsg, pwd) /\ dest' = dest
    BY <1>4 DEF ClientLogin
  <2>3. QED BY <1>2, <2>1, <2>2
<1>5. ASSUME NEW op \in {"oneChat", "groupChat"}, NEW u \in User, NEW m \in Msg,
             Send(c, op, u, m, FALSE), dest[m] = {},
             dest' = [dest EXCEPT ![m] = To(op, u)]
      PROVE  Single' /\ Posted(m, To(op, u))
  <2>1. u \in Channel BY DEF Channel
  <2>2. /\ \A k \in Msg : k # m => dest'[k] = dest[k]
        /\ dest'[m] = To(op, u)
    BY <1>5 DEF TypeOK
  <2>3. QED BY <1>5, <2>1, <2>2, Send_Copied
<1>6. ASSUME NEW u \in User, NEW m \in Msg, ClientChat(c, u, m)
      PROVE  /\ Single'
             /\ \E D \in SUBSET User :
                  /\ dest[m] = {} /\ dest' = [dest EXCEPT ![m] = D]
                  /\ Posted(m, D)
  <2>1. To("oneChat", u) = {u} BY DEF To
  <2>2. /\ Send(c, "oneChat", u, m, FALSE) /\ dest[m] = {}
        /\ dest' = [dest EXCEPT ![m] = {u}]
    BY <1>6 DEF ClientChat
  <2>3. Single' /\ Posted(m, {u}) BY <1>5, <2>1, <2>2
  <2>4. QED BY <2>2, <2>3
<1>7. ASSUME NEW m \in Msg, ClientGroupChat(c, m)
      PROVE  /\ Single'
             /\ \E D \in SUBSET User :
                  /\ dest[m] = {} /\ dest' = [dest EXCEPT ![m] = D]
                  /\ Posted(m, D)
  <2>1. PICK u \in User : u = me[c]
    BY <1>7 DEF ClientGroupChat, Stages, Shown
  <2>2. PICK D : D = Members(u) OBVIOUS
  <2>3. To("groupChat", u) = D BY <2>2 DEF To
  <2>4. D \in SUBSET User
    <3>1. PICK q \in Seq(User) : q = MembersExcept[u] BY ServiceAssumption
    <3>2. \A i \in DOMAIN q : q[i] \in User BY <3>1
    <3>3. QED BY <2>2, <3>1, <3>2 DEF Members
  <2>5. /\ Send(c, "groupChat", u, m, FALSE) /\ dest[m] = {}
        /\ dest' = [dest EXCEPT ![m] = D]
    BY <1>7, <2>1, <2>2 DEF ClientGroupChat
  <2>6. Single' /\ Posted(m, D) BY <1>5, <2>3, <2>5
  <2>7. QED BY <2>4, <2>5, <2>6
<1>8. QED BY <1>1, <1>2, <1>3, <1>4, <1>6, <1>7 DEF ClientStep
-----------------------------------------------------------------------------
(* Single holds.                                                           *)

(* No message is anywhere at the start. *)
LEMMA InitSingle == Init => TryOnce /\ Single /\ Mailbox!Init
<1> SUFFICES ASSUME Init PROVE TryOnce /\ Single /\ Mailbox!Init OBVIOUS
<1>1. TypeOK /\ Stages /\ Addressed BY InitType, InitAddressed
<1>2. \A m \in Msg : dest[m] = {} BY DEF Init
<1>3. \A m \in Msg, u \in User : \A k, x : ~Has(k, x, m, u)
  BY <1>1, <1>2, HasAddressee
<1>4. OnePlace BY <1>3 DEF OnePlace
<1>5. HeldOnce
  BY DEF Init, BusInit, HeldOnce, AskedOnce, CarriedOnce, PushedOnce,
         StoredOnce, ReadOnce, ReadStored, IsInjective
<1>6. ASSUME NEW m \in Msg
      PROVE  Matches(Received(m), dest[m] \ Waiting(m), logins)
  <2>1. PICK C : C = Received(m) OBVIOUS
  <2>2. PICK T : T = dest[m] \ Waiting(m) OBVIOUS
  <2>3. C = {} BY <2>1 DEF Init, Received, Copies
  <2>4. PICK f : f = [x \in C |-> x] OBVIOUS
  <2>5. f \in [C -> T] BY <2>3, <2>4
  <2>6. QED BY <2>1, <2>2, <2>3, <2>5 DEF Matches
<1>7. TryOnce
  BY DEF Init, TryOnce, LogsIn, Sent, Runs, LoginSteps
<1>8. Mailbox!Init
  <2>1. \A m \in Msg, u \in User : ~Waits(m, u) BY <1>3, WaitsSomewhere
  <2>2. Boxes = [u \in User |-> {}] BY <2>1 DEF Boxes
  <2>3. QED BY <2>2 DEF Init, Mailbox!Init
<1>9. QED BY <1>4, <1>5, <1>6, <1>7, <1>8 DEF Single, Matched

-----------------------------------------------------------------------------
(* Every step is one of Mail.                                              *)

MailStep == [Mailbox!Next]_(Mailbox!vars)

(* Mail counts as everybody does. *)
LEMMA MailCardinality == \A S : Mailbox!Cardinality(S) = Cardinality(S)
BY DEF Mailbox!Cardinality, Cardinality

(* A list without repetition is among those Mail hands over. *)
LEMMA Listed ==
  ASSUME NEW T, NEW ms \in Seq(T), IsInjective(ms), NEW S,
         \A m \in T : InSeq(m, ms) => m \in S
  PROVE  ms \in Mailbox!SetToAllKPermutations(S)
<1>1. PICK n \in Nat : n = Len(ms) OBVIOUS
<1>2. DOMAIN ms = 1..n /\ \A i \in 1..n : ms[i] \in T BY <1>1
<1>3. PICK R : R = {ms[i] : i \in 1..n} OBVIOUS
<1>4. R \in SUBSET S BY <1>2, <1>3 DEF InSeq
<1>5. ms \in [1..n -> R] BY <1>2, <1>3
<1>6. ms \in Bijection(1..n, R)
  BY <1>2, <1>3, <1>5 DEF Bijection, Injection, Surjection, IsInjective
<1>7. Cardinality(R) = n BY <1>6, FS_CountingElements DEF ExistsBijection
<1>8. Mailbox!Cardinality(R) = n BY <1>7, MailCardinality
<1>9. \A i, j \in 1..n : i # j => ms[i] # ms[j] BY <1>2 DEF IsInjective
<1>10. ms \in Mailbox!SetToSeqs(R)
  BY <1>5, <1>8, <1>9 DEF Mailbox!SetToSeqs
<1>11. QED BY <1>4, <1>10 DEF Mailbox!SetToAllKPermutations

(* Messages are lost, or handed over. *)
LEMMA MailGoesOn ==
  ASSUME MailGoes, UNCHANGED <<dest, logins>> PROVE MailStep
<1>1. CASE NoneNew
  <2>1. PICK lost : lost = [u \in User |-> {m \in Msg : ~Waits(m, u)'}]
    OBVIOUS
  <2>2. lost \in [User -> SUBSET Msg] BY <2>1
  <2>3. Boxes' = [u \in User |-> Boxes[u] \ lost[u]]
    BY <1>1, <2>1 DEF NoneNew, Boxes
  <2>4. Mailbox!Lose BY <1>1, <2>2, <2>3 DEF Mailbox!Lose, NoneNew
  <2>5. QED BY <2>4 DEF MailStep, Mailbox!Next
<1>2. ASSUME NEW c \in Conn, NEW u \in User, NEW ms \in Seq(Msg),
             Handed(c, u, ms)
      PROVE  MailStep
  <2>1. \A m \in Msg : InSeq(m, ms) => m \in Boxes[u]
    BY <1>2 DEF Handed, Boxes
  <2>2. ms \in Mailbox!SetToAllKPermutations(Boxes[u])
    BY <1>2, <2>1, Listed DEF Handed
  <2>3. \A m \in Msg : m \in Mailbox!ToSet(ms) <=> InSeq(m, ms)
    BY DEF Mailbox!ToSet, InSeq
  <2>4. Boxes' = [Boxes EXCEPT ![u] = @ \ Mailbox!ToSet(ms)]
    <3>1. ASSUME NEW v \in User
          PROVE  {m \in Msg : Waits(m, v)'} =
                   IF v = u THEN {m \in Msg : Waits(m, v)} \ Mailbox!ToSet(ms)
                            ELSE {m \in Msg : Waits(m, v)}
      BY <1>2, <2>3 DEF Handed
    <3>2. QED BY <3>1 DEF Boxes
  <2>5. Mailbox!Deliver(c, u)
    BY <1>2, <2>2, <2>4 DEF Mailbox!Deliver, Handed
  <2>6. QED BY <2>5 DEF MailStep, Mailbox!Next
<1>3. QED BY <1>1, <1>2 DEF MailGoes

(* A password is entered, *)
LEMMA LoginMail ==
  ASSUME TypeOK, Stages, NEW c \in Conn, login(c)
  PROVE  MailStep
<1>1. \A d \in Conn \ {c} : SameWork(d)
  BY WorkOthers DEF WorkerStep, LoginStep
<1>2. PICK u \in User : u = js[c].user
  BY DEF login, At, Stages, UserKnown, LoginSteps
<1>3. /\ UNCHANGED <<dest, got, reqs, idvec, vec, offline, inbox>>
      /\ pc[c] = "login" /\ pc'[c] \in {"login_insert", "idle"}
      /\ \/ logins' = logins
         \/ logins' = [logins EXCEPT ![c] = @ \cup {u}]
  BY <1>2 DEF login, Reply, Done, At, Goto, TypeOK, envVars, dbVars, busVars
<1>4. ASSUME NEW m \in Msg, NEW v \in User PROVE Waits(m, v)' <=> Waits(m, v)
  <2>1. \A d \in Conn : /\ AskedFor(d, m, v)' <=> AskedFor(d, m, v)
                        /\ CarriedFor(d, m, v)' <=> CarriedFor(d, m, v)
                        /\ ReadFor(d, m, v)' <=> ReadFor(d, m, v)
    BY <1>1, <1>3 DEF AskedFor, For, CarriedFor, ReadFor, SameWork, SameJob,
                      OneChatSteps, GroupSteps, MemberSteps
  <2>2. \A s \in Server : PushedFor(s, m, v)' <=> PushedFor(s, m, v)
    BY <1>3 DEF PushedFor
  <2>3. StoredFor(m, v)' <=> StoredFor(m, v) BY <1>3 DEF StoredFor
  <2>4. QED BY <2>1, <2>2, <2>3 DEF Waits
<1>5. Boxes' = Boxes BY <1>4 DEF Boxes
<1>6. CASE logins' = logins
  BY <1>3, <1>5, <1>6 DEF MailStep, Mailbox!vars
<1>7. CASE logins' = [logins EXCEPT ![c] = @ \cup {u}]
  BY <1>3, <1>5, <1>7 DEF MailStep, Mailbox!Next, Mailbox!Enter
<1>8. QED BY <1>3, <1>6, <1>7

(* or a message sent. *)
LEMMA SendMail ==
  ASSUME NEW m \in Msg, NEW D \in SUBSET User, dest[m] = {},
         dest' = [dest EXCEPT ![m] = D], Posted(m, D), logins' = logins
  PROVE  MailStep
<1>1. Boxes' = [u \in User |-> IF u \in D THEN Boxes[u] \cup {m} ELSE Boxes[u]]
  <2>1. ASSUME NEW u \in User
        PROVE  {k \in Msg : Waits(k, u)'} =
                 IF u \in D THEN {k \in Msg : Waits(k, u)} \cup {m}
                            ELSE {k \in Msg : Waits(k, u)}
    BY DEF Posted
  <2>2. QED BY <2>1 DEF Boxes
<1>2. Mailbox!Send(m) BY <1>1 DEF Mailbox!Send, Posted
<1>3. QED BY <1>2 DEF MailStep, Mailbox!Next

(* No other step enters a password, and none but a client's sends. *)
LEMMA LoginsKept ==
  /\ \A c \in Conn : ClientStep(c) => logins' = logins
  /\ \A c \in Conn : WorkerStep(c) /\ ~login(c) => UNCHANGED <<dest, logins>>
  /\ \A s \in Server : ServerStep(s) => UNCHANGED <<dest, logins>>
<1>1. ASSUME NEW c \in Conn, ClientStep(c) PROVE logins' = logins
  BY <1>1 DEF ClientStep, Connect, ClientLogout, ClientGone, ClientLogin,
              ClientChat, ClientGroupChat, Send
<1>2. ASSUME NEW c \in Conn, WorkerStep(c), ~login(c)
      PROVE  UNCHANGED <<dest, logins>>
  <2>1. CASE onMessage(c) BY <2>1 DEF onMessage
  <2>2. CASE LoginStep(c)
    BY <1>2, <2>2 DEF LoginStep, login_insert, login_subscribe, login_inline,
                      login_query, login_remove, login_reply, envVars
  <2>3. CASE LeaveStep(c)
    BY <2>3 DEF LeaveStep, logout, logout_unsubscribe, logout_offline,
                ClientCloseException, close_unsubscribe, close_offline, envVars
  <2>4. CASE oneChat(c) \/ oneChat_query(c) \/ oneChat_publish(c)
             \/ oneChat_insert(c)
    BY <2>4 DEF oneChat, oneChat_query, oneChat_publish, oneChat_insert, envVars
  <2>5. CASE groupChat(c) \/ group_lock(c) \/ group_next(c) \/ group_query(c)
             \/ group_publish(c) \/ group_insert(c)
    BY <2>5 DEF groupChat, group_lock, group_next, group_query, group_publish,
                group_insert, envVars
  <2>6. QED BY <1>2, <2>1, <2>2, <2>3, <2>4, <2>5 DEF WorkerStep, ChatStep
<1>3. ASSUME NEW s \in Server, ServerStep(s) PROVE UNCHANGED <<dest, logins>>
  BY <1>3 DEF ServerStep, handleRedisSubscribeMessage, RedisStep, resetHandle,
              exit, crash, Stop, restart, envVars
<1>4. QED BY <1>1, <1>2, <1>3

(* No step takes one back. *)
LEMMA LoginsGrowOn ==
  ASSUME TypeOK, Stages, [Next]_vars PROVE LoginsGrow
<1>1. ASSUME NEW c \in Conn, login(c) PROVE LoginsGrow
  <2>1. PICK u : \/ logins' = logins
                 \/ logins' = [logins EXCEPT ![c] = @ \cup {u}]
    BY <1>1 DEF login
  <2>2. QED BY <2>1 DEF LoginsGrow, TypeOK
<1>2. ASSUME NEW c \in Conn, ClientStep(c) \/ WorkerStep(c) PROVE LoginsGrow
  BY <1>1, <1>2, LoginsKept DEF LoginsGrow
<1>3. ASSUME NEW s \in Server, ServerStep(s) PROVE LoginsGrow
  BY <1>3, LoginsKept DEF LoginsGrow
<1>4. CASE UNCHANGED vars BY <1>4 DEF LoginsGrow, vars
<1>5. QED BY <1>2, <1>3, <1>4 DEF Next

(* Every step keeps a message in one place, and is one of Mail. *)
LEMMA SingleStep ==
  ASSUME MembersOnce, TypeOK, Stages, Addressed, TryOnce, Single,
         NEW home, SubsHome(home), [Next]_vars
  PROVE  Single' /\ MailStep
<1> LoginsGrow BY LoginsGrowOn
<1>1. ASSUME NEW c \in Conn, WorkerStep(c) PROVE Single' /\ MailStep
  <2>1. Single' /\ MailGoes
    BY <1>1, Read_Copied, Session_Copied, Query_Copied, Remove_Copied,
       Reply_Copied, OneChat_Copied, GroupChat_Copied
       DEF WorkerStep, LoginStep, ChatStep
  <2>2. CASE login(c) BY <2>1, <2>2, LoginMail
  <2>3. CASE ~login(c) BY <1>1, <2>1, <2>3, LoginsKept, MailGoesOn
  <2>4. QED BY <2>2, <2>3
<1>2. ASSUME NEW s \in Server, ServerStep(s) PROVE Single' /\ MailStep
  <2>1. ASSUME RedisStep(s) \/ resetHandle(s) \/ restart(s)
        PROVE  Single' /\ MailGoes
    BY <2>1, Unmoved DEF RedisStep, RedisExecute, resetHandle, restart, envVars,
                         dbVars, busVars
  <2>2. ASSUME exit(s) \/ crash(s) PROVE Single' /\ MailGoes
    BY <2>2, Stop_Copied DEF exit, crash
  <2>3. Single' /\ MailGoes
    BY <1>2, <2>1, <2>2, Observer_Copied DEF ServerStep
  <2>4. QED BY <1>2, <2>3, LoginsKept, MailGoesOn
<1>3. CASE UNCHANGED vars
  <2>1. Single' /\ MailGoes
    BY <1>3, Unmoved DEF vars, envVars, dbVars, busVars
  <2>2. QED BY <1>3, <2>1, MailGoesOn DEF vars, envVars
<1>4. ASSUME NEW c \in Conn, ClientStep(c) PROVE Single' /\ MailStep
  BY <1>4, Client_Copied, LoginsKept, MailGoesOn, SendMail
<1>5. QED BY <1>1, <1>2, <1>3, <1>4 DEF Next

(* No addressee then has two copies of a message. *)
LEMMA SingleOnce ==
  ASSUME TypeOK, Single PROVE AtMostOnce
<1>1. ASSUME NEW m \in Msg PROVE Matches(Received(m), dest[m], logins)
  <2>1. PICK C \in SUBSET (Conn \X Nat) : C = Received(m) BY ReceivedType
  <2>2. PICK T : T = dest[m] \ Waiting(m) OBVIOUS
  <2>3. Matches(C, T, logins) /\ T \subseteq dest[m]
    BY <2>1, <2>2 DEF Single, Matched
  <2>4. Matches(C, dest[m], logins) BY <2>3, NoMore
  <2>5. QED BY <2>1, <2>4
<1>2. QED BY <1>1 DEF AtMostOnce, Matches

-----------------------------------------------------------------------------
(* Who is subscribed.                                                      *)

(* A command that is written goes behind those that are there. *)
LEMMA WriteHome ==
  ASSUME TypeOK, NEW home, SubsHome(home), NEW s \in Server, NEW u \in Channel,
         NEW op \in {"SUBSCRIBE", "UNSUBSCRIBE"}, WriteCommand(s, op, u),
         op = "SUBSCRIBE" /\ u \in User => s = home[u]
  PROVE  SubsHome(home)'
<1>1. PICK q : q = cmds[s] OBVIOUS
<1>2. PICK x \in Command : x = [op |-> op, channel |-> u] BY DEF Command
<1>3. /\ q \in Seq(Command) /\ cmds'[s] = Append(q, x) /\ subs' = subs
      /\ \A r \in Server \ {s} : cmds'[r] = cmds[r]
  BY <1>1, <1>2 DEF WriteCommand, TypeOK, BusTypeOK
<1>4. x.op = op /\ x.channel = u BY <1>2
<1>5. ASSUME NEW v \in User, NEW i \in DOMAIN cmds'[s],
             cmds'[s][i].op = "SUBSCRIBE", cmds'[s][i].channel = v
      PROVE  s = home[v]
  <2>1. \/ cmds'[s][i] = x
        \/ i \in DOMAIN q /\ cmds'[s][i] = q[i]
    BY <1>3, <1>5, AppendElement
  <2>2. CASE cmds'[s][i] = x BY <1>4, <1>5, <2>2
  <2>3. CASE i \in DOMAIN q /\ cmds'[s][i] = q[i]
    BY <1>1, <1>5, <2>3 DEF SubsHome
  <2>4. QED BY <2>1, <2>2, <2>3
<1>6. QED BY <1>3, <1>5 DEF SubsHome

(* Redis executes the first of them. *)
LEMMA ExecuteHome ==
  ASSUME TypeOK, NEW home, SubsHome(home), NEW s \in Server, RedisExecute(s)
  PROVE  SubsHome(home)'
<1>1. PICK q : q = cmds[s] OBVIOUS
<1>2. PICK x : x = Head(q) OBVIOUS
<1>3. /\ q \in Seq(Command) /\ q # <<>> /\ cmds'[s] = Tail(q)
      /\ \A r \in Server \ {s} : cmds'[r] = cmds[r]
      /\ \A u \in User : subs'[u] \subseteq
           IF x.op = "SUBSCRIBE" /\ x.channel = u
           THEN subs[u] \cup {s} ELSE subs[u]
  BY <1>1, <1>2 DEF RedisExecute, TypeOK, BusTypeOK, Channel
<1>4. x = q[1] /\ 1 \in DOMAIN q BY <1>2, <1>3
<1>5. ASSUME NEW u \in User, x.op = "SUBSCRIBE", x.channel = u
      PROVE  s = home[u]
  BY <1>1, <1>4, <1>5 DEF SubsHome
<1>6. \A i \in DOMAIN Tail(q) : i + 1 \in DOMAIN q /\ Tail(q)[i] = q[i + 1]
  BY <1>3, TailElement
<1>7. ASSUME NEW u \in User, NEW i \in DOMAIN cmds'[s],
             cmds'[s][i].op = "SUBSCRIBE", cmds'[s][i].channel = u
      PROVE  s = home[u]
  BY <1>1, <1>3, <1>6, <1>7 DEF SubsHome
<1>8. QED BY <1>3, <1>5, <1>7 DEF SubsHome

(* A server subscribes to those who log in at its own connections. *)
LEMMA SubsHomeStep ==
  ASSUME TypeOK, Stages, Ordered, NEW home, Sticky(home), SubsHome(home),
         [Next]_vars
  PROVE  SubsHome(home)'
<1>1. CASE UNCHANGED <<cmds, subs>> BY <1>1 DEF SubsHome
<1>2. ASSUME NEW c \in Conn, LoginStep(c) PROVE SubsHome(home)'
  <2>1. CASE login_subscribe(c)
    <3>1. PICK u \in User : u = js[c].user
      BY <2>1 DEF login_subscribe, At, Stages, UserKnown, LoginSteps
    <3>2. u \in Uses[c]
      BY <2>1, <3>1 DEF login_subscribe, At, Ordered, InOrder, OwnUser, LogsIn,
                        Runs, LoginSteps
    <3>3. at[c] \in Server
      BY <2>1 DEF login_subscribe, At, Alive, Stages, Placed
    <3>4. at[c] = home[u] BY <3>2, <3>3, ServiceAssumption DEF Sticky
    <3>5. WriteCommand(at[c], "SUBSCRIBE", u)
      BY <2>1, <3>1 DEF login_subscribe, subscribe
    <3>6. QED BY <3>3, <3>4, <3>5, WriteHome DEF Channel
  <2>2. CASE ~login_subscribe(c)
    BY <1>1, <1>2, <2>2 DEF LoginStep, login, login_insert, login_inline,
       login_query, login_remove, login_reply, busVars
  <2>3. QED BY <2>1, <2>2
<1>3. ASSUME NEW c \in Conn, LeaveStep(c) PROVE SubsHome(home)'
  <2>1. CASE logout_unsubscribe(c) \/ close_unsubscribe(c)
    <3>1. at[c] \in Server
      BY <2>1 DEF logout_unsubscribe, close_unsubscribe, At, Alive, Stages,
                  Placed
    <3>2. PICK u \in Channel : u = js[c].user
      BY DEF TypeOK, Request
    <3>3. WriteCommand(at[c], "UNSUBSCRIBE", u)
      BY <2>1, <3>2 DEF logout_unsubscribe, close_unsubscribe, unsubscribe
    <3>4. QED BY <3>1, <3>3, WriteHome
  <2>2. CASE ~(logout_unsubscribe(c) \/ close_unsubscribe(c))
    BY <1>1, <1>3, <2>2 DEF LeaveStep, logout, logout_offline,
       ClientCloseException, close_offline, busVars
  <2>3. QED BY <2>1, <2>2
<1>4. ASSUME NEW s \in Server, ServerStep(s) PROVE SubsHome(home)'
  <2>1. CASE RedisStep(s) BY <2>1, ExecuteHome DEF RedisStep
  <2>2. CASE exit(s) \/ crash(s)
    <3>1. Detach(s) BY <2>2 DEF exit, crash, Stop
    <3>2. /\ \A u \in User : subs'[u] \subseteq subs[u]
          /\ cmds'[s] = <<>> /\ \A r \in Server \ {s} : cmds'[r] = cmds[r]
      BY <3>1 DEF Detach, TypeOK, BusTypeOK, Channel
    <3>3. QED BY <3>2 DEF SubsHome
  <2>3. CASE handleRedisSubscribeMessage(s) \/ resetHandle(s) \/ restart(s)
    BY <1>1, <2>3 DEF handleRedisSubscribeMessage, TakeNotice, resetHandle,
                      restart, busVars
  <2>4. QED BY <1>4, <2>1, <2>2, <2>3 DEF ServerStep
<1>5. ASSUME NEW c \in Conn, ClientStep(c) PROVE SubsHome(home)'
  BY <1>1, <1>5 DEF ClientStep, Connect, ClientLogout, ClientGone, ClientLogin,
                    ClientChat, ClientGroupChat, Send, busVars
<1>6. ASSUME NEW c \in Conn, onMessage(c) \/ ChatStep(c)
      PROVE  SubsHome(home)'
  BY <1>1, <1>6, ChatSame DEF onMessage, busVars
<1>7. CASE UNCHANGED vars BY <1>1, <1>7 DEF vars, busVars
<1>8. QED BY <1>2, <1>3, <1>4, <1>5, <1>6, <1>7 DEF Next, WorkerStep

(* What the two theorems below rest on *)
LEMMA SinglePreserved ==
  ASSUME Exclusive, MembersOnce, NEW home
  PROVE  /\ Init => Ordered /\ Addressed /\ TryOnce /\ Single /\ SubsHome(home)
         /\ TypeOK /\ TypeOK' /\ Stages /\ Ordered /\ Addressed /\ TryOnce
            /\ Single /\ SubsHome(home) /\ Sticky(home) /\ [Next]_vars
            => /\ Ordered' /\ Addressed' /\ TryOnce' /\ Single'
               /\ SubsHome(home)' /\ MailStep
<1>1. Init => SubsHome(home)
  BY DEF Init, BusInit, SubsHome, Channel
<1>2. QED
  BY <1>1, InitOrdered, InitAddressed, InitSingle, OrderedStep, AddressedStep,
     TryOnceStep, SingleStep, SubsHomeStep

(***************************************************************************)
(* However many servers, users, clients and messages there are, requests   *)
(* share a read and servers crash, are stopped or come back: if no person  *)
(* uses two clients at a time, the clients of a user go to one server and  *)
(* no group lists a member twice, the cluster implements Mail.             *)
(***************************************************************************)
THEOREM MailKeptHolds ==
  ASSUME Exclusive, MembersOnce, NEW home
  PROVE  Spec /\ []Sticky(home) => MailKept
<1>1. Init => Mailbox!Init BY InitSingle
<1>2. MailStep => [Mailbox!Next]_(Mailbox!vars) BY DEF MailStep
<1>3. QED
  BY <1>1, <1>2, SinglePreserved, TypesHold, PTL
     DEF Spec, MailKept, Mailbox!Spec

(***************************************************************************)
(* Under the same conditions no addressee is sent a message twice, by      *)
(* whichever of the map, the channel and offline_message.                  *)
(***************************************************************************)
THEOREM StickyOnce ==
  ASSUME Exclusive, MembersOnce, NEW home
  PROVE  Spec /\ []Sticky(home) => []AtMostOnce
<1>1. TypeOK /\ Single => AtMostOnce BY SingleOnce
<1>2. QED BY <1>1, SinglePreserved, TypesHold, PTL DEF Spec

(* One server is the home of every user. *)
Hub == [u \in User |-> CHOOSE s \in Server : TRUE]

(* Where there is only one server, users stay on it. *)
LEMMA OneHome ==
  ASSUME OneServer PROVE TypeOK => Sticky(Hub)
<1>1. ASSUME TypeOK, NEW c \in Conn, NEW u \in Uses[c]
      PROVE  at[c] \in {NoServer, Hub[u]}
  <2>1. u \in User /\ at[c] \in Server \cup {NoServer}
    BY <1>1, ServiceAssumption DEF TypeOK
  <2>2. CASE at[c] \in Server
    <3>1. PICK r : r = CHOOSE s \in Server : TRUE OBVIOUS
    <3>2. r \in Server BY <2>2, <3>1
    <3>3. Hub[u] = r BY <2>1, <3>1 DEF Hub
    <3>4. QED BY <2>2, <3>2, <3>3 DEF OneServer
  <2>3. QED BY <2>1, <2>2
<1>2. QED BY <1>1 DEF Sticky

(***************************************************************************)
(* The same of any number of clients that one server serves.               *)
(***************************************************************************)
THEOREM AtMostOnceHolds ==
  ASSUME Exclusive, MembersOnce, OneServer PROVE Spec => []AtMostOnce
<1>1. PICK home : home = Hub OBVIOUS
<1>2. TypeOK => Sticky(home) BY <1>1, OneHome DEF Sticky
<1>3. Spec /\ []Sticky(home) => []AtMostOnce BY StickyOnce
<1>4. QED BY <1>2, <1>3, TypesHold, PTL
=============================================================================
