-------------------------- MODULE ChatClientProofs --------------------------
(***************************************************************************)
(* Proofs about ChatClient: the user the client shows is one the server    *)
(* has in its map, no answer comes that the main thread does not wait for, *)
(* and a chat is displayed to the user it was sent to.                     *)
(*                                                                         *)
(* They rest on the order of the two streams.  Dialogue: a login or a reg  *)
(* is the last request of its client until it is answered, and when its    *)
(* handler runs there is nothing behind it.  Framed: of the messages on    *)
(* the way to the client only the first may have lost its beginning, and   *)
(* main takes no answer from a stream that begins in the middle of one.    *)
(* Addressed: the chats behind the answer to a login are of the user it    *)
(* lets in, those before it are read before it is.                         *)
(***************************************************************************)
EXTENDS ChatClient, Integers, TLAPS

Asks(i) == up[i].msg.op \in {"login", "reg"}
Answers(j) == down[j].msg.type \in {"login", "reg"}
LetsIn(j) == down[j].msg.type = "login" /\ down[j].msg.errno = "0"

(* Where the message of a unit begins: behind this one. *)
Start(j) == j - down[j].part

(* What the client has still to read are messages, the first perhaps       *)
(* without its beginning: what the read thread holds may end inside it.    *)
Framed ==
  \A j \in DOMAIN down :
    /\ down[j].part <= down[j].of
    /\ Start(j) + down[j].of <= Len(down)
    /\ \A k \in 1..down[j].of : Start(j) + k >= 1 =>
         down[Start(j) + k] = [msg |-> down[j].msg, part |-> k,
                               of |-> down[j].of]

OneAnswer ==
  \A i, j \in DOMAIN down : Answers(i) /\ Answers(j) => Start(i) = Start(j)

(* One question at a time, and nothing behind it. *)
Dialogue ==
  /\ \A i \in DOMAIN up : Asks(i) =>
       i = Len(up) /\ screen = up[i].msg.op /\ serving = "idle"
  /\ serving # "idle" => up = <<>> /\ screen = "login" /\ job.user \in User
  /\ \A j \in DOMAIN down : Answers(j) =>
       up = <<>> /\ serving = "idle" /\ screen = down[j].msg.type
  /\ screen = "chat" => \A i \in DOMAIN up : up[i].msg.op = "chat"

ByUser ==
  /\ \A i \in DOMAIN up :
       up[i].msg.op \in {"login", "logout"} => up[i].msg.user \in User
  /\ \A j \in DOMAIN down : LetsIn(j) => down[j].msg.user \in User
  /\ screen = "chat" => current \in User

Closed == link = "closed" => up = <<>> /\ serving = "idle" /\ mapped = {}

(* A user who is let in has been entered before, if nobody else acts. *)
Entered ==
  /\ elsewhere \subseteq touched
  /\ link = "open" =>
       /\ serving = "login_reply" => job.user \in mapped \cup touched
       /\ \A j \in DOMAIN down : LetsIn(j) =>
            down[j].msg.user \in (mapped \cap inline) \cup touched
       /\ screen = "chat" => current \in (mapped \cap inline) \cup touched

(* Whose session is opening, open, or about to end. *)
Session(u) ==
  \/ serving = "login_reply" /\ u = job.user
  \/ \E j \in DOMAIN down : LetsIn(j) /\ u = down[j].msg.user
  \/ screen = "chat" /\ u = current
  \/ \E i \in DOMAIN up : up[i].msg = [op |-> "logout", user |-> u]

(* Unless its answer went to the read thread, or its question was dropped. *)
Sessions == Asked \/ ~Waiting => \A u \in mapped \ unheard : Session(u)

Addressed ==
  \A i \in DOMAIN down : down[i].msg.type = "chat" =>
    /\ down[i].msg.no <= Len(whose)
    /\ screen = "chat" => whose[down[i].msg.no] \in {current} \cup unheard
    /\ \A j \in 1..(i - 1) : LetsIn(j) =>
         whose[down[i].msg.no] \in {down[j].msg.user} \cup unheard

(* So is the chat that the read thread holds, unless it is late. *)
HeldFor ==
  held # <<>> /\ held[1].msg.type = "chat" =>
    /\ held[1].msg.no <= Len(whose)
    /\ screen = "chat" /\ ~late =>
         whose[held[1].msg.no] \in {current} \cup unheard

Live ==
  /\ Framed /\ OneAnswer /\ Dialogue /\ ByUser
  /\ Closed /\ Entered /\ Sessions /\ Addressed /\ HeldFor

Kept ==
  /\ TypeOK
  /\ Alive => Live

-----------------------------------------------------------------------------
(* Streams.                                                                *)

(* The units of a stream. *)
LEMMA StreamSeq ==
  ASSUME NEW M, NEW q \in Stream(M)
  PROVE  /\ q \in Seq([msg : M, part : Nat \ {0}, of : Nat \ {0}])
         /\ Len(q) \in Nat /\ DOMAIN q = 1..Len(q)
         /\ \A i \in DOMAIN q : /\ q[i].msg \in M /\ q[i].part \in Nat \ {0}
                                /\ q[i].of \in Nat \ {0}
<1> DEFINE S == [msg : M, part : Nat \ {0}, of : Nat \ {0}]
<1>1. q \in Seq(S) BY DEF Stream
<1>2. \A e \in S : /\ e.msg \in M /\ e.part \in Nat \ {0}
                   /\ e.of \in Nat \ {0}
  OBVIOUS
<1> HIDE DEF S
<1>3. Len(q) \in Nat /\ DOMAIN q = 1..Len(q) /\ \A i \in DOMAIN q : q[i] \in S
  BY <1>1
<1>4. \A i \in DOMAIN q : /\ q[i].msg \in M /\ q[i].part \in Nat \ {0}
                          /\ q[i].of \in Nat \ {0}
  BY <1>2, <1>3
<1>5. QED BY <1>1, <1>3, <1>4 DEF S

(* What is left of a stream, *)
LEMMA DropSeq ==
  ASSUME NEW S, NEW q \in Seq(S), NEW n \in 0..Len(q)
  PROVE  /\ Drop(q, n) \in Seq(S) /\ Len(Drop(q, n)) = Len(q) - n
         /\ DOMAIN Drop(q, n) = 1..(Len(q) - n)
         /\ \A i \in 1..(Len(q) - n) : i + n \in DOMAIN q
                                       /\ Drop(q, n)[i] = q[i + n]
<1>1. Drop(q, n) = [i \in 1..(Len(q) - n) |-> q[n + 1 + i - 1]]
  BY DEF Drop
<1>2. \A i \in 1..(Len(q) - n) : i + n \in DOMAIN q /\ n + 1 + i - 1 = i + n
  OBVIOUS
<1>3. \A i \in 1..(Len(q) - n) : Drop(q, n)[i] = q[i + n] /\ q[i + n] \in S
  BY <1>1, <1>2
<1>4. Len(q) - n \in Nat OBVIOUS
<1>5. Drop(q, n) \in Seq(S) BY <1>1, <1>3, <1>4
<1>6. QED BY <1>1, <1>2, <1>3, <1>4, <1>5

(* what is read of it, *)
LEMMA TakeSeq ==
  ASSUME NEW S, NEW q \in Seq(S), NEW n \in 1..Len(q)
  PROVE  /\ Take(q, n) \in Seq(S) /\ Len(Take(q, n)) = n
         /\ DOMAIN Take(q, n) = 1..n
         /\ \A i \in 1..n : i \in DOMAIN q /\ Take(q, n)[i] = q[i]
<1>1. Take(q, n) = [i \in 1..n |-> q[i]] BY DEF Take
<1>2. \A i \in 1..n : Take(q, n)[i] = q[i] /\ q[i] \in S BY <1>1
<1>3. Take(q, n) \in Seq(S) BY <1>1, <1>2
<1>4. QED BY <1>1, <1>2, <1>3

(* and what is written to it. *)
LEMMA UnitsSeq ==
  ASSUME NEW M, NEW m \in M, NEW k \in Nat \ {0}
  PROVE  /\ Units(m, k) \in Stream(M) /\ Len(Units(m, k)) = k
         /\ DOMAIN Units(m, k) = 1..k
         /\ \A i \in 1..k :
              Units(m, k)[i] = [msg |-> m, part |-> i, of |-> k]
<1>1. Units(m, k) = [i \in 1..k |-> [msg |-> m, part |-> i, of |-> k]]
  BY DEF Units
<1>2. \A i \in 1..k : [msg |-> m, part |-> i, of |-> k]
                        \in [msg : M, part : Nat \ {0}, of : Nat \ {0}]
  OBVIOUS
<1>3. Units(m, k) \in Stream(M) BY <1>1, <1>2 DEF Stream
<1>4. QED BY <1>1, <1>3

(* A message written to the stream. *)
LEMMA WriteSeq ==
  ASSUME NEW M, NEW q \in Stream(M), NEW m \in M, NEW k \in Nat \ {0}
  PROVE  /\ q \o Units(m, k) \in Stream(M)
         /\ Len(q \o Units(m, k)) = Len(q) + k
         /\ DOMAIN (q \o Units(m, k)) = 1..(Len(q) + k)
         /\ \A i \in 1..Len(q) : (q \o Units(m, k))[i] = q[i]
         /\ \A i \in 1..k : (q \o Units(m, k))[Len(q) + i] =
              [msg |-> m, part |-> i, of |-> k]
<1> DEFINE S == [msg : M, part : Nat \ {0}, of : Nat \ {0}]
<1>1. PICK t : t = Units(m, k) OBVIOUS
<1>2. /\ t \in Stream(M) /\ Len(t) = k /\ DOMAIN t = 1..k
      /\ \A i \in 1..k : t[i] = [msg |-> m, part |-> i, of |-> k]
  <2>1. /\ Units(m, k) \in Stream(M) /\ Len(Units(m, k)) = k
        /\ DOMAIN Units(m, k) = 1..k
        /\ \A i \in 1..k :
             Units(m, k)[i] = [msg |-> m, part |-> i, of |-> k]
    BY UnitsSeq
  <2>2. QED BY <1>1, <2>1
<1>3. q \in Seq(S) /\ t \in Seq(S) BY <1>2 DEF Stream
<1>4. DOMAIN q = 1..Len(q) BY <1>3
<1> HIDE DEF S
<1>5. /\ q \o t \in Seq(S) /\ Len(q \o t) = Len(q) + Len(t)
      /\ DOMAIN (q \o t) = 1..(Len(q) + Len(t))
      /\ \A i \in DOMAIN q : (q \o t)[i] = q[i]
      /\ \A i \in DOMAIN t : (q \o t)[Len(q) + i] = t[i]
  BY <1>3
<1>6. q \o t \in Stream(M) BY <1>5 DEF Stream, S
<1>7. QED BY <1>1, <1>2, <1>4, <1>5, <1>6

(* A text that parses is the first message of the stream, and what is left *)
(* begins with the next.                                                   *)
LEMMA ReadWhole ==
  ASSUME NEW M, down \in Stream(M), Framed, NEW n \in 1..Len(down),
         Parses(Take(down, n))
  PROVE  /\ n = down[1].of /\ 1 \in DOMAIN down /\ DOMAIN down = 1..Len(down)
         /\ Len(down) \in Nat
         /\ \A j \in 1..n : down[j].msg = down[1].msg /\ Start(j) = 0
         /\ \A j \in (n + 1)..Len(down) : Start(j) >= n
<1> DEFINE S == [msg : M, part : Nat \ {0}, of : Nat \ {0}]
<1>1. PICK q : q = down OBVIOUS
<1>2. /\ q \in Seq(S) /\ n \in 1..Len(q)
      /\ Len(q) \in Nat /\ DOMAIN q = 1..Len(q)
      /\ \A i \in DOMAIN q : q[i].part \in Nat \ {0} /\ q[i].of \in Nat \ {0}
  BY <1>1, StreamSeq
<1>3. PICK t : t = Take(q, n) OBVIOUS
<1> HIDE DEF S
<1>4. /\ Len(t) = n /\ DOMAIN t = 1..n
      /\ \A i \in 1..n : i \in DOMAIN q /\ t[i] = q[i]
  <2>1. q \in Seq(S) /\ n \in 1..Len(q) BY <1>2
  <2>2. QED BY <1>3, <2>1, TakeSeq
<1>5. t = Units(t[1].msg, t[1].of) BY <1>1, <1>3 DEF Parses
<1>6. 1 \in 1..n /\ t[1] = q[1] /\ 1 \in DOMAIN q BY <1>2, <1>4
<1>7. PICK m : m = q[1].msg OBVIOUS
<1>8. PICK k \in Nat \ {0} : k = q[1].of BY <1>2, <1>6
<1>9. t = [i \in 1..k |-> [msg |-> m, part |-> i, of |-> k]]
  BY <1>5, <1>6, <1>7, <1>8 DEF Units
<1>10. n = k
  <2>1. 1..n = 1..k BY <1>4, <1>9
  <2>2. QED BY <1>2, <2>1
<1>11. \A j \in 1..n : q[j] = [msg |-> m, part |-> j, of |-> n]
  BY <1>4, <1>9, <1>10
<1>12. ASSUME NEW j \in 1..n PROVE q[j].msg = m /\ j - q[j].part = 0
  <2>1. q[j] = [msg |-> m, part |-> j, of |-> n] BY <1>11
  <2>2. q[j].part = j /\ q[j].msg = m BY <2>1
  <2>3. QED BY <2>2
<1>13. ASSUME NEW j \in (n + 1)..Len(down) PROVE Start(j) >= n
  <2>1. j \in DOMAIN q /\ DOMAIN q = 1..Len(q) /\ Len(q) \in Nat
    BY <1>1, <1>2
  <2>2. PICK p \in Nat \ {0} : p = q[j].part BY <1>2, <2>1
  <2>3. PICK o \in Nat \ {0} : o = q[j].of BY <1>2, <2>1
  <2>4. PICK s \in Int : s = j - p
    <3>1. j \in Nat BY <2>1
    <3>2. j - p \in Int BY <2>2, <3>1
    <3>3. QED BY <3>2
  <2>5. /\ p <= o /\ s + o <= Len(q)
        /\ \A k1 \in 1..o : s + k1 >= 1 =>
             q[s + k1] = [msg |-> q[j].msg, part |-> k1, of |-> o]
    <3>1. /\ down[j].part <= down[j].of
          /\ Start(j) + down[j].of <= Len(down)
          /\ \A k1 \in 1..down[j].of : Start(j) + k1 >= 1 =>
               down[Start(j) + k1] = [msg |-> down[j].msg, part |-> k1,
                                      of |-> down[j].of]
      BY <1>1, <2>1 DEF Framed
    <3>2. Start(j) = s BY <1>1, <2>2, <2>4 DEF Start
    <3>3. QED BY <1>1, <2>2, <2>3, <3>1, <3>2
  <2>6. Start(j) = s BY <1>1, <2>2, <2>4 DEF Start
  <2>7. CASE s >= n BY <2>6, <2>7
  <2>8. CASE s >= 0 /\ s < n
    <3>1. s + 1 \in 1..n /\ 1 \in 1..o BY <2>8
    <3>2. q[s + 1] = [msg |-> m, part |-> s + 1, of |-> n] BY <1>11, <3>1
    <3>3. q[s + 1] = [msg |-> q[j].msg, part |-> 1, of |-> o]
      BY <2>5, <2>8, <3>1
    <3>4. s + 1 = 1 /\ o = n BY <3>2, <3>3
    <3>5. QED BY <2>4, <2>5, <3>4
  <2>9. CASE s < 0
    <3>1. 1 - s \in 1..o /\ s + (1 - s) = 1
      <4>1. j \in Nat /\ j >= 1 BY <2>1
      <4>2. p <= o BY <2>5
      <4>3. 1 - s <= p BY <2>4, <4>1
      <4>4. 1 - s >= 1 BY <2>9
      <4>5. QED BY <4>2, <4>3, <4>4
    <3>2. q[1] = [msg |-> q[j].msg, part |-> 1 - s, of |-> o]
      BY <2>5, <3>1
    <3>3. q[1] = [msg |-> m, part |-> 1, of |-> n] BY <1>6, <1>11
    <3>4. 1 - s = 1 BY <3>2, <3>3
    <3>5. QED BY <2>9, <3>4
  <2>10. QED BY <2>7, <2>8, <2>9
<1>14. /\ 1 \in DOMAIN down /\ DOMAIN down = 1..Len(down) /\ Len(down) \in Nat
       /\ n = down[1].of
  BY <1>1, <1>2, <1>8, <1>10
<1>15. \A j \in 1..n : down[j].msg = down[1].msg /\ Start(j) = 0
  BY <1>1, <1>7, <1>12 DEF Start
<1>16. QED BY <1>13, <1>14, <1>15

(* So messages are left, whatever is read, *)
LEMMA FramedRead ==
  ASSUME NEW M, down \in Stream(M), Framed, NEW n \in 1..Len(down),
         down' = Drop(down, n)
  PROVE  /\ Framed' /\ Len(down') = Len(down) - n
         /\ DOMAIN down' = 1..(Len(down) - n)
         /\ \A j \in DOMAIN down' :
              /\ j + n \in DOMAIN down /\ down'[j] = down[j + n]
              /\ Start(j)' = Start(j + n) - n
<1> DEFINE S == [msg : M, part : Nat \ {0}, of : Nat \ {0}]
<1>1. /\ down \in Seq(S) /\ Len(down) \in Nat /\ DOMAIN down = 1..Len(down)
      /\ \A j \in DOMAIN down : /\ down[j].part \in Nat \ {0}
                                /\ down[j].of \in Nat \ {0}
  BY StreamSeq
<1> HIDE DEF S
<1>2. PICK L \in Nat : L = Len(down) BY <1>1
<1>3. /\ Len(down') = L - n /\ DOMAIN down' = 1..(L - n) /\ L - n \in Nat
      /\ \A i \in 1..(L - n) : i + n \in DOMAIN down /\ down'[i] = down[i + n]
  <2>1. down \in Seq(S) /\ n \in 0..Len(down) BY <1>1
  <2>2. /\ Len(Drop(down, n)) = Len(down) - n
        /\ DOMAIN Drop(down, n) = 1..(Len(down) - n)
        /\ \A i \in 1..(Len(down) - n) : /\ i + n \in DOMAIN down
                                        /\ Drop(down, n)[i] = down[i + n]
    BY <2>1, DropSeq
  <2>3. L - n \in Nat BY <1>2, <2>1
  <2>4. QED BY <1>2, <2>2, <2>3
<1>4. \A j \in DOMAIN down : /\ down[j].part \in Nat \ {0}
                             /\ down[j].of \in Nat \ {0}
  BY <1>1
<1>5. ASSUME NEW j \in 1..(L - n)
      PROVE  Start(j)' = Start(j + n) - n
  <2>1. down'[j].part = down[j + n].part /\ j + n \in DOMAIN down BY <1>3
  <2>2. down[j + n].part \in Nat BY <1>4, <2>1
  <2>3. QED BY <2>1, <2>2 DEF Start
<1>6. ASSUME NEW j \in 1..(L - n)
      PROVE  /\ down'[j].part <= down'[j].of
             /\ Start(j)' + down'[j].of <= L - n
             /\ \A k \in 1..down'[j].of : Start(j)' + k >= 1 =>
                  down'[Start(j)' + k] = [msg |-> down'[j].msg, part |-> k,
                                          of |-> down'[j].of]
  <2>1. down'[j] = down[j + n] /\ j + n \in DOMAIN down BY <1>3
  <2>2. PICK p \in Nat \ {0} : p = down[j + n].part BY <1>4, <2>1
  <2>3. PICK s \in Int : s = Start(j)' /\ Start(j + n) = s + n
    BY <2>1, <2>2 DEF Start
  <2>4. PICK o \in Nat \ {0} : o = down[j + n].of BY <1>4, <2>1
  <2>5. /\ down[j + n].part <= o /\ s + n + o <= L
        /\ \A k \in 1..o : s + n + k >= 1 => down[s + n + k] =
             [msg |-> down[j + n].msg, part |-> k, of |-> o]
    BY <1>2, <2>1, <2>3, <2>4 DEF Framed
  <2>6. ASSUME NEW k \in 1..o, s + k >= 1
        PROVE  down'[s + k] = [msg |-> down[j + n].msg, part |-> k, of |-> o]
    <3>1. s + k \in 1..(L - n)
      <4>1. n \in Nat /\ k \in Nat /\ k <= o BY <1>2
      <4>2. s + k <= L - n BY <2>5, <4>1
      <4>3. L - n \in Nat BY <1>3
      <4>4. QED BY <2>6, <4>1, <4>2, <4>3
    <3>2. s + k + n = s + n + k /\ s + n + k >= 1 BY <2>6
    <3>3. down'[s + k] = down[s + n + k] BY <1>3, <3>1, <3>2
    <3>4. QED BY <2>5, <3>2, <3>3
  <2>7. /\ down'[j].part <= o /\ s + o <= L - n
        /\ down'[j].of = o /\ down'[j].msg = down[j + n].msg
    BY <2>1, <2>4, <2>5
  <2>8. \A k \in 1..down'[j].of : Start(j)' + k >= 1 =>
          down'[Start(j)' + k] = [msg |-> down'[j].msg, part |-> k,
                                  of |-> down'[j].of]
    BY <2>3, <2>6, <2>7
  <2>9. QED BY <2>3, <2>7, <2>8
<1>7. Framed' BY <1>3, <1>6 DEF Framed
<1>8. QED BY <1>2, <1>3, <1>5, <1>7

(* also when another one is written. *)
LEMMA FramedWrite ==
  ASSUME NEW M, down \in Stream(M), Framed, NEW m \in M,
         NEW k \in Nat \ {0}, down' = down \o Units(m, k)
  PROVE  /\ Framed' /\ DOMAIN down' = 1..(Len(down) + k)
         /\ Len(down) \in Nat /\ DOMAIN down = 1..Len(down)
         /\ \A j \in DOMAIN down : down'[j] = down[j] /\ Start(j)' = Start(j)
         /\ \A j \in DOMAIN down' : j \notin DOMAIN down =>
              down'[j].msg = m /\ Start(j)' = Len(down)
<1>1. PICK L \in Nat : L = Len(down) BY StreamSeq
<1>2. /\ Len(down') = L + k /\ DOMAIN down' = 1..(L + k)
      /\ DOMAIN down = 1..L
      /\ \A i \in 1..L : down'[i] = down[i]
      /\ \A i \in 1..k : down'[L + i] = [msg |-> m, part |-> i, of |-> k]
  <2>1. PICK r : r = down \o Units(m, k) OBVIOUS
  <2>2. /\ Len(r) = Len(down) + k /\ DOMAIN r = 1..(Len(down) + k)
        /\ \A i \in 1..Len(down) : r[i] = down[i]
        /\ \A i \in 1..k : r[Len(down) + i] = [msg |-> m, part |-> i, of |-> k]
    BY <2>1, WriteSeq
  <2>3. DOMAIN down = 1..Len(down) BY StreamSeq
  <2>4. QED BY <1>1, <2>1, <2>2, <2>3
<1>3. \A j \in 1..L : down[j].part \in Nat \ {0} /\ down[j].of \in Nat \ {0}
  BY <1>2, StreamSeq
<1>4. ASSUME NEW j \in 1..L
      PROVE  /\ down'[j] = down[j] /\ Start(j)' = Start(j)
             /\ down'[j].part <= down'[j].of
             /\ Start(j)' + down'[j].of <= L + k
             /\ \A i \in 1..down'[j].of : Start(j)' + i >= 1 =>
                  down'[Start(j)' + i] = [msg |-> down'[j].msg, part |-> i,
                                          of |-> down'[j].of]
  <2>1. down'[j] = down[j] /\ Start(j)' = Start(j) BY <1>2 DEF Start
  <2>2. PICK s \in Int : s = Start(j) BY <1>3 DEF Start
  <2>3. PICK o \in Nat \ {0} : o = down[j].of BY <1>3
  <2>4. /\ down[j].part <= o /\ s + o <= L
        /\ \A i \in 1..o : s + i >= 1 => down[s + i] =
             [msg |-> down[j].msg, part |-> i, of |-> o]
    BY <1>1, <1>2, <2>2, <2>3 DEF Framed
  <2>5. \A i \in 1..o : s + i >= 1 => s + i \in 1..L BY <2>4
  <2>6. QED BY <1>2, <2>1, <2>2, <2>3, <2>4, <2>5
<1>5. ASSUME NEW j \in (L + 1)..(L + k)
      PROVE  /\ down'[j].msg = m /\ Start(j)' = L
             /\ down'[j].part <= down'[j].of
             /\ Start(j)' + down'[j].of <= L + k
             /\ \A i \in 1..down'[j].of :
                  down'[Start(j)' + i] = [msg |-> down'[j].msg, part |-> i,
                                          of |-> down'[j].of]
  <2>1. PICK p \in 1..k : j = L + p
    <3>1. j - L \in 1..k /\ j = L + (j - L) OBVIOUS
    <3>2. QED BY <3>1
  <2>2. down'[j] = [msg |-> m, part |-> p, of |-> k] BY <1>2, <2>1
  <2>3. Start(j)' = L BY <2>1, <2>2 DEF Start
  <2>4. QED BY <1>2, <2>2, <2>3
<1>6. \A j \in 1..(L + k) : j \in 1..L \/ j \in (L + 1)..(L + k) OBVIOUS
<1>7. Framed'
  <2>1. \A j \in 1..(L + k) : /\ down'[j].part <= down'[j].of
                              /\ Start(j)' + down'[j].of <= L + k
    BY <1>4, <1>5, <1>6
  <2>2. \A j \in 1..(L + k) : \A i \in 1..down'[j].of :
          Start(j)' + i >= 1 =>
            down'[Start(j)' + i] = [msg |-> down'[j].msg, part |-> i,
                                    of |-> down'[j].of]
    BY <1>4, <1>5, <1>6
  <2>3. QED BY <1>2, <2>1, <2>2 DEF Framed
<1>8. QED BY <1>1, <1>2, <1>4, <1>5, <1>6, <1>7

-----------------------------------------------------------------------------
(* The types of ChatClient.                                                *)

(* What a message to the client carries. *)
LEMMA MessageFields ==
  ASSUME NEW m \in Ack \cup Chat
  PROVE  /\ m.type \in {"login", "reg", "chat"}
         /\ m.type = "chat" => m.no \in 1..MaxChats /\ m.errno = "null"
         /\ m.type # "chat" => /\ m.user \in User \cup {NoUser}
                               /\ m.errno \in {"0", "1"}
<1>1. CASE m \in Ack BY <1>1 DEF Ack
<1>2. CASE m \in Chat BY <1>2 DEF Chat
<1>3. QED BY <1>1, <1>2

(* What the read thread holds begins with a message. *)
LEMMA HeldType ==
  ASSUME TypeOK, held # <<>>
  PROVE  held[1].msg \in Ack \cup Chat
<1>1. PICK q : q = held OBVIOUS
<1>2. PICK M : M = Ack \cup Chat OBVIOUS
<1>3. q \in Stream(M) /\ q # <<>> BY <1>1, <1>2 DEF TypeOK
<1>4. /\ q \in Seq([msg : M, part : Nat \ {0}, of : Nat \ {0}])
      /\ DOMAIN q = 1..Len(q) /\ Len(q) \in Nat
      /\ \A i \in DOMAIN q : q[i].msg \in M
  BY <1>3, StreamSeq
<1>5. Len(q) # 0 BY <1>3, <1>4
<1>6. 1 \in DOMAIN q BY <1>4, <1>5
<1>7. QED BY <1>1, <1>2, <1>4, <1>6

(* A recv that brings something. *)
LEMMA ReadType ==
  ASSUME TypeOK, NEW n \in 1..Buffer, Received(n), Rest(n)
  PROVE  /\ n \in 1..Len(down) /\ 1 \in DOMAIN down
         /\ down[1].msg \in Ack \cup Chat /\ Take(down, n)[1] = down[1]
         /\ Take(down, n) \in Stream(Ack \cup Chat)
         /\ down' \in Stream(Ack \cup Chat) /\ down' = Drop(down, n)
         /\ UNCHANGED <<up, serverVars, sends>>
<1> DEFINE M == Ack \cup Chat
<1> DEFINE S == [msg : M, part : Nat \ {0}, of : Nat \ {0}]
<1>1. down \in Stream(M) BY DEF TypeOK
<1> HIDE DEF M
<1>2. /\ down \in Seq(S) /\ Len(down) \in Nat /\ DOMAIN down = 1..Len(down)
      /\ \A i \in DOMAIN down : down[i].msg \in M
  BY <1>1, StreamSeq
<1> HIDE DEF S
<1>3. n \in Nat /\ n >= 1 /\ n <= Len(down)
  BY ClientAssumption DEF Received
<1>4. n \in 1..Len(down) /\ n \in 0..Len(down) /\ 1 \in DOMAIN down
  BY <1>2, <1>3
<1>5. Take(down, n)[1] = down[1]
  <2>1. 1 \in 1..n BY <1>3
  <2>2. QED BY <1>2, <1>4, <2>1, TakeSeq
<1>6. Drop(down, n) \in Stream(M)
  <2>1. Drop(down, n) \in Seq(S) BY <1>2, <1>4, DropSeq
  <2>2. QED BY <2>1 DEF Stream, S
<1>7. Take(down, n) \in Stream(M)
  <2>1. Take(down, n) \in Seq(S) BY <1>2, <1>4, TakeSeq
  <2>2. QED BY <2>1 DEF Stream, S
<1>8. down' = Drop(down, n) /\ UNCHANGED <<up, serverVars, sends>> BY DEF Rest
<1>9. QED BY <1>2, <1>4, <1>5, <1>6, <1>7, <1>8 DEF M

(* A send that brings the request to a server that is there. *)
LEMMA SendType ==
  ASSUME TypeOK, NEW op, NEW u, NEW n \in Nat \ {0}, Send(op, u, n),
         [op |-> op, user |-> u] \in Request
  PROVE  /\ up' \in Stream(Request) /\ sends' \in 0..MaxSends
         /\ UNCHANGED <<current, reader, held, displayed, late, down,
                        serverVars>>
<1>1. up \in Stream(Request) /\ sends \in 0..MaxSends /\ MaxSends \in Nat
  BY ClientAssumption DEF TypeOK
<1>2. up \o Units([op |-> op, user |-> u], n) \in Stream(Request)
  BY <1>1, WriteSeq
<1>3. QED BY <1>1, <1>2 DEF Send

(* An answer that is written. *)
LEMMA AnswerType ==
  ASSUME TypeOK, NEW type \in {"login", "reg"}, NEW e \in {"0", "1"},
         NEW u \in User \cup {NoUser}, NEW n \in Nat \ {0},
         Answer(type, e, u, n)
  PROVE  /\ down' \in Stream(Ack \cup Chat)
         /\ [type |-> type, errno |-> e, user |-> u] \in Ack \cup Chat
         /\ down' = down \o Units([type |-> type, errno |-> e, user |-> u], n)
<1> DEFINE M == Ack \cup Chat
<1>1. down \in Stream(M) BY DEF TypeOK
<1>2. PICK m : m = [type |-> type, errno |-> e, user |-> u] OBVIOUS
<1>3. m \in M BY <1>2 DEF Ack
<1>4. down' = down \o Units(m, n) BY <1>2 DEF Answer
<1> HIDE DEF M
<1>5. down \o Units(m, n) \in Stream(M) BY <1>1, <1>3, WriteSeq
<1>6. QED BY <1>2, <1>3, <1>4, <1>5 DEF M

(* What the server takes from the stream: its first request, whole. *)
LEMMA TakenType ==
  ASSUME TypeOK, NEW n \in 1..MaxRead, n <= Len(up),
         ParsesFirst(Take(up, n))
  PROVE  /\ n \in 1..Len(up) /\ Len(up) \in Nat /\ DOMAIN up = 1..Len(up)
         /\ 1 \in DOMAIN up /\ up[1].of \in 1..n /\ up[1].msg \in Request
         /\ Take(up, n)[1] = up[1]
         /\ \A i \in 1..up[1].of : up[i].msg = up[1].msg
         /\ Drop(up, n) \in Stream(Request)
         /\ DOMAIN Drop(up, n) = 1..(Len(up) - n)
         /\ \A i \in 1..(Len(up) - n) : i + n \in DOMAIN up
                                        /\ Drop(up, n)[i] = up[i + n]
         /\ Loggedout(Drop(Take(up, n), up[1].of)) =
              {up[i].msg.user :
                 i \in {j \in (up[1].of + 1)..n : up[j].msg.op = "logout"}}
<1> DEFINE S == [msg : Request, part : Nat \ {0}, of : Nat \ {0}]
<1>1. up \in Stream(Request) BY DEF TypeOK
<1>2. /\ up \in Seq(S) /\ Len(up) \in Nat /\ DOMAIN up = 1..Len(up)
      /\ \A i \in DOMAIN up : up[i].msg \in Request /\ up[i].of \in Nat \ {0}
  BY <1>1, StreamSeq
<1> HIDE DEF S
<1>3. n \in Nat /\ n >= 1 BY ClientAssumption
<1>4. n \in 1..Len(up) /\ n \in 0..Len(up) /\ 1 \in DOMAIN up /\ 1 \in 1..n
  BY <1>2, <1>3
<1>5. PICK t : t = Take(up, n) OBVIOUS
<1>6. /\ t \in Seq(S) /\ Len(t) = n /\ DOMAIN t = 1..n
      /\ \A i \in 1..n : i \in DOMAIN up /\ t[i] = up[i]
  BY <1>2, <1>4, <1>5, TakeSeq
<1>7. t[1] = up[1] BY <1>4, <1>6
<1>8. PICK k \in Nat \ {0} : k = up[1].of BY <1>2, <1>4
<1>9. k <= n /\ Parses(Take(t, k)) BY <1>5, <1>6, <1>7, <1>8 DEF ParsesFirst
<1>10. k \in 1..n /\ k \in 1..Len(t) /\ k \in 0..Len(t) BY <1>3, <1>6, <1>9
<1>11. PICK h : h = Take(t, k) OBVIOUS
<1>12. /\ Len(h) = k /\ DOMAIN h = 1..k
       /\ \A i \in 1..k : i \in DOMAIN t /\ h[i] = t[i]
  BY <1>6, <1>10, <1>11, TakeSeq
<1>13. h = Units(h[1].msg, h[1].of) BY <1>9, <1>11 DEF Parses
<1>14. \A i \in 1..k : up[i].msg = up[1].msg
  <2>1. h[1] = up[1] BY <1>7, <1>8, <1>12
  <2>2. h = [i \in 1..k |-> [msg |-> up[1].msg, part |-> i, of |-> k]]
    BY <1>8, <1>13, <2>1 DEF Units
  <2>3. ASSUME NEW i \in 1..k PROVE up[i].msg = up[1].msg
    <3>1. h[i] = [msg |-> up[1].msg, part |-> i, of |-> k] BY <2>2
    <3>2. i \in 1..n BY <1>10
    <3>3. h[i] = up[i] BY <1>6, <1>12, <3>2
    <3>4. QED BY <3>1, <3>3
  <2>4. QED BY <2>3
<1>15. /\ Drop(up, n) \in Seq(S)
       /\ DOMAIN Drop(up, n) = 1..(Len(up) - n)
       /\ \A i \in 1..(Len(up) - n) : i + n \in DOMAIN up
                                      /\ Drop(up, n)[i] = up[i + n]
  BY <1>2, <1>4, DropSeq
<1>16. Drop(up, n) \in Stream(Request) BY <1>15 DEF Stream, S
<1>17. PICK d : d = Drop(t, k) OBVIOUS
<1>18. /\ DOMAIN d = 1..(n - k)
       /\ \A i \in 1..(n - k) : i + k \in DOMAIN t /\ d[i] = t[i + k]
  <2>1. t \in Seq(S) /\ k \in 0..Len(t) BY <1>6, <1>10
  <2>2. Len(t) = n /\ DOMAIN t = 1..n BY <1>6
  <2>3. QED BY <1>17, <2>1, <2>2, DropSeq
<1>19. \A i \in 1..(n - k) : i + k \in (k + 1)..n /\ d[i] = up[i + k]
  <2>1. \A i \in 1..(n - k) : i + k \in (k + 1)..n /\ i + k \in 1..n
    BY <1>3
  <2>2. QED BY <1>6, <1>18, <2>1
<1>20. \A j \in (k + 1)..n : j - k \in 1..(n - k) /\ d[j - k] = up[j]
  <2>1. \A j \in (k + 1)..n : j - k \in 1..(n - k) /\ (j - k) + k = j
    BY <1>3
  <2>2. QED BY <1>19, <2>1
<1>21. Loggedout(d) =
         {up[i].msg.user :
            i \in {j \in (k + 1)..n : up[j].msg.op = "logout"}}
  <2>1. ASSUME NEW u \in Loggedout(d)
        PROVE  \E i \in (k + 1)..n : up[i].msg.op = "logout"
                                       /\ u = up[i].msg.user
    <3>1. PICK i \in DOMAIN d : d[i].msg.op = "logout" /\ u = d[i].msg.user
      BY DEF Loggedout
    <3>2. i + k \in (k + 1)..n /\ d[i] = up[i + k] BY <1>18, <1>19
    <3>3. QED BY <3>1, <3>2
  <2>2. ASSUME NEW i \in (k + 1)..n, up[i].msg.op = "logout"
        PROVE  up[i].msg.user \in Loggedout(d)
    <3>1. i - k \in DOMAIN d /\ d[i - k] = up[i] BY <1>18, <1>20
    <3>2. QED BY <2>2, <3>1 DEF Loggedout
  <2>3. QED BY <2>1, <2>2
<1>22. QED
  BY <1>2, <1>4, <1>5, <1>7, <1>8, <1>10, <1>14, <1>15, <1>16, <1>17, <1>21

(* An UPDATE is executed, or its user is one of those touched. *)
LEMMA StateSet ==
  ASSUME TypeOK, NEW u \in User, NEW states \in SUBSET User,
         updateState(u, states)
  PROVE  /\ inline' \subseteq User /\ touched' \subseteq User
         /\ others' \in 0..MaxOthers
         /\ touched \subseteq touched'
         /\ touched' \subseteq touched \cup {u}
         /\ inline' = states \/ (inline' = inline /\ u \in touched')
<1>1. inline \subseteq User /\ touched \subseteq User /\ others \in 0..MaxOthers
  BY DEF TypeOK
<1>2. CASE inline' = states /\ UNCHANGED <<touched, others>> BY <1>1, <1>2
<1>3. CASE /\ others < MaxOthers /\ others' = others + 1
           /\ touched' = touched \cup {u} /\ UNCHANGED inline
  <2>1. MaxOthers \in Nat BY ClientAssumption
  <2>2. others' \in 0..MaxOthers BY <1>1, <1>3, <2>1
  <2>3. QED BY <1>1, <1>3, <2>2
<1>4. QED BY <1>2, <1>3 DEF updateState

(* What others do to the users. *)
LEMMA ElseType ==
  ASSUME TypeOK, somebodyElse
  PROVE  /\ mapped' \subseteq mapped /\ elsewhere' \subseteq User
         /\ inline' \subseteq User /\ touched' \subseteq User
         /\ others' \in 0..MaxOthers
         /\ elsewhere' \ elsewhere \subseteq touched'
         /\ touched \subseteq touched'
         /\ \A v \in User \ touched' : /\ v \in mapped => v \in mapped'
                                       /\ v \in inline => v \in inline'
         /\ UNCHANGED <<clientVars, up, down, link, serving, job, unheard,
                        whose, sends>>
<1>1. /\ mapped \subseteq User /\ elsewhere \subseteq User
      /\ inline \subseteq User /\ touched \subseteq User
  BY DEF TypeOK
<1>2. others' \in 0..MaxOthers
  <2>1. others \in 0..MaxOthers /\ MaxOthers \in Nat
    BY ClientAssumption DEF TypeOK
  <2>2. others < MaxOthers /\ others' = others + 1 BY DEF somebodyElse
  <2>3. QED BY <2>1, <2>2
<1>3. UNCHANGED <<clientVars, up, down, link, serving, job, unheard, whose,
                  sends>>
  BY DEF somebodyElse
<1>4. CASE otherReset BY <1>1, <1>2, <1>3, <1>4 DEF otherReset
<1>5. CASE \E u \in User : otherClient(u)
  <2>1. PICK u \in User : otherClient(u) BY <1>5
  <2>2. touched' = touched \cup {u} BY <2>1 DEF otherClient
  <2>3. /\ mapped' \in {mapped, mapped \ {u}}
        /\ elsewhere' \in {elsewhere, elsewhere \cup {u}, elsewhere \ {u}}
        /\ inline' \in {inline, inline \cup {u}, inline \ {u}}
    BY <2>1 DEF otherClient, otherLogin, otherLogout
  <2>4. QED BY <1>1, <1>2, <1>3, <2>2, <2>3
<1>6. QED BY <1>4, <1>5 DEF somebodyElse

(* Every step keeps the types. *)
LEMMA TypeStep ==
  ASSUME Kept, [Next]_vars
  PROVE  TypeOK'
<1> USE DEF clientVars, serverVars, userVars
<1>1. TypeOK /\ (Alive => ByUser /\ Dialogue /\ Entered /\ Addressed /\ HeldFor)
  BY DEF Kept, Live
<1>2. ASSUME NEW op \in {"login", "reg", "chat", "logout"},
             NEW u \in User \cup {NoUser}, NEW n \in Nat \ {0},
             Send(op, u, n), screen' \in {"menu", "login", "reg", "chat"}
      PROVE  TypeOK'
  <2>1. [op |-> op, user |-> u] \in Request BY DEF Request
  <2>2. /\ up' \in Stream(Request) /\ sends' \in 0..MaxSends
        /\ UNCHANGED <<current, reader, held, displayed, late, down,
                       serverVars>>
    BY <1>1, <1>2, <2>1, SendType
  <2>3. QED BY <1>1, <1>2, <2>2 DEF TypeOK
<1>3. CASE \E u \in User : ClientLogin(u)
  <2>1. PICK u \in User : ClientLogin(u) BY <1>3
  <2>2. Send("login", u, 1) /\ screen' = "login" BY <2>1 DEF ClientLogin
  <2>3. QED BY <1>2, <2>2
<1>4. CASE ClientReg
  <2>1. Send("reg", NoUser, 1) /\ screen' = "reg" BY <1>4 DEF ClientReg
  <2>2. QED BY <1>2, <2>1
<1>5. CASE command \/ logout
  <2>1. PICK op \in {"chat", "logout"}, n \in RequestSizes \cup {1} :
          Send(op, current, n) /\ screen' \in {"chat", "menu"}
    BY <1>5 DEF command, logout
  <2>2. n \in Nat \ {0} BY ClientAssumption
  <2>3. current \in User \cup {NoUser} BY <1>1 DEF TypeOK
  <2>4. QED BY <1>2, <2>1, <2>2, <2>3
<1>6. CASE quit \/ send_broken \/ recvClosed \/ readClosed
  <2>1. /\ screen' \in {"menu"} \cup Ended
        /\ UNCHANGED <<current, reader, held, displayed, late, up, down,
                       serverVars, sends>>
    BY <1>6 DEF quit, send_broken, recvClosed, readClosed, End, Menu, Ended
  <2>2. QED BY <1>1, <2>1 DEF TypeOK
<1>7. CASE recvAnswer
  <2>1. PICK n \in 1..Buffer :
          /\ Received(n) /\ Rest(n) /\ UNCHANGED held
          /\ \/ End("died") \/ Menu
             \/ /\ Take(down, n)[1].msg.errno = "0"
                /\ Load(Take(down, n)[1].msg)
    BY <1>7 DEF recvAnswer
  <2>2. /\ Take(down, n)[1] = down[1] /\ down[1].msg \in Ack \cup Chat
        /\ down' \in Stream(Ack \cup Chat)
        /\ UNCHANGED <<up, serverVars, sends>>
    BY <1>1, <2>1, ReadType
  <2>3. PICK m \in Ack \cup Chat : m = down[1].msg BY <2>2
  <2>4. CASE End("died") \/ Menu
    BY <1>1, <2>1, <2>2, <2>4 DEF End, Menu, TypeOK, Ended
  <2>5. CASE m.errno = "0" /\ Load(m)
    <3>1. m.user \in User \cup {NoUser} BY <2>5, MessageFields
    <3>2. QED BY <1>1, <2>1, <2>2, <2>5, <3>1 DEF Load, TypeOK
  <2>6. QED BY <2>1, <2>2, <2>3, <2>4, <2>5
<1>8. CASE readTaskHandler
  <2>1. PICK n \in 1..Buffer :
          Received(n) /\ Rest(n) /\ held' = Take(down, n)
    BY <1>8 DEF readTaskHandler
  <2>2. UNCHANGED <<screen, current, reader, displayed, late>>
    BY <1>8 DEF readTaskHandler
  <2>3. /\ Take(down, n) \in Stream(Ack \cup Chat)
        /\ down' \in Stream(Ack \cup Chat)
        /\ UNCHANGED <<up, serverVars, sends>>
    BY <1>1, <2>1, ReadType
  <2>4. QED BY <1>1, <2>1, <2>2, <2>3 DEF TypeOK
<1>9. CASE display
  <2>1. /\ Alive /\ held # <<>> /\ held' = <<>>
        /\ End("died") \/ Show(held[1].msg)
        /\ UNCHANGED <<up, down, serverVars, sends>>
    BY <1>9 DEF display
  <2>2. held' \in Stream(Ack \cup Chat)
    <3>1. <<>> \in Stream(Ack \cup Chat) BY DEF Stream
    <3>2. QED BY <2>1, <3>1
  <2>3. CASE End("died") BY <1>1, <2>1, <2>2, <2>3 DEF End, TypeOK, Ended
  <2>4. CASE Show(held[1].msg)
    <3>1. PICK m \in Ack \cup Chat : m = held[1].msg BY <1>1, <2>1, HeldType
    <3>2. m.type = "chat" => m.no \in 0..Len(whose)
      <4>1. m.type = "chat" => m.no <= Len(whose)
        BY <1>1, <2>1, <3>1 DEF HeldFor
      <4>2. Len(whose) \in Nat BY <1>1 DEF TypeOK
      <4>3. QED BY <4>1, <4>2, MessageFields
    <3>3. displayed' \in 0..Len(whose)
      BY <1>1, <2>4, <3>1, <3>2 DEF Show, TypeOK
    <3>4. QED BY <1>1, <2>1, <2>2, <2>4, <3>3 DEF Show, TypeOK
  <2>5. QED BY <2>1, <2>3, <2>4
<1>10. ASSUME ServerDies, UNCHANGED <<clientVars, sends>>
       PROVE  TypeOK'
  <2>1. <<>> \in Stream(Request) BY DEF Stream
  <2>2. QED BY <1>1, <1>10, <2>1 DEF ServerDies, TypeOK
<1>11. CASE Alive /\ onMessage
  <2>1. PICK n \in 1..MaxRead :
          /\ n <= Len(up)
          /\ \/ /\ ParsesFirst(Take(up, n)) /\ up' = Drop(up, n)
                /\ Dispatch(Take(up, n)[1].msg)
                /\ unheard' = unheard \cup
                     Loggedout(Drop(Take(up, n), Take(up, n)[1].of))
                /\ UNCHANGED <<link, whose>>
             \/ ServerDies
    BY <1>11 DEF onMessage
  <2>2. UNCHANGED <<clientVars, sends>> BY <1>11 DEF onMessage
  <2>3. CASE ServerDies BY <1>10, <2>2, <2>3
  <2>4. CASE ParsesFirst(Take(up, n)) /\ ~ServerDies
    <3>1. /\ up[1].msg \in Request /\ Take(up, n)[1] = up[1]
          /\ 1 \in DOMAIN up /\ up[1].of \in 1..n
          /\ n \in 1..Len(up) /\ DOMAIN up = 1..Len(up)
          /\ Drop(up, n) \in Stream(Request)
          /\ Loggedout(Drop(Take(up, n), up[1].of)) =
               {up[i].msg.user :
                  i \in {j \in (up[1].of + 1)..n : up[j].msg.op = "logout"}}
      BY <1>1, <2>1, <2>4, TakenType
    <3>2. PICK req \in Request : req = up[1].msg BY <3>1
    <3>3. /\ up' \in Stream(Request) /\ UNCHANGED <<link, whose>>
          /\ Dispatch(req)
          /\ unheard' = unheard \cup Loggedout(Drop(Take(up, n), up[1].of))
      BY <2>1, <2>4, <3>1, <3>2
    <3>4. unheard' \subseteq User
      <4>1. \A j \in (up[1].of + 1)..n : j \in DOMAIN up BY <3>1
      <4>2. \A j \in (up[1].of + 1)..n :
              up[j].msg.op = "logout" => up[j].msg.user \in User
        BY <1>1, <1>11, <4>1 DEF ByUser
      <4>3. QED BY <1>1, <3>1, <3>3, <4>2 DEF TypeOK
    <3>5. /\ down' \in Stream(Ack \cup Chat) /\ job' \in Request \cup {NoJob}
          /\ serving' \in {"idle", "login", "login_reply"}
          /\ mapped' \subseteq User /\ elsewhere' \subseteq User
          /\ inline' \subseteq User /\ touched' \subseteq User
          /\ others' \in 0..MaxOthers
      <4>1. CASE req.op = "reg" /\ reg
        <5>1. PICK e \in {"0", "1"} : Answer("reg", e, NoUser, 1)
          BY <4>1 DEF reg
        <5>2. PICK u \in User \cup {NoUser}, type \in {"login", "reg"},
                   n1 \in Nat \ {0} : Answer(type, e, u, n1)
          BY <5>1
        <5>3. down' \in Stream(Ack \cup Chat) BY <1>1, <5>2, AnswerType
        <5>4. QED BY <1>1, <4>1, <5>3 DEF reg, TypeOK
      <4>2. CASE req.op = "logout" /\ logout_handler(req.user)
        <5>1. PICK u \in User : u = req.user
          BY <1>1, <1>11, <3>1, <3>2, <4>2 DEF ByUser
        <5>2. PICK X \in SUBSET User : X = inline \ {u}
          BY <1>1 DEF TypeOK
        <5>3. updateState(u, X) BY <4>2, <5>1, <5>2 DEF logout_handler
        <5>4. /\ inline' \subseteq User /\ touched' \subseteq User
              /\ others' \in 0..MaxOthers
          BY <1>1, <5>3, StateSet
        <5>5. QED BY <1>1, <4>2, <5>4 DEF logout_handler, TypeOK
      <4>3. CASE UNCHANGED <<down, userVars>>
                   /\ \/ UNCHANGED <<serving, job>>
                      \/ serving' = "login" /\ job' = req
        BY <1>1, <4>3 DEF TypeOK
      <4>4. QED BY <3>3, <4>1, <4>2, <4>3 DEF Dispatch
    <3>6. QED BY <1>1, <2>2, <3>3, <3>4, <3>5 DEF TypeOK
  <2>5. QED BY <2>1, <2>3, <2>4
<1>12. CASE Alive /\ (login \/ login_reply)
  <2>1. job.user \in User
    BY <1>1, <1>12 DEF Dialogue, login, login_reply
  <2>2. PICK e \in {"0", "1"}, u \in User \cup {NoUser},
             n \in AnswerSizes \cup {1} :
          down' = down \/ Answer("login", e, u, n)
    BY <1>12, <2>1 DEF login, login_reply
  <2>3. n \in Nat \ {0} BY ClientAssumption
  <2>4. down' \in Stream(Ack \cup Chat)
    <3>1. CASE down' = down BY <1>1, <3>1 DEF TypeOK
    <3>2. CASE Answer("login", e, u, n) BY <1>1, <2>3, <3>2, AnswerType
    <3>3. QED BY <2>2, <3>1, <3>2
  <2>5. CASE login
    BY <1>1, <2>1, <2>4, <2>5 DEF login, TypeOK
  <2>6. CASE login_reply
    <3>1. PICK v \in User : v = job.user BY <2>1
    <3>2. PICK X \in SUBSET User : X = inline \cup {v} BY <1>1 DEF TypeOK
    <3>3. updateState(v, X) BY <2>6, <3>1, <3>2 DEF login_reply
    <3>4. /\ inline' \subseteq User /\ touched' \subseteq User
          /\ others' \in 0..MaxOthers
      BY <1>1, <3>3, StateSet
    <3>5. /\ serving' = "idle" /\ job' = NoJob
          /\ UNCHANGED <<clientVars, up, link, mapped, elsewhere, unheard,
                         whose, sends>>
      BY <2>6 DEF login_reply
    <3>6. QED BY <1>1, <2>4, <3>4, <3>5 DEF TypeOK
  <2>7. QED BY <1>12, <2>5, <2>6
<1>13. CASE \E u \in User : Push(u)
  <2>1. PICK u \in User, n \in ChatSizes :
          /\ Len(whose) < MaxChats /\ whose' = Append(whose, u)
          /\ down' = down \o Units([type |-> "chat", errno |-> "null",
                                    no |-> Len(whose')], n)
          /\ UNCHANGED <<clientVars, up, link, serving, job, userVars,
                         unheard, sends>>
    BY <1>13 DEF Push
  <2>2. n \in Nat \ {0} BY ClientAssumption
  <2>3. PICK w \in Seq(User) : w = whose BY <1>1 DEF TypeOK
  <2>4. /\ whose' \in Seq(User) /\ Len(whose') = Len(w) + 1
        /\ Len(whose') \in 1..MaxChats /\ Len(w) \in Nat
    BY <2>1, <2>3, ClientAssumption
  <2>5. PICK m \in Chat : m = [type |-> "chat", errno |-> "null",
                               no |-> Len(whose')]
    BY <2>4 DEF Chat
  <2>6. down' \in Stream(Ack \cup Chat)
    <3>1. m \in Ack \cup Chat /\ down \in Stream(Ack \cup Chat)
      BY <1>1 DEF TypeOK
    <3>2. down' = down \o Units(m, n) BY <2>1, <2>5
    <3>3. QED BY <2>2, <3>1, <3>2, WriteSeq
  <2>7. displayed' \in 0..Len(whose') /\ Len(whose') <= MaxChats
    BY <1>1, <2>1, <2>3, <2>4 DEF TypeOK
  <2>8. QED BY <1>1, <2>1, <2>4, <2>6, <2>7 DEF TypeOK
<1>14. CASE Alive /\ serverGone BY <1>10, <1>14 DEF serverGone
<1>15. CASE Alive /\ somebodyElse
  BY <1>1, <1>15, ElseType DEF TypeOK
<1>16. CASE UNCHANGED vars BY <1>1, <1>16 DEF vars, TypeOK
<1>17. QED
  BY <1>3, <1>4, <1>5, <1>6, <1>7, <1>8, <1>9, <1>11, <1>12, <1>13, <1>14,
     <1>15, <1>16
     DEF Next, MainThread, ReadThread, LoopThread

-----------------------------------------------------------------------------
(* What the client and the server have of each other while the client      *)
(* lives.                                                                  *)

(* At the menu and at the commands no question is open. *)
LEMMA Quiet ==
  ASSUME Dialogue, screen \in {"menu", "chat"}
  PROVE  /\ \A i \in DOMAIN up : ~Asks(i)
         /\ serving = "idle"
         /\ \A j \in DOMAIN down : ~Answers(j) /\ ~LetsIn(j)
BY DEF Dialogue, Asks, Answers, LetsIn

(* While a question is on its way, or its handler runs, no answer is. *)
LEMMA Unanswered ==
  ASSUME Dialogue, up # <<>> \/ serving # "idle"
  PROVE  \A j \in DOMAIN down : ~Answers(j) /\ ~LetsIn(j)
BY DEF Dialogue, Answers, LetsIn

(* Any two units of answers are of one. *)
LEMMA SameAnswer ==
  ASSUME Framed, OneAnswer, down \in Stream(Ack \cup Chat),
         NEW i \in DOMAIN down, NEW j \in DOMAIN down,
         Answers(i), Answers(j)
  PROVE  down[i].msg = down[j].msg
<1> DEFINE At(x) == /\ x \in Nat \ {0} /\ down[x].part \in Nat \ {0}
                     /\ down[x].of \in Nat \ {0}
<1>0. \A x \in DOMAIN down : At(x)
  <2>1. PICK M : M = Ack \cup Chat OBVIOUS
  <2>2. down \in Stream(M) BY <2>1
  <2>3. /\ DOMAIN down = 1..Len(down) /\ Len(down) \in Nat
        /\ \A x \in DOMAIN down : /\ down[x].part \in Nat \ {0}
                                  /\ down[x].of \in Nat \ {0}
    BY <2>2, StreamSeq
  <2>4. QED BY <2>3
<1>1. ASSUME NEW x \in DOMAIN down, NEW y \in DOMAIN down,
             Start(x) = Start(y), x <= y
      PROVE  down[x].msg = down[y].msg
  <2>1. At(x) /\ At(y) BY <1>0
  <2>2. down[y].part <= down[y].of BY DEF Framed
  <2>3. PICK k \in Nat \ {0} : k = down[x].part BY <2>1
  <2>4. k \in 1..down[y].of /\ Start(y) + k = x
    <3>1. x - k = y - down[y].part BY <1>1, <2>3 DEF Start
    <3>2. PICK p, o \in Nat \ {0} : p = down[y].part /\ o = down[y].of
      BY <2>1
    <3>3. p <= o BY <2>2, <3>2
    <3>4. PICK x1, y1 \in Nat \ {0} : x1 = x /\ y1 = y BY <2>1
    <3>5. k <= o /\ (y1 - p) + k = x1
      BY <1>1, <3>1, <3>2, <3>3, <3>4
    <3>6. QED BY <3>2, <3>4, <3>5 DEF Start
  <2>5. down[x] = [msg |-> down[y].msg, part |-> k, of |-> down[y].of]
    <3>1. Start(y) + k >= 1 BY <2>1, <2>4
    <3>2. down[Start(y) + k] = [msg |-> down[y].msg, part |-> k,
                                of |-> down[y].of]
      BY <2>4, <3>1 DEF Framed
    <3>3. QED BY <2>4, <3>2
  <2>6. QED BY <2>5
<1>2. Start(i) = Start(j) BY DEF OneAnswer
<1>3. i \in Nat /\ j \in Nat BY <1>0
<1>4. CASE i <= j BY <1>1, <1>2, <1>4
<1>5. CASE j <= i BY <1>1, <1>2, <1>5
<1>6. QED BY <1>3, <1>4, <1>5

(* A request that is written to a server that is there. *)
LEMMA SendGrows ==
  ASSUME TypeOK, NEW op, NEW u, NEW n \in Nat \ {0}, Send(op, u, n),
         [op |-> op, user |-> u] \in Request
  PROVE  /\ \A i \in DOMAIN up : i \in DOMAIN up' /\ up'[i] = up[i]
         /\ \A i \in DOMAIN up' : i \notin DOMAIN up =>
              /\ up'[i].msg = [op |-> op, user |-> u] /\ link = "open"
              /\ n = 1 => i = Len(up')
         /\ link # "open" => up' = up
         /\ link = "open" => /\ Len(up') \in DOMAIN up'
                             /\ up'[Len(up')].msg = [op |-> op, user |-> u]
<1>1. CASE link # "open" BY <1>1 DEF Send
<1>2. CASE link = "open"
  <2>1. up \in Stream(Request) BY DEF TypeOK
  <2>2. PICK m \in Request : m = [op |-> op, user |-> u] OBVIOUS
  <2>3. PICK L \in Nat : L = Len(up) /\ DOMAIN up = 1..L
    BY <2>1, StreamSeq
  <2>4. PICK r : r = up \o Units(m, n) OBVIOUS
  <2>5. /\ Len(r) = L + n /\ DOMAIN r = 1..(L + n)
        /\ \A i \in 1..L : r[i] = up[i]
        /\ \A i \in 1..n : r[L + i] = [msg |-> m, part |-> i, of |-> n]
    <3>1. PICK M : M = Request OBVIOUS
    <3>2. up \in Stream(M) /\ m \in M BY <2>1, <3>1
    <3>3. /\ Len(r) = Len(up) + n /\ DOMAIN r = 1..(Len(up) + n)
          /\ \A i \in 1..Len(up) : r[i] = up[i]
          /\ \A i \in 1..n : r[Len(up) + i] =
               [msg |-> m, part |-> i, of |-> n]
      BY <2>4, <3>2, WriteSeq
    <3>4. QED BY <2>3, <3>3
  <2>6. up' = r BY <1>2, <2>2, <2>4 DEF Send
  <2>7. \A i \in 1..(L + n) : i \notin 1..L => i - L \in 1..n /\ L + (i - L) = i
    OBVIOUS
  <2>8. ASSUME NEW i \in 1..(L + n), i \notin 1..L
        PROVE  r[i].msg = m /\ (n = 1 => i = L + n)
    <3>1. PICK k \in 1..n : i = L + k BY <2>7, <2>8
    <3>2. r[i] = [msg |-> m, part |-> k, of |-> n] BY <2>5, <3>1
    <3>3. QED BY <3>1, <3>2
  <2>9. L + n \in 1..(L + n) /\ r[L + n].msg = m
    <3>1. n \in 1..n OBVIOUS
    <3>2. r[L + n] = [msg |-> m, part |-> n, of |-> n] BY <2>5, <3>1
    <3>3. QED BY <3>2
  <2>10. QED BY <1>2, <2>2, <2>3, <2>5, <2>6, <2>8, <2>9
<1>3. QED BY <1>1, <1>2

(* A send of the main thread, from the menu or at the commands. *)
LEMMA SendLive ==
  ASSUME TypeOK, Live, screen \in {"menu", "chat"},
         NEW op \in {"login", "reg", "chat", "logout"},
         NEW u \in User \cup {NoUser}, NEW n \in Nat \ {0}, Send(op, u, n),
         op \in {"login", "reg"} =>
           screen = "menu" /\ screen' = op /\ n = 1,
         op = "login" => u \in User,
         op = "chat" => screen = "chat" /\ screen' = "chat",
         op = "logout" => screen = "chat" /\ screen' = "menu" /\ u = current
  PROVE  Live'
<1>1. [op |-> op, user |-> u] \in Request BY DEF Request
<1>2. /\ \A i \in DOMAIN up : i \in DOMAIN up' /\ up'[i] = up[i]
      /\ \A i \in DOMAIN up' : i \notin DOMAIN up =>
           /\ up'[i].msg = [op |-> op, user |-> u] /\ link = "open"
           /\ n = 1 => i = Len(up')
      /\ link # "open" => up' = up
      /\ link = "open" => /\ Len(up') \in DOMAIN up'
                          /\ up'[Len(up')].msg = [op |-> op, user |-> u]
  BY <1>1, SendGrows
<1>3. UNCHANGED <<current, held, late, down, link, serving, job, mapped,
                  elsewhere, inline, touched, unheard, whose>>
  BY DEF Send, serverVars, userVars
<1>4. /\ \A i \in DOMAIN up : ~Asks(i)
      /\ serving = "idle"
      /\ \A j \in DOMAIN down : ~Answers(j) /\ ~LetsIn(j)
  BY Quiet DEF Live
<1>5. Framed' /\ OneAnswer'
  BY <1>3 DEF Live, Framed, OneAnswer, Start, Answers
<1>6. Dialogue'
  <2>1. ASSUME NEW i \in DOMAIN up', Asks(i)'
        PROVE  i = Len(up') /\ screen' = up'[i].msg.op
    <3>1. i \notin DOMAIN up BY <1>2, <1>4, <2>1 DEF Asks
    <3>2. up'[i].msg = [op |-> op, user |-> u] BY <1>2, <3>1
    <3>3. up'[i].msg.op = op BY <3>2
    <3>4. QED BY <1>2, <2>1, <3>1, <3>3 DEF Asks
  <2>2. \A j \in DOMAIN down' : ~Answers(j)' BY <1>3, <1>4 DEF Answers
  <2>3. screen' = "chat" => \A i \in DOMAIN up' : up'[i].msg.op = "chat"
    BY <1>2 DEF Live, Dialogue
  <2>4. QED BY <1>3, <1>4, <2>1, <2>2, <2>3 DEF Dialogue
<1>7. current \in User \/ screen = "menu" BY DEF Live, ByUser
<1>8. ByUser'
  <2>1. op \in {"login", "logout"} => u \in User BY <1>7
  <2>2. ASSUME NEW i \in DOMAIN up', up'[i].msg.op \in {"login", "logout"}
        PROVE  up'[i].msg.user \in User
    <3>1. CASE i \in DOMAIN up BY <1>2, <2>2, <3>1 DEF Live, ByUser
    <3>2. CASE i \notin DOMAIN up BY <1>2, <2>1, <2>2, <3>2
    <3>3. QED BY <3>1, <3>2
  <2>3. \A j \in DOMAIN down' : ~LetsIn(j)' BY <1>3, <1>4 DEF LetsIn
  <2>4. screen' = "chat" => screen = "chat" OBVIOUS
  <2>5. QED BY <1>3, <1>7, <2>2, <2>3, <2>4 DEF ByUser
<1>9. Closed' BY <1>2, <1>3 DEF Live, Closed
<1>10. Entered'
  <2>1. screen' = "chat" => screen = "chat" OBVIOUS
  <2>2. \A j \in DOMAIN down' : ~LetsIn(j)' BY <1>3, <1>4 DEF LetsIn
  <2>3. QED BY <1>3, <1>4, <2>1, <2>2 DEF Live, Entered
<1>11. Sessions'
  <2>1. ASSUME NEW v \in mapped \ unheard PROVE Session(v)'
    <3>1. Session(v) BY <2>1 DEF Live, Sessions, Waiting
    <3>2. CASE \E i \in DOMAIN up : up[i].msg = [op |-> "logout", user |-> v]
      BY <1>2, <3>2 DEF Session
    <3>3. CASE screen = "chat" /\ v = current
      <4>1. CASE screen' = "chat" BY <1>3, <3>3, <4>1 DEF Session
      <4>2. CASE op = "logout"
        <5>1. link = "open" BY <2>1 DEF Live, Closed, TypeOK
        <5>2. QED BY <1>2, <3>3, <4>2, <5>1 DEF Session
      <4>3. CASE op \in {"login", "reg"}
        BY <1>2, <1>3, <3>1, <3>3, <4>3 DEF Session
      <4>4. QED BY <4>1, <4>2, <4>3
    <3>4. QED BY <1>4, <3>1, <3>2, <3>3 DEF Session
  <2>2. QED BY <1>3, <2>1 DEF Sessions
<1>12. Addressed' /\ HeldFor'
  BY <1>3 DEF Live, Addressed, HeldFor, LetsIn
<1>13. QED
  BY <1>5, <1>6, <1>8, <1>9, <1>10, <1>11, <1>12 DEF Live

(* Something is read: what is left, and what it was. *)
LEMMA ReadLeft ==
  ASSUME TypeOK, Live, NEW n \in 1..Buffer, Received(n), Rest(n)
  PROVE  /\ Framed' /\ OneAnswer'
         /\ UNCHANGED <<up, serverVars>>
         /\ 1 \in DOMAIN down /\ down[1].msg \in Ack \cup Chat
         /\ \A j \in DOMAIN down' :
              j + n \in DOMAIN down /\ down'[j] = down[j + n]
         /\ Parses(Take(down, n)) /\ Answers(1) =>
              \A j \in DOMAIN down' : ~Answers(j)'
         /\ \A j \in DOMAIN down, i \in DOMAIN down' :
              Answers(j) /\ Answers(i)' => down'[i].msg = down[j].msg
<1>1. /\ n \in 1..Len(down) /\ 1 \in DOMAIN down
      /\ down[1].msg \in Ack \cup Chat
      /\ down' = Drop(down, n) /\ UNCHANGED <<up, serverVars, sends>>
  BY ReadType
<1>2. down \in Stream(Ack \cup Chat) BY DEF TypeOK
<1>3. /\ Framed /\ OneAnswer BY DEF Live
<1>4. /\ Framed' /\ DOMAIN down' = 1..(Len(down) - n)
      /\ \A j \in DOMAIN down' : /\ j + n \in DOMAIN down
                                 /\ down'[j] = down[j + n]
                                 /\ Start(j)' = Start(j + n) - n
  BY <1>1, <1>2, <1>3, FramedRead
<1>5. n \in Nat /\ n >= 1 /\ 1 \in 1..n BY <1>1, ClientAssumption
<1>6. Len(down) \in Nat BY <1>2, StreamSeq
<1>7. \A j \in DOMAIN down' : Answers(j)' <=> Answers(j + n)
  BY <1>4 DEF Answers
<1>8. OneAnswer' BY <1>3, <1>4, <1>7 DEF OneAnswer
<1>9. ASSUME Parses(Take(down, n)), Answers(1), NEW j \in DOMAIN down'
      PROVE  ~Answers(j)'
  <2>1. /\ \A i \in 1..n : Start(i) = 0
        /\ \A i \in (n + 1)..Len(down) : Start(i) >= n
    BY <1>1, <1>2, <1>3, <1>9, ReadWhole
  <2>2. Start(1) = 0 BY <1>5, <2>1
  <2>3. j + n \in (n + 1)..Len(down) BY <1>4, <1>5, <1>6
  <2>4. Start(j + n) >= n BY <2>1, <2>3
  <2>5. Answers(j + n) => Start(j + n) = 0
    BY <1>1, <1>3, <1>4, <1>9, <2>2 DEF OneAnswer
  <2>6. QED BY <1>5, <1>7, <2>4, <2>5
<1>10. ASSUME NEW j \in DOMAIN down, NEW i \in DOMAIN down',
              Answers(j), Answers(i)'
       PROVE  down'[i].msg = down[j].msg
  <2>1. Answers(i + n) /\ i + n \in DOMAIN down BY <1>4, <1>7, <1>10
  <2>2. down[i + n].msg = down[j].msg
    BY <1>2, <1>3, <1>10, <2>1, SameAnswer
  <2>3. QED BY <1>4, <2>2
<1>11. QED BY <1>1, <1>4, <1>8, <1>9, <1>10

(* The main thread gets the answer it waits for. *)
LEMMA AnswerLive ==
  ASSUME TypeOK, Live, recvAnswer, Alive'
  PROVE  Live'
<1>1. PICK n \in 1..Buffer :
        /\ Received(n) /\ Rest(n) /\ UNCHANGED held
        /\ LET m == Take(down, n)[1].msg IN
             IF ~Parses(Take(down, n)) \/ m.errno = "null" THEN End("died")
             ELSE IF m.errno = "0" /\ screen = "login" THEN Load(m) ELSE Menu
  BY DEF recvAnswer
<1>2. ~End("died") BY DEF End, Alive, Ended
<1>3. Parses(Take(down, n)) BY <1>1, <1>2
<1>4. /\ Framed' /\ OneAnswer'
      /\ UNCHANGED <<up, serverVars>>
      /\ 1 \in DOMAIN down /\ down[1].msg \in Ack \cup Chat
      /\ \A j \in DOMAIN down' :
           j + n \in DOMAIN down /\ down'[j] = down[j + n]
      /\ Answers(1) => \A j \in DOMAIN down' : ~Answers(j)'
  BY <1>1, <1>3, ReadLeft
<1>5. PICK m \in Ack \cup Chat : m = down[1].msg BY <1>4
<1>6. /\ m.errno # "null"
      /\ IF m.errno = "0" /\ screen = "login" THEN Load(m) ELSE Menu
  <2>1. Take(down, n)[1] = down[1] BY <1>1, ReadType
  <2>2. QED BY <1>1, <1>2, <1>3, <1>5, <2>1
<1>7. m.type \in {"login", "reg"} BY <1>6, MessageFields
<1>8. Answers(1) BY <1>5, <1>7 DEF Answers
<1>9. /\ up = <<>> /\ serving = "idle" /\ screen = m.type
  BY <1>4, <1>5, <1>8 DEF Live, Dialogue
<1>10. \A j \in DOMAIN down' : ~Answers(j)' /\ ~LetsIn(j)'
  BY <1>4, <1>8 DEF Answers, LetsIn
<1>11. screen' \in {"chat", "menu"} BY <1>6 DEF Load, Menu
<1>12. Dialogue'
  <2>1. DOMAIN up' = {} /\ serving' = "idle" /\ up' = <<>>
    BY <1>4, <1>9 DEF serverVars
  <2>2. QED BY <1>10, <2>1 DEF Dialogue
<1>13. screen' = "chat" =>
         screen = "login" /\ m.errno = "0" /\ current' = m.user /\ LetsIn(1)
  BY <1>5, <1>6, <1>9 DEF Load, Menu, LetsIn
<1>14. ByUser' /\ Closed'
  <2>1. screen' = "chat" => current' \in User
    BY <1>4, <1>5, <1>13 DEF Live, ByUser
  <2>2. QED
    BY <1>4, <1>10, <2>1 DEF Live, ByUser, Closed, serverVars, userVars
<1>15. Entered'
  <2>1. link' = "open" /\ screen' = "chat" =>
          current' \in (mapped' \cap inline') \cup touched'
    BY <1>4, <1>5, <1>13 DEF Live, Entered, serverVars, userVars
  <2>2. QED
    BY <1>4, <1>9, <1>10, <2>1 DEF Live, Entered, serverVars, userVars
<1>16. Sessions'
  <2>1. ASSUME NEW u \in mapped \ unheard PROVE Session(u)'
    <3>1. Asked BY <1>4, <1>8 DEF Asked, Answers
    <3>2. Session(u) BY <2>1, <3>1 DEF Live, Sessions
    <3>3. screen # "chat" /\ up = <<>> /\ serving = "idle" BY <1>7, <1>9
    <3>4. PICK j \in DOMAIN down : LetsIn(j) /\ u = down[j].msg.user
      BY <3>2, <3>3 DEF Session
    <3>5. Answers(j) BY <3>4 DEF LetsIn, Answers
    <3>6. down[j].msg = m
      <4>1. Framed /\ OneAnswer /\ down \in Stream(Ack \cup Chat)
        BY DEF Live, TypeOK
      <4>2. QED BY <1>4, <1>5, <1>8, <3>5, <4>1, SameAnswer
    <3>7. m.type = "login" /\ m.errno = "0" /\ u = m.user
      BY <3>4, <3>6 DEF LetsIn
    <3>8. screen' = "chat" /\ current' = m.user
      BY <1>6, <1>9, <3>7 DEF Load
    <3>9. QED BY <3>7, <3>8 DEF Session
  <2>2. QED BY <1>4, <2>1 DEF Sessions, serverVars, userVars
<1>17. Addressed'
  <2>1. ASSUME NEW i \in DOMAIN down', down'[i].msg.type = "chat"
        PROVE  /\ down'[i].msg.no <= Len(whose')
               /\ screen' = "chat" =>
                    whose'[down'[i].msg.no] \in {current'} \cup unheard'
    <3>1. i + n \in DOMAIN down /\ down'[i] = down[i + n] BY <1>4
    <3>2. n \in Nat /\ i \in Nat /\ 1 \in 1..(i + n - 1)
      <4>1. n \in Nat /\ n >= 1 /\ i \in Nat /\ i >= 1
        <5>1. down' \in Stream(Ack \cup Chat) BY <1>1, ReadType
        <5>2. i \in 1..Len(down') /\ Len(down') \in Nat
          BY <5>1, StreamSeq
        <5>3. QED BY <5>2, ClientAssumption
      <4>2. QED BY <4>1
    <3>3. /\ down[i + n].msg.no <= Len(whose)
          /\ LetsIn(1) => whose[down[i + n].msg.no]
                            \in {down[1].msg.user} \cup unheard
      <4>1. PICK k \in DOMAIN down : k = i + n BY <3>1
      <4>2. down[k].msg.type = "chat" /\ 1 \in 1..(k - 1)
        BY <2>1, <3>1, <3>2, <4>1
      <4>3. /\ down[k].msg.no <= Len(whose)
            /\ \A j \in 1..(k - 1) : LetsIn(j) =>
                 whose[down[k].msg.no] \in {down[j].msg.user} \cup unheard
        BY <4>2 DEF Live, Addressed
      <4>4. QED BY <4>1, <4>2, <4>3
    <3>4. QED BY <1>4, <1>5, <1>13, <3>1, <3>3 DEF serverVars
  <2>2. \A i \in DOMAIN down' : \A j \in 1..(i - 1) : ~LetsIn(j)'
    <3>1. ASSUME NEW i \in DOMAIN down', NEW j \in 1..(i - 1)
          PROVE  j \in DOMAIN down'
      <4>1. down' \in Stream(Ack \cup Chat) BY <1>1, ReadType
      <4>2. DOMAIN down' = 1..Len(down') /\ Len(down') \in Nat
        BY <4>1, StreamSeq
      <4>3. QED BY <4>2
    <3>2. QED BY <1>10, <3>1
  <2>3. QED BY <2>1, <2>2 DEF Addressed
<1>18. HeldFor'
  <2>1. held' = held /\ whose' = whose BY <1>1, <1>4 DEF serverVars
  <2>2. screen' = "chat" /\ held' # <<>> => late'
    BY <1>6, <2>1 DEF Load, Menu
  <2>3. QED BY <2>1, <2>2 DEF Live, HeldFor
<1>19. QED
  BY <1>4, <1>12, <1>14, <1>15, <1>16, <1>17, <1>18 DEF Live

(* The read thread gets a chat, or an answer that is not its own. *)
LEMMA ReceiveLive ==
  ASSUME TypeOK, Live, readTaskHandler
  PROVE  Live'
<1>1. PICK n \in 1..Buffer :
        Received(n) /\ Rest(n) /\ held' = Take(down, n)
  BY DEF readTaskHandler
<1>2. Take(down, n)[1] = down[1] BY <1>1, ReadType
<1>3. UNCHANGED <<screen, current, late>> BY DEF readTaskHandler
<1>4. /\ Framed' /\ OneAnswer'
      /\ UNCHANGED <<up, serverVars>>
      /\ 1 \in DOMAIN down
      /\ \A j \in DOMAIN down' :
           j + n \in DOMAIN down /\ down'[j] = down[j + n]
      /\ \A j \in DOMAIN down, i \in DOMAIN down' :
           Answers(j) /\ Answers(i)' => down'[i].msg = down[j].msg
  BY <1>1, ReadLeft
<1>5. UNCHANGED <<screen, current>> BY <1>3
<1>6. \A j \in DOMAIN down' : /\ Answers(j)' <=> Answers(j + n)
                              /\ LetsIn(j)' <=> LetsIn(j + n)
  BY <1>4 DEF Answers, LetsIn
<1>7. Dialogue'
  <2>1. \A j \in DOMAIN down' : Answers(j)' =>
          up = <<>> /\ serving = "idle" /\ screen = down'[j].msg.type
    BY <1>4, <1>6 DEF Live, Dialogue
  <2>2. QED
    BY <1>4, <1>5, <2>1 DEF Live, Dialogue, Asks, serverVars
<1>8. ByUser' /\ Closed'
  BY <1>4, <1>5, <1>6 DEF Live, ByUser, Closed, serverVars, userVars
<1>9. Entered'
  BY <1>4, <1>5, <1>6 DEF Live, Entered, serverVars, userVars
<1>10. Sessions'
  <2>1. ASSUME (Asked \/ ~Waiting)', NEW u \in mapped \ unheard
        PROVE  Session(u)'
    <3>1. Asked \/ ~Waiting
      BY <1>4, <1>5, <2>1 DEF Asked, Waiting, serverVars
    <3>2. Session(u) BY <2>1, <3>1 DEF Live, Sessions
    <3>3. ASSUME NEW j \in DOMAIN down, LetsIn(j), u = down[j].msg.user
          PROVE  Session(u)'
      <4>1. Answers(j) BY <3>3 DEF LetsIn, Answers
      <4>2. screen \in {"login", "reg"} /\ up = <<>> /\ serving = "idle"
        BY <4>1 DEF Live, Dialogue, Answers
      <4>3. PICK i \in DOMAIN down' : Answers(i)'
        BY <1>4, <1>5, <2>1, <4>2 DEF Asked, Waiting, Answers, serverVars
      <4>4. down'[i].msg = down[j].msg BY <1>4, <4>1, <4>3
      <4>5. QED BY <3>3, <4>4 DEF Session, LetsIn
    <3>4. QED BY <1>4, <1>5, <3>2, <3>3 DEF Session, serverVars
  <2>2. QED BY <1>4, <2>1 DEF Sessions, serverVars, userVars
<1>11. Addressed'
  <2>1. ASSUME NEW i \in DOMAIN down', down'[i].msg.type = "chat"
        PROVE  /\ down'[i].msg.no <= Len(whose')
               /\ screen' = "chat" =>
                    whose'[down'[i].msg.no] \in {current'} \cup unheard'
               /\ \A j \in 1..(i - 1) : LetsIn(j)' =>
                    whose'[down'[i].msg.no]
                      \in {down'[j].msg.user} \cup unheard'
    <3>1. i + n \in DOMAIN down /\ down'[i] = down[i + n] BY <1>4
    <3>2. DOMAIN down' = 1..Len(down') /\ Len(down') \in Nat /\ n \in Nat
      <4>1. down' \in Stream(Ack \cup Chat) BY <1>1, ReadType
      <4>2. QED BY <4>1, StreamSeq, ClientAssumption
    <3>3. \A j \in 1..(i - 1) : j \in DOMAIN down' /\ j + n \in 1..(i + n - 1)
      BY <3>2
    <3>4. /\ down[i + n].msg.no <= Len(whose)
          /\ screen = "chat" =>
               whose[down[i + n].msg.no] \in {current} \cup unheard
          /\ \A j \in 1..(i + n - 1) : LetsIn(j) =>
               whose[down[i + n].msg.no] \in {down[j].msg.user} \cup unheard
      <4>1. PICK k \in DOMAIN down : k = i + n BY <3>1
      <4>2. down[k].msg.type = "chat" BY <2>1, <3>1, <4>1
      <4>3. /\ down[k].msg.no <= Len(whose)
            /\ screen = "chat" =>
                 whose[down[k].msg.no] \in {current} \cup unheard
            /\ \A j \in 1..(k - 1) : LetsIn(j) =>
                 whose[down[k].msg.no] \in {down[j].msg.user} \cup unheard
        BY <4>2 DEF Live, Addressed
      <4>4. i \in Nat /\ n \in Nat BY <3>2
      <4>5. 1..(k - 1) = 1..(i + n - 1) BY <4>1, <4>4
      <4>6. QED BY <4>1, <4>3, <4>5
    <3>5. ASSUME NEW j \in 1..(i - 1), LetsIn(j)'
          PROVE  whose[down[i + n].msg.no]
                   \in {down'[j].msg.user} \cup unheard
      <4>1. LetsIn(j + n) /\ j + n \in 1..(i + n - 1) /\ j \in DOMAIN down'
        BY <1>6, <3>3, <3>5
      <4>2. down'[j] = down[j + n] BY <1>4, <4>1
      <4>3. QED BY <3>4, <4>1, <4>2
    <3>6. QED BY <1>4, <1>5, <3>1, <3>4, <3>5 DEF serverVars
  <2>2. QED BY <2>1 DEF Addressed
<1>12. HeldFor'
  <2>1. held'[1] = down[1] BY <1>1, <1>2
  <2>2. QED
    BY <1>3, <1>4, <2>1 DEF Live, Addressed, HeldFor, serverVars
<1>13. QED BY <1>4, <1>7, <1>8, <1>9, <1>10, <1>11, <1>12 DEF Live

(* It displays the chat, and holds nothing any more. *)
LEMMA DisplayLive ==
  ASSUME TypeOK, Live, display, Alive'
  PROVE  Live'
<1>1. held' = <<>> /\ UNCHANGED <<up, down, serverVars>> BY DEF display
<1>2. ~End("died") BY DEF End, Alive, Ended
<1>3. UNCHANGED <<screen, current>> BY <1>2 DEF display, Show
<1>4. (Framed /\ OneAnswer)'
  BY <1>1 DEF Live, Framed, OneAnswer, Start, Answers
<1>5. (Dialogue /\ ByUser /\ Closed)'
  BY <1>1, <1>3 DEF Live, Dialogue, ByUser, Closed, Asks, Answers, LetsIn,
                    serverVars, userVars
<1>6. (Entered /\ Addressed)'
  BY <1>1, <1>3 DEF Live, Entered, Addressed, LetsIn, serverVars, userVars
<1>7. Sessions'
  BY <1>1, <1>3 DEF Live, Sessions, Session, Asked, Waiting, LetsIn,
                    serverVars, userVars
<1>8. HeldFor' BY <1>1 DEF HeldFor
<1>9. QED BY <1>4, <1>5, <1>6, <1>7, <1>8 DEF Live

(* The server is gone, and with it what was on its way to it. *)
LEMMA GoneLive ==
  ASSUME TypeOK, Live, ServerDies, UNCHANGED clientVars
  PROVE  Live'
<1>1. /\ link' = "closed" /\ serving' = "idle" /\ mapped' = {} /\ up' = <<>>
      /\ elsewhere' = {}
      /\ UNCHANGED <<down, unheard, whose, screen, current, held, late>>
  BY DEF ServerDies, clientVars
<1>2. Framed' /\ OneAnswer'
  BY <1>1 DEF Live, Framed, OneAnswer, Start, Answers
<1>3. Dialogue' /\ ByUser'
  <2>1. \A j \in DOMAIN down' : Answers(j)' => screen' = down'[j].msg.type
    BY <1>1 DEF Live, Dialogue, Answers
  <2>2. DOMAIN up' = {} BY <1>1
  <2>3. QED BY <1>1, <2>1, <2>2 DEF Live, Dialogue, ByUser, LetsIn
<1>4. Closed' /\ Entered' /\ Sessions'
  BY <1>1 DEF Closed, Entered, Sessions
<1>5. Addressed' /\ HeldFor' BY <1>1 DEF Live, Addressed, HeldFor, LetsIn
<1>6. QED BY <1>2, <1>3, <1>4, <1>5 DEF Live

(* Somebody else acts on a user: he is one of those touched. *)
LEMMA ElseLive ==
  ASSUME TypeOK, Live, somebodyElse
  PROVE  Live'
<1>1. /\ mapped' \subseteq mapped /\ elsewhere' \ elsewhere \subseteq touched'
      /\ touched \subseteq touched'
      /\ \A v \in User \ touched' : /\ v \in mapped => v \in mapped'
                                    /\ v \in inline => v \in inline'
      /\ UNCHANGED <<clientVars, up, down, link, serving, job, unheard, whose>>
  BY ElseType
<1>2. UNCHANGED <<screen, current, held, late>> BY <1>1 DEF clientVars
<1>3. Framed' /\ OneAnswer'
  BY <1>1 DEF Live, Framed, OneAnswer, Start, Answers
<1>4. Dialogue' /\ ByUser'
  BY <1>1, <1>2 DEF Live, Dialogue, ByUser, Asks, Answers, LetsIn
<1>5. Closed' BY <1>1, <1>2 DEF Live, Closed
<1>6. Entered'
  <2>1. elsewhere' \subseteq touched' BY <1>1 DEF Live, Entered
  <2>2. ASSUME NEW v \in User, v \in mapped \cup touched
        PROVE  v \in mapped' \cup touched'
    BY <1>1, <2>2
  <2>3. ASSUME NEW v \in User, v \in (mapped \cap inline) \cup touched
        PROVE  v \in (mapped' \cap inline') \cup touched'
    BY <1>1, <2>3
  <2>4. link' = "open" /\ serving' = "login_reply" =>
          job'.user \in mapped' \cup touched'
    BY <1>1, <2>2 DEF Live, Entered, Dialogue
  <2>5. link' = "open" => \A j \in DOMAIN down' : LetsIn(j)' =>
          down'[j].msg.user \in (mapped' \cap inline') \cup touched'
    BY <1>1, <2>3 DEF Live, Entered, ByUser, LetsIn
  <2>6. link' = "open" /\ screen' = "chat" =>
          current' \in (mapped' \cap inline') \cup touched'
    BY <1>1, <1>2, <2>3 DEF Live, Entered, ByUser
  <2>7. QED BY <2>1, <2>4, <2>5, <2>6 DEF Entered
<1>7. Sessions'
  BY <1>1, <1>2 DEF Live, Sessions, Session, Asked, Waiting, LetsIn
<1>8. Addressed' /\ HeldFor'
  BY <1>1, <1>2 DEF Live, Addressed, HeldFor, LetsIn
<1>9. QED BY <1>3, <1>4, <1>5, <1>6, <1>7, <1>8 DEF Live

(* While a question is in the server's hands, nobody else is entered. *)
LEMMA Alone ==
  ASSUME TypeOK, Live, Asked, up = <<>> \/ \E i \in DOMAIN up : Asks(i),
         \A j \in DOMAIN down : ~LetsIn(j), serving # "login_reply",
         NEW u \in mapped \ unheard
  PROVE  \E i \in DOMAIN up : up[i].msg = [op |-> "logout", user |-> u]
<1>1. Session(u) BY DEF Live, Sessions
<1>2. screen # "chat"
  <2>1. Waiting \/ ~Alive
    BY DEF Live, Dialogue, Asked, Asks, Answers, Waiting
  <2>2. QED BY <2>1 DEF Waiting, Alive, Ended
<1>3. QED BY <1>1, <1>2 DEF Session

(* A request is taken from the stream, and those behind it with it. *)
LEMMA TakenLive ==
  ASSUME TypeOK, Live, Alive, onMessage, ~ServerDies
  PROVE  Live'
<1>1. PICK n \in 1..MaxRead :
        /\ n <= Len(up) /\ ParsesFirst(Take(up, n)) /\ up' = Drop(up, n)
        /\ Dispatch(Take(up, n)[1].msg)
        /\ unheard' = unheard \cup
             Loggedout(Drop(Take(up, n), Take(up, n)[1].of))
        /\ UNCHANGED <<link, whose>>
  BY DEF onMessage
<1>2. /\ link = "open" /\ serving = "idle"
      /\ UNCHANGED <<screen, current, held, late>>
  BY DEF onMessage, clientVars
<1>3. PICK k : k = up[1].of OBVIOUS
<1>4. /\ n \in 1..Len(up) /\ Len(up) \in Nat /\ DOMAIN up = 1..Len(up)
      /\ 1 \in DOMAIN up /\ k \in 1..n /\ up[1].msg \in Request
      /\ Take(up, n)[1] = up[1]
      /\ \A i \in 1..k : up[i].msg = up[1].msg
      /\ DOMAIN up' = 1..(Len(up) - n)
      /\ \A i \in 1..(Len(up) - n) : i + n \in DOMAIN up
                                     /\ up'[i] = up[i + n]
      /\ unheard' = unheard \cup
           {up[i].msg.user : i \in {j \in (k + 1)..n : up[j].msg.op = "logout"}}
  BY <1>1, <1>3, TakenType
<1>5. PICK req \in Request : req = up[1].msg BY <1>4
<1>6. Dispatch(req) BY <1>1, <1>4, <1>5
<1>7. \A j \in DOMAIN down : ~Answers(j) /\ ~LetsIn(j)
  BY <1>4, Unanswered DEF Live
<1>8. unheard \subseteq unheard' /\ whose' = whose /\ link' = link
  BY <1>1
<1>9. HeldFor' /\ Closed' BY <1>2, <1>8 DEF Live, HeldFor, Closed
<1>10. ASSUME \A j \in DOMAIN down' : ~LetsIn(j)' PROVE ByUser'
  BY <1>2, <1>4, <1>10 DEF Live, ByUser
(* What a session is known by stays, but for the logout that is served. *)
<1>11. ASSUME NEW u \in mapped \ unheard',
              \E i \in DOMAIN up : up[i].msg = [op |-> "logout", user |-> u],
              req # [op |-> "logout", user |-> u]
       PROVE  \E i \in DOMAIN up' : up'[i].msg = [op |-> "logout", user |-> u]
  <2>1. PICK i \in DOMAIN up : up[i].msg = [op |-> "logout", user |-> u]
    BY <1>11
  <2>2. up[i].msg.op = "logout" /\ up[i].msg.user = u BY <2>1
  <2>3. i \notin 1..k BY <1>4, <1>5, <1>11, <2>1
  <2>4. i \notin (k + 1)..n BY <1>4, <1>11, <2>2
  <2>5. /\ i - n \in 1..(Len(up) - n) /\ (i - n) + n = i
    BY <1>4, <2>3, <2>4
  <2>6. up'[i - n] = up[i] /\ i - n \in DOMAIN up' BY <1>4, <2>5
  <2>7. QED BY <2>1, <2>6
(* A question: it was the last, so nothing is behind it. *)
<1>12. CASE req.op \in {"login", "reg"}
  <2>1. Asks(1) BY <1>5, <1>12 DEF Asks
  <2>2. Len(up) = 1 /\ screen = req.op
    BY <1>4, <1>5, <2>1 DEF Live, Dialogue
  <2>3. DOMAIN up' = {} /\ up' = <<>>
    <3>1. n = 1 BY <1>4, <2>2
    <3>2. up \in Stream(Request) BY DEF TypeOK
    <3>3. up \in Seq([msg : Request, part : Nat \ {0}, of : Nat \ {0}])
      BY <3>2, StreamSeq
    <3>4. Drop(up, n) = <<>> BY <2>2, <3>1, <3>3 DEF Drop
    <3>5. QED BY <1>1, <3>4
  <2>4. UNCHANGED <<mapped, elsewhere, inline, touched>>
    BY <1>6, <1>12 DEF Dispatch, reg, userVars
  <2>5. mapped \ unheard = {}
    <3>1. Asked /\ \E i \in DOMAIN up : Asks(i)
      BY <1>4, <2>1 DEF Asked, Asks
    <3>2. \A u \in mapped \ unheard :
            \E i \in DOMAIN up : up[i].msg = [op |-> "logout", user |-> u]
      BY <1>2, <1>7, <3>1, Alone
    <3>3. \A u : up[1].msg # [op |-> "logout", user |-> u]
      BY <1>5, <1>12
    <3>4. DOMAIN up = {1} BY <1>4, <2>2
    <3>5. QED BY <3>2, <3>3, <3>4
  <2>6. Sessions' BY <1>8, <2>4, <2>5 DEF Sessions
  <2>7. CASE req.op = "login"
    <3>1. UNCHANGED down /\ serving' = "login" /\ job' = req
      BY <1>6, <2>7 DEF Dispatch
    <3>2. req.user \in User BY <1>4, <1>5, <2>7 DEF Live, ByUser
    <3>3. Framed' /\ OneAnswer'
      BY <3>1 DEF Live, Framed, OneAnswer, Start, Answers
    <3>4. \A j \in DOMAIN down' : ~Answers(j)' /\ ~LetsIn(j)'
      BY <1>7, <3>1 DEF Answers, LetsIn
    <3>5. Dialogue'
      BY <1>2, <2>2, <2>3, <2>7, <3>1, <3>2, <3>4 DEF Dialogue
    <3>6. Entered' BY <1>2, <2>2, <2>4, <2>7, <3>1, <3>4 DEF Live, Entered
    <3>7. Addressed'
      BY <1>2, <1>8, <3>1 DEF Live, Addressed, LetsIn
    <3>8. ByUser' BY <1>10, <3>4
    <3>9. QED BY <1>9, <2>6, <3>3, <3>5, <3>6, <3>7, <3>8 DEF Live
  <2>8. CASE req.op = "reg"
    <3>1. reg BY <1>6, <2>8 DEF Dispatch
    <3>2. UNCHANGED <<serving, job>> BY <3>1 DEF reg
    <3>3. PICK e \in {"0", "1"}, u \in User \cup {NoUser},
               type \in {"login", "reg"}, j \in Nat \ {0} :
            Answer(type, e, u, j) /\ type = "reg"
      BY <3>1 DEF reg
    <3>4. PICK m : m = [type |-> type, errno |-> e, user |-> u] OBVIOUS
    <3>5. m \in Ack \cup Chat /\ down' = down \o Units(m, j)
      BY <3>3, <3>4, AnswerType
    <3>6. m.type = "reg" BY <3>3, <3>4
    <3>7. /\ Framed'
          /\ \A i \in DOMAIN down : down'[i] = down[i]
          /\ \A i \in DOMAIN down' : i \notin DOMAIN down =>
               down'[i].msg = m /\ Start(i)' = Len(down)
          /\ DOMAIN down' = 1..(Len(down) + j)
          /\ Len(down) \in Nat /\ DOMAIN down = 1..Len(down)
      <4>1. PICK M : M = Ack \cup Chat OBVIOUS
      <4>2. down \in Stream(M) /\ m \in M /\ Framed
        BY <3>5, <4>1 DEF TypeOK, Live
      <4>3. QED BY <3>5, <4>2, FramedWrite
    <3>8. \A i \in DOMAIN down' : /\ Answers(i)' => i \notin DOMAIN down
                                  /\ ~LetsIn(i)'
      BY <1>7, <3>6, <3>7 DEF Answers, LetsIn
    <3>9. OneAnswer' BY <3>7, <3>8 DEF OneAnswer
    <3>10. \A i \in DOMAIN down' : Answers(i)' => screen' = down'[i].msg.type
      BY <1>2, <2>2, <2>8, <3>6, <3>7, <3>8
    <3>11. Dialogue'
      BY <1>2, <2>2, <2>3, <2>8, <3>2, <3>10 DEF Dialogue
    <3>12. Entered' BY <1>2, <2>2, <2>4, <2>8, <3>2, <3>8 DEF Live, Entered
    <3>13. Addressed'
      <4>1. \A i \in DOMAIN down' : down'[i].msg.type = "chat" =>
              i \in DOMAIN down /\ down'[i] = down[i]
        BY <3>6, <3>7
      <4>2. \A i \in DOMAIN down' : \A h \in 1..(i - 1) : ~LetsIn(h)'
        <5>1. \A i \in DOMAIN down' : \A h \in 1..(i - 1) : h \in DOMAIN down'
          BY <3>7
        <5>2. QED BY <3>8, <5>1
      <4>3. QED
        BY <1>2, <1>8, <4>1, <4>2 DEF Live, Addressed
    <3>14. ByUser' BY <1>10, <3>8
    <3>15. QED
      BY <1>9, <2>6, <3>7, <3>9, <3>11, <3>12, <3>13, <3>14 DEF Live
  <2>9. QED BY <1>12, <2>7, <2>8
(* No question: a chat, or the logout of an earlier session. *)
<1>13. CASE req.op \notin {"login", "reg"}
  <2>1. UNCHANGED <<down, serving, job>>
    BY <1>6, <1>13 DEF Dispatch, logout_handler
  <2>2. Framed' /\ OneAnswer'
    BY <2>1 DEF Live, Framed, OneAnswer, Start, Answers
  <2>3. \A j \in DOMAIN down' : ~Answers(j)' /\ ~LetsIn(j)'
    BY <1>7, <2>1 DEF Answers, LetsIn
  <2>4. Dialogue'
    <3>1. ASSUME NEW i \in DOMAIN up', Asks(i)'
          PROVE  i = Len(up') /\ screen' = up'[i].msg.op
      <4>1. i + n \in DOMAIN up /\ up'[i] = up[i + n] BY <1>4
      <4>2. i + n = Len(up) /\ screen = up[i + n].msg.op
        BY <3>1, <4>1 DEF Live, Dialogue, Asks
      <4>3. Len(up') = Len(up) - n
        <5>1. Len(up) - n \in Nat BY <1>4
        <5>2. DOMAIN Drop(up, n) = 1..(Len(up) - n)
                /\ Len(Drop(up, n)) = Len(up) - n
          <6>1. n \in 0..Len(up) BY <1>4
          <6>2. PICK S : up \in Seq(S)
            BY StreamSeq DEF TypeOK
          <6>3. QED BY <6>1, <6>2, DropSeq
        <5>3. QED BY <1>1, <5>2
      <4>4. QED BY <1>2, <1>4, <4>1, <4>2, <4>3
    <3>2. screen' = "chat" => \A i \in DOMAIN up' : up'[i].msg.op = "chat"
      BY <1>2, <1>4 DEF Live, Dialogue
    <3>3. QED BY <1>2, <2>1, <2>3, <3>1, <3>2 DEF Dialogue
  <2>5. \/ req.op = "logout" /\ logout_handler(req.user)
        \/ req.op = "chat" /\ UNCHANGED <<mapped, elsewhere, inline, touched>>
    BY <1>6, <1>13 DEF Dispatch, userVars
  <2>6. /\ mapped' \subseteq mapped
        /\ req.op = "logout" => mapped' = mapped \ {req.user}
        /\ elsewhere' \subseteq elsewhere /\ touched \subseteq touched'
    BY <2>5 DEF logout_handler, updateState
  <2>7. Entered'
    <3>1. screen' = "chat" =>
            current' \in (mapped' \cap inline') \cup touched'
      <4>1. screen = "chat" => req.op = "chat"
        BY <1>4, <1>5 DEF Live, Dialogue
      <4>2. QED BY <1>2, <2>5, <4>1 DEF Live, Entered
    <3>2. elsewhere' \subseteq touched' BY <2>6 DEF Live, Entered
    <3>3. QED BY <1>2, <2>1, <2>3, <3>1, <3>2 DEF Entered
  <2>8. Sessions'
    <3>1. ASSUME (Asked \/ ~Waiting)', NEW u \in mapped' \ unheard'
          PROVE  Session(u)'
      <4>1. Asked \/ ~Waiting
        BY <1>2, <1>4, <2>1, <3>1 DEF Asked, Waiting
      <4>2. u \in mapped \ unheard' /\ u \in mapped \ unheard
        BY <1>8, <2>6, <3>1
      <4>3. Session(u) BY <4>1, <4>2 DEF Live, Sessions
      <4>4. req # [op |-> "logout", user |-> u] BY <2>6, <3>1
      <4>5. CASE screen = "chat" /\ u = current
        BY <1>2, <4>5 DEF Session
      <4>6. CASE \E i \in DOMAIN up :
                   up[i].msg = [op |-> "logout", user |-> u]
        BY <1>11, <4>2, <4>4, <4>6 DEF Session
      <4>7. QED BY <1>2, <1>7, <4>3, <4>5, <4>6 DEF Session
    <3>2. QED BY <3>1 DEF Sessions
  <2>9. Addressed' BY <1>2, <1>8, <2>1 DEF Live, Addressed, LetsIn
  <2>10. ByUser' BY <1>10, <2>3
  <2>11. QED
    BY <1>9, <2>2, <2>4, <2>7, <2>8, <2>9, <2>10 DEF Live
<1>14. QED BY <1>12, <1>13

(* A message of the server on the stream to the client. *)
LEMMA Written ==
  ASSUME TypeOK, Framed, NEW m \in Ack \cup Chat, NEW n \in Nat \ {0},
         down' = down \o Units(m, n)
  PROVE  /\ Framed'
         /\ \A i \in DOMAIN down :
              i \in DOMAIN down' /\ down'[i] = down[i] /\ Start(i)' = Start(i)
         /\ \A i \in DOMAIN down' : i \notin DOMAIN down =>
              down'[i].msg = m /\ Start(i)' = Len(down)
         /\ Len(down) + 1 \in DOMAIN down'
         /\ down'[Len(down) + 1].msg = m
         /\ \A i \in DOMAIN down' : \A j \in 1..(i - 1) : j \in DOMAIN down'
         /\ \A i \in DOMAIN down : \A j \in 1..(i - 1) : j \in DOMAIN down
<1>1. /\ Framed'
      /\ \A i \in DOMAIN down : down'[i] = down[i]
      /\ \A i \in DOMAIN down' : i \notin DOMAIN down =>
           down'[i].msg = m /\ Start(i)' = Len(down)
      /\ DOMAIN down' = 1..(Len(down) + n)
      /\ Len(down) \in Nat /\ DOMAIN down = 1..Len(down)
  <2>1. PICK M : M = Ack \cup Chat OBVIOUS
  <2>2. down \in Stream(M) /\ m \in M BY <2>1 DEF TypeOK
  <2>3. QED BY <2>2, FramedWrite
<1>2. \A i \in DOMAIN down : Start(i)' = Start(i) BY <1>1 DEF Start
<1>3. /\ Len(down) + 1 \in DOMAIN down' /\ Len(down) + 1 \notin DOMAIN down
      /\ \A i \in DOMAIN down : i \in DOMAIN down'
  BY <1>1
<1>4. /\ \A i \in DOMAIN down' : \A j \in 1..(i - 1) : j \in DOMAIN down'
      /\ \A i \in DOMAIN down : \A j \in 1..(i - 1) : j \in DOMAIN down
  BY <1>1
<1>5. QED BY <1>1, <1>2, <1>3, <1>4

(* The login of the client is refused, or its user entered into the map. *)
LEMMA LoginLive ==
  ASSUME TypeOK, Live, login
  PROVE  Live'
<1>1. /\ link = "open" /\ serving = "login"
      /\ UNCHANGED <<screen, current, held, late, up, link, elsewhere, inline,
                     unheard, whose>>
  BY DEF login, clientVars
<1>2. up = <<>> /\ screen = "login" /\ job.user \in User
  BY <1>1 DEF Live, Dialogue
<1>3. \A j \in DOMAIN down : ~Answers(j) /\ ~LetsIn(j)
  BY <1>1, Unanswered DEF Live
<1>4. mapped \ unheard = {}
  <2>1. Asked BY <1>1 DEF Asked
  <2>2. \A u \in mapped \ unheard :
          \E i \in DOMAIN up : up[i].msg = [op |-> "logout", user |-> u]
    BY <1>1, <1>2, <1>3, <2>1, Alone
  <2>3. DOMAIN up = {} BY <1>2
  <2>4. QED BY <2>2, <2>3
<1>5. HeldFor' /\ Closed' BY <1>1 DEF Live, HeldFor, Closed
<1>6. DOMAIN up' = {} /\ up' = <<>> BY <1>1, <1>2
<1>7. CASE /\ Answer("login", "1", NoUser, 1)
           /\ serving' = "idle" /\ job' = NoJob
           /\ UNCHANGED <<mapped, touched>>
  <2>1. PICK e \in {"0", "1"}, u \in User \cup {NoUser},
             type \in {"login", "reg"}, n \in Nat \ {0} :
          Answer(type, e, u, n) /\ type = "login" /\ e = "1"
    BY <1>7
  <2>2. PICK m : m = [type |-> type, errno |-> e, user |-> u] OBVIOUS
  <2>3. m \in Ack \cup Chat /\ down' = down \o Units(m, n)
    BY <2>1, <2>2, AnswerType
  <2>4. m.type = "login" /\ m.errno = "1" BY <2>1, <2>2
  <2>5. /\ Framed'
        /\ \A i \in DOMAIN down : down'[i] = down[i]
        /\ \A i \in DOMAIN down' : i \notin DOMAIN down =>
             down'[i].msg = m /\ Start(i)' = Len(down)
        /\ \A i \in DOMAIN down' : \A j \in 1..(i - 1) : j \in DOMAIN down'
    BY <2>3, Written DEF Live
  <2>6. \A i \in DOMAIN down' : /\ Answers(i)' => i \notin DOMAIN down
                                /\ ~LetsIn(i)'
    BY <1>3, <2>4, <2>5 DEF Answers, LetsIn
  <2>7. OneAnswer' BY <2>5, <2>6 DEF OneAnswer
  <2>8. \A i \in DOMAIN down' : Answers(i)' => screen' = down'[i].msg.type
    BY <1>1, <1>2, <2>4, <2>5, <2>6
  <2>9. Dialogue' BY <1>1, <1>2, <1>6, <1>7, <2>8 DEF Dialogue
  <2>10. Entered' /\ ByUser'
    BY <1>1, <1>2, <1>6, <1>7, <2>6 DEF Live, Entered, ByUser
  <2>11. Sessions' BY <1>1, <1>4, <1>7 DEF Sessions
  <2>12. Addressed'
    <3>1. \A i \in DOMAIN down' : down'[i].msg.type = "chat" =>
            i \in DOMAIN down /\ down'[i] = down[i]
      BY <2>4, <2>5
    <3>2. \A i \in DOMAIN down' : \A j \in 1..(i - 1) : ~LetsIn(j)'
      BY <2>5, <2>6
    <3>3. QED BY <1>1, <3>1, <3>2 DEF Live, Addressed
  <2>13. QED
    BY <1>5, <2>5, <2>7, <2>9, <2>10, <2>11, <2>12 DEF Live
<1>8. CASE /\ serving' = "login_reply" /\ UNCHANGED <<down, job>>
           /\ IF job.user \in elsewhere
              THEN UNCHANGED <<mapped, touched>>
              ELSE /\ mapped' = mapped \cup {job.user}
                   /\ touched' = touched \ {job.user}
  <2>1. Framed' /\ OneAnswer'
    BY <1>8 DEF Live, Framed, OneAnswer, Start, Answers
  <2>2. \A j \in DOMAIN down' : ~Answers(j)' /\ ~LetsIn(j)'
    BY <1>3, <1>8 DEF Answers, LetsIn
  <2>3. Dialogue' BY <1>1, <1>2, <1>6, <1>8, <2>2 DEF Dialogue
  <2>4. Entered' /\ ByUser'
    <3>1. elsewhere' \subseteq touched' BY <1>1, <1>8 DEF Live, Entered
    <3>2. job'.user \in mapped' \cup touched'
      BY <1>8 DEF Live, Entered
    <3>3. QED BY <1>1, <1>2, <1>6, <2>2, <3>1, <3>2 DEF Entered, ByUser
  <2>5. Sessions' BY <1>1, <1>4, <1>8 DEF Sessions, Session
  <2>6. Addressed' BY <1>1, <1>8 DEF Live, Addressed, LetsIn
  <2>7. QED BY <1>5, <2>1, <2>3, <2>4, <2>5, <2>6 DEF Live
<1>9. QED BY <1>7, <1>8 DEF login

(* The user in the map is answered, and behind it come only his chats. *)
LEMMA ReplyLive ==
  ASSUME TypeOK, Live, login_reply
  PROVE  Live'
<1>1. /\ link = "open" /\ serving = "login_reply" /\ serving' = "idle"
      /\ \/ inline' = inline \cup {job.user} /\ touched' = touched
         \/ inline' = inline /\ touched' = touched \cup {job.user}
      /\ UNCHANGED <<screen, current, held, late, up, link, mapped, elsewhere,
                     unheard, whose>>
  BY DEF login_reply, updateState, clientVars
<1>2. up = <<>> /\ screen = "login" /\ job.user \in User
  BY <1>1 DEF Live, Dialogue
<1>3. \A j \in DOMAIN down : ~Answers(j) /\ ~LetsIn(j)
  BY <1>1, Unanswered DEF Live
<1>4. DOMAIN up' = {} /\ up' = <<>> BY <1>1, <1>2
<1>5. job.user \in mapped \cup touched BY <1>1 DEF Live, Entered
<1>6. PICK e \in {"0", "1"}, u \in User \cup {NoUser},
           type \in {"login", "reg"}, n \in Nat \ {0} :
        Answer(type, e, u, n) /\ type = "login" /\ e = "0" /\ u = job.user
  BY <1>2, ClientAssumption DEF login_reply
<1>7. PICK m : m = [type |-> type, errno |-> e, user |-> u] OBVIOUS
<1>8. m \in Ack \cup Chat /\ down' = down \o Units(m, n)
  BY <1>6, <1>7, AnswerType
<1>9. m.type = "login" /\ m.errno = "0" /\ m.user = job.user BY <1>6, <1>7
<1>10. /\ Framed'
       /\ \A i \in DOMAIN down :
            i \in DOMAIN down' /\ down'[i] = down[i] /\ Start(i)' = Start(i)
       /\ \A i \in DOMAIN down' : i \notin DOMAIN down =>
            down'[i].msg = m /\ Start(i)' = Len(down)
       /\ Len(down) + 1 \in DOMAIN down'
       /\ down'[Len(down) + 1].msg = m
       /\ \A i \in DOMAIN down : \A j \in 1..(i - 1) : j \in DOMAIN down
  BY <1>8, Written DEF Live
<1>11. \A i \in DOMAIN down' : Answers(i)' \/ LetsIn(i)' =>
         i \notin DOMAIN down /\ down'[i].msg = m
  BY <1>3, <1>10 DEF Answers, LetsIn
<1>12. OneAnswer' BY <1>10, <1>11 DEF OneAnswer
<1>13. Dialogue' BY <1>1, <1>2, <1>4, <1>9, <1>11 DEF Dialogue
<1>14. ByUser' /\ Closed' /\ HeldFor'
  BY <1>1, <1>2, <1>4, <1>9, <1>11 DEF Live, ByUser, Closed, HeldFor
<1>15. Entered' BY <1>1, <1>2, <1>5, <1>9, <1>11 DEF Live, Entered
<1>16. Sessions'
  <2>1. ASSUME NEW v \in mapped \ unheard PROVE Session(v)'
    <3>1. Asked BY <1>1 DEF Asked
    <3>2. Session(v) BY <2>1, <3>1 DEF Live, Sessions
    <3>3. DOMAIN up = {} BY <1>2
    <3>4. v = job.user BY <1>2, <1>3, <3>2, <3>3 DEF Session
    <3>5. PICK j \in DOMAIN down' : j = Len(down) + 1 BY <1>10
    <3>6. down'[j].msg = m BY <1>10, <3>5
    <3>7. LetsIn(j)' /\ v = down'[j].msg.user
      BY <1>9, <3>4, <3>6 DEF LetsIn
    <3>8. QED BY <3>7 DEF Session
  <2>2. QED BY <1>1, <2>1 DEF Sessions
<1>17. Addressed'
  <2>1. \A i \in DOMAIN down' : down'[i].msg.type = "chat" =>
          i \in DOMAIN down /\ down'[i] = down[i]
    BY <1>9, <1>10
  <2>2. \A i \in DOMAIN down : \A j \in 1..(i - 1) : ~LetsIn(j)'
    BY <1>10, <1>11
  <2>3. QED BY <1>1, <2>1, <2>2 DEF Live, Addressed
<1>18. QED
  BY <1>10, <1>12, <1>13, <1>14, <1>15, <1>16, <1>17 DEF Live

(* A chat is for a user of the map, and his session is the one ahead. *)
LEMMA PushLive ==
  ASSUME TypeOK, Live, NEW u \in User, Push(u)
  PROVE  Live'
<1>1. /\ u \in mapped /\ whose' = Append(whose, u)
      /\ UNCHANGED <<screen, current, held, late, up, link, serving, job,
                     mapped, elsewhere, inline, touched, unheard>>
  BY DEF Push, clientVars, userVars
<1>2. PICK L \in Nat : L = Len(whose) /\ whose \in Seq(User) BY DEF TypeOK
<1>3. Len(whose') = L + 1 /\ whose'[L + 1] = u
      /\ \A i \in 1..L : whose'[i] = whose[i]
  BY <1>1, <1>2
<1>4. PICK n \in Nat \ {0} :
        down' = down \o Units([type |-> "chat", errno |-> "null",
                               no |-> L + 1], n)
  BY <1>2, <1>3, ClientAssumption DEF Push
<1>5. PICK m : m = [type |-> "chat", errno |-> "null", no |-> L + 1] OBVIOUS
<1>6. m \in Ack \cup Chat /\ m.type = "chat" /\ m.no = L + 1
  <2>1. L + 1 \in 1..MaxChats BY <1>2, ClientAssumption DEF Push
  <2>2. QED BY <1>5, <2>1 DEF Chat
<1>7. /\ Framed'
      /\ \A i \in DOMAIN down :
           i \in DOMAIN down' /\ down'[i] = down[i] /\ Start(i)' = Start(i)
      /\ \A i \in DOMAIN down' : i \notin DOMAIN down => down'[i].msg = m
      /\ \A i \in DOMAIN down' : \A j \in 1..(i - 1) : j \in DOMAIN down'
  <2>1. down' = down \o Units(m, n) BY <1>4, <1>5
  <2>2. QED BY <1>6, <2>1, Written DEF Live
<1>8. \A i \in DOMAIN down' :
        /\ Answers(i)' => i \in DOMAIN down /\ Answers(i)
        /\ LetsIn(i)' => i \in DOMAIN down /\ LetsIn(i)
  BY <1>6, <1>7 DEF Answers, LetsIn
<1>9. OneAnswer' BY <1>7, <1>8 DEF Live, OneAnswer
<1>10. Dialogue' BY <1>1, <1>7, <1>8 DEF Live, Dialogue, Asks
<1>11. ByUser' /\ Closed'
  BY <1>1, <1>7, <1>8 DEF Live, ByUser, Closed
<1>12. Entered' BY <1>1, <1>7, <1>8 DEF Live, Entered
<1>13. Sessions'
  <2>1. (Asked \/ ~Waiting)' => Asked \/ ~Waiting
    BY <1>1, <1>7, <1>8 DEF Asked, Waiting, Answers
  <2>2. \A v : Session(v) => Session(v)'
    BY <1>1, <1>7 DEF Session, LetsIn
  <2>3. QED BY <1>1, <2>1, <2>2 DEF Live, Sessions
<1>14. screen = "chat" => u \in {current} \cup unheard
  <2>1. ASSUME screen = "chat", u \notin unheard PROVE u = current
    <3>1. Session(u) BY <1>1, <2>1 DEF Live, Sessions, Waiting
    <3>2. /\ serving = "idle" /\ \A j \in DOMAIN down : ~LetsIn(j)
          /\ \A i \in DOMAIN up : up[i].msg.op = "chat"
      BY <2>1, Quiet DEF Live, Dialogue
    <3>3. \A i \in DOMAIN up : up[i].msg # [op |-> "logout", user |-> u]
      BY <3>2
    <3>4. QED BY <3>1, <3>2, <3>3 DEF Session
  <2>2. QED BY <2>1
<1>15. ASSUME NEW j \in DOMAIN down, LetsIn(j), u \notin unheard
       PROVE  u = down[j].msg.user
  <2>1. Answers(j) BY <1>15 DEF LetsIn, Answers
  <2>2. up = <<>> /\ serving = "idle" /\ screen = down[j].msg.type
    BY <2>1 DEF Live, Dialogue
  <2>3. screen # "chat" /\ DOMAIN up = {} BY <1>15, <2>2 DEF LetsIn
  <2>4. Asked BY <2>1 DEF Asked, Answers
  <2>5. Session(u) BY <1>1, <1>15, <2>4 DEF Live, Sessions
  <2>6. PICK h \in DOMAIN down : LetsIn(h) /\ u = down[h].msg.user
    BY <2>2, <2>3, <2>5 DEF Session
  <2>7. Answers(h) BY <2>6 DEF LetsIn, Answers
  <2>8. Framed /\ OneAnswer /\ down \in Stream(Ack \cup Chat)
    BY DEF Live, TypeOK
  <2>9. down[h].msg = down[j].msg BY <2>1, <2>7, <2>8, SameAnswer
  <2>10. QED BY <2>6, <2>9
<1>16. Addressed'
  <2>1. ASSUME NEW i \in DOMAIN down', down'[i].msg.type = "chat"
        PROVE  /\ down'[i].msg.no <= Len(whose')
               /\ screen' = "chat" =>
                    whose'[down'[i].msg.no] \in {current'} \cup unheard'
               /\ \A j \in 1..(i - 1) : LetsIn(j)' =>
                    whose'[down'[i].msg.no]
                      \in {down'[j].msg.user} \cup unheard'
    <3>1. \A j \in 1..(i - 1) : LetsIn(j)' =>
            j \in DOMAIN down /\ LetsIn(j) /\ down'[j] = down[j]
      BY <1>7, <1>8
    <3>2. CASE i \in DOMAIN down
      <4>1. down'[i] = down[i] /\ down[i].msg.type = "chat" BY <1>7, <2>1, <3>2
      <4>2. PICK k : k = down[i].msg.no OBVIOUS
      <4>3. /\ k <= L
            /\ screen = "chat" => whose[k] \in {current} \cup unheard
            /\ \A j \in 1..(i - 1) : LetsIn(j) =>
                 whose[k] \in {down[j].msg.user} \cup unheard
        BY <1>2, <3>2, <4>1, <4>2 DEF Live, Addressed
      <4>4. k \in Nat \ {0}
        <5>1. down[i].msg \in Ack \cup Chat
          BY <3>2, StreamSeq DEF TypeOK
        <5>2. QED BY <4>1, <4>2, <5>1, MessageFields
      <4>5. whose'[k] = whose[k] /\ k <= L + 1 BY <1>3, <4>3, <4>4
      <4>6. QED BY <1>1, <1>3, <3>1, <4>1, <4>2, <4>3, <4>5
    <3>3. CASE i \notin DOMAIN down
      <4>1. down'[i].msg.no = L + 1 BY <1>6, <1>7, <3>3
      <4>2. whose'[down'[i].msg.no] = u /\ down'[i].msg.no <= Len(whose')
        BY <1>3, <4>1
      <4>3. QED BY <1>1, <1>14, <1>15, <3>1, <4>2
    <3>4. QED BY <3>2, <3>3
  <2>2. QED BY <2>1 DEF Addressed
<1>17. HeldFor'
  <2>1. PICK k : k = held[1].msg.no OBVIOUS
  <2>2. ASSUME held # <<>>, held[1].msg.type = "chat"
        PROVE  k \in 1..L
    <3>1. PICK h \in Ack \cup Chat : h = held[1].msg BY <2>2, HeldType
    <3>2. k \in Nat \ {0} BY <2>1, <2>2, <3>1, MessageFields
    <3>3. k <= L BY <1>2, <2>1, <2>2 DEF Live, HeldFor
    <3>4. QED BY <3>2, <3>3
  <2>3. ASSUME held # <<>>, held[1].msg.type = "chat"
        PROVE  whose'[k] = whose[k] /\ k <= Len(whose')
    BY <1>2, <1>3, <2>2, <2>3
  <2>4. QED BY <1>1, <2>1, <2>3 DEF Live, HeldFor
<1>18. QED
  BY <1>7, <1>9, <1>10, <1>11, <1>12, <1>13, <1>16, <1>17 DEF Live

-----------------------------------------------------------------------------
(* The invariant.                                                          *)

(* Nothing is open, and nobody has logged in. *)
LEMMA KeptInit ==
  ASSUME Init
  PROVE  Kept
<1>1. TypeOK
  <2>1. <<>> \in Stream(Request) /\ <<>> \in Stream(Ack \cup Chat)
    BY DEF Stream
  <2>2. up \in Stream(Request) /\ down \in Stream(Ack \cup Chat)
    BY <2>1 DEF Init
  <2>3. MaxChats \in Nat /\ MaxSends \in Nat BY ClientAssumption
  <2>4. whose \in Seq(User) /\ Len(whose) <= MaxChats
    BY <2>3 DEF Init
  <2>5. /\ displayed \in 0..Len(whose) /\ sends \in 0..MaxSends
        /\ others \in 0..MaxOthers
    BY <2>3, ClientAssumption DEF Init
  <2>6. held \in Stream(Ack \cup Chat) BY <2>1 DEF Init
  <2>7. QED BY <2>2, <2>4, <2>5, <2>6 DEF Init, TypeOK
<1>2. DOMAIN up = {} /\ DOMAIN down = {} BY DEF Init
<1>3. Framed /\ OneAnswer BY <1>2 DEF Framed, OneAnswer
<1>4. Dialogue /\ ByUser BY <1>2 DEF Init, Dialogue, ByUser
<1>5. Closed /\ Entered /\ Sessions
  BY <1>2 DEF Init, Closed, Entered, Sessions
<1>6. Addressed /\ HeldFor BY <1>2 DEF Init, Addressed, HeldFor
<1>7. QED BY <1>1, <1>3, <1>4, <1>5, <1>6 DEF Kept, Live

(* A client that has ended stays so. *)
LEMMA EndedStays ==
  ASSUME TypeOK, [Next]_vars, ~Alive
  PROVE  /\ ~Alive'
         /\ UNCHANGED <<screen, current, displayed>>
<1>1. screen \in Ended BY DEF Alive
<1>2. screen \notin {"menu", "login", "reg", "chat"} BY <1>1 DEF Ended
<1>3. UNCHANGED vars
  BY <1>2 DEF Next, ClientLogin, ClientReg, quit, command, logout,
              send_broken, MainThread, recvAnswer, recvClosed, ReadThread,
              readTaskHandler, display, readClosed, LoopThread
<1>4. QED BY <1>3 DEF vars, clientVars, Alive

(* A step of a client that lives on keeps what is true while it lives. *)
LEMMA LiveStep ==
  ASSUME TypeOK, Live, [Next]_vars, Alive, Alive'
  PROVE  Live'
<1>1. CASE UNCHANGED vars
  <2>1. UNCHANGED <<screen, current, held, late, up, down, link, serving, job,
                    mapped, elsewhere, inline, touched, unheard, whose>>
    BY <1>1 DEF vars, clientVars, serverVars, userVars
  <2>2. (Framed /\ OneAnswer)'
    BY <2>1 DEF Live, Framed, OneAnswer, Start, Answers
  <2>3. (Dialogue /\ ByUser /\ Closed)'
    BY <2>1 DEF Live, Dialogue, ByUser, Closed, Asks, Answers, LetsIn
  <2>4. (Entered /\ Addressed /\ HeldFor)'
    BY <2>1 DEF Live, Entered, Addressed, HeldFor, LetsIn
  <2>5. Sessions'
    BY <2>1 DEF Live, Sessions, Session, Asked, Waiting, LetsIn
  <2>6. QED BY <2>2, <2>3, <2>4, <2>5 DEF Live
<1>2. CASE \E u \in User : ClientLogin(u)
  <2>1. PICK u \in User : ClientLogin(u) BY <1>2
  <2>2. QED BY <2>1, SendLive DEF ClientLogin
<1>3. CASE ClientReg BY <1>3, SendLive DEF ClientReg
<1>4. CASE command
  <2>1. PICK n \in RequestSizes : Send("chat", current, n)
    BY <1>4 DEF command
  <2>2. n \in Nat \ {0} /\ current \in User \cup {NoUser}
    BY ClientAssumption DEF TypeOK
  <2>3. screen = "chat" /\ screen' = "chat" BY <1>4 DEF command
  <2>4. QED BY <2>1, <2>2, <2>3, SendLive
<1>5. CASE logout
  <2>1. current \in User \cup {NoUser} BY DEF TypeOK
  <2>2. QED BY <1>5, <2>1, SendLive DEF logout
<1>6. CASE quit \/ send_broken \/ readClosed
  BY <1>6 DEF quit, send_broken, readClosed, End, Alive, Ended
<1>7. CASE recvAnswer BY <1>7, AnswerLive
<1>8. CASE recvClosed
  <2>1. /\ link = "closed" /\ down = <<>> /\ screen' = "menu"
        /\ UNCHANGED <<current, held, up, down, serverVars>>
    BY <1>8 DEF recvClosed, End, Menu, Alive, Ended
  <2>2. up = <<>> /\ serving = "idle" /\ mapped = {}
    BY <2>1 DEF Live, Closed
  <2>3. /\ up' = <<>> /\ down' = <<>> /\ serving' = "idle" /\ mapped' = {}
        /\ link' = "closed" /\ DOMAIN up' = {} /\ DOMAIN down' = {}
    BY <2>1, <2>2 DEF serverVars, userVars
  <2>4. (Framed /\ OneAnswer /\ ByUser)'
    BY <2>1, <2>3 DEF Framed, OneAnswer, ByUser
  <2>5. Dialogue' BY <2>1, <2>3 DEF Dialogue
  <2>6. (Closed /\ Entered /\ Sessions)'
    BY <2>1, <2>3 DEF Live, Closed, Entered, Sessions, serverVars, userVars
  <2>7. (Addressed /\ HeldFor)'
    BY <2>1, <2>3 DEF Live, Addressed, HeldFor, serverVars
  <2>8. QED BY <2>4, <2>5, <2>6, <2>7 DEF Live
<1>9. CASE readTaskHandler \/ display BY <1>9, ReceiveLive, DisplayLive
<1>10. CASE onMessage
  <2>1. CASE ServerDies BY <1>10, <2>1, GoneLive DEF onMessage
  <2>2. CASE ~ServerDies BY <1>10, <2>2, TakenLive
  <2>3. QED BY <2>1, <2>2
<1>11. CASE login BY <1>11, LoginLive
<1>12. CASE login_reply BY <1>12, ReplyLive
<1>13. CASE serverGone BY <1>13, GoneLive DEF serverGone
<1>14. CASE \E u \in User : Push(u) BY <1>14, PushLive
<1>15. CASE somebodyElse BY <1>15, ElseLive
<1>16. QED
  BY <1>1, <1>2, <1>3, <1>4, <1>5, <1>6, <1>7, <1>8, <1>9, <1>10, <1>11,
     <1>12, <1>13, <1>14, <1>15
     DEF Next, MainThread, ReadThread, LoopThread

(* The invariant is kept by every step, *)
LEMMA KeptStep ==
  ASSUME Kept, [Next]_vars
  PROVE  Kept'
<1>1. TypeOK' BY TypeStep
<1>2. Alive' => Live' BY EndedStays, LiveStep DEF Kept
<1>3. QED BY <1>1, <1>2 DEF Kept

(* and holds in every state. *)
LEMMA AlwaysKept == Spec => []Kept
<1>1. Init => Kept BY KeptInit
<1>2. Kept /\ [Next]_vars => Kept' BY KeptStep
<1>3. QED BY <1>1, <1>2, PTL DEF Spec

-----------------------------------------------------------------------------
(* The theorems.                                                           *)

(***************************************************************************)
(* Every step of the client and of the server, from every state that they  *)
(* reach, keeps the types of ChatClient.  It is more than bookkeeping: the *)
(* answer that is loaded has a user, what is displayed is a chat that was  *)
(* sent, and a logout in a stream of whole messages names a user.          *)
(***************************************************************************)
THEOREM ChatClientTypes == Spec => []TypeOK
<1>1. Kept => TypeOK BY DEF Kept
<1>2. QED BY <1>1, AlwaysKept, PTL

(***************************************************************************)
(* A client at the commands of a user has him in the server's map and      *)
(* inline (CurrentIsMapped), however the answer, the chats, the reads of   *)
(* its two threads and the loss of the server cross each other, until      *)
(* another client or server acts on that user or an UPDATE of his fails.   *)
(***************************************************************************)
THEOREM CurrentIsMappedHolds == Spec => []CurrentIsMapped
<1>1. Kept => CurrentIsMapped
  <2>1. screen = "chat" => Alive BY DEF Alive, Ended
  <2>2. QED BY <2>1 DEF Kept, Live, Entered, CurrentIsMapped
<1>2. QED BY <1>1, AlwaysKept, PTL

(***************************************************************************)
(* While the process lives, an answer that is to come or is on its way is  *)
(* one the main thread waits for (AnswerAwaited).                          *)
(***************************************************************************)
THEOREM AnswerAwaitedHolds == Spec => []AnswerAwaited
<1>1. Kept => AnswerAwaited
  <2>1. ASSUME Kept, Alive, Asked PROVE Waiting
    BY <2>1 DEF Kept, Live, Dialogue, Asked, Asks, Answers, Waiting
  <2>2. QED BY <2>1 DEF AnswerAwaited
<1>2. QED BY <1>1, AlwaysKept, PTL

(* What is displayed at the commands is a chat for the user who has them. *)
LEMMA DisplayedTo ==
  ASSUME Kept, Next, displayed' # displayed, screen = "chat", ~late
  PROVE  whose[displayed'] \in {current} \cup unheard
<1>1. display
  BY DEF Next, clientVars, ClientLogin, ClientReg, quit, command,
         logout, send_broken, Send, MainThread, recvAnswer, recvClosed,
         ReadThread, readTaskHandler, readClosed, LoopThread, End, Menu, Load,
         onMessage, login, login_reply, serverGone, Push, somebodyElse, vars
<1>2. held # <<>> /\ (End("died") \/ Show(held[1].msg)) BY <1>1 DEF display
<1>3. Show(held[1].msg) BY <1>2 DEF End
<1>4. held[1].msg.type = "chat" /\ displayed' = held[1].msg.no
  BY <1>3 DEF Show
<1>5. HeldFor BY DEF Kept, Live, Alive, Ended
<1>6. QED BY <1>2, <1>4, <1>5 DEF HeldFor

(***************************************************************************)
(* A chat that is displayed at the commands of a user was sent to him      *)
(* (DisplayedToAddressee), unless the read thread already held it when he  *)
(* was let in, or the logout of the other user was one the server dropped. *)
(***************************************************************************)
THEOREM DisplayedToAddresseeHolds == Spec => DisplayedToAddressee
<1>1. Kept /\ [Next]_vars =>
        [displayed' # displayed /\ screen = "chat" /\ ~late =>
           whose[displayed'] \in {current} \cup unheard]_vars
  BY DisplayedTo
<1>2. QED BY <1>1, AlwaysKept, PTL DEF Spec, DisplayedToAddressee
=============================================================================
