--------------------------- MODULE AccountsProofs ---------------------------
(***************************************************************************)
(* Proofs about Accounts: its types, the truth of the answer to reg, the   *)
(* admin of each group, the groups of a login, and that its threads use    *)
(* the connections as ResourcePool has it.                                 *)
(*                                                                         *)
(* All of them rest on Owned: a handle is idle or at one place of one      *)
(* thread's stack, so the id that mysql_insert_id reads is that of the     *)
(* statement the thread has just run.  WorkerKept says for each function   *)
(* what its request, its connections and its locals are by then, and what  *)
(* the tables already hold of them.                                        *)
(***************************************************************************)
EXTENDS Accounts, TLAPS

RegSteps == {"queryUsername", "insert", "insert_id", "reg_ok", "reg_fail"}
ListSteps == {"queryGroup_members", "queryGroup_return", "login_ok"}
KnownSteps == {"queryFriends", "queryGroup"} \cup ListSteps
LoginSteps == {"query", "login_wrong", "login_repeat"} \cup KnownSteps

(* A connection is idle or held once. *)
Owned ==
  /\ \A w \in Worker : \A i \in DOMAIN sp[w] : sp[w][i] \notin idle
  /\ \A v, w \in Worker : \A i \in DOMAIN sp[v], j \in DOMAIN sp[w] :
       sp[v][i] = sp[w][j] => v = w /\ i = j

(* How many connections w holds in a function. *)
Counted(w) ==
  /\ Len(sp[w]) <= Depth(pc[w])
  /\ pc[w] \in {"insert_id", "createGroup_id", "queryGroup_members",
                "queryGroup_return"} => Len(sp[w]) > 0

(* Which request the function serves. *)
Serves(w) ==
  /\ pc[w] \in RegSteps => js[w].op = "reg"
  /\ pc[w] \in LoginSteps => js[w].op = "login"
  /\ pc[w] = "updateState" => js[w].op \in {"login", "logout"}
  /\ pc[w] = "addFriend" => js[w].op = "addFriend"
  /\ pc[w] \in {"createGroup", "createGroup_id"} => js[w].op = "createGroup"
  /\ pc[w] = "addGroup" => js[w].op \in {"createGroup", "joinGroup"}

(* The row that a reg has inserted is its own, whether its id is still to  *)
(* be read from the handle or has been read.                               *)
Inserted(w) == pc[w] \in {"insert_id", "reg_ok"}
Claim(w) == IF pc[w] = "insert_id" THEN insertId[Conn(w)] ELSE id[w]
RowKept(w) ==
  Inserted(w) => /\ Claim(w) \in DOMAIN user
                 /\ user[Claim(w)].name = js[w].name
                 /\ user[Claim(w)].password = js[w].password
ClaimOnce ==
  \A v, w \in Worker :
    Inserted(v) /\ Inserted(w) /\ Claim(v) = Claim(w) => v = w

(* So is the group that a createGroup has inserted. *)
GroupKept(w) ==
  \A g : Founding(w, g) => g \in DOMAIN allGroup /\ allGroup[g] = js[w].user

(* A login past its check is of a user, and lists groups that have him. *)
Known(w) ==
  pc[w] \in KnownSteps \/ (pc[w] = "updateState" /\ js[w].op = "login")
    => js[w].user \in DOMAIN user
Listed(w) ==
  pc[w] \in ListSteps =>
    \A g \in DOMAIN groupvec[w] :
      /\ g \in GroupsOf(js[w].user)
      /\ groupvec[w][g] = {} \/ js[w].user \in groupvec[w][g]

WorkerKept(w) ==
  Counted(w) /\ Serves(w) /\ RowKept(w) /\ GroupKept(w) /\ Known(w)
    /\ Listed(w)

LocalsOk ==
  /\ groupvec = [w \in Worker |-> groupvec[w]]
  /\ left = [w \in Worker |-> left[w]]

Kept ==
  /\ TypeOK /\ LocalsOk /\ Owned /\ ClaimOnce /\ GroupsAdministered
  /\ \A w \in Worker : WorkerKept(w)

-----------------------------------------------------------------------------
(* The connections of a thread.                                            *)

Takes(w) ==
  \E h \in idle : idle' = idle \ {h} /\ sp' = [sp EXCEPT ![w] = Append(@, h)]

(* What a step of a thread does to the connections. *)
LEMMA Moves ==
  ASSUME NEW w \in Worker, onMessage(w) \/ WorkerStep(w)
  PROVE  \/ Takes(w) /\ getConnection(w)
         \/ Release(w) /\ Len(sp[w]) \in {1, 2}
         \/ UNCHANGED poolVars
<1> USE DEF At, Depth, Answers, poolVars
<1>1. CASE queryUsername(w) \/ insert_id(w) \/ query(w) \/ updateState(w)
  BY <1>1 DEF queryUsername, insert_id, query, updateState
<1>2. CASE queryFriends(w) \/ queryGroup_members(w) \/ queryGroup_return(w)
  BY <1>2 DEF queryFriends, queryGroup_members, queryGroup_return
<1>3. CASE addFriend(w) \/ createGroup_id(w) \/ addGroup(w)
  BY <1>3 DEF addFriend, createGroup_id, addGroup
<1>4. CASE insert(w) \/ createGroup(w) BY <1>4 DEF insert, createGroup
<1>5. CASE onMessage(w) \/ queryGroup(w) \/ answer(w) \/ TimedOut(w)
  BY <1>5 DEF onMessage, queryGroup, answer, TimedOut
<1>6. CASE getConnection(w) BY <1>6 DEF getConnection, Takes
<1>7. QED BY <1>1, <1>2, <1>3, <1>4, <1>5, <1>6 DEF WorkerStep

(* A connection that a thread holds is a handle of its own. *)
LEMMA ConnHeld ==
  ASSUME TypeOK, Owned, NEW w \in Worker, Len(sp[w]) > 0
  PROVE  /\ Len(sp[w]) \in DOMAIN sp[w] /\ Conn(w) \in Handle \ idle
         /\ \A v \in Worker \ {w} : Len(sp[v]) > 0 => Conn(v) # Conn(w)
<1>1. \A v \in Worker : Len(sp[v]) > 0 => Len(sp[v]) \in DOMAIN sp[v]
  BY DEF TypeOK
<1>2. Conn(w) \in Handle \ idle BY <1>1 DEF Conn, TypeOK, Owned
<1>3. \A v \in Worker \ {w} : Len(sp[v]) > 0 => Conn(v) # Conn(w)
  BY <1>1 DEF Conn, Owned
<1>4. QED BY <1>1, <1>2, <1>3

(* A connection taken is owned, *)
LEMMA TakesOwned ==
  ASSUME TypeOK, Owned, NEW w \in Worker, Takes(w)
  PROVE  /\ idle' \subseteq Handle /\ sp' \in [Worker -> Seq(Handle)] /\ Owned'
         /\ \A v \in Worker \ {w} : sp'[v] = sp[v]
         /\ Len(sp'[w]) = Len(sp[w]) + 1
<1>1. PICK h \in idle : idle' = idle \ {h}
                          /\ sp' = [sp EXCEPT ![w] = Append(@, h)]
  BY DEF Takes
<1>2. PICK q : q = sp[w] OBVIOUS
<1>3. PICK n : n = Len(q) OBVIOUS
<1>4. h \in Handle /\ q \in Seq(Handle) BY <1>2 DEF TypeOK
<1>5. sp'[w] = Append(q, h) /\ \A v \in Worker \ {w} : sp'[v] = sp[v]
  BY <1>1, <1>2 DEF TypeOK
<1>6. /\ DOMAIN q = 1..n /\ DOMAIN sp'[w] = 1..(n + 1) /\ n \in Nat
      /\ sp'[w][n + 1] = h /\ \A i \in 1..n : sp'[w][i] = q[i]
      /\ sp'[w] \in Seq(Handle) /\ Len(sp'[w]) = n + 1
  BY <1>3, <1>4, <1>5
<1>7. sp' \in [Worker -> Seq(Handle)] /\ idle' \subseteq Handle
  BY <1>1, <1>4 DEF TypeOK
<1>8. \A v \in Worker : \A i \in DOMAIN sp'[v] :
        \/ i \in DOMAIN sp[v] /\ sp'[v][i] = sp[v][i] /\ sp[v][i] # h
        \/ v = w /\ i = n + 1 /\ sp'[v][i] = h
  <2>1. \A i \in DOMAIN sp'[w] : \/ i \in 1..n /\ sp'[w][i] = sp[w][i]
                                 \/ i = n + 1 /\ sp'[w][i] = h
    BY <1>2, <1>6
  <2>2. \A v \in Worker : \A i \in DOMAIN sp[v] : sp[v][i] # h BY <1>1 DEF Owned
  <2>3. QED BY <1>2, <1>5, <1>6, <2>1, <2>2
<1>9. Owned' BY <1>1, <1>8 DEF Owned
<1>10. QED BY <1>2, <1>3, <1>5, <1>6, <1>7, <1>9

(* and one let go is the thread's last, and idle. *)
LEMMA ReleaseOwned ==
  ASSUME TypeOK, Owned, NEW w \in Worker, Len(sp[w]) > 0, Release(w)
  PROVE  /\ idle' \subseteq Handle /\ sp' \in [Worker -> Seq(Handle)] /\ Owned'
         /\ \A v \in Worker \ {w} : sp'[v] = sp[v]
         /\ Len(sp'[w]) = Len(sp[w]) - 1
         /\ \A h : h \in Elems(sp'[w]) <=> h \in Elems(sp[w]) /\ h # Conn(w)
<1>1. PICK q : q = sp[w] OBVIOUS
<1>2. PICK n : n = Len(q) OBVIOUS
<1>3. /\ q \in Seq(Handle) /\ n \in Nat \ {0} /\ DOMAIN q = 1..n
      /\ Conn(w) = q[n] /\ q[n] \in Handle
  BY <1>1, <1>2 DEF TypeOK, Conn
<1>4. /\ sp'[w] = SubSeq(q, 1, n - 1) /\ idle' = idle \cup {q[n]}
      /\ \A v \in Worker \ {w} : sp'[v] = sp[v]
  BY <1>1, <1>2, <1>3 DEF Release, TypeOK
<1>5. /\ DOMAIN sp'[w] = 1..(n - 1) /\ Len(sp'[w]) = n - 1
      /\ \A i \in 1..(n - 1) : sp'[w][i] = q[i]
      /\ sp'[w] \in Seq(Handle)
  <2>1. SubSeq(q, 1, n - 1) = [i \in 1..(n - 1) |-> q[i]] BY <1>3
  <2>2. SubSeq(q, 1, n - 1) \in Seq(Handle)
    <3>1. \A i \in 1..(n - 1) : q[i] \in Handle BY <1>3
    <3>2. n - 1 \in Nat BY <1>3
    <3>3. QED BY <2>1, <3>1, <3>2
  <2>3. Len(sp'[w]) = n - 1 BY <1>3, <1>4
  <2>4. QED BY <1>3, <1>4, <2>1, <2>2, <2>3
<1>6. sp' \in [Worker -> Seq(Handle)] /\ idle' \subseteq Handle
  BY <1>1, <1>2, <1>3, <1>4, <1>5 DEF Release, TypeOK
<1>7. \A v \in Worker : \A i \in DOMAIN sp'[v] :
        i \in DOMAIN sp[v] /\ sp'[v][i] = sp[v][i] /\ sp[v][i] # q[n]
  <2>1. \A i \in DOMAIN sp'[w] : i \in 1..n /\ i # n /\ sp'[w][i] = q[i]
    BY <1>3, <1>5
  <2>2. \A v \in Worker : \A i \in DOMAIN sp[v] :
          sp[v][i] = q[n] => v = w /\ i = n
    BY <1>1, <1>3 DEF Owned
  <2>3. QED BY <1>1, <1>3, <1>4, <2>1, <2>2
<1>8. Owned' BY <1>4, <1>7 DEF Owned
<1>9. \A h : h \in Elems(sp'[w]) <=> h \in Elems(sp[w]) /\ h # Conn(w)
  <2>1. \A h : h \in Elems(sp'[w]) => h \in Elems(sp[w]) /\ h # Conn(w)
    BY <1>3, <1>7 DEF Elems
  <2>2. \A i \in DOMAIN sp[w] : i # n => i \in DOMAIN sp'[w] /\ sp'[w][i] = q[i]
    BY <1>1, <1>3, <1>5
  <2>3. ASSUME NEW h, h \in Elems(sp[w]), h # Conn(w) PROVE h \in Elems(sp'[w])
    <3>1. PICK i \in DOMAIN sp[w] : h = sp[w][i] BY <2>3 DEF Elems
    <3>2. i # n BY <1>1, <1>3, <2>3, <3>1
    <3>3. QED BY <1>1, <2>2, <3>1, <3>2 DEF Elems
  <2>4. QED BY <2>1, <2>3
<1>10. QED BY <1>1, <1>2, <1>3, <1>4, <1>5, <1>6, <1>8, <1>9

(* Every step keeps the connections owned. *)
LEMMA OwnedStep ==
  ASSUME TypeOK, Owned, [Next]_vars
  PROVE  idle' \subseteq Handle /\ sp' \in [Worker -> Seq(Handle)] /\ Owned'
<1>1. ASSUME NEW w \in Worker, onMessage(w) \/ WorkerStep(w)
      PROVE  idle' \subseteq Handle /\ sp' \in [Worker -> Seq(Handle)] /\ Owned'
  <2>1. CASE Takes(w) BY <2>1, TakesOwned
  <2>2. CASE Release(w) /\ Len(sp[w]) \in {1, 2} BY <2>2, ReleaseOwned
  <2>3. CASE UNCHANGED poolVars BY <2>3 DEF poolVars, TypeOK, Owned
  <2>4. QED BY <1>1, <2>1, <2>2, <2>3, Moves
<1>2. CASE Produce
  <2>1. PICK h \in Handle \ Pool!Total : idle' = idle \cup {h}
    BY <1>2 DEF Produce, Pool!Create
  <2>2. \A w \in Worker : \A i \in DOMAIN sp[w] : sp[w][i] # h
    BY DEF Pool!Total, Elems
  <2>3. QED BY <1>2, <2>1, <2>2 DEF Produce, TypeOK, Owned
<1>3. CASE Recycle
  <2>1. idle' \subseteq idle /\ sp' = sp BY <1>3 DEF Recycle, Pool!Destroy
  <2>2. QED BY <2>1 DEF TypeOK, Owned
<1>4. CASE (\E h \in Handle : Lose(h)) \/ UNCHANGED vars
  BY <1>4 DEF Lose, vars, poolVars, TypeOK, Owned
<1>5. QED BY <1>1, <1>2, <1>3, <1>4 DEF Next

-----------------------------------------------------------------------------
(* What a step leaves alone.                                               *)

(* Rows of the tables are added; of a user only the state changes. *)
Grows ==
  /\ DOMAIN user \subseteq DOMAIN user'
  /\ \A i \in DOMAIN user : /\ user'[i].name = user[i].name
                            /\ user'[i].password = user[i].password
  /\ DOMAIN allGroup \subseteq DOMAIN allGroup'
  /\ \A g \in DOMAIN allGroup : allGroup'[g] = allGroup[g]
  /\ groupUser \subseteq groupUser'

(* The function of v, its locals and the id its handle remembers. *)
Steady(v) ==
  /\ sp'[v] = sp[v] /\ pc'[v] = pc[v] /\ js'[v] = js[v] /\ id'[v] = id[v]
  /\ groupvec'[v] = groupvec[v]
  /\ Len(sp[v]) > 0 => insertId'[Conn(v)] = insertId[Conn(v)]

(* Appending a row keeps the others. *)
LEMMA AppendRow ==
  ASSUME NEW S, NEW q \in Seq(S), NEW e \in S
  PROVE  /\ Append(q, e) \in Seq(S) /\ DOMAIN q = 1..Len(q)
         /\ Len(q) \in Nat /\ Len(Append(q, e)) = Len(q) + 1
         /\ DOMAIN Append(q, e) = 1..(Len(q) + 1)
         /\ DOMAIN q \subseteq DOMAIN Append(q, e)
         /\ \A i \in DOMAIN q : Append(q, e)[i] = q[i]
         /\ Append(q, e)[Len(q) + 1] = e
OBVIOUS

(* What a request carries. *)
LEMMA RequestFields ==
  ASSUME NEW r \in Requests(Id, Id, Id) \cup {NoRequest}
  PROVE  /\ r.op = "reg" => r.name \in Name /\ r.password \in Password
         /\ r.op = "login" => r.user \in Id /\ r.password \in Password
         /\ r.op \in {"logout", "createGroup"} => r.user \in Id
         /\ r.op \in {"addFriend", "joinGroup"} =>
              r.user \in Id /\ r.other \in Id
<1>1. CASE r \in [op : {"reg"}, name : Name, password : Password] BY <1>1
<1>2. CASE r \in [op : {"login"}, user : Id, password : Password] BY <1>2
<1>3. CASE r \in [op : {"logout", "createGroup"}, user : Id] BY <1>3
<1>4. CASE r \in [op : {"addFriend", "joinGroup"}, user : Id, other : Id]
  BY <1>4
<1>5. CASE r = NoRequest BY <1>5 DEF NoRequest
<1>6. r \in [op : {"addFriend"}, user : Id, other : Id]
        \/ r \in [op : {"joinGroup"}, user : Id, other : Id]
      => r \in [op : {"addFriend", "joinGroup"}, user : Id, other : Id]
  OBVIOUS
<1>7. QED BY <1>1, <1>2, <1>3, <1>4, <1>5, <1>6 DEF Requests

(* What a reg inserts is a row, *)
LEMMA NewRowType ==
  ASSUME TypeOK, NEW w \in Worker, js[w].op = "reg"
  PROVE  NewRow(w) \in UserRow /\ NewRow(w).name = js[w].name
           /\ NewRow(w).password = js[w].password
<1>1. js[w] \in Requests(Id, Id, Id) \cup {NoRequest} BY DEF TypeOK
<1>2. js[w].name \in Name /\ js[w].password \in Password
  BY <1>1, RequestFields
<1>3. QED BY <1>2 DEF NewRow, UserRow

(* and updateState keeps one. *)
LEMMA StateType ==
  ASSUME TypeOK, NEW w \in Worker, updateState(w)
  PROVE  /\ user' \in Seq(UserRow) /\ DOMAIN user' = DOMAIN user
         /\ \A i \in DOMAIN user : /\ user'[i].name = user[i].name
                                   /\ user'[i].password = user[i].password
<1>1. PICK q : q = user OBVIOUS
<1>2. q \in Seq(UserRow) BY <1>1 DEF TypeOK
<1>3. PICK k : k = js[w].user OBVIOUS
<1>4. PICK st \in {"inline", "offline"} :
        st = IF js[w].op = "login" THEN "inline" ELSE "offline"
  OBVIOUS
<1>5. \/ user' = q
      \/ k \in DOMAIN q /\ user' = [q EXCEPT ![k].state = st]
  BY <1>1, <1>3, <1>4 DEF updateState
<1>6. CASE user' = q BY <1>1, <1>2, <1>6
<1>7. CASE k \in DOMAIN q /\ user' = [q EXCEPT ![k].state = st]
  <2>1. q[k] \in UserRow BY <1>2, <1>7
  <2>2. PICK row : row = [q[k] EXCEPT !.state = st] OBVIOUS
  <2>3. row \in UserRow /\ row.name = q[k].name /\ row.password = q[k].password
    BY <2>1, <2>2 DEF UserRow
  <2>4. user' = [q EXCEPT ![k] = row] BY <1>7, <2>2
  <2>5. user' \in Seq(UserRow) BY <1>2, <1>7, <2>3, <2>4
  <2>6. QED BY <1>1, <1>7, <2>3, <2>4, <2>5
<1>8. QED BY <1>5, <1>6, <1>7

(* A step of no worker leaves the tables and every function alone. *)
LEMMA PoolSteady ==
  ASSUME TypeOK, Owned, Produce \/ Recycle \/ (\E h \in Handle : Lose(h))
                          \/ UNCHANGED vars
  PROVE  /\ \A w \in Worker : Steady(w)
         /\ UNCHANGED <<dbVars, pc, js, localVars, adminless>>
<1>1. /\ UNCHANGED <<dbVars, pc, js, localVars, adminless>>
      /\ sp' = sp
  BY DEF Produce, Recycle, Lose, vars, poolVars, ghostVars
<1>2. ASSUME NEW w \in Worker, Len(sp[w]) > 0
      PROVE  insertId'[Conn(w)] = insertId[Conn(w)]
  <2>1. Conn(w) \in Handle \ idle BY <1>2, ConnHeld
  <2>2. CASE Recycle
    <3>1. insertId' = [h \in Handle |->
                         IF h \in idle \ idle' THEN 0 ELSE insertId[h]]
      BY <2>2 DEF Recycle
    <3>2. QED BY <2>1, <3>1
  <2>3. CASE insertId' = insertId BY <2>3
  <2>4. QED BY <2>2, <2>3 DEF Produce, Lose, vars
<1>3. QED BY <1>1, <1>2 DEF Steady, localVars

(* A step of a worker leaves the others alone. *)
LEMMA OthersSteady ==
  ASSUME TypeOK, LocalsOk, Owned, NEW w \in Worker,
         onMessage(w) \/ WorkerStep(w), NEW v \in Worker \ {w}
  PROVE  Steady(v)
<1>1. sp'[v] = sp[v]
  <2>1. CASE Takes(w) BY <2>1, TakesOwned
  <2>2. CASE Release(w) /\ Len(sp[w]) \in {1, 2}
    <3>1. Release(w) BY <2>2
    <3>2. PICK n : n = Len(sp[w]) OBVIOUS
    <3>3. n = 1 \/ n = 2 BY <2>2, <3>2
    <3>4. n > 0 BY <3>3
    <3>5. QED BY <3>1, <3>2, <3>4, ReleaseOwned
  <2>3. QED BY <2>1, <2>2, Moves DEF poolVars
<1>2. ASSUME Len(sp[v]) > 0
      PROVE  insertId'[Conn(v)] = insertId[Conn(v)]
  <2>1. CASE insertId' = insertId BY <2>1
  <2>2. CASE insertId' # insertId
    <3>1. insert(w) \/ createGroup(w)
      BY <2>2
         DEF onMessage, WorkerStep, queryUsername, insert_id, query,
             updateState, queryFriends, queryGroup, queryGroup_members,
             queryGroup_return, addFriend, createGroup_id, addGroup, answer,
             getConnection, TimedOut, Reads
    <3>2. Len(sp[w]) = 1
      BY <3>1 DEF insert, createGroup, At, Depth, Answers
    <3>3. Conn(v) # Conn(w)
      <4>1. Len(sp[w]) > 0 BY <3>2
      <4>2. w \in Worker \ {v} OBVIOUS
      <4>3. QED BY <1>2, <4>1, <4>2, ConnHeld
    <3>4. PICK n : insertId' = [insertId EXCEPT ![Conn(w)] = n]
      BY <2>2, <3>1 DEF insert, createGroup
    <3>5. QED BY <3>3, <3>4 DEF TypeOK
  <2>3. QED BY <2>1, <2>2
<1>3. /\ pc'[v] = pc[v] /\ js'[v] = js[v] /\ id'[v] = id[v]
      /\ groupvec'[v] = groupvec[v]
  <2> USE DEF Goto, Done, Forget, Reads, localVars, TypeOK, LocalsOk
  <2>1. CASE onMessage(w) \/ getConnection(w) \/ TimedOut(w) \/ answer(w)
    BY <2>1 DEF onMessage, getConnection, TimedOut, answer
  <2>2. CASE queryUsername(w) \/ insert(w) \/ insert_id(w) \/ query(w)
    BY <2>2 DEF queryUsername, insert, insert_id, query
  <2>3. CASE updateState(w) BY <2>3 DEF updateState
  <2>4. CASE queryFriends(w) BY <2>4 DEF queryFriends
  <2>5. CASE queryGroup(w) \/ queryGroup_return(w)
    BY <2>5 DEF queryGroup, queryGroup_return
  <2>6. CASE queryGroup_members(w) BY <2>6 DEF queryGroup_members
  <2>7. CASE addFriend(w) \/ createGroup(w) \/ createGroup_id(w) \/ addGroup(w)
    BY <2>7 DEF addFriend, createGroup, createGroup_id, addGroup
  <2>8. QED BY <2>1, <2>2, <2>3, <2>4, <2>5, <2>6, <2>7 DEF WorkerStep
<1>4. QED BY <1>1, <1>2, <1>3 DEF Steady

(* No table loses a row. *)
LEMMA GrowsStep ==
  ASSUME TypeOK, \A w \in Worker : Serves(w), [Next]_vars
  PROVE  /\ Grows /\ user' \in Seq(UserRow) /\ friend' \subseteq Id \X Id
         /\ allGroup' \in Seq(Id)
<1>1. ASSUME UNCHANGED <<user, allGroup, friend>>,
             groupUser \subseteq groupUser'
      PROVE  /\ Grows /\ user' \in Seq(UserRow) /\ friend' \subseteq Id \X Id
             /\ allGroup' \in Seq(Id)
  BY <1>1 DEF Grows, TypeOK
<1>2. ASSUME NEW w \in Worker, onMessage(w) \/ WorkerStep(w)
      PROVE  /\ Grows /\ user' \in Seq(UserRow) /\ friend' \subseteq Id \X Id
             /\ allGroup' \in Seq(Id)
  <2>1. Serves(w) /\ js[w] \in Requests(Id, Id, Id) \cup {NoRequest}
    BY DEF TypeOK
  <2>2. CASE insert(w)
    <3>1. NewRow(w) \in UserRow
      BY <2>1, <2>2, NewRowType DEF Serves, RegSteps, insert, At
    <3>2. /\ user' = Append(user, NewRow(w)) \/ user' = user
          /\ UNCHANGED <<friend, allGroup, groupUser>>
      BY <2>2 DEF insert
    <3>3. user \in Seq(UserRow) BY DEF TypeOK
    <3>4. PICK row \in UserRow : row = NewRow(w) BY <3>1
    <3>5. CASE user' = Append(user, row)
      <4>1. /\ user' \in Seq(UserRow) /\ DOMAIN user \subseteq DOMAIN user'
            /\ \A i \in DOMAIN user : user'[i] = user[i]
        BY <3>3, <3>5, AppendRow
      <4>2. QED BY <3>2, <4>1 DEF Grows, TypeOK
    <3>6. CASE user' = user BY <1>1, <3>2, <3>6
    <3>7. QED BY <3>2, <3>4, <3>5, <3>6
  <2>3. CASE updateState(w)
    <3>1. UNCHANGED <<friend, allGroup, groupUser>> BY <2>3 DEF updateState
    <3>2. QED BY <2>3, <3>1, StateType DEF Grows, TypeOK
  <2>4. CASE addFriend(w)
    <3>1. js[w].user \in Id /\ js[w].other \in Id
      BY <2>1, <2>4, RequestFields DEF Serves, addFriend, At
    <3>2. friend' \subseteq Id \X Id BY <2>4, <3>1 DEF addFriend, TypeOK
    <3>3. UNCHANGED <<user, allGroup, groupUser>> BY <2>4 DEF addFriend
    <3>4. QED BY <3>2, <3>3 DEF Grows, TypeOK
  <2>5. CASE createGroup(w)
    <3>1. js[w].user \in Id
      BY <2>1, <2>5, RequestFields DEF Serves, createGroup, At
    <3>2. /\ allGroup' = Append(allGroup, js[w].user) \/ allGroup' = allGroup
          /\ UNCHANGED <<user, friend, groupUser>>
      BY <2>5 DEF createGroup
    <3>3. allGroup \in Seq(Id) BY DEF TypeOK
    <3>4. PICK u \in Id : u = js[w].user BY <3>1
    <3>5. CASE allGroup' = Append(allGroup, u)
      <4>1. /\ allGroup' \in Seq(Id)
            /\ DOMAIN allGroup \subseteq DOMAIN allGroup'
            /\ \A g \in DOMAIN allGroup : allGroup'[g] = allGroup[g]
        BY <3>3, <3>5, AppendRow
      <4>2. QED BY <3>2, <4>1 DEF Grows, TypeOK
    <3>6. CASE allGroup' = allGroup BY <1>1, <3>2, <3>6
    <3>7. QED BY <3>2, <3>4, <3>5, <3>6
  <2>6. CASE addGroup(w)
    BY <1>1, <2>6 DEF addGroup
  <2>7. CASE UNCHANGED dbVars BY <1>1, <2>7 DEF dbVars
  <2>8. QED
    BY <1>2, <2>2, <2>3, <2>4, <2>5, <2>6, <2>7
       DEF onMessage, WorkerStep, queryUsername, insert_id, query,
           queryFriends, queryGroup, queryGroup_members, queryGroup_return,
           createGroup_id, answer, getConnection, TimedOut, Reads
<1>3. CASE Produce \/ Recycle \/ (\E h \in Handle : Lose(h)) \/ UNCHANGED vars
  BY <1>1, <1>3 DEF Produce, Recycle, Lose, vars, dbVars
<1>4. QED BY <1>2, <1>3 DEF Next

-----------------------------------------------------------------------------
(* The types of Accounts.                                                  *)

Functions == {"idle", "queryUsername", "insert", "insert_id", "query",
              "updateState", "queryFriends", "queryGroup",
              "queryGroup_members", "queryGroup_return", "addFriend",
              "createGroup", "createGroup_id", "addGroup"} \cup Answers

(* The state that a server starts in has the invariant. *)
LEMMA InitKept == Init => Kept
<1> SUFFICES ASSUME Init PROVE Kept OBVIOUS
<1>1. TypeOK
  <2>1. Founded \in Seq(Id)
    <3>1. Founded \in Seq(1..Len(Registered)) /\ Len(Registered) \in Nat
      BY AccountsAssumption
    <3>2. \A g \in DOMAIN Founded : Founded[g] \in Id BY <3>1 DEF Id
    <3>3. QED BY <3>1, <3>2
  <2>2. groupUser \subseteq
          [user : Id, group : Id \cup {NoId}, role : {"admin", "normal"}]
    <3>1. \A g \in DOMAIN Founded : g \in Id /\ Founded[g] \in Id
      BY <2>1 DEF Id
    <3>2. QED BY <3>1 DEF Init
  <2>3. \A w \in Worker :
          /\ groupvec[w] \in [DOMAIN groupvec[w] -> SUBSET Id]
          /\ DOMAIN groupvec[w] \subseteq Id
          /\ left[w] \subseteq DOMAIN groupvec[w]
    BY DEF Init
  <2>4. QED BY <2>1, <2>2, <2>3, AccountsAssumption DEF Init, TypeOK, Id
<1>2. LocalsOk BY DEF Init, LocalsOk
<1>3. Owned BY DEF Init, Owned
<1>4. \A w \in Worker : ~Inserted(w) /\ \A g : ~Founding(w, g)
  BY DEF Init, Inserted, Founding
<1>5. ClaimOnce BY <1>4 DEF ClaimOnce
<1>6. GroupsAdministered
  <2>1. \A row \in groupUser :
          row.group \in DOMAIN Founded /\ row.user = Founded[row.group]
    BY DEF Init
  <2>2. \A g \in DOMAIN Founded :
          [user |-> Founded[g], group |-> g, role |-> "admin"] \in groupUser
    BY DEF Init
  <2>3. \A g \in DOMAIN Founded : Admins(g) = {Founded[g]}
    <3> SUFFICES ASSUME NEW g \in DOMAIN Founded
                 PROVE  Admins(g) = {Founded[g]}
      OBVIOUS
    <3>1. \A u \in Admins(g) : u = Founded[g] BY <2>1 DEF Admins
    <3>2. PICK r \in groupUser :
            r = [user |-> Founded[g], group |-> g, role |-> "admin"]
      BY <2>2
    <3>3. Founded[g] \in Admins(g) BY <3>2 DEF Admins
    <3>4. QED BY <3>1, <3>3
  <2>4. QED BY <2>1, <2>3 DEF Init, GroupsAdministered
<1>7. \A w \in Worker : WorkerKept(w)
  BY <1>4 DEF Init, WorkerKept, Counted, Serves, RowKept, GroupKept, Known,
              Listed, Depth, Answers, RegSteps, ListSteps, KnownSteps,
              LoginSteps
<1>8. QED BY <1>1, <1>2, <1>3, <1>5, <1>6, <1>7 DEF Kept

(* A request that arrives, and the function it is given to. *)
LEMMA TypedRequest ==
  ASSUME TypeOK, NEW r \in Typed
  PROVE  /\ r \in Requests(Id, Id, Id)
         /\ r.op \in {"reg", "login", "logout", "addFriend", "createGroup",
                      "joinGroup"}
<1>1. /\ 1..Len(user) \subseteq Id /\ 1..(Len(user) + 1) \subseteq Id
      /\ 1..(Len(allGroup) + 1) \subseteq Id
  BY DEF Id
<1>2. r \in Requests(Id, Id, Id) BY <1>1 DEF Typed, Requests
<1>3. r.op \in {"reg", "login", "logout", "addFriend", "createGroup",
                "joinGroup"}
  BY DEF Typed, Requests
<1>4. QED BY <1>2, <1>3

(* The handles keep their types, *)
LEMMA HandleType ==
  ASSUME TypeOK, Owned, [Next]_vars
  PROVE  /\ mysql' \in [Handle -> {"ready", "open", "broken"}]
         /\ insertId' \in [Handle -> Nat]
<1>1. CASE \E w \in Worker : queryUsername(w)
  <2>1. PICK w \in Worker : queryUsername(w) BY <1>1
  <2>2. mysql' = mysql \/ mysql' = [mysql EXCEPT ![Conn(w)] = "open"]
    BY <2>1 DEF queryUsername
  <2>3. insertId' = insertId BY <2>1 DEF queryUsername
  <2>4. QED BY <2>2, <2>3 DEF TypeOK
<1>2. CASE \E w \in Worker : insert(w)
  <2>1. PICK w \in Worker : insert(w) BY <1>2
  <2>2. \/ insertId' = insertId
        \/ /\ insertId' = [insertId EXCEPT ![Conn(w)] = Len(user')]
           /\ user' = Append(user, NewRow(w))
    BY <2>1 DEF insert
  <2>3. user' = Append(user, NewRow(w)) => Len(user') \in Nat BY DEF TypeOK
  <2>4. mysql' = mysql BY <2>1 DEF insert
  <2>5. QED BY <2>2, <2>3, <2>4 DEF TypeOK
<1>3. CASE \E w \in Worker : createGroup(w)
  <2>1. PICK w \in Worker : createGroup(w) BY <1>3
  <2>2. \/ insertId' = insertId
        \/ /\ insertId' = [insertId EXCEPT ![Conn(w)] = Len(allGroup')]
           /\ allGroup' = Append(allGroup, js[w].user)
    BY <2>1 DEF createGroup
  <2>3. allGroup' = Append(allGroup, js[w].user) => Len(allGroup') \in Nat
    BY DEF TypeOK
  <2>4. mysql' = mysql BY <2>1 DEF createGroup
  <2>5. QED BY <2>2, <2>3, <2>4 DEF TypeOK
<1>4. CASE Recycle BY <1>4 DEF Recycle, TypeOK
<1>5. CASE \E h \in Handle : Lose(h) BY <1>5 DEF Lose, TypeOK
<1>6. CASE UNCHANGED <<mysql, insertId>> BY <1>6 DEF TypeOK
<1>7. QED
  BY <1>1, <1>2, <1>3, <1>4, <1>5, <1>6
     DEF Next, WorkerStep, onMessage, insert_id, query, updateState,
         queryFriends, queryGroup, queryGroup_members, queryGroup_return,
         addFriend, createGroup_id, addGroup, answer, getConnection, TimedOut,
         Produce, Reads, vars

(* so do the rows of group_user and the history, *)
LEMMA MemberType ==
  ASSUME TypeOK, \A w \in Worker : Serves(w) /\ GroupKept(w), [Next]_vars
  PROVE  /\ groupUser' \subseteq
              [user : Id, group : Id \cup {NoId}, role : {"admin", "normal"}]
         /\ adminless' \subseteq Id
<1>1. CASE \E w \in Worker : addGroup(w)
  <2>1. PICK w \in Worker : addGroup(w) BY <1>1
  <2>2. pc[w] = "addGroup" /\ js[w].op \in {"createGroup", "joinGroup"}
    BY <2>1 DEF addGroup, At, Serves
  <2>3. js[w] \in Requests(Id, Id, Id) \cup {NoRequest} BY DEF TypeOK
  <2>4. js[w].user \in Id /\ (js[w].op = "joinGroup" => js[w].other \in Id)
    BY <2>2, <2>3, RequestFields
  <2>5. js[w].op = "createGroup" => id[w] \in Id
    <3>1. js[w].op = "createGroup" => id[w] \in DOMAIN allGroup
      BY <2>2 DEF GroupKept, Founding
    <3>2. DOMAIN allGroup \subseteq Id BY DEF TypeOK, Id
    <3>3. QED BY <3>1, <3>2
  <2>6. Member(w) \in
          [user : Id, group : Id \cup {NoId}, role : {"admin", "normal"}]
    BY <2>2, <2>4, <2>5 DEF Member
  <2>7. QED BY <2>1, <2>5, <2>6 DEF addGroup, TypeOK
<1>2. CASE UNCHANGED <<groupUser, adminless>> BY <1>2 DEF TypeOK
<1>3. QED
  BY <1>1, <1>2
     DEF Next, WorkerStep, onMessage, queryUsername, insert, insert_id, query,
         updateState, queryFriends, queryGroup, queryGroup_members,
         queryGroup_return, addFriend, createGroup, createGroup_id, answer,
         getConnection, TimedOut, Produce, Recycle, Lose, Reads, vars, dbVars,
         ghostVars

(* and the functions of the workers. *)
LEMMA StepType ==
  ASSUME TypeOK, [Next]_vars
  PROVE  /\ pc' \in [Worker -> Functions] /\ proc' \in {"running", "crashed"}
         /\ js' \in [Worker -> Requests(Id, Id, Id) \cup {NoRequest}]
         /\ reqs' \in 0..MaxReqs /\ faults' \in 0..MaxFaults
<1>1. /\ pc \in [Worker -> Functions] /\ proc \in {"running", "crashed"}
      /\ js \in [Worker -> Requests(Id, Id, Id) \cup {NoRequest}]
      /\ reqs \in 0..MaxReqs /\ faults \in 0..MaxFaults
      /\ MaxReqs \in Nat /\ MaxFaults \in Nat
  BY AccountsAssumption DEF TypeOK, Functions
<1>2. proc' \in {"running", "crashed"}
  <2>1. CASE proc' = proc BY <1>1, <2>1
  <2>2. CASE \E w \in Worker : TimedOut(w) BY <2>2 DEF TimedOut
  <2>3. ASSUME NEW w \in Worker, WorkerStep(w), ~TimedOut(w)
        PROVE  proc' = proc
    BY <2>3
       DEF WorkerStep, queryUsername, insert, insert_id, query, updateState,
           queryFriends, queryGroup, queryGroup_members, queryGroup_return,
           addFriend, createGroup, createGroup_id, addGroup, answer,
           getConnection, Reads
  <2>4. QED
    BY <2>1, <2>2, <2>3
       DEF Next, onMessage, Produce, Recycle, Lose, vars
<1>3. reqs' \in 0..MaxReqs /\ faults' \in 0..MaxFaults
  <2>1. CASE \E w \in Worker : onMessage(w)
    BY <1>1, <2>1 DEF onMessage
  <2>2. CASE \E h \in Handle : Lose(h) BY <1>1, <2>2 DEF Lose
  <2>3. CASE UNCHANGED <<reqs, faults>> BY <1>1, <2>3
  <2>4. QED
    BY <2>1, <2>2, <2>3
       DEF Next, WorkerStep, queryUsername, insert, insert_id, query,
           updateState, queryFriends, queryGroup, queryGroup_members,
           queryGroup_return, addFriend, createGroup, createGroup_id,
           addGroup, answer, getConnection, TimedOut, Produce, Recycle,
           Reads, vars, ghostVars
<1>4. ASSUME NEW w \in Worker, onMessage(w)
      PROVE  /\ pc' \in [Worker -> Functions]
             /\ js' \in [Worker -> Requests(Id, Id, Id) \cup {NoRequest}]
  <2>1. PICK r \in Typed : /\ js' = [js EXCEPT ![w] = r]
                           /\ pc' = [pc EXCEPT ![w] = First[r.op]]
    BY <1>4 DEF onMessage, Goto
  <2>2. First[r.op] \in Functions BY TypedRequest DEF First, Functions
  <2>3. QED BY <1>1, <2>1, <2>2, TypedRequest
<1>5. ASSUME NEW w \in Worker, WorkerStep(w)
      PROVE  /\ pc' \in [Worker -> Functions]
             /\ js' \in [Worker -> Requests(Id, Id, Id) \cup {NoRequest}]
  <2>1. (\E f \in Functions : pc' = [pc EXCEPT ![w] = f]) \/ pc' = pc
    BY <1>5 DEF WorkerStep, queryUsername, insert, insert_id,
              query, updateState, queryFriends, queryGroup, queryGroup_members,
              queryGroup_return, addFriend, createGroup, createGroup_id,
              addGroup, answer, getConnection, TimedOut, Goto, Done,
              Functions, Answers
  <2>2. js' = js \/ js' = [js EXCEPT ![w] = NoRequest]
    BY <1>5 DEF WorkerStep, queryUsername, insert, insert_id,
              query, updateState, queryFriends, queryGroup, queryGroup_members,
              queryGroup_return, addFriend, createGroup, createGroup_id,
              addGroup, answer, getConnection, TimedOut, Done, Forget, Reads
  <2>3. QED BY <1>1, <2>1, <2>2
<1>6. ASSUME Produce \/ Recycle \/ (\E h \in Handle : Lose(h))
               \/ UNCHANGED vars
      PROVE  /\ pc' \in [Worker -> Functions]
             /\ js' \in [Worker -> Requests(Id, Id, Id) \cup {NoRequest}]
  <2>1. pc' = pc /\ js' = js BY <1>6 DEF Produce, Recycle, Lose, vars
  <2>2. QED BY <1>1, <2>1
<1>7. /\ pc' \in [Worker -> Functions]
      /\ js' \in [Worker -> Requests(Id, Id, Id) \cup {NoRequest}]
  BY <1>4, <1>5, <1>6 DEF Next
<1>8. QED BY <1>2, <1>3, <1>7

(* The locals of the workers keep theirs. *)
LocalsType(w) ==
  /\ groupvec[w] \in [DOMAIN groupvec[w] -> SUBSET Id]
  /\ DOMAIN groupvec[w] \subseteq Id
  /\ left[w] \subseteq DOMAIN groupvec[w]

(* Forgetting a request, reading an id and reading a list keep them. *)
LEMMA LocalType ==
  ASSUME TypeOK, LocalsOk, Owned, [Next]_vars
  PROVE  /\ id' \in [Worker -> Nat \cup {NoId}]
         /\ frivec' \in [Worker -> SUBSET Id]
         /\ LocalsOk' /\ \A w \in Worker : LocalsType(w)'
<1>1. /\ id \in [Worker -> Nat \cup {NoId}] /\ frivec \in [Worker -> SUBSET Id]
      /\ \A w \in Worker : LocalsType(w)
  BY DEF TypeOK, LocalsType
<1>2. CASE UNCHANGED localVars
  BY <1>1, <1>2 DEF localVars, LocalsOk, LocalsType
<1>3. ASSUME NEW w \in Worker, Forget(w)
      PROVE  /\ id' \in [Worker -> Nat \cup {NoId}]
             /\ frivec' \in [Worker -> SUBSET Id]
             /\ LocalsOk' /\ \A v \in Worker : LocalsType(v)'
  <2>1. /\ id' = [id EXCEPT ![w] = NoId]
        /\ frivec' = [frivec EXCEPT ![w] = {}]
        /\ groupvec' = [groupvec EXCEPT ![w] = <<>>]
        /\ left' = [left EXCEPT ![w] = {}]
    BY <1>3 DEF Forget
  <2>2. /\ groupvec'[w] = <<>> /\ left'[w] = {}
        /\ \A v \in Worker \ {w} : /\ groupvec'[v] = groupvec[v]
                                   /\ left'[v] = left[v]
    BY <2>1 DEF LocalsOk
  <2>3. \A v \in Worker : LocalsType(v)'
    <3>1. ASSUME NEW v \in Worker \ {w} PROVE LocalsType(v)'
      BY <1>1, <2>2, <3>1 DEF LocalsType
    <3>2. LocalsType(w)'
      <4>1. DOMAIN <<>> = {} /\ <<>> \in [{} -> SUBSET Id] OBVIOUS
      <4>2. QED BY <2>2, <4>1 DEF LocalsType
    <3>3. QED BY <3>1, <3>2
  <2>4. LocalsOk' BY <2>1 DEF LocalsOk
  <2>5. QED BY <1>1, <2>1, <2>3, <2>4
<1>4. ASSUME NEW w \in Worker, insert_id(w) \/ createGroup_id(w)
      PROVE  /\ id' \in [Worker -> Nat \cup {NoId}]
             /\ frivec' \in [Worker -> SUBSET Id]
             /\ LocalsOk' /\ \A v \in Worker : LocalsType(v)'
  <2>1. /\ id' = [id EXCEPT ![w] = insertId[Conn(w)]] /\ Len(sp[w]) = 1
        /\ UNCHANGED <<frivec, groupvec, left>>
    BY <1>4 DEF insert_id, createGroup_id, At, Depth, Answers
  <2>2. Conn(w) \in Handle
    <3>1. Len(sp[w]) > 0 BY <2>1
    <3>2. QED BY <3>1, ConnHeld
  <2>3. insertId[Conn(w)] \in Nat BY <2>2 DEF TypeOK
  <2>4. QED BY <1>1, <2>1, <2>3 DEF LocalsOk, LocalsType
<1>5. ASSUME NEW w \in Worker, queryFriends(w)
      PROVE  /\ id' \in [Worker -> Nat \cup {NoId}]
             /\ frivec' \in [Worker -> SUBSET Id]
             /\ LocalsOk' /\ \A v \in Worker : LocalsType(v)'
  <2>1. PICK F : F \subseteq DOMAIN user /\ frivec' = [frivec EXCEPT ![w] = F]
    BY <1>5 DEF queryFriends
  <2>2. F \subseteq Id BY <2>1 DEF TypeOK, Id
  <2>3. UNCHANGED <<id, groupvec, left>> BY <1>5 DEF queryFriends
  <2>4. QED BY <1>1, <2>1, <2>2, <2>3 DEF LocalsOk, LocalsType
<1>6. ASSUME NEW w \in Worker, queryGroup(w)
      PROVE  /\ id' \in [Worker -> Nat \cup {NoId}]
             /\ frivec' \in [Worker -> SUBSET Id]
             /\ LocalsOk' /\ \A v \in Worker : LocalsType(v)'
  <2>1. PICK G : /\ G \subseteq DOMAIN allGroup
                 /\ groupvec' = [groupvec EXCEPT ![w] = [g \in G |-> {}]]
                 /\ left' = [left EXCEPT ![w] = G]
    BY <1>6 DEF queryGroup, GroupsOf
  <2>2. G \subseteq Id BY <2>1 DEF TypeOK, Id
  <2>3. UNCHANGED <<id, frivec>> BY <1>6 DEF queryGroup
  <2>4. QED BY <1>1, <2>1, <2>2, <2>3 DEF LocalsOk, LocalsType
<1>7. ASSUME NEW w \in Worker, queryGroup_members(w)
      PROVE  /\ id' \in [Worker -> Nat \cup {NoId}]
             /\ frivec' \in [Worker -> SUBSET Id]
             /\ LocalsOk' /\ \A v \in Worker : LocalsType(v)'
  <2>1. PICK g \in left[w], M \in SUBSET DOMAIN user :
          /\ groupvec' = [groupvec EXCEPT ![w][g] = M]
          /\ left' = [left EXCEPT ![w] = @ \ {g}]
    <3>1. PICK g \in left[w] :
            /\ groupvec' = [groupvec EXCEPT ![w][g] =
                              IF Works(w) THEN MembersOf(g) ELSE {}]
            /\ left' = [left EXCEPT ![w] = @ \ {g}]
      BY <1>7 DEF queryGroup_members
    <3>2. PICK M : M = IF Works(w) THEN MembersOf(g) ELSE {} OBVIOUS
    <3>3. M \in SUBSET DOMAIN user BY <3>2 DEF MembersOf
    <3>4. QED BY <3>1, <3>2, <3>3
  <2>2. M \subseteq Id BY <2>1 DEF TypeOK, Id
  <2>3. UNCHANGED <<id, frivec>> BY <1>7 DEF queryGroup_members
  <2>4. PICK vec : vec = [groupvec[w] EXCEPT ![g] = M] OBVIOUS
  <2>5. /\ groupvec' = [groupvec EXCEPT ![w] = vec]
        /\ DOMAIN vec = DOMAIN groupvec[w] /\ vec \in [DOMAIN vec -> SUBSET Id]
    BY <1>1, <2>1, <2>2, <2>4 DEF LocalsType
  <2>6. QED BY <1>1, <2>1, <2>3, <2>5 DEF LocalsOk, LocalsType
<1>8. ASSUME NEW w \in Worker, WorkerStep(w), ~UNCHANGED localVars, ~Forget(w)
      PROVE  \/ insert_id(w) \/ createGroup_id(w) \/ queryFriends(w)
             \/ queryGroup(w) \/ queryGroup_members(w)
  BY <1>8 DEF WorkerStep, queryUsername, insert, query, updateState,
              queryGroup_return, addFriend, createGroup, addGroup, answer,
              getConnection, TimedOut, Done
<1>9. UNCHANGED localVars \/ \E w \in Worker : WorkerStep(w)
  BY DEF Next, onMessage, Produce, Recycle, Lose, vars
<1>10. QED BY <1>2, <1>3, <1>4, <1>5, <1>6, <1>7, <1>8, <1>9

(* All the types together. *)
LEMMA TypeStep ==
  ASSUME TypeOK, LocalsOk, Owned, \A w \in Worker : Serves(w) /\ GroupKept(w),
         [Next]_vars
  PROVE  TypeOK' /\ LocalsOk' /\ Owned'
<1>1. /\ idle' \subseteq Handle /\ sp' \in [Worker -> Seq(Handle)] /\ Owned'
  BY OwnedStep
<1>2. /\ mysql' \in [Handle -> {"ready", "open", "broken"}]
      /\ insertId' \in [Handle -> Nat]
  BY HandleType
<1>3. /\ user' \in Seq(UserRow) /\ friend' \subseteq Id \X Id
      /\ allGroup' \in Seq(Id)
  BY GrowsStep
<1>4. /\ groupUser' \subseteq
           [user : Id, group : Id \cup {NoId}, role : {"admin", "normal"}]
      /\ adminless' \subseteq Id
  BY MemberType
<1>5. /\ pc' \in [Worker -> Functions] /\ proc' \in {"running", "crashed"}
      /\ js' \in [Worker -> Requests(Id, Id, Id) \cup {NoRequest}]
      /\ reqs' \in 0..MaxReqs /\ faults' \in 0..MaxFaults
  BY StepType
<1>6. /\ id' \in [Worker -> Nat \cup {NoId}]
      /\ frivec' \in [Worker -> SUBSET Id]
      /\ LocalsOk' /\ \A w \in Worker : LocalsType(w)'
  BY LocalType
<1>7. QED
  BY <1>1, <1>2, <1>3, <1>4, <1>5, <1>6 DEF TypeOK, Functions, LocalsType

-----------------------------------------------------------------------------
(* What a worker knows of its request.                                     *)

(* Nothing, in these functions. *)
Passive(w) ==
  /\ pc[w] \notin {"insert_id", "reg_ok", "createGroup_id"} \cup KnownSteps
  /\ pc[w] = "updateState" => js[w].op # "login"
  /\ pc[w] = "addGroup" => js[w].op # "createGroup"

(* So there is nothing to keep. *)
LEMMA PassiveKept ==
  ASSUME NEW w \in Worker, Passive(w)'
  PROVE  /\ RowKept(w)' /\ GroupKept(w)' /\ Known(w)' /\ Listed(w)'
         /\ ~Inserted(w)' /\ \A g : ~Founding(w, g)'
<1>1. ~Inserted(w)' /\ \A g : ~Founding(w, g)'
  BY DEF Passive, Inserted, Founding
<1>2. Known(w)' /\ Listed(w)' BY DEF Passive, Known, Listed, KnownSteps
<1>3. QED BY <1>1, <1>2 DEF RowKept, GroupKept

(* A row it knows of is not lost by the steps of others. *)
LEMMA SteadyKept ==
  ASSUME Grows, NEW v \in Worker, WorkerKept(v), Steady(v)
  PROVE  /\ WorkerKept(v)'
         /\ Inserted(v)' <=> Inserted(v)
         /\ Inserted(v) => Claim(v)' = Claim(v)
         /\ \A g : Founding(v, g)' <=> Founding(v, g)
<1>1. /\ sp'[v] = sp[v] /\ pc'[v] = pc[v] /\ js'[v] = js[v] /\ id'[v] = id[v]
      /\ groupvec'[v] = groupvec[v]
  BY DEF Steady
<1>2. Conn(v)' = Conn(v) BY <1>1 DEF Conn
<1>3. pc[v] \in {"insert_id", "createGroup_id"} =>
        insertId'[Conn(v)'] = insertId[Conn(v)]
  BY <1>2 DEF Steady, WorkerKept, Counted
<1>4. /\ Inserted(v)' <=> Inserted(v)
      /\ Inserted(v) => Claim(v)' = Claim(v)
  BY <1>1, <1>3 DEF Inserted, Claim
<1>5. \A g : Founding(v, g)' <=> Founding(v, g) BY <1>1, <1>3 DEF Founding
<1>6. Counted(v)' BY <1>1 DEF WorkerKept, Counted
<1>7. Serves(v)' BY <1>1 DEF WorkerKept, Serves
<1>8. RowKept(v)' BY <1>1, <1>4 DEF WorkerKept, RowKept, Grows
<1>9. GroupKept(v)' BY <1>1, <1>5 DEF WorkerKept, GroupKept, Grows
<1>10. Known(v)' BY <1>1 DEF WorkerKept, Known, Grows
<1>11. Listed(v)' BY <1>1 DEF WorkerKept, Listed, Grows, GroupsOf
<1>12. QED
  BY <1>4, <1>5, <1>6, <1>7, <1>8, <1>9, <1>10, <1>11 DEF WorkerKept

(* A statement that is the last of its connection. *)
LEMMA Released ==
  ASSUME TypeOK, Owned, NEW w \in Worker, NEW f, At(w, f), Release(w),
         Depth(f) \in {1, 2}
  PROVE  /\ pc[w] = f /\ Len(sp[w]) = Depth(f) /\ Conn(w) \in Handle
         /\ Len(sp'[w]) = Depth(f) - 1
<1>1. pc[w] = f /\ Len(sp[w]) = Depth(f) /\ Len(sp[w]) > 0 BY DEF At
<1>2. QED BY <1>1, ReleaseOwned, ConnHeld

(* reg, up to its answer *)
LEMMA RegKept ==
  ASSUME TypeOK, Owned, NEW w \in Worker, WorkerKept(w),
         queryUsername(w) \/ insert(w) \/ insert_id(w)
  PROVE  /\ WorkerKept(w)'
         /\ Inserted(w)' => \/ Inserted(w) /\ Claim(w)' = Claim(w)
                            \/ Claim(w)' \notin DOMAIN user
         /\ \A g : ~Founding(w, g)
<1> USE DEF Depth, Answers
<1>1. CASE queryUsername(w)
  <2>1. pc[w] = "queryUsername" /\ Len(sp'[w]) = 0
    BY <1>1, Released DEF queryUsername
  <2>2. pc'[w] \in {"insert", "reg_fail"} /\ js' = js
    BY <1>1 DEF queryUsername, Goto, TypeOK
  <2>3. Counted(w)' /\ Serves(w)' /\ Passive(w)'
    BY <2>1, <2>2 DEF Counted, Serves, WorkerKept, Passive, RegSteps,
                      ListSteps, KnownSteps, LoginSteps
  <2>4. \A g : ~Founding(w, g) BY <2>1 DEF Founding
  <2>5. QED BY <2>3, <2>4, PassiveKept DEF WorkerKept
<1>2. CASE insert(w)
  <2>1. /\ pc[w] = "insert" /\ js' = js /\ js[w].op = "reg"
        /\ Len(sp[w]) = 1 /\ \A g : ~Founding(w, g)
    BY <1>2 DEF insert, At, WorkerKept, Serves, RegSteps, Founding
  <2>2. CASE Release(w) /\ pc'[w] = "reg_fail"
    <3>1. Len(sp'[w]) = 0 BY <1>2, <2>2, Released DEF insert
    <3>2. Counted(w)' /\ Serves(w)' /\ Passive(w)'
      BY <2>1, <2>2, <3>1 DEF Counted, Serves, Passive, RegSteps, ListSteps,
                              KnownSteps, LoginSteps
    <3>3. QED BY <2>1, <3>2, PassiveKept DEF WorkerKept
  <2>3. CASE ~(Release(w) /\ pc'[w] = "reg_fail")
    <3>1. /\ user' = Append(user, NewRow(w)) /\ sp' = sp
          /\ insertId' = [insertId EXCEPT ![Conn(w)] = Len(user')]
          /\ pc'[w] = "insert_id"
      BY <1>2, <2>3 DEF insert, Goto, TypeOK, poolVars
    <3>2. Conn(w) \in Handle /\ Conn(w)' = Conn(w)
      <4>1. Len(sp[w]) > 0 BY <2>1
      <4>2. QED BY <3>1, <4>1, ConnHeld DEF Conn
    <3>3. Claim(w)' = Len(user')
      BY <3>1, <3>2 DEF Claim, TypeOK
    <3>4. PICK row \in UserRow : /\ row = NewRow(w) /\ row.name = js[w].name
                                 /\ row.password = js[w].password
      BY <2>1, NewRowType
    <3>5. user \in Seq(UserRow) BY DEF TypeOK
    <3>6. /\ Len(user') \in DOMAIN user' /\ Len(user') \notin DOMAIN user
          /\ user'[Len(user')] = row
      <4>1. user' = Append(user, row) BY <3>1, <3>4
      <4>2. PICK n : n = Len(user) OBVIOUS
      <4>3. /\ n \in Nat /\ DOMAIN user = 1..n /\ Len(user') = n + 1
            /\ DOMAIN user' = 1..(n + 1) /\ user'[n + 1] = row
        BY <3>5, <4>1, <4>2, AppendRow
      <4>4. QED BY <4>3
    <3>7. RowKept(w)' BY <2>1, <3>3, <3>4, <3>6 DEF RowKept
    <3>8. Counted(w)' /\ Serves(w)' /\ Known(w)' /\ Listed(w)'
      <4>1. Counted(w)'
        <5>1. Len(sp'[w]) = 1 BY <2>1, <3>1
        <5>2. QED BY <3>1, <5>1 DEF Counted
      <4>2. Serves(w)'
        BY <2>1, <3>1 DEF Serves, RegSteps, ListSteps, KnownSteps, LoginSteps
      <4>3. Known(w)' /\ Listed(w)'
        BY <3>1 DEF Known, Listed, ListSteps, KnownSteps
      <4>4. QED BY <4>1, <4>2, <4>3
    <3>9. GroupKept(w)' BY <3>1 DEF GroupKept, Founding
    <3>10. QED BY <2>1, <3>3, <3>6, <3>7, <3>8, <3>9 DEF WorkerKept
  <2>4. QED BY <2>2, <2>3
<1>3. CASE insert_id(w)
  <2>1. pc[w] = "insert_id" /\ Len(sp'[w]) = 0
    BY <1>3, Released DEF insert_id
  <2>2. /\ pc'[w] = "reg_ok" /\ js' = js /\ user' = user
        /\ id'[w] = insertId[Conn(w)]
    BY <1>3 DEF insert_id, Goto, Reads, dbVars, TypeOK
  <2>3. Inserted(w) /\ Claim(w)' = Claim(w)
    BY <2>1, <2>2 DEF Inserted, Claim
  <2>4. RowKept(w)' BY <2>2, <2>3 DEF WorkerKept, RowKept
  <2>5. Counted(w)' /\ Serves(w)' /\ Known(w)' /\ Listed(w)'
    BY <2>1, <2>2 DEF Counted, Serves, Known, Listed, WorkerKept, RegSteps,
                      ListSteps, KnownSteps, LoginSteps
  <2>6. GroupKept(w)' /\ \A g : ~Founding(w, g)
    BY <2>1, <2>2 DEF GroupKept, Founding
  <2>7. QED BY <2>3, <2>4, <2>5, <2>6 DEF WorkerKept
<1>4. QED BY <1>1, <1>2, <1>3

(* login, and logout *)
LEMMA LoginKept ==
  ASSUME TypeOK, LocalsOk, Owned, NEW w \in Worker, WorkerKept(w),
         \/ query(w) \/ updateState(w) \/ queryFriends(w)
         \/ queryGroup(w) \/ queryGroup_members(w) \/ queryGroup_return(w)
  PROVE  WorkerKept(w)' /\ ~Inserted(w)' /\ \A g : ~Founding(w, g)
<1> USE DEF Depth, Answers
<1>1. CASE query(w)
  <2>1. pc[w] = "query" /\ Len(sp'[w]) = 0 BY <1>1, Released DEF query
  <2>2. /\ pc'[w] \in {"login_wrong", "login_repeat", "updateState"}
        /\ pc'[w] = "updateState" => js[w].user \in DOMAIN user
        /\ js' = js /\ user' = user /\ js[w].op = "login"
    BY <1>1, <2>1
       DEF query, Goto, Found, Reads, dbVars, TypeOK, WorkerKept, Serves,
           LoginSteps
  <2>3. Counted(w)' /\ Serves(w)' /\ Known(w)' /\ Listed(w)'
    BY <2>1, <2>2 DEF Counted, Serves, Known, Listed, RegSteps,
                      ListSteps, KnownSteps, LoginSteps
  <2>4. ~Inserted(w)' /\ \A g : ~Founding(w, g) /\ ~Founding(w, g)'
    BY <2>1, <2>2 DEF Inserted, Founding
  <2>5. QED BY <2>3, <2>4 DEF WorkerKept, RowKept, GroupKept
<1>2. CASE updateState(w)
  <2>1. pc[w] = "updateState" /\ Len(sp'[w]) = 0
    BY <1>2, Released DEF updateState
  <2>2. \A g : ~Founding(w, g) BY <2>1 DEF Founding
  <2>3. CASE js[w].op = "login"
    <3>1. pc'[w] = "queryFriends" /\ js' = js
      BY <1>2, <2>3 DEF updateState, Goto, TypeOK
    <3>2. js[w].user \in DOMAIN user'
      BY <1>2, <2>1, <2>3, StateType DEF WorkerKept, Known
    <3>3. Counted(w)' /\ Serves(w)' /\ Known(w)' /\ Listed(w)'
      BY <2>1, <2>3, <3>1, <3>2 DEF Counted, Serves, Known, Listed, RegSteps,
                                    ListSteps, KnownSteps, LoginSteps
    <3>4. ~Inserted(w)' /\ \A g : ~Founding(w, g)'
      BY <3>1 DEF Inserted, Founding
    <3>5. QED BY <2>2, <3>3, <3>4 DEF WorkerKept, RowKept, GroupKept
  <2>4. CASE js[w].op # "login"
    <3>1. pc'[w] = "idle"
      BY <1>2, <2>4 DEF updateState, Done, Goto, TypeOK
    <3>2. Counted(w)' /\ Serves(w)' /\ Passive(w)'
      BY <2>1, <3>1 DEF Counted, Serves, Passive, RegSteps, ListSteps,
                        KnownSteps, LoginSteps
    <3>3. QED BY <2>2, <3>2, PassiveKept DEF WorkerKept
  <2>5. QED BY <2>3, <2>4
<1>3. CASE queryFriends(w)
  <2>1. pc[w] = "queryFriends" /\ Len(sp'[w]) = 0
    BY <1>3, Released DEF queryFriends
  <2>2. pc'[w] = "queryGroup" /\ js' = js /\ user' = user
    BY <1>3 DEF queryFriends, Goto, Reads, dbVars, TypeOK
  <2>3. Counted(w)' /\ Serves(w)' /\ Known(w)' /\ Listed(w)'
    BY <2>1, <2>2 DEF WorkerKept, Counted, Serves, Known, Listed, RegSteps,
                      ListSteps, KnownSteps, LoginSteps
  <2>4. ~Inserted(w)' /\ \A g : ~Founding(w, g) /\ ~Founding(w, g)'
    BY <2>1, <2>2 DEF Inserted, Founding
  <2>5. QED BY <2>3, <2>4 DEF WorkerKept, RowKept, GroupKept
<1>4. CASE queryGroup(w)
  <2>1. PICK G : /\ G \subseteq GroupsOf(js[w].user)
                 /\ groupvec' = [groupvec EXCEPT ![w] = [g \in G |-> {}]]
                 /\ pc'[w] \in {"queryGroup_return", "queryGroup_members"}
    BY <1>4 DEF queryGroup, Goto, TypeOK
  <2>2. /\ pc[w] = "queryGroup" /\ js' = js /\ sp' = sp /\ Len(sp[w]) = 1
        /\ UNCHANGED dbVars
    BY <1>4 DEF queryGroup, At, Reads, poolVars
  <2>3. Counted(w)' /\ Serves(w)' /\ Known(w)'
    BY <2>1, <2>2 DEF WorkerKept, Counted, Serves, Known, RegSteps,
                      ListSteps, KnownSteps, LoginSteps, dbVars
  <2>4. groupvec'[w] = [g \in G |-> {}] BY <2>1 DEF LocalsOk
  <2>5. Listed(w)' BY <2>1, <2>2, <2>4 DEF Listed, GroupsOf, dbVars
  <2>6. ~Inserted(w)' /\ \A g : ~Founding(w, g) /\ ~Founding(w, g)'
    BY <2>1, <2>2 DEF Inserted, Founding
  <2>7. QED BY <2>3, <2>5, <2>6 DEF WorkerKept, RowKept, GroupKept
<1>5. CASE queryGroup_members(w)
  <2>1. PICK g \in left[w] :
          groupvec' = [groupvec EXCEPT ![w][g] =
                         IF Works(w) THEN MembersOf(g) ELSE {}]
    BY <1>5 DEF queryGroup_members
  <2>2. PICK M : M = IF Works(w) THEN MembersOf(g) ELSE {} OBVIOUS
  <2>3. /\ pc[w] = "queryGroup_members" /\ js' = js /\ UNCHANGED dbVars
        /\ pc'[w] \in {"queryGroup_return", "queryGroup_members"}
    BY <1>5 DEF queryGroup_members, At, Reads, Goto, TypeOK
  <2>4. Len(sp'[w]) = 1
    <3>1. Len(sp[w]) = 2 /\ Release(w)
      BY <1>5 DEF queryGroup_members, At
    <3>2. Len(sp[w]) > 0 BY <3>1
    <3>3. Len(sp'[w]) = Len(sp[w]) - 1 BY <3>1, <3>2, ReleaseOwned
    <3>4. QED BY <3>1, <3>3
  <2>5. Counted(w)' /\ Serves(w)' /\ Known(w)'
    BY <2>3, <2>4 DEF WorkerKept, Counted, Serves, Known, RegSteps,
                      ListSteps, KnownSteps, LoginSteps, dbVars
  <2>6. /\ DOMAIN groupvec'[w] = DOMAIN groupvec[w] /\ groupvec'[w][g] = M
        /\ g \in DOMAIN groupvec[w]
        /\ \A f \in DOMAIN groupvec[w] : f # g =>
             groupvec'[w][f] = groupvec[w][f]
    BY <2>1, <2>2 DEF LocalsOk, TypeOK
  <2>7. M = {} \/ js[w].user \in M
    <3>1. g \in GroupsOf(js[w].user)
      BY <2>3, <2>6 DEF WorkerKept, Listed, ListSteps
    <3>2. js[w].user \in DOMAIN user
      BY <2>3 DEF WorkerKept, Known, KnownSteps, ListSteps
    <3>3. js[w].user \in MembersOf(g) BY <3>1, <3>2 DEF GroupsOf, MembersOf
    <3>4. QED BY <2>2, <3>3
  <2>8. \A f \in DOMAIN groupvec[w] :
          /\ f \in GroupsOf(js[w].user)
          /\ groupvec[w][f] = {} \/ js[w].user \in groupvec[w][f]
    BY <2>3 DEF WorkerKept, Listed, ListSteps
  <2>9. Listed(w)'
    BY <2>3, <2>6, <2>7, <2>8 DEF Listed, GroupsOf, dbVars
  <2>10. ~Inserted(w)' /\ \A f : ~Founding(w, f) /\ ~Founding(w, f)'
    BY <2>3 DEF Inserted, Founding
  <2>11. QED BY <2>5, <2>9, <2>10 DEF WorkerKept, RowKept, GroupKept
<1>6. CASE queryGroup_return(w)
  <2>1. pc[w] = "queryGroup_return" /\ Len(sp'[w]) = 0
    BY <1>6, Released DEF queryGroup_return
  <2>2. /\ pc'[w] = "login_ok" /\ js' = js /\ UNCHANGED dbVars
        /\ groupvec' = groupvec
    BY <1>6 DEF queryGroup_return, Goto, Reads, localVars, TypeOK
  <2>3. Counted(w)' /\ Serves(w)' /\ Known(w)'
    BY <2>1, <2>2 DEF WorkerKept, Counted, Serves, Known, RegSteps,
                      ListSteps, KnownSteps, LoginSteps, dbVars
  <2>4. Listed(w)'
    BY <2>1, <2>2 DEF WorkerKept, Listed, ListSteps, GroupsOf, dbVars
  <2>5. ~Inserted(w)' /\ \A g : ~Founding(w, g) /\ ~Founding(w, g)'
    BY <2>1, <2>2 DEF Inserted, Founding
  <2>6. QED BY <2>3, <2>4, <2>5 DEF WorkerKept, RowKept, GroupKept
<1>7. QED BY <1>1, <1>2, <1>3, <1>4, <1>5, <1>6

(* addFriend, createGroup, joinGroup, and an answer *)
LEMMA GroupsKept ==
  ASSUME TypeOK, Owned, NEW w \in Worker, WorkerKept(w),
         \/ addFriend(w) \/ createGroup(w) \/ createGroup_id(w)
         \/ addGroup(w) \/ answer(w)
  PROVE  WorkerKept(w)' /\ ~Inserted(w)'
<1> USE DEF Depth, Answers
<1>1. CASE addFriend(w) \/ addGroup(w) \/ answer(w)
             \/ (createGroup(w) /\ pc'[w] = "idle")
  <2>1. pc'[w] = "idle"
    BY <1>1 DEF addFriend, addGroup, answer, Done, Goto, TypeOK
  <2>2. Len(sp'[w]) = 0
    <3>1. CASE addFriend(w) BY <3>1, Released DEF addFriend
    <3>2. CASE addGroup(w) BY <3>2, Released DEF addGroup
    <3>3. CASE createGroup(w) /\ pc'[w] = "idle"
      <4>1. Release(w) BY <3>3 DEF createGroup, Goto, TypeOK
      <4>2. QED BY <3>3, <4>1, Released DEF createGroup
    <3>4. CASE answer(w)
      <4>1. sp' = sp /\ Len(sp[w]) <= 0
        BY <3>4 DEF answer, WorkerKept, Counted, poolVars
      <4>2. Len(sp[w]) \in Nat BY DEF TypeOK
      <4>3. QED BY <4>1, <4>2
    <3>5. QED BY <1>1, <3>1, <3>2, <3>3, <3>4
  <2>3. Counted(w)' /\ Serves(w)' /\ Passive(w)'
    BY <2>1, <2>2 DEF Counted, Serves, Passive, RegSteps, ListSteps,
                      KnownSteps, LoginSteps
  <2>4. QED BY <2>3, PassiveKept DEF WorkerKept
<1>2. CASE createGroup(w) /\ pc'[w] # "idle"
  <2>1. /\ allGroup' = Append(allGroup, js[w].user) /\ sp' = sp /\ js' = js
        /\ insertId' = [insertId EXCEPT ![Conn(w)] = Len(allGroup')]
        /\ pc'[w] = "createGroup_id"
    BY <1>2 DEF createGroup, Goto, Done, TypeOK, poolVars
  <2>2. /\ pc[w] = "createGroup" /\ js[w].op = "createGroup"
        /\ Len(sp[w]) = 1 /\ js[w] \in Requests(Id, Id, Id) \cup {NoRequest}
    BY <1>2 DEF createGroup, At, WorkerKept, Serves, TypeOK
  <2>3. Conn(w) \in Handle /\ Conn(w)' = Conn(w)
    <3>1. Len(sp[w]) > 0 BY <2>2
    <3>2. QED BY <2>1, <3>1, ConnHeld DEF Conn
  <2>4. PICK u \in Id : u = js[w].user BY <2>2, RequestFields
  <2>5. /\ Len(allGroup') \in DOMAIN allGroup'
        /\ allGroup'[Len(allGroup')] = u
    <3>1. allGroup \in Seq(Id) /\ allGroup' = Append(allGroup, u)
      BY <2>1, <2>4 DEF TypeOK
    <3>2. PICK n : n = Len(allGroup) OBVIOUS
    <3>3. /\ n \in Nat /\ Len(allGroup') = n + 1
          /\ DOMAIN allGroup' = 1..(n + 1) /\ allGroup'[n + 1] = u
      BY <3>1, <3>2, AppendRow
    <3>4. QED BY <3>3
  <2>6. GroupKept(w)'
    <3>1. insertId'[Conn(w)'] = Len(allGroup')
      BY <2>1, <2>3 DEF TypeOK
    <3>2. \A g : Founding(w, g)' => g = Len(allGroup')
      BY <2>1, <3>1 DEF Founding
    <3>3. QED BY <2>1, <2>4, <2>5, <3>2 DEF GroupKept
  <2>7. Counted(w)'
    <3>1. Len(sp'[w]) = 1 BY <2>1, <2>2
    <3>2. QED BY <2>1, <3>1 DEF Counted
  <2>8. Serves(w)' /\ Known(w)' /\ Listed(w)'
    BY <2>1, <2>2 DEF Serves, Known, Listed, RegSteps, ListSteps, KnownSteps,
                      LoginSteps
  <2>9. ~Inserted(w)' BY <2>1 DEF Inserted
  <2>10. QED BY <2>6, <2>7, <2>8, <2>9 DEF WorkerKept, RowKept
<1>3. CASE createGroup_id(w)
  <2>1. pc[w] = "createGroup_id" /\ Len(sp'[w]) = 0
    BY <1>3, Released DEF createGroup_id
  <2>2. /\ pc'[w] = "addGroup" /\ js' = js /\ allGroup' = allGroup
        /\ id'[w] = insertId[Conn(w)]
    BY <1>3 DEF createGroup_id, Goto, Reads, dbVars, TypeOK
  <2>3. \A g : Founding(w, g)' => Founding(w, g)
    BY <2>1, <2>2 DEF Founding
  <2>4. GroupKept(w)' BY <2>2, <2>3 DEF WorkerKept, GroupKept
  <2>5. Counted(w)' /\ Serves(w)' /\ Known(w)' /\ Listed(w)'
    BY <2>1, <2>2 DEF Counted, Serves, Known, Listed, WorkerKept, RegSteps,
                      ListSteps, KnownSteps, LoginSteps
  <2>6. ~Inserted(w)' BY <2>2 DEF Inserted
  <2>7. QED BY <2>4, <2>5, <2>6 DEF WorkerKept, RowKept
<1>4. QED BY <1>1, <1>2, <1>3

(* A request that arrives, and a connection that is waited for. *)
LEMMA ArrivesKept ==
  ASSUME TypeOK, NEW w \in Worker, WorkerKept(w), onMessage(w)
  PROVE  WorkerKept(w)' /\ ~Inserted(w)' /\ \A g : ~Founding(w, g)
<1>1. PICK r \in Typed : /\ js' = [js EXCEPT ![w] = r]
                         /\ pc' = [pc EXCEPT ![w] = First[r.op]]
  BY DEF onMessage, Goto
<1>2. /\ js'[w] = r /\ pc'[w] = First[r.op] /\ sp' = sp
      /\ pc[w] = "idle"
      /\ r.op \in {"reg", "login", "logout", "addFriend", "createGroup",
                   "joinGroup"}
  BY <1>1, TypedRequest DEF onMessage, TypeOK, poolVars
<1>3. Len(sp'[w]) = 0
  <2>1. Len(sp[w]) <= 0 /\ Len(sp[w]) \in Nat
    BY <1>2 DEF WorkerKept, Counted, Depth, Answers, TypeOK
  <2>2. QED BY <1>2, <2>1
<1>4. /\ First[r.op] \in {"queryUsername", "query", "updateState",
                          "addFriend", "createGroup", "addGroup"}
      /\ First[r.op] = "queryUsername" => r.op = "reg"
      /\ First[r.op] = "query" => r.op = "login"
      /\ First[r.op] = "updateState" => r.op = "logout"
      /\ First[r.op] = "addFriend" => r.op = "addFriend"
      /\ First[r.op] = "createGroup" => r.op = "createGroup"
      /\ First[r.op] = "addGroup" => r.op = "joinGroup"
  BY <1>2 DEF First
<1>5. Serves(w)' /\ Passive(w)'
  BY <1>2, <1>4 DEF Serves, Passive, RegSteps, ListSteps, KnownSteps,
                    LoginSteps, Answers
<1>6. Counted(w)'
  BY <1>2, <1>3, <1>4 DEF Counted, Depth, Answers
<1>7. \A g : ~Founding(w, g) BY <1>2 DEF Founding
<1>8. QED BY <1>5, <1>6, <1>7, PassiveKept DEF WorkerKept

(* A connection that comes is not the one an id is read from. *)
LEMMA TakesKept ==
  ASSUME TypeOK, Owned, NEW w \in Worker, WorkerKept(w), getConnection(w)
  PROVE  /\ WorkerKept(w)'
         /\ Inserted(w)' => Inserted(w) /\ Claim(w)' = Claim(w)
         /\ \A g : Founding(w, g)' <=> Founding(w, g)
<1>1. UNCHANGED <<dbVars, pc, js, localVars>> BY DEF getConnection
<1>2. Takes(w) /\ Len(sp[w]) < Depth(pc[w])
  BY DEF getConnection, Takes, Waits
<1>3. Len(sp'[w]) = Len(sp[w]) + 1 /\ Len(sp[w]) \in Nat
  BY <1>2, TakesOwned DEF TypeOK
<1>4. pc[w] \notin {"insert_id", "createGroup_id"}
  BY <1>2, <1>3 DEF WorkerKept, Counted, Depth, Answers
<1>5. Counted(w)'
  <2>1. Depth(pc[w]) \in {0, 1, 2} BY DEF Depth
  <2>2. Len(sp'[w]) <= Depth(pc[w]) /\ Len(sp'[w]) > 0
    BY <1>2, <1>3, <2>1
  <2>3. QED BY <1>1, <2>2 DEF Counted
<1>6. \A g : Founding(w, g)' <=> Founding(w, g)
  BY <1>1, <1>4 DEF Founding, localVars
<1>7. Inserted(w)' <=> Inserted(w) BY <1>1 DEF Inserted
<1>8. Inserted(w)' => Claim(w)' = Claim(w)
  BY <1>1, <1>4 DEF Claim, localVars
<1>9. RowKept(w)' BY <1>1, <1>7, <1>8 DEF WorkerKept, RowKept, dbVars
<1>10. GroupKept(w)' BY <1>1, <1>6 DEF WorkerKept, GroupKept, dbVars
<1>11. Serves(w)' /\ Known(w)' /\ Listed(w)'
  BY <1>1 DEF WorkerKept, Serves, Known, Listed, GroupsOf, dbVars, localVars
<1>12. QED
  BY <1>5, <1>6, <1>7, <1>8, <1>9, <1>10, <1>11 DEF WorkerKept

(* A step of a worker, and the ids that it claims and founds. *)
LEMMA OwnKept ==
  ASSUME TypeOK, LocalsOk, Owned, NEW w \in Worker, WorkerKept(w),
         onMessage(w) \/ WorkerStep(w)
  PROVE  /\ WorkerKept(w)'
         /\ Inserted(w)' => \/ Inserted(w) /\ Claim(w)' = Claim(w)
                            \/ Claim(w)' \notin DOMAIN user
         /\ ~addGroup(w) => \A g : Founding(w, g) => Founding(w, g)'
<1>1. CASE onMessage(w) BY <1>1, ArrivesKept
<1>2. CASE getConnection(w) BY <1>2, TakesKept
<1>3. CASE queryUsername(w) \/ insert(w) \/ insert_id(w) BY <1>3, RegKept
<1>4. CASE \/ query(w) \/ updateState(w) \/ queryFriends(w)
           \/ queryGroup(w) \/ queryGroup_members(w) \/ queryGroup_return(w)
  BY <1>4, LoginKept
<1>5. CASE \/ addFriend(w) \/ createGroup(w) \/ createGroup_id(w)
           \/ addGroup(w) \/ answer(w)
  <2>1. WorkerKept(w)' /\ ~Inserted(w)' BY <1>5, GroupsKept
  <2>2. CASE addFriend(w) \/ createGroup(w) \/ answer(w)
    <3>1. \A g : ~Founding(w, g)
      BY <2>2 DEF addFriend, createGroup, answer, Answers, At, Founding
    <3>2. QED BY <2>1, <3>1
  <2>3. CASE createGroup_id(w)
    <3>1. /\ pc[w] = "createGroup_id" /\ pc'[w] = "addGroup"
          /\ js' = js /\ id'[w] = insertId[Conn(w)]
      BY <2>3 DEF createGroup_id, At, Goto, Reads, TypeOK
    <3>2. js[w].op = "createGroup" BY <3>1 DEF WorkerKept, Serves
    <3>3. \A g : Founding(w, g) => Founding(w, g)'
      BY <3>1, <3>2 DEF Founding
    <3>4. QED BY <2>1, <3>3
  <2>4. CASE addGroup(w) BY <2>1, <2>4
  <2>5. QED BY <1>5, <2>2, <2>3, <2>4
<1>6. CASE TimedOut(w)
  <2>1. Grows /\ Steady(w)
    BY <1>6 DEF TimedOut, Grows, Steady, Conn, poolVars, dbVars, localVars
  <2>2. QED BY <2>1, SteadyKept
<1>7. QED BY <1>1, <1>2, <1>3, <1>4, <1>5, <1>6 DEF WorkerStep

-----------------------------------------------------------------------------
(* Admins.                                                                 *)

(* One more row of group_user. *)
LEMMA AdminsGrow ==
  ASSUME NEW row, groupUser' = groupUser \cup {row}, NEW g
  PROVE  Admins(g)' = IF row.group = g /\ row.role = "admin"
                      THEN Admins(g) \cup {row.user} ELSE Admins(g)
BY DEF Admins

(* The group of a createGroup that adds its admin. *)
LEMMA AdminAdded ==
  ASSUME TypeOK, Owned, GroupsAdministered, NEW w \in Worker, addGroup(w),
         Grows, Serves(w), GroupKept(w),
         \A v \in Worker \ {w} : \A g : Founding(v, g) => Founding(v, g)'
  PROVE  GroupsAdministered'
<1>1. /\ pc[w] = "addGroup" /\ allGroup' = allGroup
      /\ groupUser' = IF Works(w) THEN groupUser \cup {Member(w)} ELSE groupUser
      /\ adminless' = IF js[w].op = "createGroup" /\ ~Works(w)
                      THEN adminless \cup {id[w]} ELSE adminless
  BY DEF addGroup, At
<1>2. CASE js[w].op # "createGroup"
  <2>1. \A g : ~Founding(w, g) BY <1>1, <1>2 DEF Founding
  <2>2. Member(w).role = "normal" /\ adminless' = adminless
    BY <1>1, <1>2 DEF Member
  <2>3. \A g : Admins(g)' = Admins(g)
    <3>1. CASE Works(w)
      <4>1. PICK row : row = Member(w) OBVIOUS
      <4>2. groupUser' = groupUser \cup {row} /\ row.role = "normal"
        BY <1>1, <2>2, <3>1, <4>1
      <4>3. QED BY <4>2, AdminsGrow
    <3>2. CASE ~Works(w) BY <1>1, <3>2 DEF Admins
    <3>3. QED BY <3>1, <3>2
  <2>4. \A row \in groupUser' :
          row.role = "admin" => row.group \in DOMAIN allGroup
    BY <1>1, <2>2 DEF GroupsAdministered
  <2>5. \A g : (\E v \in Worker : Founding(v, g))
                 => \E v \in Worker : Founding(v, g)'
    BY <2>1
  <2>6. QED BY <1>1, <2>2, <2>3, <2>4, <2>5 DEF GroupsAdministered
<1>3. CASE js[w].op = "createGroup"
  <2>1. PICK f : f = id[w] OBVIOUS
  <2>2. f \in DOMAIN allGroup /\ allGroup[f] = js[w].user
    BY <1>1, <1>3, <2>1 DEF GroupKept, Founding
  <2>3. \A g : Founding(w, g) => g = f BY <1>1, <2>1 DEF Founding
  <2>4. \A g : g # f /\ (\E v \in Worker : Founding(v, g))
               => \E v \in Worker : Founding(v, g)'
    BY <2>3
  <2>5. CASE Works(w)
    <3>1. PICK row : row = Member(w) OBVIOUS
    <3>2. /\ groupUser' = groupUser \cup {row} /\ adminless' = adminless
          /\ row.user = allGroup[f] /\ row.group = f /\ row.role = "admin"
      BY <1>1, <1>3, <2>1, <2>2, <2>5, <3>1 DEF Member
    <3>3. \A g : Admins(g)' = IF g = f THEN Admins(g) \cup {allGroup[f]}
                                       ELSE Admins(g)
      BY <3>2, AdminsGrow
    <3>4. Admins(f)' = {allGroup[f]} BY <2>2, <3>3 DEF GroupsAdministered
    <3>5. \A r \in groupUser' : r.role = "admin" => r.group \in DOMAIN allGroup
      BY <2>2, <3>2 DEF GroupsAdministered
    <3>6. QED BY <1>1, <2>4, <3>2, <3>3, <3>4, <3>5 DEF GroupsAdministered
  <2>6. CASE ~Works(w)
    <3>1. groupUser' = groupUser /\ adminless' = adminless \cup {f}
      BY <1>1, <1>3, <2>1, <2>6
    <3>2. \A g : Admins(g)' = Admins(g) BY <3>1 DEF Admins
    <3>3. QED BY <1>1, <2>4, <3>1, <3>2 DEF GroupsAdministered
  <2>7. QED BY <2>5, <2>6
<1>4. QED BY <1>2, <1>3

(* A group that createGroup has made, and who will be its admin. *)
LEMMA GroupAdded ==
  ASSUME TypeOK, Owned, GroupsAdministered, NEW w \in Worker, createGroup(w),
         \A v \in Worker : \A g : Founding(v, g) => Founding(v, g)'
  PROVE  GroupsAdministered'
<1>1. groupUser' = groupUser /\ adminless' = adminless
  BY DEF createGroup, ghostVars
<1>2. \A g : Admins(g)' = Admins(g) BY <1>1 DEF Admins
<1>3. CASE allGroup' = allGroup BY <1>1, <1>2, <1>3 DEF GroupsAdministered
<1>4. CASE allGroup' # allGroup
  <2>1. /\ allGroup' = Append(allGroup, js[w].user) /\ sp' = sp
        /\ insertId' = [insertId EXCEPT ![Conn(w)] = Len(allGroup')]
        /\ pc'[w] = "createGroup_id" /\ Len(sp[w]) = 1
    BY <1>4 DEF createGroup, Goto, At, Depth, Answers, TypeOK, poolVars
  <2>2. PICK n : n = Len(allGroup) OBVIOUS
  <2>3. PICK u : u = js[w].user OBVIOUS
  <2>4. /\ n \in Nat /\ DOMAIN allGroup = 1..n /\ DOMAIN allGroup' = 1..(n + 1)
        /\ Len(allGroup') = n + 1
        /\ \A g \in 1..n : allGroup'[g] = allGroup[g]
    BY <2>1, <2>2, <2>3 DEF TypeOK
  <2>5. Founding(w, n + 1)'
    <3>1. Conn(w) \in Handle /\ Conn(w)' = Conn(w)
      <4>1. Len(sp[w]) > 0 BY <2>1
      <4>2. QED BY <2>1, <4>1, ConnHeld DEF Conn
    <3>2. insertId'[Conn(w)'] = n + 1 BY <2>1, <2>4, <3>1 DEF TypeOK
    <3>3. QED BY <2>1, <3>2 DEF Founding
  <2>6. Admins(n + 1) = {}
    <3>1. n + 1 \notin DOMAIN allGroup BY <2>4
    <3>2. QED BY <3>1 DEF Admins, GroupsAdministered
  <2>7. ASSUME NEW g \in DOMAIN allGroup'
        PROVE  \/ Admins(g)' = {allGroup'[g]}
               \/ /\ Admins(g)' = {}
                  /\ g \in adminless' \/ \E v \in Worker : Founding(v, g)'
    <3>1. CASE g = n + 1 BY <1>2, <2>5, <2>6, <3>1
    <3>2. CASE g \in DOMAIN allGroup
      <4>1. allGroup'[g] = allGroup[g] BY <2>4, <3>2
      <4>2. QED BY <1>1, <1>2, <3>2, <4>1 DEF GroupsAdministered
    <3>3. QED BY <2>4, <3>1, <3>2
  <2>8. DOMAIN allGroup \subseteq DOMAIN allGroup' BY <2>4
  <2>9. QED BY <1>1, <2>7, <2>8 DEF GroupsAdministered
<1>5. QED BY <1>3, <1>4

(* Every step keeps the admins. *)
LEMMA AdminsStep ==
  ASSUME Kept, Grows, [Next]_vars
  PROVE  GroupsAdministered'
<1>1. ASSUME UNCHANGED <<allGroup, groupUser, adminless>>,
             \A v \in Worker : \A g : Founding(v, g) => Founding(v, g)'
      PROVE  GroupsAdministered'
  <2>1. \A g : Admins(g)' = Admins(g) BY <1>1 DEF Admins
  <2>2. QED BY <1>1, <2>1 DEF Kept, GroupsAdministered
<1>2. ASSUME NEW w \in Worker, onMessage(w) \/ WorkerStep(w)
      PROVE  GroupsAdministered'
  <2>1. \A v \in Worker \ {w} : \A g : Founding(v, g) => Founding(v, g)'
    BY <1>2, OthersSteady, SteadyKept DEF Kept
  <2>2. ~addGroup(w) => \A g : Founding(w, g) => Founding(w, g)'
    BY <1>2, OwnKept DEF Kept
  <2>3. CASE addGroup(w)
    BY <2>1, <2>3, AdminAdded DEF Kept, WorkerKept
  <2>4. CASE createGroup(w) /\ ~addGroup(w)
    BY <2>1, <2>2, <2>4, GroupAdded DEF Kept
  <2>5. CASE ~createGroup(w) /\ ~addGroup(w)
    <3>1. UNCHANGED <<allGroup, groupUser, adminless>>
      BY <1>2, <2>5
         DEF WorkerStep, onMessage, queryUsername, insert, insert_id, query,
             updateState, queryFriends, queryGroup, queryGroup_members,
             queryGroup_return, addFriend, createGroup_id, answer,
             getConnection, TimedOut, Reads, dbVars, ghostVars
    <3>2. QED BY <1>1, <2>1, <2>2, <2>5, <3>1
  <2>6. QED BY <2>3, <2>4, <2>5
<1>3. CASE Produce \/ Recycle \/ (\E h \in Handle : Lose(h)) \/ UNCHANGED vars
  <2>1. /\ \A v \in Worker : Steady(v)
        /\ UNCHANGED <<dbVars, pc, js, localVars, adminless>>
    BY <1>3, PoolSteady DEF Kept
  <2>2. \A v \in Worker : \A g : Founding(v, g) => Founding(v, g)'
    BY <2>1, SteadyKept DEF Kept
  <2>3. QED BY <1>1, <2>1, <2>2 DEF dbVars
<1>4. QED BY <1>2, <1>3 DEF Next

-----------------------------------------------------------------------------
(* The invariant.                                                          *)

(* What each worker knows survives every step, and no two claim one row. *)
LEMMA WorkersStep ==
  ASSUME Kept, Grows, [Next]_vars
  PROVE  ClaimOnce' /\ \A w \in Worker : WorkerKept(w)'
<1>1. ASSUME NEW w \in Worker, onMessage(w) \/ WorkerStep(w)
      PROVE  ClaimOnce' /\ \A v \in Worker : WorkerKept(v)'
  <2>1. \A v \in Worker \ {w} : Steady(v) BY <1>1, OthersSteady DEF Kept
  <2>2. ASSUME NEW v \in Worker \ {w}
        PROVE  /\ WorkerKept(v)' /\ (Inserted(v)' <=> Inserted(v))
               /\ Inserted(v) => Claim(v)' = Claim(v)
               /\ Inserted(v) => Claim(v) \in DOMAIN user
    BY <2>1, SteadyKept DEF Kept, WorkerKept, RowKept
  <2>3. /\ WorkerKept(w)'
        /\ Inserted(w)' => \/ Inserted(w) /\ Claim(w)' = Claim(w)
                           \/ Claim(w)' \notin DOMAIN user
    BY <1>1, OwnKept DEF Kept
  <2>4. ASSUME NEW v \in Worker \ {w}, Inserted(v)', Inserted(w)'
        PROVE  Claim(v)' # Claim(w)'
    BY <2>2, <2>3, <2>4 DEF Kept, ClaimOnce
  <2>5. ASSUME NEW v \in Worker \ {w}, NEW u \in Worker \ {w},
               Inserted(v)', Inserted(u)', Claim(v)' = Claim(u)'
        PROVE  v = u
    BY <2>2, <2>5 DEF Kept, ClaimOnce
  <2>6. ClaimOnce' BY <2>4, <2>5 DEF ClaimOnce
  <2>7. QED BY <2>2, <2>3, <2>6
<1>2. CASE Produce \/ Recycle \/ (\E h \in Handle : Lose(h)) \/ UNCHANGED vars
  <2>1. \A v \in Worker : Steady(v) BY <1>2, PoolSteady DEF Kept
  <2>2. ASSUME NEW v \in Worker
        PROVE  /\ WorkerKept(v)' /\ (Inserted(v)' <=> Inserted(v))
               /\ Inserted(v) => Claim(v)' = Claim(v)
    BY <2>1, SteadyKept DEF Kept
  <2>3. ClaimOnce' BY <2>2 DEF Kept, ClaimOnce
  <2>4. QED BY <2>2, <2>3
<1>3. QED BY <1>1, <1>2 DEF Next

(* Every step keeps the invariant, *)
LEMMA KeptStep == Kept /\ [Next]_vars => Kept'
<1> SUFFICES ASSUME Kept, [Next]_vars PROVE Kept' OBVIOUS
<1>1. \A w \in Worker : Serves(w) /\ GroupKept(w) BY DEF Kept, WorkerKept
<1>2. TypeOK' /\ LocalsOk' /\ Owned' BY <1>1, TypeStep DEF Kept
<1>3. Grows BY <1>1, GrowsStep DEF Kept
<1>4. QED BY <1>2, <1>3, AdminsStep, WorkersStep DEF Kept

(* so it holds in every state of every behaviour. *)
LEMMA AlwaysKept == Spec => []Kept
BY InitKept, KeptStep, PTL DEF Spec

(* The types of the tables, the connections and the threads: an id is a    *)
(* number, not yet that of a row.                                          *)
THEOREM AccountsTypes == Spec => []TypeOK
<1>1. Kept => TypeOK BY DEF Kept
<1>2. QED BY <1>1, AlwaysKept, PTL

(* Whom a login past its check serves, the row a registration is about to  *)
(* answer and the group whose admin is about to be added.                  *)
IdsAreRows ==
  \A w \in Worker :
    /\ pc[w] \in KnownSteps => js[w].user \in DOMAIN user
    /\ pc[w] = "insert_id" => insertId[Conn(w)] \in DOMAIN user
    /\ pc[w] = "reg_ok" => id[w] \in DOMAIN user
    /\ pc[w] = "createGroup_id" => insertId[Conn(w)] \in DOMAIN allGroup
    /\ pc[w] = "addGroup" /\ js[w].op = "createGroup"
         => id[w] \in DOMAIN allGroup

(* An id that a handler goes on with is the id of a row, although logins   *)
(* come with ids of no row and the statements that look for one may fail.  *)
THEOREM IdsAreRowsHolds == Spec => []IdsAreRows
<1>1. ASSUME Kept PROVE IdsAreRows
  <2>1. ASSUME NEW w \in Worker
        PROVE  Known(w) /\ RowKept(w) /\ GroupKept(w)
    BY <1>1 DEF Kept, WorkerKept
  <2>2. \A w \in Worker : pc[w] \in KnownSteps => js[w].user \in DOMAIN user
    BY <2>1 DEF Known
  <2>3. \A w \in Worker :
          /\ pc[w] = "insert_id" => insertId[Conn(w)] \in DOMAIN user
          /\ pc[w] = "reg_ok" => id[w] \in DOMAIN user
    BY <2>1 DEF RowKept, Inserted, Claim
  <2>4. \A w \in Worker :
          /\ pc[w] = "createGroup_id" => insertId[Conn(w)] \in DOMAIN allGroup
          /\ pc[w] = "addGroup" /\ js[w].op = "createGroup"
               => id[w] \in DOMAIN allGroup
    BY <2>1 DEF GroupKept, Founding
  <2>5. QED BY <2>2, <2>3, <2>4 DEF IdsAreRows
<1>2. QED BY <1>1, AlwaysKept, PTL

(* The id that reg answers is of the row that this very request inserted,  *)
(* whatever other threads insert meanwhile on their connections.           *)
THEOREM RegTruthfulHolds == Spec => []RegTruthful
<1>1. ASSUME Kept PROVE RegTruthful
  <2>1. \A w \in Worker : pc[w] = "reg_ok" => Inserted(w) /\ Claim(w) = id[w]
    BY DEF Inserted, Claim
  <2>2. \A w \in Worker : RowKept(w) BY <1>1 DEF Kept, WorkerKept
  <2>3. \A v, w \in Worker :
          Inserted(v) /\ Inserted(w) /\ Claim(v) = Claim(w) => v = w
    BY <1>1 DEF Kept, ClaimOnce
  <2>4. QED BY <2>1, <2>2, <2>3 DEF RegTruthful, RowKept
<1>2. QED BY <1>1, AlwaysKept, PTL

(* A group has its creator for its only admin, or its createGroup has not  *)
(* ended, or that one's second statement failed.                           *)
THEOREM GroupsAdministeredHolds == Spec => []GroupsAdministered
<1>1. Kept => GroupsAdministered BY DEF Kept
<1>2. QED BY <1>1, AlwaysKept, PTL

(* A login lists its user in each group that it reports with members,      *)
(* whoever joins between its statements.                                   *)
THEOREM OwnGroupsListedHolds == Spec => []OwnGroupsListed
<1>1. ASSUME Kept PROVE OwnGroupsListed
  BY <1>1 DEF Kept, WorkerKept, Listed, ListSteps, OwnGroupsListed
<1>2. QED BY <1>1, AlwaysKept, PTL

-----------------------------------------------------------------------------
(* The threads use the pool as ResourcePool has it.                        *)

(* ResourcePool's own copy of Cardinality is the same operator. *)
LEMMA SameCardinality == \A S : Pool!Cardinality(S) = Cardinality(S)
BY DEF Pool!Cardinality, Cardinality

(* At the start nobody has a connection. *)
LEMMA InitRefines == Init => Pool!PoolInit
<1> SUFFICES ASSUME Init PROVE Pool!PoolInit OBVIOUS
<1>1. \A w \in Worker : Elems(sp[w]) = {} BY DEF Init, Elems
<1>2. QED BY <1>1, SameCardinality DEF Init, Pool!PoolInit

(* A getConnection that returns takes a connection, *)
LEMMA TakesAcquires ==
  ASSUME TypeOK, Owned, NEW w \in Worker, Takes(w)
  PROVE  Pool!Acquire(w)
<1>1. PICK h \in idle : idle' = idle \ {h}
                          /\ sp' = [sp EXCEPT ![w] = Append(@, h)]
  BY DEF Takes
<1>2. PICK q : q = sp[w] OBVIOUS
<1>3. PICK n : n = Len(q) OBVIOUS
<1>4. q \in Seq(Handle) /\ h \in Handle BY <1>1, <1>2 DEF TypeOK
<1>5. /\ n \in Nat /\ DOMAIN q = 1..n /\ DOMAIN Append(q, h) = 1..(n + 1)
      /\ Append(q, h)[n + 1] = h /\ \A i \in 1..n : Append(q, h)[i] = q[i]
  BY <1>3, <1>4
<1>6. Elems(Append(q, h)) = Elems(q) \cup {h}
  <2>1. \A x : x \in Elems(Append(q, h)) <=> x \in Elems(q) \/ x = h
    <3>1. n + 1 \in 1..(n + 1) /\ 1..n \subseteq 1..(n + 1) BY <1>5
    <3>2. \A i \in 1..(n + 1) : i \in 1..n \/ i = n + 1 BY <1>5
    <3>3. QED BY <1>5, <3>1, <3>2 DEF Elems
  <2>2. QED BY <2>1
<1>7. \A v \in Worker : sp'[v] = IF v = w THEN Append(q, h) ELSE sp[v]
  BY <1>1, <1>2 DEF TypeOK
<1>8. [v \in Worker |-> Elems(sp'[v])]
        = [[v \in Worker |-> Elems(sp[v])] EXCEPT ![w] = @ \cup {h}]
  BY <1>2, <1>6, <1>7
<1>9. QED BY <1>1, <1>8 DEF Pool!Acquire

(* and a shared_ptr that goes out of scope returns one. *)
LEMMA ReleaseReturns ==
  ASSUME TypeOK, Owned, NEW w \in Worker, Release(w), Len(sp[w]) \in {1, 2}
  PROVE  Pool!Release(w)
<1> Len(sp[w]) > 0 OBVIOUS
<1>1. /\ \A v \in Worker \ {w} : sp'[v] = sp[v]
      /\ \A h : h \in Elems(sp'[w]) <=> h \in Elems(sp[w]) /\ h # Conn(w)
  BY ReleaseOwned
<1>2. PICK h : h = Conn(w) OBVIOUS
<1>3. h \in Elems(sp[w]) BY <1>2, ConnHeld DEF Elems, Conn
<1>4. Elems(sp'[w]) = Elems(sp[w]) \ {h} BY <1>1, <1>2
<1>5. [v \in Worker |-> Elems(sp'[v])]
        = [[v \in Worker |-> Elems(sp[v])] EXCEPT ![w] = @ \ {h}]
  BY <1>1, <1>4
<1>6. idle' = idle \cup {h} BY <1>2 DEF Release
<1>7. QED BY <1>3, <1>5, <1>6 DEF Pool!Release

(* Every step is one of ResourcePool, or none for it. *)
LEMMA NextRefines ==
  Kept /\ [Next]_vars => [Pool!PoolNext]_(Pool!poolVars)
<1> SUFFICES ASSUME Kept, [Next]_vars PROVE [Pool!PoolNext]_(Pool!poolVars)
  OBVIOUS
<1>1. TypeOK /\ Owned BY DEF Kept
<1>2. CASE UNCHANGED poolVars
  BY <1>2 DEF poolVars, Pool!poolVars
<1>3. ASSUME NEW w \in Worker, onMessage(w) \/ WorkerStep(w)
      PROVE  [Pool!PoolNext]_(Pool!poolVars)
  <2>1. CASE Takes(w) BY <1>1, <2>1, TakesAcquires DEF Pool!PoolNext
  <2>2. CASE Release(w) /\ Len(sp[w]) \in {1, 2}
    <3>1. Pool!Release(w) BY <1>1, <2>2, ReleaseReturns
    <3>2. QED BY <3>1 DEF Pool!PoolNext
  <2>3. QED BY <1>1, <1>2, <1>3, <2>1, <2>2, Moves
<1>4. CASE Produce BY <1>4 DEF Produce, Pool!PoolNext
<1>5. CASE Recycle BY <1>5 DEF Recycle, Pool!PoolNext
<1>6. CASE (\E h \in Handle : Lose(h)) \/ UNCHANGED vars
  BY <1>2, <1>6 DEF Lose, vars
<1>7. QED BY <1>3, <1>4, <1>5, <1>6 DEF Next

(* Handlers, producer and scanner use the connections as ResourcePool has  *)
(* it: every path of every function returns what it took, and nothing else.*)
THEOREM PoolUsedHolds == Spec => PoolUsed
<1>1. Spec => []Kept BY AlwaysKept
<1>2. QED
  BY <1>1, InitRefines, NextRefines, PTL DEF Spec, PoolUsed, Pool!PoolSpec
=============================================================================
