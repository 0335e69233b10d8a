------------------------------ MODULE Accounts ------------------------------
(***************************************************************************)
(* Registration, friends and groups: the handlers of ChatService that work *)
(* on the tables of MySQL (chat_service.cpp), the module functions they    *)
(* call (modules/*.cpp) and the pooled connections those run on            *)
(* (dao/db_connection.cpp).                                                *)
(*                                                                         *)
(* A module function takes a connection from the pool, runs one statement  *)
(* on it and lets it go when it returns; pc[w] is the function that worker *)
(* thread w is in.  The pool is the one ResourcePool promises.  Sessions,  *)
(* Redis and offline messages are in ChatService, which abstracts from     *)
(* connections.                                                            *)
(***************************************************************************)
EXTENDS Integers, Sequences, FiniteSets

CONSTANTS
  Worker,     \* loop threads of one chat server
  Handle,     \* addresses of Connection objects
  InitSize,   \* _initSize
  MaxSize,    \* _maxSize
  Name, Password,
  Registered, \* rows of the user table before the server starts
  Founded,    \* whose groups there are by then
  UniqueName, \* is there a unique key on user.name? the schema is external
  Ops,        \* the requests that clients make
  MaxReqs,    \* bound: requests served
  MaxFaults   \* bound: connections to MySQL that fail

Id == Nat \ {0}
NoId == -1

UserRow == [name : Name, password : Password, state : {"offline", "inline"}]

ASSUME AccountsAssumption ==
  /\ InitSize \in Nat /\ MaxSize \in Nat \ {0} /\ InitSize <= MaxSize
  /\ IsFiniteSet(Worker) /\ IsFiniteSet(Handle)
  /\ Registered \in Seq(UserRow)
  /\ Founded \in Seq(1..Len(Registered))
  /\ UniqueName \in BOOLEAN
  /\ MaxReqs \in Nat /\ MaxFaults \in Nat

VARIABLES
  \* the connections
  idle,       \* connections in the pool
  sp,         \* sp[w]: the shared_ptrs of w, the innermost last
  mysql,      \* mysql[h]: "ready"; "open", a result set is not read to its
              \* end; or "broken", there is no connection to the server
  insertId,   \* insertId[h]: mysql_insert_id of h
  \* the tables; the keys of user and all_group are AUTO_INCREMENT
  user,       \* user[i]: the row with id i
  friend,     \* pairs <<user_id, friend_id>>
  allGroup,   \* allGroup[g]: whose request made the row with id g
  groupUser,  \* rows of group_user
  \* the threads of the server
  proc,       \* "running", or "crashed": a null pointer was dereferenced
  pc, js,     \* function and request of each worker
  id,         \* id[w]: user.getId() in reg, group.getId() in createGroup
  frivec,     \* frivec[w]: friends read by login
  groupvec,   \* groupvec[w]: groups read by login, with their members
  left,       \* left[w]: groups whose members login has still to read
  \* bounds and history
  reqs, faults, \* requests and failures so far
  adminless   \* groups whose admin could not be added

poolVars  == <<idle, sp>>
dbVars    == <<user, friend, allGroup, groupUser>>
localVars == <<id, frivec, groupvec, left>>
ghostVars == <<reqs, faults, adminless>>
vars == <<poolVars, mysql, insertId, dbVars, proc, pc, js, localVars,
          ghostVars>>

(* What the handlers read of a request: U are the ids that the client took *)
(* from an answer to its login, F and G those that people type.            *)
Requests(U, F, G) ==
  [op : {"reg"}, name : Name, password : Password]
    \cup [op : {"login"}, user : F, password : Password]
    \cup [op : {"logout", "createGroup"}, user : U]
    \cup [op : {"addFriend"}, user : U, other : F]
    \cup [op : {"joinGroup"}, user : U, other : G]

NoRequest == [op |-> "none"]

(* The function that each handler calls first. *)
First == [reg |-> "queryUsername", login |-> "query", logout |-> "updateState",
          addFriend |-> "addFriend", createGroup |-> "createGroup",
          joinGroup |-> "addGroup"]

Answers == {"reg_ok", "reg_fail", "login_wrong", "login_repeat", "login_ok"}

(* How many connections the thread holds at its statement. *)
Depth(step) == IF step \in Answers \cup {"idle"} THEN 0
               ELSE IF step = "queryGroup_members" THEN 2 ELSE 1

TypeOK ==
  /\ idle \subseteq Handle
  /\ sp \in [Worker -> Seq(Handle)]
  /\ mysql \in [Handle -> {"ready", "open", "broken"}]
  /\ insertId \in [Handle -> Nat]
  /\ user \in Seq(UserRow)
  /\ friend \subseteq Id \X Id
  /\ allGroup \in Seq(Id)
  /\ groupUser \subseteq
       [user : Id, group : Id \cup {NoId}, role : {"admin", "normal"}]
  /\ proc \in {"running", "crashed"}
  /\ pc \in [Worker -> {"idle", "queryUsername", "insert", "insert_id",
                        "query", "updateState", "queryFriends", "queryGroup",
                        "queryGroup_members", "queryGroup_return",
                        "addFriend", "createGroup", "createGroup_id",
                        "addGroup"} \cup Answers]
  /\ js \in [Worker -> Requests(Id, Id, Id) \cup {NoRequest}]
  /\ id \in [Worker -> Nat \cup {NoId}]
  /\ frivec \in [Worker -> SUBSET Id]
  /\ \A w \in Worker :
       /\ groupvec[w] \in [DOMAIN groupvec[w] -> SUBSET Id]
       /\ DOMAIN groupvec[w] \subseteq Id
       /\ left[w] \subseteq DOMAIN groupvec[w]
  /\ reqs \in 0..MaxReqs /\ faults \in 0..MaxFaults /\ adminless \subseteq Id

Init ==
  /\ idle \in SUBSET Handle /\ Cardinality(idle) = InitSize
  /\ sp = [w \in Worker |-> <<>>]
  /\ mysql = [h \in Handle |-> "ready"]
  /\ insertId = [h \in Handle |-> 0]
  /\ user = Registered /\ friend = {} /\ allGroup = Founded
  /\ groupUser = {[user |-> Founded[g], group |-> g, role |-> "admin"] :
                    g \in DOMAIN Founded}
  /\ proc = "running"
  /\ pc = [w \in Worker |-> "idle"]
  /\ js = [w \in Worker |-> NoRequest]
  /\ id = [w \in Worker |-> NoId]
  /\ frivec = [w \in Worker |-> {}]
  /\ groupvec = [w \in Worker |-> <<>>]
  /\ left = [w \in Worker |-> {}]
  /\ reqs = 0 /\ faults = 0 /\ adminless = {}

-----------------------------------------------------------------------------
(* The pool and its connections.                                           *)

Elems(q) == {q[i] : i \in DOMAIN q}

Pool == INSTANCE ResourcePool WITH using <- [w \in Worker |-> Elems(sp[w])]

Running == proc = "running"

(* w has called getConnection and waits for it to return. *)
Waits(w) == Running /\ Len(sp[w]) < Depth(pc[w])

getConnection(w) ==
  /\ Waits(w)
  /\ \E h \in idle : /\ idle' = idle \ {h}
                     /\ sp' = [sp EXCEPT ![w] = Append(@, h)]
  /\ UNCHANGED <<mysql, insertId, dbVars, proc, pc, js, localVars,
                 ghostVars>>

(***************************************************************************)
(* getConnection returns a null pointer, which its caller dereferences.    *)
(* It need not: at _maxSize the producer keeps notifying, and a waiter it  *)
(* wakes before its timer has run out starts a new one (lines 106-135 of   *)
(* connection_pool.cpp, ConnectionPool!Resume).                            *)
(***************************************************************************)
TimedOut(w) ==
  /\ Waits(w) /\ idle = {}
  /\ proc' = "crashed"
  /\ UNCHANGED <<poolVars, mysql, insertId, dbVars, pc, js, localVars,
                 ghostVars>>

Produce ==
  /\ Running /\ UNCHANGED sp /\ Pool!Create
  /\ UNCHANGED <<mysql, insertId, dbVars, proc, pc, js, localVars, ghostVars>>

(* The scanner. *)
Recycle ==
  /\ Running /\ UNCHANGED sp /\ Pool!Destroy /\ idle' # idle
  /\ LET closed == idle \ idle' IN
       /\ insertId' = [h \in Handle |-> IF h \in closed THEN 0 ELSE insertId[h]]
       /\ mysql' = [h \in Handle |-> IF h \in closed THEN "ready" ELSE mysql[h]]
  /\ UNCHANGED <<dbVars, proc, pc, js, localVars, ghostVars>>

(***************************************************************************)
(* MySQL or the network has closed a connection, or it never was one: the  *)
(* producer and the constructor ignore the result of connect.  It shows at *)
(* the next statement, and nothing connects the handle again.              *)
(***************************************************************************)
Lose(h) ==
  /\ Running /\ h \in Pool!Total \ idle
  /\ mysql[h] = "ready" /\ faults < MaxFaults
  /\ mysql' = [mysql EXCEPT ![h] = "broken"]
  /\ faults' = faults + 1
  /\ UNCHANGED <<poolVars, insertId, dbVars, proc, pc, js, localVars, reqs,
                 adminless>>

-----------------------------------------------------------------------------
(* Helpers of the module functions.                                        *)

Conn(w) == sp[w][Len(sp[w])]

(* mysql_query succeeds: Connection::update is true, query not a nullptr. *)
Works(w) == mysql[Conn(w)] = "ready"

At(w, step) == Running /\ pc[w] = step /\ Len(sp[w]) = Depth(step)

Goto(w, step) == pc' = [pc EXCEPT ![w] = step]

(* The shared_ptr goes out of scope, and its deleter returns the handle. *)
Release(w) ==
  /\ idle' = idle \cup {Conn(w)}
  /\ sp' = [sp EXCEPT ![w] = SubSeq(@, 1, Len(@) - 1)]

Forget(w) ==
  /\ js' = [js EXCEPT ![w] = NoRequest]
  /\ id' = [id EXCEPT ![w] = NoId]
  /\ frivec' = [frivec EXCEPT ![w] = {}]
  /\ groupvec' = [groupvec EXCEPT ![w] = <<>>]
  /\ left' = [left EXCEPT ![w] = {}]

Done(w) == Goto(w, "idle") /\ Forget(w)

(* A statement that leaves the tables and the locals as they are. *)
Reads == UNCHANGED <<mysql, insertId, dbVars, proc, js, ghostVars>>

-----------------------------------------------------------------------------
(* A request arrives at a worker that has none.                            *)

(* The ids that people type, at a login too, are those of a row, or of     *)
(* none yet.                                                               *)
Typed == Requests(1..Len(user), 1..(Len(user) + 1), 1..(Len(allGroup) + 1))

onMessage(w) ==
  /\ Running /\ pc[w] = "idle" /\ reqs < MaxReqs
  /\ \E req \in Typed :
       /\ req.op \in Ops
       /\ js' = [js EXCEPT ![w] = req]
       /\ Goto(w, First[req.op])
  /\ reqs' = reqs + 1
  /\ UNCHANGED <<poolVars, mysql, insertId, dbVars, proc, localVars, faults,
                 adminless>>

-----------------------------------------------------------------------------
(* ChatService::reg and UserModule::insert                                 *)

Used(n) == \E i \in DOMAIN user : user[i].name = n

(***************************************************************************)
(* A name that is found is reported without mysql_free_result: the result  *)
(* set stays open.  A statement that fails counts as a name not found.     *)
(***************************************************************************)
queryUsername(w) ==
  /\ At(w, "queryUsername") /\ Release(w)
  /\ IF Works(w) /\ Used(js[w].name)
     THEN mysql' = [mysql EXCEPT ![Conn(w)] = "open"] /\ Goto(w, "reg_fail")
     ELSE Goto(w, "insert") /\ UNCHANGED mysql
  /\ UNCHANGED <<insertId, dbVars, proc, js, localVars, ghostVars>>

NewRow(w) == [name |-> js[w].name, password |-> js[w].password,
              state |-> "offline"]

insert(w) ==
  /\ At(w, "insert")
  /\ IF Works(w) /\ ~(UniqueName /\ Used(js[w].name))
     THEN /\ user' = Append(user, NewRow(w))
          /\ insertId' = [insertId EXCEPT ![Conn(w)] = Len(user')]
          /\ Goto(w, "insert_id") /\ UNCHANGED poolVars
     ELSE Goto(w, "reg_fail") /\ Release(w) /\ UNCHANGED <<user, insertId>>
  /\ UNCHANGED <<mysql, friend, allGroup, groupUser, proc, js, localVars,
                 ghostVars>>

(* Mutant: the id is read as the greatest one of the table. *)
insert_id_Max(w) ==
  /\ At(w, "insert_id") /\ Release(w)
  /\ id' = [id EXCEPT ![w] = Len(user)]
  /\ Goto(w, "reg_ok")
  /\ Reads /\ UNCHANGED <<frivec, groupvec, left>>

insert_id(w) ==
  /\ At(w, "insert_id") /\ Release(w)
  /\ id' = [id EXCEPT ![w] = insertId[Conn(w)]]
  /\ Goto(w, "reg_ok")
  /\ Reads /\ UNCHANGED <<frivec, groupvec, left>>

-----------------------------------------------------------------------------
(* ChatService::login and ChatService::logout                              *)

(* UserModule::query: User(), with the id -1, if it fails or finds none. *)
Found(w) == Works(w) /\ js[w].user \in DOMAIN user

query(w) ==
  /\ At(w, "query") /\ Release(w)
  /\ Goto(w, IF ~Found(w) \/ user[js[w].user].password # js[w].password
             THEN "login_wrong"
             ELSE IF user[js[w].user].state = "offline"
                  THEN "updateState" ELSE "login_repeat")
  /\ Reads /\ UNCHANGED localVars

(* login ignores the result and goes on, logout ignores it and returns. *)
updateState(w) ==
  /\ At(w, "updateState") /\ Release(w)
  /\ LET in == js[w].op = "login" IN
       /\ user' = IF Works(w) /\ js[w].user \in DOMAIN user
                  THEN [user EXCEPT ![js[w].user].state =
                          IF in THEN "inline" ELSE "offline"]
                  ELSE user
       /\ IF in THEN Goto(w, "queryFriends") /\ UNCHANGED <<js, localVars>>
                ELSE Done(w)
  /\ UNCHANGED <<mysql, insertId, friend, allGroup, groupUser, proc,
                 ghostVars>>

(* Mutant: a failed statement yields a User() with the id -1. *)
queryFriends_Left(w) ==
  /\ At(w, "queryFriends") /\ Release(w)
  /\ frivec' = [frivec EXCEPT ![w] =
       IF Works(w) THEN {f \in DOMAIN user : <<js[w].user, f>> \in friend}
                   ELSE {NoId}]
  /\ Goto(w, "queryGroup")
  /\ Reads /\ UNCHANGED <<id, groupvec, left>>

(* FriendModule::query; the inner join drops ids without a row. *)
queryFriends(w) ==
  /\ At(w, "queryFriends") /\ Release(w)
  /\ frivec' = [frivec EXCEPT ![w] =
       IF Works(w) THEN {f \in DOMAIN user : <<js[w].user, f>> \in friend}
                   ELSE {}]
  /\ Goto(w, "queryGroup")
  /\ Reads /\ UNCHANGED <<id, groupvec, left>>

(* GroupModule::queryGroup; its connection is kept for the whole function. *)
GroupsOf(u) ==
  {g \in DOMAIN allGroup : \E row \in groupUser : row.user = u /\ row.group = g}

queryGroup(w) ==
  /\ At(w, "queryGroup")
  /\ LET G == IF Works(w) THEN GroupsOf(js[w].user) ELSE {} IN
       /\ groupvec' = [groupvec EXCEPT ![w] = [g \in G |-> {}]]
       /\ left' = [left EXCEPT ![w] = G]
       /\ Goto(w, IF G = {} THEN "queryGroup_return" ELSE "queryGroup_members")
  /\ UNCHANGED <<poolVars, id, frivec>> /\ Reads

MembersOf(g) ==
  {u \in DOMAIN user : \E row \in groupUser : row.user = u /\ row.group = g}

(* Mutant: a group of the vector is filled with the members of another. *)
queryGroup_members_Crossed(w) ==
  /\ At(w, "queryGroup_members") /\ Release(w)
  /\ \E g \in left[w], f \in DOMAIN allGroup :
       /\ groupvec' = [groupvec EXCEPT ![w][g] =
                         IF Works(w) THEN MembersOf(f) ELSE {}]
       /\ left' = [left EXCEPT ![w] = @ \ {g}]
  /\ Goto(w, IF left'[w] = {} THEN "queryGroup_return"
                              ELSE "queryGroup_members")
  /\ Reads /\ UNCHANGED <<id, frivec>>

(* The members of one more group, over a second connection. *)
queryGroup_members(w) ==
  /\ At(w, "queryGroup_members") /\ Release(w)
  /\ \E g \in left[w] :
       /\ groupvec' = [groupvec EXCEPT ![w][g] =
                         IF Works(w) THEN MembersOf(g) ELSE {}]
       /\ left' = [left EXCEPT ![w] = @ \ {g}]
  /\ Goto(w, IF left'[w] = {} THEN "queryGroup_return"
                              ELSE "queryGroup_members")
  /\ Reads /\ UNCHANGED <<id, frivec>>

(* Mutant: the connection of the whole function is not given back. *)
queryGroup_return_Leaks(w) ==
  /\ At(w, "queryGroup_return") /\ UNCHANGED poolVars
  /\ Goto(w, "login_ok")
  /\ Reads /\ UNCHANGED localVars

queryGroup_return(w) ==
  /\ At(w, "queryGroup_return") /\ Release(w)
  /\ Goto(w, "login_ok")
  /\ Reads /\ UNCHANGED localVars

(* conn->send of an answer, with which reg and login return. *)
answer(w) ==
  /\ Running /\ pc[w] \in Answers
  /\ Done(w)
  /\ UNCHANGED <<poolVars, mysql, insertId, dbVars, proc, ghostVars>>

-----------------------------------------------------------------------------
(* ChatService::addFriend, createGroup and joinGroup; none of them answers.*)

(* FriendModule::insert *)
addFriend(w) ==
  /\ At(w, "addFriend") /\ Release(w)
  /\ friend' = IF Works(w) THEN friend \cup {<<js[w].user, js[w].other>>}
                           ELSE friend
  /\ Done(w)
  /\ UNCHANGED <<mysql, insertId, user, allGroup, groupUser, proc,
                 ghostVars>>

(* Mutant: a group that is not created is not given up. *)
createGroup_Leaks(w) ==
  /\ At(w, "createGroup")
  /\ IF Works(w)
     THEN /\ allGroup' = Append(allGroup, js[w].user)
          /\ insertId' = [insertId EXCEPT ![Conn(w)] = Len(allGroup')]
          /\ Goto(w, "createGroup_id")
          /\ UNCHANGED <<poolVars, js, localVars>>
     ELSE /\ sp' = [sp EXCEPT ![w] = <<>>] /\ UNCHANGED idle
          /\ Done(w) /\ UNCHANGED <<allGroup, insertId>>
  /\ UNCHANGED <<mysql, user, friend, groupUser, proc, ghostVars>>

(* GroupModule::createGroup, its statement. *)
createGroup(w) ==
  /\ At(w, "createGroup")
  /\ IF Works(w)
     THEN /\ allGroup' = Append(allGroup, js[w].user)
          /\ insertId' = [insertId EXCEPT ![Conn(w)] = Len(allGroup')]
          /\ Goto(w, "createGroup_id")
          /\ UNCHANGED <<poolVars, js, localVars>>
     ELSE Release(w) /\ Done(w) /\ UNCHANGED <<allGroup, insertId>>
  /\ UNCHANGED <<mysql, user, friend, groupUser, proc, ghostVars>>

(* Mutant: the group is found again as the newest one. *)
createGroup_id_Newest(w) ==
  /\ At(w, "createGroup_id") /\ Release(w)
  /\ id' = [id EXCEPT ![w] = Len(allGroup)]
  /\ Goto(w, "addGroup")
  /\ Reads /\ UNCHANGED <<frivec, groupvec, left>>

createGroup_id(w) ==
  /\ At(w, "createGroup_id") /\ Release(w)
  /\ id' = [id EXCEPT ![w] = insertId[Conn(w)]]
  /\ Goto(w, "addGroup")
  /\ Reads /\ UNCHANGED <<frivec, groupvec, left>>

Member(w) ==
  IF js[w].op = "createGroup"
  THEN [user |-> js[w].user, group |-> id[w], role |-> "admin"]
  ELSE [user |-> js[w].user, group |-> js[w].other, role |-> "normal"]

(* GroupModule::addGroup, from createGroup and from joinGroup. *)
addGroup(w) ==
  /\ At(w, "addGroup") /\ Release(w)
  /\ groupUser' = IF Works(w) THEN groupUser \cup {Member(w)} ELSE groupUser
  /\ adminless' = IF js[w].op = "createGroup" /\ ~Works(w)
                  THEN adminless \cup {id[w]} ELSE adminless
  /\ Done(w)
  /\ UNCHANGED <<mysql, insertId, user, friend, allGroup, proc, reqs, faults>>

-----------------------------------------------------------------------------
WorkerStep(w) ==
  \/ queryUsername(w) \/ insert(w) \/ insert_id(w)
  \/ query(w) \/ updateState(w) \/ queryFriends(w)
  \/ queryGroup(w) \/ queryGroup_members(w) \/ queryGroup_return(w)
  \/ addFriend(w) \/ createGroup(w) \/ createGroup_id(w) \/ addGroup(w)
  \/ answer(w) \/ getConnection(w) \/ TimedOut(w)

Next ==
  \/ \E w \in Worker : onMessage(w) \/ WorkerStep(w)
  \/ Produce \/ Recycle \/ \E h \in Handle : Lose(h)

Spec == Init /\ [][Next]_vars

(* Any step of the thread but the end of its timer. *)
Proceeds(w) == WorkerStep(w) /\ UNCHANGED proc

(***************************************************************************)
(* A thread with a request runs, and so does the producer.  A connection   *)
(* that is there again and again is taken in the end: the scanner comes    *)
(* once in _maxIdleTime seconds and leaves fresh ones alone, and the other *)
(* threads have MaxReqs requests to overtake with.  Nothing is assumed of  *)
(* TimedOut: no thread may count on its timer.                             *)
(***************************************************************************)
FairSpec ==
  /\ Spec /\ WF_vars(Produce)
  /\ \A w \in Worker : WF_vars(Proceeds(w)) /\ SF_vars(getConnection(w))

-----------------------------------------------------------------------------
(* Properties                                                              *)

(***************************************************************************)
(* RegTruthful: the id that reg answers is the row of that very request:   *)
(* its name and password, and nobody else's id, however many handlers      *)
(* insert at the same time.  mysql_insert_id is the last id of a handle,   *)
(* and the handle is still held when it is read.                           *)
(***************************************************************************)
RegTruthful ==
  \A w \in Worker : pc[w] = "reg_ok" =>
    /\ id[w] \in DOMAIN user
    /\ user[id[w]].name = js[w].name
    /\ user[id[w]].password = js[w].password
    /\ \A v \in Worker \ {w} : pc[v] = "reg_ok" => id[v] # id[w]

Founding(w, g) ==
  \/ pc[w] = "createGroup_id" /\ insertId[Conn(w)] = g
  \/ pc[w] = "addGroup" /\ js[w].op = "createGroup" /\ id[w] = g

(***************************************************************************)
(* GroupsAdministered: the admin of a group is the one who created it, and *)
(* a group without its admin is one whose createGroup is between its two   *)
(* statements, or whose second statement failed.                           *)
(***************************************************************************)
Admins(g) ==
  {row.user : row \in {r \in groupUser : r.group = g /\ r.role = "admin"}}

GroupsAdministered ==
  /\ \A row \in groupUser : row.role = "admin" => row.group \in DOMAIN allGroup
  /\ \A g \in DOMAIN allGroup :
       \/ Admins(g) = {allGroup[g]}
       \/ /\ Admins(g) = {}
          /\ g \in adminless \/ \E w \in Worker : Founding(w, g)

(***************************************************************************)
(* OwnGroupsListed: login reads a user's groups and their members by       *)
(* several statements while others join; every group of the answer lists   *)
(* him among its members, or lists nobody because its statement failed.    *)
(***************************************************************************)
OwnGroupsListed ==
  \A w \in Worker : pc[w] = "login_ok" =>
    \A g \in DOMAIN groupvec[w] :
      groupvec[w][g] = {} \/ js[w].user \in groupvec[w][g]

(***************************************************************************)
(* PoolUsed: handlers, producer and scanner use connections as             *)
(* ResourcePool has it: each function returns what it took, on every path. *)
(***************************************************************************)
PoolUsed == Pool!PoolSpec

(***************************************************************************)
(* Handled: every request is worked off, whoever holds the connections and *)
(* whichever of them fail, unless the process is gone or Stuck: at         *)
(* _maxSize every connection is held by a thread that waits for one more   *)
(* in queryGroup.  Those wait until a timer beats the producer's           *)
(* notifications, if ever, and then the process crashes.                   *)
(***************************************************************************)
Stuck ==
  /\ idle = {} /\ Cardinality(Pool!Total) = MaxSize
  /\ \A w \in Worker : sp[w] # <<>> => Waits(w)

Handled ==
  \A w \in Worker : (pc[w] # "idle") ~> (pc[w] = "idle" \/ ~Running \/ Stuck)

(***************************************************************************)
(* RightPasswordAccepted: the query of a login finds a wrong name or       *)
(* password, which is answered with errno 2, only if there is no such user *)
(* or his password is another one.                                         *)
(***************************************************************************)
RightPasswordAccepted ==
  [][\A w \in Worker :
       pc[w] = "query" /\ pc'[w] = "login_wrong" =>
         \/ js[w].user \notin DOMAIN user
         \/ user[js[w].user].password # js[w].password]_vars
=============================================================================
