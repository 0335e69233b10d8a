# Cluster_IM_Server: a TLA+ model, its checks and its proofs

The system is a cluster of chat servers in C++ (muduo, MySQL, Redis, hiredis)
behind an Nginx TCP balancer, and a console client. This directory holds TLA+
modules translated from its source, the TLC runs that check them on small
instances and the proofs that TLAPS checks for every value of the constants.
Paths below are relative to the repository; `chat_service.cpp` stands for
`src/server/chat_service.cpp`, and so on.

## 1. Inventory

| component | state | operations | calls / is called by |
|---|---|---|---|
| ChatServer (`chat_server.cpp`, `main.cpp`) | TCP connections, 1 accept loop and 6 loop threads | `onConnection`, `onMessage`, `resetHandle` on SIGINT | runs the handlers of ChatService |
| ChatService (`chat_service.cpp`) | `_userConnMap` under `_connMutex` | `login`, `logout`, `reg`, `oneChat`, `groupChat`, `addFriend`, `createGroup`, `joinGroup`, `ClientCloseException`, `reset`, `handleRedisSubscribeMessage` | called by loop threads and by the observer thread; calls the modules and Redis |
| Redis (`dao/redis.cpp`) | a publish and a subscribe context | `publish` (waits for its reply), `subscribe`, `unsubscribe` (write and return), `observer_channel_message` | called by ChatService, calls `handleRedisSubscribeMessage` |
| User / OfflineMsg / Friend / Group modules (`modules/`) | rows in MySQL, shared by all servers | one or two SQL statements each | called by handlers; call ConnectionPool and Connection |
| ConnectionPool (`dao/connection_pool.cpp`) | `_connectionQue`, `_connectionCnt`, `cv` | `getConnection`, the deleter, `produceConnectionTask`, `scannerConnectionTask` | called by every module function |
| Connection (`dao/db_connection.cpp`) | one MYSQL handle, `_alivetime` | `connect`, `update`, `query` | used by the modules |
| client (`src/client/main.cpp`) | `g_currentUser`, friend and group lists, `isMainMenuRunning` | menu and chat commands on the main thread, `readTaskHandler` on a second one | sends JSON, ends it with a zero byte |
| MySQL, Redis server, Nginx, muduo, json.hpp | external | | |

Who a user is and where he can be reached is kept in three stores that no
operation compares: `user.state` in MySQL, the `_userConnMap` of each server and
the channels Redis has subscribed. A chat message is sent to the connection in
the local map, else published if the state is inline, else stored in
`offline_message`. A login and a logout change the three stores one after the
other, and other handlers, other servers, the observer thread and Redis run in
between. That, the shortcuts of the error paths and the ways a process can stop
are the hard part of this system; the hazards are listed in `PROJECT.json` at
their lines. The pool is the second concurrent component: its consumers,
producer and scanner share one condition variable.

What makes each component correct:

* ChatService: the three stores agree whenever no change of a user is under way;
  one session per user; a message reaches only its addressees, and reaches or
  waits for every one of them; login answers once; handlers do not block each
  other for ever; whatever ends a connection releases its user.
* Redis: messages go to the servers subscribed when they are published;
  subscriptions follow the order of the commands of one server.
* OfflineMsgModule: only messages that were read are removed.
* User, Friend and Group modules: an answer or a row speaks of the request it
  belongs to, whatever other requests insert at the same time; a statement that
  fails leaves no half of an operation unaccounted for; a right password is
  accepted.
* client: an answer goes to the thread that asked for it; what is displayed
  belongs to the current user; while he has the commands, the server can reach
  him.
* ConnectionPool: a connection is idle or in one thread's hands; their number
  stays between `_initSize` and `_maxSize`; a waiter gets one or a timeout; the
  scan closes what is past its idle time, which the code measures in ticks of
  `clock()` and its configuration in seconds.

## 2. Modules

| module | models |
|---|---|
| `RedisBus` | class Redis and the Redis server: command queue of each subscribe socket, subscriptions, messages pushed to each server |
| `ChatService` | clients, balancer, muduo callbacks, handlers of ChatService, the user and offline_message tables, SIGINT, death and restart of servers; extends `RedisBus` |
| `MCChatService` | small instances for TLC |
| `Mail` | what the cluster promises of a chat message, without servers, handlers, channels and tables |
| `ChatServiceMail` | `ChatService` as an implementation of `Mail`: where in the cluster a message is; and when one may be lost (`NotLost`) |
| `ChatServiceTypes` | proofs: type correctness (section 6) |
| `ChatServiceDelivery` | proofs: no message reaches a stranger (section 6) |
| `ChatServiceSessions` | proofs: the map's entries, one session per user, and what that takes (section 6) |
| `ChatServiceRegistry` | proofs: database, maps and Redis agree, nobody is locked out, no message is lost where it need not be (section 6) |
| `ChatServiceCopies` | proofs: the cluster implements `Mail`, and delivers no message twice (section 6) |
| `ResourcePool` | what the pool promises, without queue and threads |
| `ConnectionPool` | the pool with its threads and condition variable, refines `ResourcePool` |
| `MCConnectionPool` | its instance for TLC |
| `ConnectionPoolProofs` | proofs: the pool's invariants, its scan, and that it implements `ResourcePool` (section 6) |
| `Accounts` | `reg`, `addFriend`, `createGroup`, `joinGroup`, the tables `login` reads, and the pooled MySQL handles they run on, which can fail or be left with an open result; uses the pool as `ResourcePool` |
| `MCAccounts` | its instances for TLC |
| `AccountsProofs` | proofs: its invariants, and that it uses the pool as `ResourcePool` has it (section 6) |
| `Framing` | messages cut into units on a TCP stream, and what `json::parse` accepts of them |
| `ChatClient` | the client's two threads, the stream in each direction and the server's side of one connection; extends `Framing` |
| `MCChatClient` | its instances for TLC |
| `ChatClientProofs` | proofs: its invariants and `DisplayedToAddressee` (section 6) |

Definitions keep the names of the source. A handler is cut into the steps it
shares state by: an SQL statement, a critical section of `_connMutex`, or a
Redis command; the first step has the handler's name, the later ones carry it as
a prefix (`login`, `login_insert`, `login_subscribe`, `login_inline`,
`login_query`, `login_remove`, `login_reply`). `pc[c]` is the next step of the
handler that runs for connection `c`: muduo binds a connection to one loop
thread, so handlers of one connection do not overlap, and handlers of two may.
(Two connections on one loop thread exclude each other too; the model allows
them to interleave, as the number of loops is a parameter of deployment.)
`connMutex[s]` is needed only where `groupChat` keeps the lock from one step to
the next; every other critical section is one step that needs it free.

How the state corresponds to the code:

| variable | code |
|---|---|
| `link`, `at`, `reqs` | a client's TCP connection, the server the balancer chose, requests not yet read |
| `screen`, `me`, `reader` | where the client's main thread is; `g_currentUser`; its read thread runs |
| `userConnMap`, `connMutex` | `_userConnMap`, `_connMutex` of each server |
| `pc`, `js`, `vec`, `idvec` | step, request and locals of a handler |
| `state`, `offline` | the columns of `user` and `offline_message` the handlers use |
| `cmds`, `subs`, `inbox` | commands written and not executed, subscriptions, messages pushed and not read |
| `got`, `dest`, `logins`, `faults` | history: messages sent to a client, addressees of a message, users whose password a client has given, number of faults |

`ConnectionPool`:

| variable | code |
|---|---|
| `queue`, `cnt` | `_connectionQue`, `_connectionCnt` |
| `stamp`, `now` | two clocks, of each connection's last use and of now: `cpu` is `_alivetime` and `clock()`, in ticks; `wall` is history, in seconds |
| `prod`, `pc`, `sp` | where the producer and each worker are with respect to `cv`; the `shared_ptr`s on a worker's stack |
| `proc` | the process: running, crashed by a null pointer, or undefined |

`Accounts`, one worker thread `w` per request under way:

| variable | code |
|---|---|
| `idle`, `sp` | `_connectionQue` as a set; the `shared_ptr`s on `w`'s stack |
| `mysql`, `insertId` | state of a MYSQL handle, `mysql_insert_id` of it |
| `user`, `friend`, `allGroup`, `groupUser` | the tables; the id of a row is its place |
| `pc`, `js`, `id`, `frivec`, `groupvec`, `left` | module function, request and locals of `w` |
| `proc` | the process, which a null pointer from `getConnection` crashes |
| `adminless` | history: groups whose second statement failed |

`ChatClient`, one client process and its connection:

| variable | code |
|---|---|
| `screen` | where the main thread is: menu, `recv`, `mainMenu`, or how it ended |
| `current`, `reader` | `g_currentUser`, `readthreadnumber` |
| `held`, `displayed` | the buffer of `readTaskHandler`, received and not yet parsed; the last chat it printed |
| `up`, `down` | the two directions of the TCP stream, in units |
| `serving`, `job` | the server's handler for this connection and its request |
| `mapped`, `elsewhere`, `inline` | users whose entry in `_userConnMap` is this connection, or another one; `user.state` |
| `unheard`, `whose` | history: users whose logout was dropped, addressee of each chat |
| `late`, `touched` | history: what the read thread holds is older than the current user's session; users whom others have logged in or out, or whose `UPDATE` failed, since they were entered |

The three models meet at named places. `ChatService` abstracts from connections
to MySQL, `Accounts` from sessions, Redis and offline messages; both have the
statements `login` and `logout` run on the table `user`. `ChatClient` has of the
server only what its connection sees, in the order in which `ChatService` does
it: the entry in the map, then the state, then the answer. What other clients
and other servers do to the same users is one step each (`somebodyElse`): they
are entered or taken out of the map, set inline or offline, or `resetState` of
another server sets everybody offline.

Some points of the translation that are easy to get wrong:

* `unordered_map::insert` does not replace an entry, of this connection or of
  another (`login_insert`, `ChatClient!login`).
* From a client's first success on two of its threads wait in `recv` on one
  socket. `ChatService!Reply` gives the answer to the main thread or, if the
  read thread runs, possibly to that one, which drops it. `ChatClient` has both
  threads, and the read thread receives and displays in two steps, between which
  the main thread may log a user out and the next one in.
* `Connection::getAliveTime` is a difference of `clock()`, which counts the
  processor time of the whole process in ticks; the scanner compares it with
  `_maxIdleTime * 1000`, and the configuration gives `_maxIdleTime` in seconds.
  In a second that passes (`Tick`) `clock()` may count any number of ticks in
  `CpuCost`: none while the process sleeps, more than a million if several
  threads run.
* At `_maxSize` the producer notifies and goes round without waiting, and every
  wake-up restarts the timer of a thread in `getConnection`; so the timer may
  end there and need not (`ConnectionPool!Resume`, `Accounts!TimedOut`).
* `subscribe` and `unsubscribe` return when the command is written;
  `RedisExecute` happens later. `publish` waits for its reply and is one step.
* `groupChat` returns after the first member it publishes to (`group_publish`).
* `ClientCloseException` increments an erased iterator. Which entries it still
  finds is undefined; the model lets it erase any non-empty set of the entries
  of the connection, keeps one id, and leaves the crash to the action `crash`.
  `unsubscribe` is called even with the id -1.
* `json::parse` stops at the zero byte between two requests, so `onMessage`
  drops every request but the first of one read (`MaxBatch` is how many may
  share a read).
* `resetHandle` runs on the thread that got the signal; the others go on until
  `exit` (`up[s] = "exiting"`).
* A send to a connection whose peer is gone succeeds and goes nowhere (`Push`).
* `queryUsername` returns `true` before `mysql_free_result`. The rows of
  `mysql_use_result` are not read to their end, so MySQL's client refuses the
  next statement on that handle (`mysql[h] = "open"`), for as long as the pool
  keeps it. The other queries read or free their result.
* A module function that gets no result returns an empty one, and its caller
  cannot tell: `query` yields a `User` with the id -1, `queryUsername` says that
  a name is free, `queryGroup` lists no groups. The callers of `updateState`
  ignore its result. A login may come with an id of no row.
* `queryGroup` holds its first connection while it takes another for each group.
* The client ends its requests with a zero byte, the server sends none
  (`ParsesFirst` against `Parses`). The client's `recv` takes at most 1024 bytes
  (`Buffer`). `errno` of a message without one is null, and `get<int>` throws.
* Nothing in the client catches an exception: it ends the process (`died`), as
  the read thread's `exit(-1)` does (`exit`).

## 3. Properties and runs

Each property's comment in the module says what it is about. Bounds are small
because each interleaving that matters needs two actors: two connections, two
servers, two or three users (a third member who is offline is needed by the
group loop), one message, two where duplicates or order could depend on a second
one. `MaxCmds` bounds the commands a subscribe socket holds, and stands for the
socket's buffer: a writer at the bound waits, as `redisBufferWrite` does.
`MaxReqs` bounds the requests a client has under way, `MaxFaults` the faults.
`CHECK_DEADLOCK FALSE` everywhere: every client may have left, or the process of
the pool may have crashed.

| run | shows |
|---|---|
| `chat` | `TypeOK`, `NoMisdelivery` on direct, Redis and offline paths between two servers; `MailKept`: the cluster implements `Mail`; `NotLost`: no step drops a message, except those `Excused` lists; `ChatLands`: a message to a user whose registration is at rest is delivered or stored |
| `handover` | `RegistryAgreement`, `OneSession`, `MapSound`, `InlineHasConnection` for users that change on a client and move to a client on another server, with wrong passwords; `LoginAnswered` for clients whose read thread does not run yet |
| `one_server` | `HandlersFinish` although `groupChat` holds `_connMutex` over database and Redis; `OfflineDelivered`, `MailKept`, `AtMostOnce` (no addressee is sent a message twice) and `RegisteredIsInline` although the server may be killed at any step, and restart |
| `faults` | `NoMisdelivery`, `MapSound` with SIGINT, kill and restart of one of two servers at any step, and with requests that share a read |
| `accounts` | `RegTruthful`, `GroupsAdministered`, `OwnGroupsListed` with two requests at a time, two connections, and up to two that fail; `PoolUsed`: the module functions use the pool as `ResourcePool` has it; `Handled`: a request is worked off unless the process is gone or nested calls hold every connection of a full pool (`Stuck`) |
| `client` | `CurrentIsMapped`, `AnswerAwaited`, `DisplayedToAddressee`, `FirstAnswered` for a process with several logins, beside other clients and servers that log its users in and out |
| `pool` | the pool: `TypeOK`, `Exclusive`, `QueueByAge` by both clocks; `ScanComplete`: a scan leaves nothing that its own comparison of ticks would close; `PoolRefined`: it implements `ResourcePool`; `GetServed` |

In `accounts`, `MaxReqs` = 2 lets every pair of requests overlap, including two
logins whose second connections use up the pool; the ids that people type, at a
login too, are those of a row or of the next one. In `client`, a message has one
or two units, an answer one or three, where three are more than `Buffer` = 2;
`MaxRead` = 2 lets requests share a read or be cut by it; five requests make two
logins with the logout between them and leave two for chats or registrations;
with two chats one can be held by the read thread across a logout while the
other belongs to the next user; `MaxOthers` = 2 lets others log a user in and
out again, or take him out and an `UPDATE` fail. In `pool`, a second costs 0 or
2000 ticks and `MaxIdle` is 2: one busy second ages a connection, two idle ones
do not.

`OneSession`, `RegistryAgreement` and `InlineHasConnection` need that no two
logins of a user are between `login`'s check of his state and its update at the
same time. `LoginsApart` says so and is the hypothesis of the theorems; in the
runs it follows from `Exclusive = TRUE`: a person is at one client at a time,
and waits until a lost connection is closed. Nothing in the code ensures it. One
kill is enough for what it leaves behind: the users of the server are inline and
in no map.

`MailKept` says that a message, once sent, is on its way to each addressee in
one place at a time, that it leaves that place for a client on which he gave the
right password or for good, and that it never comes back; `AtMostOnce` says that
each copy clients were sent belongs to another addressee, one who gave the right
password on the client that has it. Both hold while a user stays on one server
(`Sticky` in `ChatServiceCopies`): in `chat` each user has one connection, in
`one_server` there is one server. When a user goes from a client on one server
to a client on another (`Uses_move`, `MaxCmds` = 2), both fail: the old server,
whose UNSUBSCRIBE is not executed yet, and the new one are pushed the same
message, one delivers and one stores it.

`Mail` allows any loss; `NotLost` lists the ones there are as long as SQL
statements and Redis commands succeed, as they do in `ChatService`. A step that
takes a message off its way to a user hands it to a client on which he is logged
in, unless

* he is between two steps of a login or logout, or offline, when his message is
  published: the state that `oneChat` or `groupChat` has read is stale;
* `groupChat` returns after a publish to somebody before him;
* `remove` deletes what was stored after the `query` of his login;
* the sender's client or his own is gone: requests not yet read are dropped, and
  what is sent to a dead connection goes nowhere.

With a third user, or with two messages, TLC needs every one of the four:
`NotLost` without any one of them is violated. `Faults = {}` and `MaxBatch = 1`
are part of the claim: a server that stops takes messages with it, and requests
that share a read are dropped.

`CurrentIsMapped` and `DisplayedToAddressee` have exceptions, and each happens.
Another client may log the current user in or out, another server's `resetState`
sets him offline, and an `UPDATE` may fail (`touched`). The chat that the read
thread held when the current user was let in is shown to him, whoever it was for
(`late`); so are the chats of a user whose logout the server dropped
(`unheard`).

### Where the code disagrees with itself

Five runs are expected to end in a violation. Each checks one property that a
comment or the README states; the quotes are in `PROJECT.json`.

| run | what happens |
|---|---|
| `group_return` | members behind the first published one get nothing, not even stored |
| `offline_race` | `remove` deletes a message stored after `query` |
| `open_result` | a registration of a name in use leaves a connection in the pool on which every statement fails: right passwords are refused, used names registered again |
| `second_login` | the client's read thread takes the answer to a later login, and the main thread waits for ever |
| `front_of_empty` | the scanner calls `front()` on an empty queue |

The same models show more with other constants or properties:

* `OneSession`, `RegisteredIsInline`, `RegistryAgreement` and
  `InlineHasConnection` fail with `Exclusive = FALSE`: the check of `user.state`
  and its update are four steps apart, and two clients of one user both log in.
* `InlineHasConnection` fails with `MaxBatch = 2` (a logout behind another
  request is dropped, and `ClientCloseException` resets one user of a
  connection) and with `Faults = {"crash"}` (nobody resets the users of a killed
  server); `LoginAnswered` fails with `MaxBatch = 2`.
* `MapSound` and `RegistryAgreement` fail with `MaxBatch = 2`, `MaxReqs = 2`, a
  message and a client of two users: a logout that shares a read with the chat
  before it is dropped, the next user of the client logs in, and his connection
  has two entries, the first of them for a user who has left.
* `OneSession` and `RegistryAgreement` fail with `Faults = {"sigint"}`, and so
  does `RegisteredIsInline`: `resetState` of one server sets the users of all
  servers offline.
* `AtMostOnce` and `MailKept` fail for a user who moves to a second server, with
  `Exclusive = FALSE` (two logins of one user read the same offline messages
  before either removes them), and with a group that lists a member twice.
* `NotLost` fails with `Exclusive = FALSE` (of two sessions of one user the
  first to end takes the entry and the subscription, the other leaves him
  inline), with `MaxBatch = 2` and two messages, and with `Faults = {"crash"}`.
* `ConnectionPool!GetReturns` fails: at `_maxSize` the producer loops over
  `notify_all`, and each wake-up restarts the timeout of a waiting thread. For
  the same reason `Accounts!Handled` fails without `Stuck`: two logins that each
  hold a connection in `queryGroup` wait for a second one, and nothing makes the
  timer of either end.
* `ConnectionPool!IdleClosed`, what `dbpool.cnf` and the comments of the scanner
  promise, fails: after one second that costs 2000 ticks a scan closes a
  connection that was idle for 1 of its 2 seconds, and in a process that sleeps
  it leaves connections that have been idle for longer.
* After a scan the producer may sleep on an empty queue, because the scanner
  notifies nobody.
* `DisplayedToAddressee` fails without `~late`: the read thread receives a chat
  of one user, the main thread logs him out and the next one in, and then the
  chat is printed under the commands of the second.
* In `ChatClient` a chat may overtake the answer to a login, since the entry of
  the map is public first; the client then finds no `errno` and dies. So do
  answers that are longer than its buffer and chats that arrive together.

## 4. Fairness

`ChatService!FairSpec`: the handler of each connection, the observer of each
server and Redis take steps when they can go on being taken (weak fairness);
these are threads that never wait for a person. A handler that writes a command
waits while the socket is full, and Redis may make room and another handler may
take it, over and over; that it gets its turn (strong fairness of `WriteStep`)
is the scheduling of the kernel between writers of one socket. Nothing is
assumed of `_connMutex` beyond weak fairness, nor of clients, SIGINT, crashes or
restarts.

`ConnectionPool!FairSpec`: a thread inside `getConnection` that can go on does;
a timer that is not restarted ends; the producer runs. Nothing is assumed of the
release of a connection, of the scanner or of the clock. `GetServed` and
`GetReturns` are stated for a thread that the others do not keep overtaking,
because `cv` is not fair.

`Accounts!FairSpec`: a thread with a request runs, and so does the producer
(weak fairness); a connection that is there again and again is taken in the end
(strong fairness of `getConnection`), because the others have only finitely many
requests to overtake with. Nothing is assumed of `TimedOut`: at `_maxSize` the
producer keeps restarting the timers, so a thread that needs one may wait for
ever, and `Handled` excepts the state in which only a timer could help.

`ChatClient!FairSpec`: the main thread in `recv`, the read thread and the
server's loop thread run while they have something to read, display or handle;
which of the client's two threads gets what arrives is open. Nothing is assumed
of people, of other clients and servers, of other users' chats, or of failures.

## 5. What TLC alone checks

Liveness (`LoginAnswered`, `HandlersFinish`, `OfflineDelivered`, `GetServed`,
`Handled`, `FirstAnswered`, and `ChatLands`, which says what becomes of a
message in the end) stays with TLC: fairness and ENABLED are out of the prover's
reach. So is induction over data; no definition of these modules is recursive.
The runs that end in a violation show one instance each, and a theorem has
nothing to add.

## 6. What is proved

Every safety invariant, action property and refinement of the passing runs is a
theorem, for any number of servers, users, clients, messages, threads and
connections, any bounds, and any sizes of messages and buffers, from the
assumptions on the constants that the modules state (`BusAssumption`,
`ServiceAssumption`, `PoolAssumption`, `AccountsAssumption`,
`ClientAssumption`). Where a theorem needs more of its environment, the
hypothesis is in its statement:

| theorem | states | hypotheses beyond those |
|---|---|---|
| `TypeCorrect` | `ChatService!TypeOK` | none: all faults, batches |
| `DeliveryCorrect` | `NoMisdelivery` | none: all faults, batches |
| `RequestsOrdered` | `Ordered`, the order of a connection's requests | none |
| `MapSoundHolds` | `MapSound` | `SoleUse` |
| `OneSessionHolds` | `OneSession` | `LoginsApart`, no SIGINT |
| `LoginsApartHolds` | `LoginsApart` | `Exclusive` |
| `RegisteredIsInlineHolds` | `RegisteredIsInline` | `LoginsApart`, no SIGINT |
| `RegistryAgreementHolds` | `RegistryAgreement` | `LoginsApart`, `SoleUse`, no faults |
| `InlineHolds` | `InlineHasConnection` | `LoginsApart`, `SoleUse`, no faults |
| `NotLostHolds` | `NotLost` | `LoginsApart`, `MaxBatch = 1`, no faults |
| `MailKeptHolds` | `MailKept`, the refinement of `Mail` | `Exclusive`, `MembersOnce`, `Sticky`: all faults, batches |
| `StickyOnce` | `AtMostOnce` | the same |
| `AtMostOnceHolds` | `AtMostOnce` | `Exclusive`, `MembersOnce`, `OneServer`: all faults, batches |
| `AccountsTypes`, `RegTruthfulHolds`, `GroupsAdministeredHolds`, `OwnGroupsListedHolds` | the invariants of `Accounts` | none |
| `IdsAreRowsHolds` | `IdsAreRows`: the id a handler goes on with is that of a row | none |
| `PoolUsedHolds` | `PoolUsed`, the refinement of `ResourcePool` | none |
| `ChatClientTypes`, `CurrentIsMappedHolds`, `AnswerAwaitedHolds`, `DisplayedToAddresseeHolds` | the safety properties of `ChatClient` | none |
| `PoolTypes`, `PoolExclusive`, `PoolByAge`, `PoolScanned` | the safety properties of `ConnectionPool` | none |
| `PoolImplements` | `PoolRefined`, the refinement of `ResourcePool` | none |

`LoginsApart`, a hypothesis about the behaviour, says that no two logins of a
user are between the check of his state and its update (`BeforeInline`) at the
same time, whoever uses which client; `SoleUse` that requests do not share a
read (`MaxBatch = 1`) or that a client is used by one user only; `OneServer`
that there is one server; `Sticky`, a hypothesis about the behaviour, that the
balancer takes the clients of a user to one server, whichever that is (with one
server it always does); `MembersOnce` that `queryGroupUsers` returns no row
twice, which is up to the schema of the table (it is not in the repository).
None of the hypotheses can be dropped: section 3 lists the violation that TLC
finds without each of them. They are about people, failures and the deployment,
not about the code: one in which people change clients quickly, or in which
servers are stopped by SIGINT, does not have these properties.

**Types** (`ChatServiceTypes`). `TypeOK` is not inductive: `oneChat` publishes
`js[c].msg` to `js[c].user`, and a request may hold `NoMsg` or the id -1. The
invariant is `TypeOK /\ Stages`, where `Stages` says that an opened connection
has a server, that queued requests and the request of a handler at each of its
steps name a user and, in a chat, a message, that the group loop has a member
left where it looks at one, and that a client in a chat is somebody. The proof
has a lemma for each operator the handlers are built from (`Send`, `Done`,
`Reply`, `Push`, `Erase`, ...), a lemma for each action, and one for each group
of actions that `Next` is made of.

**Delivery** (`ChatServiceDelivery`). `NoMisdelivery` speaks of what a client
was sent; the invariant `Addressed` follows a message back from there. It says
that every place that holds a message holds it for one of its addressees: queued
requests (`Asked`), the request and member list of a handler (`Handled`),
`offline_message` (`Stored`), the vector of a login (`Reading`), the channels
(`Pushed`); and that every entry of `_userConnMap` (`Entered`) and every login
past its check (`Admitted`) is of a user who gave the right password on that
connection. A lemma for each of `Push`, `StoreOffline`, `publish`, `Send`,
`Done`, `Goto` and `Erase` says which part it keeps, `Kept` that a part survives
a step which leaves its variables alone while messages get addressees and users
log in, and one lemma for each group of actions combines them.

**Sessions** (`ChatServiceSessions`). `MapSound` depends on the order of the
requests of one connection: `Ordered` says that a client waits behind its login
and that one logout ends a chat, so no logout of an earlier session is still on
its way when the next one's entry is made. On top of it, `MapKept` says where
the entry of each connection can come from, and `SessionsKept` that a user's
entry, his handlers between `login_insert` and the end of `logout` or of the
close, and his state belong to one connection at a time (`HoldOnce`), and which
of them may lag behind (`SessionKept`). The check of `user.state` in `login`
proves something about the step that acts on it only while no other login of the
user is in between: that is `LoginsApart`, and the theorem says that this gap is
the only way to a second session. `LoginsApartHolds` derives it from `Exclusive`
by `TryOnce`, that a user's login is on its way at one connection at a time.

**Registry** (`ChatServiceRegistry`). A server executes `subscribe` when it
writes it and Redis when it reads it, so agreement is stated of what Redis has
or will have: `SubsHeld` says that a server is subscribed to a user's channel,
once what it wrote is executed, exactly while one of its connections is past
`subscribe` and before `unsubscribe` of him. `InlineHeld` says that a user who
is inline has an entry or a handler that is about to reset him.
`RegistryAgreement` follows for users with nothing under way, with `Moving` as
the exact list of what is under way, and `InlineHasConnection` with `Ordered`
and `Entered`.

`NotLost` is proved there as well, since it is what the agreement is for. A
handler acts on what it has read of a user: an entry of the map or his state.
`PushHands` takes from `MapSound` that a send on an entry reaches a client on
which he is logged in; `PublishGoes` takes from `RegistryAgreement` that a
publish to a user who is inline and at rest reaches the one server that has his
entry. `OthersWait` says that a step of one connection loses nothing that the
others carry, and one lemma for each group of actions says where what the step
itself works on goes (`GoesOn`).

**Copies** (`ChatServiceCopies`). A count over all connections is not what a
step preserves, so the invariant `Single` says where a message is. On its way to
one addressee it is in one place (`OnePlace`): a request, a handler, the
channel, `offline_message` or the answer to a login; it is there once
(`HeldOnce`); and each of the copies that clients have can be given to an
addressee of its own, who gave the right password on that client and to whom the
message is not on its way any more (`Matched`). `HandOver`, `Deliver` and
`StayPut` say that a step which hands a message from one place to another, from
a place to a client, or nowhere, keeps this; each action is one of the three.
`NoMore` and `OneMore` are what they need of `Matches`: it survives fewer
copies, more addressees and more logins (`LoginsGrow`), and one more copy with
one more addressee. `TryOnce` is needed because `remove` deletes whatever is
stored: `ReadStored` says that what a login has read is still there, and it
fails if two logins of a user overlap. `publish` makes a copy for each
subscriber of a channel, so `OnePlace` needs `SubsHome`: no server but the home
of a user is subscribed to his channel, or will be. It is an invariant while
`Sticky` holds.

The refinement of `Mail` follows step by step (`MailStep`). `box` is mapped to
what is on its way (`Boxes`); a request is `Send`, with the addressees the
request has; a right password is `Enter`; each step that sends to a client is
`Deliver`, where `OnePlace` and `HeldOnce` say that what it sends leaves the box
and is no repetition (`Listed`); a step that moves a message from one place to
another is a stutter, and one that drops some is `Lose`: a server stops,
requests that shared a read are dropped, a connection is dead, `remove` deletes
what was not read, or `groupChat` returns.

**Accounts** (`AccountsProofs`). Everything rests on `Owned`: a connection is
idle or at one place of one thread's stack. Then the id that `mysql_insert_id`
reads is that of the statement the same thread has run before, whatever other
threads insert (`ClaimOnce`: no two threads claim one row). `WorkerKept` says
for each module function what its request, connections and locals are, and what
the tables hold of them already; `IdsAreRows` is what it says of ids, although
logins come with ids of no row and statements fail. `PoolUsedHolds` maps each
statement to a use, each return to a release, and the rest to stuttering steps.

**Client** (`ChatClientProofs`). The invariant `Live` holds while the process
does, as its end leaves requests and answers behind. `Framed` says that what is
left of the stream are whole messages, the first perhaps without the beginning
that the read thread holds; `parse` throws on that, and so does the main thread
on what follows. `Dialogue` and `OneAnswer` say that a login or a registration
is the last request of its client until its one answer is read, and that nothing
of it is left when the handler runs. `Sessions` says whose entries the
connection has: those of the session that is opening, open or about to end, and
of users whose logout was dropped; `Entered` that a user who is let in was
entered and set inline before, unless somebody else has acted on him. From
`Sessions` and the order of the stream follows `Addressed`: the chats behind the
answer to a login are of the user it lets in. `HeldFor` says the same of what
the read thread holds, unless it is `late`.

**Pool** (`ConnectionPoolProofs`). `TypeOK /\ Exclusive` is inductive: that
`_connectionCnt` is the number of connections depends on the sequences having no
repetition, so the lemmas at the start say what taking the first, the last or
the first n elements of such a sequence leaves (`ElemsTail`, `ElemsFront`,
`ElemsCut`). `TakeMoves`, `ReleaseMoves`, `ProduceMoves` and `ScanMoves` say
what each step does to the connections; the invariant, the order of the queue
and the refinement all cite them. `QueueByAge` needs `Exclusive`: a release
restamps one connection, and the order survives because that one is not in the
queue. `PoolScanned` needs `QueueByAge` for ticks of `clock()`, and says nothing
about seconds; `PoolImplements` needs `Exclusive` for the number of connections
that `ResourcePool` compares with its bounds.

## 7. Not modelled, and plan

Not modelled:

* The text of messages, names and SQL, and buffer sizes other than the client's
  `recv` buffer (`sprintf` into 256 or 1024 bytes).
* The data races on the hiredis contexts, and failing Redis commands: every
  caller ignores the results, so there is no reaction to model beyond a lost
  message.
* `json.hpp`, which is 25447 of the repository's 27680 lines of code. It is a
  vendored library that several projects share; what the system relies on, which
  texts `parse` accepts, is `Framing`. The share of the repository the modules
  cover is small for that reason, and most of the project's own code is covered.
* Console input. A failed `cin` makes the client's menus loop for ever; a name
  cut within a character makes `dump` throw.
* The client's friend and group lists. They are replaced only if the answer to a
  login has a list, so a user without friends or groups is shown those of the
  user before him.
* A server without `dbpool.cnf`: the constructor of ConnectionPool returns early
  (lines 79-82), the pool stays empty and has no threads.
* SQL statements that fail in the handlers of `ChatService`; `Accounts` has
  failing statements, and `ChatClient` a failing `updateState`.
* Build files.

Left for later:

* Lemmas that say of `ChatClient`'s part of the server that it does what
  `ChatService` does with one connection.
