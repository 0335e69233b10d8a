--------------------------- MODULE ConnectionPool ---------------------------
(***************************************************************************)
(* The pool of MySQL connections of one chat server: class ConnectionPool  *)
(* (dao/connection_pool.cpp) with its producer thread, its scanner thread  *)
(* and the worker threads that call getConnection.                         *)
(*                                                                         *)
(* Every access to the pool is a critical section of _queueMutex, and a    *)
(* critical section is one step.  It ends early where it waits on cv, the  *)
(* one condition variable that producer and consumers share.               *)
(***************************************************************************)
EXTENDS Naturals, Sequences, FiniteSets

CONSTANTS
  Worker,    \* threads that run SQL: the loops and the observer
  Handle,    \* addresses of Connection objects
  InitSize,  \* _initSize
  MaxSize,   \* _maxSize
  MaxIdle,   \* _maxIdleTime, which dbpool.cnf gives in seconds
  CpuCost,   \* what clock() may count while one second passes
  MaxClock   \* bound on the seconds, for TLC

ASSUME PoolAssumption ==
  /\ InitSize \in Nat /\ MaxSize \in Nat \ {0} /\ InitSize <= MaxSize
  /\ MaxIdle \in Nat \ {0} /\ CpuCost \subseteq Nat /\ MaxClock \in Nat
  /\ IsFiniteSet(Worker) /\ IsFiniteSet(Handle)

VARIABLES
  queue,     \* _connectionQue
  cnt,       \* _connectionCnt
  stamp,     \* stamp[h]: the time of the last refreshAliveTime of h
  now,       \* the time
  prod,      \* the producer: "waiting" on cv or "ready" to run
  pc,        \* pc[w]: where the worker is with respect to getConnection
  sp,        \* sp[w]: the shared_ptrs of w, the innermost last
  proc       \* "running", "crashed" (null dereferenced) or "undefined"

vars == <<queue, cnt, stamp, now, prod, pc, sp, proc>>

(***************************************************************************)
(* Two clocks.  clock() counts the processor time of the whole process in  *)
(* ticks, nothing while it sleeps, and all the code keeps of a stamp is    *)
(* its cpu (_alivetime); wall counts seconds and is history.               *)
(***************************************************************************)
Time == [wall : Nat, cpu : Nat]

TypeOK ==
  /\ queue \in Seq(Handle)
  /\ cnt \in 0..MaxSize
  /\ stamp \in [Handle -> Time]
  /\ now \in Time
  /\ prod \in {"ready", "waiting"}
  /\ pc \in [Worker -> {"outside", "enter", "waiting", "woken"}]
  /\ sp \in [Worker -> Seq(Handle)]
  /\ proc \in {"running", "crashed", "undefined"}

(***************************************************************************)
(* The constructor has read its configuration and filled the queue; both   *)
(* threads start.  Without a configuration file (lines 79-82) there is no  *)
(* pool and no thread of it: that process is not modelled.                 *)
(***************************************************************************)
Init ==
  /\ queue \in [1..InitSize -> Handle]
  /\ \A i, j \in 1..InitSize : queue[i] = queue[j] => i = j
  /\ cnt = InitSize
  /\ now = [wall |-> 0, cpu |-> 0]
  /\ stamp = [h \in Handle |-> now]
  /\ prod = "ready"
  /\ pc = [w \in Worker |-> "outside"]
  /\ sp = [w \in Worker |-> <<>>]
  /\ proc = "running"

Elems(q) == {q[i] : i \in DOMAIN q}

(* Connection objects that exist. *)
Live == Elems(queue) \cup UNION {Elems(sp[w]) : w \in Worker}

(* cv.notify_all: whoever waits will contend for the mutex again. *)
Awake(p) == IF p = "waiting" THEN "woken" ELSE p

-----------------------------------------------------------------------------
(* The workers.                                                            *)

(***************************************************************************)
(* A module function asks for a connection; GroupModule::queryGroup asks   *)
(* for a second one while it holds the first.                              *)
(***************************************************************************)
Call(w) ==
  /\ proc = "running"
  /\ pc[w] = "outside" /\ Len(sp[w]) < 2
  /\ pc' = [pc EXCEPT ![w] = "enter"]
  /\ UNCHANGED <<queue, cnt, stamp, now, prod, sp, proc>>

(* Mutant: the connection stays in the queue. *)
Take_NoPop(w) ==
  /\ queue # <<>>
  /\ sp' = [sp EXCEPT ![w] = Append(@, Head(queue))]
  /\ pc' = [v \in Worker |-> IF v = w THEN "outside" ELSE Awake(pc[v])]
  /\ prod' = "ready"
  /\ UNCHANGED <<queue, cnt, stamp, now, proc>>

(* getConnection from the loop's exit to its return. *)
Take(w) ==
  /\ queue # <<>>
  /\ sp' = [sp EXCEPT ![w] = Append(@, Head(queue))]
  /\ queue' = Tail(queue)
  /\ pc' = [v \in Worker |-> IF v = w THEN "outside" ELSE Awake(pc[v])]
  /\ prod' = "ready"
  /\ UNCHANGED <<cnt, stamp, now, proc>>

(* cv.wait_for: the mutex is released and a new timer starts. *)
Wait(w) ==
  /\ queue = <<>>
  /\ pc' = [pc EXCEPT ![w] = "waiting"]
  /\ UNCHANGED <<queue, cnt, stamp, now, prod, sp, proc>>

(* nullptr is returned; every caller dereferences it. *)
TimedOut(w) ==
  /\ queue = <<>>
  /\ proc' = "crashed"
  /\ pc' = [pc EXCEPT ![w] = "outside"]
  /\ UNCHANGED <<queue, cnt, stamp, now, prod, sp>>

getConnection(w) ==
  /\ proc = "running"
  /\ pc[w] = "enter"
  /\ Take(w) \/ Wait(w)

(* wait_for returns: notified, or late, however it was woken. *)
Resume(w) ==
  /\ proc = "running"
  /\ pc[w] = "woken"
  /\ Take(w) \/ Wait(w) \/ TimedOut(w)

(* Mutant: cv.wait in the place of cv.wait_for. *)
Timeout_Never(w) == pc[w] = "waiting" /\ FALSE /\ UNCHANGED vars

Timeout(w) ==
  /\ proc = "running"
  /\ pc[w] = "waiting"
  /\ Take(w) \/ TimedOut(w)

(* Mutant: refreshAliveTime is not called. *)
Release_Stale(w) ==
  /\ proc = "running"
  /\ pc[w] = "outside" /\ sp[w] # <<>>
  /\ queue' = Append(queue, sp[w][Len(sp[w])])
  /\ sp' = [sp EXCEPT ![w] = SubSeq(@, 1, Len(@) - 1)]
  /\ UNCHANGED <<cnt, stamp, now, prod, pc, proc>>

(***************************************************************************)
(* The deleter of the shared_ptr.  Nobody is notified: a waiting thread    *)
(* finds the connection when its timer ends.                               *)
(***************************************************************************)
Release(w) ==
  /\ proc = "running"
  /\ pc[w] = "outside" /\ sp[w] # <<>>
  /\ LET h == sp[w][Len(sp[w])] IN
       /\ stamp' = [stamp EXCEPT ![h] = now]
       /\ queue' = Append(queue, h)
  /\ sp' = [sp EXCEPT ![w] = SubSeq(@, 1, Len(@) - 1)]
  /\ UNCHANGED <<cnt, now, prod, pc, proc>>

-----------------------------------------------------------------------------
(* The producer: one round of produceConnectionTask.                       *)

ProducerWaits ==
  /\ queue # <<>>
  /\ prod' = "waiting"
  /\ UNCHANGED <<queue, cnt, stamp, pc>>

(* Mutant: _maxSize is not looked at. *)
Produce_NoLimit ==
  /\ queue = <<>>
  /\ \E h \in Handle \ Live :
       /\ stamp' = [stamp EXCEPT ![h] = now]
       /\ queue' = Append(queue, h)
  /\ cnt' = cnt + 1
  /\ pc' = [v \in Worker |-> Awake(pc[v])]
  /\ UNCHANGED prod

Produce ==
  /\ queue = <<>> /\ cnt < MaxSize
  /\ \E h \in Handle \ Live :
       /\ stamp' = [stamp EXCEPT ![h] = now]
       /\ queue' = Append(queue, h)
  /\ cnt' = cnt + 1
  /\ pc' = [v \in Worker |-> Awake(pc[v])]
  /\ UNCHANGED prod

(* At the limit the producer does not wait: it notifies and goes round. *)
ProducerSpins ==
  /\ queue = <<>> /\ cnt >= MaxSize
  /\ pc' = [v \in Worker |-> Awake(pc[v])]
  /\ UNCHANGED <<queue, cnt, stamp, prod>>

produceConnectionTask ==
  /\ proc = "running" /\ prod = "ready"
  /\ ProducerWaits \/ Produce \/ ProducerSpins
  /\ UNCHANGED <<now, sp, proc>>

-----------------------------------------------------------------------------
(* The scanner.                                                            *)

(* getAliveTime() >= _maxIdleTime * 1000: ticks against thousandths of a   *)
(* second, whatever CLOCKS_PER_SEC is.                                     *)
Aged(h) == now.cpu - stamp[h].cpu >= MaxIdle * 1000

(* Mutant: an if where the loop should be a while. *)
Expired_One(n) ==
  /\ n <= Len(queue) /\ n <= cnt - InitSize /\ n <= 1
  /\ \A i \in 1..n : Aged(queue[i])

(* Mutant: _initSize is not looked at. *)
Expired_NoFloor(n) ==
  /\ n <= Len(queue) /\ n <= cnt
  /\ \A i \in 1..n : Aged(queue[i])
  /\ n < Len(queue) => ~Aged(queue[n + 1])

(* How many connections the loop pops before it ends or finds no front. *)
Expired(n) ==
  /\ n <= Len(queue) /\ n <= cnt - InitSize
  /\ \A i \in 1..n : Aged(queue[i])
  /\ n < Len(queue) /\ n < cnt - InitSize => ~Aged(queue[n + 1])

(* front() of an empty queue: what it returns is undefined. *)
Underrun(n) == n = Len(queue) /\ n < cnt - InitSize

scannerConnectionTask ==
  /\ proc = "running"
  /\ \E n \in 0..Len(queue) :
       /\ Expired(n)
       /\ queue' = SubSeq(queue, n + 1, Len(queue))
       /\ cnt' = cnt - n
       /\ proc' = IF Underrun(n) THEN "undefined" ELSE proc
  /\ UNCHANGED <<stamp, now, prod, pc, sp>>

(* A second passes. *)
Tick ==
  /\ proc = "running" /\ now.wall < MaxClock
  /\ \E k \in CpuCost :
       now' = [wall |-> now.wall + 1, cpu |-> now.cpu + k]
  /\ UNCHANGED <<queue, cnt, stamp, prod, pc, sp, proc>>

-----------------------------------------------------------------------------
GetStep(w) == getConnection(w) \/ Resume(w)

Next ==
  \/ \E w \in Worker : Call(w) \/ GetStep(w) \/ Timeout(w) \/ Release(w)
  \/ produceConnectionTask \/ scannerConnectionTask \/ Tick

Spec == Init /\ [][Next]_vars

(***************************************************************************)
(* A thread that is in getConnection and not waiting gets the mutex, the   *)
(* producer gets it, and a timer that is left alone runs out.  Nothing is  *)
(* assumed of Release: a query may take for ever.                          *)
(***************************************************************************)
FairSpec ==
  /\ Spec
  /\ \A w \in Worker : WF_vars(GetStep(w)) /\ WF_vars(Timeout(w))
  /\ WF_vars(produceConnectionTask)

-----------------------------------------------------------------------------
(* Properties                                                              *)

(***************************************************************************)
(* Exclusive: a connection is once in the queue or in the hands of one     *)
(* thread, and _connectionCnt counts them all, so no two threads ever run  *)
(* SQL on one MYSQL handle and no connection is lost.                      *)
(***************************************************************************)
Injective(q) == \A i, j \in DOMAIN q : q[i] = q[j] => i = j

Exclusive ==
  /\ Injective(queue)
  /\ \A w \in Worker :
       /\ Injective(sp[w])
       /\ Elems(sp[w]) \cap Elems(queue) = {}
       /\ \A v \in Worker \ {w} : Elems(sp[v]) \cap Elems(sp[w]) = {}
  /\ cnt = Cardinality(Live)

(***************************************************************************)
(* QueueByAge: the queue is ordered by the last use, the longest idle      *)
(* first, by either clock: the scanner relies on the order of _alivetime   *)
(* when it stops at the first young connection.                            *)
(***************************************************************************)
Before(s, t) == s.cpu <= t.cpu /\ s.wall <= t.wall

QueueByAge ==
  /\ \A i, j \in DOMAIN queue :
       i < j => Before(stamp[queue[i]], stamp[queue[j]])
  /\ \A i \in DOMAIN queue : Before(stamp[queue[i]], now)

(***************************************************************************)
(* ScanComplete: a scan that closes connections comes down to _initSize or *)
(* leaves none behind that the comparison of line 175 would have closed:   *)
(* the ones behind the first young one are as young, as the comment of     *)
(* line 184 says.  It is about ticks of clock(), and promises nothing      *)
(* about the seconds a connection has been idle.                           *)
(***************************************************************************)
ScanComplete ==
  [][cnt' < cnt =>
       cnt' = InitSize \/ \A i \in DOMAIN queue' : ~Aged(queue'[i])]_vars

(***************************************************************************)
(* IdleClosed: what the comments of lines 98 and 162 and dbpool.cnf        *)
(* promise of the scanner: it closes connections that have been idle for   *)
(* MaxIdle seconds, and above _initSize leaves none of them.  The code     *)
(* does not keep this.                                                     *)
(***************************************************************************)
Idle(h) == now.wall - stamp[h].wall >= MaxIdle

IdleClosed ==
  [][cnt' < cnt =>
       /\ \A h \in Elems(queue) \ Elems(queue') : Idle(h)
       /\ cnt' = InitSize \/ \A i \in DOMAIN queue' : ~Idle(queue'[i])]_vars

(***************************************************************************)
(* PoolRefined: the pool does what ResourcePool promises.                  *)
(***************************************************************************)
Pool == INSTANCE ResourcePool WITH
          idle <- Elems(queue), using <- [w \in Worker |-> Elems(sp[w])]
PoolRefined == Pool!PoolSpec

InGet(w) == pc[w] \in {"waiting", "woken"}

(* In the end the other threads do not keep calling getConnection and      *)
(* overtaking w: cv is not fair.                                           *)
Alone(w) == <>[](\A v \in Worker \ {w} : pc[v] = "outside")

(***************************************************************************)
(* GetReturns: a thread that waits in getConnection gets a connection or   *)
(* its timeout passes.                                                     *)
(***************************************************************************)
GetReturns ==
  \A w \in Worker :
    Alone(w) => (InGet(w) ~> (~InGet(w) \/ proc # "running"))

(***************************************************************************)
(* GetServed: so it does if the pool does not stay exhausted: released     *)
(* connections and room below _maxSize reach the waiting thread, although  *)
(* the deleter notifies nobody.                                            *)
(***************************************************************************)
Exhausted == queue = <<>> /\ cnt = MaxSize

GetServed ==
  \A w \in Worker :
    Alone(w) /\ []<>~Exhausted
      => (InGet(w) ~> (~InGet(w) \/ proc # "running"))

(* ScanDefined: no scan ever reads the front of an empty queue. *)
ScanDefined == proc # "undefined"
=============================================================================
