---------------------------- MODULE ResourcePool ----------------------------
(***************************************************************************)
(* What class ConnectionPool promises its users, without its queue,        *)
(* threads and condition variable: a connection is idle or in the hands of *)
(* one thread, and there are between InitSize and MaxSize of them.         *)
(***************************************************************************)
EXTENDS Naturals, FiniteSets

CONSTANTS
  Worker,    \* threads that use connections
  Handle,    \* connections
  InitSize,  \* _initSize
  MaxSize    \* _maxSize

VARIABLES
  idle,      \* connections nobody uses
  using      \* using[w]: the connections in the hands of w

poolVars == <<idle, using>>

Total == idle \cup UNION {using[w] : w \in Worker}

PoolInit ==
  /\ idle \in SUBSET Handle /\ Cardinality(idle) = InitSize
  /\ using = [w \in Worker |-> {}]

Create ==
  /\ Cardinality(Total) < MaxSize
  /\ \E h \in Handle \ Total : idle' = idle \cup {h}
  /\ UNCHANGED using

Acquire(w) ==
  \E h \in idle : /\ idle' = idle \ {h}
                  /\ using' = [using EXCEPT ![w] = @ \cup {h}]

Release(w) ==
  \E h \in using[w] : /\ idle' = idle \cup {h}
                      /\ using' = [using EXCEPT ![w] = @ \ {h}]

(* One scan closes any number of idle connections down to InitSize. *)
Destroy ==
  /\ \E D \in SUBSET idle :
       /\ idle' = idle \ D
       /\ Cardinality(Total \ D) >= InitSize
  /\ UNCHANGED using

PoolNext == Create \/ Destroy \/ \E w \in Worker : Acquire(w) \/ Release(w)

PoolSpec == PoolInit /\ [][PoolNext]_poolVars
=============================================================================
