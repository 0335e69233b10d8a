------------------------ MODULE ConnectionPoolProofs ------------------------
(***************************************************************************)
(* Proofs about the pool: its types, that no connection is ever in two     *)
(* places or lost, the order of its queue, and that it implements          *)
(* ResourcePool.                                                           *)
(***************************************************************************)
EXTENDS ConnectionPool, FiniteSetTheorems, SequenceTheorems, TLAPS

-----------------------------------------------------------------------------
(* Sequences without repetition, and what is in them.                      *)

(* The elements of a sequence are those of its type, and finitely many     *)
(* when those are.                                                         *)
LEMMA ElemsType ==
  ASSUME NEW S, NEW q \in Seq(S)
  PROVE  Elems(q) \subseteq S
BY ElementOfSeq, LenProperties DEF Elems

(* An appended element joins the others. *)
LEMMA ElemsAppend ==
  ASSUME NEW S, NEW q \in Seq(S), NEW h \in S
  PROVE  /\ Append(q, h) \in Seq(S)
         /\ Elems(Append(q, h)) = Elems(q) \cup {h}
         /\ Injective(q) /\ h \notin Elems(q) => Injective(Append(q, h))
<1> DEFINE r == Append(q, h)
<1>1. /\ r \in Seq(S) /\ DOMAIN q = 1..Len(q) /\ DOMAIN r = 1..(Len(q) + 1)
      /\ Len(q) \in Nat /\ r[Len(q) + 1] = h
      /\ \A i \in 1..Len(q) : r[i] = q[i]
  BY AppendProperties, LenProperties
<1> HIDE DEF r
<1>2. Elems(r) = Elems(q) \cup {h}
  BY <1>1 DEF Elems
<1>3. ASSUME Injective(q), h \notin Elems(q)
      PROVE  Injective(r)
  <2> SUFFICES ASSUME NEW i \in DOMAIN r, NEW j \in DOMAIN r, r[i] = r[j]
               PROVE  i = j
    BY DEF Injective
  <2>1. CASE i = Len(q) + 1 \/ j = Len(q) + 1
    BY <2>1, <1>1, <1>3 DEF Elems
  <2>2. CASE i \in DOMAIN q /\ j \in DOMAIN q
    BY <2>2, <1>1, <1>3 DEF Injective
  <2>3. QED BY <2>1, <2>2, <1>1
<1>4. QED BY <1>1, <1>2, <1>3 DEF r

(* What SubSeq leaves of a sequence whose first n elements, or whose last  *)
(* one, are dropped.                                                       *)
LEMMA SubSeqRest ==
  ASSUME NEW S, NEW q \in Seq(S), NEW n \in 0..Len(q)
  PROVE  /\ SubSeq(q, n + 1, Len(q)) \in Seq(S)
         /\ Len(SubSeq(q, n + 1, Len(q))) = Len(q) - n
         /\ \A i \in 1..(Len(q) - n) : SubSeq(q, n + 1, Len(q))[i] = q[n + i]
OBVIOUS

(* A sequence without its last element. *)
LEMMA SubSeqFront ==
  ASSUME NEW S, NEW q \in Seq(S), q # <<>>
  PROVE  /\ SubSeq(q, 1, Len(q) - 1) \in Seq(S)
         /\ Len(SubSeq(q, 1, Len(q) - 1)) = Len(q) - 1
         /\ \A i \in 1..(Len(q) - 1) : SubSeq(q, 1, Len(q) - 1)[i] = q[i]
OBVIOUS

(* The first n elements of q, and what is left without them.               *)
FirstOf(q, n) == {q[i] : i \in 1..n}
RestOf(q, n, r) ==
  Len(r) = Len(q) - n /\ \A i \in 1..(Len(q) - n) : r[i] = q[n + i]

(* When the first n elements are dropped, the others are what is left.     *)
LEMMA ElemsCut ==
  ASSUME NEW S, NEW q \in Seq(S), Injective(q), NEW n \in 0..Len(q),
         NEW r \in Seq(S), RestOf(q, n, r)
  PROVE  LET D == FirstOf(q, n) IN
         /\ Injective(r)
         /\ D \subseteq Elems(q) /\ Elems(r) = Elems(q) \ D
         /\ IsFiniteSet(D) /\ Cardinality(D) = n
<1> DEFINE D == FirstOf(q, n)
<1>1. /\ Len(q) \in Nat /\ DOMAIN q = 1..Len(q) /\ n \in Nat /\ n <= Len(q)
      /\ DOMAIN r = 1..(Len(q) - n)
      /\ \A i \in 1..(Len(q) - n) : r[i] = q[n + i]
  BY LenProperties DEF RestOf
<1>2. Injective(r)
  <2> SUFFICES ASSUME NEW i \in 1..(Len(q) - n), NEW j \in 1..(Len(q) - n),
                      r[i] = r[j]
               PROVE  i = j
    BY <1>1 DEF Injective
  <2>1. n + i \in DOMAIN q /\ n + j \in DOMAIN q /\ q[n + i] = q[n + j]
    BY <1>1
  <2>2. n + i = n + j
    BY <2>1 DEF Injective
  <2>3. QED BY <2>2, <1>1
<1>3. D \subseteq Elems(q)
  BY <1>1 DEF Elems, FirstOf
<1>4. Elems(r) = Elems(q) \ D
  <2>1. ASSUME NEW x \in Elems(r) PROVE x \in Elems(q) \ D
    <3>1. PICK i \in 1..(Len(q) - n) : x = r[i]
      BY <1>1 DEF Elems
    <3>2. x = q[n + i] /\ n + i \in 1..Len(q) /\ n + i > n
      BY <3>1, <1>1
    <3>3. ASSUME NEW j \in 1..n PROVE q[j] # q[n + i]
      <4>1. j \in DOMAIN q /\ n + i \in DOMAIN q /\ j # n + i
        BY <3>2, <1>1
      <4>2. QED BY <4>1 DEF Injective
    <3>4. QED BY <3>2, <3>3, <1>1 DEF Elems, FirstOf
  <2>2. ASSUME NEW x \in Elems(q) \ D PROVE x \in Elems(r)
    <3>1. PICK i \in 1..Len(q) : x = q[i]
      BY <1>1 DEF Elems
    <3>2. i \notin 1..n
      BY <3>1 DEF FirstOf
    <3>3. i - n \in 1..(Len(q) - n) /\ r[i - n] = x
      BY <3>1, <3>2, <1>1
    <3>4. QED BY <3>3, <1>1 DEF Elems
  <2>3. QED BY <2>1, <2>2
<1>5. IsFiniteSet(D) /\ Cardinality(D) = n
  <2> DEFINE f == [i \in 1..n |-> q[i]]
  <2>1. f \in Bijection(1..n, D)
    BY <1>1
       DEF FirstOf, Injective, Bijection, Injection, Surjection, IsInjective
  <2>2. ExistsBijection(1..n, D)
    BY <2>1 DEF ExistsBijection
  <2>3. IsFiniteSet(1..n)
    BY <1>1, FS_Interval
  <2>4. IsFiniteSet(D)
    BY <2>2, <2>3, FS_Bijection
  <2>5. QED BY <1>1, <2>2, <2>4, FS_CountingElements
<1>6. QED BY <1>2, <1>3, <1>4, <1>5

(* The first element of a sequence is in no other place of it.             *)
LEMMA ElemsTail ==
  ASSUME NEW S, NEW q \in Seq(S), Injective(q), q # <<>>
  PROVE  /\ Head(q) \in S /\ Head(q) \in Elems(q)
         /\ Tail(q) \in Seq(S) /\ Injective(Tail(q))
         /\ Elems(Tail(q)) = Elems(q) \ {Head(q)}
<1>1. /\ Len(q) \in Nat \ {0} /\ DOMAIN q = 1..Len(q) /\ Head(q) = q[1]
  BY EmptySeq, LenProperties
<1>2. Tail(q) \in Seq(S) /\ RestOf(q, 1, Tail(q)) /\ 1 \in 0..Len(q)
  BY <1>1 DEF RestOf
<1>3. FirstOf(q, 1) = {q[1]}
  BY DEF FirstOf
<1>4. \A r \in Seq(S) : RestOf(q, 1, r)
        => Injective(r) /\ Elems(r) = Elems(q) \ FirstOf(q, 1)
  BY <1>2, ElemsCut
<1>5. q[1] \in S /\ q[1] \in Elems(q)
  BY <1>1 DEF Elems
<1>6. Injective(Tail(q)) /\ Elems(Tail(q)) = Elems(q) \ {q[1]}
  BY <1>2, <1>3, <1>4
<1>7. QED BY <1>1, <1>2, <1>5, <1>6

(* Nor is the last one. *)
LEMMA ElemsFront ==
  ASSUME NEW S, NEW q \in Seq(S), Injective(q), q # <<>>,
         NEW f \in Seq(S), Len(f) = Len(q) - 1,
         \A i \in 1..(Len(q) - 1) : f[i] = q[i]
  PROVE  /\ Injective(f)
         /\ q[Len(q)] \in S /\ q[Len(q)] \in Elems(q)
         /\ Elems(f) = Elems(q) \ {q[Len(q)]}
<1>1. /\ Len(q) \in Nat \ {0} /\ DOMAIN q = 1..Len(q)
      /\ DOMAIN f = 1..(Len(q) - 1)
  BY EmptySeq, LenProperties
<1>2. Injective(f)
  BY <1>1 DEF Injective
<1>3. q[Len(q)] \in S /\ q[Len(q)] \in Elems(q)
  BY <1>1 DEF Elems
<1>4. ASSUME NEW x \in Elems(f) PROVE x \in Elems(q) \ {q[Len(q)]}
  <2>1. PICK i \in 1..(Len(q) - 1) : x = q[i]
    BY <1>1 DEF Elems
  <2>2. i \in DOMAIN q /\ Len(q) \in DOMAIN q /\ i # Len(q)
    BY <1>1
  <2>3. QED BY <2>1, <2>2 DEF Elems, Injective
<1>5. ASSUME NEW x \in Elems(q) \ {q[Len(q)]} PROVE x \in Elems(f)
  <2>1. PICK i \in 1..Len(q) : x = q[i]
    BY <1>1 DEF Elems
  <2>2. i \in 1..(Len(q) - 1)
    BY <2>1, <1>1
  <2>3. QED BY <2>1, <2>2, <1>1 DEF Elems
<1>6. QED BY <1>2, <1>3, <1>4, <1>5

-----------------------------------------------------------------------------
(* What each step does to the connections.                                 *)

(* The live connections are finitely many handles. *)
LEMMA LiveFinite ==
  ASSUME TypeOK
  PROVE  Live \subseteq Handle /\ IsFiniteSet(Live)
<1>1. Elems(queue) \subseteq Handle
  BY ElemsType DEF TypeOK
<1>2. ASSUME NEW w \in Worker PROVE Elems(sp[w]) \subseteq Handle
  <2>1. sp[w] \in Seq(Handle)
    BY DEF TypeOK
  <2>2. QED BY <2>1, ElemsType
<1>3. Live \subseteq Handle
  BY <1>1, <1>2 DEF Live
<1>4. QED BY <1>3, PoolAssumption, FS_Subset

(* The first of the queue goes to the thread that takes it. *)
LEMMA TakeMoves ==
  ASSUME TypeOK, Exclusive, NEW w \in Worker, Take(w)
  PROVE  /\ queue' \in Seq(Handle) /\ sp' \in [Worker -> Seq(Handle)]
         /\ Head(queue) \in Elems(queue)
         /\ Injective(queue') /\ Elems(queue') = Elems(queue) \ {Head(queue)}
         /\ Injective(sp'[w]) /\ Elems(sp'[w]) = Elems(sp[w]) \cup {Head(queue)}
         /\ \A v \in Worker \ {w} : sp'[v] = sp[v]
<1>1. /\ queue \in Seq(Handle) /\ queue # <<>> /\ queue' = Tail(queue)
      /\ Injective(queue) /\ sp \in [Worker -> Seq(Handle)]
      /\ sp' = [sp EXCEPT ![w] = Append(sp[w], Head(queue))]
  BY DEF TypeOK, Exclusive, Take
<1>2. /\ Head(queue) \in Handle /\ Head(queue) \in Elems(queue)
      /\ queue' \in Seq(Handle) /\ Injective(queue')
      /\ Elems(queue') = Elems(queue) \ {Head(queue)}
  BY <1>1, ElemsTail
<1>3. /\ sp[w] \in Seq(Handle) /\ Injective(sp[w])
      /\ Head(queue) \notin Elems(sp[w])
  BY <1>1, <1>2 DEF Exclusive
<1>4. /\ Append(sp[w], Head(queue)) \in Seq(Handle)
      /\ Elems(Append(sp[w], Head(queue))) = Elems(sp[w]) \cup {Head(queue)}
      /\ Injective(Append(sp[w], Head(queue)))
  BY <1>2, <1>3, ElemsAppend
<1>5. /\ sp' \in [Worker -> Seq(Handle)] /\ sp'[w] = Append(sp[w], Head(queue))
      /\ \A v \in Worker \ {w} : sp'[v] = sp[v]
  BY <1>1, <1>4
<1>6. QED BY <1>2, <1>4, <1>5

(* The last shared_ptr of the thread goes to the end of the queue. *)
LEMMA ReleaseMoves ==
  ASSUME TypeOK, Exclusive, NEW w \in Worker, Release(w)
  PROVE  LET h == sp[w][Len(sp[w])] IN
         /\ queue' \in Seq(Handle) /\ sp' \in [Worker -> Seq(Handle)]
         /\ h \in Handle /\ h \in Elems(sp[w])
         /\ Injective(queue') /\ Elems(queue') = Elems(queue) \cup {h}
         /\ queue' = Append(queue, h) /\ h \notin Elems(queue)
         /\ stamp' = [stamp EXCEPT ![h] = now]
         /\ Injective(sp'[w]) /\ Elems(sp'[w]) = Elems(sp[w]) \ {h}
         /\ \A v \in Worker \ {w} : sp'[v] = sp[v]
<1> DEFINE h == sp[w][Len(sp[w])]
           f == SubSeq(sp[w], 1, Len(sp[w]) - 1)
<1>1. /\ sp[w] \in Seq(Handle) /\ sp[w] # <<>> /\ Injective(sp[w])
      /\ queue \in Seq(Handle) /\ Injective(queue)
      /\ sp \in [Worker -> Seq(Handle)]
  BY DEF TypeOK, Exclusive, Release
<1>2. /\ queue' = Append(queue, h) /\ sp' = [sp EXCEPT ![w] = f]
      /\ stamp' = [stamp EXCEPT ![h] = now]
  BY DEF Release
<1>3. /\ f \in Seq(Handle) /\ Len(f) = Len(sp[w]) - 1
      /\ \A i \in 1..(Len(sp[w]) - 1) : f[i] = sp[w][i]
  BY <1>1, SubSeqFront
<1>4. /\ Injective(f) /\ h \in Handle /\ h \in Elems(sp[w])
      /\ Elems(f) = Elems(sp[w]) \ {h}
  <2> HIDE DEF f
  <2>1. QED BY <1>1, <1>3, ElemsFront
<1>5. h \notin Elems(queue)
  BY <1>4 DEF Exclusive
<1>6. /\ queue' \in Seq(Handle) /\ Injective(queue')
      /\ Elems(queue') = Elems(queue) \cup {h}
  <2> HIDE DEF h
  <2>1. QED BY <1>1, <1>2, <1>4, <1>5, ElemsAppend
<1>7. /\ sp' \in [Worker -> Seq(Handle)] /\ sp'[w] = f
      /\ \A v \in Worker \ {w} : sp'[v] = sp[v]
  <2> HIDE DEF f, h
  <2>1. QED BY <1>1, <1>2, <1>3
<1>8. QED BY <1>2, <1>4, <1>5, <1>6, <1>7

(* The producer's new connection is nobody's. *)
LEMMA ProduceMoves ==
  ASSUME TypeOK, Exclusive, Produce
  PROVE  \E h \in Handle \ Live :
           /\ queue' \in Seq(Handle) /\ queue' = Append(queue, h)
           /\ Injective(queue') /\ Elems(queue') = Elems(queue) \cup {h}
           /\ stamp' = [stamp EXCEPT ![h] = now]
<1>1. PICK h \in Handle \ Live :
        stamp' = [stamp EXCEPT ![h] = now] /\ queue' = Append(queue, h)
  BY DEF Produce
<1>2. h \notin Elems(queue) /\ queue \in Seq(Handle) /\ Injective(queue)
  BY DEF Live, TypeOK, Exclusive
<1>3. /\ queue' \in Seq(Handle) /\ Injective(queue')
      /\ Elems(queue') = Elems(queue) \cup {h}
  BY <1>1, <1>2, ElemsAppend
<1>4. QED BY <1>1, <1>3

(* A scan closes the first n, which are n connections. *)
LEMMA ScanMoves ==
  ASSUME TypeOK, Exclusive, scannerConnectionTask
  PROVE  \E n \in 0..Len(queue) :
           LET D == FirstOf(queue, n) IN
           /\ Expired(n) /\ cnt' = cnt - n
           /\ queue' \in Seq(Handle) /\ RestOf(queue, n, queue')
           /\ Injective(queue') /\ Elems(queue') = Elems(queue) \ D
           /\ D \subseteq Elems(queue) /\ IsFiniteSet(D) /\ Cardinality(D) = n
<1>1. PICK n \in 0..Len(queue) :
        /\ Expired(n) /\ cnt' = cnt - n
        /\ queue' = SubSeq(queue, n + 1, Len(queue))
  BY DEF scannerConnectionTask
<1>2. queue \in Seq(Handle) /\ Injective(queue)
  BY DEF TypeOK, Exclusive
<1>3. queue' \in Seq(Handle) /\ RestOf(queue, n, queue')
  BY <1>1, <1>2, SubSeqRest DEF RestOf
<1>4. LET D == FirstOf(queue, n) IN
      /\ Injective(queue') /\ Elems(queue') = Elems(queue) \ D
      /\ D \subseteq Elems(queue) /\ IsFiniteSet(D) /\ Cardinality(D) = n
  <2>1. \A r \in Seq(Handle) : RestOf(queue, n, r) =>
          LET D == FirstOf(queue, n) IN
          /\ Injective(r) /\ Elems(r) = Elems(queue) \ D
          /\ D \subseteq Elems(queue) /\ IsFiniteSet(D) /\ Cardinality(D) = n
    BY <1>2, ElemsCut
  <2>2. QED BY <2>1, <1>3
<1>5. QED BY <1>1, <1>3, <1>4

-----------------------------------------------------------------------------
(* Types, and one owner for every connection.                              *)

PoolInv == TypeOK /\ Exclusive

(* The constructor fills an empty pool. *)
LEMMA InitInv == Init => PoolInv
<1> SUFFICES ASSUME Init PROVE PoolInv
  OBVIOUS
<1>1. /\ queue \in Seq(Handle) /\ DOMAIN queue = 1..InitSize
      /\ Len(queue) = InitSize /\ Injective(queue)
  BY PoolAssumption DEF Init, Injective
<1>2. TypeOK
  <2>1. now \in Time /\ stamp \in [Handle -> Time]
    BY DEF Init, Time
  <2>2. QED BY <1>1, <2>1, PoolAssumption DEF Init, TypeOK
<1>3. \A w \in Worker : sp[w] = <<>> /\ Injective(sp[w]) /\ Elems(sp[w]) = {}
  BY DEF Init, Injective, Elems
<1>4. Live = FirstOf(queue, InitSize)
  BY <1>1, <1>3 DEF Live, Elems, FirstOf
<1>5. cnt = Cardinality(Live)
  <2>1. InitSize \in 0..Len(queue)
    BY <1>1, PoolAssumption
  <2>2. SubSeq(queue, InitSize + 1, Len(queue)) \in Seq(Handle)
    BY <1>1, <2>1, SubSeqRest
  <2>3. RestOf(queue, InitSize, SubSeq(queue, InitSize + 1, Len(queue)))
    BY <1>1, <2>1, SubSeqRest DEF RestOf
  <2>4. Cardinality(FirstOf(queue, InitSize)) = InitSize
    <3> DEFINE r == SubSeq(queue, InitSize + 1, Len(queue))
    <3>1. r \in Seq(Handle) /\ RestOf(queue, InitSize, r)
      BY <2>2, <2>3
    <3> HIDE DEF r
    <3>2. QED BY <3>1, <2>1, <1>1, ElemsCut
  <2>5. QED BY <2>4, <1>4 DEF Init
<1>6. QED BY <1>1, <1>2, <1>3, <1>5 DEF PoolInv, Exclusive

(* Steps that leave the connections where they are. *)
LEMMA RestKeeps ==
  ASSUME PoolInv, UNCHANGED <<queue, cnt, sp>>
  PROVE  Exclusive'
BY DEF PoolInv, Exclusive, Live

(* A take moves a connection from the queue to its borrower. *)
LEMMA TakeKeeps ==
  ASSUME PoolInv, NEW w \in Worker, Take(w)
  PROVE  Exclusive'
<1> DEFINE h == Head(queue)
<1>1. TypeOK /\ Exclusive /\ cnt' = cnt
  BY DEF PoolInv, Take
<1>2. /\ h \in Elems(queue)
      /\ Injective(queue') /\ Elems(queue') = Elems(queue) \ {h}
      /\ Injective(sp'[w]) /\ Elems(sp'[w]) = Elems(sp[w]) \cup {h}
      /\ \A v \in Worker \ {w} : sp'[v] = sp[v]
  BY <1>1, TakeMoves
<1> HIDE DEF h
<1>3. Live' = Live
  BY <1>2 DEF Live
<1>4. \A v \in Worker :
        Injective(sp'[v]) /\ Elems(sp'[v]) \cap Elems(queue') = {}
  BY <1>1, <1>2 DEF Exclusive
<1>5. \A v, u \in Worker : u # v => Elems(sp'[u]) \cap Elems(sp'[v]) = {}
  BY <1>1, <1>2 DEF Exclusive
<1>6. QED BY <1>1, <1>2, <1>3, <1>4, <1>5 DEF Exclusive

(* A release moves it back. *)
LEMMA ReleaseKeeps ==
  ASSUME PoolInv, NEW w \in Worker, Release(w)
  PROVE  Exclusive'
<1> DEFINE h == sp[w][Len(sp[w])]
<1>1. TypeOK /\ Exclusive /\ cnt' = cnt
  BY DEF PoolInv, Release
<1>2. /\ h \in Elems(sp[w])
      /\ Injective(queue') /\ Elems(queue') = Elems(queue) \cup {h}
      /\ Injective(sp'[w]) /\ Elems(sp'[w]) = Elems(sp[w]) \ {h}
      /\ \A v \in Worker \ {w} : sp'[v] = sp[v]
  BY <1>1, ReleaseMoves
<1> HIDE DEF h
<1>3. Live' = Live
  BY <1>2 DEF Live
<1>4. \A v \in Worker :
        Injective(sp'[v]) /\ Elems(sp'[v]) \cap Elems(queue') = {}
  BY <1>1, <1>2 DEF Exclusive
<1>5. \A v, u \in Worker : u # v => Elems(sp'[u]) \cap Elems(sp'[v]) = {}
  BY <1>1, <1>2 DEF Exclusive
<1>6. QED BY <1>1, <1>2, <1>3, <1>4, <1>5 DEF Exclusive

(* The producer adds a connection nobody has. *)
LEMMA ProduceKeeps ==
  ASSUME PoolInv, Produce, UNCHANGED sp
  PROVE  Exclusive'
<1>1. TypeOK /\ Exclusive /\ cnt' = cnt + 1
  BY DEF PoolInv, Produce
<1>2. PICK h \in Handle \ Live :
        Injective(queue') /\ Elems(queue') = Elems(queue) \cup {h}
  BY <1>1, ProduceMoves
<1>3. Live' = Live \cup {h}
  BY <1>2 DEF Live
<1>4. IsFiniteSet(Live)
  BY <1>1, LiveFinite
<1>5. Cardinality(Live \cup {h}) = Cardinality(Live) + 1
  BY <1>2, <1>4, FS_AddElement
<1>6. cnt' = Cardinality(Live')
  BY <1>1, <1>3, <1>5 DEF Exclusive
<1>7. \A v \in Worker : h \notin Elems(sp[v])
  BY <1>2 DEF Live
<1>8. QED BY <1>1, <1>2, <1>6, <1>7 DEF Exclusive

(* The scanner closes connections of the queue only. *)
LEMMA ScanKeeps ==
  ASSUME PoolInv, scannerConnectionTask
  PROVE  Exclusive'
<1>1. TypeOK /\ Exclusive /\ sp' = sp
  BY DEF PoolInv, scannerConnectionTask
<1>2. PICK n \in 0..Len(queue) :
        LET D == FirstOf(queue, n) IN
        /\ cnt' = cnt - n
        /\ Injective(queue') /\ Elems(queue') = Elems(queue) \ D
        /\ D \subseteq Elems(queue) /\ IsFiniteSet(D) /\ Cardinality(D) = n
  BY <1>1, ScanMoves
<1> DEFINE D == FirstOf(queue, n)
<1>3. /\ cnt' = cnt - n
      /\ Injective(queue') /\ Elems(queue') = Elems(queue) \ D
      /\ D \subseteq Elems(queue) /\ IsFiniteSet(D) /\ Cardinality(D) = n
  BY <1>2
<1> HIDE DEF D
<1>4. Live' = Live \ D /\ D \subseteq Live
  BY <1>1, <1>3 DEF Live, Exclusive
<1>5. IsFiniteSet(Live)
  BY <1>1, LiveFinite
<1>6. Cardinality(Live \ D) = Cardinality(Live) - Cardinality(D)
  <2>1. Live \cap D = D
    BY <1>4
  <2>2. QED BY <2>1, <1>3, <1>5, FS_Difference
<1>7. cnt' = Cardinality(Live')
  BY <1>1, <1>3, <1>4, <1>6 DEF Exclusive
<1>8. QED BY <1>1, <1>3, <1>7 DEF Exclusive

(* Types. *)
LEMMA WorkerTypes ==
  ASSUME PoolInv, NEW w \in Worker,
         Call(w) \/ GetStep(w) \/ Timeout(w) \/ Release(w)
  PROVE  TypeOK'
<1>1. TypeOK /\ Exclusive
  BY DEF PoolInv
<1>2. CASE Take(w)
  <2>1. queue' \in Seq(Handle) /\ sp' \in [Worker -> Seq(Handle)]
    BY <1>1, <1>2, TakeMoves
  <2>2. QED BY <1>1, <1>2, <2>1 DEF TypeOK, Take, Awake
<1>3. CASE Wait(w) \/ TimedOut(w) \/ Call(w)
  BY <1>1, <1>3 DEF TypeOK, Wait, TimedOut, Call
<1>4. CASE Release(w)
  <2>1. /\ queue' \in Seq(Handle) /\ sp' \in [Worker -> Seq(Handle)]
        /\ sp[w][Len(sp[w])] \in Handle
    BY <1>1, <1>4, ReleaseMoves
  <2>2. stamp' \in [Handle -> Time]
    BY <1>1, <1>4, <2>1 DEF TypeOK, Release
  <2>3. QED BY <1>1, <1>4, <2>1, <2>2 DEF TypeOK, Release
<1>5. QED
  BY <1>2, <1>3, <1>4 DEF GetStep, getConnection, Resume, Timeout

(* Neither clock goes back. *)
LEMMA TickAdvances ==
  ASSUME TypeOK, Tick
  PROVE  now' \in Time /\ Before(now, now')
<1>1. PICK k \in CpuCost : now' = [wall |-> now.wall + 1, cpu |-> now.cpu + k]
  BY DEF Tick
<1>2. k \in Nat /\ now \in Time
  BY PoolAssumption DEF TypeOK
<1>3. QED BY <1>1, <1>2 DEF Time, Before

(* The steps of the pool's own threads keep the types. *)
LEMMA ThreadTypes ==
  ASSUME PoolInv, produceConnectionTask \/ scannerConnectionTask \/ Tick
  PROVE  TypeOK'
<1>1. TypeOK /\ Exclusive /\ InitSize \in Nat /\ MaxSize \in Nat
  BY PoolAssumption DEF PoolInv
<1>2. CASE produceConnectionTask /\ Produce
  <2>1. PICK h \in Handle :
          /\ queue' \in Seq(Handle)
          /\ stamp' = [stamp EXCEPT ![h] = now]
    BY <1>1, <1>2, ProduceMoves
  <2>2. cnt' \in 0..MaxSize /\ stamp' \in [Handle -> Time]
    BY <1>1, <1>2, <2>1 DEF TypeOK, Produce
  <2>3. QED BY <1>1, <1>2, <2>1, <2>2
        DEF TypeOK, Produce, produceConnectionTask, Awake
<1>3. CASE produceConnectionTask /\ (ProducerWaits \/ ProducerSpins)
  BY <1>1, <1>3
  DEF TypeOK, ProducerWaits, ProducerSpins, produceConnectionTask, Awake
<1>4. CASE scannerConnectionTask
  <2>1. PICK n \in 0..Len(queue) :
          Expired(n) /\ cnt' = cnt - n /\ queue' \in Seq(Handle)
    BY <1>1, <1>4, ScanMoves
  <2>2. n \in Nat /\ n <= cnt - InitSize
    BY <1>1, <2>1, LenProperties DEF Expired, TypeOK
  <2>3. cnt' \in 0..MaxSize
    BY <1>1, <2>1, <2>2 DEF TypeOK
  <2>4. QED BY <1>1, <1>4, <2>1, <2>3 DEF TypeOK, scannerConnectionTask
<1>5. CASE Tick
  <2>1. now' \in Time /\ UNCHANGED <<queue, cnt, stamp, prod, pc, sp, proc>>
    BY <1>1, <1>5, TickAdvances DEF Tick
  <2>2. QED BY <1>1, <2>1 DEF TypeOK
<1>6. QED BY <1>2, <1>3, <1>4, <1>5 DEF produceConnectionTask

(* Every step keeps the types and the exclusive use. *)
LEMMA NextInv == PoolInv /\ [Next]_vars => PoolInv'
<1> SUFFICES ASSUME PoolInv, [Next]_vars PROVE PoolInv'
  OBVIOUS
<1>1. ASSUME NEW w \in Worker,
             Call(w) \/ GetStep(w) \/ Timeout(w) \/ Release(w)
      PROVE  PoolInv'
  <2>1. TypeOK'
    BY <1>1, WorkerTypes
  <2>2. CASE Take(w)
    BY <2>1, <2>2, TakeKeeps DEF PoolInv
  <2>3. CASE Release(w)
    BY <2>1, <2>3, ReleaseKeeps DEF PoolInv
  <2>4. CASE Wait(w) \/ TimedOut(w) \/ Call(w)
    <3>1. UNCHANGED <<queue, cnt, sp>>
      BY <2>4 DEF Wait, TimedOut, Call
    <3>2. QED BY <2>1, <3>1, RestKeeps DEF PoolInv
  <2>5. QED
    BY <1>1, <2>2, <2>3, <2>4 DEF GetStep, getConnection, Resume, Timeout
<1>2. CASE produceConnectionTask
  <2>1. TypeOK' /\ UNCHANGED sp
    BY <1>2, ThreadTypes DEF produceConnectionTask
  <2>2. CASE Produce
    BY <2>1, <2>2, ProduceKeeps DEF PoolInv
  <2>3. CASE ProducerWaits \/ ProducerSpins
    <3>1. UNCHANGED <<queue, cnt, sp>>
      BY <2>1, <2>3 DEF ProducerWaits, ProducerSpins
    <3>2. QED BY <2>1, <3>1, RestKeeps DEF PoolInv
  <2>4. QED BY <1>2, <2>2, <2>3 DEF produceConnectionTask
<1>3. CASE scannerConnectionTask
  BY <1>3, ThreadTypes, ScanKeeps DEF PoolInv
<1>4. CASE Tick
  <2>1. UNCHANGED <<queue, cnt, sp>>
    BY <1>4 DEF Tick
  <2>2. QED BY <1>4, <2>1, ThreadTypes, RestKeeps DEF PoolInv
<1>5. CASE UNCHANGED vars
  BY <1>5 DEF vars, PoolInv, TypeOK, Exclusive, Live
<1>6. QED BY <1>1, <1>2, <1>3, <1>4, <1>5 DEF Next

(* The pool's variables have their types: _connectionCnt stays in its      *)
(* range and only Connection objects are in the queue or in use.           *)
THEOREM PoolTypes == Spec => []TypeOK
<1>1. PoolInv => TypeOK
  BY DEF PoolInv
<1>2. QED BY InitInv, NextInv, <1>1, PTL DEF Spec

(* No two threads ever use one connection, a connection in use is not in   *)
(* the queue, and _connectionCnt counts the connections that exist.        *)
THEOREM PoolExclusive == Spec => []Exclusive
<1>1. PoolInv => Exclusive
  BY DEF PoolInv
<1>2. QED BY InitInv, NextInv, <1>1, PTL DEF Spec

-----------------------------------------------------------------------------
(* The order of the queue.                                                 *)

AgeInv == PoolInv /\ QueueByAge

(* What is appended last was used last. *)
LEMMA AppendByAge ==
  ASSUME PoolInv, QueueByAge, NEW h \in Handle, h \notin Elems(queue),
         queue' = Append(queue, h), stamp' = [stamp EXCEPT ![h] = now],
         now' = now
  PROVE  QueueByAge'
<1>1. /\ queue \in Seq(Handle) /\ stamp \in [Handle -> Time] /\ now \in Time
      /\ DOMAIN queue = 1..Len(queue) /\ Len(queue) \in Nat
  BY LenProperties DEF PoolInv, TypeOK
<1>2. /\ DOMAIN queue' = 1..(Len(queue) + 1) /\ queue'[Len(queue) + 1] = h
      /\ \A i \in 1..Len(queue) : queue'[i] = queue[i]
  BY <1>1, AppendProperties
<1>3. \A i \in 1..Len(queue) :
        queue[i] \in Handle /\ queue[i] # h /\ stamp[queue[i]] \in Time
  BY <1>1 DEF Elems
<1>4. /\ stamp'[h] = now
      /\ \A i \in 1..Len(queue) : stamp'[queue'[i]] = stamp[queue[i]]
  BY <1>1, <1>2, <1>3
<1>5. \A i \in DOMAIN queue' : Before(stamp'[queue'[i]], now)
  <2>1. Before(now, now)
    BY <1>1 DEF Before, Time
  <2>2. QED BY <1>1, <1>2, <1>4, <2>1 DEF QueueByAge
<1>6. ASSUME NEW i \in DOMAIN queue', NEW j \in DOMAIN queue', i < j
      PROVE  Before(stamp'[queue'[i]], stamp'[queue'[j]])
  <2>1. i \in 1..Len(queue)
    BY <1>1, <1>2, <1>6
  <2>2. CASE j = Len(queue) + 1
    BY <2>2, <1>2, <1>4, <1>5
  <2>3. CASE j \in 1..Len(queue)
    BY <2>1, <2>3, <1>1, <1>4, <1>6 DEF QueueByAge
  <2>4. QED BY <2>2, <2>3, <1>1, <1>2
<1>7. QED BY <1>5, <1>6 DEF QueueByAge

(* What is left when the first ones go keeps its order. *)
LEMMA CutByAge ==
  ASSUME PoolInv, QueueByAge, NEW n \in 0..Len(queue),
         queue' \in Seq(Handle), RestOf(queue, n, queue'),
         UNCHANGED <<stamp, now>>
  PROVE  QueueByAge'
<1>1. /\ DOMAIN queue = 1..Len(queue) /\ Len(queue) \in Nat /\ n \in Nat
      /\ DOMAIN queue' = 1..(Len(queue) - n)
      /\ \A i \in 1..(Len(queue) - n) : queue'[i] = queue[n + i]
  BY LenProperties DEF PoolInv, TypeOK, RestOf
<1>2. \A i \in DOMAIN queue' :
        n + i \in DOMAIN queue /\ stamp'[queue'[i]] = stamp[queue[n + i]]
  BY <1>1
<1>3. \A i, j \in DOMAIN queue' : i < j => n + i < n + j
  BY <1>1
<1>4. QED BY <1>2, <1>3 DEF QueueByAge

(* Every step keeps the queue ordered by age. *)
LEMMA NextByAge == AgeInv /\ [Next]_vars => QueueByAge'
<1> SUFFICES ASSUME AgeInv, [Next]_vars PROVE QueueByAge'
  OBVIOUS
<1>1. PoolInv /\ TypeOK /\ Exclusive /\ QueueByAge
  BY DEF AgeInv, PoolInv
<1>2. ASSUME NEW w \in Worker, Take(w) PROVE QueueByAge'
  <2>1. /\ queue \in Seq(Handle) /\ queue # <<>> /\ queue' = Tail(queue)
        /\ UNCHANGED <<stamp, now>>
    BY <1>1, <1>2 DEF TypeOK, Take
  <2>2. 1 \in 0..Len(queue) /\ Tail(queue) \in Seq(Handle)
    BY <2>1, EmptySeq, LenProperties
  <2>3. RestOf(queue, 1, Tail(queue))
    BY <2>1 DEF RestOf
  <2>4. QED BY <1>1, <2>1, <2>2, <2>3, CutByAge
<1>3. ASSUME NEW w \in Worker, Release(w) PROVE QueueByAge'
  <2>1. PICK h \in Handle :
          /\ queue' = Append(queue, h) /\ h \notin Elems(queue)
          /\ stamp' = [stamp EXCEPT ![h] = now]
    BY <1>1, <1>3, ReleaseMoves
  <2>2. now' = now
    BY <1>3 DEF Release
  <2>3. QED BY <1>1, <2>1, <2>2, AppendByAge
<1>4. CASE produceConnectionTask
  <2>1. CASE Produce
    <3>1. PICK h \in Handle \ Live :
            queue' = Append(queue, h) /\ stamp' = [stamp EXCEPT ![h] = now]
      BY <2>1 DEF Produce
    <3>2. h \notin Elems(queue) /\ now' = now
      BY <1>4 DEF Live, produceConnectionTask
    <3>3. QED BY <1>1, <3>1, <3>2, AppendByAge
  <2>2. CASE ProducerWaits \/ ProducerSpins
    BY <1>1, <1>4, <2>2
    DEF produceConnectionTask, ProducerWaits, ProducerSpins, QueueByAge
  <2>3. QED BY <1>4, <2>1, <2>2 DEF produceConnectionTask
<1>5. CASE scannerConnectionTask
  <2>1. PICK n \in 0..Len(queue) :
          queue' \in Seq(Handle) /\ RestOf(queue, n, queue')
    BY <1>1, <1>5, ScanMoves
  <2>2. UNCHANGED <<stamp, now>>
    BY <1>5 DEF scannerConnectionTask
  <2>3. QED BY <1>1, <2>1, <2>2, CutByAge
<1>6. CASE Tick
  <2>1. /\ queue' = queue /\ stamp' = stamp /\ now \in Time
        /\ now' \in Time /\ Before(now, now')
    BY <1>1, <1>6, TickAdvances DEF TypeOK, Tick
  <2>2. \A i \in DOMAIN queue : stamp[queue[i]] \in Time
    BY <1>1 DEF TypeOK
  <2>3. \A i \in DOMAIN queue : Before(stamp[queue[i]], now')
    BY <1>1, <2>1, <2>2 DEF QueueByAge, Before, Time
  <2>4. QED BY <1>1, <2>1, <2>3 DEF QueueByAge
<1>7. CASE UNCHANGED <<queue, stamp, now>>
  BY <1>1, <1>7 DEF QueueByAge
<1>8. ASSUME NEW w \in Worker, Call(w) \/ Wait(w) \/ TimedOut(w)
      PROVE  UNCHANGED <<queue, stamp, now>>
  BY <1>8 DEF Call, Wait, TimedOut
<1>9. QED
  BY <1>2, <1>3, <1>4, <1>5, <1>6, <1>7, <1>8
  DEF Next, vars, GetStep, getConnection, Resume, Timeout

(* The order by age holds in the beginning, *)
LEMMA InitAge == Init => AgeInv
<1>1. ASSUME Init PROVE QueueByAge
  <2>1. \A i \in DOMAIN queue : stamp[queue[i]] = now
    BY <1>1, PoolAssumption DEF Init
  <2>2. Before(now, now)
    BY <1>1 DEF Init, Before
  <2>3. QED BY <2>1, <2>2 DEF QueueByAge
<1>2. QED BY <1>1, InitInv DEF AgeInv

(* and every step keeps it with what it rests on. *)
LEMMA NextAge == AgeInv /\ [Next]_vars => AgeInv'
BY NextInv, NextByAge DEF AgeInv

(* The queue is ordered by the time of the last use, by either clock and   *)
(* whatever threads take and give back: the scanner can stop at the first  *)
(* connection whose ticks are few.                                         *)
THEOREM PoolByAge == Spec => []QueueByAge
<1>1. AgeInv => QueueByAge
  BY DEF AgeInv
<1>2. QED BY InitAge, NextAge, <1>1, PTL DEF Spec

(* One scan. *)
LEMMA ScanLeavesYoung ==
  ASSUME AgeInv, scannerConnectionTask
  PROVE  cnt' = InitSize \/ \A i \in DOMAIN queue' : ~Aged(queue'[i])
<1>1. /\ TypeOK /\ Exclusive /\ QueueByAge
      /\ InitSize \in Nat /\ MaxIdle \in Nat
  BY PoolAssumption DEF AgeInv, PoolInv
<1>2. PICK n \in 0..Len(queue) :
        /\ Expired(n) /\ cnt' = cnt - n
        /\ queue' \in Seq(Handle) /\ RestOf(queue, n, queue')
  BY <1>1, ScanMoves
<1>3. /\ DOMAIN queue = 1..Len(queue) /\ Len(queue) \in Nat /\ n \in Nat
      /\ DOMAIN queue' = 1..(Len(queue) - n)
      /\ \A i \in 1..(Len(queue) - n) : queue'[i] = queue[n + i]
  BY <1>1, <1>2, LenProperties DEF TypeOK, RestOf
<1>4. CASE n = cnt - InitSize
  BY <1>1, <1>2, <1>4 DEF TypeOK
<1>5. CASE n = Len(queue)
  BY <1>3, <1>5
<1>6. CASE n < Len(queue) /\ n < cnt - InitSize
  <2>1. ~Aged(queue[n + 1])
    BY <1>2, <1>6 DEF Expired
  <2>2. ASSUME NEW i \in DOMAIN queue' PROVE ~Aged(queue'[i])
    <3>1. /\ n + 1 \in DOMAIN queue /\ n + i \in DOMAIN queue
          /\ n + 1 = n + i \/ n + 1 < n + i
          /\ queue'[i] = queue[n + i]
      BY <1>3, <1>6
    <3>2. \A k \in DOMAIN queue : stamp[queue[k]].cpu \in Nat
      BY <1>1 DEF TypeOK, Time
    <3>3. stamp[queue[n + 1]].cpu <= stamp[queue[n + i]].cpu
      BY <1>1, <3>1, <3>2 DEF QueueByAge, Before
    <3>4. /\ stamp[queue[n + 1]].cpu \in Nat
          /\ stamp[queue[n + i]].cpu \in Nat
      BY <3>1, <3>2
    <3>5. now.cpu \in Nat
      BY <1>1 DEF TypeOK, Time
    <3>6. QED BY <1>1, <2>1, <3>1, <3>3, <3>4, <3>5 DEF Aged
  <2>3. QED BY <2>2
<1>7. /\ n \in Nat /\ Len(queue) \in Nat /\ cnt \in Nat /\ InitSize \in Nat
      /\ n <= Len(queue) /\ n <= cnt - InitSize
  BY <1>1, <1>2, <1>3 DEF Expired, TypeOK
<1>8. \/ n = cnt - InitSize \/ n = Len(queue)
      \/ n < Len(queue) /\ n < cnt - InitSize
  BY <1>7
<1>9. QED BY <1>4, <1>5, <1>6, <1>8

(* Only a scan closes connections. *)
LEMMA OthersCloseNone ==
  ASSUME PoolInv, [Next]_vars, ~scannerConnectionTask
  PROVE  cnt' = cnt \/ cnt' = cnt + 1
<1>1. CASE produceConnectionTask
  BY <1>1 DEF produceConnectionTask, Produce, ProducerWaits, ProducerSpins
<1>2. ASSUME NEW w \in Worker,
             Call(w) \/ Take(w) \/ Wait(w) \/ TimedOut(w) \/ Release(w)
      PROVE  cnt' = cnt
  BY <1>2 DEF Call, Take, Wait, TimedOut, Release
<1>3. CASE Tick \/ UNCHANGED vars
  BY <1>3 DEF Tick, vars
<1>4. QED
  BY <1>1, <1>2, <1>3 DEF Next, GetStep, getConnection, Resume, Timeout

(* A scan that closes connections leaves none in the queue that it would   *)
(* have closed, had it looked at them, unless it came down to _initSize.   *)
(* Measured in ticks of clock(), as the code does; this needs the queue's  *)
(* order.                                                                  *)
THEOREM PoolScanned == Spec => ScanComplete
<1> DEFINE Young == \A i \in DOMAIN queue' : ~Aged(queue'[i])
<1>1. AgeInv /\ [Next]_vars => [cnt' < cnt => cnt' = InitSize \/ Young]_vars
  <2> SUFFICES ASSUME AgeInv, [Next]_vars, cnt' < cnt
               PROVE  cnt' = InitSize \/ Young
    OBVIOUS
  <2>1. cnt \in Nat /\ PoolInv
    BY DEF AgeInv, PoolInv, TypeOK
  <2>2. CASE scannerConnectionTask
    BY <2>2, ScanLeavesYoung
  <2>3. CASE ~scannerConnectionTask
    BY <2>1, <2>3, OthersCloseNone
  <2>4. QED BY <2>2, <2>3
<1>2. Spec => []AgeInv
  BY InitAge, NextAge, PTL DEF Spec
<1>3. QED BY <1>1, <1>2, PTL DEF Spec, ScanComplete

-----------------------------------------------------------------------------
(* The pool implements ResourcePool.                                       *)

(* The instance has its own copy of FiniteSets. *)
LEMMA SameCardinality == \A S : Pool!Cardinality(S) = Cardinality(S)
BY DEF Pool!Cardinality, Cardinality

(* A full pool of the code is one of ResourcePool. *)
LEMMA InitRefines == Init => Pool!PoolInit
<1> SUFFICES ASSUME Init PROVE Pool!PoolInit
  OBVIOUS
<1>1. PoolInv
  BY InitInv
<1>2. Elems(queue) \subseteq Handle
  BY <1>1, LiveFinite DEF PoolInv, Live
<1>3. \A w \in Worker : Elems(sp[w]) = {}
  BY DEF Init, Elems
<1>4. Cardinality(Elems(queue)) = InitSize
  <2>1. Live = Elems(queue)
    BY <1>3 DEF Live
  <2>2. QED BY <1>1, <2>1 DEF PoolInv, Exclusive, Init
<1>5. [w \in Worker |-> Elems(sp[w])] = [w \in Worker |-> {}]
  BY <1>3
<1>6. Elems(queue) \in SUBSET Handle
  BY <1>2
<1>7. QED BY <1>4, <1>5, <1>6, SameCardinality DEF Pool!PoolInit

(* Both count the same connections. *)
LEMMA TotalIsLive == Pool!Total = Live
BY DEF Pool!Total, Live

(* A take is an Acquire of ResourcePool, *)
LEMMA TakeRefines ==
  ASSUME PoolInv, NEW w \in Worker, Take(w)
  PROVE  Pool!Acquire(w)
<1> DEFINE h == Head(queue)
<1>1. /\ h \in Elems(queue)
      /\ Elems(queue') = Elems(queue) \ {h}
      /\ Elems(sp'[w]) = Elems(sp[w]) \cup {h}
      /\ \A v \in Worker \ {w} : sp'[v] = sp[v]
  BY TakeMoves DEF PoolInv
<1> HIDE DEF h
<1>2. [v \in Worker |-> Elems(sp'[v])]
        = [[v \in Worker |-> Elems(sp[v])] EXCEPT ![w] = @ \cup {h}]
  BY <1>1
<1>3. QED BY <1>1, <1>2 DEF Pool!Acquire

(* a release its Release, *)
LEMMA ReleaseRefines ==
  ASSUME PoolInv, NEW w \in Worker, Release(w)
  PROVE  Pool!Release(w)
<1> DEFINE h == sp[w][Len(sp[w])]
<1>1. /\ h \in Elems(sp[w])
      /\ Elems(queue') = Elems(queue) \cup {h}
      /\ Elems(sp'[w]) = Elems(sp[w]) \ {h}
      /\ \A v \in Worker \ {w} : sp'[v] = sp[v]
  BY ReleaseMoves DEF PoolInv
<1> HIDE DEF h
<1>2. [v \in Worker |-> Elems(sp'[v])]
        = [[v \in Worker |-> Elems(sp[v])] EXCEPT ![w] = @ \ {h}]
  BY <1>1
<1>3. QED BY <1>1, <1>2 DEF Pool!Release

(* a step of the producer its Create, *)
LEMMA ProduceRefines ==
  ASSUME PoolInv, Produce, UNCHANGED sp
  PROVE  Pool!Create
<1>1. PICK h \in Handle \ Live : Elems(queue') = Elems(queue) \cup {h}
  BY ProduceMoves DEF PoolInv
<1>2. Cardinality(Live) < MaxSize
  BY DEF PoolInv, Exclusive, Produce
<1>3. [w \in Worker |-> Elems(sp'[w])] = [w \in Worker |-> Elems(sp[w])]
  OBVIOUS
<1>4. QED BY <1>1, <1>2, <1>3, TotalIsLive, SameCardinality DEF Pool!Create

(* and a scan its Destroy. *)
LEMMA ScanRefines ==
  ASSUME PoolInv, scannerConnectionTask
  PROVE  Pool!Destroy
<1>1. TypeOK /\ Exclusive /\ sp' = sp /\ Exclusive'
  BY ScanKeeps DEF PoolInv, scannerConnectionTask
<1>2. PICK n \in 0..Len(queue) :
        LET D == FirstOf(queue, n) IN
        /\ Expired(n) /\ cnt' = cnt - n
        /\ Elems(queue') = Elems(queue) \ D
        /\ D \subseteq Elems(queue)
  BY <1>1, ScanMoves
<1> DEFINE D == FirstOf(queue, n)
<1>3. /\ Elems(queue') = Elems(queue) \ D /\ D \subseteq Elems(queue)
      /\ cnt' = cnt - n /\ n <= cnt - InitSize /\ n \in Nat
  BY <1>1, <1>2, LenProperties DEF Expired, TypeOK
<1> HIDE DEF D
<1>4. Live \ D = Live'
  BY <1>1, <1>3 DEF Live, Exclusive
<1>5. Cardinality(Live \ D) >= InitSize
  <2>1. cnt' >= InitSize
    BY <1>1, <1>3, PoolAssumption DEF TypeOK
  <2>2. cnt' = Cardinality(Live')
    BY <1>1 DEF Exclusive
  <2>3. QED BY <2>1, <2>2, <1>4
<1>6. [w \in Worker |-> Elems(sp'[w])] = [w \in Worker |-> Elems(sp[w])]
  BY <1>1
<1>7. QED BY <1>3, <1>5, <1>6, TotalIsLive, SameCardinality DEF Pool!Destroy

(* So every step is one of ResourcePool or changes nothing of it. *)
LEMMA NextRefines == PoolInv /\ [Next]_vars => [Pool!PoolNext]_(Pool!poolVars)
<1> SUFFICES ASSUME PoolInv, [Next]_vars
             PROVE  Pool!PoolNext \/ UNCHANGED <<queue, sp>>
  BY DEF Pool!poolVars
<1>1. ASSUME NEW w \in Worker, Take(w) PROVE Pool!PoolNext
  BY <1>1, TakeRefines DEF Pool!PoolNext
<1>2. ASSUME NEW w \in Worker, Release(w) PROVE Pool!PoolNext
  BY <1>2, ReleaseRefines DEF Pool!PoolNext
<1>3. CASE produceConnectionTask
  <2>1. CASE Produce
    BY <1>3, <2>1, ProduceRefines DEF produceConnectionTask, Pool!PoolNext
  <2>2. CASE ProducerWaits \/ ProducerSpins
    BY <1>3, <2>2 DEF produceConnectionTask, ProducerWaits, ProducerSpins
  <2>3. QED BY <1>3, <2>1, <2>2 DEF produceConnectionTask
<1>4. CASE scannerConnectionTask
  BY <1>4, ScanRefines DEF Pool!PoolNext
<1>5. CASE Tick \/ UNCHANGED vars
  BY <1>5 DEF Tick, vars
<1>6. ASSUME NEW w \in Worker, Call(w) \/ Wait(w) \/ TimedOut(w)
      PROVE  UNCHANGED <<queue, sp>>
  BY <1>6 DEF Call, Wait, TimedOut
<1>7. QED
  BY <1>1, <1>2, <1>3, <1>4, <1>5, <1>6
  DEF Next, GetStep, getConnection, Resume, Timeout

(* Seen through the sets of idle and used connections, queue, threads and  *)
(* condition variable do only what ResourcePool allows.                    *)
THEOREM PoolImplements == Spec => PoolRefined
<1>1. Spec => []PoolInv
  BY InitInv, NextInv, PTL DEF Spec
<1>2. QED
  BY <1>1, InitRefines, NextRefines, PTL DEF Spec, PoolRefined, Pool!PoolSpec
=============================================================================
