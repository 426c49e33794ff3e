------------------------ MODULE WorkerStartupProofs ------------------------
(* Theorems about WorkerStartup, for any number of workers.                *)
EXTENDS WorkerStartup, TLAPS

USE CountAssumption, WildAssumption DEF Workers

\* Every reachable state has its type, and thrags room for what is in it.
THEOREM TypeCorrect == Spec => []TypeOK
<1>1. Init => TypeOK
  <2> SUFFICES ASSUME Init PROVE TypeOK
    OBVIOUS
  <2>1. i = 0 /\ 0 \in 0 .. threads_cnt /\ 0 .. i - 1 = {}
    BY DEF Init
  <2>2. pushed = FALSE /\ capacity = 0 /\ block = 0 /\ started = {} /\ failed = {} /\ late = {}
    BY DEF Init
  <2>3. arg \in [Workers -> Nat] /\ \A w \in Workers : arg[w] <= block
    BY DEF Init
  <2>4. /\ index \in [Workers -> Workers \cup {-1, Wild}]
        /\ ctx \in [Workers -> {"unread", "right", "wild"}]
    BY DEF Init
  <2>5. started \cup failed = 0 .. i - 1 /\ started \cap failed = {} /\ late \subseteq started
    BY <2>1, <2>2
  <2>6. i \in 0 .. threads_cnt /\ capacity \in Nat /\ block \in Nat /\ i <= capacity
    BY <2>1, <2>2
  <2>7. pushed \in BOOLEAN /\ ~pushed
    BY <2>2
  <2> QED BY <2>3, <2>4, <2>5, <2>6, <2>7 DEF TypeOK
<1>2. TypeOK /\ [Next]_vars => TypeOK'
  <2> SUFFICES ASSUME TypeOK, [Next]_vars PROVE TypeOK'
    OBVIOUS
  <2>1. CASE push_back
    <3>1. /\ i' = i /\ pushed' = TRUE /\ i < threads_cnt
          /\ UNCHANGED <<started, failed, arg, index, ctx, late>>
      BY <2>1 DEF push_back
    <3>2. capacity' \in Nat /\ i < capacity' /\ block' \in Nat /\ block <= block'
      BY <2>1 DEF push_back, TypeOK
    <3> QED BY <3>1, <3>2 DEF TypeOK
  <2>2. CASE pthread_create
    <3>1. /\ i \in Workers /\ i' = i + 1 /\ i' <= capacity /\ pushed' = FALSE
          /\ UNCHANGED <<capacity, block, index, ctx, late>>
      BY <2>2 DEF pthread_create, TypeOK
    <3>2. /\ started' \cup failed' = 0 .. i' - 1 /\ started' \cap failed' = {}
          /\ started \subseteq started'
      BY <2>2, <3>1 DEF pthread_create, TypeOK
    <3>3. arg' \in [Workers -> Nat] /\ \A w \in Workers : arg'[w] <= block'
      BY <2>2, <3>1 DEF pthread_create, TypeOK
    <3>4. i' \in 0 .. threads_cnt /\ late' \subseteq started'
      BY <3>1, <3>2 DEF TypeOK
    <3> QED BY <3>1, <3>2, <3>3, <3>4 DEF TypeOK
  <2>3. ASSUME NEW w \in Workers, ReadIndex(w) \/ ReadCtx(w) PROVE TypeOK'
    <3>1. w \in started /\ UNCHANGED <<i, pushed, capacity, block, started, failed, arg>>
      BY <2>3 DEF ReadIndex, ReadCtx
    <3>2. late' \in {late, late \cup {w}} /\ late' \subseteq started'
      BY <2>3, <3>1 DEF ReadIndex, ReadCtx, TypeOK
    <3>3. CASE ReadIndex(w)
      <4>1. PICK x \in Workers \cup {Wild} : index' = [index EXCEPT ![w] = x]
        BY <3>3 DEF ReadIndex
      <4>2. index' \in [Workers -> Workers \cup {-1, Wild}] /\ ctx' = ctx
        BY <3>3, <4>1 DEF ReadIndex, TypeOK
      <4> QED BY <3>1, <3>2, <4>2 DEF TypeOK
    <3>4. CASE ReadCtx(w)
      <4>1. PICK x \in {"right", "wild"} : ctx' = [ctx EXCEPT ![w] = x]
        BY <3>4 DEF ReadCtx
      <4>2. ctx' \in [Workers -> {"unread", "right", "wild"}] /\ index' = index
        BY <3>4, <4>1 DEF ReadCtx, TypeOK
      <4> QED BY <3>1, <3>2, <4>2 DEF TypeOK
    <3> QED BY <2>3, <3>3, <3>4
  <2>4. CASE Finished \/ UNCHANGED vars
    BY <2>4 DEF Finished, vars, TypeOK
  <2> QED BY <2>1, <2>2, <2>3, <2>4 DEF Next
<1> QED BY <1>1, <1>2, PTL DEF Spec

\* What a worker has read in time is its own.
OnTime == \A w \in started \ late : index[w] \in {-1, w} /\ ctx[w] # "wild"

\* Only a worker that was started has read, and index before ctx.
ReadInOrder ==
    /\ \A w \in Workers \ started : index[w] = -1
    /\ \A w \in Workers : index[w] = -1 => ctx[w] = "unread"

IInv == TypeOK /\ OnTime /\ ReadInOrder

LEMMA IInvHolds == Spec => []IInv
<1>1. Init => OnTime /\ ReadInOrder
  BY DEF Init, OnTime, ReadInOrder
<1>2. TypeOK /\ OnTime /\ ReadInOrder /\ [Next]_vars => OnTime' /\ ReadInOrder'
  <2> SUFFICES ASSUME TypeOK, OnTime, ReadInOrder, [Next]_vars
               PROVE OnTime' /\ ReadInOrder'
    OBVIOUS
  <2>1. CASE push_back
    BY <2>1 DEF push_back, OnTime, ReadInOrder
  <2>2. CASE pthread_create
    <3>1. i \in Workers /\ i \notin started /\ index[i] = -1 /\ ctx[i] = "unread"
      BY <2>2 DEF pthread_create, TypeOK, ReadInOrder
    <3> QED BY <2>2, <3>1 DEF pthread_create, TypeOK, OnTime, ReadInOrder
  <2>3. ASSUME NEW w \in Workers, ReadIndex(w) PROVE OnTime' /\ ReadInOrder'
    <3>1. w \in started /\ started' = started /\ ctx' = ctx /\ index[w] = -1
      BY <2>3 DEF ReadIndex
    <3>2. PICK x \in Workers \cup {Wild} :
             /\ index' = [index EXCEPT ![w] = x]
             /\ (x = w /\ late \subseteq late') \/ late' = late \cup {w}
      BY <2>3 DEF ReadIndex
    <3>3. started \subseteq Workers
      BY DEF TypeOK
    <3>4. index'[w] = x /\ x # -1 /\ \A v \in Workers \ {w} : index'[v] = index[v]
      BY <3>2 DEF TypeOK
    <3>5. \A v \in started \ late' : index'[v] \in {-1, v} /\ ctx[v] # "wild"
      BY <3>2, <3>3, <3>4 DEF OnTime
    <3> QED BY <3>1, <3>4, <3>5 DEF OnTime, ReadInOrder
  <2>4. ASSUME NEW w \in Workers, ReadCtx(w) PROVE OnTime' /\ ReadInOrder'
    <3>1. w \in started /\ started' = started /\ index' = index /\ index[w] # -1
      BY <2>4 DEF ReadCtx
    <3>2. PICK x \in {"right", "wild"} :
             /\ ctx' = [ctx EXCEPT ![w] = x]
             /\ (x = "right" /\ late \subseteq late') \/ late' = late \cup {w}
      BY <2>4 DEF ReadCtx
    <3>3. started \subseteq Workers
      BY DEF TypeOK
    <3>4. ctx'[w] = x /\ \A v \in Workers \ {w} : ctx'[v] = ctx[v]
      BY <3>2 DEF TypeOK
    <3>5. \A v \in started \ late' : index[v] \in {-1, v} /\ ctx'[v] # "wild"
      BY <3>2, <3>3, <3>4 DEF OnTime
    <3> QED BY <3>1, <3>4, <3>5 DEF OnTime, ReadInOrder
  <2>5. CASE Finished \/ UNCHANGED vars
    BY <2>5 DEF Finished, vars, OnTime, ReadInOrder
  <2> QED BY <2>1, <2>2, <2>3, <2>4, <2>5 DEF Next
<1> QED BY <1>1, <1>2, TypeCorrect, PTL DEF Spec, IInv

LEMMA InTime == IInv => InTimeIsRight
<1> SUFFICES ASSUME IInv, i = threads_cnt, \A w \in started : ctx[w] # "unread"
             PROVE /\ Workers \ (failed \cup late) \subseteq ServedQueues
                   /\ \A v, w \in started :
                          index[v] = index[w] => v = w \/ {v, w} \cap late # {}
  BY DEF InTimeIsRight
<1>1. started \subseteq Workers /\ Workers \ failed \subseteq started
  BY DEF IInv, TypeOK
<1>2. \A w \in started : index[w] # -1 /\ ctx[w] \in {"right", "wild"}
  BY <1>1 DEF IInv, TypeOK, ReadInOrder
<1>3. \A w \in started \ late : index[w] = w /\ ctx[w] = "right"
  BY <1>2 DEF IInv, OnTime
<1> QED BY <1>1, <1>3 DEF ServedQueues

-----------------------------------------------------------------------------
(* thrags is moved when its size is a power of two, and only then.         *)

\* The elements pushed so far, and: thrags was moved after element w was
\* pushed.
PushedCount == IF pushed THEN i + 1 ELSE i
Moved(w) == \E j \in PowersOfTwo : w < j /\ j < PushedCount

\* The capacity is a power of two as long as it can be exhausted; an argument
\* that points into an old block, or was read wrongly, was moved.
CapacityDoubles == capacity = 0 \/ threads_cnt <= capacity \/ capacity \in PowersOfTwo
OldIsMoved   == \A w \in 0 .. i - 1 : arg[w] # block => Moved(w)
WrongIsMoved ==
    \A w \in Workers : (index[w] \in {-1, w} /\ ctx[w] # "wild") \/ Moved(w)

GrowthInv == CapacityDoubles /\ OldIsMoved /\ WrongIsMoved

LEMMA OneIsPower == 1 < threads_cnt => 1 \in PowersOfTwo
BY DEF PowersOfTwo, Doubling

LEMMA DoubleIsPower ==
  ASSUME NEW p \in PowersOfTwo, 2 * p < threads_cnt
  PROVE  2 * p \in PowersOfTwo
<1>1. p \in Nat \ {0} /\ 2 * p \in Workers \ {0}
  BY DEF PowersOfTwo
<1>2. \A S \in SUBSET Workers : Doubling(S) => 2 * p \in S
  BY DEF PowersOfTwo, Doubling
<1> QED BY <1>1, <1>2 DEF PowersOfTwo

LEMMA GrowthStep == TypeOK /\ GrowthInv /\ [Next]_vars => GrowthInv'
<1> SUFFICES ASSUME TypeOK, GrowthInv, [Next]_vars PROVE GrowthInv'
  OBVIOUS
<1>1. CASE push_back
  <2>1. /\ i \in 0 .. threads_cnt - 1 /\ ~pushed /\ pushed' = TRUE /\ i' = i
        /\ UNCHANGED <<arg, index, ctx>>
    BY <1>1 DEF push_back, TypeOK
  <2>2. \A w : Moved(w) => Moved(w)'
    BY <2>1 DEF Moved, PushedCount, PowersOfTwo
  <2>3. WrongIsMoved'
    BY <2>1, <2>2 DEF GrowthInv, WrongIsMoved
  <2>4. CASE i # capacity
    <3>1. capacity' = capacity /\ block' = block
      BY <1>1, <2>4 DEF push_back
    <3> QED BY <2>1, <2>2, <2>3, <3>1 DEF GrowthInv, CapacityDoubles, OldIsMoved, PowersOfTwo
  <2>5. CASE i = 0 /\ capacity = 0
    <3>1. capacity' = 1
      BY <1>1, <2>5 DEF push_back
    <3>2. CapacityDoubles'
      BY <3>1, OneIsPower DEF CapacityDoubles, PowersOfTwo
    <3>3. OldIsMoved'
      BY <2>1, <2>5 DEF OldIsMoved
    <3> QED BY <2>3, <3>2, <3>3 DEF GrowthInv
  <2>6. CASE i = capacity /\ capacity # 0
    <3>1. capacity' = 2 * capacity /\ capacity \in PowersOfTwo
      BY <1>1, <2>1, <2>6 DEF push_back, GrowthInv, CapacityDoubles
    <3>2. CapacityDoubles'
      <4>1. capacity \in Nat /\ threads_cnt \in Nat
        BY DEF TypeOK
      <4>2. threads_cnt <= 2 * capacity \/ 2 * capacity < threads_cnt
        BY <4>1
      <4>3. threads_cnt <= capacity' \/ capacity' \in PowersOfTwo
        BY <3>1, <4>2, DoubleIsPower
      <4>4. PowersOfTwo' = PowersOfTwo
        OBVIOUS
      <4> QED BY <4>3, <4>4 DEF CapacityDoubles
    <3>3. \A w \in 0 .. i - 1 : Moved(w)'
      BY <2>1, <2>6, <3>1 DEF Moved, PushedCount, PowersOfTwo
    <3>4. OldIsMoved'
      BY <2>1, <3>3 DEF OldIsMoved
    <3> QED BY <2>3, <3>2, <3>4 DEF GrowthInv
  <2> QED BY <2>4, <2>5, <2>6
<1>2. CASE pthread_create
  <2>1. /\ i \in Workers /\ pushed /\ i' = i + 1 /\ pushed' = FALSE
        /\ arg' = [arg EXCEPT ![i] = block]
        /\ UNCHANGED <<capacity, block, index, ctx>>
    BY <1>2 DEF pthread_create, TypeOK
  <2>2. \A w : Moved(w) => Moved(w)'
    BY <2>1 DEF Moved, PushedCount, PowersOfTwo
  <2>3. \A w \in 0 .. i' - 1 : arg'[w] # block' => w \in 0 .. i - 1 /\ arg[w] # block
    BY <2>1 DEF TypeOK
  <2>4. OldIsMoved'
    BY <2>2, <2>3 DEF GrowthInv, OldIsMoved
  <2>5. WrongIsMoved'
    BY <2>1, <2>2 DEF GrowthInv, WrongIsMoved
  <2> QED BY <2>1, <2>4, <2>5 DEF GrowthInv, CapacityDoubles, PowersOfTwo
<1>3. ASSUME NEW w \in Workers, ReadIndex(w) \/ ReadCtx(w) PROVE GrowthInv'
  <2>1. w \in started /\ UNCHANGED <<i, pushed, capacity, block, arg>>
    BY <1>3 DEF ReadIndex, ReadCtx
  <2>2. \A v : Moved(v)' <=> Moved(v)
    BY <2>1 DEF Moved, PushedCount, PowersOfTwo
  <2>3. CapacityDoubles' /\ OldIsMoved'
    BY <2>1, <2>2 DEF GrowthInv, CapacityDoubles, OldIsMoved, PowersOfTwo
  <2>4. w \in 0 .. i - 1
    BY <2>1 DEF TypeOK
  <2>5. \A v \in Workers \ {w} : index'[v] = index[v] /\ ctx'[v] = ctx[v]
    BY <1>3 DEF ReadIndex, ReadCtx, TypeOK
  <2>6. arg[w] # block => Moved(w)
    BY <2>4 DEF GrowthInv, OldIsMoved
  <2>7. (index'[w] \in {-1, w} /\ ctx'[w] # "wild") \/ Moved(w)
    <3>1. (index[w] \in {-1, w} /\ ctx[w] # "wild") \/ Moved(w)
      BY DEF GrowthInv, WrongIsMoved
    <3>2. index'[w] = w \/ index'[w] = index[w] \/ Freed(w)
      BY <1>3 DEF ReadIndex, ReadCtx, TypeOK
    <3>3. ctx'[w] # "wild" \/ ctx'[w] = ctx[w] \/ Freed(w)
      BY <1>3 DEF ReadIndex, ReadCtx, TypeOK
    <3> QED BY <2>6, <3>1, <3>2, <3>3 DEF Freed
  <2>8. WrongIsMoved'
    BY <2>2, <2>5, <2>7 DEF GrowthInv, WrongIsMoved
  <2> QED BY <2>3, <2>8 DEF GrowthInv
<1>4. CASE Finished \/ UNCHANGED vars
  BY <1>4 DEF Finished, vars, GrowthInv, CapacityDoubles, OldIsMoved, WrongIsMoved,
     Moved, PushedCount, PowersOfTwo
<1> QED BY <1>1, <1>2, <1>3, <1>4 DEF Next

\* A worker that no growth of thrags follows can only have read its own index.
LEMMA AfterGrowth == TypeOK /\ GrowthInv => AfterGrowthIsRight
<1> SUFFICES ASSUME TypeOK, GrowthInv, NEW w \in Workers, index[w] # -1,
                    \A j \in w + 1 .. threads_cnt - 1 : j \notin PowersOfTwo
             PROVE index[w] = w /\ ctx[w] # "wild"
  BY DEF AfterGrowthIsRight
<1>1. ~Moved(w)
  BY DEF Moved, PowersOfTwo
<1> QED BY <1>1 DEF GrowthInv, WrongIsMoved

\* When all workers have read, a queue is without a worker, or has two, only
\* because a thread could not be created or read too late; and no worker that
\* is started after the last growth of thrags is wrong, whenever it reads.
THEOREM StartupSafe == Spec => []StartupIsRight
<1>1. Init => GrowthInv
  BY DEF Init, GrowthInv, CapacityDoubles, OldIsMoved, WrongIsMoved
<1>2. Spec => []GrowthInv
  BY <1>1, GrowthStep, TypeCorrect, PTL DEF Spec
<1>3. IInv /\ GrowthInv => StartupIsRight
  BY InTime, AfterGrowth DEF StartupIsRight, IInv
<1> QED BY <1>2, <1>3, IInvHolds, PTL

=============================================================================
