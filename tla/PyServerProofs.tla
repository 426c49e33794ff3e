-------------------------- MODULE PyServerProofs ---------------------------
(***************************************************************************)
(* Proofs about PyServer and PyServerHistory: for any number of            *)
(* connections, users, requests and faults, and pools of any size.         *)
(***************************************************************************)
EXTENDS PyServerHistory, SequenceTheorems, FiniteSetTheorems, TLAPS

-----------------------------------------------------------------------------
(* What every sequence of steps that is left of a request is like.         *)

\* The order in which all services take the pools.
TakenBefore(p, q) == (p = "db" /\ q # "db") \/ (p = "c0" /\ q = "c1")

\* The calls inside try.
Tries == {"select", "set", "online?", "insert", "setloc", "del", "delloc"}

\* No step comes twice.
Distinct(t) == \A i, j \in DOMAIN t : t[i] = t[j] => i = j

\* What is taken is put back, ...
GivesBack(t) ==
    \A p \in Pools : \A i \in DOMAIN t :
        t[i] = Get(p) => \E j \in DOMAIN t : t[j] = Put(p)

\* ... pools are taken first and in their order, put back last, db at the
\* very last, and then the response is sent.
InOrder(t) ==
    \A i, j \in DOMAIN t : i < j =>
        /\ t[j].do = "get" => t[i].do = "get" /\ TakenBefore(t[i].of, t[j].of)
        /\ t[i].do = "put" => t[j].do \in {"put", "send"}
        /\ t[i] = Put("db") => t[j].do = "send"
        /\ t[i].do # "send"

\* A pool that is put back without being taken was taken before those that
\* are still to be taken.
TakenEarlier(t) ==
    \A p, q \in Pools : \A i, j \in DOMAIN t :
        t[i] = Get(q) /\ t[j] = Put(p) =>
            TakenBefore(p, q) \/ \E k \in DOMAIN t : t[k] = Get(p)

\* The pools that t puts something back into.
PutBy(t) == {p \in Pools : \E j \in DOMAIN t : t[j] = Put(p)}

\* The finally clause around a call puts back what the request would.
FinallyFits(t) ==
    \A i \in DOMAIN t : t[i].do \in Tries =>
        PutBy(Finally(t[i].do)) = PutBy(t)

\* Where a service branches, it skips the calls it should; the deletion of a
\* location comes right after that of the key.
SkipsFit(t) ==
    \A i \in DOMAIN t :
        /\ t[i].do = "select" => i + 1 \in DOMAIN t /\ t[i + 1].do = "set"
        /\ t[i].do = "insert" => i + 1 \in DOMAIN t /\ t[i + 1].do = "setloc"
        /\ t[i].do = "online?" => /\ i + 1 \in DOMAIN t /\ t[i + 1].do = "insert"
                                  /\ i + 2 \in DOMAIN t /\ t[i + 2].do = "setloc"
        /\ t[i].do = "del" => i + 1 \in DOMAIN t /\ t[i + 1] = Do("delloc")

Orderly(t) ==
    /\ Distinct(t) /\ GivesBack(t) /\ InOrder(t) /\ TakenEarlier(t)
    /\ FinallyFits(t) /\ SkipsFit(t)

(* The services' steps are orderly.                                        *)

LEMMA OrderlyUplocation == Orderly(UplocationSteps)
<1> DEFINE t == UplocationSteps
<1>1. DOMAIN t = {1, 2, 3, 4, 5, 6, 7, 8, 9, 10}
  BY DEF UplocationSteps
<1>2. /\ t[1] = Get("db") /\ t[2] = Get("c0") /\ t[3] = Get("c1")
      /\ t[4] = Do("online?") /\ t[5] = Do("insert") /\ t[6] = Do("setloc")
      /\ t[7] = Put("c1") /\ t[8] = Put("c0") /\ t[9] = Put("db")
      /\ t[10] = Do("send")
  BY DEF UplocationSteps
<1> HIDE DEF t
<1>3. Distinct(t)
  BY <1>1, <1>2 DEF Distinct, Get, Put, Do
<1>4. GivesBack(t)
  BY <1>1, <1>2 DEF GivesBack, Get, Put, Do
<1>5. InOrder(t)
  BY <1>1, <1>2 DEF InOrder, TakenBefore, Get, Put, Do
<1>6. TakenEarlier(t)
  BY <1>1, <1>2 DEF TakenEarlier, TakenBefore, Pools, Get, Put, Do
<1>7. FinallyFits(t)
  BY <1>1, <1>2 DEF FinallyFits, PutBy, Finally, Tries, Pools, Get, Put, Do
<1>8. SkipsFit(t)
  BY <1>1, <1>2 DEF SkipsFit, Get, Put, Do
<1> QED
  BY <1>3, <1>4, <1>5, <1>6, <1>7, <1>8 DEF Orderly, t

LEMMA OrderlyLogin == Orderly(LoginSteps)
<1> DEFINE t == LoginSteps
<1>1. DOMAIN t = {1, 2, 3, 4, 5, 6, 7}
  BY DEF LoginSteps
<1>2. /\ t[1] = Get("db") /\ t[2] = Get("c0") /\ t[3] = Do("select")
      /\ t[4] = Do("set") /\ t[5] = Put("c0") /\ t[6] = Put("db")
      /\ t[7] = Do("send")
  BY DEF LoginSteps
<1> HIDE DEF t
<1>3. Distinct(t)
  BY <1>1, <1>2 DEF Distinct, Get, Put, Do
<1>4. GivesBack(t)
  BY <1>1, <1>2 DEF GivesBack, Get, Put, Do
<1>5. InOrder(t)
  BY <1>1, <1>2 DEF InOrder, TakenBefore, Get, Put, Do
<1>6. TakenEarlier(t)
  BY <1>1, <1>2 DEF TakenEarlier, TakenBefore, Pools, Get, Put, Do
<1>7. FinallyFits(t)
  BY <1>1, <1>2 DEF FinallyFits, PutBy, Finally, Tries, Pools, Get, Put, Do
<1>8. SkipsFit(t)
  BY <1>1, <1>2 DEF SkipsFit, Get, Put, Do
<1> QED
  BY <1>3, <1>4, <1>5, <1>6, <1>7, <1>8 DEF Orderly, t

LEMMA OrderlyLogout == Orderly(LogoutSteps)
<1> DEFINE t == LogoutSteps
<1>1. DOMAIN t = {1, 2, 3, 4, 5, 6}
  BY DEF LogoutSteps
<1>2. /\ t[1] = Get("c0") /\ t[2] = Get("c1") /\ t[3] = Do("del")
      /\ t[4] = Do("delloc") /\ t[5] = Put("c1") /\ t[6] = Put("c0")
  BY DEF LogoutSteps
<1> HIDE DEF t
<1>3. Distinct(t)
  BY <1>1, <1>2 DEF Distinct, Get, Put, Do
<1>4. GivesBack(t)
  BY <1>1, <1>2 DEF GivesBack, Get, Put, Do
<1>5. InOrder(t)
  BY <1>1, <1>2 DEF InOrder, TakenBefore, Get, Put, Do
<1>6. TakenEarlier(t)
  BY <1>1, <1>2 DEF TakenEarlier, TakenBefore, Pools, Get, Put, Do
<1>7. FinallyFits(t)
  BY <1>1, <1>2 DEF FinallyFits, PutBy, Finally, Tries, Pools, Get, Put, Do
<1>8. SkipsFit(t)
  BY <1>1, <1>2 DEF SkipsFit, Get, Put, Do
<1> QED
  BY <1>3, <1>4, <1>5, <1>6, <1>7, <1>8 DEF Orderly, t

LEMMA OrderlyEcho == Orderly(EchoSteps)
<1> DEFINE t == EchoSteps
<1>1. DOMAIN t = {1}
  BY DEF EchoSteps
<1>2. t[1] = Do("send")
  BY DEF EchoSteps
<1> HIDE DEF t
<1>3. Distinct(t)
  BY <1>1, <1>2 DEF Distinct, Get, Put, Do
<1>4. GivesBack(t)
  BY <1>1, <1>2 DEF GivesBack, Get, Put, Do
<1>5. InOrder(t)
  BY <1>1, <1>2 DEF InOrder, TakenBefore, Get, Put, Do
<1>6. TakenEarlier(t)
  BY <1>1, <1>2 DEF TakenEarlier, TakenBefore, Pools, Get, Put, Do
<1>7. FinallyFits(t)
  BY <1>1, <1>2 DEF FinallyFits, PutBy, Finally, Tries, Pools, Get, Put, Do
<1>8. SkipsFit(t)
  BY <1>1, <1>2 DEF SkipsFit, Get, Put, Do
<1> QED
  BY <1>3, <1>4, <1>5, <1>6, <1>7, <1>8 DEF Orderly, t

LEMMA SomeSteps ==
    /\ \A p \in {"db", "c0", "c1"} : Get(p) \in StepsOf /\ Put(p) \in StepsOf
    /\ \A a \in {"select", "set", "online?", "insert", "setloc", "del", "delloc", "send"} :
         Do(a) \in StepsOf
BY DEF StepsOf, Pools

LEMMA OrderlySteps ==
    \A cmd \in Cmds :
        Orderly(Steps(cmd)) /\ Steps(cmd) \in Seq(StepsOf) /\ Steps(cmd) # <<>>
<1>1. \A cmd \in Cmds : Orderly(Steps(cmd))
  BY OrderlyUplocation, OrderlyLogin, OrderlyLogout, OrderlyEcho DEF Steps, Cmds
<1>2. /\ LoginSteps \in Seq(StepsOf) /\ UplocationSteps \in Seq(StepsOf)
      /\ LogoutSteps \in Seq(StepsOf) /\ EchoSteps \in Seq(StepsOf)
  <2>1. LoginSteps \in Seq(StepsOf)
    BY SomeSteps DEF LoginSteps
  <2>2. UplocationSteps \in Seq(StepsOf)
    BY SomeSteps DEF UplocationSteps
  <2>3. LogoutSteps \in Seq(StepsOf)
    BY SomeSteps DEF LogoutSteps
  <2>4. EchoSteps \in Seq(StepsOf)
    BY SomeSteps DEF EchoSteps
  <2> QED
    BY <2>1, <2>2, <2>3, <2>4
<1>3. /\ LoginSteps # <<>> /\ UplocationSteps # <<>> /\ LogoutSteps # <<>>
      /\ EchoSteps # <<>>
  BY DEF LoginSteps, UplocationSteps, LogoutSteps, EchoSteps
<1> QED
  BY <1>1, <1>2, <1>3 DEF Steps, Cmds

LEMMA OrderlyFinally ==
    ASSUME NEW call \in Tries
    PROVE  /\ Orderly(Finally(call)) /\ Finally(call) \in Seq(StepsOf)
           /\ Finally(call) # <<>>
           /\ \A i \in DOMAIN Finally(call) : Finally(call)[i].do = "put"
<1> DEFINE t == Finally(call)
<1>0. \/ t = <<Put("c0"), Put("db")>>
      \/ t = <<Put("c1"), Put("c0"), Put("db")>>
      \/ t = <<Put("c1"), Put("c0")>>
  BY DEF Finally, Tries
<1> HIDE DEF t
<1>1. /\ t \in Seq(StepsOf) /\ t # <<>>
      /\ DOMAIN t \in {{1, 2}, {1, 2, 3}}
  <2>1. CASE t = <<Put("c0"), Put("db")>>
    BY <2>1, SomeSteps
  <2>2. CASE t = <<Put("c1"), Put("c0"), Put("db")>>
    BY <2>2, SomeSteps
  <2>3. CASE t = <<Put("c1"), Put("c0")>>
    BY <2>3, SomeSteps
  <2> QED
    BY <1>0, <2>1, <2>2, <2>3
<1>2. /\ \A i \in DOMAIN t : t[i].do = "put"
      /\ \A i, j \in DOMAIN t : i # j => t[i] # t[j]
      /\ \A i, j \in DOMAIN t : i < j => t[i] # Put("db")
  BY <1>0 DEF Put
<1>3. Distinct(t) /\ GivesBack(t) /\ InOrder(t) /\ TakenEarlier(t)
  BY <1>1, <1>2 DEF Distinct, GivesBack, InOrder, TakenEarlier, Get
<1>4. FinallyFits(t) /\ SkipsFit(t)
  BY <1>1, <1>2 DEF FinallyFits, SkipsFit, Tries
<1> QED
  BY <1>1, <1>2, <1>3, <1>4 DEF Orderly, t

\* What is left after a step is orderly.
LEMMA OrderlyTail ==
    ASSUME NEW t \in Seq(StepsOf), t # <<>>, Orderly(t)
    PROVE  /\ Orderly(Tail(t)) /\ Tail(t) \in Seq(StepsOf)
           /\ \A s \in Range(Tail(t)) : s \in Range(t) /\ s # t[1]
           /\ \A s \in Range(t) : s = t[1] \/ s \in Range(Tail(t))
<1> DEFINE u == Tail(t)
<1>1. /\ u \in Seq(StepsOf) /\ Len(t) \in Nat \ {0}
      /\ DOMAIN t = 1 .. Len(t) /\ DOMAIN u = 1 .. Len(t) - 1
      /\ \A i \in DOMAIN u : i + 1 \in DOMAIN t /\ u[i] = t[i + 1]
      /\ \A i \in DOMAIN t : i = 1 \/ (i - 1 \in DOMAIN u /\ t[i] = u[i - 1])
  BY HeadTailProperties, LenProperties, EmptySeq
<1> HIDE DEF u
<1>2. Distinct(u)
  <2> SUFFICES ASSUME NEW i \in DOMAIN u, NEW j \in DOMAIN u, u[i] = u[j] PROVE i = j
    BY DEF Distinct
  <2>1. i + 1 = j + 1
    BY <1>1 DEF Orderly, Distinct
  <2> QED
    BY <1>1, <2>1
<1>3. /\ \A s \in Range(u) : s \in Range(t) /\ s # t[1]
      /\ \A s \in Range(t) : s = t[1] \/ s \in Range(u)
  <2>1. \A i \in DOMAIN u : u[i] # t[1]
    <3> SUFFICES ASSUME NEW i \in DOMAIN u, u[i] = t[1] PROVE FALSE
      OBVIOUS
    <3>1. i + 1 = 1
      BY <1>1 DEF Orderly, Distinct
    <3> QED
      BY <1>1, <3>1
  <2> QED
    BY <1>1, <2>1, SMTT(30) DEF Range
<1>4. InOrder(u)
  <2> SUFFICES ASSUME NEW i \in DOMAIN u, NEW j \in DOMAIN u, i < j
               PROVE  /\ u[j].do = "get" => u[i].do = "get" /\ TakenBefore(u[i].of, u[j].of)
                      /\ u[i].do = "put" => u[j].do \in {"put", "send"}
                      /\ u[i] = Put("db") => u[j].do = "send"
                      /\ u[i].do # "send"
    BY DEF InOrder
  <2>1. i + 1 < j + 1 /\ i + 1 \in DOMAIN t /\ j + 1 \in DOMAIN t
    BY <1>1
  <2> QED
    BY <1>1, <2>1 DEF Orderly, InOrder
<1>5. \A i \in DOMAIN t : i # 1 => 1 < i /\ 1 \in DOMAIN t
  BY <1>1
<1>6. GivesBack(u)
  <2> SUFFICES ASSUME NEW p \in Pools, NEW i \in DOMAIN u, u[i] = Get(p)
               PROVE  \E j \in DOMAIN u : u[j] = Put(p)
    BY DEF GivesBack
  <2>1. i + 1 \in DOMAIN t /\ t[i + 1] = Get(p)
    BY <1>1
  <2>2. PICK j \in DOMAIN t : t[j] = Put(p)
    BY <2>1 DEF Orderly, GivesBack
  <2>3. t[1].do = "get"
    BY <1>1, <1>5, <2>1 DEF Orderly, InOrder, Get
  <2>4. j # 1
    BY <2>2, <2>3 DEF Put
  <2> QED
    BY <1>1, <2>2, <2>4
<1>7. TakenEarlier(u)
  <2> SUFFICES ASSUME NEW p \in Pools, NEW q \in Pools, NEW i \in DOMAIN u, NEW j \in DOMAIN u,
                      u[i] = Get(q), u[j] = Put(p), ~TakenBefore(p, q)
               PROVE  \E k \in DOMAIN u : u[k] = Get(p)
    BY DEF TakenEarlier
  <2>1. i + 1 \in DOMAIN t /\ t[i + 1] = Get(q) /\ j + 1 \in DOMAIN t /\ t[j + 1] = Put(p)
    BY <1>1
  <2>2. PICK k \in DOMAIN t : t[k] = Get(p)
    BY <2>1 DEF Orderly, TakenEarlier
  <2>3. k # 1
    <3>1. 1 \in DOMAIN t /\ 1 < i + 1
      BY <1>1
    <3>2. t[i + 1].do = "get" /\ t[i + 1].of = q
      BY <2>1 DEF Get
    <3>3. TakenBefore(t[1].of, q)
      BY <2>1, <3>1, <3>2 DEF Orderly, InOrder
    <3> QED
      BY <2>2, <3>3 DEF Get
  <2> QED
    BY <1>1, <2>2, <2>3
<1>8. FinallyFits(u)
  <2> SUFFICES ASSUME NEW i \in DOMAIN u, u[i].do \in Tries
               PROVE  PutBy(t) = PutBy(u)
    BY <1>1 DEF FinallyFits, Orderly
  <2>1. t[1].do # "put"
    <3>1. 1 \in DOMAIN t /\ i + 1 \in DOMAIN t /\ 1 < i + 1 /\ t[i + 1].do \in Tries
      BY <1>1
    <3>2. t[1].do = "put" => t[i + 1].do \in {"put", "send"}
      BY <3>1 DEF Orderly, InOrder
    <3> QED
      BY <3>1, <3>2 DEF Tries
  <2>2. \A p \in Pools : t[1] # Put(p)
    BY <2>1 DEF Put
  <2> QED
    BY <1>1, <2>2 DEF PutBy
<1>9. SkipsFit(u)
  <2> SUFFICES ASSUME NEW i \in DOMAIN u
               PROVE  /\ u[i].do = "select" => i + 1 \in DOMAIN u /\ u[i + 1].do = "set"
                      /\ u[i].do = "insert" => i + 1 \in DOMAIN u /\ u[i + 1].do = "setloc"
                      /\ u[i].do = "online?" => /\ i + 1 \in DOMAIN u /\ u[i + 1].do = "insert"
                                                /\ i + 2 \in DOMAIN u /\ u[i + 2].do = "setloc"
                      /\ u[i].do = "del" => i + 1 \in DOMAIN u /\ u[i + 1] = Do("delloc")
    BY DEF SkipsFit
  <2>1. i + 1 \in DOMAIN t /\ u[i] = t[i + 1]
        /\ (i + 2 \in DOMAIN t => i + 1 \in DOMAIN u /\ u[i + 1] = t[i + 2])
        /\ (i + 3 \in DOMAIN t => i + 2 \in DOMAIN u /\ u[i + 2] = t[i + 3])
        /\ (i + 1) + 1 = i + 2 /\ (i + 1) + 2 = i + 3
    BY <1>1
  <2> QED
    BY <2>1 DEF Orderly, SkipsFit
<1> QED
  BY <1>1, <1>2, <1>3, <1>4, <1>6, <1>7, <1>8, <1>9 DEF Orderly, u
-----------------------------------------------------------------------------
(* Types, and the steps that are left.                                     *)

TodoOrderly == \A c \in Conns : Orderly(todo[c])

\* No connection has more responses than requests, and one that is to record
\* something of a user has been told which.
RequestsAgree ==
    \A c \in Conns :
        /\ answered[c] <= asked[c]
        /\ Do("send") \in Range(todo[c]) => answered[c] < asked[c]
        /\ Do("set") \in Range(todo[c]) \/ Do("setloc") \in Range(todo[c]) =>
             arg[c] \in Users

Core == TypeOK /\ TodoOrderly /\ RequestsAgree

LEMMA CoreInit == Init => Core
<1> SUFFICES ASSUME Init PROVE Core
  OBVIOUS
<1>1. Orderly(<<>>) /\ <<>> \in Seq(StepsOf) /\ Range(<<>>) = {}
  BY DEF Orderly, Distinct, GivesBack, InOrder, TakenEarlier, FinallyFits, SkipsFit, Range
<1>2. PoolSize \in [Pools -> Nat]
  BY SizeAssumption DEF PoolSize, Pools
<1>3. TypeOK
  BY <1>1, <1>2, SizeAssumption DEF Init, TypeOK
<1> QED
  BY <1>1, <1>3 DEF Init, Core, TodoOrderly, RequestsAgree

\* The step c is at, and what is left after it.
LEMMA AtStep ==
    ASSUME Core, NEW c \in Conns, pc[c] = "work"
    PROVE  /\ todo[c] \in Seq(StepsOf) /\ todo[c] # <<>> /\ Orderly(todo[c])
           /\ 1 \in DOMAIN todo[c] /\ todo[c][1] \in StepsOf
           /\ todo[c][1] \in Range(todo[c])
BY LenProperties, EmptySeq, ElementOfSeq DEF Core, TypeOK, TodoOrderly, Range

\* A step that goes on with rest.
LEMMA CoreContinue ==
    ASSUME Core, NEW c \in Conns, NEW rest \in Seq(StepsOf), Orderly(rest),
           Continue(c, rest), UNCHANGED <<peerVars, arg, asked>>,
           uid' \in [Conns -> Users \cup {None}],
           free' \in [Pools -> Nat], lost' \in [Pools -> Nat],
           online' \subseteq Users, located' \subseteq Users, faults' \in 0 .. MaxFaults,
           answered' \in [Conns -> 0 .. MaxReq],
           \A d \in Conns : d # c => answered'[d] = answered[d],
           answered'[c] <= asked[c],
           Do("send") \in Range(rest) => answered'[c] < asked[c],
           Do("set") \in Range(rest) \/ Do("setloc") \in Range(rest) => arg[c] \in Users
    PROVE  Core'
<1>1. /\ todo'[c] = rest /\ \A d \in Conns : d # c => todo'[d] = todo[d]
      /\ todo' \in [Conns -> Seq(StepsOf)]
  BY DEF Continue, Core, TypeOK
<1>2. /\ pc' \in [Conns -> {"idle", "init", "recv", "work", "closed", "dead"}]
      /\ pc'[c] = "work" <=> rest # <<>>
      /\ \A d \in Conns : d # c => pc'[d] = pc[d]
  BY DEF Continue, Core, TypeOK
<1>3. \A d \in Conns : pc'[d] = "work" <=> todo'[d] # <<>>
  BY <1>1, <1>2 DEF Core, TypeOK
<1>4. TypeOK'
  BY <1>1, <1>2, <1>3 DEF Core, TypeOK, peerVars
<1>5. TodoOrderly'
  BY <1>1 DEF Core, TodoOrderly
<1>6. RequestsAgree'
  BY <1>1 DEF Core, RequestsAgree
<1> QED
  BY <1>4, <1>5, <1>6 DEF Core

\* The same for a step that is done, or branches.
LEMMA CoreDone ==
    ASSUME Core, NEW c \in Conns, pc[c] = "work",
           NEW rest \in Seq(StepsOf), Orderly(rest), Range(rest) \subseteq Range(todo[c]),
           Continue(c, rest), UNCHANGED <<peerVars, arg, asked, answered>>,
           uid' \in [Conns -> Users \cup {None}],
           free' \in [Pools -> Nat], lost' \in [Pools -> Nat],
           online' \subseteq Users, located' \subseteq Users, faults' \in 0 .. MaxFaults
    PROVE  Core'
<1>1. /\ Do("send") \in Range(rest) => answered'[c] < asked[c]
      /\ Do("set") \in Range(rest) \/ Do("setloc") \in Range(rest) => arg[c] \in Users
      /\ answered'[c] <= asked[c]
      /\ answered' \in [Conns -> 0 .. MaxReq]
  BY DEF Core, TypeOK, RequestsAgree
<1> QED
  BY <1>1, CoreContinue

\* What a service goes on with.
LEMMA Rests ==
    ASSUME Core, NEW c \in Conns, pc[c] = "work"
    PROVE  LET t == todo[c]
           IN  /\ Tail(t) \in Seq(StepsOf) /\ Orderly(Tail(t))
               /\ Range(Tail(t)) = Range(t) \ {t[1]}
               /\ t[1].do \in {"select", "insert", "online?"} =>
                    /\ Tail(Tail(t)) \in Seq(StepsOf) /\ Orderly(Tail(Tail(t)))
                    /\ Range(Tail(Tail(t))) = Range(t) \ {t[1], t[2]}
                    /\ t[2].do \in {"set", "insert", "setloc"}
               /\ t[1].do = "online?" =>
                    /\ Tail(Tail(Tail(t))) \in Seq(StepsOf) /\ Orderly(Tail(Tail(Tail(t))))
                    /\ Range(Tail(Tail(Tail(t)))) = Range(t) \ {t[1], t[2], t[3]}
                    /\ t[3].do = "setloc"
<1> DEFINE t == todo[c]
           u == Tail(t)
           v == Tail(u)
<1>1. /\ t \in Seq(StepsOf) /\ t # <<>> /\ Orderly(t) /\ 1 \in DOMAIN t
      /\ t[1] \in Range(t)
  BY AtStep
<1>2. /\ u \in Seq(StepsOf) /\ Orderly(u) /\ Range(u) = Range(t) \ {t[1]}
  BY <1>1, OrderlyTail
<1>3. ASSUME t[1].do \in {"select", "insert", "online?"}
      PROVE  /\ 2 \in DOMAIN t /\ t[2].do \in {"set", "insert", "setloc"}
             /\ v \in Seq(StepsOf) /\ Orderly(v) /\ Range(v) = Range(t) \ {t[1], t[2]}
             /\ u # <<>> /\ u[1] = t[2]
  <2>1. 2 \in DOMAIN t /\ t[2].do \in {"set", "insert", "setloc"}
    BY <1>1, <1>3 DEF Orderly, SkipsFit
  <2>2. u # <<>> /\ u[1] = t[2] /\ u[1] \in Range(u)
    <3>1. /\ Len(u) = Len(t) - 1 /\ Len(t) \in Nat /\ Len(t) >= 2 /\ u[1] = t[2]
          /\ DOMAIN u = 1 .. Len(u)
      BY <1>1, <1>2, <2>1, HeadTailProperties, LenProperties
    <3>2. 1 \in DOMAIN u /\ u # <<>>
      <4> HIDE DEF u
      <4>1. Len(u) >= 1
        BY <3>1
      <4> QED
        BY <1>2, <3>1, <4>1, EmptySeq
    <3> QED
      BY <3>1, <3>2 DEF Range
  <2>3. v \in Seq(StepsOf) /\ Orderly(v) /\ Range(v) = Range(u) \ {u[1]}
    BY <1>2, <2>2, OrderlyTail
  <2> QED
    BY <1>2, <2>1, <2>2, <2>3
<1>4. ASSUME t[1].do = "online?"
      PROVE  /\ Tail(v) \in Seq(StepsOf) /\ Orderly(Tail(v))
             /\ Range(Tail(v)) = Range(t) \ {t[1], t[2], t[3]}
             /\ t[3].do = "setloc"
  <2>1. 3 \in DOMAIN t /\ t[3].do = "setloc"
    BY <1>1, <1>4, SMTT(30) DEF Orderly, SkipsFit
  <2>2. v # <<>> /\ v[1] = t[3] /\ v[1] \in Range(v)
    <3>1. Len(u) = Len(t) - 1 /\ Len(t) \in Nat /\ Len(t) >= 3 /\ u[2] = t[3]
      BY <1>1, <2>1, HeadTailProperties, LenProperties
    <3>2. u \in Seq(StepsOf) /\ u # <<>> /\ v \in Seq(StepsOf)
      BY <1>2, <1>3, <1>4
    <3> HIDE DEF t, u
    <3>3. Len(v) = Len(u) - 1 /\ \A i \in 1 .. Len(v) : v[i] = u[i + 1]
      BY <3>2, HeadTailProperties
    <3>4. Len(v) >= 1 /\ DOMAIN v = 1 .. Len(v)
      BY <3>1, <3>2, <3>3, LenProperties
    <3>5. v[1] = t[3]
      BY <3>1, <3>3, <3>4
    <3> HIDE DEF v
    <3>6. 1 \in DOMAIN v /\ v # <<>>
      BY <3>4, EmptySeq
    <3> QED
      BY <3>5, <3>6 DEF Range
  <2>3. Tail(v) \in Seq(StepsOf) /\ Orderly(Tail(v)) /\ Range(Tail(v)) = Range(v) \ {v[1]}
    BY <1>3, <1>4, <2>2, OrderlyTail
  <2> QED
    BY <1>3, <1>4, <2>1, <2>2, <2>3
<1> QED
  BY <1>1, <1>2, <1>3, <1>4

\* The finally clause of the service c is in.
LEMMA FinallyRests ==
    ASSUME Core, NEW c \in Conns, pc[c] = "work", todo[c][1].do \in Tries
    PROVE  LET f == Finally(todo[c][1].do)
           IN  /\ f \in Seq(StepsOf) /\ Orderly(f) /\ Range(f) \subseteq Range(todo[c])
               /\ \A p \in Pools : /\ Put(p) \in Range(f) <=> Put(p) \in Range(todo[c])
                                   /\ Get(p) \notin Range(f)
                                   /\ Get(p) \notin Range(todo[c])
<1> DEFINE t == todo[c]
           f == Finally(t[1].do)
<1>1. /\ t \in Seq(StepsOf) /\ Orderly(t) /\ 1 \in DOMAIN t
      /\ \A i \in DOMAIN t : t[i] \in StepsOf /\ (i = 1 \/ 1 < i)
  BY AtStep, LenProperties, ElementOfSeq
<1>2. /\ f \in Seq(StepsOf) /\ Orderly(f) /\ \A i \in DOMAIN f : f[i].do = "put"
      /\ \A i \in DOMAIN f : f[i] \in StepsOf
  BY OrderlyFinally, LenProperties, ElementOfSeq
<1>3. PutBy(f) = PutBy(t)
  BY <1>1 DEF Orderly, FinallyFits
<1> HIDE DEF f, t
<1>4. \A s \in StepsOf : s.do = "put" => \E p \in Pools : s = Put(p)
  BY DEF StepsOf, Get, Put, Do
<1>5. \A p \in Pools : Put(p) \in Range(f) <=> Put(p) \in Range(t)
  BY <1>3 DEF PutBy, Range
<1>6. Range(f) \subseteq Range(t)
  BY <1>2, <1>4, <1>5 DEF Range
<1>7. \A i \in DOMAIN t : t[i].do # "get"
  <2>1. t[1].do # "get"
    BY DEF Tries, t
  <2> QED
    BY <1>1, <2>1 DEF Orderly, InOrder
<1>8. \A p \in Pools : Get(p) \notin Range(f) /\ Get(p) \notin Range(t)
  BY <1>2, <1>7 DEF Range, Get
<1> QED
  BY <1>2, <1>5, <1>6, <1>8 DEF f, t

LEMMA CoreService == ASSUME Core, NEW c \in Conns, Service(c) \/ Fault(c) PROVE Core'
<1> DEFINE t == todo[c]
<1>0. /\ pc[c] = "work" /\ 1 \in DOMAIN t /\ t[1] \in Range(t) /\ TypeOK
      /\ t \in Seq(StepsOf) /\ t # <<>>
  BY AtStep DEF Service, Fault, PoolGet, PoolRelease, Select, SetOnline, TestOnline, Insert,
     SetLocation, DelOnline, DelLocation, SendResponse, SendRaises, ServiceRaises,
     CommitRaises, At, Calls, Core
<1>1. /\ Tail(t) \in Seq(StepsOf) /\ Orderly(Tail(t)) /\ Range(Tail(t)) = Range(t) \ {t[1]}
      /\ t[1].do \in {"select", "insert", "online?"} =>
           /\ Tail(Tail(t)) \in Seq(StepsOf) /\ Orderly(Tail(Tail(t)))
           /\ Range(Tail(Tail(t))) \subseteq Range(t)
      /\ t[1].do = "online?" =>
           /\ Tail(Tail(Tail(t))) \in Seq(StepsOf) /\ Orderly(Tail(Tail(Tail(t))))
           /\ Range(Tail(Tail(Tail(t)))) \subseteq Range(t)
  BY <1>0, Rests
<1>2. ASSUME NEW p \in Pools, PoolGet(c, p) \/ PoolRelease(c, p) PROVE Core'
  <2>1. free' \in [Pools -> Nat]
    <3>1. CASE PoolGet(c, p)
      <4>1. free[p] \in Nat /\ free[p] > 0 /\ free' = [free EXCEPT ![p] = @ - 1]
        BY <1>0, <3>1 DEF PoolGet, TypeOK
      <4> QED
        BY <1>0, <4>1 DEF TypeOK
    <3>2. CASE PoolRelease(c, p)
      <4>1. free[p] \in Nat /\ free' = [free EXCEPT ![p] = @ + 1]
        BY <1>0, <3>2 DEF PoolRelease, TypeOK
      <4> QED
        BY <1>0, <4>1 DEF TypeOK
    <3> QED
      BY <1>2, <3>1, <3>2
  <2> QED
    <3>1. /\ Continue(c, Tail(t))
          /\ UNCHANGED <<peerVars, arg, uid, lost, redisVars, cntVars>>
      BY <1>2 DEF PoolGet, PoolRelease
    <3>2. /\ uid' \in [Conns -> Users \cup {None}] /\ lost' \in [Pools -> Nat]
          /\ online' \subseteq Users /\ located' \subseteq Users /\ faults' \in 0 .. MaxFaults
          /\ UNCHANGED <<peerVars, arg, asked, answered>>
      BY <1>0, <3>1 DEF TypeOK, redisVars, cntVars
    <3> HIDE DEF t
    <3> QED
      BY <1>0, <1>1, <2>1, <3>1, <3>2, CoreDone DEF t
<1>3. CASE Select(c) \/ TestOnline(c) \/ Insert(c)
  <2>1. /\ t[1].do \in {"select", "insert", "online?"}
        /\ \/ Continue(c, Tail(t)) \/ Continue(c, Tail(Tail(t)))
           \/ t[1].do = "online?" /\ Continue(c, Tail(Tail(Tail(t))))
    BY <1>3 DEF Select, TestOnline, Insert, At, Do
  <2>2. UNCHANGED <<peerVars, arg, uid, poolVars, redisVars, cntVars>>
    BY <1>3 DEF Select, TestOnline, Insert
  <2>3. /\ uid' \in [Conns -> Users \cup {None}] /\ lost' \in [Pools -> Nat]
        /\ free' \in [Pools -> Nat] /\ faults' \in 0 .. MaxFaults
        /\ online' \subseteq Users /\ located' \subseteq Users
        /\ UNCHANGED <<peerVars, arg, asked, answered>>
    BY <1>0, <2>2 DEF TypeOK, poolVars, redisVars, cntVars
  <2>4. Range(Tail(t)) \subseteq Range(todo[c])
    BY <1>1
  <2>5. CASE Continue(c, Tail(t))
    BY <1>0, <1>1, <2>3, <2>4, <2>5, CoreDone
  <2>6. CASE Continue(c, Tail(Tail(t)))
    BY <1>0, <1>1, <2>1, <2>3, <2>6, CoreDone
  <2>7. CASE t[1].do = "online?" /\ Continue(c, Tail(Tail(Tail(t))))
    BY <1>0, <1>1, <2>3, <2>7, CoreDone
  <2> QED
    BY <2>1, <2>5, <2>6, <2>7
<1>4. CASE SetOnline(c)
  <2>1. arg[c] \in Users
    BY <1>0, <1>4 DEF SetOnline, At, Core, RequestsAgree
  <2>2. online' \subseteq Users /\ uid' \in [Conns -> Users \cup {None}]
    BY <1>0, <1>4, <2>1 DEF SetOnline, TypeOK
  <2> QED
    BY <1>0, <1>1, <1>4, <2>2, CoreDone DEF SetOnline, TypeOK, poolVars, cntVars
<1>5. CASE SetLocation(c)
  <2>1. arg[c] \in Users
    BY <1>0, <1>5 DEF SetLocation, At, Core, RequestsAgree
  <2>2. located' \subseteq Users
    BY <1>0, <1>5, <2>1 DEF SetLocation, TypeOK
  <2> QED
    BY <1>0, <1>1, <1>5, <2>2, CoreDone DEF SetLocation, TypeOK, poolVars, cntVars
<1>6. CASE DelOnline(c) \/ DelLocation(c)
  BY <1>0, <1>1, <1>6, CoreDone DEF DelOnline, DelLocation, TypeOK, poolVars, cntVars
<1>7. CASE SendResponse(c)
  <2>1. /\ answered[c] < asked[c] /\ t[1] = Do("send")
        /\ Do("set") \in Range(t) \/ Do("setloc") \in Range(t) => arg[c] \in Users
    BY <1>0, <1>7 DEF SendResponse, At, Core, RequestsAgree
  <2>2. /\ answered' = [answered EXCEPT ![c] = @ + 1]
        /\ UNCHANGED <<peerVars, arg, uid, poolVars, redisVars, asked, faults>>
        /\ Continue(c, Tail(t))
    BY <1>7 DEF SendResponse
  <2>3. /\ answered' \in [Conns -> 0 .. MaxReq] /\ answered'[c] <= asked[c]
        /\ \A d \in Conns : d # c => answered'[d] = answered[d]
    BY <1>0, <2>1, <2>2, SizeAssumption DEF TypeOK
  <2>4. Do("send") \notin Range(Tail(t))
    BY <1>1, <2>1
  <2>5. /\ uid' \in [Conns -> Users \cup {None}]
        /\ free' \in [Pools -> Nat] /\ lost' \in [Pools -> Nat]
        /\ online' \subseteq Users /\ located' \subseteq Users /\ faults' \in 0 .. MaxFaults
    BY <1>0, <2>2 DEF TypeOK, poolVars, redisVars
  <2> HIDE DEF t
  <2> QED
    BY <1>1, <2>1, <2>2, <2>3, <2>4, <2>5, CoreContinue
<1>8. CASE SendRaises(c) \/ CommitRaises(c)
  <2>1. /\ pc' = [pc EXCEPT ![c] = "dead"] /\ todo' = [todo EXCEPT ![c] = <<>>]
        /\ UNCHANGED <<peerVars, arg, uid, free, redisVars, asked, answered>>
        /\ faults' \in 0 .. MaxFaults /\ lost' \in [Pools -> Nat]
    BY <1>0, <1>8, SizeAssumption, SMTT(30)
       DEF SendRaises, CommitRaises, TypeOK, poolVars, cntVars, Pools
  <2>2. Orderly(<<>>) /\ <<>> \in Seq(StepsOf) /\ Range(<<>>) = {}
    BY DEF Orderly, Distinct, GivesBack, InOrder, TakenEarlier, FinallyFits, SkipsFit, Range
  <2>3. /\ todo'[c] = <<>> /\ \A d \in Conns : d # c => todo'[d] = todo[d]
        /\ \A d \in Conns : pc'[d] = "work" <=> todo'[d] # <<>>
    BY <1>0, <2>1 DEF TypeOK
  <2>4. TypeOK'
    BY <1>0, <2>1, <2>2, <2>3 DEF TypeOK, peerVars, redisVars
  <2>5. TodoOrderly' /\ RequestsAgree'
    BY <2>1, <2>2, <2>3 DEF Core, TodoOrderly, RequestsAgree
  <2> QED
    BY <2>4, <2>5 DEF Core
<1>9. CASE ServiceRaises(c)
  <2>1. /\ t[1].do \in Tries /\ Continue(c, Finally(t[1].do))
        /\ UNCHANGED <<peerVars, arg, uid, poolVars, asked, answered>>
        /\ faults' \in 0 .. MaxFaults
    BY <1>0, <1>9, SizeAssumption DEF ServiceRaises, Calls, Tries, TypeOK
  <2>2. /\ t[1] = Do("set") \/ t[1] = Do("setloc") => arg[c] \in Users
        /\ t[1].do = "set" => t[1] = Do("set")
        /\ t[1].do = "setloc" => t[1] = Do("setloc")
    <3>1. t[1] \in StepsOf
      BY <1>0, AtStep
    <3> QED
      BY <1>0, <3>1 DEF Core, RequestsAgree, StepsOf, Do, Get, Put
  <2>3. online' \subseteq Users
    BY <1>0, <1>9, <2>2 DEF ServiceRaises, TypeOK
  <2>4. located' \subseteq Users
    BY <1>0, <1>9, <2>2 DEF ServiceRaises, TypeOK
  <2>5. /\ Finally(t[1].do) \in Seq(StepsOf) /\ Orderly(Finally(t[1].do))
        /\ Range(Finally(t[1].do)) \subseteq Range(t)
    BY <1>0, <2>1, FinallyRests
  <2>6. /\ uid' \in [Conns -> Users \cup {None}]
        /\ free' \in [Pools -> Nat] /\ lost' \in [Pools -> Nat]
    BY <1>0, <2>1 DEF TypeOK, poolVars
  <2> QED
    BY <1>0, <2>1, <2>3, <2>4, <2>5, <2>6, CoreDone
<1> QED
  BY <1>2, <1>3, <1>4, <1>5, <1>6, <1>7, <1>8, <1>9 DEF Service, Fault

\* The loop of handler starts requests, and logouts.
LEMMA CoreHandler == ASSUME Core, NEW c \in Conns, handler(c) PROVE Core'
<1>1. /\ Orderly(LogoutSteps) /\ LogoutSteps \in Seq(StepsOf) /\ LogoutSteps # <<>>
      /\ Do("send") \notin Range(LogoutSteps) /\ Do("set") \notin Range(LogoutSteps)
      /\ Do("setloc") \notin Range(LogoutSteps)
  <2>1. "logout" \in Cmds /\ Steps("logout") = LogoutSteps
    BY DEF Cmds, Steps
  <2>2. /\ Do("send") \notin Range(LogoutSteps) /\ Do("set") \notin Range(LogoutSteps)
        /\ Do("setloc") \notin Range(LogoutSteps)
    BY DEF LogoutSteps, Range, Get, Put, Do
  <2> QED
    BY <2>1, <2>2, OrderlySteps
<1>2. ASSUME pc[c] \in {"init", "recv"}, pc' = [pc EXCEPT ![c] = "work"],
             todo' = [todo EXCEPT ![c] = LogoutSteps],
             eof' \subseteq gone, closing' \subseteq Conns,
             UNCHANGED <<owner, gone, arg, uid, poolVars, redisVars, cntVars>>
      PROVE  Core'
  <2>1. /\ todo'[c] = LogoutSteps /\ \A d \in Conns : d # c => todo'[d] = todo[d]
        /\ todo' \in [Conns -> Seq(StepsOf)]
        /\ UNCHANGED <<free, lost, online, located, asked, answered, faults>>
    BY <1>1, <1>2 DEF Core, TypeOK, poolVars, redisVars, cntVars
  <2>2. \A d \in Conns : pc'[d] = "work" <=> todo'[d] # <<>>
    BY <1>1, <1>2, <2>1 DEF Core, TypeOK
  <2>3. TypeOK'
    BY <1>2, <2>1, <2>2 DEF Core, TypeOK
  <2>4. TodoOrderly'
    BY <1>1, <2>1 DEF Core, TodoOrderly
  <2>5. RequestsAgree'
    BY <1>1, <1>2, <2>1 DEF Core, RequestsAgree
  <2> QED
    BY <2>3, <2>4, <2>5 DEF Core
<1>3. ASSUME pc[c] \in {"init", "recv"}, pc' \in [Conns -> {"idle", "init", "recv", "work", "closed", "dead"}],
             \A d \in Conns : d # c => pc'[d] = pc[d], pc'[c] # "work", eof' \subseteq gone,
             UNCHANGED <<owner, gone, closing, jobVars, poolVars, redisVars, cntVars>>
      PROVE  Core'
  <2>1. UNCHANGED <<todo, arg, uid, free, lost, online, located, asked, answered, faults>>
    BY <1>3 DEF jobVars, poolVars, redisVars, cntVars
  <2>2. \A d \in Conns : pc'[d] = "work" <=> todo'[d] # <<>>
    BY <1>3, <2>1 DEF Core, TypeOK
  <2>3. TypeOK'
    BY <1>3, <2>1, <2>2 DEF Core, TypeOK
  <2>4. TodoOrderly' /\ RequestsAgree'
    BY <1>3, <2>1 DEF Core, TodoOrderly, RequestsAgree
  <2> QED
    BY <2>3, <2>4 DEF Core
<1>4. CASE InitSession(c)
  BY <1>2, <1>3, <1>4 DEF InitSession, Core, TypeOK, jobVars
<1>5. CASE BadRequest(c)
  BY <1>3, <1>5 DEF BadRequest, Core, TypeOK, peerVars
<1>6. CASE Eof(c)
  BY <1>2, <1>6 DEF Eof, Core, TypeOK
<1>7. CASE Truncated(c)
  BY <1>2, <1>3, <1>7 DEF Truncated, Core, TypeOK, jobVars
<1>8. ASSUME NEW cmd \in Cmds, NEW u \in Users, Request(c, cmd, u) PROVE Core'
  <2>1. /\ pc[c] = "recv" /\ asked[c] < MaxReq /\ pc' = [pc EXCEPT ![c] = "work"]
        /\ todo' = [todo EXCEPT ![c] = Steps(cmd)] /\ arg' = [arg EXCEPT ![c] = u]
        /\ asked' = [asked EXCEPT ![c] = @ + 1]
        /\ UNCHANGED <<owner, gone, eof, closing, uid, free, lost, online, located, answered,
                       faults>>
    BY <1>8 DEF Request, peerVars, poolVars, redisVars
  <2>2. /\ Orderly(Steps(cmd)) /\ Steps(cmd) \in Seq(StepsOf) /\ Steps(cmd) # <<>>
    BY OrderlySteps
  <2>3. /\ todo'[c] = Steps(cmd) /\ \A d \in Conns : d # c => todo'[d] = todo[d]
        /\ todo' \in [Conns -> Seq(StepsOf)]
    BY <2>1, <2>2 DEF Core, TypeOK
  <2>4. \A d \in Conns : pc'[d] = "work" <=> todo'[d] # <<>>
    BY <2>1, <2>2, <2>3 DEF Core, TypeOK
  <2>5. /\ asked[c] \in Nat /\ answered[c] \in Nat /\ answered[c] <= asked[c]
        /\ asked'[c] = asked[c] + 1 /\ answered'[c] = answered[c] /\ arg'[c] = u
        /\ \A d \in Conns : d # c => asked'[d] = asked[d] /\ arg'[d] = arg[d]
        /\ asked' \in [Conns -> 0 .. MaxReq]
    BY <2>1, SizeAssumption DEF Core, TypeOK, RequestsAgree
  <2>6. TypeOK'
    BY <2>1, <2>3, <2>4, <2>5 DEF Core, TypeOK
  <2>7. TodoOrderly'
    BY <2>2, <2>3 DEF Core, TodoOrderly
  <2>8. RequestsAgree'
    BY <2>1, <2>3, <2>5 DEF Core, RequestsAgree
  <2> QED
    BY <2>6, <2>7, <2>8 DEF Core
<1> QED
  BY <1>4, <1>5, <1>6, <1>7, <1>8 DEF handler

\* Every step of every greenlet and client keeps it.
LEMMA CoreNext == ASSUME Core, [Next]_vars PROVE Core'
<1>1. CASE UNCHANGED vars
  <2>1. UNCHANGED <<pc, owner, gone, eof, closing, todo, arg, uid, free, lost, online,
                    located, asked, answered, faults>>
    BY <1>1 DEF vars, peerVars, jobVars, poolVars, redisVars, cntVars
  <2>2. TypeOK'
    BY <2>1 DEF Core, TypeOK
  <2>3. TodoOrderly' /\ RequestsAgree'
    BY <2>1 DEF Core, TodoOrderly, RequestsAgree
  <2> QED
    BY <2>2, <2>3 DEF Core
<1>2. ASSUME NEW c \in Conns, NEW u \in Users, Connect(c, u) PROVE Core'
  <2>1. /\ UNCHANGED <<gone, eof, closing, todo, arg, uid, free, lost, online, located,
                       asked, answered, faults>>
        /\ owner' \in {owner, [owner EXCEPT ![c] = u]} /\ pc[c] = "idle"
        /\ pc' = [pc EXCEPT ![c] = "init"]
    BY <1>2 DEF Connect, jobVars, poolVars, redisVars, cntVars
  <2>2. \A d \in Conns : pc'[d] = "work" <=> todo'[d] # <<>>
    BY <2>1 DEF Core, TypeOK
  <2>3. TypeOK'
    BY <2>1, <2>2 DEF Core, TypeOK
  <2>4. TodoOrderly' /\ RequestsAgree'
    BY <2>1 DEF Core, TodoOrderly, RequestsAgree
  <2> QED
    BY <2>3, <2>4 DEF Core
<1>3. ASSUME NEW c \in Conns, HangUp(c) PROVE Core'
  <2>1. /\ UNCHANGED <<pc, owner, eof, closing, todo, arg, uid, free, lost, online, located,
                       asked, answered, faults>>
        /\ gone' = gone \cup {c}
    BY <1>3 DEF HangUp, jobVars, poolVars, redisVars, cntVars
  <2>2. TypeOK'
    BY <2>1 DEF Core, TypeOK
  <2>3. TodoOrderly' /\ RequestsAgree'
    BY <2>1 DEF Core, TodoOrderly, RequestsAgree
  <2> QED
    BY <2>2, <2>3 DEF Core
<1>4. ASSUME NEW c \in Conns, handler(c) PROVE Core'
  BY <1>4, CoreHandler
<1>5. ASSUME NEW c \in Conns, Service(c) \/ Fault(c) PROVE Core'
  BY <1>5, CoreService
<1> QED
  BY <1>1, <1>2, <1>3, <1>4, <1>5 DEF Next, Client, Finished

\* The types: every step leaves each variable among its values, and a
\* greenlet works exactly as long as steps of its request are left.
THEOREM TypeSafe == Spec => []TypeOK
<1>1. Core /\ [Next]_vars => Core'
  BY CoreNext
<1>2. Core => TypeOK
  BY DEF Core
<1> QED
  BY <1>1, <1>2, CoreInit, PTL DEF Spec

-----------------------------------------------------------------------------
(* The pools.                                                              *)

\* The pools that a greenlet with t left has a connection of.
HeldBy(t) == {p \in Pools : Put(p) \in Range(t) /\ Get(p) \notin Range(t)}

Holders(p) == {c \in Conns : p \in HeldBy(todo[c])}

LEMMA HoldersHold ==
    /\ PoolsConserved <=>
         \A p \in Pools : free[p] + Cardinality(Holders(p)) + lost[p] = PoolSize[p]
    /\ \A p \in Pools : IsFiniteSet(Holders(p)) /\ Cardinality(Holders(p)) \in Nat
<1>1. \A p \in Pools : {c \in Conns : Holds(c, p)} = Holders(p)
  BY DEF Holders, HeldBy, Holds, Pending, Range
<1>2. \A p \in Pools : IsFiniteSet(Holders(p)) /\ Cardinality(Holders(p)) \in Nat
  BY ConnsAssumption, FS_Subset, FS_CardinalityType DEF Holders
<1> QED
  BY <1>1, <1>2 DEF PoolsConserved

\* The same as a number.
Held(p, t) == IF p \in HeldBy(t) THEN 1 ELSE 0

\* A step of c changes who holds connections of p by what c has left.
LEMMA HoldersMove ==
    ASSUME Core, NEW c \in Conns, NEW rest, todo' = [todo EXCEPT ![c] = rest],
           NEW p \in Pools
    PROVE  Cardinality({d \in Conns : p \in HeldBy(todo'[d])}) + Held(p, todo[c])
               = Cardinality(Holders(p)) + Held(p, rest)
<1> DEFINE Now == {d \in Conns : p \in HeldBy(todo'[d])}
<1>1. todo'[c] = rest /\ \A d \in Conns : d # c => todo'[d] = todo[d]
  BY DEF Core, TypeOK
<1>2. IsFiniteSet(Holders(p)) /\ Cardinality(Holders(p)) \in Nat
  BY HoldersHold
<1>3. CASE p \in HeldBy(todo[c]) <=> p \in HeldBy(rest)
  <2>1. Now = Holders(p) /\ Held(p, todo[c]) = Held(p, rest)
    BY <1>1, <1>3 DEF Holders, Held
  <2> QED
    BY <2>1
<1>4. CASE p \notin HeldBy(todo[c]) /\ p \in HeldBy(rest)
  <2>1. Now = Holders(p) \cup {c} /\ c \notin Holders(p)
    BY <1>1, <1>4 DEF Holders
  <2>2. Cardinality(Holders(p) \cup {c}) = Cardinality(Holders(p)) + 1
    BY <1>2, <2>1, FS_AddElement
  <2>3. Held(p, todo[c]) = 0 /\ Held(p, rest) = 1
    BY <1>4 DEF Held
  <2>4. Cardinality(Now) = Cardinality(Holders(p)) + 1
    BY <2>1, <2>2
  <2> HIDE DEF Now
  <2> QED
    BY <1>2, <2>3, <2>4 DEF Now
<1>5. CASE p \in HeldBy(todo[c]) /\ p \notin HeldBy(rest)
  <2>1. Now = Holders(p) \ {c} /\ c \in Holders(p)
    BY <1>1, <1>5 DEF Holders
  <2>2. Cardinality(Holders(p) \ {c}) = Cardinality(Holders(p)) - 1
    BY <1>2, <2>1, FS_RemoveElement
  <2>3. Held(p, todo[c]) = 1 /\ Held(p, rest) = 0
    BY <1>5 DEF Held
  <2>4. Cardinality(Now) = Cardinality(Holders(p)) - 1
    BY <2>1, <2>2
  <2> HIDE DEF Now
  <2> QED
    BY <1>2, <2>3, <2>4 DEF Now
<1> QED
  BY <1>3, <1>4, <1>5

\* So the pools are conserved when each gets what c no longer holds.
LEMMA BalanceOne ==
    ASSUME Core, PoolsConserved, Core', NEW c \in Conns, NEW rest,
           todo' = [todo EXCEPT ![c] = rest], NEW p \in Pools,
           free'[p] + lost'[p] + Held(p, rest) = free[p] + lost[p] + Held(p, todo[c])
    PROVE  free'[p] + Cardinality({d \in Conns : p \in HeldBy(todo'[d])}) + lost'[p]
               = PoolSize[p]
<1> DEFINE Now == {d \in Conns : p \in HeldBy(todo'[d])}
<1>1. /\ free[p] \in Nat /\ lost[p] \in Nat /\ free'[p] \in Nat /\ lost'[p] \in Nat
      /\ PoolSize[p] \in Nat
  BY SizeAssumption DEF Core, TypeOK, PoolSize, Pools
<1>2. /\ free[p] + Cardinality(Holders(p)) + lost[p] = PoolSize[p]
      /\ Cardinality(Holders(p)) \in Nat
  BY HoldersHold
<1>3. Cardinality(Now) + Held(p, todo[c]) = Cardinality(Holders(p)) + Held(p, rest)
  BY HoldersMove
<1>4. Cardinality(Now) \in Nat
  BY ConnsAssumption, FS_Subset, FS_CardinalityType
<1>5. Held(p, todo[c]) \in Nat /\ Held(p, rest) \in Nat
  BY DEF Held
<1> HIDE DEF Now
<1> QED
  BY <1>1, <1>2, <1>3, <1>4, <1>5 DEF Now

LEMMA Balance ==
    ASSUME Core, PoolsConserved, Core', NEW c \in Conns, NEW rest,
           todo' = [todo EXCEPT ![c] = rest],
           \A p \in Pools : free'[p] + lost'[p] + Held(p, rest)
                                = free[p] + lost[p] + Held(p, todo[c])
    PROVE  PoolsConserved'
BY BalanceOne DEF PoolsConserved, Holds, Pending, HeldBy, Range

\* What is held before the first step of a request: nothing.
LEMMA StepsHoldNothing == \A cmd \in Cmds : HeldBy(Steps(cmd)) = {}
<1>1. HeldBy(LoginSteps) = {}
  BY DEF HeldBy, LoginSteps, Range, Get, Put, Do, Pools
<1>2. HeldBy(UplocationSteps) = {}
  BY DEF HeldBy, UplocationSteps, Range, Get, Put, Do, Pools
<1>3. HeldBy(LogoutSteps) = {}
  BY DEF HeldBy, LogoutSteps, Range, Get, Put, Do, Pools
<1>4. HeldBy(EchoSteps) = {}
  BY DEF HeldBy, EchoSteps, Range, Get, Put, Do, Pools
<1> QED
  BY <1>1, <1>2, <1>3, <1>4 DEF Steps, Cmds

\* What a step does to what its greenlet holds.
LEMMA HeldAfter ==
    ASSUME Core, NEW c \in Conns, pc[c] = "work"
    PROVE  LET t == todo[c]
           IN  \A p \in Pools :
                 /\ t[1] = Get(p) => p \notin HeldBy(t) /\ HeldBy(Tail(t)) = HeldBy(t) \cup {p}
                 /\ t[1] = Put(p) => p \in HeldBy(t) /\ HeldBy(Tail(t)) = HeldBy(t) \ {p}
<1> DEFINE t == todo[c]
<1>1. /\ Range(Tail(t)) = Range(t) \ {t[1]} /\ t[1] \in Range(t) /\ Orderly(t)
      /\ 1 \in DOMAIN t /\ \A i \in DOMAIN t : i = 1 \/ 1 < i
  <2>1. /\ t \in Seq(StepsOf) /\ t[1] \in Range(t) /\ Orderly(t) /\ 1 \in DOMAIN t
    BY AtStep
  <2>2. \A i \in DOMAIN t : i = 1 \/ 1 < i
    BY <2>1, LenProperties
  <2>3. Range(Tail(t)) = Range(t) \ {t[1]}
    BY Rests
  <2> QED
    BY <2>1, <2>2, <2>3
<1> HIDE DEF t
<1> SUFFICES ASSUME NEW p \in Pools
             PROVE  /\ t[1] = Get(p) => p \notin HeldBy(t) /\ HeldBy(Tail(t)) = HeldBy(t) \cup {p}
                    /\ t[1] = Put(p) => p \in HeldBy(t) /\ HeldBy(Tail(t)) = HeldBy(t) \ {p}
  BY DEF t
<1>2. \A q \in Pools : /\ Get(p) # Put(q) /\ Put(p) # Get(q)
                       /\ Get(p) = Get(q) => p = q
                       /\ Put(p) = Put(q) => p = q
  BY DEF Get, Put
<1>3. ASSUME t[1] = Get(p)
      PROVE  p \notin HeldBy(t) /\ HeldBy(Tail(t)) = HeldBy(t) \cup {p}
  <2>1. Put(p) \in Range(t) /\ Get(p) \in Range(t)
    BY <1>1, <1>3 DEF Orderly, GivesBack, Range
  <2>2. \A q \in Pools : Put(q) \in Range(Tail(t)) <=> Put(q) \in Range(t)
    BY <1>1, <1>2, <1>3
  <2>3. \A q \in Pools : Get(q) \in Range(Tail(t)) <=> Get(q) \in Range(t) /\ q # p
    BY <1>1, <1>3 DEF Get
  <2> QED
    BY <2>1, <2>2, <2>3 DEF HeldBy
<1>4. ASSUME t[1] = Put(p)
      PROVE  p \in HeldBy(t) /\ HeldBy(Tail(t)) = HeldBy(t) \ {p}
  <2>1. \A q \in Pools : Get(q) \notin Range(t)
    <3>1. \A i \in DOMAIN t : t[i].do # "get"
      BY <1>1, <1>4 DEF Orderly, InOrder, Put
    <3> QED
      BY <3>1 DEF Range, Get
  <2>2. \A q \in Pools : Put(q) \in Range(Tail(t)) <=> Put(q) \in Range(t) /\ q # p
    BY <1>1, <1>4 DEF Put
  <2>3. \A q \in Pools : Get(q) \notin Range(Tail(t))
    BY <1>1, <2>1
  <2> QED
    BY <1>1, <1>4, <2>1, <2>2, <2>3 DEF HeldBy
<1> QED
  BY <1>3, <1>4

\* Steps that are no Get and no Put change nothing of what is held.
LEMMA HeldKept ==
    ASSUME NEW t, NEW u, Range(u) \subseteq Range(t),
           \A s \in Range(t) : s \in Range(u) \/ s.do \notin {"get", "put"}
    PROVE  HeldBy(u) = HeldBy(t)
<1>1. \A p \in Pools : /\ Get(p) \in Range(u) <=> Get(p) \in Range(t)
                       /\ Put(p) \in Range(u) <=> Put(p) \in Range(t)
  BY DEF Get, Put
<1> QED
  BY <1>1 DEF HeldBy

LEMMA PoolsService ==
    ASSUME Core, PoolsConserved, Core', NEW c \in Conns, Service(c) \/ Fault(c)
    PROVE  PoolsConserved'
<1> DEFINE t == todo[c]
<1>0. /\ pc[c] = "work" /\ 1 \in DOMAIN t /\ t[1] \in Range(t) /\ Orderly(t)
      /\ \A i \in DOMAIN t : i = 1 \/ 1 < i
  BY AtStep, LenProperties
     DEF Service, Fault, PoolGet, PoolRelease, Select, SetOnline, TestOnline, Insert,
         SetLocation, DelOnline, DelLocation, SendResponse, SendRaises, ServiceRaises,
         CommitRaises, At, Calls, Core
<1>1. /\ Range(Tail(t)) = Range(t) \ {t[1]}
      /\ t[1].do \in {"select", "insert", "online?"} =>
           /\ Range(Tail(Tail(t))) = Range(t) \ {t[1], t[2]}
           /\ t[2].do \in {"set", "insert", "setloc"}
      /\ t[1].do = "online?" =>
           /\ Range(Tail(Tail(Tail(t)))) = Range(t) \ {t[1], t[2], t[3]}
           /\ t[3].do = "setloc"
  BY <1>0, Rests
<1>2. \A p \in Pools : free[p] \in Nat /\ lost[p] \in Nat
  BY DEF Core, TypeOK
<1>3. ASSUME NEW rest, todo' = [todo EXCEPT ![c] = rest], HeldBy(rest) = HeldBy(t),
             UNCHANGED poolVars
      PROVE  PoolsConserved'
  <2>1. \A p \in Pools : Held(p, rest) = Held(p, todo[c])
    BY <1>3 DEF Held
  <2>2. \A p \in Pools : free'[p] + lost'[p] + Held(p, rest)
                            = free[p] + lost[p] + Held(p, todo[c])
    BY <1>3, <2>1 DEF poolVars
  <2> QED
    BY <1>3, <2>2, Balance
<1>4. ASSUME NEW q \in Pools, PoolGet(c, q) PROVE PoolsConserved'
  <2>1. /\ todo' = [todo EXCEPT ![c] = Tail(t)] /\ t[1] = Get(q)
        /\ free' = [free EXCEPT ![q] = @ - 1] /\ lost' = lost
    BY <1>4 DEF PoolGet, Continue, At
  <2>2. q \notin HeldBy(t) /\ HeldBy(Tail(t)) = HeldBy(t) \cup {q}
    BY <1>0, <2>1, HeldAfter
  <2>3. /\ Held(q, t) = 0 /\ Held(q, Tail(t)) = 1
        /\ \A p \in Pools : p # q => Held(p, Tail(t)) = Held(p, t)
    BY <2>2 DEF Held
  <2>4. \A p \in Pools : free'[p] = IF p = q THEN free[p] - 1 ELSE free[p]
    BY <2>1 DEF Core, TypeOK
  <2>5. \A p \in Pools : free'[p] + lost'[p] + Held(p, Tail(t))
                            = free[p] + lost[p] + Held(p, todo[c])
    <3> SUFFICES ASSUME NEW p \in Pools
                 PROVE  free'[p] + lost'[p] + Held(p, Tail(t))
                            = free[p] + lost[p] + Held(p, todo[c])
      OBVIOUS
    <3>1. CASE p = q
      BY <1>2, <2>1, <2>3, <2>4, <3>1
    <3>2. CASE p # q
      BY <1>2, <2>1, <2>3, <2>4, <3>2
    <3> QED
      BY <3>1, <3>2
  <2> QED
    BY <2>1, <2>5, Balance
<1>5. ASSUME NEW q \in Pools, PoolRelease(c, q) PROVE PoolsConserved'
  <2>1. /\ todo' = [todo EXCEPT ![c] = Tail(t)] /\ t[1] = Put(q)
        /\ free' = [free EXCEPT ![q] = @ + 1] /\ lost' = lost
    BY <1>5 DEF PoolRelease, Continue, At
  <2>2. q \in HeldBy(t) /\ HeldBy(Tail(t)) = HeldBy(t) \ {q}
    BY <1>0, <2>1, HeldAfter
  <2>3. /\ Held(q, t) = 1 /\ Held(q, Tail(t)) = 0
        /\ \A p \in Pools : p # q => Held(p, Tail(t)) = Held(p, t)
    BY <2>2 DEF Held
  <2>4. \A p \in Pools : free'[p] = IF p = q THEN free[p] + 1 ELSE free[p]
    BY <2>1 DEF Core, TypeOK
  <2>5. \A p \in Pools : free'[p] + lost'[p] + Held(p, Tail(t))
                            = free[p] + lost[p] + Held(p, todo[c])
    <3> SUFFICES ASSUME NEW p \in Pools
                 PROVE  free'[p] + lost'[p] + Held(p, Tail(t))
                            = free[p] + lost[p] + Held(p, todo[c])
      OBVIOUS
    <3>1. CASE p = q
      BY <1>2, <2>1, <2>3, <2>4, <3>1
    <3>2. CASE p # q
      BY <1>2, <2>1, <2>3, <2>4, <3>2
    <3> QED
      BY <3>1, <3>2
  <2> QED
    BY <2>1, <2>5, Balance
<1>6. CASE \/ SetOnline(c) \/ SetLocation(c) \/ DelOnline(c) \/ DelLocation(c)
           \/ SendResponse(c)
  <2>1. /\ todo' = [todo EXCEPT ![c] = Tail(t)] /\ UNCHANGED poolVars
        /\ t[1].do \notin {"get", "put"}
    BY <1>6 DEF SetOnline, SetLocation, DelOnline, DelLocation, SendResponse, Continue, At, Do
  <2>2. HeldBy(Tail(t)) = HeldBy(t)
    BY <1>1, <2>1, HeldKept
  <2> QED
    BY <1>3, <2>1, <2>2
<1>7. CASE Select(c) \/ TestOnline(c) \/ Insert(c)
  <2>0. /\ t[1].do \in {"select", "insert", "online?"} /\ UNCHANGED poolVars
        /\ \/ Continue(c, Tail(t)) \/ Continue(c, Tail(Tail(t)))
           \/ t[1].do = "online?" /\ Continue(c, Tail(Tail(Tail(t))))
    BY <1>7 DEF Select, TestOnline, Insert, At, Do
  <2>1. PICK rest : /\ todo' = [todo EXCEPT ![c] = rest]
                    /\ \/ rest = Tail(t) \/ rest = Tail(Tail(t))
                       \/ rest = Tail(Tail(Tail(t))) /\ t[1].do = "online?"
    BY <2>0 DEF Continue
  <2>2. /\ Range(rest) \subseteq Range(t)
        /\ \A s \in Range(t) : s \in Range(rest) \/ s.do \notin {"get", "put"}
    <3>1. CASE rest = Tail(t)
      BY <1>1, <2>0, <3>1
    <3>2. CASE rest = Tail(Tail(t))
      BY <1>1, <2>0, <3>2
    <3>3. CASE rest = Tail(Tail(Tail(t))) /\ t[1].do = "online?"
      BY <1>1, <2>0, <3>3
    <3> QED
      BY <2>1, <3>1, <3>2, <3>3
  <2>3. HeldBy(rest) = HeldBy(t)
    BY <2>2, HeldKept
  <2> QED
    BY <1>3, <2>0, <2>1, <2>3
<1>8. CASE SendRaises(c)
  <2>1. /\ todo' = [todo EXCEPT ![c] = <<>>] /\ UNCHANGED poolVars /\ t[1].do = "send"
    BY <1>8 DEF SendRaises, At, Do
  <2>2. \A i \in DOMAIN t : i = 1
    BY <1>0, <2>1 DEF Orderly, InOrder
  <2>3. HeldBy(<<>>) = HeldBy(t)
    BY <2>1, <2>2, HeldKept DEF Range
  <2> QED
    BY <1>3, <2>1, <2>3
<1>9. CASE ServiceRaises(c)
  <2>1. /\ todo' = [todo EXCEPT ![c] = Finally(t[1].do)] /\ UNCHANGED poolVars
        /\ t[1].do \in Tries
    BY <1>9 DEF ServiceRaises, Calls, Tries, Continue
  <2>2. HeldBy(Finally(t[1].do)) = HeldBy(t)
    BY <1>0, <2>1, FinallyRests DEF HeldBy
  <2> QED
    BY <1>3, <2>1, <2>2
<1>10. CASE CommitRaises(c)
  <2>1. /\ todo' = [todo EXCEPT ![c] = <<>>] /\ t[1] = Put("db")
        /\ lost' = [lost EXCEPT !["db"] = @ + 1] /\ free' = free
    BY <1>10 DEF CommitRaises, At
  <2>2. HeldBy(t) = {"db"} /\ HeldBy(<<>>) = {}
    <3>1. \A i \in DOMAIN t : t[i] = Put("db") \/ t[i].do = "send"
      BY <1>0, <2>1 DEF Orderly, InOrder
    <3>2. \A p \in Pools : Put(p) \in Range(t) => p = "db"
      BY <3>1 DEF Range, Put
    <3>3. Get("db") \notin Range(t)
      BY <3>1 DEF Range, Get, Put
    <3> QED
      BY <1>0, <2>1, <3>2, <3>3 DEF HeldBy, Range, Pools
  <2>3. /\ Held("db", t) = 1 /\ Held("db", <<>>) = 0
        /\ \A p \in Pools : p # "db" => Held(p, <<>>) = Held(p, t)
    BY <2>2 DEF Held
  <2>4. \A p \in Pools : lost'[p] = IF p = "db" THEN lost[p] + 1 ELSE lost[p]
    BY <2>1 DEF Core, TypeOK
  <2>5. \A p \in Pools : free'[p] + lost'[p] + Held(p, <<>>)
                            = free[p] + lost[p] + Held(p, todo[c])
    <3> SUFFICES ASSUME NEW p \in Pools
                 PROVE  free'[p] + lost'[p] + Held(p, <<>>)
                            = free[p] + lost[p] + Held(p, todo[c])
      OBVIOUS
    <3>1. CASE p = "db"
      BY <1>2, <2>1, <2>3, <2>4, <3>1
    <3>2. CASE p # "db"
      BY <1>2, <2>1, <2>3, <2>4, <3>2
    <3> QED
      BY <3>1, <3>2
  <2> QED
    BY <2>1, <2>5, Balance
<1> QED
  BY <1>4, <1>5, <1>6, <1>7, <1>8, <1>9, <1>10 DEF Service, Fault

LEMMA PoolsInit == Init => PoolsConserved
<1> SUFFICES ASSUME Init PROVE PoolsConserved
  OBVIOUS
<1>1. \A p \in Pools : {c \in Conns : Holds(c, p)} = {}
  BY DEF Init, Holds, Pending
<1>2. \A p \in Pools : PoolSize[p] \in Nat
  BY SizeAssumption DEF PoolSize, Pools
<1>3. \A p \in Pools : Cardinality({c \in Conns : Holds(c, p)}) = 0
  BY <1>1, FS_EmptySet
<1>4. \A p \in Pools : free[p] = PoolSize[p] /\ lost[p] = 0
  BY DEF Init
<1> QED
  BY <1>2, <1>3, <1>4 DEF PoolsConserved

LEMMA PoolsNext == ASSUME Core, PoolsConserved, [Next]_vars PROVE PoolsConserved'
<1>1. Core'
  BY CoreNext
<1>2. ASSUME UNCHANGED <<todo, poolVars>> PROVE PoolsConserved'
  BY <1>2 DEF PoolsConserved, Holds, Pending, poolVars
<1>3. ASSUME NEW c \in Conns, NEW rest, todo' = [todo EXCEPT ![c] = rest],
             HeldBy(rest) = {}, pc[c] # "work", UNCHANGED poolVars
      PROVE  PoolsConserved'
  <2>1. HeldBy(todo[c]) = {}
    BY <1>3 DEF Core, TypeOK, HeldBy, Range
  <2>2. \A p \in Pools : Held(p, rest) = Held(p, todo[c])
    BY <1>3, <2>1 DEF Held
  <2>3. \A p \in Pools : free'[p] + lost'[p] + Held(p, rest)
                            = free[p] + lost[p] + Held(p, todo[c])
    BY <1>3, <2>2 DEF poolVars
  <2> QED
    BY <1>1, <1>3, <2>3, Balance
<1>4. CASE UNCHANGED vars
  BY <1>2, <1>4 DEF vars, jobVars
<1>5. ASSUME NEW c \in Conns, Client(c) PROVE PoolsConserved'
  BY <1>2, <1>5 DEF Client, Connect, HangUp, jobVars
<1>6. ASSUME NEW c \in Conns, handler(c) PROVE PoolsConserved'
  <2>1. HeldBy(LogoutSteps) = {}
    BY StepsHoldNothing DEF Cmds, Steps
  <2>2. CASE InitSession(c) \/ BadRequest(c) \/ Eof(c) \/ Truncated(c)
    <3>1. /\ pc[c] # "work" /\ UNCHANGED poolVars
          /\ UNCHANGED todo \/ todo' = [todo EXCEPT ![c] = LogoutSteps]
      BY <2>2 DEF InitSession, BadRequest, Eof, Truncated, jobVars
    <3> QED
      BY <1>2, <1>3, <2>1, <3>1
  <2>3. ASSUME NEW cmd \in Cmds, NEW u \in Users, Request(c, cmd, u) PROVE PoolsConserved'
    <3>1. /\ pc[c] # "work" /\ UNCHANGED poolVars
          /\ todo' = [todo EXCEPT ![c] = Steps(cmd)]
      BY <2>3 DEF Request
    <3> QED
      BY <1>3, <3>1, StepsHoldNothing
  <2> QED
    BY <1>6, <2>2, <2>3 DEF handler
<1>7. ASSUME NEW c \in Conns, Service(c) \/ Fault(c) PROVE PoolsConserved'
  BY <1>1, <1>7, PoolsService
<1> QED
  BY <1>4, <1>5, <1>6, <1>7 DEF Next, Finished

\* Every connection to MySQL and redis is accounted for: free, held by one
\* greenlet, or lost in a commit that raised -- whatever services raise, and
\* however many greenlets share the pools.
THEOREM PoolsSafe == Spec => []PoolsConserved
<1>1. Core /\ PoolsConserved /\ [Next]_vars => Core' /\ PoolsConserved'
  BY CoreNext, PoolsNext
<1> QED
  BY <1>1, CoreInit, PoolsInit, PTL DEF Spec

(* Why no circle of greenlets waits: each takes the pools in the same order. *)

\* A pool that is awaited and has not lost all its connections is held by a
\* greenlet that, when it waits too, waits for a later pool.
LEMMA HolderWaitsLater ==
    ASSUME Core, PoolsConserved, NEW p \in Pools, free[p] = 0, lost[p] # PoolSize[p]
    PROVE  \E d \in Working : \A q \in Pools : At(d, Get(q)) => TakenBefore(p, q)
<1>1. Holders(p) # {}
  <2> SUFFICES ASSUME Holders(p) = {} PROVE FALSE
    OBVIOUS
  <2>1. Cardinality(Holders(p)) = 0
    BY FS_EmptySet
  <2>2. free[p] + Cardinality(Holders(p)) + lost[p] = PoolSize[p] /\ lost[p] \in Nat
    BY HoldersHold DEF Core, TypeOK
  <2> QED
    BY <2>1, <2>2
<1>2. PICK d \in Conns : p \in HeldBy(todo[d])
  BY <1>1 DEF Holders
<1>3. d \in Working
  BY <1>2 DEF Working, Core, TypeOK, HeldBy, Range
<1>4. /\ \E j \in DOMAIN todo[d] : todo[d][j] = Put(p)
      /\ \A k \in DOMAIN todo[d] : todo[d][k] # Get(p)
  BY <1>2 DEF HeldBy, Range
<1>5. ASSUME NEW q \in Pools, At(d, Get(q)) PROVE TakenBefore(p, q)
  <2>1. 1 \in DOMAIN todo[d] /\ Orderly(todo[d]) /\ todo[d][1] = Get(q)
    BY <1>3, <1>5, AtStep DEF Working, At
  <2> QED
    BY <1>4, <2>1 DEF Orderly, TakenEarlier
<1> QED
  BY <1>3, <1>5

LEMMA NoCircle == Core /\ PoolsConserved => StuckOnlyByLoss
<1> SUFFICES ASSUME Core, PoolsConserved, Working # {}, \A c \in Working : Waits(c),
                    \A p \in Pools : lost[p] # PoolSize[p]
             PROVE  FALSE
  BY DEF StuckOnlyByLoss
<1> DEFINE Awaited(p) == free[p] = 0 /\ \E c \in Working : At(c, Get(p))
<1>1. \A p \in Pools : Awaited(p) => \E q \in Pools : Awaited(q) /\ TakenBefore(p, q)
  <2> SUFFICES ASSUME NEW p \in Pools, free[p] = 0
               PROVE  \E q \in Pools : Awaited(q) /\ TakenBefore(p, q)
    OBVIOUS
  <2>1. PICK d \in Working : \A q \in Pools : At(d, Get(q)) => TakenBefore(p, q)
    BY HolderWaitsLater
  <2>2. PICK q \in Pools : At(d, Get(q)) /\ free[q] = 0
    BY DEF Waits
  <2> QED
    BY <2>1, <2>2
<1>2. \E p \in Pools : Awaited(p)
  BY DEF Waits
<1> HIDE DEF Awaited
<1> QED
  BY <1>1, <1>2 DEF TakenBefore, Pools

\* The greenlets never wait for one another in a circle: when all that work
\* wait, commits that raised have emptied a pool.
THEOREM StuckSafe == Spec => []StuckOnlyByLoss
<1>1. Core /\ PoolsConserved /\ [Next]_vars => Core' /\ PoolsConserved'
  BY CoreNext, PoolsNext
<1> QED
  BY <1>1, CoreInit, PoolsInit, NoCircle, PTL DEF Spec

-----------------------------------------------------------------------------
(* What redis says of a user, while the user is not spoilt.                *)

\* Until its session key has come a connection has no user, and one that is
\* closing has nothing left but its logout.
Fresh == \A c \in Conns : pc[c] \in {"idle", "init"} => uid[c] = None

ClosingLogsOut ==
    \A c \in closing :
        /\ pc[c] \in {"work", "closed", "dead"}
        /\ \A s \in Range(todo[c]) : s.do \in {"get", "put", "del", "delloc"}

\* c is a session of u that is not over, and that has call a ahead of it if it
\* is closing.
Keeps(c, u, a) ==
    /\ pc[c] \in {"recv", "work"} /\ uid[c] = u
    /\ c \in closing => Do(a) \in Range(todo[c])

\* No session of u has died, and only one is not over.
Alone(u) ==
    /\ \A c \in Conns : uid[c] = u => pc[c] # "dead"
    /\ \A c, d \in Conns :
         uid[c] = u /\ uid[d] = u /\ c # d => pc[c] = "closed" \/ pc[d] = "closed"

\* The keys of u belong to that session, which will delete them.
UserAgrees(u) ==
    /\ Alone(u) /\ SessionIsOnline(u)
    /\ u \in online => \E c \in Conns : Keeps(c, u, "del")
    /\ u \in located => \E c \in Conns : Keeps(c, u, "delloc")

HistoryInv ==
    Core /\ Fresh /\ ClosingLogsOut /\ \A u \in Users \ spoilt : UserAgrees(u)

LEMMA HistoryInvMeans == HistoryInv => RedisAgrees
<1> SUFFICES ASSUME HistoryInv, NEW u \in Users \ spoilt
             PROVE  OnlineIsLoggedIn(u) /\ SessionIsOnline(u) /\ LocatedIsOnline(u)
  BY DEF RedisAgrees
<1>1. UserAgrees(u)
  BY DEF HistoryInv
<1>2. OnlineIsLoggedIn(u) /\ SessionIsOnline(u)
  BY <1>1 DEF UserAgrees, OnlineIsLoggedIn, Keeps
<1>3. LocatedIsOnline(u)
  <2> SUFFICES ASSUME u \in located
               PROVE  u \in online \/ \E c \in closing : uid[c] = u /\ pc[c] = "work"
    BY DEF LocatedIsOnline
  <2>1. PICK c \in Conns : Keeps(c, u, "delloc")
    BY <1>1 DEF UserAgrees
  <2>2. CASE c \in closing
    BY <2>1, <2>2 DEF Keeps, HistoryInv, ClosingLogsOut
  <2>3. CASE c \notin closing
    BY <1>2, <2>1, <2>3 DEF Keeps, SessionIsOnline
  <2> QED
    BY <2>2, <2>3
<1> QED
  BY <1>2, <1>3

\* Who has a key to delete has a location to delete.
LEMMA DeletesBoth ==
    ASSUME Core, NEW c \in Conns, Do("del") \in Range(todo[c])
    PROVE  Do("delloc") \in Range(todo[c])
<1> DEFINE t == todo[c]
<1>1. PICK i \in DOMAIN t : t[i] = Do("del")
  BY DEF Range
<1>2. t[i].do = "del"
  BY <1>1 DEF Do
<1>3. Orderly(t)
  BY DEF Core, TodoOrderly
<1>4. i + 1 \in DOMAIN t /\ t[i + 1] = Do("delloc")
  BY <1>2, <1>3 DEF Orderly, SkipsFit
<1> QED
  BY <1>4 DEF Range

LEMMA KeepsBoth ==
    ASSUME Core, NEW c \in Conns, NEW u, Keeps(c, u, "del")
    PROVE  Keeps(c, u, "delloc")
BY DeletesBoth DEF Keeps

-----------------------------------------------------------------------------
(* The steps of a service.                                                 *)

\* What a step does to the keys, and to the user of its session.
KeyStep(c) ==
    /\ \/ UNCHANGED <<uid, online>>
       \/ /\ At(c, Do("set")) /\ online' = online \cup {arg[c]}
          /\ uid' = [uid EXCEPT ![c] = arg[c]]
       \/ /\ At(c, Do("set")) /\ online' = online \cup {arg[c]}
          /\ UNCHANGED uid /\ faults' # faults
       \/ /\ At(c, Do("del")) /\ online' = online \ {uid[c]} /\ UNCHANGED uid
    /\ \/ UNCHANGED located
       \/ At(c, Do("setloc")) /\ located' = located \cup {arg[c]}
       \/ At(c, Do("delloc")) /\ located' = located \ {uid[c]}

\* What it leaves to be done: of a logout everything but its own call, unless
\* redis raised or the greenlet died.
Leaves(c, rest) ==
    /\ Range(rest) \subseteq Range(todo[c])
    /\ \A a \in {"del", "delloc"} :
         c \in closing /\ Do(a) \in Range(todo[c]) =>
             \/ Do(a) \in Range(rest)
             \/ At(c, Do(a)) /\ (a = "del" => online' = online \ {uid[c]})
                             /\ (a = "delloc" => located' = located \ {uid[c]})
             \/ faults' # faults /\ (At(c, Do("del")) \/ At(c, Do("delloc")))
             \/ pc'[c] = "dead"

Step(c, rest) ==
    /\ pc[c] = "work" /\ UNCHANGED <<peerVars, arg>>
    /\ \/ Continue(c, rest)
       \/ /\ pc' = [pc EXCEPT ![c] = "dead"] /\ todo' = [todo EXCEPT ![c] = rest]
          /\ UNCHANGED uid
    /\ KeyStep(c) /\ Leaves(c, rest)

\* The step of a call that does not raise.
LEMMA PlainStep ==
    ASSUME Core, ClosingLogsOut, NEW c \in Conns, NEW rest \in Seq(StepsOf), pc[c] = "work",
           Continue(c, rest), UNCHANGED <<peerVars, arg>>, KeyStep(c),
           Range(rest) \subseteq Range(todo[c]),
           \/ rest = Tail(todo[c])
           \/ todo[c][1].do \in {"select", "online?", "insert"},
           At(c, Do("del")) => online' = online \ {uid[c]},
           At(c, Do("delloc")) => located' = located \ {uid[c]}
    PROVE  Step(c, rest)
<1> DEFINE t == todo[c]
<1>1. t[1] \in Range(t) /\ Range(Tail(t)) = Range(t) \ {t[1]}
  BY AtStep, Rests
<1>2. Leaves(c, rest)
  <2> SUFFICES ASSUME NEW a \in {"del", "delloc"}, c \in closing, Do(a) \in Range(t)
               PROVE  \/ Do(a) \in Range(rest)
                      \/ At(c, Do(a)) /\ (a = "del" => online' = online \ {uid[c]})
                                      /\ (a = "delloc" => located' = located \ {uid[c]})
    BY DEF Leaves
  <2>1. rest = Tail(t)
    BY <1>1 DEF ClosingLogsOut
  <2>2. CASE Do(a) = t[1]
    <3>1. At(c, Do(a))
      BY <2>2 DEF At
    <3>2. a = "del" \/ a = "delloc"
      OBVIOUS
    <3> QED
      BY <3>1, <3>2
  <2>3. CASE Do(a) # t[1]
    BY <1>1, <2>1, <2>3
  <2> QED
    BY <2>2, <2>3
<1> QED
  BY <1>2 DEF Step

LEMMA ServiceSteps ==
    ASSUME Core, ClosingLogsOut, NEW c \in Conns, Service(c) \/ Fault(c)
    PROVE  \E rest \in Seq(StepsOf) : Step(c, rest)
<1> DEFINE t == todo[c]
<1>0. /\ pc[c] = "work" /\ t[1] \in StepsOf /\ t[1] \in Range(t)
  <2>1. pc[c] = "work"
    BY DEF Service, Fault, PoolGet, PoolRelease, Select, SetOnline, TestOnline, Insert,
       SetLocation, DelOnline, DelLocation, SendResponse, SendRaises, ServiceRaises,
       CommitRaises, At, Calls
  <2> QED
    BY <2>1, AtStep
<1>1. /\ Tail(t) \in Seq(StepsOf) /\ Range(Tail(t)) = Range(t) \ {t[1]}
      /\ t[1].do \in {"select", "insert", "online?"} =>
           /\ Tail(Tail(t)) \in Seq(StepsOf) /\ Range(Tail(Tail(t))) = Range(t) \ {t[1], t[2]}
      /\ t[1].do = "online?" =>
           /\ Tail(Tail(Tail(t))) \in Seq(StepsOf)
           /\ Range(Tail(Tail(Tail(t)))) = Range(t) \ {t[1], t[2], t[3]}
  BY <1>0, Rests
<1>2. /\ \A a, b : Do(a) = Do(b) => a = b
      /\ \A p \in Pools : Get(p).do = "get" /\ Put(p).do = "put"
      /\ \A a : Do(a).do = a
  BY DEF Do, Get, Put
<1>3. Range(Tail(t)) \subseteq Range(t)
  BY <1>1
<1> HIDE DEF t
\* Calls that do nothing to redis and keep the session.
<1>4. ASSUME UNCHANGED <<peerVars, arg, uid, online, located>>,
             NEW rest \in Seq(StepsOf), Continue(c, rest), Range(rest) \subseteq Range(t),
             rest = Tail(t) \/ t[1].do \in {"select", "online?", "insert"},
             t[1].do \notin {"del", "delloc"}
      PROVE  Step(c, rest)
  <2>1. KeyStep(c)
    BY <1>4 DEF KeyStep
  <2>2. ~At(c, Do("del")) /\ ~At(c, Do("delloc"))
    BY <1>2, <1>4 DEF At, t
  <2>3. UNCHANGED <<peerVars, arg>>
    BY <1>4
  <2> QED
    BY <1>0, <1>4, <2>1, <2>2, <2>3, PlainStep DEF t
<1>5. ASSUME NEW p \in Pools, PoolGet(c, p) \/ PoolRelease(c, p)
      PROVE  Step(c, Tail(t))
  <2>1. /\ Continue(c, Tail(t)) /\ UNCHANGED <<peerVars, arg, uid, online, located>>
        /\ t[1] = Get(p) \/ t[1] = Put(p)
    BY <1>5 DEF PoolGet, PoolRelease, At, redisVars, t
  <2>2. t[1].do \notin {"del", "delloc"}
    BY <1>2, <2>1
  <2> QED
    BY <1>1, <1>3, <1>4, <2>1, <2>2
<1>6. CASE SetOnline(c)
  <2>1. /\ At(c, Do("set")) /\ Continue(c, Tail(t))
        /\ UNCHANGED <<peerVars, arg, located>> /\ KeyStep(c)
    BY <1>6 DEF SetOnline, KeyStep, t
  <2>2. ~At(c, Do("del")) /\ ~At(c, Do("delloc"))
    BY <1>2, <2>1 DEF At
  <2>3. UNCHANGED <<peerVars, arg>>
    BY <2>1
  <2> QED
    BY <1>0, <1>1, <1>3, <2>1, <2>2, <2>3, PlainStep DEF t
<1>7. CASE SetLocation(c)
  <2>1. /\ At(c, Do("setloc")) /\ Continue(c, Tail(t))
        /\ UNCHANGED <<peerVars, arg, uid, online>> /\ KeyStep(c)
    BY <1>7 DEF SetLocation, KeyStep, t
  <2>2. ~At(c, Do("del")) /\ ~At(c, Do("delloc"))
    BY <1>2, <2>1 DEF At
  <2>3. UNCHANGED <<peerVars, arg>>
    BY <2>1
  <2> QED
    BY <1>0, <1>1, <1>3, <2>1, <2>2, <2>3, PlainStep DEF t
<1>8. CASE DelOnline(c)
  <2>1. /\ At(c, Do("del")) /\ Continue(c, Tail(t))
        /\ UNCHANGED <<peerVars, arg, uid, located>>
        /\ online' = online \ {uid[c]}
    BY <1>8 DEF DelOnline, t
  <2>2. KeyStep(c) /\ UNCHANGED <<peerVars, arg>>
    BY <2>1 DEF KeyStep
  <2>3. ~At(c, Do("delloc"))
    BY <1>2, <2>1 DEF At
  <2> QED
    BY <1>0, <1>1, <1>3, <2>1, <2>2, <2>3, PlainStep DEF t
<1>9. CASE DelLocation(c)
  <2>1. /\ At(c, Do("delloc")) /\ Continue(c, Tail(t))
        /\ UNCHANGED <<peerVars, arg, uid, online>>
        /\ located' = located \ {uid[c]}
    BY <1>9 DEF DelLocation, t
  <2>2. KeyStep(c) /\ UNCHANGED <<peerVars, arg>>
    BY <2>1 DEF KeyStep
  <2>3. ~At(c, Do("del"))
    BY <1>2, <2>1 DEF At
  <2> QED
    BY <1>0, <1>1, <1>3, <2>1, <2>2, <2>3, PlainStep DEF t
<1>10. CASE SendResponse(c)
  <2>1. /\ t[1] = Do("send") /\ Continue(c, Tail(t))
        /\ UNCHANGED <<peerVars, arg, uid, online, located>>
    BY <1>10 DEF SendResponse, At, redisVars, t
  <2>2. t[1].do \notin {"del", "delloc"}
    BY <1>2, <2>1
  <2> QED
    BY <1>1, <1>3, <1>4, <2>1, <2>2
<1>11. CASE Select(c) \/ Insert(c) \/ TestOnline(c)
  <2>1. /\ t[1] \in {Do("select"), Do("insert"), Do("online?")}
        /\ UNCHANGED <<peerVars, arg, uid, online, located>>
        /\ \/ Continue(c, Tail(t)) \/ Continue(c, Tail(Tail(t)))
           \/ t[1].do = "online?" /\ Continue(c, Tail(Tail(Tail(t))))
    BY <1>11 DEF Select, Insert, TestOnline, At, Do, redisVars, t
  <2>2. t[1].do \in {"select", "online?", "insert"}
    BY <1>2, <2>1
  <2>3. t[1].do \notin {"del", "delloc"}
    BY <2>2
  <2>4. CASE Continue(c, Tail(t))
    BY <1>1, <1>3, <1>4, <2>1, <2>2, <2>3, <2>4
  <2>5. CASE Continue(c, Tail(Tail(t)))
    <3>1. Tail(Tail(t)) \in Seq(StepsOf) /\ Range(Tail(Tail(t))) \subseteq Range(t)
      BY <1>1, <2>2
    <3> QED
      BY <1>4, <2>1, <2>2, <2>3, <2>5, <3>1
  <2>6. CASE t[1].do = "online?" /\ Continue(c, Tail(Tail(Tail(t))))
    <3>1. /\ Tail(Tail(Tail(t))) \in Seq(StepsOf)
          /\ Range(Tail(Tail(Tail(t)))) \subseteq Range(t)
      BY <1>1, <2>6
    <3> QED
      BY <1>4, <2>1, <2>2, <2>3, <2>6, <3>1
  <2> QED
    BY <1>1, <2>1, <2>2, <2>4, <2>5, <2>6
<1>12. CASE SendRaises(c) \/ CommitRaises(c)
  <2>1. /\ pc' = [pc EXCEPT ![c] = "dead"] /\ todo' = [todo EXCEPT ![c] = <<>>]
        /\ UNCHANGED <<peerVars, arg, uid, online, located>>
    BY <1>12 DEF SendRaises, CommitRaises, redisVars
  <2>2. pc'[c] = "dead"
    BY <2>1 DEF Core, TypeOK
  <2>3. <<>> \in Seq(StepsOf) /\ Range(<<>>) = {}
    BY DEF Range
  <2>4. KeyStep(c) /\ Leaves(c, <<>>)
    BY <2>1, <2>2, <2>3 DEF KeyStep, Leaves
  <2> QED
    BY <1>0, <2>1, <2>3, <2>4 DEF Step
<1>13. CASE ServiceRaises(c)
  <2> DEFINE f == Finally(t[1].do)
  <2>1. /\ Calls(c) /\ faults < MaxFaults /\ faults' = faults + 1
        /\ Continue(c, f) /\ UNCHANGED <<peerVars, arg, uid>>
        /\ online' \in {online, CASE t[1].do = "set" -> online \cup {arg[c]}
                                  [] t[1].do = "del" -> online \ {uid[c]}
                                  [] OTHER -> online}
        /\ located' \in {located, CASE t[1].do = "setloc" -> located \cup {arg[c]}
                                    [] t[1].do = "delloc" -> located \ {uid[c]}
                                    [] OTHER -> located}
    BY <1>13 DEF ServiceRaises, t
  <2>2. faults' # faults
    <3>1. faults \in Nat
      BY SizeAssumption DEF Core, TypeOK
    <3> QED
      BY <2>1, <3>1
  <2>3. t[1].do \in Tries
    BY <2>1 DEF Calls, Tries, t
  <2>4. f \in Seq(StepsOf) /\ Range(f) \subseteq Range(t)
    BY <1>0, <2>3, FinallyRests DEF t
  <2> HIDE DEF f
  <2>5. \A a \in {"set", "setloc", "del", "delloc"} : t[1].do = a => At(c, Do(a))
    <3>1. \A s \in StepsOf : \A a \in {"set", "setloc", "del", "delloc"} :
              s.do = a => s = Do(a)
      BY DEF StepsOf, Get, Put, Do
    <3> QED
      BY <1>0, <3>1 DEF At, t
  <2>6. KeyStep(c)
    BY <2>1, <2>2, <2>5 DEF KeyStep
  <2>7. Leaves(c, f)
    <3>1. c \in closing => t[1].do \in {"get", "put", "del", "delloc"}
      BY <1>0 DEF ClosingLogsOut, t
    <3>2. c \in closing => t[1].do \in {"del", "delloc"}
      BY <2>3, <3>1 DEF Tries
    <3>3. c \in closing => At(c, Do("del")) \/ At(c, Do("delloc"))
      BY <2>5, <3>2
    <3> QED
      BY <2>2, <2>4, <3>3 DEF Leaves, t
  <2>8. UNCHANGED <<peerVars, arg>>
    BY <2>1
  <2> QED
    BY <1>0, <2>1, <2>4, <2>6, <2>7, <2>8 DEF Step
<1> QED
  BY <1>1, <1>5, <1>6, <1>7, <1>8, <1>9, <1>10, <1>11, <1>12, <1>13 DEF Service, Fault

\* A session that keeps a key of u still does after a step of c, or the step
\* was the deletion.
LEMMA StepKeeps ==
    ASSUME Core, NEW c \in Conns, NEW rest \in Seq(StepsOf), Step(c, rest),
           NEW u \in Users, u \notin SpoiltBy(c),
           NEW d \in Conns, NEW a \in {"del", "delloc"}, Keeps(d, u, a)
    PROVE  \/ Keeps(d, u, a)'
           \/ /\ a = "del" => u \notin online'
              /\ a = "delloc" => u \notin located'
<1>1. /\ todo'[c] = rest /\ \A e \in Conns : e # c => todo'[e] = todo[e]
      /\ \A e \in Conns : e # c => pc'[e] = pc[e]
      /\ pc'[c] = "dead" \/
         pc'[c] = IF rest # <<>> THEN "work" ELSE IF c \in closing THEN "closed" ELSE "recv"
      /\ closing' = closing /\ pc[c] = "work"
  BY DEF Step, Continue, Core, TypeOK, peerVars
<1>2. \A e \in Conns : e # c => uid'[e] = uid[e]
  BY DEF Step, KeyStep, Core, TypeOK
<1>3. CASE d # c
  BY <1>1, <1>2, <1>3 DEF Keeps
<1>4. CASE d = c
  <2>1. pc[c] \in {"recv", "work"} /\ uid[c] = u /\ (c \in closing => Do(a) \in Range(todo[c]))
    BY <1>4 DEF Keeps
  <2>2. ~Dies(c, u) /\ ~IsForgotten(c, u) /\ ~IsCutShort(c, u)
    BY DEF SpoiltBy
  <2>3. pc'[c] # "dead" /\ uid'[c] = u
    BY <2>1, <2>2 DEF Dies, IsForgotten
  <2>4. CASE c \notin closing
    BY <1>1, <1>4, <2>3, <2>4 DEF Keeps
  <2>5. CASE c \in closing
    <3>1. \/ Do(a) \in Range(rest)
          \/ At(c, Do(a)) /\ (a = "del" => online' = online \ {uid[c]})
                          /\ (a = "delloc" => located' = located \ {uid[c]})
      BY <2>1, <2>2, <2>3, <2>5 DEF Step, Leaves, IsCutShort
    <3>2. CASE Do(a) \in Range(rest)
      <4>1. rest # <<>>
        BY <3>2 DEF Range
      <4> QED
        BY <1>1, <1>4, <2>3, <2>5, <3>2, <4>1 DEF Keeps
    <3>3. CASE /\ a = "del" => online' = online \ {uid[c]}
               /\ a = "delloc" => located' = located \ {uid[c]}
      BY <2>1, <3>3
    <3> QED
      BY <3>1, <3>2, <3>3
  <2> QED
    BY <2>4, <2>5
<1> QED
  BY <1>3, <1>4

\* A step leaves the users right that it does not spoil.
LEMMA StepAgrees ==
    ASSUME Core, ClosingLogsOut, NEW c \in Conns, NEW rest \in Seq(StepsOf), Step(c, rest),
           NEW u \in Users, u \notin SpoiltBy(c), UserAgrees(u)
    PROVE  UserAgrees(u)'
<1> DEFINE t == todo[c]
<1>0. /\ ~Dies(c, u) /\ ~IsForgotten(c, u) /\ ~Overlaps(c, u) /\ ~IsCutShort(c, u)
      /\ ~IsLate(u) /\ ~GoesOn(c, u)
  BY DEF SpoiltBy
<1>1. /\ \A e \in Conns : e # c => pc'[e] = pc[e]
      /\ pc'[c] = "dead" \/
         pc'[c] = IF rest # <<>> THEN "work" ELSE IF c \in closing THEN "closed" ELSE "recv"
      /\ closing' = closing /\ pc[c] = "work"
  BY DEF Step, Continue, Core, TypeOK, peerVars
<1>2. /\ \A e \in Conns : e # c => uid'[e] = uid[e]
      /\ uid'[c] = uid[c] \/ (At(c, Do("set")) /\ uid'[c] = arg[c] /\ arg[c] \in online')
  BY DEF Step, KeyStep, Core, TypeOK
<1>3. At(c, Do("set")) => c \notin closing
  <2>1. t[1] \in Range(t)
    BY <1>1, AtStep
  <2> QED
    BY <2>1 DEF ClosingLogsOut, At, Do
\* The sessions of u are those it had, or one it has just begun.
<1>4. ASSUME NEW e \in Conns, uid'[e] = u
      PROVE  uid[e] = u \/ (e = c /\ At(c, Do("set")) /\ arg[c] = u /\ u \in online')
  BY <1>2, <1>4
<1>5. Alone(u)'
  <2>1. ASSUME NEW e \in Conns, uid'[e] = u PROVE pc'[e] # "dead"
    <3>1. CASE e # c
      BY <1>1, <1>2, <2>1, <3>1 DEF UserAgrees, Alone
    <3>2. CASE e = c /\ uid[c] = u
      BY <1>0, <3>2 DEF Dies
    <3>3. CASE e = c /\ uid[c] # u
      <4>1. uid' # uid
        BY <2>1, <3>3
      <4>2. Continue(c, rest)
        BY <4>1 DEF Step
      <4> QED
        BY <3>3, <4>2 DEF Continue, Core, TypeOK
    <3> QED
      BY <3>1, <3>2, <3>3
  <2>2. ASSUME NEW e \in Conns, NEW d \in Conns, uid'[e] = u, uid'[d] = u, e # d
        PROVE  pc'[e] = "closed" \/ pc'[d] = "closed"
    <3>1. CASE uid[e] = u /\ uid[d] = u
      <4>1. pc[e] = "closed" \/ pc[d] = "closed"
        BY <2>2, <3>1 DEF UserAgrees, Alone
      <4> QED
        BY <1>1, <4>1
    <3>2. ASSUME NEW x \in Conns, x # c, uid'[x] = u, At(c, Do("set")), arg[c] = u
          PROVE  pc'[x] = "closed"
      BY <1>0, <1>1, <1>2, <3>2 DEF Overlaps
    <3> QED
      BY <1>4, <2>2, <3>1, <3>2
  <2> QED
    BY <2>1, <2>2 DEF Alone
<1>6. SessionIsOnline(u)'
  <2> SUFFICES ASSUME NEW d \in Conns, pc'[d] \in {"recv", "work"}, d \notin closing,
                      uid'[d] = u
               PROVE  u \in online'
    BY <1>1 DEF SessionIsOnline
  <2>1. CASE uid[d] = u
    <3>1. pc[d] \in {"recv", "work"}
      BY <1>1
    <3>2. u \in online
      BY <2>1, <3>1 DEF UserAgrees, SessionIsOnline
    <3>3. At(c, Do("del")) => uid[c] # u
      <4> SUFFICES ASSUME At(c, Do("del")), uid[c] = u PROVE FALSE
        OBVIOUS
      <4>1. c \in closing
        BY <1>0 DEF GoesOn
      <4>2. d # c
        BY <4>1
      <4> QED
        BY <1>1, <2>1, <3>1, <4>2 DEF UserAgrees, Alone
    <3> QED
      BY <3>2, <3>3 DEF Step, KeyStep
  <2>2. CASE uid[d] # u
    BY <1>4, <2>2
  <2> QED
    BY <2>1, <2>2
<1>7. u \in online' => \E d \in Conns : Keeps(d, u, "del")'
  <2> SUFFICES ASSUME u \in online' PROVE \E d \in Conns : Keeps(d, u, "del")'
    OBVIOUS
  <2>1. CASE u \in online
    <3>1. PICK d \in Conns : Keeps(d, u, "del")
      BY <2>1 DEF UserAgrees
    <3> QED
      BY <3>1, StepKeeps
  <2>2. CASE u \notin online
    <3>1. At(c, Do("set")) /\ arg[c] = u /\ (uid' = [uid EXCEPT ![c] = arg[c]] \/ faults' # faults)
      BY <2>2 DEF Step, KeyStep
    <3>2. uid' = [uid EXCEPT ![c] = arg[c]]
      BY <1>0, <3>1 DEF IsCutShort
    <3>3. uid'[c] = u
      BY <3>1, <3>2 DEF Core, TypeOK
    <3>4. pc'[c] # "dead" /\ c \notin closing
      BY <1>3, <1>5, <3>1, <3>3 DEF Alone
    <3>5. Keeps(c, u, "del")'
      BY <1>1, <3>3, <3>4 DEF Keeps
    <3> QED
      BY <3>5
  <2> QED
    BY <2>1, <2>2
<1>8. u \in located' => \E d \in Conns : Keeps(d, u, "delloc")'
  <2> SUFFICES ASSUME u \in located' PROVE \E d \in Conns : Keeps(d, u, "delloc")'
    OBVIOUS
  <2>1. CASE u \in located
    <3>1. PICK d \in Conns : Keeps(d, u, "delloc")
      BY <2>1 DEF UserAgrees
    <3> QED
      BY <3>1, StepKeeps
  <2>2. CASE u \notin located
    <3>1. u \in online
      BY <1>0, <2>2 DEF IsLate
    <3>2. PICK d \in Conns : Keeps(d, u, "del")
      BY <3>1 DEF UserAgrees
    <3>3. Keeps(d, u, "delloc")
      BY <3>2, KeepsBoth
    <3> QED
      BY <3>3, StepKeeps
  <2> QED
    BY <2>1, <2>2
<1> QED
  BY <1>5, <1>6, <1>7, <1>8 DEF UserAgrees

LEMMA StepKeepsForm ==
    ASSUME Core, Fresh, ClosingLogsOut, NEW c \in Conns, NEW rest \in Seq(StepsOf), Step(c, rest)
    PROVE  Fresh' /\ ClosingLogsOut'
<1>1. /\ todo'[c] = rest /\ \A e \in Conns : e # c => todo'[e] = todo[e]
      /\ \A e \in Conns : e # c => pc'[e] = pc[e]
      /\ pc'[c] = "dead" \/
         pc'[c] = IF rest # <<>> THEN "work" ELSE IF c \in closing THEN "closed" ELSE "recv"
      /\ closing' = closing /\ pc[c] = "work" /\ closing \subseteq Conns
  BY DEF Step, Continue, Core, TypeOK, peerVars
<1>2. \A e \in Conns : e # c => uid'[e] = uid[e]
  BY DEF Step, KeyStep, Core, TypeOK
<1>3. Range(rest) \subseteq Range(todo[c])
  BY DEF Step, Leaves
<1>4. Fresh'
  BY <1>1, <1>2 DEF Fresh
<1>5. ClosingLogsOut'
  BY <1>1, <1>3 DEF ClosingLogsOut
<1> QED
  BY <1>4, <1>5

-----------------------------------------------------------------------------
(* Clients that come and go, and the loop of handler.                      *)

\* What these steps have in common: a client hangs up, or connects; the loop
\* goes on or dies; it starts a service, or the logout at the end.
LoopStep(c) ==
    /\ UNCHANGED <<uid, online, located>>
    /\ \A d \in Conns : d # c => pc'[d] = pc[d] /\ todo'[d] = todo[d]
    /\ \/ UNCHANGED <<pc, closing, todo>>
       \/ pc[c] = "idle" /\ pc'[c] = "init" /\ UNCHANGED <<closing, todo>>
       \/ pc[c] \in {"init", "recv"} /\ pc'[c] \in {"recv", "dead"} /\ UNCHANGED <<closing, todo>>
       \/ pc[c] = "recv" /\ pc'[c] = "work" /\ UNCHANGED closing
       \/ /\ pc[c] \in {"init", "recv"} /\ pc'[c] = "work"
          /\ closing' = closing \cup {c} /\ todo'[c] = LogoutSteps

LEMMA LoopSteps ==
    ASSUME Core, NEW c \in Conns, Client(c) \/ handler(c)
    PROVE  LoopStep(c)
<1>1. ASSUME NEW u \in Users, Connect(c, u) PROVE LoopStep(c)
  BY <1>1 DEF Connect, LoopStep, Core, TypeOK, jobVars, redisVars
<1>2. CASE HangUp(c)
  BY <1>2 DEF HangUp, LoopStep, jobVars, redisVars
<1>3. CASE InitSession(c)
  <2>1. /\ pc[c] = "init" /\ UNCHANGED <<uid, online, located>>
        /\ \/ pc' = [pc EXCEPT ![c] = "recv"] /\ UNCHANGED <<closing, todo>>
           \/ /\ pc' = [pc EXCEPT ![c] = "work"] /\ closing' = closing \cup {c}
              /\ todo' = [todo EXCEPT ![c] = LogoutSteps]
           \/ pc' = [pc EXCEPT ![c] = "dead"] /\ UNCHANGED <<closing, todo>>
    BY <1>3 DEF InitSession, redisVars
  <2> QED
    BY <2>1 DEF LoopStep, Core, TypeOK
<1>4. CASE BadRequest(c)
  BY <1>4 DEF BadRequest, LoopStep, Core, TypeOK, peerVars, jobVars, redisVars
<1>5. CASE Eof(c)
  BY <1>5 DEF Eof, LoopStep, Core, TypeOK, redisVars
<1>6. CASE Truncated(c)
  <2>1. /\ UNCHANGED <<uid, online, located, closing>>
        /\ \/ pc[c] = "init" /\ pc' = [pc EXCEPT ![c] = "dead"] /\ UNCHANGED todo
           \/ /\ pc[c] = "recv" /\ pc' = [pc EXCEPT ![c] = "work"]
              /\ todo' = [todo EXCEPT ![c] = LogoutSteps]
    BY <1>6 DEF Truncated, redisVars
  <2> QED
    BY <2>1 DEF LoopStep, Core, TypeOK
<1>7. ASSUME NEW cmd \in Cmds, NEW u \in Users, Request(c, cmd, u) PROVE LoopStep(c)
  <2>1. /\ UNCHANGED <<uid, online, located, closing>>
        /\ pc[c] = "recv" /\ pc' = [pc EXCEPT ![c] = "work"]
        /\ todo' = [todo EXCEPT ![c] = Steps(cmd)]
    BY <1>7 DEF Request, peerVars, redisVars
  <2> QED
    BY <2>1 DEF LoopStep, Core, TypeOK
<1> QED
  BY <1>1, <1>2, <1>3, <1>4, <1>5, <1>6, <1>7 DEF Client, handler

LEMMA LogoutDeletes ==
    /\ \A a \in {"del", "delloc"} : Do(a) \in Range(LogoutSteps)
    /\ \A s \in Range(LogoutSteps) : s.do \in {"get", "put", "del", "delloc"}
<1>1. /\ DOMAIN LogoutSteps = {1, 2, 3, 4, 5, 6}
      /\ LogoutSteps[3] = Do("del") /\ LogoutSteps[4] = Do("delloc")
      /\ \A i \in DOMAIN LogoutSteps :
           LogoutSteps[i].do \in {"get", "put", "del", "delloc"}
  BY DEF LogoutSteps, Get, Put, Do
<1> QED
  BY <1>1 DEF Range

LEMMA LoopAgrees ==
    ASSUME Core, Fresh, ClosingLogsOut, NEW c \in Conns, LoopStep(c),
           NEW u \in Users, u \notin SpoiltBy(c), UserAgrees(u)
    PROVE  UserAgrees(u)'
<1>0. /\ u # None /\ ~Dies(c, u)
      /\ pc[c] \in {"idle", "init"} => uid[c] # u
      /\ pc[c] \in {"idle", "init", "recv"} => c \notin closing
      /\ UNCHANGED <<uid, online, located>>
      /\ \A d \in Conns : d # c => pc'[d] = pc[d] /\ todo'[d] = todo[d]
      /\ \A d \in Conns : d # c => (d \in closing' <=> d \in closing)
  BY NoneAssumption DEF Fresh, ClosingLogsOut, SpoiltBy, LoopStep
<1>1. ASSUME NEW d \in Conns, NEW a \in {"del", "delloc"}, Keeps(d, u, a)
      PROVE  Keeps(d, u, a)'
  <2>1. CASE d # c
    BY <1>0, <1>1, <2>1 DEF Keeps
  <2>2. CASE d = c
    <3>1. uid[c] = u /\ pc[c] \in {"recv", "work"} /\ pc'[c] # "dead"
      BY <1>0, <1>1, <2>2 DEF Keeps, Dies
    <3>2. \/ UNCHANGED <<pc, closing, todo>>
          \/ pc'[c] \in {"recv", "work"} /\ pc[c] = "recv" /\ UNCHANGED closing
          \/ /\ pc'[c] = "work" /\ closing' = closing \cup {c} /\ todo'[c] = LogoutSteps
      BY <3>1 DEF LoopStep
    <3>3. CASE UNCHANGED <<pc, closing, todo>>
      BY <1>0, <1>1, <3>3 DEF Keeps
    <3>4. CASE pc'[c] \in {"recv", "work"} /\ pc[c] = "recv" /\ UNCHANGED closing
      BY <1>0, <2>2, <3>1, <3>4 DEF Keeps
    <3>5. CASE pc'[c] = "work" /\ closing' = closing \cup {c} /\ todo'[c] = LogoutSteps
      BY <1>0, <2>2, <3>1, <3>5, LogoutDeletes DEF Keeps
    <3> QED
      BY <3>2, <3>3, <3>4, <3>5
  <2> QED
    BY <2>1, <2>2
<1>2. Alone(u)'
  <2>1. ASSUME NEW e \in Conns, uid[e] = u PROVE pc'[e] # "dead"
    BY <1>0, <2>1 DEF UserAgrees, Alone, Dies
  <2>2. ASSUME NEW e \in Conns, pc[e] = "closed" PROVE pc'[e] = "closed"
    BY <1>0, <2>2 DEF LoopStep
  <2> QED
    BY <1>0, <2>1, <2>2 DEF UserAgrees, Alone
<1>3. SessionIsOnline(u)'
  <2> SUFFICES ASSUME NEW d \in Conns, pc'[d] \in {"recv", "work"}, d \notin closing', uid[d] = u
               PROVE  u \in online
    BY <1>0 DEF SessionIsOnline
  <2>1. d \notin closing /\ pc[d] \in {"recv", "work"}
    <3>1. CASE d # c
      BY <1>0, <3>1
    <3>2. CASE d = c
      BY <1>0, <3>2 DEF LoopStep
    <3> QED
      BY <3>1, <3>2
  <2> QED
    BY <2>1 DEF UserAgrees, SessionIsOnline
<1>4. /\ u \in online' => \E d \in Conns : Keeps(d, u, "del")'
      /\ u \in located' => \E d \in Conns : Keeps(d, u, "delloc")'
  BY <1>0, <1>1 DEF UserAgrees
<1> QED
  BY <1>2, <1>3, <1>4 DEF UserAgrees

LEMMA LoopKeepsForm ==
    ASSUME Core, Fresh, ClosingLogsOut, NEW c \in Conns, LoopStep(c)
    PROVE  Fresh' /\ ClosingLogsOut'
<1>1. Fresh'
  BY DEF Fresh, LoopStep
<1>2. ClosingLogsOut'
  <2> SUFFICES ASSUME NEW d \in closing'
               PROVE  /\ pc'[d] \in {"work", "closed", "dead"}
                      /\ \A s \in Range(todo'[d]) : s.do \in {"get", "put", "del", "delloc"}
    BY DEF ClosingLogsOut
  <2>1. d \in Conns
    BY DEF LoopStep, Core, TypeOK
  <2>2. CASE d # c
    BY <2>1, <2>2 DEF LoopStep, ClosingLogsOut
  <2>3. CASE d = c
    <3>1. CASE d \in closing
      BY <2>3, <3>1, LogoutDeletes DEF LoopStep, ClosingLogsOut
    <3>2. CASE d \notin closing
      BY <2>3, <3>2, LogoutDeletes DEF LoopStep
    <3> QED
      BY <3>1, <3>2
  <2> QED
    BY <2>2, <2>3
<1> QED
  BY <1>1, <1>2

-----------------------------------------------------------------------------
(* The invariant.                                                          *)

LEMMA HistoryInvInit == HistoryInit => HistoryInv
<1> SUFFICES ASSUME HistoryInit PROVE HistoryInv
  OBVIOUS
<1>1. Init
  BY DEF HistoryInit
<1>2. Fresh /\ ClosingLogsOut
  BY <1>1 DEF Init, Fresh, ClosingLogsOut
<1>3. ASSUME NEW u \in Users PROVE UserAgrees(u)
  <2>1. /\ online = {} /\ located = {}
        /\ \A c \in Conns : pc[c] = "idle" /\ uid[c] = None
    BY <1>1 DEF Init
  <2>2. u # None
    BY NoneAssumption
  <2> QED
    BY <2>1, <2>2 DEF UserAgrees, Alone, SessionIsOnline
<1> QED
  BY <1>1, <1>2, <1>3, CoreInit DEF HistoryInv

\* A step with its record is a step of the server.
LEMMA HistoryIs ==
    HistoryNext <=>
        \/ \E c \in Conns :
             /\ Client(c) \/ handler(c) \/ Service(c) \/ Fault(c)
             /\ spoilt' = spoilt \cup SpoiltBy(c)
        \/ Finished /\ UNCHANGED spoilt
<1>1. ASSUME NEW c \in Conns
      PROVE  /\ ClientRecorded(c) <=> Client(c) /\ Recorded(c)
             /\ handlerRecorded(c) <=> handler(c) /\ Recorded(c)
             /\ ServiceRecorded(c) <=> Service(c) /\ Recorded(c)
             /\ FaultRecorded(c) <=> Fault(c) /\ Recorded(c)
  <2>1. ClientRecorded(c) <=> Client(c) /\ Recorded(c)
    BY Zenon DEF ClientRecorded, Client
  <2>2. handlerRecorded(c) <=> handler(c) /\ Recorded(c)
    BY Zenon DEF handlerRecorded, handler
  <2>3. ServiceRecorded(c) <=> Service(c) /\ Recorded(c)
    BY Zenon DEF ServiceRecorded, Service
  <2>4. FaultRecorded(c) <=> Fault(c) /\ Recorded(c)
    BY Zenon DEF FaultRecorded, Fault
  <2> QED
    BY <2>1, <2>2, <2>3, <2>4
<1> QED
  BY <1>1, Zenon DEF HistoryNext, Recorded

LEMMA HistoryIsServer == [HistoryNext]_historyVars => [Next]_vars
BY HistoryIs DEF historyVars, Next

LEMMA HistoryInvNext == HistoryInv /\ [HistoryNext]_historyVars => HistoryInv'
<1> SUFFICES ASSUME HistoryInv, [HistoryNext]_historyVars PROVE HistoryInv'
  OBVIOUS
<1>1. Core /\ Fresh /\ ClosingLogsOut /\ Core'
  BY HistoryIsServer, CoreNext DEF HistoryInv
<1>2. ASSUME NEW c \in Conns, Client(c) \/ handler(c), spoilt' = spoilt \cup SpoiltBy(c)
      PROVE  HistoryInv'
  <2>1. LoopStep(c)
    BY <1>1, <1>2, LoopSteps
  <2>2. Fresh' /\ ClosingLogsOut'
    BY <1>1, <2>1, LoopKeepsForm
  <2>3. ASSUME NEW u \in Users \ spoilt' PROVE UserAgrees(u)'
    <3>1. u \in Users /\ u \notin SpoiltBy(c) /\ UserAgrees(u)
      BY <1>2, <2>3 DEF HistoryInv
    <3> QED
      BY <1>1, <2>1, <3>1, LoopAgrees
  <2> QED
    BY <1>1, <2>2, <2>3 DEF HistoryInv
<1>3. ASSUME NEW c \in Conns, Service(c) \/ Fault(c), spoilt' = spoilt \cup SpoiltBy(c)
      PROVE  HistoryInv'
  <2>1. PICK rest \in Seq(StepsOf) : Step(c, rest)
    BY <1>1, <1>3, ServiceSteps
  <2>2. Fresh' /\ ClosingLogsOut'
    BY <1>1, <2>1, StepKeepsForm
  <2>3. ASSUME NEW u \in Users \ spoilt' PROVE UserAgrees(u)'
    <3>1. u \in Users /\ u \notin SpoiltBy(c) /\ UserAgrees(u)
      BY <1>3, <2>3 DEF HistoryInv
    <3> QED
      BY <1>1, <2>1, <3>1, StepAgrees
  <2> QED
    BY <1>1, <2>2, <2>3 DEF HistoryInv
<1>4. CASE UNCHANGED <<vars, spoilt>>
  <2>1. UNCHANGED <<pc, closing, todo, uid, online, located, spoilt>>
    BY <1>4 DEF vars, peerVars, jobVars, redisVars
  <2>2. Fresh' /\ ClosingLogsOut'
    BY <1>1, <2>1 DEF Fresh, ClosingLogsOut
  <2>3. ASSUME NEW u \in Users \ spoilt' PROVE UserAgrees(u)'
    <3>1. UserAgrees(u)
      BY <2>1, <2>3 DEF HistoryInv
    <3> QED
      BY <2>1, <3>1 DEF UserAgrees, Alone, SessionIsOnline, Keeps
  <2> QED
    BY <1>1, <2>2, <2>3 DEF HistoryInv
<1> QED
  BY <1>2, <1>3, <1>4, HistoryIs DEF historyVars, Finished

\* RedisAgrees: whatever clients do, however many services run at once, and
\* whatever MySQL and redis raise, the keys of a user are those of the user's
\* sessions until one of the things that SpoiltBy names happens to that user;
\* there is no other way to leave a wrong key behind, and none by which what
\* happens to one user spoils the keys of another.
THEOREM RedisSafe == HistorySpec => []RedisAgrees
BY HistoryInvInit, HistoryInvNext, HistoryInvMeans, PTL DEF HistorySpec

=============================================================================
