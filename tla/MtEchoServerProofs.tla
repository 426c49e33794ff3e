------------------------ MODULE MtEchoServerProofs ------------------------
(***************************************************************************)
(* Proofs about MtEchoServer, for every number of connections, workers and *)
(* descriptors: its invariants, what polite clients see of it, and that it *)
(* implements EchoService.                                                 *)
(***************************************************************************)
EXTENDS MtEchoServer, SequenceTheorems, FiniteSetTheorems, TLAPS

-----------------------------------------------------------------------------
(* The inductive invariant.                                                *)

\* sessions, fdOf and conn tell the same story, and a connection is in the
\* backlog once at most.
SessionsAgree ==
    /\ \A c \in Conns :
         /\ conn[c] = "open" => fdOf[c] # None /\ sessions[fdOf[c]] = c
         /\ conn[c] \in {"idle", "backlog"} => fdOf[c] = None
    /\ \A f \in Fds : sessions[f] # None =>
         conn[sessions[f]] = "open" /\ fdOf[sessions[f]] = f
    /\ \A i \in DOMAIN backlog : conn[backlog[i]] = "backlog"
    /\ \A i, j \in DOMAIN backlog : backlog[i] = backlog[j] => i = j

\* The counters of a connection never overtake each other, and readcb is only
\* at work while it has a frame to queue.
CountersAgree ==
    /\ \A c \in Conns :
         /\ put[c] <= recvd[c] /\ recvd[c] <= sent[c]
         /\ got[c] <= put[c] /\ done[c] <= got[c] /\ taken[c] <= done[c]
         /\ fdOf[c] = None => put[c] = 0
    /\ io.pc = "read" => put[sessions[io.fd]] < recvd[sessions[io.fd]]

\* An element that is under c's descriptor fd and belongs to an earlier
\* connection.
IsStale(e, c, fd) == e.fd = fd /\ e.conn # c

\* The stale elements of q come before those of c, and are only there while
\* the count n of c's elements that left q is 0.
StaleAhead(q, c, fd, n) ==
    \A i \in DOMAIN q : IsStale(q[i], c, fd) =>
        n = 0 /\ \A j \in 1 .. i : q[j].conn # c

StaleAgree ==
    \A c \in Conns : conn[c] = "open" =>
        /\ \A w \in Workers :
             /\ StaleAhead(queuesInput[w], c, fdOf[c], got[c])
             /\ pc[w] = "put" /\ IsStale(qe[w], c, fdOf[c]) => got[c] = 0
        /\ StaleAhead(queueOutput, c, fdOf[c], taken[c])

RepliesAgree ==
    /\ OwnRepliesInOrder /\ StaleRepliesFirst /\ NoReplyLost
    /\ \A c \in Conns : fdOf[c] = None => reply[c] = <<>>

IInv ==
    /\ TypeOK
    /\ SessionsAgree
    /\ CountersAgree
    /\ HandOffsKeepOrder
    /\ StaleAgree
    /\ RepliesAgree

-----------------------------------------------------------------------------
(* Queues that hold the frames between two counters.                       *)

\* Removing the head: it is the next frame of its connection.
LEMMA QueueTail ==
    ASSUME NEW q \in Seq(QueueEle), q # <<>>,
           NEW C \in SUBSET Conns, NEW fd,
           NEW lo \in Counters, NEW hi \in Counters,
           QueueHolds(q, C, fd, lo, hi)
    PROVE  LET e == Head(q)
           IN  /\ e \in QueueEle /\ e.conn \in C /\ e.fd = fd[e.conn]
               /\ e.n = lo[e.conn] + 1 /\ e.n <= hi[e.conn]
               /\ QueueHolds(Tail(q), C, fd, [lo EXCEPT ![e.conn] = @ + 1], hi)
<1> DEFINE e == Head(q)
           t == Tail(q)
           lo2 == [lo EXCEPT ![e.conn] = @ + 1]
<1>1. /\ e = q[1] /\ e \in QueueEle /\ t \in Seq(QueueEle)
      /\ Len(q) \in Nat /\ Len(q) >= 1 /\ DOMAIN q = 1 .. Len(q)
      /\ Len(t) = Len(q) - 1 /\ DOMAIN t = 1 .. Len(q) - 1
      /\ \A i \in 1 .. Len(q) - 1 : t[i] = q[i + 1]
      /\ \A i \in 1 .. Len(q) : q[i] \in QueueEle
  BY HeadTailProperties, LenProperties, ElementOfSeq, EmptySeq
<1>2. /\ e.conn \in C /\ e.fd = fd[e.conn]
      /\ lo[e.conn] < e.n /\ e.n <= hi[e.conn] /\ e.n \in Nat
  BY <1>1 DEF QueueHolds, QueueEle
<1>3. e.n = lo[e.conn] + 1
  <2>1. lo[e.conn] \in Nat /\ hi[e.conn] \in Nat
    BY <1>2 DEF Counters
  <2>2. PICK i \in DOMAIN q : q[i].conn = e.conn /\ q[i].n = lo[e.conn] + 1
    BY <1>2, <2>1, SMTT(30) DEF QueueHolds
  <2>3. i = 1
    <3> SUFFICES ASSUME 1 < i PROVE FALSE
      BY <1>1, <2>2
    <3>1. q[1].n < q[i].n
      BY <1>1, <2>2 DEF QueueHolds
    <3> QED
      BY <1>1, <1>2, <2>1, <2>2, <3>1
  <2> QED
    BY <1>1, <2>2, <2>3
<1>4. QueueHolds(t, C, fd, lo2, hi)
  <2>0. lo2 \in Counters /\ lo2[e.conn] = lo[e.conn] + 1
        /\ \A c \in Conns : c # e.conn => lo2[c] = lo[c]
    BY <1>2 DEF Counters
  <2>1. ASSUME NEW i \in DOMAIN t
        PROVE  /\ t[i].conn \in C /\ t[i].fd = fd[t[i].conn]
               /\ lo2[t[i].conn] < t[i].n /\ t[i].n <= hi[t[i].conn]
    <3>1. i + 1 \in DOMAIN q /\ t[i] = q[i + 1] /\ q[i + 1] \in QueueEle
      BY <1>1
    <3>2. /\ t[i].conn \in C /\ t[i].fd = fd[t[i].conn]
          /\ lo[t[i].conn] < t[i].n /\ t[i].n <= hi[t[i].conn]
      BY <3>1 DEF QueueHolds
    <3>3. CASE t[i].conn = e.conn
      <4>1. q[1].n < q[i + 1].n
        BY <1>1, <3>1, <3>3 DEF QueueHolds
      <4> QED
        BY <1>1, <1>3, <2>0, <3>1, <3>2, <3>3, <4>1
    <3>4. CASE t[i].conn # e.conn
      BY <2>0, <3>2, <3>4
    <3> QED
      BY <3>3, <3>4
  <2>2. ASSUME NEW i \in DOMAIN t, NEW j \in DOMAIN t,
               i < j, t[i].conn = t[j].conn
        PROVE  t[i].n < t[j].n
    <3>1. /\ i + 1 \in DOMAIN q /\ j + 1 \in DOMAIN q /\ i + 1 < j + 1
          /\ t[i] = q[i + 1] /\ t[j] = q[j + 1]
      BY <1>1, <2>2
    <3> QED
      BY <2>2, <3>1 DEF QueueHolds
  <2>3. ASSUME NEW c \in C, NEW n \in lo2[c] + 1 .. hi[c]
        PROVE  \E i \in DOMAIN t : t[i].conn = c /\ t[i].n = n
    <3>0. lo[c] \in Nat /\ lo2[c] \in Nat /\ hi[c] \in Nat /\ n \in Nat
      BY <2>0 DEF Counters
    <3>1. n \in lo[c] + 1 .. hi[c] /\ (c = e.conn => n # e.n)
      BY <1>3, <2>0, <3>0
    <3>2. PICK i \in DOMAIN q : q[i].conn = c /\ q[i].n = n
      BY <3>1 DEF QueueHolds
    <3>3. i # 1
      BY <1>1, <3>1, <3>2
    <3>4. i - 1 \in DOMAIN t /\ t[i - 1] = q[i]
      BY <1>1, <3>3
    <3> QED
      BY <3>2, <3>4
  <2> QED
    BY <2>1, <2>2, <2>3 DEF QueueHolds
<1> QED
  BY <1>1, <1>2, <1>3, <1>4

\* Appending the next frame of a connection.
LEMMA QueueAppend ==
    ASSUME NEW q \in Seq(QueueEle), NEW e \in QueueEle,
           NEW C \in SUBSET Conns, NEW fd,
           NEW lo \in Counters, NEW hi \in Counters,
           QueueHolds(q, C, fd, lo, hi),
           e.conn \in C, e.fd = fd[e.conn],
           e.n = hi[e.conn] + 1, lo[e.conn] <= hi[e.conn]
    PROVE  QueueHolds(Append(q, e), C, fd, lo, [hi EXCEPT ![e.conn] = @ + 1])
<1> DEFINE a == Append(q, e)
           hi2 == [hi EXCEPT ![e.conn] = @ + 1]
<1>1. /\ Len(q) \in Nat /\ DOMAIN q = 1 .. Len(q) /\ DOMAIN a = 1 .. Len(q) + 1
      /\ a[Len(q) + 1] = e
      /\ \A i \in 1 .. Len(q) : a[i] = q[i] /\ q[i] \in QueueEle
  BY AppendProperties, LenProperties, ElementOfSeq
<1>2. /\ hi2[e.conn] = hi[e.conn] + 1
      /\ \A c \in Conns : c # e.conn => hi2[c] = hi[c]
      /\ \A c \in Conns : lo[c] \in Nat /\ hi[c] \in Nat /\ hi[c] <= hi2[c]
  BY DEF Counters
<1>3. \A i \in 1 .. Len(q) : q[i].conn = e.conn => q[i].n < e.n
  BY <1>1, <1>2, SMTT(30) DEF QueueHolds, QueueEle
<1>4. ASSUME NEW i \in DOMAIN a
      PROVE  /\ a[i].conn \in C /\ a[i].fd = fd[a[i].conn]
             /\ lo[a[i].conn] < a[i].n /\ a[i].n <= hi2[a[i].conn]
  <2>1. CASE i = Len(q) + 1
    BY <1>1, <1>2, <2>1
  <2>2. CASE i \in 1 .. Len(q)
    BY <1>1, <1>2, <2>2 DEF QueueHolds, QueueEle
  <2> QED
    BY <1>1, <2>1, <2>2
<1>5. ASSUME NEW i \in DOMAIN a, NEW j \in DOMAIN a,
             i < j, a[i].conn = a[j].conn
      PROVE  a[i].n < a[j].n
  <2>1. CASE j = Len(q) + 1
    BY <1>1, <1>3, <1>5, <2>1
  <2>2. CASE j \in 1 .. Len(q)
    BY <1>1, <1>5, <2>2 DEF QueueHolds
  <2> QED
    BY <1>1, <2>1, <2>2
<1>6. ASSUME NEW c \in C, NEW n \in lo[c] + 1 .. hi2[c]
      PROVE  \E i \in DOMAIN a : a[i].conn = c /\ a[i].n = n
  <2>1. CASE c = e.conn /\ n = e.n
    BY <1>1, <2>1
  <2>2. CASE ~(c = e.conn /\ n = e.n)
    <3>1. n \in lo[c] + 1 .. hi[c]
      BY <1>2, <2>2
    <3>2. PICK i \in DOMAIN q : q[i].conn = c /\ q[i].n = n
      BY <3>1 DEF QueueHolds
    <3> QED
      BY <1>1, <3>2
  <2> QED
    BY <2>1, <2>2
<1> QED
  BY <1>4, <1>5, <1>6 DEF QueueHolds

\* Counters and descriptors of other connections do not matter, nor does a
\* further connection of which the queue has nothing to hold.
LEMMA QueueFrame ==
    ASSUME NEW q \in Seq(QueueEle),
           NEW C \in SUBSET Conns, NEW D \in SUBSET Conns, C \subseteq D,
           NEW fd, NEW fd2,
           NEW lo \in Counters, NEW hi \in Counters,
           NEW lo2 \in Counters, NEW hi2 \in Counters,
           \A c \in C : fd2[c] = fd[c] /\ lo2[c] = lo[c] /\ hi2[c] = hi[c],
           \A c \in D \ C : hi2[c] <= lo2[c],
           QueueHolds(q, C, fd, lo, hi)
    PROVE  QueueHolds(q, D, fd2, lo2, hi2)
<1>1. ASSUME NEW c \in D, NEW n \in lo2[c] + 1 .. hi2[c]
      PROVE  \E i \in DOMAIN q : q[i].conn = c /\ q[i].n = n
  <2>1. c \in C
    BY DEF Counters
  <2> QED
    BY <2>1 DEF QueueHolds
<1>2. ASSUME NEW i \in DOMAIN q
      PROVE  /\ q[i].conn \in D /\ q[i].fd = fd2[q[i].conn]
             /\ lo2[q[i].conn] < q[i].n /\ q[i].n <= hi2[q[i].conn]
  BY DEF QueueHolds
<1> QED
  BY <1>1, <1>2 DEF QueueHolds

-----------------------------------------------------------------------------
(* Types.                                                                  *)

\* NoEle is no queue element.
LEMMA NoEleType == NoEle \notin QueueEle
BY ConstantsAssumption DEF NoEle, QueueEle

\* A descriptor's worker exists.
LEMMA WorkerType == \A fd \in Fds : WorkerOf(fd) \in Workers
BY ConstantsAssumption DEF Workers, WorkerOf

LEMMA TypeInit == Init => TypeOK
<1> SUFFICES ASSUME Init PROVE TypeOK
  OBVIOUS
<1>1. NetTypeOK
  BY EmptySeq DEF Init, NetTypeOK
<1>2. CounterTypeOK
  BY DEF Init, CounterTypeOK, Counters
<1>3. QueueTypeOK
  BY EmptySeq DEF Init, QueueTypeOK
<1>4. WorkerTypeOK
  BY ConstantsAssumption DEF Init, WorkerTypeOK
<1>5. IoTypeOK
  BY DEF Init, IoTypeOK, Loop
<1> QED
  BY <1>1, <1>2, <1>3, <1>4, <1>5 DEF TypeOK

\* What an action leaves alone keeps its type.
LEMMA TypeFrame ==
    ASSUME TypeOK
    PROVE  /\ UNCHANGED netVars => NetTypeOK'
           /\ UNCHANGED <<inVars, got, done, taken, flushed>> => CounterTypeOK'
           /\ UNCHANGED <<queuesInput, queueOutput, reply>> => QueueTypeOK'
           /\ UNCHANGED <<pc, qe, pipe>> => WorkerTypeOK'
           /\ UNCHANGED <<io, sessions>> => IoTypeOK'
<1>1. UNCHANGED netVars => NetTypeOK'
  BY DEF TypeOK, NetTypeOK, netVars
<1>2. UNCHANGED <<inVars, got, done, taken, flushed>> => CounterTypeOK'
  BY DEF TypeOK, CounterTypeOK, inVars
<1>3. UNCHANGED <<queuesInput, queueOutput, reply>> => QueueTypeOK'
  BY DEF TypeOK, QueueTypeOK
<1>4. UNCHANGED <<pc, qe, pipe>> => WorkerTypeOK'
  BY DEF TypeOK, WorkerTypeOK
<1>5. UNCHANGED <<io, sessions>> => IoTypeOK'
  BY DEF TypeOK, IoTypeOK
<1> QED
  BY <1>1, <1>2, <1>3, <1>4, <1>5

LEMMA TypeNext == TypeOK /\ [Next]_vars => TypeOK'
<1> SUFFICES ASSUME TypeOK, [Next]_vars PROVE TypeOK'
  OBVIOUS
<1> USE TypeFrame
<1>1. ASSUME NEW c \in Conns, Connect(c) PROVE TypeOK'
  <2>1. NetTypeOK'
    BY <1>1, AppendProperties DEF Connect, TypeOK, NetTypeOK
  <2> QED
    BY <1>1, <2>1 DEF Connect, TypeOK, inVars, workerVars, outVars
<1>2. ASSUME NEW c \in Conns, Send(c) PROVE TypeOK'
  <2>1. CounterTypeOK'
    BY <1>2 DEF Send, TypeOK, CounterTypeOK, Counters, workerVars, outVars
  <2> QED
    BY <1>2, <2>1 DEF Send, TypeOK, netVars, workerVars, outVars
<1>3. ASSUME NEW c \in Conns, HangUp(c) PROVE TypeOK'
  <2>1. NetTypeOK'
    BY <1>3 DEF HangUp, TypeOK, NetTypeOK
  <2> QED
    BY <1>3, <2>1 DEF HangUp, TypeOK, inVars, workerVars, outVars
<1>4. CASE acceptcb
  <2>1. Head(backlog) \in Conns /\ Tail(backlog) \in Seq(Conns)
    BY <1>4, HeadTailProperties DEF acceptcb, TypeOK, NetTypeOK
  <2>2. NetTypeOK'
    BY <1>4, <2>1 DEF acceptcb, TypeOK, NetTypeOK, FreeFds
  <2>3. IoTypeOK'
    BY <1>4 DEF acceptcb, TypeOK, IoTypeOK, Loop
  <2> QED
    BY <1>4, <2>2, <2>3 DEF acceptcb, TypeOK, inVars, workerVars, outVars
<1>5. ASSUME NEW fd \in Fds, readcb(fd) PROVE TypeOK'
  <2>1. sessions[fd] \in Conns
    BY <1>5 DEF readcb, TypeOK, NetTypeOK
  <2>2. recvd' \in Counters
    BY <1>5, <2>1 DEF readcb, TypeOK, CounterTypeOK, Counters
  <2>3. CounterTypeOK'
    BY <1>5, <2>2 DEF readcb, TypeOK, CounterTypeOK, workerVars, outVars
  <2>4. IoTypeOK'
    BY <1>5, ConstantsAssumption DEF readcb, IoTypeOK, netVars
  <2> QED
    BY <1>5, <2>3, <2>4 DEF readcb, TypeOK, netVars, workerVars, outVars
<1>6. ASSUME NEW fd \in Fds, errorcb(fd) PROVE TypeOK'
  <2>1. NetTypeOK'
    BY <1>6 DEF errorcb, TypeOK, NetTypeOK
  <2>2. IoTypeOK'
    BY <1>6 DEF errorcb, TypeOK, IoTypeOK, Loop
  <2> QED
    BY <1>6, <2>1, <2>2 DEF errorcb, TypeOK, inVars, workerVars, outVars
<1>7. ASSUME NEW fd \in Fds, writecb(fd) PROVE TypeOK'
  <2>1. sessions[fd] \in Conns
    BY <1>7 DEF writecb, TypeOK, NetTypeOK
  <2>2. Len(reply[sessions[fd]]) \in Nat
    BY <2>1, LenProperties DEF TypeOK, QueueTypeOK
  <2>3. flushed' \in Counters
    BY <1>7, <2>1, <2>2 DEF writecb, TypeOK, CounterTypeOK, Counters
  <2>4. CounterTypeOK'
    BY <1>7, <2>3 DEF writecb, TypeOK, CounterTypeOK, inVars, workerVars
  <2> QED
    BY <1>7, <2>4 DEF writecb, TypeOK, netVars, inVars, workerVars
<1>8. CASE readcbPut
  <2> DEFINE c == sessions[io.fd]
             w == WorkerOf(io.fd)
             e == [fd |-> io.fd, conn |-> c, n |-> put[c] + 1]
  <2>1. io.fd \in Fds /\ c \in Conns /\ w \in Workers
    BY <1>8, WorkerType DEF readcbPut, TypeOK, IoTypeOK, NetTypeOK
  <2>2. e \in QueueEle
    BY <2>1 DEF QueueEle, TypeOK, CounterTypeOK, Counters
  <2>3. Append(queuesInput[w], e) \in Seq(QueueEle)
    BY <2>1, <2>2, AppendProperties DEF TypeOK, QueueTypeOK
  <2>4. queuesInput' = [queuesInput EXCEPT ![w] = Append(queuesInput[w], e)]
    BY <1>8 DEF readcbPut
  <2>5. QueueTypeOK'
    BY <1>8, <2>1, <2>3, <2>4 DEF readcbPut, TypeOK, QueueTypeOK, outVars
  <2>6. put' \in Counters
    BY <1>8, <2>1, SMTT(30) DEF readcbPut, TypeOK, CounterTypeOK, Counters
  <2>7. CounterTypeOK'
    BY <1>8, <2>6 DEF readcbPut, TypeOK, CounterTypeOK, workerVars, outVars
  <2>8. IoTypeOK'
    BY <1>8 DEF readcbPut, TypeOK, IoTypeOK, Loop, netVars
  <2> QED
    BY <1>8, <2>5, <2>7, <2>8 DEF readcbPut, TypeOK, netVars, workerVars, outVars
<1>9. ASSUME NEW w \in Workers, readcbNotify(w) PROVE TypeOK'
  <2>1. pipe' \in [Workers -> 0 .. PipeCap]
    BY <1>9, ConstantsAssumption DEF readcbNotify, TypeOK, WorkerTypeOK
  <2>2. WorkerTypeOK'
    BY <1>9, <2>1 DEF readcbNotify, TypeOK, WorkerTypeOK, workerVars
  <2>3. IoTypeOK'
    BY <1>9 DEF readcbNotify, IoTypeOK
  <2> QED
    BY <1>9, <2>2, <2>3
       DEF readcbNotify, TypeOK, netVars, inVars, workerVars, outVars
<1>10. CASE readcbNotifyTryGet
  <2> DEFINE e == Head(queueOutput)
             c == sessions[e.fd]
  <2>1. e \in QueueEle /\ Tail(queueOutput) \in Seq(QueueEle)
    BY <1>10, HeadTailProperties DEF readcbNotifyTryGet, TypeOK, QueueTypeOK
  <2>2. e.fd \in Fds /\ e.conn \in Conns
    BY <2>1 DEF QueueEle
  <2>3. c \in Conns \cup {None}
    BY <2>2 DEF TypeOK, NetTypeOK
  <2>4. taken' \in Counters
    BY <1>10, <2>2, SMTT(30) DEF readcbNotifyTryGet, TypeOK, CounterTypeOK, Counters
  <2>5. CounterTypeOK'
    BY <1>10, <2>4
       DEF readcbNotifyTryGet, TypeOK, CounterTypeOK, inVars, workerVars
  <2>6. reply' \in [Conns -> Seq(QueueEle)]
    <3>1. CASE c = None
      BY <1>10, <3>1 DEF readcbNotifyTryGet, TypeOK, QueueTypeOK
    <3>2. CASE c # None
      <4>1. Append(reply[c], e) \in Seq(QueueEle)
        BY <2>1, <2>3, <3>2, AppendProperties DEF TypeOK, QueueTypeOK
      <4>2. reply' = [reply EXCEPT ![c] = Append(reply[c], e)]
        BY <1>10, <3>2 DEF readcbNotifyTryGet
      <4> QED
        BY <2>3, <3>2, <4>1, <4>2 DEF TypeOK, QueueTypeOK
    <3> QED
      BY <3>1, <3>2
  <2>7. QueueTypeOK'
    BY <1>10, <2>1, <2>6 DEF readcbNotifyTryGet, TypeOK, QueueTypeOK
  <2> QED
    BY <1>10, <2>5, <2>7 DEF readcbNotifyTryGet, TypeOK, netVars, workerVars
<1>11. CASE readcbNotifyEmpty
  <2>1. IoTypeOK'
    BY <1>11 DEF readcbNotifyEmpty, IoTypeOK, Loop
  <2> QED
    BY <1>11, <2>1
       DEF readcbNotifyEmpty, TypeOK, netVars, inVars, workerVars, outVars
<1>12. ASSUME NEW w \in Workers, WorkerGet(w) PROVE TypeOK'
  <2> DEFINE e == Head(queuesInput[w])
  <2>1. e \in QueueEle /\ Tail(queuesInput[w]) \in Seq(QueueEle)
    BY <1>12, HeadTailProperties DEF WorkerGet, TypeOK, QueueTypeOK
  <2>2. e.conn \in Conns /\ e # NoEle
    BY <2>1, NoEleType DEF QueueEle
  <2>3. QueueTypeOK'
    BY <1>12, <2>1 DEF WorkerGet, TypeOK, QueueTypeOK, outVars
  <2>4. got' \in Counters
    <3>1. got \in [Conns -> Nat]
      BY DEF TypeOK, CounterTypeOK, Counters
    <3>2. got' = [got EXCEPT ![e.conn] = got[e.conn] + 1]
      BY <1>12 DEF WorkerGet
    <3> QED
      BY <2>2, <3>1, <3>2 DEF Counters
  <2>5. CounterTypeOK'
    BY <1>12, <2>4 DEF WorkerGet, TypeOK, CounterTypeOK, inVars, outVars
  <2>6. WorkerTypeOK'
    BY <1>12, <2>1, <2>2 DEF WorkerGet, TypeOK, WorkerTypeOK
  <2> QED
    BY <1>12, <2>3, <2>5, <2>6 DEF WorkerGet, TypeOK, netVars
<1>13. ASSUME NEW w \in Workers, WorkerPut(w) PROVE TypeOK'
  <2>1. qe[w] \in QueueEle
    BY <1>13 DEF WorkerPut, TypeOK, WorkerTypeOK
  <2>2. qe[w].conn \in Conns
    BY <2>1 DEF QueueEle
  <2>3. QueueTypeOK'
    BY <1>13, <2>1, AppendProperties
       DEF WorkerPut, TypeOK, QueueTypeOK, outVars
  <2>4. done' \in Counters
    <3>1. done \in [Conns -> Nat]
      BY DEF TypeOK, CounterTypeOK, Counters
    <3>2. done' = [done EXCEPT ![qe[w].conn] = done[qe[w].conn] + 1]
      BY <1>13 DEF WorkerPut
    <3> QED
      BY <2>2, <3>1, <3>2 DEF Counters
  <2>5. CounterTypeOK'
    BY <1>13, <2>4 DEF WorkerPut, TypeOK, CounterTypeOK, inVars, outVars
  <2>6. WorkerTypeOK'
    BY <1>13 DEF WorkerPut, TypeOK, WorkerTypeOK
  <2> QED
    BY <1>13, <2>3, <2>5, <2>6 DEF WorkerPut, TypeOK, netVars
<1>14. ASSUME NEW w \in Workers, WorkerWrite(w) PROVE TypeOK'
  <2>1. WorkerTypeOK'
    BY <1>14, ConstantsAssumption DEF WorkerWrite, TypeOK, WorkerTypeOK
  <2> QED
    BY <1>14, <2>1 DEF WorkerWrite, TypeOK, netVars, inVars, outVars
<1>15. CASE UNCHANGED vars
  BY <1>15 DEF vars, TypeOK, netVars, inVars, workerVars, outVars
<1> QED
  BY <1>1, <1>2, <1>3, <1>4, <1>5, <1>6, <1>7, <1>8, <1>9, <1>10, <1>11,
     <1>12, <1>13, <1>14, <1>15
     DEF Next, Client, IoThread, WorkerProc, Finished, acceptcbFails

\* Every variable keeps its type.
THEOREM TypeCorrect == Spec => []TypeOK
BY TypeInit, TypeNext, PTL DEF Spec

-----------------------------------------------------------------------------
(* Wakeups.                                                                *)

LEMMA WakeupNext == TypeOK /\ NoLostWakeup /\ [Next]_vars => NoLostWakeup'
<1> SUFFICES ASSUME TypeOK, NoLostWakeup, [Next]_vars PROVE NoLostWakeup'
  OBVIOUS
<1>1. CASE UNCHANGED <<queueOutput, io, pipe, pc>>
  BY <1>1 DEF NoLostWakeup
<1>2. ASSUME NEW fd \in Fds, readcb(fd) PROVE NoLostWakeup'
  BY <1>2 DEF readcb, NoLostWakeup, Loop, workerVars
<1>3. CASE readcbPut
  BY <1>3 DEF readcbPut, NoLostWakeup, workerVars
<1>4. ASSUME NEW w \in Workers, readcbNotify(w) PROVE NoLostWakeup'
  BY <1>4 DEF readcbNotify, NoLostWakeup
<1>5. CASE readcbNotifyTryGet
  BY <1>5 DEF readcbNotifyTryGet, NoLostWakeup
<1>6. CASE readcbNotifyEmpty
  BY <1>6 DEF readcbNotifyEmpty, NoLostWakeup
<1>7. ASSUME NEW w \in Workers, WorkerGet(w) PROVE NoLostWakeup'
  BY <1>7 DEF WorkerGet, NoLostWakeup, TypeOK, WorkerTypeOK
<1>8. ASSUME NEW w \in Workers, WorkerPut(w) PROVE NoLostWakeup'
  BY <1>8 DEF WorkerPut, NoLostWakeup, TypeOK, WorkerTypeOK
<1>9. ASSUME NEW w \in Workers, WorkerWrite(w) PROVE NoLostWakeup'
  <2>1. pipe[w] \in Nat /\ pipe'[w] = pipe[w] + 1
    BY <1>9, ConstantsAssumption DEF WorkerWrite, TypeOK, WorkerTypeOK
  <2> QED
    BY <1>9, <2>1 DEF WorkerWrite, NoLostWakeup
<1>10. CASE Client \/ acceptcb \/ acceptcbFails \/ Finished \/ UNCHANGED vars
  BY <1>1, <1>10 DEF Client, Connect, Send, HangUp, acceptcb, acceptcbFails,
     Finished, vars, workerVars
<1>11. ASSUME NEW fd \in Fds, errorcb(fd) \/ writecb(fd) PROVE NoLostWakeup'
  BY <1>1, <1>11 DEF errorcb, writecb, workerVars
<1> QED
  BY <1>2, <1>3, <1>4, <1>5, <1>6, <1>7, <1>8, <1>9, <1>10, <1>11
     DEF Next, IoThread, WorkerProc

\* A reply in queueOutput is never stranded: for every number of threads and
\* every pipe capacity, someone is about to take it or to wake who will.
THEOREM WakeupSafe == Spec => []NoLostWakeup
<1>1. Init => NoLostWakeup
  BY DEF Init, NoLostWakeup
<1> QED
  BY <1>1, TypeInit, TypeNext, WakeupNext, PTL DEF Spec

-----------------------------------------------------------------------------
(* Sessions.                                                               *)

LEMMA SessionsNext ==
    TypeOK /\ SessionsAgree /\ [Next]_vars => SessionsAgree'
<1> SUFFICES ASSUME TypeOK, SessionsAgree, [Next]_vars PROVE SessionsAgree'
  OBVIOUS
<1> USE DEF TypeOK, NetTypeOK
<1>1. CASE UNCHANGED <<backlog, conn, fdOf, sessions>>
  BY <1>1 DEF SessionsAgree
<1>2. ASSUME NEW c \in Conns, Connect(c) PROVE SessionsAgree'
  <2>1. /\ Len(backlog) \in Nat /\ DOMAIN backlog = 1 .. Len(backlog)
        /\ DOMAIN backlog' = 1 .. Len(backlog) + 1
        /\ backlog'[Len(backlog) + 1] = c
        /\ \A i \in 1 .. Len(backlog) : backlog'[i] = backlog[i]
    BY <1>2, AppendProperties, LenProperties DEF Connect
  <2>2. \A i \in DOMAIN backlog : backlog[i] # c /\ backlog[i] \in Conns
    BY <1>2 DEF Connect, SessionsAgree
  <2>3. /\ \A d \in Conns : d # c => conn'[d] = conn[d]
        /\ conn[c] = "idle" /\ conn'[c] = "backlog"
        /\ UNCHANGED <<fdOf, sessions>>
    BY <1>2 DEF Connect
  <2>4. \A i, j \in DOMAIN backlog' : backlog'[i] = backlog'[j] => i = j
    BY <2>1, <2>2 DEF SessionsAgree
  <2>5. \A i \in DOMAIN backlog' : conn'[backlog'[i]] = "backlog"
    BY <2>1, <2>2, <2>3 DEF SessionsAgree
  <2> QED
    BY <2>3, <2>4, <2>5 DEF SessionsAgree
<1>3. CASE acceptcb
  <2> DEFINE c == Head(backlog)
  <2>1. /\ Len(backlog) \in Nat /\ DOMAIN backlog = 1 .. Len(backlog)
        /\ Len(backlog) >= 1 /\ c = backlog[1] /\ c \in Conns
        /\ DOMAIN backlog' = 1 .. Len(backlog) - 1
        /\ \A i \in 1 .. Len(backlog) - 1 : backlog'[i] = backlog[i + 1]
    BY <1>3, HeadTailProperties, LenProperties, EmptySeq DEF acceptcb
  <2>2. /\ \A i \in DOMAIN backlog' : backlog'[i] # c /\ backlog'[i] \in Conns
        /\ conn[c] = "backlog" /\ fdOf[c] = None
    BY <2>1 DEF SessionsAgree
  <2>3. /\ \A d \in Conns : d # c => conn'[d] = conn[d] /\ fdOf'[d] = fdOf[d]
        /\ conn'[c] \in {"open", "closed"}
    BY <1>3, <2>1 DEF acceptcb
  <2>4. /\ \A i \in DOMAIN backlog' : conn'[backlog'[i]] = "backlog"
        /\ \A i, j \in DOMAIN backlog' : backlog'[i] = backlog'[j] => i = j
    <3>1. \A i \in DOMAIN backlog' : conn[backlog'[i]] = "backlog"
      BY <2>1 DEF SessionsAgree
    <3>2. \A i \in DOMAIN backlog' : conn'[backlog'[i]] = "backlog"
      BY <2>2, <2>3, <3>1
    <3>3. ASSUME NEW i \in DOMAIN backlog', NEW j \in DOMAIN backlog',
                 backlog'[i] = backlog'[j]
          PROVE  i = j
      <4>1. /\ i + 1 \in DOMAIN backlog /\ j + 1 \in DOMAIN backlog
            /\ backlog[i + 1] = backlog[j + 1]
        BY <2>1, <3>3
      <4>2. i + 1 = j + 1
        BY <4>1 DEF SessionsAgree
      <4> QED
        BY <2>1, <4>2
    <3> QED
      BY <3>2, <3>3
  <2>5. PICK fd \in FreeFds :
          IF fd > FdSetSize
          THEN conn'[c] = "closed" /\ UNCHANGED <<fdOf, sessions>>
          ELSE /\ conn'[c] = "open" /\ fdOf'[c] = fd
               /\ sessions' = [sessions EXCEPT ![fd] = c]
    BY <1>3, <2>1 DEF acceptcb
  <2>6. fd \in Fds /\ sessions[fd] = None /\ fd # None
    BY ConstantsAssumption DEF FreeFds
  <2>7. c # None
    BY <2>1, ConstantsAssumption
  <2>8. \A d \in Conns : conn[d] = "open" => fdOf[d] \in Fds /\ fdOf[d] # fd
    BY <2>6, ConstantsAssumption DEF SessionsAgree
  <2>9. \A d \in Conns :
          /\ conn'[d] = "open" => fdOf'[d] # None /\ sessions'[fdOf'[d]] = d
          /\ conn'[d] \in {"idle", "backlog"} => fdOf'[d] = None
    BY <2>1, <2>2, <2>3, <2>5, <2>6, <2>8 DEF SessionsAgree
  <2>10. \A f \in Fds : sessions'[f] # None =>
           conn'[sessions'[f]] = "open" /\ fdOf'[sessions'[f]] = f
    <3> SUFFICES ASSUME NEW f \in Fds, sessions'[f] # None
                 PROVE  conn'[sessions'[f]] = "open" /\ fdOf'[sessions'[f]] = f
      OBVIOUS
    <3>1. CASE sessions'[f] = sessions[f]
      <4>1. sessions[f] \in Conns /\ sessions[f] # c
        BY <2>2, <3>1 DEF SessionsAgree
      <4> QED
        BY <2>3, <3>1, <4>1 DEF SessionsAgree
    <3>2. CASE sessions'[f] # sessions[f]
      BY <2>5, <2>6, <3>2
    <3> QED
      BY <3>1, <3>2
  <2> QED
    BY <2>4, <2>9, <2>10 DEF SessionsAgree
<1>4. ASSUME NEW fd \in Fds, errorcb(fd) PROVE SessionsAgree'
  <2> DEFINE c == sessions[fd]
  <2>1. c \in Conns /\ c # None
    BY <1>4, ConstantsAssumption DEF errorcb
  <2>2. conn[c] = "open" /\ fdOf[c] = fd
    BY <2>1 DEF SessionsAgree
  <2>3. /\ sessions' = [sessions EXCEPT ![fd] = None]
        /\ conn' = [conn EXCEPT ![c] = "closed"]
        /\ UNCHANGED <<backlog, fdOf>>
    BY <1>4 DEF errorcb
  <2>4. \A d \in Conns : conn'[d] = "open" => d # c /\ conn[d] = "open"
    BY <2>1, <2>3
  <2>5. \A d \in Conns :
          /\ conn'[d] = "open" => fdOf'[d] # None /\ sessions'[fdOf'[d]] = d
          /\ conn'[d] \in {"idle", "backlog"} => fdOf'[d] = None
    BY <2>1, <2>2, <2>3, <2>4 DEF SessionsAgree
  <2>6. \A f \in Fds : sessions'[f] # None =>
           conn'[sessions'[f]] = "open" /\ fdOf'[sessions'[f]] = f
    <3> SUFFICES ASSUME NEW f \in Fds, sessions'[f] # None
                 PROVE  conn'[sessions'[f]] = "open" /\ fdOf'[sessions'[f]] = f
      OBVIOUS
    <3>1. f # fd /\ sessions'[f] = sessions[f]
      BY <2>3
    <3>2. /\ sessions[f] \in Conns /\ conn[sessions[f]] = "open"
          /\ fdOf[sessions[f]] = f
      BY <3>1 DEF SessionsAgree
    <3> QED
      BY <2>2, <2>3, <3>1, <3>2
  <2>7. \A i \in DOMAIN backlog' : conn'[backlog'[i]] = "backlog"
    BY <2>2, <2>3 DEF SessionsAgree
  <2> QED
    BY <2>3, <2>5, <2>6, <2>7 DEF SessionsAgree
<1>5. ASSUME NEW c \in Conns, Send(c) \/ HangUp(c) PROVE SessionsAgree'
  BY <1>1, <1>5 DEF Send, HangUp, netVars
<1>6. ASSUME NEW fd \in Fds, readcb(fd) \/ writecb(fd) PROVE SessionsAgree'
  BY <1>1, <1>6 DEF readcb, writecb, netVars
<1>7. ASSUME NEW w \in Workers, readcbNotify(w) \/ WorkerProc(w)
      PROVE  SessionsAgree'
  BY <1>1, <1>7
     DEF readcbNotify, WorkerProc, WorkerGet, WorkerPut, WorkerWrite, netVars
<1>8. CASE readcbPut \/ readcbNotifyTryGet \/ readcbNotifyEmpty
  BY <1>1, <1>8 DEF readcbPut, readcbNotifyTryGet, readcbNotifyEmpty, netVars
<1>9. CASE acceptcbFails \/ Finished \/ UNCHANGED vars
  BY <1>1, <1>9 DEF acceptcbFails, Finished, vars, netVars
<1> QED
  BY <1>2, <1>3, <1>4, <1>5, <1>6, <1>7, <1>8, <1>9 DEF Next, Client, IoThread

-----------------------------------------------------------------------------
(* Counters and hand-offs.                                                 *)

\* What the session table says of the callback and of the workers' queues.
LEMMA ReadingConn ==
    ASSUME TypeOK, SessionsAgree, io.pc = "read"
    PROVE  LET c == sessions[io.fd]
           IN  /\ io.fd \in Fds /\ c \in Conns /\ conn[c] = "open"
               /\ fdOf[c] = io.fd /\ c \in Served(WorkerOf(io.fd))
<1>1. io.fd \in Fds /\ sessions[io.fd] \in Conns /\ sessions[io.fd] # None
  BY DEF TypeOK, IoTypeOK, NetTypeOK
<1>2. conn[sessions[io.fd]] = "open" /\ fdOf[sessions[io.fd]] = io.fd
  BY <1>1 DEF SessionsAgree
<1> QED
  BY <1>1, <1>2, ConstantsAssumption DEF Served, Accepted, WorkerOf

\* A connection has one worker.
LEMMA ServedOnce ==
    \A v, w \in Workers : v # w => Served(v) \cap Served(w) = {}
BY DEF Served

LEMMA ServedFrame ==
    UNCHANGED fdOf =>
        Accepted' = Accepted /\ \A w \in Workers : Served(w)' = Served(w)
BY DEF Served, Accepted

\* The step that accepts a connection gives it a descriptor or nothing.
LEMMA AcceptStep ==
    ASSUME TypeOK, SessionsAgree, acceptcb
    PROVE  LET c == Head(backlog)
           IN  /\ c \in Conns /\ conn[c] = "backlog" /\ fdOf[c] = None
               /\ io = Loop
               /\ UNCHANGED <<hup, inVars, workerVars, outVars, queuesInput,
                              queueOutput, pipe, io>>
               /\ \/ /\ conn' = [conn EXCEPT ![c] = "closed"]
                     /\ UNCHANGED <<fdOf, sessions>>
                  \/ \E fd \in Fds :
                        /\ sessions[fd] = None
                        /\ conn' = [conn EXCEPT ![c] = "open"]
                        /\ fdOf' = [fdOf EXCEPT ![c] = fd]
                        /\ sessions' = [sessions EXCEPT ![fd] = c]
<1>1. /\ Len(backlog) >= 1 /\ DOMAIN backlog = 1 .. Len(backlog)
      /\ Len(backlog) \in Nat
      /\ Head(backlog) = backlog[1] /\ Head(backlog) \in Conns
  BY HeadTailProperties, LenProperties, EmptySeq
     DEF acceptcb, TypeOK, NetTypeOK
<1>2. conn[Head(backlog)] = "backlog" /\ fdOf[Head(backlog)] = None
  BY <1>1 DEF SessionsAgree
<1> QED
  BY <1>1, <1>2 DEF acceptcb, FreeFds

\* The next element of queueOutput, and of a worker's queue.
LEMMA OutputHead ==
    ASSUME TypeOK, HandOffsKeepOrder, queueOutput # <<>>
    PROVE  LET e == Head(queueOutput)
           IN  /\ e \in QueueEle /\ e.conn \in Accepted /\ e.conn \in Conns
               /\ e.fd = fdOf[e.conn]
               /\ e.n = taken[e.conn] + 1 /\ e.n <= done[e.conn]
               /\ QueueHolds(Tail(queueOutput), Accepted, fdOf,
                             [taken EXCEPT ![e.conn] = @ + 1], done)
<1>1. queueOutput \in Seq(QueueEle) /\ taken \in Counters /\ done \in Counters
  BY DEF TypeOK, CounterTypeOK, QueueTypeOK
<1>2. Accepted \in SUBSET Conns
  BY DEF Accepted
<1>3. QueueHolds(queueOutput, Accepted, fdOf, taken, done)
  BY DEF HandOffsKeepOrder
<1> QED
  BY <1>1, <1>2, <1>3, QueueTail

LEMMA InputHead ==
    ASSUME TypeOK, HandOffsKeepOrder,
           NEW w \in Workers, queuesInput[w] # <<>>
    PROVE  LET e == Head(queuesInput[w])
           IN  /\ e \in QueueEle /\ e.conn \in Served(w) /\ e.conn \in Conns
               /\ e.fd = fdOf[e.conn]
               /\ e.n = got[e.conn] + 1 /\ e.n <= put[e.conn]
               /\ QueueHolds(Tail(queuesInput[w]), Served(w), fdOf,
                             [got EXCEPT ![e.conn] = @ + 1], put)
<1>1. queuesInput[w] \in Seq(QueueEle) /\ got \in Counters /\ put \in Counters
  BY DEF TypeOK, CounterTypeOK, QueueTypeOK
<1>2. Served(w) \in SUBSET Conns
  BY DEF Served, Accepted
<1>3. QueueHolds(queuesInput[w], Served(w), fdOf, got, put)
  BY DEF HandOffsKeepOrder
<1> QED
  BY <1>1, <1>2, <1>3, QueueTail

LEMMA CountersNext ==
    TypeOK /\ SessionsAgree /\ CountersAgree /\ HandOffsKeepOrder /\ [Next]_vars
        => CountersAgree'
<1> SUFFICES ASSUME TypeOK, SessionsAgree, CountersAgree, HandOffsKeepOrder,
                    [Next]_vars
             PROVE  CountersAgree'
  OBVIOUS
<1>0. /\ sent \in [Conns -> Nat] /\ recvd \in [Conns -> Nat]
      /\ put \in [Conns -> Nat] /\ got \in [Conns -> Nat]
      /\ done \in [Conns -> Nat] /\ taken \in [Conns -> Nat]
  BY DEF TypeOK, CounterTypeOK, Counters
<1>1. CASE UNCHANGED <<inVars, got, done, taken, fdOf, io, sessions>>
  BY <1>1 DEF CountersAgree, inVars
<1>2. ASSUME NEW c \in Conns, Send(c) PROVE CountersAgree'
  BY <1>0, <1>2 DEF Send, CountersAgree, netVars, workerVars, outVars
<1>3. CASE acceptcb
  <2>1. /\ \A d \in Conns : fdOf'[d] = None => fdOf[d] = None
        /\ io'.pc # "read"
        /\ UNCHANGED <<inVars, got, done, taken>>
    BY <1>3, AcceptStep DEF Loop, workerVars, outVars, TypeOK, NetTypeOK
  <2> QED
    BY <2>1 DEF CountersAgree, inVars
<1>4. ASSUME NEW fd \in Fds, readcb(fd) PROVE CountersAgree'
  <2> DEFINE c == sessions[fd]
  <2>1. c \in Conns
    BY <1>4 DEF readcb, TypeOK, NetTypeOK
  <2>2. PICK k \in recvd[c] + 1 .. sent[c] : recvd' = [recvd EXCEPT ![c] = k]
    BY <1>4 DEF readcb
  <2>3. UNCHANGED <<sent, put, got, done, taken, fdOf, sessions>>
        /\ io'.fd = fd
    BY <1>4 DEF readcb, netVars, workerVars, outVars
  <2> QED
    BY <1>0, <2>1, <2>2, <2>3 DEF CountersAgree
<1>5. CASE readcbPut
  <2> DEFINE c == sessions[io.fd]
  <2>1. c \in Conns /\ fdOf[c] # None
    BY <1>5, ReadingConn, ConstantsAssumption DEF readcbPut
  <2>2. put[c] < recvd[c]
    BY <1>5 DEF readcbPut, CountersAgree
  <2>3. /\ put' = [put EXCEPT ![c] = @ + 1]
        /\ io' = IF put[c] + 1 < recvd[c] THEN io ELSE Loop
        /\ UNCHANGED <<sent, recvd, got, done, taken, fdOf, sessions>>
    BY <1>5 DEF readcbPut, netVars, workerVars, outVars
  <2> QED
    BY <1>0, <2>1, <2>2, <2>3 DEF CountersAgree, Loop
<1>6. ASSUME NEW fd \in Fds, errorcb(fd) PROVE CountersAgree'
  BY <1>6 DEF errorcb, CountersAgree, Loop, inVars, workerVars, outVars
<1>7. ASSUME NEW w \in Workers, readcbNotify(w) PROVE CountersAgree'
  BY <1>7 DEF readcbNotify, CountersAgree, netVars, inVars, workerVars, outVars
<1>8. CASE readcbNotifyTryGet
  <2> DEFINE e == Head(queueOutput)
  <2>1. e.conn \in Conns /\ e.n = taken[e.conn] + 1 /\ e.n <= done[e.conn]
    BY <1>8, OutputHead DEF readcbNotifyTryGet
  <2>2. /\ taken' = [taken EXCEPT ![e.conn] = @ + 1]
        /\ UNCHANGED <<sent, recvd, put, got, done, fdOf, io, sessions>>
    BY <1>8 DEF readcbNotifyTryGet, netVars, inVars, workerVars
  <2> QED
    BY <1>0, <2>1, <2>2 DEF CountersAgree
<1>9. CASE readcbNotifyEmpty
  BY <1>9 DEF readcbNotifyEmpty, CountersAgree, Loop, netVars, inVars,
     workerVars, outVars
<1>10. ASSUME NEW w \in Workers, WorkerGet(w) PROVE CountersAgree'
  <2> DEFINE e == Head(queuesInput[w])
  <2>1. e.conn \in Conns /\ e.n = got[e.conn] + 1 /\ e.n <= put[e.conn]
    BY <1>10, InputHead DEF WorkerGet
  <2>2. /\ got' = [got EXCEPT ![e.conn] = @ + 1]
        /\ UNCHANGED <<sent, recvd, put, done, taken, fdOf, io, sessions>>
    BY <1>10 DEF WorkerGet, netVars, inVars, outVars
  <2> QED
    BY <1>0, <2>1, <2>2 DEF CountersAgree
<1>11. ASSUME NEW w \in Workers, WorkerPut(w) PROVE CountersAgree'
  <2> DEFINE e == qe[w]
  <2>1. e.conn \in Conns /\ got[e.conn] = done[e.conn] + 1
    BY <1>11 DEF WorkerPut, HandOffsKeepOrder, Served, Accepted
  <2>2. /\ done' = [done EXCEPT ![e.conn] = @ + 1]
        /\ UNCHANGED <<sent, recvd, put, got, taken, fdOf, io, sessions>>
    BY <1>11 DEF WorkerPut, netVars, inVars, outVars
  <2> QED
    BY <1>0, <2>1, <2>2 DEF CountersAgree
<1>12. ASSUME NEW c \in Conns, Connect(c) \/ HangUp(c) PROVE CountersAgree'
  BY <1>1, <1>12 DEF Connect, HangUp, workerVars, outVars
<1>13. ASSUME NEW fd \in Fds, writecb(fd) PROVE CountersAgree'
  BY <1>1, <1>13 DEF writecb, netVars, workerVars
<1>14. ASSUME NEW w \in Workers, WorkerWrite(w) PROVE CountersAgree'
  BY <1>1, <1>14 DEF WorkerWrite, netVars, outVars
<1>15. CASE acceptcbFails \/ Finished \/ UNCHANGED vars
  BY <1>1, <1>15 DEF acceptcbFails, Finished, vars, netVars, workerVars, outVars
<1> QED
  BY <1>2, <1>3, <1>4, <1>5, <1>6, <1>7, <1>8, <1>9, <1>10, <1>11, <1>12,
     <1>13, <1>14, <1>15 DEF Next, Client, IoThread, WorkerProc

LEMMA HandOffsNext ==
    TypeOK /\ SessionsAgree /\ CountersAgree /\ HandOffsKeepOrder /\ [Next]_vars
        => HandOffsKeepOrder'
<1> SUFFICES ASSUME TypeOK, SessionsAgree, CountersAgree, HandOffsKeepOrder,
                    [Next]_vars
             PROVE  HandOffsKeepOrder'
  OBVIOUS
<1>0. /\ sent \in Counters /\ recvd \in Counters /\ put \in Counters
      /\ got \in Counters /\ done \in Counters /\ taken \in Counters
      /\ queueOutput \in Seq(QueueEle)
      /\ \A w \in Workers : queuesInput[w] \in Seq(QueueEle)
      /\ Accepted \in SUBSET Conns
      /\ \A w \in Workers : Served(w) \in SUBSET Conns
  BY DEF TypeOK, CounterTypeOK, QueueTypeOK, Served, Accepted
<1>t. /\ sent' \in Counters /\ recvd' \in Counters /\ put' \in Counters
      /\ got' \in Counters /\ done' \in Counters /\ taken' \in Counters
  BY TypeNext DEF TypeOK, CounterTypeOK
<1>1. CASE UNCHANGED <<queuesInput, queueOutput, fdOf, put, workerVars, taken>>
  BY <1>1 DEF HandOffsKeepOrder, Served, Accepted, workerVars
<1>2. CASE acceptcb
  <2> DEFINE c == Head(backlog)
  <2>1. /\ c \in Conns /\ fdOf[c] = None /\ put[c] = 0 /\ got[c] = 0
        /\ done[c] = 0 /\ taken[c] = 0
    BY <1>0, <1>2, AcceptStep DEF CountersAgree, Counters
  <2>2. /\ \A d \in Conns : d # c => fdOf'[d] = fdOf[d]
        /\ UNCHANGED <<queuesInput, queueOutput, put, workerVars, taken>>
    BY <1>2, <2>1, AcceptStep DEF inVars, outVars, TypeOK, NetTypeOK
  <2>3. /\ Accepted \subseteq Accepted' /\ Accepted' \subseteq Accepted \cup {c}
        /\ \A w \in Workers : /\ Served(w) \subseteq Served(w)'
                              /\ Served(w)' \subseteq Served(w) \cup {c}
        /\ c \notin Accepted /\ \A w \in Workers : c \notin Served(w)
        /\ Accepted' \in SUBSET Conns
        /\ \A w \in Workers : Served(w)' \in SUBSET Conns
    BY <2>1, <2>2 DEF Accepted, Served
  <2>4. QueueHolds(queueOutput, Accepted', fdOf', taken, done)
    <3>1. QueueHolds(queueOutput, Accepted, fdOf, taken, done)
      BY DEF HandOffsKeepOrder
    <3>2. \A d \in Accepted : fdOf'[d] = fdOf[d]
      BY <1>0, <2>2, <2>3
    <3>3. \A d \in Accepted' \ Accepted : done[d] <= taken[d]
      BY <2>1, <2>3
    <3> QED
      BY <1>0, <2>3, <3>1, <3>2, <3>3, QueueFrame
  <2>5. ASSUME NEW w \in Workers
        PROVE  QueueHolds(queuesInput[w], Served(w)', fdOf', got, put)
    <3>1. QueueHolds(queuesInput[w], Served(w), fdOf, got, put)
      BY DEF HandOffsKeepOrder
    <3>2. \A d \in Served(w) : fdOf'[d] = fdOf[d]
      BY <1>0, <2>2, <2>3
    <3>3. \A d \in Served(w)' \ Served(w) : put[d] <= got[d]
      BY <2>1, <2>3
    <3> QED
      BY <1>0, <2>3, <3>1, <3>2, <3>3, QueueFrame
  <2>6. ASSUME NEW w \in Workers, pc[w] = "put"
        PROVE  /\ qe[w].conn \in Served(w)' /\ qe[w].conn # c
               /\ qe[w].fd = fdOf'[qe[w].conn] /\ qe[w].n = got[qe[w].conn]
    BY <1>0, <2>2, <2>3, <2>6 DEF HandOffsKeepOrder
  <2>7. ASSUME NEW w \in Workers, NEW d \in Served(w)'
        PROVE  got[d] = done[d] + (IF pc[w] = "put" /\ qe[w].conn = d THEN 1 ELSE 0)
    BY <2>1, <2>3, <2>6 DEF HandOffsKeepOrder
  <2> QED
    BY <2>2, <2>4, <2>5, <2>6, <2>7 DEF HandOffsKeepOrder, workerVars
<1>3. CASE readcbPut
  <2> DEFINE c == sessions[io.fd]
             w == WorkerOf(io.fd)
             e == [fd |-> io.fd, conn |-> c, n |-> put[c] + 1]
  <2>1. /\ io.fd \in Fds /\ c \in Conns /\ fdOf[c] = io.fd
        /\ w \in Workers /\ c \in Served(w)
    BY <1>3, ReadingConn, WorkerType DEF readcbPut
  <2>2. e \in QueueEle
    BY <1>0, <2>1 DEF QueueEle, Counters
  <2>3. /\ queuesInput' = [queuesInput EXCEPT ![w] = Append(queuesInput[w], e)]
        /\ put' = [put EXCEPT ![c] = @ + 1]
        /\ UNCHANGED <<fdOf, pc, qe, got, done, taken, queueOutput>>
    BY <1>3 DEF readcbPut, netVars, workerVars, outVars
  <2>4. QueueHolds(queuesInput'[w], Served(w), fdOf, got, put')
    <3>1. QueueHolds(queuesInput[w], Served(w), fdOf, got, put)
      BY <2>1 DEF HandOffsKeepOrder
    <3>2. got[c] <= put[c]
      BY <2>1 DEF CountersAgree
    <3>3. QueueHolds(Append(queuesInput[w], e), Served(w), fdOf, got,
                     [put EXCEPT ![e.conn] = @ + 1])
      BY <1>0, <2>1, <2>2, <3>1, <3>2, QueueAppend
    <3>4. queuesInput'[w] = Append(queuesInput[w], e)
      BY <2>1, <2>3 DEF TypeOK, QueueTypeOK
    <3> QED
      BY <2>3, <3>3, <3>4
  <2>5. ASSUME NEW v \in Workers, v # w
        PROVE  QueueHolds(queuesInput'[v], Served(v), fdOf, got, put')
    <3>1. queuesInput'[v] = queuesInput[v]
      BY <2>3, <2>5 DEF TypeOK, QueueTypeOK
    <3>2. QueueHolds(queuesInput[v], Served(v), fdOf, got, put)
      BY DEF HandOffsKeepOrder
    <3>3. c \notin Served(v)
      BY <2>1, <2>5, ServedOnce
    <3>4. \A d \in Served(v) : put'[d] = put[d]
      BY <1>0, <2>3, <3>3 DEF Counters
    <3> QED
      BY <1>0, <1>t, <3>1, <3>2, <3>4, QueueFrame
  <2>6. \A v \in Workers : QueueHolds(queuesInput'[v], Served(v), fdOf, got, put')
    BY <2>4, <2>5
  <2> QED
    BY <2>3, <2>6, ServedFrame DEF HandOffsKeepOrder
<1>4. CASE readcbNotifyTryGet
  <2> DEFINE e == Head(queueOutput)
  <2>1. QueueHolds(Tail(queueOutput), Accepted, fdOf,
                   [taken EXCEPT ![e.conn] = @ + 1], done)
    BY <1>4, OutputHead DEF readcbNotifyTryGet
  <2>2. /\ queueOutput' = Tail(queueOutput)
        /\ taken' = [taken EXCEPT ![e.conn] = @ + 1]
        /\ UNCHANGED <<queuesInput, fdOf, put, pc, qe, got, done>>
    BY <1>4 DEF readcbNotifyTryGet, netVars, inVars, workerVars
  <2> QED
    BY <2>1, <2>2 DEF HandOffsKeepOrder, Served, Accepted
<1>5. ASSUME NEW w \in Workers, WorkerGet(w) PROVE HandOffsKeepOrder'
  <2> DEFINE e == Head(queuesInput[w])
  <2>1. /\ e.conn \in Served(w) /\ e.conn \in Conns /\ e.fd = fdOf[e.conn]
        /\ e.n = got[e.conn] + 1
        /\ QueueHolds(Tail(queuesInput[w]), Served(w), fdOf,
                      [got EXCEPT ![e.conn] = @ + 1], put)
    BY <1>5, InputHead DEF WorkerGet
  <2>2. /\ queuesInput' = [queuesInput EXCEPT ![w] = Tail(queuesInput[w])]
        /\ got' = [got EXCEPT ![e.conn] = @ + 1]
        /\ qe' = [qe EXCEPT ![w] = e] /\ pc' = [pc EXCEPT ![w] = "put"]
        /\ pc[w] = "get"
        /\ UNCHANGED <<queueOutput, fdOf, put, done, taken>>
    BY <1>5 DEF WorkerGet, netVars, inVars, outVars
  <2>3. /\ queuesInput'[w] = Tail(queuesInput[w])
        /\ qe'[w] = e /\ pc'[w] = "put" /\ got'[e.conn] = got[e.conn] + 1
        /\ \A v \in Workers : v # w =>
              queuesInput'[v] = queuesInput[v] /\ qe'[v] = qe[v] /\ pc'[v] = pc[v]
        /\ \A d \in Conns : d # e.conn => got'[d] = got[d]
    BY <1>0, <2>1, <2>2
       DEF TypeOK, QueueTypeOK, WorkerTypeOK, Counters
  <2>4. ASSUME NEW v \in Workers, v # w
        PROVE  \A d \in Served(v) : d # e.conn /\ got'[d] = got[d]
    BY <1>0, <2>1, <2>3, <2>4, ServedOnce
  <2>5. ASSUME NEW v \in Workers
        PROVE  QueueHolds(queuesInput'[v], Served(v), fdOf, got', put)
    <3>1. CASE v = w
      BY <2>1, <2>2, <2>3, <3>1
    <3>2. CASE v # w
      <4>1. QueueHolds(queuesInput[v], Served(v), fdOf, got, put)
        BY DEF HandOffsKeepOrder
      <4> QED
        BY <1>0, <1>t, <2>3, <2>4, <3>2, <4>1, QueueFrame
    <3> QED
      BY <3>1, <3>2
  <2>6. ASSUME NEW v \in Workers, pc'[v] = "put"
        PROVE  /\ qe'[v].conn \in Served(v) /\ qe'[v].fd = fdOf[qe'[v].conn]
               /\ qe'[v].n = got'[qe'[v].conn]
    <3>1. CASE v = w
      BY <2>1, <2>3, <3>1
    <3>2. CASE v # w
      BY <2>3, <2>4, <2>6, <3>2 DEF HandOffsKeepOrder
    <3> QED
      BY <3>1, <3>2
  <2>7. ASSUME NEW v \in Workers, NEW d \in Served(v)
        PROVE  got'[d] = done[d] + (IF pc'[v] = "put" /\ qe'[v].conn = d THEN 1 ELSE 0)
    <3>0. d \in Conns /\ got[d] \in Nat /\ done[d] \in Nat
      BY <1>0 DEF Counters
    <3>1. CASE v = w
      <4>1. got[d] = done[d]
        BY <2>2, <3>0, <3>1 DEF HandOffsKeepOrder
      <4> QED
        BY <2>3, <3>0, <3>1, <4>1
    <3>2. CASE v # w
      BY <2>3, <2>4, <3>2 DEF HandOffsKeepOrder
    <3> QED
      BY <3>1, <3>2
  <2>8. QueueHolds(queueOutput', Accepted', fdOf', taken', done')
    BY <2>2, ServedFrame DEF HandOffsKeepOrder
  <2>9. /\ UNCHANGED <<fdOf, put, done>>
        /\ \A v \in Workers : Served(v)' = Served(v)
    BY <2>2, ServedFrame
  <2> QED
    BY <2>5, <2>6, <2>7, <2>8, <2>9 DEF HandOffsKeepOrder
<1>6. ASSUME NEW w \in Workers, WorkerPut(w) PROVE HandOffsKeepOrder'
  <2> DEFINE e == qe[w]
  <2>1. e \in QueueEle
    BY <1>6 DEF WorkerPut, TypeOK, WorkerTypeOK
  <2>2. /\ e.conn \in Served(w) /\ e.fd = fdOf[e.conn]
        /\ e.n = got[e.conn] /\ got[e.conn] = done[e.conn] + 1
    BY <1>6 DEF WorkerPut, HandOffsKeepOrder
  <2>3. e.conn \in Accepted /\ e.conn \in Conns
    BY <2>2 DEF Served, Accepted
  <2>4. /\ queueOutput' = Append(queueOutput, e)
        /\ done' = [done EXCEPT ![e.conn] = @ + 1]
        /\ pc' = [pc EXCEPT ![w] = "write"] /\ qe' = [qe EXCEPT ![w] = NoEle]
        /\ pc[w] = "put"
        /\ UNCHANGED <<queuesInput, fdOf, put, got, taken>>
    BY <1>6 DEF WorkerPut, netVars, inVars, outVars
  <2>5. /\ pc'[w] = "write" /\ done'[e.conn] = done[e.conn] + 1
        /\ \A v \in Workers : v # w => qe'[v] = qe[v] /\ pc'[v] = pc[v]
        /\ \A d \in Conns : d # e.conn => done'[d] = done[d]
    BY <1>0, <2>3, <2>4 DEF TypeOK, WorkerTypeOK, Counters
  <2>6. QueueHolds(queueOutput', Accepted, fdOf, taken, done')
    <3>1. QueueHolds(queueOutput, Accepted, fdOf, taken, done)
      BY DEF HandOffsKeepOrder
    <3>2. taken[e.conn] <= done[e.conn]
      BY <2>3 DEF CountersAgree
    <3> QED
      BY <1>0, <2>1, <2>2, <2>3, <2>4, <3>1, <3>2, QueueAppend
  <2>7. ASSUME NEW v \in Workers, NEW d \in Served(v)
        PROVE  got[d] = done'[d] + (IF pc'[v] = "put" /\ qe'[v].conn = d THEN 1 ELSE 0)
    <3>0. d \in Conns /\ got[d] \in Nat /\ done[d] \in Nat
      BY <1>0 DEF Counters
    <3>1. CASE v = w
      <4>1. got[d] = done[d] + (IF e.conn = d THEN 1 ELSE 0)
        BY <2>4, <3>1 DEF HandOffsKeepOrder
      <4> QED
        BY <2>5, <3>0, <3>1, <4>1
    <3>2. CASE v # w
      <4>1. d # e.conn
        BY <2>2, <3>2, ServedOnce
      <4> QED
        BY <2>5, <3>0, <3>2, <4>1 DEF HandOffsKeepOrder
    <3> QED
      BY <3>1, <3>2
  <2>8. ASSUME NEW v \in Workers, pc'[v] = "put"
        PROVE  /\ qe'[v].conn \in Served(v) /\ qe'[v].fd = fdOf[qe'[v].conn]
               /\ qe'[v].n = got[qe'[v].conn]
    BY <2>5, <2>8 DEF HandOffsKeepOrder
  <2> QED
    BY <2>4, <2>6, <2>7, <2>8, ServedFrame DEF HandOffsKeepOrder
<1>7. ASSUME NEW w \in Workers, WorkerWrite(w) PROVE HandOffsKeepOrder'
  <2>1. /\ pc[w] # "put" /\ pc'[w] # "put"
        /\ \A v \in Workers : v # w => pc'[v] = pc[v]
        /\ UNCHANGED <<queuesInput, queueOutput, fdOf, put, qe, got, done, taken>>
    BY <1>7 DEF WorkerWrite, netVars, inVars, outVars, TypeOK, WorkerTypeOK
  <2> QED
    BY <2>1 DEF HandOffsKeepOrder, Served, Accepted
<1>8. CASE Client
  BY <1>1, <1>8 DEF Client, Connect, Send, HangUp, netVars, inVars, outVars
<1>9. ASSUME NEW fd \in Fds, readcb(fd) \/ errorcb(fd) \/ writecb(fd)
      PROVE  HandOffsKeepOrder'
  BY <1>1, <1>9 DEF readcb, errorcb, writecb, netVars, inVars, outVars
<1>10. ASSUME NEW w \in Workers, readcbNotify(w) PROVE HandOffsKeepOrder'
  BY <1>1, <1>10 DEF readcbNotify, netVars, inVars, outVars
<1>11. CASE readcbNotifyEmpty \/ acceptcbFails \/ Finished \/ UNCHANGED vars
  BY <1>1, <1>11
     DEF readcbNotifyEmpty, acceptcbFails, Finished, vars, netVars, inVars, outVars
<1> QED
  BY <1>2, <1>3, <1>4, <1>5, <1>6, <1>7, <1>8, <1>9, <1>10, <1>11
     DEF Next, IoThread, WorkerProc

-----------------------------------------------------------------------------
(* Stale elements.                                                         *)

LEMMA StaleTail ==
    ASSUME NEW q \in Seq(QueueEle), q # <<>>, NEW c, NEW fd, NEW n,
           StaleAhead(q, c, fd, n), NEW m,
           Head(q).conn # c => m = n
    PROVE  /\ StaleAhead(Tail(q), c, fd, m)
           /\ IsStale(Head(q), c, fd) => n = 0
<1>1. /\ Len(q) \in Nat /\ Len(q) >= 1 /\ DOMAIN q = 1 .. Len(q)
      /\ Head(q) = q[1]
      /\ DOMAIN Tail(q) = 1 .. Len(q) - 1
      /\ \A i \in 1 .. Len(q) - 1 : Tail(q)[i] = q[i + 1]
  BY HeadTailProperties, LenProperties, EmptySeq
<1>2. ASSUME NEW i \in DOMAIN Tail(q), IsStale(Tail(q)[i], c, fd)
      PROVE  m = 0 /\ \A j \in 1 .. i : Tail(q)[j].conn # c
  <2>1. i + 1 \in DOMAIN q /\ Tail(q)[i] = q[i + 1]
    BY <1>1
  <2>2. n = 0 /\ \A j \in 1 .. i + 1 : q[j].conn # c
    BY <1>2, <2>1 DEF StaleAhead
  <2>3. m = 0
    BY <1>1, <2>2
  <2>4. \A j \in 1 .. i : Tail(q)[j] = q[j + 1] /\ j + 1 \in 1 .. i + 1
    BY <1>1, <1>2
  <2> QED
    BY <2>2, <2>3, <2>4
<1>3. IsStale(Head(q), c, fd) => n = 0
  BY <1>1 DEF StaleAhead
<1> QED
  BY <1>2, <1>3 DEF StaleAhead

LEMMA StaleHead ==
    ASSUME NEW q \in Seq(QueueEle), q # <<>>, NEW c, NEW fd, NEW n,
           StaleAhead(q, c, fd, n), IsStale(Head(q), c, fd)
    PROVE  n = 0
<1>1. Head(q) = q[1] /\ 1 \in DOMAIN q
  BY HeadTailProperties, LenProperties, EmptySeq
<1> QED
  BY <1>1 DEF StaleAhead

LEMMA StaleAppend ==
    ASSUME NEW q \in Seq(QueueEle), NEW e \in QueueEle, NEW c, NEW fd, NEW n,
           StaleAhead(q, c, fd, n),
           IsStale(e, c, fd) => n = 0 /\ \A j \in DOMAIN q : q[j].conn # c
    PROVE  StaleAhead(Append(q, e), c, fd, n)
<1> DEFINE a == Append(q, e)
<1>1. /\ Len(q) \in Nat /\ DOMAIN q = 1 .. Len(q) /\ DOMAIN a = 1 .. Len(q) + 1
      /\ a[Len(q) + 1] = e /\ \A i \in 1 .. Len(q) : a[i] = q[i]
  BY AppendProperties, LenProperties
<1> SUFFICES ASSUME NEW i \in DOMAIN a, IsStale(a[i], c, fd)
             PROVE  n = 0 /\ \A j \in 1 .. i : a[j].conn # c
  BY DEF StaleAhead
<1>2. CASE i = Len(q) + 1
  BY <1>1, <1>2 DEF IsStale
<1>3. CASE i \in 1 .. Len(q)
  BY <1>1, <1>3 DEF StaleAhead
<1> QED
  BY <1>1, <1>2, <1>3

\* An open connection owns its descriptor.
LEMMA OpenOwns ==
    ASSUME TypeOK, SessionsAgree, NEW c \in Conns, conn[c] = "open"
    PROVE  fdOf[c] \in Fds /\ sessions[fdOf[c]] = c /\ c \in Accepted
BY DEF TypeOK, NetTypeOK, SessionsAgree, Accepted

LEMMA StaleNext ==
    TypeOK /\ SessionsAgree /\ CountersAgree /\ HandOffsKeepOrder /\ StaleAgree
      /\ [Next]_vars => StaleAgree'
<1> SUFFICES ASSUME TypeOK, SessionsAgree, CountersAgree, HandOffsKeepOrder,
                    StaleAgree, [Next]_vars
             PROVE  StaleAgree'
  OBVIOUS
<1>0. /\ put \in Counters /\ got \in Counters
      /\ done \in Counters /\ taken \in Counters
      /\ queueOutput \in Seq(QueueEle)
      /\ queuesInput \in [Workers -> Seq(QueueEle)]
      /\ conn \in [Conns -> {"idle", "backlog", "open", "closed"}]
  BY DEF TypeOK, CounterTypeOK, QueueTypeOK, NetTypeOK
<1>1. ASSUME \A c \in Conns : conn'[c] = "open" => conn[c] = "open",
             UNCHANGED <<fdOf, queuesInput, queueOutput, got, taken, pc, qe>>
      PROVE  StaleAgree'
  BY <1>1 DEF StaleAgree
<1>2. CASE acceptcb
  <2> DEFINE c == Head(backlog)
  <2>1. /\ c \in Conns /\ fdOf[c] = None /\ got[c] = 0 /\ taken[c] = 0
    BY <1>0, <1>2, AcceptStep DEF CountersAgree, Counters
  <2>2. /\ \A d \in Conns : d # c => conn'[d] = conn[d] /\ fdOf'[d] = fdOf[d]
        /\ UNCHANGED <<queuesInput, queueOutput, got, taken, pc, qe>>
    BY <1>0, <1>2, <2>1, AcceptStep
       DEF workerVars, outVars, TypeOK, NetTypeOK
  <2>3. ASSUME NEW d \in Conns, conn'[d] = "open", NEW w \in Workers
        PROVE  /\ StaleAhead(queuesInput[w], d, fdOf'[d], got[d])
               /\ pc[w] = "put" /\ IsStale(qe[w], d, fdOf'[d]) => got[d] = 0
    <3>1. CASE d = c
      <4>1. QueueHolds(queuesInput[w], Served(w), fdOf, got, put)
        BY DEF HandOffsKeepOrder
      <4>2. queuesInput[w] \in Seq(QueueEle)
        BY <1>0
      <4>3. \A i \in DOMAIN queuesInput[w] : queuesInput[w][i].conn # c
        BY <2>1, <4>1 DEF QueueHolds, Served, Accepted
      <4>4. \A i \in DOMAIN queuesInput[w] : 1 .. i \subseteq DOMAIN queuesInput[w]
        BY <4>2, LenProperties
      <4> QED
        BY <2>1, <3>1, <4>3, <4>4 DEF StaleAhead
    <3>2. CASE d # c
      BY <2>2, <2>3, <3>2 DEF StaleAgree
    <3> QED
      BY <3>1, <3>2
  <2>4. ASSUME NEW d \in Conns, conn'[d] = "open"
        PROVE  StaleAhead(queueOutput, d, fdOf'[d], taken[d])
    <3>1. CASE d = c
      <4>1. QueueHolds(queueOutput, Accepted, fdOf, taken, done)
        BY DEF HandOffsKeepOrder
      <4>2. \A i \in DOMAIN queueOutput : queueOutput[i].conn # c
        BY <2>1, <4>1 DEF QueueHolds, Accepted
      <4>3. \A i \in DOMAIN queueOutput : 1 .. i \subseteq DOMAIN queueOutput
        BY <1>0, LenProperties
      <4> QED
        BY <2>1, <3>1, <4>2, <4>3 DEF StaleAhead
    <3>2. CASE d # c
      BY <2>2, <2>4, <3>2 DEF StaleAgree
    <3> QED
      BY <3>1, <3>2
  <2> QED
    BY <2>2, <2>3, <2>4 DEF StaleAgree
<1>3. CASE readcbPut
  <2> DEFINE c == sessions[io.fd]
             w == WorkerOf(io.fd)
             e == [fd |-> io.fd, conn |-> c, n |-> put[c] + 1]
  <2>1. io.fd \in Fds /\ c \in Conns /\ w \in Workers
    BY <1>3, ReadingConn, WorkerType DEF readcbPut
  <2>2. e \in QueueEle
    BY <1>0, <2>1 DEF QueueEle, Counters
  <2>3. /\ queuesInput' = [queuesInput EXCEPT ![w] = Append(queuesInput[w], e)]
        /\ UNCHANGED <<conn, fdOf, pc, qe, got, taken, queueOutput>>
    BY <1>3 DEF readcbPut, netVars, workerVars, outVars
  <2>4. ASSUME NEW d \in Conns, conn[d] = "open", NEW v \in Workers
        PROVE  StaleAhead(queuesInput'[v], d, fdOf[d], got[d])
    <3>1. StaleAhead(queuesInput[v], d, fdOf[d], got[d])
      BY <2>4 DEF StaleAgree
    <3>2. ~IsStale(e, d, fdOf[d])
      BY <2>4, OpenOwns DEF IsStale
    <3>3. CASE v = w
      <4>1. queuesInput[w] \in Seq(QueueEle)
        BY <1>0, <2>1
      <4>2. StaleAhead(Append(queuesInput[w], e), d, fdOf[d], got[d])
        BY <2>2, <3>1, <3>2, <3>3, <4>1, StaleAppend
      <4> QED
        BY <1>0, <2>1, <2>3, <3>3, <4>2
    <3>4. CASE v # w
      BY <1>0, <2>3, <3>1, <3>4
    <3> QED
      BY <3>3, <3>4
  <2> QED
    BY <2>3, <2>4 DEF StaleAgree
<1>4. CASE readcbNotifyTryGet
  <2> DEFINE e == Head(queueOutput)
  <2>1. e.conn \in Conns /\ queueOutput # <<>>
    BY <1>4, OutputHead DEF readcbNotifyTryGet
  <2>2. /\ queueOutput' = Tail(queueOutput)
        /\ taken' = [taken EXCEPT ![e.conn] = @ + 1]
        /\ UNCHANGED <<conn, fdOf, queuesInput, got, pc, qe>>
    BY <1>4 DEF readcbNotifyTryGet, netVars, inVars, workerVars
  <2>3. ASSUME NEW d \in Conns, conn[d] = "open"
        PROVE  StaleAhead(queueOutput', d, fdOf[d], taken'[d])
    <3>1. StaleAhead(queueOutput, d, fdOf[d], taken[d])
      BY <2>3 DEF StaleAgree
    <3>2. e.conn # d => taken'[d] = taken[d]
      BY <1>0, <2>2 DEF Counters
    <3> QED
      BY <1>0, <2>1, <2>2, <3>1, <3>2, StaleTail
  <2> QED
    BY <2>2, <2>3 DEF StaleAgree
<1>5. ASSUME NEW w \in Workers, WorkerGet(w) PROVE StaleAgree'
  <2> DEFINE e == Head(queuesInput[w])
  <2>1. /\ e.conn \in Served(w) /\ e.conn \in Conns /\ queuesInput[w] # <<>>
        /\ queuesInput[w] \in Seq(QueueEle)
    BY <1>0, <1>5, InputHead DEF WorkerGet
  <2>2. /\ queuesInput' = [queuesInput EXCEPT ![w] = Tail(queuesInput[w])]
        /\ got' = [got EXCEPT ![e.conn] = @ + 1]
        /\ qe' = [qe EXCEPT ![w] = e] /\ pc' = [pc EXCEPT ![w] = "put"]
        /\ UNCHANGED <<conn, fdOf, queueOutput, taken>>
    BY <1>5 DEF WorkerGet, netVars, inVars, outVars
  <2>3. /\ queuesInput'[w] = Tail(queuesInput[w]) /\ qe'[w] = e
        /\ \A v \in Workers : v # w =>
              queuesInput'[v] = queuesInput[v] /\ qe'[v] = qe[v] /\ pc'[v] = pc[v]
        /\ \A d \in Conns : d # e.conn => got'[d] = got[d]
    BY <1>0, <2>2 DEF TypeOK, WorkerTypeOK, Counters
  <2>4. ASSUME NEW d \in Conns, conn[d] = "open", NEW v \in Workers
        PROVE  /\ StaleAhead(queuesInput'[v], d, fdOf[d], got'[d])
               /\ pc'[v] = "put" /\ IsStale(qe'[v], d, fdOf[d]) => got'[d] = 0
    <3>1. /\ StaleAhead(queuesInput[v], d, fdOf[d], got[d])
          /\ pc[v] = "put" /\ IsStale(qe[v], d, fdOf[d]) => got[d] = 0
      BY <2>4 DEF StaleAgree
    <3>2. CASE v = w
      <4>1. /\ StaleAhead(Tail(queuesInput[w]), d, fdOf[d], got'[d])
            /\ IsStale(e, d, fdOf[d]) => got[d] = 0
        BY <2>1, <2>3, <3>1, <3>2, StaleTail
      <4>2. IsStale(e, d, fdOf[d]) => got'[d] = got[d]
        BY <2>3 DEF IsStale
      <4> QED
        BY <2>3, <3>2, <4>1, <4>2
    <3>3. CASE v # w /\ d # e.conn
      BY <2>3, <3>1, <3>3
    <3>4. CASE v # w /\ d = e.conn
      <4>1. fdOf[d] % threads_cnt = w
        BY <2>1, <3>4 DEF Served
      <4>2. QueueHolds(queuesInput[v], Served(v), fdOf, got, put)
        BY DEF HandOffsKeepOrder
      <4>3. \A i \in DOMAIN queuesInput[v] :
              ~IsStale(queuesInput[v][i], d, fdOf[d])
        BY <3>4, <4>1, <4>2 DEF QueueHolds, Served, IsStale
      <4>4. pc[v] = "put" => ~IsStale(qe[v], d, fdOf[d])
        <5>1. pc[v] = "put" =>
                qe[v].conn \in Served(v) /\ qe[v].fd = fdOf[qe[v].conn]
          BY DEF HandOffsKeepOrder
        <5> QED
          BY <3>4, <4>1, <5>1 DEF Served, IsStale
      <4> QED
        BY <2>3, <3>4, <4>3, <4>4 DEF StaleAhead
    <3> QED
      BY <3>2, <3>3, <3>4
  <2> QED
    BY <2>2, <2>4 DEF StaleAgree
<1>6. ASSUME NEW w \in Workers, WorkerPut(w) PROVE StaleAgree'
  <2> DEFINE e == qe[w]
  <2>1. e \in QueueEle
    BY <1>6 DEF WorkerPut, TypeOK, WorkerTypeOK
  <2>2. /\ queueOutput' = Append(queueOutput, e) /\ pc[w] = "put"
        /\ pc' = [pc EXCEPT ![w] = "write"] /\ qe' = [qe EXCEPT ![w] = NoEle]
        /\ UNCHANGED <<conn, fdOf, queuesInput, got, taken>>
    BY <1>6 DEF WorkerPut, netVars, inVars, outVars
  <2>3. \A v \in Workers : pc'[v] = "put" => pc[v] = "put" /\ qe'[v] = qe[v]
    BY <2>2 DEF TypeOK, WorkerTypeOK
  <2>4. ASSUME NEW d \in Conns, conn[d] = "open"
        PROVE  StaleAhead(queueOutput', d, fdOf[d], taken[d])
    <3>1. StaleAhead(queueOutput, d, fdOf[d], taken[d])
      BY <2>4 DEF StaleAgree
    <3>2. ASSUME IsStale(e, d, fdOf[d])
          PROVE  taken[d] = 0 /\ \A j \in DOMAIN queueOutput : queueOutput[j].conn # d
      <4>1. got[d] = 0
        BY <2>2, <2>4, <3>2 DEF StaleAgree
      <4>2. done[d] = 0 /\ taken[d] = 0
        BY <1>0, <4>1 DEF CountersAgree, Counters
      <4>3. QueueHolds(queueOutput, Accepted, fdOf, taken, done)
        BY DEF HandOffsKeepOrder
      <4>4. \A j \in DOMAIN queueOutput : queueOutput[j] \in QueueEle
        BY <1>0, ElementOfSeq, LenProperties
      <4> QED
        BY <4>2, <4>3, <4>4 DEF QueueHolds, QueueEle
    <3> QED
      BY <1>0, <2>1, <2>2, <3>1, <3>2, StaleAppend
  <2> QED
    BY <2>2, <2>3, <2>4 DEF StaleAgree
<1>7. ASSUME NEW w \in Workers, WorkerWrite(w) PROVE StaleAgree'
  <2>1. /\ \A v \in Workers : pc'[v] = "put" => pc[v] = "put"
        /\ UNCHANGED <<conn, fdOf, queuesInput, queueOutput, got, taken, qe>>
    BY <1>7 DEF WorkerWrite, netVars, outVars, TypeOK, WorkerTypeOK
  <2> QED
    BY <2>1 DEF StaleAgree
<1>8. ASSUME NEW c \in Conns, Connect(c) \/ Send(c) \/ HangUp(c)
      PROVE  StaleAgree'
  BY <1>0, <1>1, <1>8 DEF Connect, Send, HangUp, netVars, workerVars, outVars
<1>9. ASSUME NEW fd \in Fds, readcb(fd) \/ errorcb(fd) \/ writecb(fd)
      PROVE  StaleAgree'
  BY <1>0, <1>1, <1>9 DEF readcb, errorcb, writecb, netVars, workerVars, outVars
<1>10. ASSUME NEW w \in Workers, readcbNotify(w) PROVE StaleAgree'
  BY <1>1, <1>10 DEF readcbNotify, netVars, workerVars, outVars
<1>11. CASE readcbNotifyEmpty \/ acceptcbFails \/ Finished \/ UNCHANGED vars
  BY <1>1, <1>11
     DEF readcbNotifyEmpty, acceptcbFails, Finished, vars, netVars, workerVars,
         outVars
<1> QED
  BY <1>2, <1>3, <1>4, <1>5, <1>6, <1>7, <1>8, <1>9, <1>10, <1>11
     DEF Next, Client, IoThread, WorkerProc

-----------------------------------------------------------------------------
(* Replies.                                                                *)

LEMMA RepliesNext ==
    TypeOK /\ SessionsAgree /\ CountersAgree /\ HandOffsKeepOrder /\ StaleAgree
      /\ RepliesAgree /\ [Next]_vars => RepliesAgree'
<1> SUFFICES ASSUME TypeOK, SessionsAgree, CountersAgree, HandOffsKeepOrder,
                    StaleAgree, RepliesAgree, [Next]_vars
             PROVE  RepliesAgree'
  OBVIOUS
<1>0. /\ taken \in Counters /\ reply \in [Conns -> Seq(QueueEle)]
      /\ conn \in [Conns -> {"idle", "backlog", "open", "closed"}]
      /\ queueOutput \in Seq(QueueEle)
  BY DEF TypeOK, CounterTypeOK, QueueTypeOK, NetTypeOK
<1>1. ASSUME \A c \in Conns : conn'[c] = "open" => conn[c] = "open",
             UNCHANGED <<fdOf, taken, reply>>
      PROVE  RepliesAgree'
  BY <1>1 DEF RepliesAgree, OwnRepliesInOrder, InOrderAt, StaleRepliesFirst,
     StaleFirstAt, NoReplyLost, OwnAnswered
<1>2. CASE acceptcb
  <2> DEFINE c == Head(backlog)
  <2>1. c \in Conns /\ fdOf[c] = None /\ taken[c] = 0 /\ reply[c] = <<>>
    BY <1>0, <1>2, AcceptStep DEF CountersAgree, RepliesAgree, TypeOK,
       CounterTypeOK, Counters
  <2>2. /\ \A d \in Conns : d # c => conn'[d] = conn[d] /\ fdOf'[d] = fdOf[d]
        /\ UNCHANGED <<taken, reply>>
    BY <1>0, <1>2, <2>1, AcceptStep DEF outVars, TypeOK, NetTypeOK
  <2>3. OwnRepliesInOrder' /\ StaleRepliesFirst'
    BY <2>2 DEF RepliesAgree, OwnRepliesInOrder, InOrderAt, StaleRepliesFirst,
       StaleFirstAt
  <2>4. \A d \in Conns : OwnAnswered(d)' = OwnAnswered(d)
    BY <2>2 DEF OwnAnswered
  <2>5. OwnAnswered(c) = taken[c]
    BY <2>1 DEF OwnAnswered
  <2>6. NoReplyLost'
    BY <2>2, <2>4, <2>5 DEF RepliesAgree, NoReplyLost
  <2>7. \A d \in Conns : fdOf'[d] = None => reply'[d] = <<>>
    BY <2>1, <2>2 DEF RepliesAgree
  <2> QED
    BY <2>3, <2>6, <2>7 DEF RepliesAgree
<1>3. CASE readcbNotifyTryGet
  <2> DEFINE e == Head(queueOutput)
  <2>1. /\ e \in QueueEle /\ e.conn \in Conns /\ e.conn \in Accepted
        /\ e.fd = fdOf[e.conn] /\ e.fd \in Fds /\ e.n \in Nat
        /\ e.n = taken[e.conn] + 1 /\ queueOutput # <<>>
    BY <1>3, OutputHead DEF readcbNotifyTryGet, QueueEle
  <2>2. /\ reply' = IF sessions[e.fd] # None
                    THEN [reply EXCEPT ![sessions[e.fd]] = Append(@, e)]
                    ELSE reply
        /\ taken' = [taken EXCEPT ![e.conn] = @ + 1]
        /\ UNCHANGED <<conn, fdOf>>
    BY <1>3 DEF readcbNotifyTryGet, netVars
  <2>3. /\ taken'[e.conn] = e.n
        /\ \A d \in Conns : d # e.conn => taken'[d] = taken[d]
    BY <1>0, <2>1, <2>2 DEF Counters
  <2>4. conn[e.conn] = "open" => sessions[e.fd] = e.conn
    BY <2>1, OpenOwns
  <2>5. CASE sessions[e.fd] = None
    <3>1. reply' = reply
      BY <2>2, <2>5
    <3>2. \A d \in Conns : conn[d] = "open" => d # e.conn
      BY <2>4, <2>5, ConstantsAssumption
    <3>3. \A d \in Conns : OwnAnswered(d)' = OwnAnswered(d)
      BY <3>1 DEF OwnAnswered
    <3>4. OwnRepliesInOrder' /\ StaleRepliesFirst'
      BY <3>1 DEF RepliesAgree, OwnRepliesInOrder, InOrderAt, StaleRepliesFirst,
         StaleFirstAt
    <3>5. NoReplyLost'
      BY <2>2, <2>3, <3>2, <3>3 DEF RepliesAgree, NoReplyLost
    <3> QED
      BY <2>2, <3>1, <3>4, <3>5 DEF RepliesAgree
  <2>6. ASSUME NEW c \in Conns, sessions[e.fd] = c PROVE RepliesAgree'
    <3>0. c # None
      BY ConstantsAssumption
    <3>1. conn[c] = "open" /\ fdOf[c] = e.fd
      BY <2>1, <2>6, <3>0 DEF SessionsAgree
    <3> DEFINE r == reply[c]
               k == Len(r)
    <3>2. /\ k \in Nat /\ DOMAIN r = 1 .. k
          /\ \A i \in 1 .. k : r[i] \in QueueEle /\ r[i].n \in Nat
          /\ r # <<>> <=> k > 0
      <4>1. r \in Seq(QueueEle)
        BY <1>0, <3>1
      <4>2. k \in Nat /\ DOMAIN r = 1 .. k /\ (r # <<>> <=> k > 0)
        BY <4>1, LenProperties, EmptySeq
      <4>3. \A i \in 1 .. k : r[i] \in QueueEle
        BY <4>1, ElementOfSeq
      <4> QED
        BY <4>2, <4>3 DEF QueueEle
    <3>3. /\ reply'[c] = Append(r, e)
          /\ \A d \in Conns : d # c => reply'[d] = reply[d]
      BY <1>0, <2>2, <2>6, <3>0
    <3>4. /\ Len(reply'[c]) = k + 1 /\ DOMAIN reply'[c] = 1 .. k + 1
          /\ reply'[c][k + 1] = e /\ \A i \in 1 .. k : reply'[c][i] = r[i]
          /\ reply'[c] # <<>>
      <4>1. r \in Seq(QueueEle)
        BY <1>0
      <4> QED
        BY <2>1, <3>2, <3>3, <4>1, AppendProperties
    <3>5. taken[c] = (IF k > 0 /\ r[k].conn = c THEN r[k].n ELSE 0)
      BY <3>1, <3>2 DEF RepliesAgree, NoReplyLost, OwnAnswered
    <3>6. e.conn # c => taken[c] = 0
      <4>1. StaleAhead(queueOutput, c, fdOf[c], taken[c])
        BY <3>1 DEF StaleAgree
      <4> QED
        BY <1>0, <2>1, <3>1, <4>1, StaleHead DEF IsStale
    <3>7. k > 0 /\ r[k].conn = c => r[k].n > 0
      <4> SUFFICES ASSUME k > 0, r[k].conn = c PROVE r[k].n > 0
        OBVIOUS
      <4>1. InOrderAt(c, k)
        BY <3>1, <3>2 DEF RepliesAgree, OwnRepliesInOrder
      <4>2. k > 1 => r[k - 1].n \in Nat
        BY <3>2
      <4> QED
        BY <4>1, <4>2 DEF InOrderAt
    <3>8. e.conn # c => ~(k > 0 /\ r[k].conn = c)
      BY <3>2, <3>5, <3>6, <3>7
    <3>9. ASSUME NEW i \in 1 .. k + 1
          PROVE  InOrderAt(c, i)' /\ StaleFirstAt(c, i)'
      <4>1. CASE i \in 1 .. k
        <5>1. InOrderAt(c, i) /\ StaleFirstAt(c, i)
          BY <3>1, <3>2, <4>1 DEF RepliesAgree, OwnRepliesInOrder, StaleRepliesFirst
        <5>2. reply'[c][i] = r[i] /\ (i > 1 => reply'[c][i - 1] = r[i - 1])
          BY <3>2, <3>4, <4>1
        <5> QED
          BY <5>1, <5>2 DEF InOrderAt, StaleFirstAt
      <4>2. CASE i = k + 1
        <5>1. /\ reply'[c][i] = e
              /\ i > 1 <=> k > 0
              /\ i > 1 => reply'[c][i - 1] = r[k]
          BY <3>2, <3>4, <4>2
        <5>2. InOrderAt(c, i)'
          BY <2>1, <3>5, <5>1 DEF InOrderAt
        <5>3. StaleFirstAt(c, i)'
          BY <3>8, <5>1 DEF StaleFirstAt
        <5> QED
          BY <5>2, <5>3
      <4> QED
        BY <3>2, <4>1, <4>2
    <3>10. ASSUME NEW d \in Conns, d # c, NEW i \in DOMAIN reply'[d]
           PROVE  InOrderAt(d, i)' /\ StaleFirstAt(d, i)'
      <4>1. InOrderAt(d, i) /\ StaleFirstAt(d, i)
        BY <3>3, <3>10 DEF RepliesAgree, OwnRepliesInOrder, StaleRepliesFirst
      <4> QED
        BY <3>3, <3>10, <4>1 DEF InOrderAt, StaleFirstAt
    <3>11. OwnRepliesInOrder' /\ StaleRepliesFirst'
      BY <3>4, <3>9, <3>10 DEF OwnRepliesInOrder, StaleRepliesFirst
    <3>12. ASSUME NEW d \in Conns, conn'[d] = "open"
           PROVE  OwnAnswered(d)' = taken'[d]
      <4>1. CASE d = c
        <5>1. OwnAnswered(c)' = (IF e.conn = c THEN e.n ELSE 0)
          BY <3>4 DEF OwnAnswered
        <5> QED
          BY <2>3, <3>1, <3>6, <4>1, <5>1
      <4>2. CASE d # c
        <5>1. OwnAnswered(d)' = OwnAnswered(d)
          BY <3>3, <4>2 DEF OwnAnswered
        <5>2. d # e.conn /\ conn[d] = "open"
          BY <2>2, <2>4, <2>6, <3>12, <4>2
        <5> QED
          BY <2>3, <5>1, <5>2 DEF RepliesAgree, NoReplyLost
      <4> QED
        BY <4>1, <4>2
    <3>13. \A d \in Conns : fdOf'[d] = None => reply'[d] = <<>>
      BY <2>1, <2>2, <3>1, <3>3, ConstantsAssumption DEF RepliesAgree
    <3> QED
      BY <3>11, <3>12, <3>13 DEF RepliesAgree, NoReplyLost
  <2> QED
    BY <2>1, <2>5, <2>6 DEF TypeOK, NetTypeOK
<1>4. ASSUME NEW c \in Conns, Connect(c) \/ Send(c) \/ HangUp(c)
      PROVE  RepliesAgree'
  BY <1>0, <1>1, <1>4 DEF Connect, Send, HangUp, netVars, outVars
<1>5. ASSUME NEW fd \in Fds, readcb(fd) \/ errorcb(fd) \/ writecb(fd)
      PROVE  RepliesAgree'
  BY <1>0, <1>1, <1>5 DEF readcb, errorcb, writecb, netVars, outVars
<1>6. ASSUME NEW w \in Workers, readcbNotify(w) \/ WorkerProc(w)
      PROVE  RepliesAgree'
  BY <1>1, <1>6 DEF readcbNotify, WorkerProc, WorkerGet, WorkerPut, WorkerWrite,
     netVars, outVars
<1>7. CASE readcbPut \/ readcbNotifyEmpty \/ acceptcbFails \/ Finished
           \/ UNCHANGED vars
  BY <1>1, <1>7 DEF readcbPut, readcbNotifyEmpty, acceptcbFails, Finished, vars,
     netVars, outVars
<1> QED
  BY <1>2, <1>3, <1>4, <1>5, <1>6, <1>7 DEF Next, Client, IoThread

-----------------------------------------------------------------------------
(* The theorems.                                                           *)

LEMMA IInvInit == Init => IInv
<1> SUFFICES ASSUME Init PROVE IInv
  OBVIOUS
<1>1. SessionsAgree
  BY DEF Init, SessionsAgree
<1>2. CountersAgree
  BY DEF Init, CountersAgree, Loop
<1>3. HandOffsKeepOrder
  BY DEF Init, HandOffsKeepOrder, QueueHolds, Served, Accepted
<1>4. StaleAgree
  BY DEF Init, StaleAgree
<1>5. RepliesAgree
  BY DEF Init, RepliesAgree, OwnRepliesInOrder, StaleRepliesFirst, NoReplyLost,
     OwnAnswered
<1> QED
  BY <1>1, <1>2, <1>3, <1>4, <1>5, TypeInit DEF IInv

LEMMA IInvNext == IInv /\ [Next]_vars => IInv'
BY TypeNext, SessionsNext, CountersNext, HandOffsNext, StaleNext, RepliesNext
   DEF IInv

LEMMA Inductive == Spec => []IInv
BY IInvInit, IInvNext, PTL DEF Spec

\* From readcb to readcbNotify no request is lost, duplicated or overtaken.
THEOREM HandOffsSafe == Spec => []HandOffsKeepOrder
<1>1. IInv => HandOffsKeepOrder
  BY DEF IInv
<1> QED
  BY <1>1, Inductive, PTL

\* A connection's own replies are appended to its output as 1, 2, 3, ...;
\* replies meant for an earlier connection of the descriptor, if any, come
\* before all of them; and every reply taken off queueOutput for an open
\* connection was appended to that connection's output.
THEOREM RepliesSafe == Spec => []RepliesInPlace
<1>1. IInv => RepliesInPlace
  BY DEF IInv, RepliesAgree, RepliesInPlace
<1> QED
  BY <1>1, Inductive, PTL

-----------------------------------------------------------------------------
(* Polite clients.  One that hangs up has all its replies, so nothing of   *)
(* its connection is left in a queue when its descriptor is used again.    *)

\* The replies of a connection are its own, numbered 1, 2, 3, ...
AllOwn ==
    \A c \in Conns :
        /\ flushed[c] <= Len(reply[c]) /\ Len(reply[c]) <= taken[c]
        /\ \A i \in DOMAIN reply[c] : reply[c][i].conn = c /\ reply[c][i].n = i

\* A connection that had a descriptor is closed only after its client has gone,
\* and that goes only when nothing is on its way.
GoneIsAnswered ==
    \A c \in Conns :
        /\ conn[c] = "closed" /\ fdOf[c] # None => c \in hup
        /\ c \in hup => taken[c] = sent[c]

PoliteInv == IInv /\ AllOwn /\ GoneIsAnswered

\* Apart from readcbNotifyTryGet and writecb no step touches a reply.
LEMMA RepliesFrame ==
    ASSUME [Next]_vars
    PROVE  \/ readcbNotifyTryGet
           \/ \E fd \in Fds : writecb(fd)
           \/ UNCHANGED outVars
BY DEF Next, Client, IoThread, WorkerProc, Connect, Send, HangUp, acceptcb,
       acceptcbFails, readcb, errorcb, readcbPut, readcbNotify, readcbNotifyEmpty,
       WorkerGet, WorkerPut, WorkerWrite, Finished, vars, outVars

\* What one round of readcbNotify does: the element is the next one of its
\* connection d, and is appended to the replies of whichever connection c is
\* open under its descriptor; if c is not d, none of c's own came before it.
LEMMA TakenStep ==
    ASSUME IInv, readcbNotifyTryGet
    PROVE  LET e == Head(queueOutput)
               d == e.conn
               c == sessions[e.fd]
           IN  /\ e \in QueueEle /\ d \in Conns /\ fdOf[d] = e.fd /\ e.fd \in Fds
               /\ e.n = taken[d] + 1 /\ e.n <= done[d]
               /\ taken' = [taken EXCEPT ![d] = @ + 1]
               /\ conn[d] \in {"open", "closed"}
               /\ conn[d] = "open" => c = d
               /\ c = None => reply' = reply
               /\ c # None => /\ c \in Conns /\ conn[c] = "open" /\ fdOf[c] = e.fd
                              /\ reply' = [reply EXCEPT ![c] = Append(@, e)]
                              /\ c # d => taken[c] = 0
               /\ UNCHANGED <<netVars, inVars, workerVars, flushed>>
<1> DEFINE e == Head(queueOutput)
           d == e.conn
           c == sessions[e.fd]
<1> USE DEF IInv
<1>1. /\ e \in QueueEle /\ d \in Conns /\ d \in Accepted /\ fdOf[d] = e.fd
      /\ e.fd \in Fds /\ e.n = taken[d] + 1 /\ e.n <= done[d]
      /\ queueOutput # <<>> /\ queueOutput \in Seq(QueueEle)
    BY OutputHead DEF readcbNotifyTryGet, QueueEle, TypeOK, QueueTypeOK
<1>2. /\ taken' = [taken EXCEPT ![d] = @ + 1]
      /\ c = None => reply' = reply
      /\ c # None => reply' = [reply EXCEPT ![c] = Append(@, e)]
      /\ UNCHANGED <<netVars, inVars, workerVars, flushed>>
    BY DEF readcbNotifyTryGet
<1>3. conn[d] \in {"open", "closed"} /\ (conn[d] = "open" => c = d)
  <2>1. fdOf[d] # None /\ conn[d] \in {"idle", "backlog", "open", "closed"}
      BY <1>1 DEF Accepted, TypeOK, NetTypeOK
  <2> QED
      BY <1>1, <2>1 DEF SessionsAgree
<1>4. c # None => c \in Conns /\ conn[c] = "open" /\ fdOf[c] = e.fd
    BY <1>1 DEF SessionsAgree, TypeOK, NetTypeOK
<1>5. ASSUME c # None, c # d
      PROVE  taken[c] = 0
  <2>1. StaleAhead(queueOutput, c, fdOf[c], taken[c])
      BY <1>4, <1>5 DEF StaleAgree
  <2>2. IsStale(e, c, fdOf[c])
      BY <1>4, <1>5 DEF IsStale
  <2> QED
      BY <1>1, <2>1, <2>2, StaleHead
<1> HIDE DEF e, IInv
<1> QED
    BY <1>1, <1>2, <1>3, <1>4, <1>5 DEF e

LEMMA AllOwnNext ==
    ASSUME PoliteInv, [Next]_vars
    PROVE  AllOwn'
<1> USE DEF PoliteInv
<1>0. /\ taken \in Counters /\ reply \in [Conns -> Seq(QueueEle)]
      /\ flushed \in Counters
    BY DEF IInv, TypeOK, CounterTypeOK, QueueTypeOK
<1>1. CASE UNCHANGED outVars
    BY <1>1 DEF AllOwn, outVars
<1>2. ASSUME NEW fd \in Fds, writecb(fd) PROVE AllOwn'
  <2> DEFINE c == sessions[fd]
  <2>1. c \in Conns
      BY <1>2 DEF writecb, IInv, TypeOK, NetTypeOK
  <2>2. PICK k \in flushed[c] + 1 .. Len(reply[c]) : flushed' = [flushed EXCEPT ![c] = k]
      BY <1>2 DEF writecb
  <2>3. UNCHANGED <<taken, reply>>
      BY <1>2 DEF writecb
  <2>4. \A d \in Conns : flushed'[d] <= Len(reply[d])
    <3>1. k <= Len(reply[c])
        BY <1>0, <2>1, <2>2
    <3> HIDE DEF c
    <3> QED
        BY <1>0, <2>1, <2>2, <3>1 DEF AllOwn, Counters
  <2> QED
      BY <2>3, <2>4 DEF AllOwn
<1>3. CASE readcbNotifyTryGet
  <2> DEFINE e == Head(queueOutput)
             d == e.conn
             c == sessions[e.fd]
  <2>1. /\ e \in QueueEle /\ d \in Conns /\ fdOf[d] = e.fd /\ e.fd \in Fds
        /\ e.n = taken[d] + 1 /\ e.n <= done[d]
        /\ taken' = [taken EXCEPT ![d] = @ + 1]
        /\ conn[d] \in {"open", "closed"}
        /\ conn[d] = "open" => c = d
        /\ c = None => reply' = reply
        /\ c # None => /\ c \in Conns /\ conn[c] = "open" /\ fdOf[c] = e.fd
                       /\ reply' = [reply EXCEPT ![c] = Append(@, e)]
        /\ UNCHANGED flushed
      BY <1>3, TakenStep
  \* d has not gone: its element is still on the way.  So it is open.
  <2>2. c = d
    <3>1. /\ taken[d] \in Nat /\ done[d] \in Nat /\ got[d] \in Nat
          /\ put[d] \in Nat /\ recvd[d] \in Nat /\ sent[d] \in Nat
        BY <2>1 DEF IInv, TypeOK, CounterTypeOK, Counters
    <3>2. /\ done[d] <= got[d] /\ got[d] <= put[d]
          /\ put[d] <= recvd[d] /\ recvd[d] <= sent[d]
        BY <2>1 DEF IInv, CountersAgree
    <3>3. taken[d] # sent[d]
        BY <2>1, <3>1, <3>2
    <3>4. fdOf[d] # None
        BY <2>1, ConstantsAssumption
    <3> QED
        BY <2>1, <3>3, <3>4 DEF GoneIsAnswered
  <2>3. c # None
      BY <2>1, <2>2, ConstantsAssumption
  <2> DEFINE r == reply[d]
             k == Len(r)
  <2>4. /\ conn[d] = "open" /\ reply' = [reply EXCEPT ![d] = Append(r, e)]
      BY <2>1, <2>2, <2>3
  <2>5. r \in Seq(QueueEle) /\ k \in Nat /\ DOMAIN r = 1 .. k /\ (r # <<>> <=> k > 0)
      BY <1>0, <2>1, LenProperties, EmptySeq
  <2>6. taken[d] = k
    <3>1. OwnAnswered(d) = taken[d]
        BY <2>1, <2>4 DEF IInv, RepliesAgree, NoReplyLost
    <3>2. k > 0 => r[k].conn = d /\ r[k].n = k
        BY <2>1, <2>5 DEF AllOwn
    <3> QED
        BY <2>5, <3>1, <3>2 DEF OwnAnswered
  <2>7. /\ Len(reply'[d]) = k + 1 /\ DOMAIN reply'[d] = 1 .. k + 1
        /\ reply'[d][k + 1] = e /\ \A i \in 1 .. k : reply'[d][i] = r[i]
    <3>1. reply'[d] = Append(r, e)
        BY <1>0, <2>1, <2>4
    <3> HIDE DEF r, k
    <3>2. /\ Len(Append(r, e)) = Len(r) + 1 /\ Append(r, e)[Len(r) + 1] = e
          /\ \A i \in 1 .. Len(r) : Append(r, e)[i] = r[i]
          /\ Append(r, e) \in Seq(QueueEle)
        BY <2>1, <2>5, AppendProperties
    <3>3. k = Len(r)
        BY DEF k
    <3>4. DOMAIN Append(r, e) = 1 .. k + 1
        BY <3>2, <3>3, LenProperties
    <3> QED
        BY <3>1, <3>2, <3>3, <3>4
  <2>8. \A x \in Conns \ {d} : reply'[x] = reply[x] /\ taken'[x] = taken[x]
      BY <1>0, <2>1, <2>4 DEF Counters
  <2>9. taken'[d] = k + 1 /\ e.n = k + 1
      BY <1>0, <2>1, <2>6 DEF Counters
  <2> HIDE DEF e
  <2>10. ASSUME NEW i \in DOMAIN reply'[d]
         PROVE  reply'[d][i].conn = d /\ reply'[d][i].n = i
    <3>1. CASE i = k + 1
        BY <2>7, <2>9, <3>1
    <3>2. CASE i \in 1 .. k
        BY <2>1, <2>5, <2>7, <3>2 DEF AllOwn
    <3> QED
        BY <2>5, <2>7, <3>1, <3>2
  <2>11. flushed'[d] <= Len(reply'[d]) /\ Len(reply'[d]) <= taken'[d]
    <3>1. flushed[d] <= k /\ flushed[d] \in Nat
        BY <1>0, <2>1 DEF AllOwn, Counters
    <3> QED
        BY <2>1, <2>5, <2>7, <2>9, <3>1
  <2> QED
      BY <2>1, <2>8, <2>10, <2>11 DEF AllOwn
<1> QED
    BY <1>1, <1>2, <1>3, RepliesFrame

LEMMA GoneIsAnsweredNext ==
    ASSUME Polite = TRUE, PoliteInv, IInv', [Next]_vars
    PROVE  GoneIsAnswered'
<1> USE DEF PoliteInv
<1>0. /\ taken \in Counters /\ sent \in Counters /\ flushed \in Counters
      /\ hup \subseteq Conns /\ reply \in [Conns -> Seq(QueueEle)]
      /\ conn \in [Conns -> {"idle", "backlog", "open", "closed"}]
      /\ fdOf \in [Conns -> Fds \cup {None}] /\ sessions \in [Fds -> Conns \cup {None}]
    BY DEF IInv, TypeOK, NetTypeOK, CounterTypeOK, QueueTypeOK
\* Every client but one that hangs up now stays; what it sent stays the same.
<1>1. ASSUME NEW c \in Conns
      PROVE  conn'[c] = "closed" /\ fdOf'[c] # None => c \in hup'
  <2>1. CASE acceptcb
      BY <1>0, <1>1, <2>1, AcceptStep DEF GoneIsAnswered, IInv
  <2>2. ASSUME NEW fd \in Fds, errorcb(fd)
        PROVE  conn'[c] = "closed" /\ fdOf'[c] # None => c \in hup'
      BY <1>0, <1>1, <2>2 DEF errorcb, GoneIsAnswered
  <2>3. ASSUME NEW d \in Conns, Connect(d)
        PROVE  conn'[c] = "closed" /\ fdOf'[c] # None => c \in hup'
      BY <1>0, <1>1, <2>3 DEF Connect, GoneIsAnswered
  <2>4. CASE UNCHANGED <<conn, fdOf>> /\ hup \subseteq hup'
      BY <1>1, <2>4 DEF GoneIsAnswered
  <2> QED
      BY <2>1, <2>2, <2>3, <2>4
         DEF Next, Client, IoThread, WorkerProc, Send, HangUp, acceptcbFails,
             readcb, readcbPut, readcbNotify, readcbNotifyEmpty, readcbNotifyTryGet,
             writecb, WorkerGet, WorkerPut, WorkerWrite, Finished, vars, netVars
<1>2. ASSUME NEW c \in Conns
      PROVE  /\ taken'[c] <= sent'[c] /\ taken'[c] \in Nat /\ sent'[c] \in Nat
             /\ taken[c] <= sent[c] /\ taken[c] \in Nat /\ sent[c] \in Nat
  <2>1. /\ taken[c] \in Nat /\ done[c] \in Nat /\ got[c] \in Nat
        /\ put[c] \in Nat /\ recvd[c] \in Nat /\ sent[c] \in Nat
      BY DEF IInv, TypeOK, CounterTypeOK, Counters
  <2>2. /\ taken[c] <= done[c] /\ done[c] <= got[c] /\ got[c] <= put[c]
        /\ put[c] <= recvd[c] /\ recvd[c] <= sent[c]
      BY DEF IInv, CountersAgree
  <2>3. /\ taken'[c] \in Nat /\ done'[c] \in Nat /\ got'[c] \in Nat
        /\ put'[c] \in Nat /\ recvd'[c] \in Nat /\ sent'[c] \in Nat
      BY DEF IInv, TypeOK, CounterTypeOK, Counters
  <2>4. /\ taken'[c] <= done'[c] /\ done'[c] <= got'[c] /\ got'[c] <= put'[c]
        /\ put'[c] <= recvd'[c] /\ recvd'[c] <= sent'[c]
      BY DEF IInv, CountersAgree
  <2> QED
      BY <2>1, <2>2, <2>3, <2>4
<1>3. ASSUME NEW c \in Conns
      PROVE  taken'[c] >= taken[c]
  <2>1. CASE readcbNotifyTryGet
    <3>1. \E d \in Conns : taken' = [taken EXCEPT ![d] = @ + 1]
        BY <2>1, TakenStep
    <3> QED
        BY <1>0, <1>3, <3>1 DEF Counters
  <2>2. ASSUME NEW fd \in Fds, writecb(fd) PROVE taken'[c] >= taken[c]
      BY <1>0, <1>3, <2>2 DEF writecb, Counters
  <2>3. CASE UNCHANGED outVars
      BY <1>0, <1>3, <2>3 DEF outVars, Counters
  <2> QED
      BY <2>1, <2>2, <2>3, RepliesFrame
<1>4. ASSUME NEW c \in hup'
      PROVE  \/ c \in hup /\ sent'[c] = sent[c]
             \/ c \in Conns /\ HangUp(c)
  <2>1. ASSUME NEW d \in Conns, Send(d)
        PROVE  c \in hup /\ sent'[c] = sent[c]
      BY <1>0, <1>4, <2>1 DEF Send, netVars, Counters
  <2>2. ASSUME NEW d \in Conns, HangUp(d)
        PROVE  \/ c \in hup /\ sent'[c] = sent[c]
               \/ c \in Conns /\ HangUp(c)
      BY <1>4, <2>2 DEF HangUp, inVars
  <2>3. CASE UNCHANGED <<hup, sent>>
      BY <1>4, <2>3
  <2> QED
      BY <2>1, <2>2, <2>3
         DEF Next, Client, IoThread, WorkerProc, Connect, acceptcb, acceptcbFails,
             errorcb, readcb, readcbPut, readcbNotify, readcbNotifyEmpty,
             readcbNotifyTryGet, writecb, WorkerGet, WorkerPut, WorkerWrite,
             Finished, vars, netVars, inVars
<1>5. ASSUME NEW c \in Conns, c \in hup'
      PROVE  taken'[c] = sent'[c]
  <2>1. CASE c \in hup /\ sent'[c] = sent[c]
    <3>1. taken[c] = sent[c]
        BY <2>1 DEF GoneIsAnswered
    <3> QED
        BY <1>2, <1>3, <2>1, <3>1
  <2>2. CASE HangUp(c)
    <3>1. flushed[c] = sent[c] /\ UNCHANGED <<sent, taken>>
        BY <2>2 DEF HangUp, inVars, outVars
    <3>2. flushed[c] <= Len(reply[c]) /\ Len(reply[c]) <= taken[c]
        BY DEF AllOwn
    <3>3. Len(reply[c]) \in Nat
        BY <1>0, LenProperties
    <3> QED
        BY <1>2, <3>1, <3>2, <3>3
  <2> QED
      BY <1>4, <1>5, <2>1, <2>2
<1> QED
    BY <1>1, <1>5 DEF GoneIsAnswered

\* When every client reads all its replies before it hangs up, as client.py
\* does, a client gets the echo of what it sent and nothing else, although
\* descriptors are used again.
THEOREM PoliteSafe ==
    ASSUME Polite = TRUE
    PROVE  Spec => []RepliesAreOwn
<1>1. Init => PoliteInv
  <2> SUFFICES ASSUME Init PROVE PoliteInv
      OBVIOUS
  <2>1. AllOwn
      BY EmptySeq DEF Init, AllOwn
  <2>2. GoneIsAnswered
      BY DEF Init, GoneIsAnswered
  <2> QED
      BY <2>1, <2>2, IInvInit DEF PoliteInv
<1>2. PoliteInv /\ [Next]_vars => PoliteInv'
    BY IInvNext, AllOwnNext, GoneIsAnsweredNext DEF PoliteInv
<1>3. PoliteInv => RepliesAreOwn
  <2> SUFFICES ASSUME PoliteInv, NEW c \in Conns, NEW i \in 1 .. flushed[c]
               PROVE  reply[c][i].conn = c
      BY DEF RepliesAreOwn
  <2>1. /\ reply[c] \in Seq(QueueEle) /\ flushed[c] \in Nat
        /\ flushed[c] <= Len(reply[c])
      BY DEF PoliteInv, AllOwn, IInv, TypeOK, CounterTypeOK, Counters, QueueTypeOK
  <2>2. i \in DOMAIN reply[c]
      BY <2>1, LenProperties
  <2> QED
      BY <2>2 DEF PoliteInv, AllOwn
<1> QED
    BY <1>1, <1>2, <1>3, PTL DEF Spec

-----------------------------------------------------------------------------
(* The server implements EchoService.  Every step is one of its steps or   *)
(* none: acceptcb opens or drops, errorcb drops, readcbPut asks, and a     *)
(* round of readcbNotify answers or leaks.                                 *)

\* No reply counts twice: what a connection was answered and what went to
\* others is not more than what left queueOutput.
NoneTwice ==
    \A d \in Conns :
        /\ OwnAnswered(d) \in Nat
        /\ IsFiniteSet(Leaked(d))
        /\ OwnAnswered(d) + Cardinality(Leaked(d)) <= taken[d]

EchoInv == IInv /\ NoneTwice

\* OwnAnswered and Leaked with the replies as a parameter.
OwnIn(R, c) ==
    IF R[c] # <<>> /\ R[c][Len(R[c])].conn = c THEN R[c][Len(R[c])].n ELSE 0

LeakedIn(R, d) ==
    {p \in UNION {{c} \X DOMAIN R[c] : c \in Conns \ {d}} : R[p[1]][p[2]].conn = d}

\* The replies when one more, e, is appended to those of c.
WithReply(R, c, e) == [R EXCEPT ![c] = Append(@, e)]

\* Where the next reply of c is in the history.
NextOf(R, c) == <<c, Len(R[c]) + 1>>

\* A reply more at the end: the answers of its connection, or the leaks of
\* another, are one more; nothing else changes.
LEMMA OwnAppend ==
    ASSUME NEW R \in [Conns -> Seq(QueueEle)], NEW c \in Conns, NEW e \in QueueEle,
           NEW x \in Conns
    PROVE  OwnIn(WithReply(R, c, e), x) = IF x # c THEN OwnIn(R, x)
                                          ELSE IF e.conn = c THEN e.n ELSE 0
<1> DEFINE S == WithReply(R, c, e)
<1>1. CASE x # c
    BY <1>1 DEF OwnIn, WithReply
<1>2. CASE x = c
  <2>1. /\ S[c] = Append(R[c], e) /\ R[c] \in Seq(QueueEle) /\ Len(R[c]) \in Nat
        /\ Len(S[c]) = Len(R[c]) + 1 /\ S[c][Len(R[c]) + 1] = e /\ S[c] \in Seq(QueueEle)
      BY AppendProperties, LenProperties DEF WithReply
  <2> HIDE DEF S
  <2>2. Len(S[c]) # 0 /\ S[c][Len(S[c])] = e
      BY <2>1
  <2>3. S[c] # <<>>
      BY <2>1, <2>2, EmptySeq
  <2> QED
      BY <1>2, <2>2, <2>3 DEF OwnIn, S
<1> QED
    BY <1>1, <1>2

LEMMA LeakedIs ==
    ASSUME NEW R, NEW d, NEW p
    PROVE  p \in LeakedIn(R, d) <=>
               \E c \in Conns \ {d} : \E i \in DOMAIN R[c] :
                   p = <<c, i>> /\ R[c][i].conn = d
<1>1. ASSUME p \in LeakedIn(R, d)
      PROVE  \E c \in Conns \ {d} : \E i \in DOMAIN R[c] :
                 p = <<c, i>> /\ R[c][i].conn = d
  <2>1. PICK c \in Conns \ {d} : p \in {c} \X DOMAIN R[c]
      BY <1>1 DEF LeakedIn
  <2>2. p[1] = c /\ p[2] \in DOMAIN R[c] /\ p = <<p[1], p[2]>>
      BY <2>1
  <2>3. R[p[1]][p[2]].conn = d
      BY <1>1 DEF LeakedIn
  <2> QED
      BY <2>2, <2>3
<1>2. ASSUME NEW c \in Conns \ {d}, NEW i \in DOMAIN R[c],
             p = <<c, i>>, R[c][i].conn = d
      PROVE  p \in LeakedIn(R, d)
  <2>1. p \in {c} \X DOMAIN R[c] /\ p[1] = c /\ p[2] = i
      BY <1>2
  <2> QED
      BY <1>2, <2>1 DEF LeakedIn
<1> QED
    BY <1>1, <1>2

LEMMA LeakedAppend ==
    ASSUME NEW R \in [Conns -> Seq(QueueEle)], NEW c \in Conns, NEW e \in QueueEle,
           NEW d \in Conns
    PROVE  /\ e.conn = d /\ c # d =>
                  /\ NextOf(R, c) \notin LeakedIn(R, d)
                  /\ LeakedIn(WithReply(R, c, e), d) = LeakedIn(R, d) \cup {NextOf(R, c)}
           /\ e.conn # d \/ c = d =>
                  LeakedIn(WithReply(R, c, e), d) = LeakedIn(R, d)
<1> DEFINE S == WithReply(R, c, e)
           k == Len(R[c]) + 1
           p == <<c, k>>
<1>1. /\ R[c] \in Seq(QueueEle) /\ S[c] = Append(R[c], e) /\ Len(R[c]) \in Nat
      /\ DOMAIN R[c] = 1 .. Len(R[c]) /\ DOMAIN S[c] = 1 .. k
      /\ S[c][k] = e /\ \A i \in 1 .. Len(R[c]) : S[c][i] = R[c][i]
    BY AppendProperties, LenProperties DEF WithReply
<1>2. \A x \in Conns : x # c => S[x] = R[x]
    BY DEF WithReply
<1>3. k \notin DOMAIN R[c] /\ DOMAIN S[c] = DOMAIN R[c] \cup {k}
      /\ \A i \in DOMAIN R[c] : S[c][i] = R[c][i]
    BY <1>1
<1>4. S[c][k] = e
    BY <1>1
<1> HIDE DEF S, k
<1>5. ASSUME NEW z \in LeakedIn(R, d)
      PROVE  z \in LeakedIn(S, d) /\ z # p
  <2>1. PICK x \in Conns \ {d} : \E i \in DOMAIN R[x] :
                z = <<x, i>> /\ R[x][i].conn = d
      BY LeakedIs
  <2>2. PICK i \in DOMAIN R[x] : z = <<x, i>> /\ R[x][i].conn = d
      BY <2>1
  <2>3. i \in DOMAIN S[x] /\ S[x][i] = R[x][i] /\ <<x, i>> # <<c, k>>
      BY <1>2, <1>3, <2>2
  <2> QED
      BY <2>2, <2>3, LeakedIs
<1>6. ASSUME NEW z \in LeakedIn(S, d)
      PROVE  z \in LeakedIn(R, d) \/ (z = p /\ e.conn = d /\ c # d)
  <2>1. PICK x \in Conns \ {d} : \E i \in DOMAIN S[x] :
                z = <<x, i>> /\ S[x][i].conn = d
      BY LeakedIs
  <2>2. PICK i \in DOMAIN S[x] : z = <<x, i>> /\ S[x][i].conn = d
      BY <2>1
  <2>3. CASE x = c /\ i = k
      BY <1>4, <2>2, <2>3
  <2>4. CASE ~ (x = c /\ i = k)
    <3>1. i \in DOMAIN R[x] /\ S[x][i] = R[x][i]
        BY <1>2, <1>3, <2>2, <2>4
    <3> QED
        BY <2>2, <3>1, LeakedIs
  <2> QED
      BY <2>3, <2>4
<1>7. ASSUME e.conn = d, c # d
      PROVE  p \in LeakedIn(S, d)
  <2>1. k \in DOMAIN S[c] /\ S[c][k].conn = d
      BY <1>3, <1>4, <1>7
  <2> QED
      BY <1>7, <2>1, LeakedIs
<1>8. ASSUME e.conn = d, c # d
      PROVE  p \notin LeakedIn(R, d) /\ LeakedIn(S, d) = LeakedIn(R, d) \cup {p}
    BY <1>5, <1>6, <1>7, <1>8
<1>9. ASSUME e.conn # d \/ c = d
      PROVE  LeakedIn(S, d) = LeakedIn(R, d)
    BY <1>5, <1>6, <1>9
<1> QED
    BY <1>8, <1>9 DEF S, k, NextOf

\* What the mapped variables do when a connection changes its state.
LEMMA UpChanges ==
    ASSUME TypeOK, NEW c \in Conns, NEW v \in {"idle", "backlog", "open", "closed"},
           conn' = [conn EXCEPT ![c] = v]
    PROVE  /\ v = "open"    => Up' = [Up EXCEPT ![c] = "up"]
           /\ v = "closed"  => Up' = [Up EXCEPT ![c] = "gone"]
           /\ v = "backlog" /\ conn[c] = "idle" => Up' = Up
<1>1. conn \in [Conns -> {"idle", "backlog", "open", "closed"}]
    BY DEF TypeOK, NetTypeOK
<1>2. /\ conn'[c] = v
      /\ \A x \in Conns : x # c => conn'[x] = conn[x]
    BY <1>1
<1>3. ASSUME v = "open" PROVE Up' = [Up EXCEPT ![c] = "up"]
    BY <1>2, <1>3 DEF Up
<1>4. ASSUME v = "closed" PROVE Up' = [Up EXCEPT ![c] = "gone"]
    BY <1>2, <1>4 DEF Up
<1>5. ASSUME v = "backlog", conn[c] = "idle" PROVE Up' = Up
    BY <1>2, <1>5 DEF Up
<1> QED
    BY <1>3, <1>4, <1>5

\* Steps that take no reply off queueOutput leave the answers alone.
LEMMA OwnFrame ==
    ASSUME UNCHANGED reply
    PROVE  UNCHANGED <<Own, LeakedCount>>
BY DEF Own, OwnAnswered, LeakedCount, Leaked

\* A round of readcbNotify answers the connection, or leaks its reply to the
\* one that has its descriptor now, or drops it.
LEMMA TakenIsEcho ==
    ASSUME EchoInv, readcbNotifyTryGet
    PROVE  NoneTwice' /\ [Echo!Next]_(Echo!vars)
<1> DEFINE e == Head(queueOutput)
           d == e.conn
           c == sessions[e.fd]
           k == Len(reply[c])
<1> USE DEF EchoInv
<1>1. /\ e \in QueueEle /\ d \in Conns /\ fdOf[d] = e.fd /\ e.fd \in Fds
      /\ e.n = taken[d] + 1 /\ e.n <= done[d]
      /\ taken' = [taken EXCEPT ![d] = @ + 1]
      /\ conn[d] \in {"open", "closed"}
      /\ conn[d] = "open" => c = d
      /\ c = None => reply' = reply
      /\ c # None => /\ c \in Conns /\ conn[c] = "open" /\ fdOf[c] = e.fd
                     /\ reply' = [reply EXCEPT ![c] = Append(@, e)]
                     /\ c # d => taken[c] = 0
      /\ UNCHANGED <<netVars, inVars>>
    BY TakenStep
<1>2. /\ taken \in Counters /\ done \in Counters /\ got \in Counters
      /\ put \in Counters /\ reply \in [Conns -> Seq(QueueEle)]
    BY DEF IInv, TypeOK, CounterTypeOK, QueueTypeOK
<1>3. /\ taken'[d] = taken[d] + 1
      /\ \A x \in Conns : x # d => taken'[x] = taken[x]
      /\ \A x \in Conns : taken[x] \in Nat
    BY <1>1, <1>2 DEF Counters
<1>4. taken[d] < put[d]
  <2>1. done[d] <= got[d] /\ got[d] <= put[d]
      BY <1>1 DEF IInv, CountersAgree
  <2> QED
      BY <1>1, <1>2, <2>1 DEF Counters
<1>5. UNCHANGED <<Up, put>>
    BY <1>1 DEF Up, netVars, inVars
<1>6. ASSUME NEW x \in Conns
      PROVE  /\ OwnAnswered(x) = OwnIn(reply, x) /\ OwnAnswered(x)' = OwnIn(reply', x)
             /\ Leaked(x) = LeakedIn(reply, x) /\ Leaked(x)' = LeakedIn(reply', x)
    BY DEF OwnAnswered, OwnIn, Leaked, LeakedIn
<1>7. \A x \in Conns : conn[x] = "open" => OwnAnswered(x) = taken[x]
    BY DEF IInv, RepliesAgree, NoReplyLost
<1>8. ASSUME NEW x \in Conns
      PROVE  /\ OwnAnswered(x) \in Nat /\ IsFiniteSet(Leaked(x))
             /\ OwnAnswered(x) + Cardinality(Leaked(x)) <= taken[x]
             /\ Cardinality(Leaked(x)) \in Nat
  <2>1. IsFiniteSet(Leaked(x))
      BY DEF NoneTwice
  <2> QED
      BY <2>1, FS_CardinalityType DEF NoneTwice
<1>9. CASE c = None
  <2>1. UNCHANGED <<Own, LeakedCount>>
      BY <1>1, <1>9, OwnFrame
  <2>2. ASSUME NEW x \in Conns
        PROVE  OwnAnswered(x)' = OwnAnswered(x) /\ Leaked(x)' = Leaked(x)
      BY <1>1, <1>6, <1>9
  <2>3. \A x \in Conns : taken[x] <= taken'[x] /\ taken'[x] \in Nat
      BY <1>3
  <2>4. ASSUME NEW x \in Conns
        PROVE  /\ OwnAnswered(x)' \in Nat /\ IsFiniteSet(Leaked(x)')
               /\ OwnAnswered(x)' + Cardinality(Leaked(x)') <= taken'[x]
      BY <1>3, <1>8, <2>2, <2>3
  <2>5. NoneTwice'
      BY <2>4 DEF NoneTwice
  <2> QED
      BY <1>5, <2>1, <2>5 DEF Echo!vars
<1>10. CASE c # None /\ c = d
  <2>1. /\ reply' = WithReply(reply, d, e) /\ conn[d] = "open"
      BY <1>1, <1>10 DEF WithReply
  <2> HIDE DEF e
  <2>2. ASSUME NEW x \in Conns
        PROVE  /\ OwnAnswered(x)' = IF x # d THEN OwnAnswered(x) ELSE e.n
               /\ Leaked(x)' = Leaked(x)
    <3>1. OwnIn(reply', x) = IF x # d THEN OwnIn(reply, x) ELSE e.n
        BY <1>1, <1>2, <2>1, OwnAppend
    <3>2. LeakedIn(reply', x) = LeakedIn(reply, x)
        BY <1>1, <1>2, <2>1, LeakedAppend
    <3> QED
        BY <1>6, <3>1, <3>2
  <2>3. e.n = OwnAnswered(d) + 1
      BY <1>1, <1>7, <2>1
  <2>4. Own' = [Own EXCEPT ![d] = @ + 1]
      BY <1>1, <2>2, <2>3 DEF Own
  <2>5. LeakedCount' = LeakedCount
      BY <2>2 DEF LeakedCount
  <2>6. Up[d] = "up" /\ Own[d] < put[d]
      BY <1>1, <1>4, <1>7, <2>1 DEF Up, Own
  <2>7. Echo!Answer(d)
      BY <1>5, <2>4, <2>5, <2>6 DEF Echo!Answer
  <2>8. ASSUME NEW x \in Conns
        PROVE  /\ OwnAnswered(x)' \in Nat /\ IsFiniteSet(Leaked(x)')
               /\ OwnAnswered(x)' + Cardinality(Leaked(x)') <= taken'[x]
    <3>1. CASE x = d
        BY <1>3, <1>8, <2>2, <2>3, <3>1
    <3>2. CASE x # d
        BY <1>3, <1>8, <2>2, <3>2
    <3> QED
        BY <3>1, <3>2
  <2>9. NoneTwice'
      BY <2>8 DEF NoneTwice
  <2> QED
      BY <1>1, <2>7, <2>9 DEF Echo!Next
<1>11. CASE c # None /\ c # d
  <2>1. /\ reply' = WithReply(reply, c, e) /\ conn[c] = "open"
        /\ c \in Conns /\ conn[d] = "closed" /\ taken[c] = 0
      BY <1>1, <1>11 DEF WithReply
  <2>2. OwnAnswered(c) = 0
      BY <1>7, <2>1
  <2> HIDE DEF e, c
  <2>3. ASSUME NEW x \in Conns
        PROVE  /\ OwnAnswered(x)' = OwnAnswered(x)
               /\ x # d => Leaked(x)' = Leaked(x)
               /\ x = d => /\ NextOf(reply, c) \notin Leaked(x)
                           /\ Leaked(x)' = Leaked(x) \cup {NextOf(reply, c)}
    <3>1. OwnIn(reply', x) = IF x # c THEN OwnIn(reply, x) ELSE 0
        BY <1>1, <1>2, <1>11, <2>1, OwnAppend
    <3>2. ASSUME x # d
          PROVE  LeakedIn(reply', x) = LeakedIn(reply, x)
      <4>1. e.conn # x /\ e \in QueueEle
          BY <1>1, <3>2
      <4> HIDE DEF d
      <4> QED
          BY <1>2, <2>1, <4>1, LeakedAppend
    <3>3. x = d =>
            /\ NextOf(reply, c) \notin LeakedIn(reply, x)
            /\ LeakedIn(reply', x) = LeakedIn(reply, x) \cup {NextOf(reply, c)}
        BY <1>1, <1>2, <1>11, <2>1, LeakedAppend
    <3> QED
        BY <1>6, <2>2, <3>1, <3>2, <3>3
  <2>4. ASSUME NEW x \in Conns, x = d
        PROVE  /\ Cardinality(Leaked(x)') = Cardinality(Leaked(x)) + 1
               /\ IsFiniteSet(Leaked(x)')
      BY <1>8, <2>3, <2>4, FS_AddElement
  <2>5. Own' = Own
      BY <2>3 DEF Own
  <2>6. LeakedCount' = [LeakedCount EXCEPT ![d] = @ + 1]
    <3>1. \A x \in Conns : Cardinality(Leaked(x)') = IF x = d THEN Cardinality(Leaked(x)) + 1
                                                     ELSE Cardinality(Leaked(x))
        BY <2>3, <2>4
    <3> QED
        BY <1>1, <3>1 DEF LeakedCount
  <2>7. Up[d] = "gone" /\ Up[c] = "up" /\ Own[c] = 0
      BY <1>1, <2>1, <2>2 DEF Up, Own
  <2>8. Own[d] + LeakedCount[d] < put[d]
    <3>1. put[d] \in Nat
        BY <1>1, <1>2 DEF Counters
    <3>2. Own[d] = OwnAnswered(d) /\ LeakedCount[d] = Cardinality(Leaked(d))
        BY <1>1 DEF Own, LeakedCount
    <3> QED
        BY <1>1, <1>3, <1>4, <1>8, <3>1, <3>2
  <2>9. Echo!Leak(d, c)
      BY <1>5, <2>5, <2>6, <2>7, <2>8 DEF Echo!Leak
  <2>10. ASSUME NEW x \in Conns
         PROVE  /\ OwnAnswered(x)' \in Nat /\ IsFiniteSet(Leaked(x)')
                /\ OwnAnswered(x)' + Cardinality(Leaked(x)') <= taken'[x]
    <3>1. CASE x = d
        BY <1>3, <1>8, <2>3, <2>4, <3>1
    <3>2. CASE x # d
        BY <1>3, <1>8, <2>3, <3>2
    <3> QED
        BY <3>1, <3>2
  <2>11. NoneTwice'
      BY <2>10 DEF NoneTwice
  <2> QED
      BY <1>1, <2>1, <2>9, <2>11 DEF Echo!Next
<1> QED
    BY <1>9, <1>10, <1>11

\* Every step of the server is a step of EchoService or changes nothing there.
LEMMA StepIsEcho ==
    ASSUME EchoInv, [Next]_vars
    PROVE  NoneTwice' /\ [Echo!Next]_(Echo!vars)
<1> USE DEF EchoInv
<1>0. TypeOK /\ SessionsAgree /\ put \in Counters /\ taken \in Counters
    BY DEF IInv, TypeOK, CounterTypeOK
<1>1. CASE readcbNotifyTryGet
    BY <1>1, TakenIsEcho
<1>2. ASSUME UNCHANGED <<reply, taken>>
      PROVE  NoneTwice' /\ UNCHANGED <<Own, LeakedCount>>
  <2>1. UNCHANGED <<Own, LeakedCount>>
      BY <1>2, OwnFrame
  <2>2. NoneTwice'
      BY <1>2 DEF NoneTwice, OwnAnswered, Leaked
  <2> QED
      BY <2>1, <2>2
<1>3. ASSUME UNCHANGED <<conn, put, reply, taken>>
      PROVE  NoneTwice' /\ [Echo!Next]_(Echo!vars)
  <2>1. UNCHANGED <<Up, put>>
      BY <1>3 DEF Up
  <2> QED
      BY <1>2, <1>3, <2>1 DEF Echo!vars
<1>4. ASSUME NEW c \in Conns, Connect(c)
      PROVE  NoneTwice' /\ [Echo!Next]_(Echo!vars)
  <2>1. /\ conn' = [conn EXCEPT ![c] = "backlog"] /\ conn[c] = "idle"
        /\ UNCHANGED <<put, reply, taken>>
      BY <1>4 DEF Connect, inVars, outVars
  <2>2. Up' = Up
      BY <1>0, <2>1, UpChanges
  <2> QED
      BY <1>2, <2>1, <2>2 DEF Echo!vars
<1>5. CASE acceptcb
  <2> DEFINE c == Head(backlog)
  <2>1. /\ c \in Conns /\ conn[c] = "backlog"
        /\ UNCHANGED <<put, reply, taken>>
      BY <1>0, <1>5, AcceptStep DEF inVars, outVars
  <2>2. \/ conn' = [conn EXCEPT ![c] = "open"]
        \/ conn' = [conn EXCEPT ![c] = "closed"]
      BY <1>5 DEF acceptcb
  <2>3. Up[c] = "new"
      BY <2>1 DEF Up
  <2> HIDE DEF c
  <2>4. Up' = [Up EXCEPT ![c] = "up"] \/ Up' = [Up EXCEPT ![c] = "gone"]
      BY <1>0, <2>1, <2>2, UpChanges
  <2>5. Echo!Open(c) \/ Echo!Drop(c)
      BY <1>2, <2>1, <2>3, <2>4 DEF Echo!Open, Echo!Drop
  <2> QED
      BY <1>2, <2>1, <2>5 DEF Echo!Next
<1>6. ASSUME NEW fd \in Fds, errorcb(fd)
      PROVE  NoneTwice' /\ [Echo!Next]_(Echo!vars)
  <2> DEFINE c == sessions[fd]
  <2>1. /\ c \in Conns /\ conn' = [conn EXCEPT ![c] = "closed"]
        /\ UNCHANGED <<put, reply, taken>>
      BY <1>0, <1>6 DEF errorcb, inVars, outVars, TypeOK, NetTypeOK
  <2>2. conn[c] = "open"
      BY <1>0, <1>6, <2>1, ConstantsAssumption DEF SessionsAgree
  <2>3. Up[c] = "up"
      BY <2>1, <2>2 DEF Up
  <2> HIDE DEF c
  <2>4. Up' = [Up EXCEPT ![c] = "gone"]
      BY <1>0, <2>1, UpChanges
  <2>5. Echo!Drop(c)
      BY <1>2, <2>1, <2>3, <2>4 DEF Echo!Drop
  <2> QED
      BY <1>2, <2>1, <2>5 DEF Echo!Next
<1>7. CASE readcbPut
  <2> DEFINE c == sessions[io.fd]
  <2>1. c \in Conns /\ conn[c] = "open"
      BY <1>0, <1>7, ReadingConn DEF readcbPut
  <2>2. put' = [put EXCEPT ![c] = @ + 1] /\ UNCHANGED <<conn, reply, taken>>
      BY <1>7 DEF readcbPut, netVars, outVars
  <2>3. Up[c] = "up" /\ Up' = Up
      BY <2>1, <2>2 DEF Up
  <2> HIDE DEF c
  <2>4. Echo!Ask(c)
      BY <1>2, <2>2, <2>3 DEF Echo!Ask
  <2> QED
      BY <1>2, <2>1, <2>2, <2>4 DEF Echo!Next
<1>8. ASSUME NEW c \in Conns, Send(c) \/ HangUp(c)
      PROVE  NoneTwice' /\ [Echo!Next]_(Echo!vars)
    BY <1>3, <1>8 DEF Send, HangUp, netVars, inVars, outVars
<1>9. ASSUME NEW fd \in Fds, readcb(fd) \/ writecb(fd)
      PROVE  NoneTwice' /\ [Echo!Next]_(Echo!vars)
    BY <1>3, <1>9 DEF readcb, writecb, netVars, inVars, outVars
<1>10. ASSUME NEW w \in Workers, readcbNotify(w) \/ WorkerProc(w)
       PROVE  NoneTwice' /\ [Echo!Next]_(Echo!vars)
    BY <1>3, <1>10 DEF readcbNotify, WorkerProc, WorkerGet, WorkerPut, WorkerWrite,
                       netVars, inVars, outVars
<1>11. CASE readcbNotifyEmpty \/ acceptcbFails \/ Finished \/ UNCHANGED vars
    BY <1>3, <1>11 DEF readcbNotifyEmpty, acceptcbFails, Finished, vars,
                       netVars, inVars, outVars
<1> QED
    BY <1>1, <1>4, <1>5, <1>6, <1>7, <1>8, <1>9, <1>10, <1>11
       DEF Next, Client, IoThread

\* The server implements EchoService: what queues, threads, pipes and reused
\* descriptors do together is that connections ask, are answered in order and
\* at most once, and see of others only what those left when they went, each
\* reply at most once and never after an answer of their own.
THEOREM EchoImplemented == Spec => ImplementsEcho
<1>1. Init => EchoInv /\ Echo!Init
  <2> SUFFICES ASSUME Init PROVE EchoInv /\ Echo!Init
      OBVIOUS
  <2>1. reply = [c \in Conns |-> <<>>] /\ put = [c \in Conns |-> 0]
        /\ conn = [c \in Conns |-> "idle"] /\ taken = [c \in Conns |-> 0]
      BY DEF Init
  <2>2. ASSUME NEW d \in Conns
        PROVE  OwnAnswered(d) = 0 /\ Leaked(d) = {}
      BY <2>1 DEF OwnAnswered, Leaked
  <2>3. \A d \in Conns : IsFiniteSet(Leaked(d)) /\ Cardinality(Leaked(d)) = 0
      BY <2>2, FS_EmptySet
  <2>4. NoneTwice
      BY <2>1, <2>2, <2>3 DEF NoneTwice
  <2>5. Up = [c \in Conns |-> "new"]
      BY <2>1 DEF Up
  <2>6. Own = [c \in Conns |-> 0] /\ LeakedCount = [c \in Conns |-> 0]
      BY <2>2, <2>3 DEF Own, LeakedCount
  <2>7. Echo!Init
      BY <2>1, <2>5, <2>6 DEF Echo!Init
  <2> QED
      BY <2>4, <2>7, IInvInit DEF EchoInv
<1>2. EchoInv /\ [Next]_vars => EchoInv' /\ [Echo!Next]_(Echo!vars)
    BY StepIsEcho, IInvNext DEF EchoInv
<1> QED
    BY <1>1, <1>2, PTL DEF Spec, ImplementsEcho, Echo!Spec

=============================================================================
