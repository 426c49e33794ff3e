----------------------- MODULE EpollEchoServerProofs -----------------------
(***************************************************************************)
(* Proofs about EpollEchoServer, for every number of clients and every     *)
(* bound: the hand-made count of events is never too small, and no         *)
(* connection is closed that is still good.                                *)
(*                                                                         *)
(*   BatchLive     an event of the batch is still true when it is handled: *)
(*                 its connection is registered and readable               *)
(*   BacklogFresh  a connection is accepted once                           *)
(*   Counted       maxevents lies between the sockets that are registered  *)
(*                 and those that ever were                                *)
(*   ClosedAfterEnd                                                        *)
(***************************************************************************)
EXTENDS EpollEchoServer, SequenceTheorems, FiniteSetTheorems, TLAPS

USE ListenerAssumption, EagerAssumption, SizeAssumption, BoundAssumption

BatchLive ==
    \A i \in DOMAIN batch : batch[i] # Listener =>
        batch[i] \in registered /\ Readable(batch[i])

BacklogFresh ==
    /\ IsInjective(backlog)
    /\ \A i \in DOMAIN backlog :
           cpc[backlog[i]] # "new" /\ backlog[i] \notin registered \cup closed
    /\ \A c \in registered \cup closed : cpc[c] # "new"

Counted == IsFiniteSet(registered) /\ IsFiniteSet(closed) /\ EnoughEvents

IInv == TypeOK /\ BatchLive /\ BacklogFresh /\ Counted /\ ClosedAfterEnd

\* TypeOK in two parts: the lists and sets of sockets, and the rest.
QueuesOK ==
    /\ batch \in Seq(Clients \cup {Listener}) /\ IsInjective(batch)
    /\ ready \in Seq(registered \cup {Listener}) /\ IsInjective(ready)
    /\ backlog \in Seq(Clients)
    /\ registered \subseteq Clients /\ closed \subseteq Clients \ registered

RestOK ==
    /\ state \in {"running", "returned", "killed"}
    /\ maxevents \in Int /\ eagain \in BOOLEAN /\ faults \in 0 .. MaxFaults
    /\ unread \in [Clients -> Nat] /\ echo \in [Clients -> 0 .. SndMax]
    /\ end \in [Clients -> {"no", "fin", "reset", "pipe", "seen"}]
    /\ cpc \in [Clients -> {"new", "wait", "recv", "lost", "exited"}]
    /\ cready \in [Clients -> BOOLEAN] /\ sends \in [Clients -> 0 .. MaxSends]

LEMMA TypeParts ==
    /\ TypeOK <=> QueuesOK /\ RestOK
    /\ TypeOK' <=> QueuesOK' /\ RestOK'
BY DEF TypeOK, QueuesOK, RestOK

-----------------------------------------------------------------------------
(* Sequences without repetition.                                           *)

LEMMA Retyped ==
    ASSUME NEW S, NEW T, NEW q \in Seq(S), \A i \in DOMAIN q : q[i] \in T
    PROVE  q \in Seq(T)
<1>1. Len(q) \in Nat /\ q \in [1 .. Len(q) -> S] /\ DOMAIN q = 1 .. Len(q)
    BY LenProperties
<1>2. q \in [1 .. Len(q) -> T]
    BY <1>1
<1> QED
    BY <1>1, <1>2

LEMMA InjectiveAppend ==
    ASSUME NEW S, NEW q \in Seq(S), IsInjective(q), NEW x \in S,
           \A i \in DOMAIN q : q[i] # x
    PROVE  Append(q, x) \in Seq(S) /\ IsInjective(Append(q, x))
<1> DEFINE a == Append(q, x)
<1>1. /\ a \in Seq(S) /\ Len(q) \in Nat
      /\ DOMAIN q = 1 .. Len(q) /\ DOMAIN a = 1 .. Len(q) + 1
      /\ a[Len(q) + 1] = x /\ \A i \in 1 .. Len(q) : a[i] = q[i]
    BY AppendProperties, LenProperties
<1> HIDE DEF a
<1>2. ASSUME NEW i \in DOMAIN a, NEW j \in DOMAIN a, a[i] = a[j]
      PROVE  i = j
    BY <1>1, <1>2 DEF IsInjective
<1>3. IsInjective(a)
    BY <1>2 DEF IsInjective
<1> QED
    BY <1>1, <1>3 DEF a

\* A part of a sequence, and in particular its tail, holds elements of it.
LEMMA InjectivePart ==
    ASSUME NEW S, NEW q \in Seq(S), IsInjective(q),
           NEW m \in 1 .. Len(q) + 1, NEW n \in 0 .. Len(q)
    PROVE  /\ SubSeq(q, m, n) \in Seq(S) /\ IsInjective(SubSeq(q, m, n))
           /\ \A i \in DOMAIN SubSeq(q, m, n) :
                  \E j \in DOMAIN q : SubSeq(q, m, n)[i] = q[j]
<1> DEFINE p == SubSeq(q, m, n)
<1>1. Len(q) \in Nat /\ DOMAIN q = 1 .. Len(q) /\ \A i \in m .. n : q[i] \in S
    BY LenProperties, ElementOfSeq
<1>2. /\ p \in Seq(S) /\ Len(p) = IF m <= n THEN n - m + 1 ELSE 0
      /\ \A i \in 1 .. n - m + 1 : p[i] = q[m + i - 1]
    BY <1>1, SubSeqProperties
<1> HIDE DEF p
<1>3. DOMAIN p = 1 .. Len(p)
    BY <1>2, LenProperties
<1>4. ASSUME NEW i \in DOMAIN p
      PROVE  m + i - 1 \in DOMAIN q /\ p[i] = q[m + i - 1]
    BY <1>1, <1>2, <1>3, SMTT(30)
<1>5. ASSUME NEW i \in DOMAIN p, NEW j \in DOMAIN p, p[i] = p[j]
      PROVE  i = j
  <2>1. m + i - 1 = m + j - 1
      BY <1>4, <1>5 DEF IsInjective
  <2> QED
      BY <1>1, <1>2, <1>3, <2>1
<1>6. IsInjective(p)
    BY <1>5 DEF IsInjective
<1>7. \A i \in DOMAIN p : \E j \in DOMAIN q : p[i] = q[j]
    BY <1>4
<1> QED
    BY <1>2, <1>6, <1>7 DEF p

\* The rest of a sequence does not hold its head.
LEMMA InjectiveTail ==
    ASSUME NEW S, NEW q \in Seq(S), IsInjective(q), q # <<>>
    PROVE  /\ Head(q) \in S /\ 1 \in DOMAIN q /\ q[1] = Head(q)
           /\ Tail(q) \in Seq(S) /\ IsInjective(Tail(q))
           /\ \A i \in DOMAIN Tail(q) :
                  /\ \E j \in DOMAIN q : Tail(q)[i] = q[j]
                  /\ Tail(q)[i] # Head(q)
<1> DEFINE t == Tail(q)
<1>1. /\ Len(q) \in Nat /\ Len(q) >= 1 /\ DOMAIN q = 1 .. Len(q)
      /\ Head(q) \in S /\ q[1] = Head(q)
      /\ t \in Seq(S) /\ Len(t) = Len(q) - 1 /\ DOMAIN t = 1 .. Len(q) - 1
      /\ \A i \in 1 .. Len(t) : t[i] = q[i + 1]
    BY HeadTailProperties, LenProperties, EmptySeq
<1> HIDE DEF t
<1>2. ASSUME NEW i \in DOMAIN t
      PROVE  i + 1 \in DOMAIN q /\ t[i] = q[i + 1] /\ i + 1 # 1
    BY <1>1
<1>3. ASSUME NEW i \in DOMAIN t, NEW j \in DOMAIN t, t[i] = t[j]
      PROVE  i = j
  <2>1. i + 1 = j + 1
      BY <1>2, <1>3 DEF IsInjective
  <2> QED
      BY <1>1, <2>1
<1>4. IsInjective(t)
    BY <1>3 DEF IsInjective
<1>5. 1 \in DOMAIN q
    BY <1>1
<1>6. ASSUME NEW i \in DOMAIN t
      PROVE  (\E j \in DOMAIN q : t[i] = q[j]) /\ t[i] # Head(q)
  <2>1. q[i + 1] # q[1]
      BY <1>2, <1>5 DEF IsInjective
  <2> QED
      BY <1>1, <1>2, <2>1
<1> QED
    BY <1>1, <1>4, <1>5, <1>6 DEF t

\* What is kept of a sequence comes from the positions that are kept.
LEMMA KeptIs ==
    ASSUME NEW S, NEW q \in Seq(S), IsInjective(q),
           NEW I \in SUBSET DOMAIN q, NEW r \in Kept(q, I)
    PROVE  /\ r \in Seq(S) /\ IsInjective(r)
           /\ \A i \in DOMAIN r : \E j \in I : r[i] = q[j]
<1>1. Len(q) \in Nat /\ DOMAIN q = 1 .. Len(q) /\ \A i \in DOMAIN q : q[i] \in S
    BY LenProperties, ElementOfSeq
<1>2. Cardinality(I) \in Nat
  <2>1. IsFiniteSet(1 .. Len(q))
      BY <1>1, FS_Interval
  <2> QED
      BY <1>1, <2>1, FS_Subset, FS_CardinalityType
<1> DEFINE n == Cardinality(I)
<1>3. PICK at \in [1 .. n -> I] :
          /\ \A i, j \in 1 .. n : i < j => at[i] < at[j]
          /\ r = [i \in 1 .. n |-> q[at[i]]]
    BY DEF Kept
<1> HIDE DEF n
<1>4. n \in Nat
    BY <1>2 DEF n
<1>5. /\ DOMAIN r = 1 .. n
      /\ \A i \in 1 .. n : r[i] = q[at[i]] /\ at[i] \in I /\ at[i] \in DOMAIN q
    BY <1>3
<1>6. r \in [1 .. n -> S]
    BY <1>1, <1>3, <1>5
<1>7. r \in Seq(S)
    BY <1>4, <1>6
<1>8. ASSUME NEW i \in DOMAIN r, NEW j \in DOMAIN r, r[i] = r[j]
      PROVE  i = j
  <2>1. at[i] = at[j]
      BY <1>5, <1>8 DEF IsInjective
  <2>2. ~ (i < j) /\ ~ (j < i)
      BY <1>1, <1>3, <1>5, <2>1
  <2> QED
      BY <1>4, <1>5, <2>2
<1>9. IsInjective(r)
    BY <1>8 DEF IsInjective
<1> QED
    BY <1>5, <1>7, <1>9

\* An arrival leaves the list without repetition.
LEMMA AnnouncedIs ==
    ASSUME QueuesOK, NEW s
    PROVE  /\ Announced(s) \in Seq(registered \cup {Listener})
           /\ IsInjective(Announced(s))
<1>1. CASE s \in Range(ready) \/ s \notin registered \cup {Listener}
    BY <1>1 DEF Announced, QueuesOK
<1>2. CASE ~ (s \in Range(ready) \/ s \notin registered \cup {Listener})
  <2>1. \A i \in DOMAIN ready : ready[i] # s
      BY <1>2 DEF Range
  <2>2. /\ ready \in Seq(registered \cup {Listener}) /\ IsInjective(ready)
        /\ s \in registered \cup {Listener}
      BY <1>2 DEF QueuesOK
  <2>3. /\ Append(ready, s) \in Seq(registered \cup {Listener})
        /\ IsInjective(Append(ready, s))
      BY <2>1, <2>2, InjectiveAppend
  <2> QED
      BY <1>2, <2>3 DEF Announced
<1> QED
    BY <1>1, <1>2

-----------------------------------------------------------------------------
(* The clients.                                                            *)

\* A step of a client leaves the server's own data alone, forgets no
\* connection and takes nothing back that made a socket readable.
LEMMA ClientKeeps ==
    ASSUME IInv, UNCHANGED serverVars, RestOK',
           ready' \in Seq(registered \cup {Listener}), IsInjective(ready'),
           backlog' = backlog,
           \A c \in Clients : cpc[c] # "new" => cpc'[c] # "new",
           \A c \in Clients : unread[c] > 0 => unread'[c] > 0,
           \A c \in Clients : end[c] # "no" => end'[c] # "no"
    PROVE  IInv'
<1> USE DEF IInv
<1>1. UNCHANGED <<batch, registered, closed, maxevents>>
    BY DEF serverVars
<1>2. TypeOK'
  <2>1. QueuesOK
      BY TypeParts
  <2>2. QueuesOK'
      BY <1>1, <2>1 DEF QueuesOK
  <2> QED
      BY <2>2, TypeParts
<1>3. registered \subseteq Clients /\ closed \subseteq Clients
    BY DEF TypeOK
<1>4. BatchLive'
    BY <1>1, <1>3 DEF BatchLive, Readable
<1>5. BacklogFresh'
  <2>1. \A i \in DOMAIN backlog : backlog[i] \in Clients
    <3>1. backlog \in Seq(Clients)
        BY DEF TypeOK
    <3> QED
        BY <3>1, ElementOfSeq, LenProperties
  <2> QED
      BY <1>1, <1>3, <2>1 DEF BacklogFresh
<1>6. Counted'
    BY <1>1 DEF Counted, EnoughEvents
<1>7. ClosedAfterEnd'
    BY <1>1, <1>3 DEF ClosedAfterEnd
<1> QED
    BY <1>2, <1>4, <1>5, <1>6, <1>7

LEMMA TimeoutKeeps ==
    ASSUME IInv, NEW c \in Clients, Timeout(c)
    PROVE  IInv'
<1>1. QueuesOK /\ RestOK
    BY TypeParts DEF IInv
<1>2. CASE end[c] = "no"
  <2>1. PICK k \in 1 .. MsgUnits : unread' = [unread EXCEPT ![c] = @ + k]
      BY <1>2 DEF Timeout
  <2>2. unread' \in [Clients -> Nat] /\ \A x \in Clients : unread'[x] >= unread[x]
      BY <1>1, <2>1 DEF RestOK
  <2>3. ready' = Announced(c)
      BY <1>2 DEF Timeout
  <2>4. RestOK'
      BY <1>1, <2>2 DEF Timeout, RestOK, serverVars
  <2>5. \A x \in Clients : unread[x] > 0 => unread'[x] > 0
      BY <1>1, <2>2 DEF RestOK
  <2>6. \A x \in Clients : cpc[x] # "new" => cpc'[x] # "new"
      BY <1>1 DEF Timeout, RestOK
  <2> QED
      BY <1>1, <2>3, <2>4, <2>5, <2>6, AnnouncedIs, ClientKeeps DEF Timeout
<1>3. CASE end[c] # "no"
  <2>1. UNCHANGED <<unread, ready>>
      BY <1>3 DEF Timeout
  <2>2. RestOK'
      BY <1>1, <2>1 DEF Timeout, RestOK, serverVars
  <2>3. \A x \in Clients : cpc[x] # "new" => cpc'[x] # "new"
      BY <1>1 DEF Timeout, RestOK
  <2>4. ready' \in Seq(registered \cup {Listener}) /\ IsInjective(ready')
      BY <1>1, <2>1 DEF QueuesOK
  <2> QED
      BY <2>1, <2>2, <2>3, <2>4, ClientKeeps DEF Timeout
<1> QED
    BY <1>2, <1>3

LEMMA KillKeeps ==
    ASSUME IInv, NEW c \in Clients, Kill(c)
    PROVE  IInv'
<1>1. QueuesOK /\ RestOK
    BY TypeParts DEF IInv
<1>2. ready' \in Seq(registered \cup {Listener}) /\ IsInjective(ready')
    BY <1>1, AnnouncedIs DEF Kill, QueuesOK
<1>3. RestOK'
  <2>1. cpc' \in [Clients -> {"new", "wait", "recv", "lost", "exited"}]
        /\ echo' \in [Clients -> 0 .. SndMax]
        /\ end' \in [Clients -> {"no", "fin", "reset", "pipe", "seen"}]
      BY <1>1 DEF Kill, RestOK
  <2> QED
      BY <1>1, <2>1 DEF Kill, RestOK, serverVars
<1>4. \A x \in Clients : cpc[x] # "new" => cpc'[x] # "new"
    BY <1>1 DEF Kill, RestOK
<1>5. \A x \in Clients : end[x] # "no" => end'[x] # "no"
    BY <1>1 DEF Kill, RestOK
<1> QED
    BY <1>2, <1>3, <1>4, <1>5, ClientKeeps DEF Kill

LEMMA UserTimeoutKeeps ==
    ASSUME IInv, NEW c \in Clients, UserTimeout(c)
    PROVE  IInv'
<1>1. QueuesOK /\ RestOK
    BY TypeParts DEF IInv
<1>2. ready' \in Seq(registered \cup {Listener}) /\ IsInjective(ready')
    BY <1>1, AnnouncedIs DEF UserTimeout
<1>3. RestOK'
    BY <1>1 DEF UserTimeout, RestOK, serverVars, clientVars
<1>4. \A x \in Clients : end[x] # "no" => end'[x] # "no"
    BY <1>1 DEF UserTimeout, RestOK
<1> QED
    BY <1>2, <1>3, <1>4, ClientKeeps DEF UserTimeout, clientVars

\* A client that reads, or finds that the server has gone.
LEMMA ReadKeeps ==
    ASSUME IInv, NEW c \in Clients, Client(c)
    PROVE  IInv'
<1>1. QueuesOK /\ RestOK
    BY TypeParts DEF IInv
<1>2. CASE recv_message(c) /\ (UNCHANGED cready \/ cready' = [cready EXCEPT ![c] = FALSE])
           /\ cpc[c] # "new"
  <2>1. echo' \in [Clients -> 0 .. SndMax]
    <3>1. echo[c] - Minimum(echo[c], 2) \in 0 .. SndMax
        BY <1>1 DEF Minimum, RestOK
    <3> QED
        BY <1>1, <1>2, <3>1 DEF recv_message, RestOK
  <2>2. RestOK'
      BY <1>1, <1>2, <2>1 DEF recv_message, RestOK, serverVars
  <2>3. \A x \in Clients : cpc[x] # "new" => cpc'[x] # "new"
      BY <1>1, <1>2 DEF recv_message, RestOK
  <2>4. ready' \in Seq(registered \cup {Listener}) /\ IsInjective(ready')
      BY <1>1, <1>2 DEF QueuesOK, recv_message
  <2> QED
      BY <1>2, <2>2, <2>3, <2>4, ClientKeeps DEF recv_message
<1>3. CASE ServerGone(c)
  <2>1. RestOK'
      BY <1>1, <1>3 DEF ServerGone, RestOK, serverVars
  <2>2. \A x \in Clients : cpc[x] # "new" => cpc'[x] # "new"
      BY <1>1, <1>3 DEF ServerGone, RestOK
  <2>3. ready' \in Seq(registered \cup {Listener}) /\ IsInjective(ready')
      BY <1>1, <1>3 DEF QueuesOK, ServerGone
  <2> QED
      BY <1>3, <2>1, <2>2, <2>3, ClientKeeps DEF ServerGone
<1> QED
    BY <1>2, <1>3 DEF Client, RecvAfterSend, RecvOnEvent

\* A connection that comes is new to the server.
LEMMA ConnectKeeps ==
    ASSUME IInv, NEW c \in Clients, Connect(c)
    PROVE  IInv'
<1> USE DEF IInv
<1>1. QueuesOK /\ RestOK
    BY TypeParts
<1>2. UNCHANGED <<batch, registered, closed, maxevents, unread, end>>
    BY DEF Connect, serverVars
<1>3. backlog' = Append(backlog, c) /\ cpc[c] = "new" /\ cpc' = [cpc EXCEPT ![c] = "wait"]
    BY DEF Connect
<1>4. \A i \in DOMAIN backlog : backlog[i] # c
    BY <1>3 DEF BacklogFresh
<1>5. backlog' \in Seq(Clients) /\ IsInjective(backlog')
    BY <1>1, <1>3, <1>4, InjectiveAppend DEF BacklogFresh, QueuesOK
<1>6. TypeOK'
  <2>1. ready' \in Seq(registered \cup {Listener}) /\ IsInjective(ready')
      BY <1>1, AnnouncedIs DEF Connect
  <2>2. QueuesOK'
      BY <1>1, <1>2, <1>5, <2>1 DEF QueuesOK
  <2>3. RestOK'
      BY <1>1 DEF Connect, RestOK, serverVars
  <2> QED
      BY <2>2, <2>3, TypeParts
<1>7. BatchLive'
    BY <1>1, <1>2 DEF BatchLive, Readable, QueuesOK
<1>8. BacklogFresh'
  <2>1. ASSUME NEW i \in DOMAIN backlog'
        PROVE  cpc'[backlog'[i]] # "new" /\ backlog'[i] \notin registered' \cup closed'
    <3>1. /\ backlog \in Seq(Clients) /\ Len(backlog) \in Nat
          /\ DOMAIN backlog = 1 .. Len(backlog) /\ DOMAIN backlog' = 1 .. Len(backlog) + 1
          /\ backlog'[Len(backlog) + 1] = c
          /\ \A j \in 1 .. Len(backlog) : backlog'[j] = backlog[j] /\ backlog[j] \in Clients
        BY <1>1, <1>3, <1>5, AppendProperties, LenProperties, ElementOfSeq DEF QueuesOK
    <3>2. CASE i = Len(backlog) + 1
        BY <1>1, <1>2, <1>3, <3>1, <3>2 DEF BacklogFresh, RestOK
    <3>3. CASE i \in 1 .. Len(backlog)
      <4>1. cpc[backlog[i]] # "new" /\ backlog[i] \notin registered \cup closed
          BY <3>1, <3>3 DEF BacklogFresh
      <4> QED
          BY <1>1, <1>2, <1>3, <3>1, <3>3, <4>1 DEF RestOK
    <3> QED
        BY <3>1, <3>2, <3>3
  <2>2. \A x \in registered' \cup closed' : cpc'[x] # "new"
      BY <1>1, <1>2, <1>3 DEF BacklogFresh, RestOK, QueuesOK
  <2> QED
      BY <1>5, <2>1, <2>2 DEF BacklogFresh
<1>9. Counted' /\ ClosedAfterEnd'
    BY <1>2 DEF Counted, EnoughEvents, ClosedAfterEnd
<1> QED
    BY <1>6, <1>7, <1>8, <1>9

-----------------------------------------------------------------------------
(* The server.                                                             *)

\* The server goes on to the next event, or to the next batch: what is in the
\* batch is readable when it is put there.
LEMMA LoopKeeps ==
    ASSUME IInv, Loop
    PROVE  IInv'
<1> USE DEF IInv
<1>1. QueuesOK /\ RestOK
    BY TypeParts
<1>2. UNCHANGED <<maxevents, registered, closed, backlog, unread, end, cpc>>
    BY DEF Loop, clientVars
<1>3. /\ batch' \in Seq(Clients \cup {Listener}) /\ IsInjective(batch')
      /\ ready' \in Seq(registered \cup {Listener}) /\ IsInjective(ready')
      /\ BatchLive'
  <2>1. CASE maxevents > 0
    <3>1. PICK now \in Kept(ready, {i \in DOMAIN ready : Readable(ready[i])}) :
              /\ batch' = SubSeq(now, 1, Minimum(Len(now), maxevents))
              /\ ready' = SubSeq(now, Minimum(Len(now), maxevents) + 1, Len(now))
        BY <2>1 DEF Loop, epoll_wait
    <3> DEFINE n == Minimum(Len(now), maxevents)
               T == {x \in registered \cup {Listener} : Readable(x)}
    <3>2. /\ now \in Seq(registered \cup {Listener}) /\ IsInjective(now)
          /\ \A i \in DOMAIN now : \E j \in {k \in DOMAIN ready : Readable(ready[k])} :
                 now[i] = ready[j]
        BY <1>1, KeptIs DEF QueuesOK
    <3>3. Len(now) \in Nat /\ n \in 0 .. Len(now)
        BY <1>1, <2>1, <3>2, LenProperties DEF Minimum, RestOK
    <3> HIDE DEF n
    <3>4. n + 1 \in 1 .. Len(now) + 1 /\ 1 \in 1 .. Len(now) + 1
          /\ Len(now) \in 0 .. Len(now)
        BY <3>3
    <3>5. /\ ready' \in Seq(registered \cup {Listener}) /\ IsInjective(ready')
        BY <3>1, <3>2, <3>4, InjectivePart DEF n
    <3>6. /\ batch' \in Seq(registered \cup {Listener}) /\ IsInjective(batch')
          /\ \A i \in DOMAIN batch' : \E j \in DOMAIN now : batch'[i] = now[j]
        BY <3>1, <3>2, <3>3, <3>4, InjectivePart DEF n
    <3>7. \A i \in DOMAIN batch' : batch'[i] \in registered \cup {Listener}
        BY <3>6, ElementOfSeq, LenProperties
    <3>8. batch' \in Seq(Clients \cup {Listener})
        BY <1>1, <3>6, <3>7, Retyped DEF QueuesOK
    <3>9. \A i \in DOMAIN batch' : Readable(batch'[i])
        BY <3>2, <3>6
    <3>10. BatchLive'
        BY <1>2, <3>7, <3>9 DEF BatchLive, Readable
    <3> QED
        BY <3>5, <3>6, <3>8, <3>10
  <2>2. CASE ~ (maxevents > 0)
      BY <1>1, <1>2, <2>2 DEF Loop, QueuesOK, BatchLive, Readable
  <2> QED
      BY <2>1, <2>2
<1>4. TypeOK'
  <2>1. QueuesOK'
      BY <1>1, <1>2, <1>3 DEF QueuesOK
  <2>2. state' \in {"running", "returned", "killed"}
      BY <1>1 DEF Loop, epoll_wait, RestOK
  <2>3. RestOK'
      BY <1>1, <2>2 DEF Loop, RestOK, clientVars
  <2> QED
      BY <2>1, <2>3, TypeParts
<1>5. BacklogFresh' /\ Counted' /\ ClosedAfterEnd'
    BY <1>2 DEF BacklogFresh, Counted, EnoughEvents, ClosedAfterEnd
<1> QED
    BY <1>3, <1>4, <1>5

\* What is left of the batch after its first event is handled.
LEMMA BatchTail ==
    ASSUME IInv, batch # <<>>
    PROVE  /\ Tail(batch) \in Seq(Clients \cup {Listener}) /\ IsInjective(Tail(batch))
           /\ \A i \in DOMAIN Tail(batch) :
                  /\ Tail(batch)[i] # Head(batch)
                  /\ Tail(batch)[i] # Listener =>
                         /\ Tail(batch)[i] \in registered \ {Head(batch)}
                         /\ Readable(Tail(batch)[i])
           /\ Head(batch) # Listener => /\ Head(batch) \in registered
                                        /\ Readable(Head(batch))
<1>1. batch \in Seq(Clients \cup {Listener}) /\ IsInjective(batch)
    BY DEF IInv, TypeOK
<1>2. /\ 1 \in DOMAIN batch /\ batch[1] = Head(batch)
      /\ Tail(batch) \in Seq(Clients \cup {Listener}) /\ IsInjective(Tail(batch))
      /\ \A i \in DOMAIN Tail(batch) :
             /\ \E j \in DOMAIN batch : Tail(batch)[i] = batch[j]
             /\ Tail(batch)[i] # Head(batch)
    BY <1>1, InjectiveTail
<1>3. \A i \in DOMAIN batch : batch[i] # Listener =>
          batch[i] \in registered /\ Readable(batch[i])
    BY DEF IInv, BatchLive
<1> QED
    BY <1>2, <1>3

\* What is left of the listen queue after an accept.
LEMMA BacklogTail ==
    ASSUME IInv, backlog # <<>>
    PROVE  /\ Head(backlog) \in Clients /\ cpc[Head(backlog)] # "new"
           /\ Head(backlog) \notin registered \cup closed
           /\ Tail(backlog) \in Seq(Clients) /\ IsInjective(Tail(backlog))
           /\ \A i \in DOMAIN Tail(backlog) :
                  /\ Tail(backlog)[i] # Head(backlog)
                  /\ cpc[Tail(backlog)[i]] # "new"
                  /\ Tail(backlog)[i] \notin registered \cup closed
<1>1. backlog \in Seq(Clients) /\ IsInjective(backlog)
    BY DEF IInv, TypeOK, BacklogFresh
<1>2. /\ 1 \in DOMAIN backlog /\ backlog[1] = Head(backlog) /\ Head(backlog) \in Clients
      /\ Tail(backlog) \in Seq(Clients) /\ IsInjective(Tail(backlog))
      /\ \A i \in DOMAIN Tail(backlog) :
             /\ \E j \in DOMAIN backlog : Tail(backlog)[i] = backlog[j]
             /\ Tail(backlog)[i] # Head(backlog)
    BY <1>1, InjectiveTail
<1>3. \A i \in DOMAIN backlog :
          cpc[backlog[i]] # "new" /\ backlog[i] \notin registered \cup closed
    BY DEF IInv, BacklogFresh
<1> QED
    BY <1>2, <1>3

\* An accept that fails leaves the counts alone, and may lose a connection
\* that was in no set yet.
LEMMA AcceptFailsKeeps ==
    ASSUME IInv, AcceptFails
    PROVE  IInv'
<1> USE DEF IInv
<1>1. QueuesOK /\ RestOK
    BY TypeParts
<1>2. /\ UNCHANGED <<state, ready, maxevents, registered, closed, unread, end,
                     cpc, cready, sends, echo>>
      /\ batch' = Tail(batch) /\ Head(batch) = Listener /\ batch # <<>>
    BY DEF AcceptFails, clientVars
<1>3. /\ backlog' \in Seq(Clients) /\ IsInjective(backlog')
      /\ \A i \in DOMAIN backlog' :
             cpc[backlog'[i]] # "new" /\ backlog'[i] \notin registered \cup closed
  <2>1. CASE backlog' = backlog
      BY <1>1, <2>1 DEF BacklogFresh, QueuesOK
  <2>2. CASE backlog # <<>> /\ backlog' = Tail(backlog)
      BY <2>2, BacklogTail
  <2> QED
      BY <2>1, <2>2 DEF AcceptFails
<1>4. /\ batch' \in Seq(Clients \cup {Listener}) /\ IsInjective(batch')
      /\ \A i \in DOMAIN batch' : batch'[i] # Listener =>
             batch'[i] \in registered /\ Readable(batch'[i])
    BY <1>2, BatchTail
<1>5. TypeOK'
  <2>1. QueuesOK'
      BY <1>1, <1>2, <1>3, <1>4 DEF QueuesOK
  <2>2. faults' \in 0 .. MaxFaults
    <3>1. faults < MaxFaults /\ faults' = faults + 1 /\ faults \in 0 .. MaxFaults
        BY <1>1 DEF AcceptFails, RestOK
    <3> QED
        BY <3>1, BoundAssumption
  <2>3. eagain' \in BOOLEAN
      BY <1>1 DEF AcceptFails, RestOK
  <2>4. RestOK'
      BY <1>1, <1>2, <2>2, <2>3 DEF RestOK
  <2> QED
      BY <2>1, <2>4, TypeParts
<1>6. BatchLive'
    BY <1>2, <1>4 DEF BatchLive, Readable
<1>7. BacklogFresh'
    BY <1>2, <1>3 DEF BacklogFresh
<1>8. Counted' /\ ClosedAfterEnd'
    BY <1>2 DEF Counted, EnoughEvents, ClosedAfterEnd
<1> QED
    BY <1>5, <1>6, <1>7, <1>8

\* The accepted connection is in neither set, so both bounds rise with
\* maxevents.
LEMMA AcceptKeeps ==
    ASSUME IInv, Accept
    PROVE  IInv'
<1> USE DEF IInv
<1> DEFINE c == Head(backlog)
<1>1. QueuesOK /\ RestOK
    BY TypeParts
<1>2. /\ UNCHANGED <<state, eagain, closed, unread, end, cpc, cready, sends, echo, faults>>
      /\ batch' = Tail(batch) /\ batch # <<>> /\ Head(batch) = Listener
      /\ backlog # <<>> /\ backlog' = Tail(backlog)
      /\ registered' = registered \cup {c} /\ maxevents' = maxevents + 1
      /\ ready' = IF Readable(c) THEN Append(ready, c) ELSE ready
    BY DEF Accept, clientVars
<1>3. /\ c \in Clients /\ cpc[c] # "new" /\ c \notin registered \cup closed
      /\ backlog' \in Seq(Clients) /\ IsInjective(backlog')
      /\ \A i \in DOMAIN backlog' : /\ backlog'[i] # c /\ cpc[backlog'[i]] # "new"
                                    /\ backlog'[i] \notin registered \cup closed
    BY <1>2, BacklogTail
<1> HIDE DEF c
<1>4. /\ batch' \in Seq(Clients \cup {Listener}) /\ IsInjective(batch')
      /\ \A i \in DOMAIN batch' : batch'[i] # Listener =>
             batch'[i] \in registered /\ Readable(batch'[i])
    BY <1>2, BatchTail
<1>5. ready' \in Seq(registered' \cup {Listener}) /\ IsInjective(ready')
  <2>1. /\ ready \in Seq(registered \cup {Listener}) /\ IsInjective(ready)
        /\ \A i \in DOMAIN ready : ready[i] \in registered \cup {Listener}
      BY <1>1, ElementOfSeq, LenProperties DEF QueuesOK
  <2>2. ready \in Seq(registered' \cup {Listener}) /\ c \in registered' \cup {Listener}
      BY <1>2, <2>1, Retyped
  <2>3. \A i \in DOMAIN ready : ready[i] # c
      BY <1>3, <2>1
  <2> QED
      BY <1>2, <2>1, <2>2, <2>3, InjectiveAppend
<1>6. TypeOK'
  <2>1. QueuesOK'
      BY <1>1, <1>2, <1>3, <1>4, <1>5 DEF QueuesOK
  <2>2. RestOK'
      BY <1>1, <1>2 DEF RestOK
  <2> QED
      BY <2>1, <2>2, TypeParts
<1>7. BatchLive'
    BY <1>2, <1>3, <1>4 DEF BatchLive, Readable
<1>8. BacklogFresh'
    BY <1>2, <1>3 DEF BacklogFresh
<1>9. Counted'
  <2>1. IsFiniteSet(registered) /\ IsFiniteSet(closed) /\ IsFiniteSet(registered \cup closed)
      BY FS_Union DEF Counted
  <2>2. /\ IsFiniteSet(registered') /\ Cardinality(registered') = Cardinality(registered) + 1
      BY <1>2, <1>3, <2>1, FS_AddElement
  <2>3. registered' \cup closed' = (registered \cup closed) \cup {c}
      BY <1>2
  <2>4. Cardinality(registered' \cup closed') = Cardinality(registered \cup closed) + 1
      BY <1>3, <2>1, <2>3, FS_AddElement
  <2>5. Cardinality(registered) \in Nat /\ Cardinality(registered \cup closed) \in Nat
      BY <2>1, FS_CardinalityType
  <2>6. EnoughEvents'
      BY <1>1, <1>2, <2>2, <2>4, <2>5 DEF Counted, EnoughEvents, RestOK
  <2> QED
      BY <1>2, <2>1, <2>2, <2>6 DEF Counted
<1>10. ClosedAfterEnd'
    BY <1>2 DEF ClosedAfterEnd
<1> QED
    BY <1>6, <1>7, <1>8, <1>9, <1>10

\* A recv of something and the send after it.
LEMMA EchoKeeps ==
    ASSUME IInv, NEW c \in Clients, Message(c), unread[c] > 0,
           unread' = [unread EXCEPT ![c] = @ - 1], SendBack(c),
           UNCHANGED <<maxevents, registered, closed>>
    PROVE  IInv'
<1> USE DEF IInv
<1>1. QueuesOK /\ RestOK
    BY TypeParts
<1>2. /\ UNCHANGED <<backlog, cpc, sends, faults>>
      /\ batch' = Tail(batch) /\ batch # <<>> /\ Head(batch) = c
    BY DEF Message
<1>3. /\ batch' \in Seq(Clients \cup {Listener}) /\ IsInjective(batch')
      /\ \A i \in DOMAIN batch' : /\ batch'[i] # c
                                  /\ batch'[i] # Listener =>
                                         batch'[i] \in registered /\ Readable(batch'[i])
    BY <1>2, BatchTail
\* One case of SendBack after the other.
<1>4. /\ state' \in {"running", "returned", "killed"} /\ eagain' \in BOOLEAN
      /\ end' \in [Clients -> {"no", "fin", "reset", "pipe", "seen"}]
      /\ echo' \in [Clients -> 0 .. SndMax] /\ cready' \in [Clients -> BOOLEAN]
      /\ ready' = ready \/ ready' = Announced(c)
      /\ \A x \in Clients : end[x] # "no" => end'[x] # "no"
  <2>1. CASE end[c] = "no" /\ echo[c] < SndMax
    <3>1. /\ echo' = [echo EXCEPT ![c] = @ + 1] /\ cready' = [cready EXCEPT ![c] = TRUE]
          /\ UNCHANGED <<state, eagain, end, ready>>
      <4>1. ~(echo[c] >= SndMax)
          BY <1>1, <2>1, SizeAssumption DEF RestOK
      <4> QED
          BY <2>1, <4>1, Zenon DEF SendBack
    <3>2. echo' \in [Clients -> 0 .. SndMax]
        BY <1>1, <2>1, <3>1 DEF RestOK
    <3> QED
        BY <1>1, <3>1, <3>2 DEF RestOK
  <2>2. CASE end[c] = "no" /\ echo[c] >= SndMax
    <3>1. eagain' = TRUE /\ UNCHANGED <<state, end, ready, echo, cready>>
        BY <1>1, <2>2 DEF SendBack, RestOK
    <3> QED
        BY <1>1, <3>1 DEF RestOK
  <2>3. CASE end[c] = "fin"
    <3>1. /\ end' = [end EXCEPT ![c] = "pipe"] /\ ready' = Announced(c)
          /\ UNCHANGED <<state, eagain, echo, cready>>
        BY <2>3 DEF SendBack
    <3> QED
        BY <1>1, <3>1 DEF RestOK
  <2>4. CASE end[c] = "reset"
    <3>1. /\ end' = [end EXCEPT ![c] = "seen"] /\ eagain' = FALSE
          /\ UNCHANGED <<state, ready, echo, cready>>
        BY <2>4 DEF SendBack
    <3> QED
        BY <1>1, <3>1 DEF RestOK
  <2>5. CASE end[c] \notin {"no", "fin", "reset"}
    <3>1. state' = "killed" /\ UNCHANGED <<eagain, end, ready, echo, cready>>
        BY <2>5 DEF SendBack
    <3> QED
        BY <1>1, <3>1 DEF RestOK
  <2>6. echo[c] < SndMax \/ echo[c] >= SndMax
      BY <1>1 DEF RestOK
  <2> QED
      BY <2>1, <2>2, <2>3, <2>4, <2>5, <2>6
<1>5. /\ unread' \in [Clients -> Nat]
      /\ \A x \in Clients : x # c => unread'[x] = unread[x]
    BY <1>1 DEF RestOK
<1>6. TypeOK'
  <2>1. ready' \in Seq(registered \cup {Listener}) /\ IsInjective(ready')
      BY <1>1, <1>4, AnnouncedIs DEF QueuesOK
  <2>2. QueuesOK'
      BY <1>1, <1>2, <1>3, <2>1 DEF QueuesOK
  <2>3. RestOK'
      BY <1>1, <1>2, <1>4, <1>5 DEF RestOK
  <2> QED
      BY <2>2, <2>3, TypeParts
<1>7. BatchLive'
    BY <1>1, <1>3, <1>4, <1>5 DEF BatchLive, Readable, QueuesOK
<1>8. BacklogFresh' /\ Counted'
    BY <1>2 DEF BacklogFresh, Counted, EnoughEvents
<1>9. ClosedAfterEnd'
    BY <1>1, <1>4 DEF ClosedAfterEnd, QueuesOK
<1> QED
    BY <1>6, <1>7, <1>8, <1>9

\* The end of a connection.  Its event is still true, so with nothing to read
\* the other end has gone; maxevents falls by one at most, and so does the
\* number of registered sockets.
LEMMA CloseKeeps ==
    ASSUME IInv, NEW c \in Clients, Message(c), unread[c] = 0, NEW is11,
           CloseConn(c, is11), UNCHANGED <<state, unread, end, echo, cready>>
    PROVE  IInv'
<1> USE DEF IInv
<1>1. QueuesOK /\ RestOK
    BY TypeParts
<1>2. /\ UNCHANGED <<backlog, cpc, sends, faults>>
      /\ batch' = Tail(batch) /\ batch # <<>> /\ Head(batch) = c
    BY DEF Message
<1>3. /\ batch' \in Seq(Clients \cup {Listener}) /\ IsInjective(batch')
      /\ \A i \in DOMAIN batch' : batch'[i] # Listener =>
             batch'[i] \in registered \ {c} /\ Readable(batch'[i])
    BY <1>2, BatchTail
<1>4. c \in registered /\ end[c] # "no"
  <2>1. c # Listener
      OBVIOUS
  <2>2. c \in registered /\ Readable(c)
      BY <1>2, <2>1, BatchTail
  <2> QED
      BY <1>1, <2>1, <2>2 DEF Readable
<1>5. /\ registered' = registered \ {c} /\ closed' = closed \cup {c}
      /\ ready' \in Kept(ready, {i \in DOMAIN ready : ready[i] # c})
      /\ eagain' \in BOOLEAN /\ maxevents' \in {maxevents, maxevents - 1}
    BY DEF CloseConn
<1>6. ready' \in Seq(registered' \cup {Listener}) /\ IsInjective(ready')
  <2>1. ready \in Seq(registered \cup {Listener}) /\ IsInjective(ready)
      BY <1>1 DEF QueuesOK
  <2>2. /\ ready' \in Seq(registered \cup {Listener}) /\ IsInjective(ready')
        /\ \A i \in DOMAIN ready' : \E j \in {k \in DOMAIN ready : ready[k] # c} :
               ready'[i] = ready[j]
      BY <1>5, <2>1, KeptIs
  <2>3. \A j \in DOMAIN ready : ready[j] \in registered \cup {Listener}
      BY <2>1, ElementOfSeq, LenProperties
  <2>4. \A i \in DOMAIN ready' : ready'[i] \in registered' \cup {Listener}
      BY <1>5, <2>2, <2>3
  <2> QED
      BY <2>2, <2>4, Retyped
<1>7. TypeOK'
  <2>1. QueuesOK'
      BY <1>1, <1>2, <1>3, <1>5, <1>6 DEF QueuesOK
  <2>2. maxevents' \in Int
      BY <1>1, <1>5 DEF RestOK
  <2>3. RestOK'
      BY <1>1, <1>2, <1>5, <2>2 DEF RestOK
  <2> QED
      BY <2>1, <2>3, TypeParts
<1>8. BatchLive'
    BY <1>3, <1>5 DEF BatchLive, Readable
<1>9. BacklogFresh'
    BY <1>2, <1>4, <1>5 DEF BacklogFresh
<1>10. Counted'
  <2>1. IsFiniteSet(registered) /\ IsFiniteSet(closed)
      BY DEF Counted
  <2>2. /\ IsFiniteSet(registered') /\ Cardinality(registered') = Cardinality(registered) - 1
      BY <1>4, <1>5, <2>1, FS_RemoveElement
  <2>3. IsFiniteSet(closed')
      BY <1>5, <2>1, FS_AddElement
  <2>4. registered' \cup closed' = registered \cup closed
      BY <1>4, <1>5
  <2>5. IsFiniteSet(registered \cup closed)
      BY <2>1, FS_Union
  <2>6. Cardinality(registered) \in Nat /\ Cardinality(registered \cup closed) \in Nat
      BY <2>1, <2>5, FS_CardinalityType
  <2>7. Cardinality(registered' \cup closed') = Cardinality(registered \cup closed)
      BY <2>4
  <2>8. EnoughEvents'
      BY <1>1, <1>5, <2>2, <2>6, <2>7 DEF Counted, EnoughEvents, RestOK
  <2> QED
      BY <2>2, <2>3, <2>8 DEF Counted
<1>11. ClosedAfterEnd'
    BY <1>4, <1>5 DEF ClosedAfterEnd
<1> QED
    BY <1>7, <1>8, <1>9, <1>10, <1>11

LEMMA MessageKeeps ==
    ASSUME IInv, NEW c \in Clients, Message(c)
    PROVE  IInv'
<1>1. CASE /\ unread[c] > 0 /\ unread' = [unread EXCEPT ![c] = @ - 1]
           /\ SendBack(c) /\ UNCHANGED <<maxevents, registered, closed>>
    BY <1>1, EchoKeeps
<1>2. CASE /\ unread[c] = 0
           /\ CloseConn(c, end[c] = "no" \/ (end[c] # "reset" /\ eagain))
           /\ UNCHANGED <<state, unread, end, echo, cready>>
    BY <1>2, CloseKeeps
<1> QED
    BY <1>1, <1>2 DEF Message, handle_message

-----------------------------------------------------------------------------
(* The theorems.                                                           *)

LEMMA IInvInit == Init => IInv
<1> SUFFICES ASSUME Init PROVE IInv
    OBVIOUS
<1>1. \A S : <<>> \in Seq(S) /\ IsInjective(<<>>) /\ DOMAIN <<>> = {}
    BY EmptySeq DEF IsInjective
<1>2. TypeOK
  <2>1. QueuesOK
      BY <1>1 DEF Init, QueuesOK
  <2>2. 0 \in 0 .. SndMax /\ 0 \in 0 .. MaxFaults /\ 0 \in 0 .. MaxSends /\ 0 \in Nat
      BY SizeAssumption, BoundAssumption
  <2>3. RestOK
    <3>1. state \in {"running", "returned", "killed"} /\ maxevents \in Int
          /\ faults \in 0 .. MaxFaults
        BY <2>2 DEF Init
    <3>2. eagain \in BOOLEAN /\ cready \in [Clients -> BOOLEAN]
        BY DEF Init
    <3>3. unread \in [Clients -> Nat] /\ echo \in [Clients -> 0 .. SndMax]
          /\ sends \in [Clients -> 0 .. MaxSends]
        BY <2>2 DEF Init
    <3>4. end \in [Clients -> {"no", "fin", "reset", "pipe", "seen"}]
          /\ cpc \in [Clients -> {"new", "wait", "recv", "lost", "exited"}]
        BY DEF Init
    <3> QED
        BY <3>1, <3>2, <3>3, <3>4 DEF RestOK
  <2> QED
      BY <2>1, <2>3, TypeParts
<1>3. BatchLive /\ BacklogFresh /\ ClosedAfterEnd
    BY <1>1 DEF Init, BatchLive, BacklogFresh, ClosedAfterEnd
<1>4. Counted
  <2>1. IsFiniteSet({}) /\ Cardinality({}) = 0 /\ {} \cup {} = {}
      BY FS_EmptySet
  <2>2. registered = {} /\ closed = {} /\ maxevents = 1 /\ registered \cup closed = {}
      BY DEF Init
  <2> QED
      BY <2>1, <2>2 DEF Counted, EnoughEvents
<1> QED
    BY <1>2, <1>3, <1>4 DEF IInv

LEMMA IInvNext == IInv /\ [Next]_vars => IInv'
<1> SUFFICES ASSUME IInv, [Next]_vars PROVE IInv'
    OBVIOUS
<1>1. CASE Loop
    BY <1>1, LoopKeeps
<1>2. CASE AcceptFails
    BY <1>2, AcceptFailsKeeps
<1>3. CASE Accept
    BY <1>3, AcceptKeeps
<1>4. ASSUME NEW c \in Clients, Message(c) PROVE IInv'
    BY <1>4, MessageKeeps
<1>5. ASSUME NEW c \in Clients, Connect(c) PROVE IInv'
    BY <1>5, ConnectKeeps
<1>6. ASSUME NEW c \in Clients, Timeout(c) PROVE IInv'
    BY <1>6, TimeoutKeeps
<1>7. ASSUME NEW c \in Clients, Kill(c) PROVE IInv'
    BY <1>7, KillKeeps
<1>8. ASSUME NEW c \in Clients, UserTimeout(c) PROVE IInv'
    BY <1>8, UserTimeoutKeeps
<1>9. ASSUME NEW c \in Clients, Client(c) PROVE IInv'
    BY <1>9, ReadKeeps
<1>10. CASE UNCHANGED vars
  <2>1. UNCHANGED <<state, batch, ready, maxevents, eagain, backlog, registered, closed,
                    unread, end, cpc, echo, cready, sends, faults>>
      BY <1>10 DEF vars, serverVars, clientVars
  <2>2. TypeOK'
      BY <2>1 DEF IInv, TypeOK
  <2>3. BatchLive' /\ BacklogFresh'
      BY <2>1 DEF IInv, BatchLive, BacklogFresh, Readable
  <2>4. Counted' /\ ClosedAfterEnd'
      BY <2>1 DEF IInv, Counted, EnoughEvents, ClosedAfterEnd
  <2> QED
      BY <2>2, <2>3, <2>4 DEF IInv
<1> QED
    BY <1>1, <1>2, <1>3, <1>4, <1>5, <1>6, <1>7, <1>8, <1>9, <1>10 DEF Next, Server

LEMMA Inductive == Spec => []IInv
BY IInvInit, IInvNext, PTL DEF Spec

\* Every variable has its type, no socket is twice in a list, and only
\* registered sockets are announced.
THEOREM TypeSafe == Spec => []TypeOK
<1>1. IInv => TypeOK
    BY DEF IInv
<1> QED
    BY <1>1, Inductive, PTL

\* epoll_wait never has less room than there are sockets to report, although
\* maxevents is counted by hand and errno may be left over from another call.
THEOREM RoomSafe == Spec => []EnoughEvents
<1>1. IInv => EnoughEvents
    BY DEF IInv, Counted
<1> QED
    BY <1>1, Inductive, PTL

\* The server closes no connection whose other end is still there.
THEOREM CloseSafe == Spec => []ClosedAfterEnd
<1>1. IInv => ClosedAfterEnd
    BY DEF IInv
<1> QED
    BY <1>1, Inductive, PTL

=============================================================================
