----------------------- MODULE PerfEchoServerProofs ------------------------
(***************************************************************************)
(* Proofs about PerfEchoServer: for any number of children, connections    *)
(* and units, and any limit of descriptors.                                *)
(***************************************************************************)
EXTENDS PerfEchoServer, SequenceTheorems, FiniteSetTheorems, TLAPS

-----------------------------------------------------------------------------
(* The inductive invariant.                                                *)

\* What TypeOK leaves open: sent and nread are functions.
FunctionsOK == sent \in [Conns -> Seq(Units)] /\ nread \in [Conns -> Nat]

\* Children are forked in order, what main has waited for has ended or was
\* stopped, and the single process never deletes its listener event.
ProcsAgree ==
    /\ \A p \in Procs : p >= forks => proc[p] = "none"
    /\ \A i \in 1 .. waited : proc[pids[i]] = "exited" \/ pids[i] \in changed
    /\ ~prefork => \A p \in Procs : proc[p] = "loop" => p \in armed

\* Some process can still accept.
Listening == Listened(proc, ParentDone)

\* A connection is in the listen queue once, and nobody has accepted it or
\* read from it; it is closed there only when nobody can accept it any more.
QueueAgrees ==
    /\ \A i \in DOMAIN backlog :
         \/ conn[backlog[i]] = "backlog"
         \/ conn[backlog[i]] = "closed" /\ ~Listening
    /\ \A i, j \in DOMAIN backlog : backlog[i] = backlog[j] => i = j
    /\ \A c \in Conns : conn[c] \in {"none", "backlog"} =>
         owner[c] = None /\ nread[c] = 0

\* A child has no connection before it listens, one when it has stopped
\* listening, and never two.
OwnersAgree ==
    prefork =>
        /\ \A c, d \in Conns : owner[c] = owner[d] /\ owner[c] # None => c = d
        /\ \A p \in Procs :
             /\ proc[p] \in {"none", "forked"} \/ p \in armed =>
                    \A c \in Conns : owner[c] # p
             /\ proc[p] = "exited" \/ (proc[p] = "loop" /\ p \notin armed) =>
                    \E c \in Conns : owner[c] = p

\* A body follows each header, and nothing else has one before it.
BodiesFollowHeaders(s) ==
    \A i \in 1 .. Len(s) : s[i] = "body" <=> i > 1 /\ s[i - 1] = "header"

\* The entry of _fd_recvHeader when n units of s were read.
EntryAfter(s, n) == IF n > 0 /\ s[n] = "header" THEN "body" ELSE "header"

\* errorcb was called on a write: reading goes on without an entry.
WriteFailed(c) == ~writing[c] /\ peer[c] = "dead"

\* Until a write fails, the entry is the one that belongs to what was read.
EntryAgrees(c) ==
    /\ BodiesFollowHeaders(sent[c])
    /\ conn[c] = "open" /\ reading[c] =>
         WriteFailed(c) \/ header[c] = EntryAfter(sent[c], nread[c])
    /\ header[c] = "lost" => peer[c] = "dead"
    /\ conn[c] = "open" /\ ~reading[c] => peer[c] # "in"

EntriesAgree == \A c \in Conns : EntryAgrees(c)

IInv ==
    /\ TypeOK /\ FunctionsOK
    /\ ProcsAgree
    /\ QueueAgrees
    /\ OwnersAgree
    /\ EntriesAgree
    /\ Isolation

-----------------------------------------------------------------------------
(* Types.                                                                  *)

LEMMA TypeInit == Init => TypeOK /\ FunctionsOK
<1> SUFFICES ASSUME Init PROVE TypeOK /\ FunctionsOK
  OBVIOUS
<1>1. processCnt \in Nat /\ 0 \in Procs
  BY CountAssumption DEF Procs
<1>2. /\ <<>> \in Seq(Procs) /\ <<>> \in Seq(Conns) /\ <<>> \in Seq(Units)
      /\ Len(<<>>) = 0 /\ Range(<<>>) = {}
  BY EmptySeq DEF Range
<1>3. reading \in [Conns -> BOOLEAN] /\ writing \in [Conns -> BOOLEAN]
      /\ out \in [Conns -> BOOLEAN] /\ prefork \in BOOLEAN
  BY DEF Init
<1>4. /\ forks \in 0 .. processCnt /\ waited \in 0 .. Len(pids)
      /\ pids \in Seq(Procs) /\ Len(pids) <= forks
      /\ \A p \in Range(pids) : proc[p] # "none"
      /\ proc \in [Procs -> {"none", "forked", "loop", "exited"}]
      /\ stopped \subseteq changed /\ changed \subseteq Stoppable
      /\ woken \subseteq armed /\ armed \subseteq {p \in Procs : proc[p] = "loop"}
  BY <1>1, <1>2 DEF Init
<1>5. /\ backlog \in Seq(Conns)
      /\ conn \in [Conns -> {"none", "backlog", "open", "closed"}]
      /\ owner \in [Conns -> Procs \cup {None}]
      /\ \A c \in Conns : conn[c] = "open" => owner[c] \in Procs
      /\ peer \in [Conns -> {"in", "left", "reset", "dead"}]
      /\ \A c \in Conns : sent[c] \in Seq(Units) /\ nread[c] \in 0 .. Len(sent[c])
      /\ header \in [Conns -> {"header", "body", "none", "lost"}]
      /\ FunctionsOK
  BY <1>1, <1>2 DEF Init, FunctionsOK
<1> QED
  BY <1>3, <1>4, <1>5 DEF TypeOK

\* Taking the first connection from the listen queue.
LEMMA QueueHead ==
    ASSUME TypeOK, backlog # <<>>
    PROVE  /\ 1 \in DOMAIN backlog /\ Head(backlog) = backlog[1]
           /\ Head(backlog) \in Conns
           /\ Tail(backlog) \in Seq(Conns)
           /\ \A i \in DOMAIN Tail(backlog) :
                i + 1 \in DOMAIN backlog /\ Tail(backlog)[i] = backlog[i + 1]
<1>1. backlog \in Seq(Conns)
  BY DEF TypeOK
<1> QED
  BY <1>1, HeadTailProperties, LenProperties, EmptySeq

LEMMA TypeNext == TypeOK /\ FunctionsOK /\ ProcsAgree /\ [Next]_vars => TypeOK' /\ FunctionsOK'
<1> SUFFICES ASSUME TypeOK, FunctionsOK, ProcsAgree, [Next]_vars
             PROVE  TypeOK' /\ FunctionsOK'
  OBVIOUS
<1>1. ASSUME NEW c \in Conns, Connect(c) PROVE TypeOK' /\ FunctionsOK'
  BY <1>1 DEF Connect, TypeOK, FunctionsOK, parentVars, procVars, peerVars, bevVars
<1>2. ASSUME NEW c \in Conns, NEW u \in Units, Send(c, u) PROVE TypeOK' /\ FunctionsOK'
  BY <1>2 DEF Send, TypeOK, FunctionsOK, parentVars, procVars, connVars, bevVars
<1>3. ASSUME NEW c \in Conns, NEW how \in {"left", "reset"}, Leave(c, how)
      PROVE  TypeOK' /\ FunctionsOK'
  BY <1>3 DEF Leave, TypeOK, FunctionsOK, parentVars, procVars, connVars, bevVars
<1>4. CASE Fork
  <2>1. /\ conn' \in [Conns -> {"none", "backlog", "open", "closed"}]
        /\ \A c \in Conns : conn'[c] = "open" => conn[c] = "open"
        /\ UNCHANGED <<prefork, waited, stopped, changed, armed, woken, backlog,
                       owner, peerVars, bevVars>>
    BY <1>4 DEF Fork, TypeOK
  <2>2. /\ forks \in Procs /\ processCnt \in Nat /\ forks' = forks + 1
        /\ proc[forks] = "none"
    BY <1>4, CountAssumption DEF Fork, TypeOK, Procs, ProcsAgree
  <2>3. CASE pids' = Append(pids, forks) /\ proc' = [proc EXCEPT ![forks] = "forked"]
    <3>1. /\ pids' \in Seq(Procs) /\ Len(pids') = Len(pids) + 1
          /\ Range(pids') = Range(pids) \cup {forks}
      <4>1. pids \in Seq(Procs)
        BY DEF TypeOK
      <4>2. DOMAIN pids' = 1 .. Len(pids) + 1 /\ DOMAIN pids = 1 .. Len(pids) /\ Len(pids) \in Nat
        BY <2>2, <2>3, <4>1, AppendProperties, LenProperties
      <4> QED
        BY <2>2, <2>3, <4>1, <4>2, AppendProperties DEF Range
    <3>2. /\ proc' \in [Procs -> {"none", "forked", "loop", "exited"}]
          /\ \A p \in Procs : p # forks => proc'[p] = proc[p]
          /\ proc'[forks] = "forked"
      BY <2>2, <2>3 DEF TypeOK
    <3>3. Range(pids) \subseteq Procs /\ forks \notin armed /\ armed \subseteq Procs
      BY <2>2, RangeOfSeq DEF TypeOK
    <3>4. /\ forks' \in 0 .. processCnt /\ waited' \in 0 .. Len(pids')
          /\ Len(pids') <= forks'
      BY <1>4, <2>1, <2>2, <3>1, LenProperties DEF Fork, TypeOK
    <3>5. /\ \A p \in Range(pids') : proc'[p] # "none"
          /\ armed' \subseteq {p \in Procs : proc'[p] = "loop"}
      BY <2>1, <3>1, <3>2, <3>3 DEF TypeOK
    <3> QED
      BY <2>1, <3>1, <3>2, <3>4, <3>5 DEF TypeOK, FunctionsOK, peerVars, bevVars
  <2>4. CASE UNCHANGED <<pids, proc>>
    BY <1>4, <2>1, <2>2, <2>4 DEF Fork, TypeOK, FunctionsOK, peerVars, bevVars
  <2> QED
    BY <1>4, <2>3, <2>4 DEF Fork
<1>5. CASE Waitpid
  BY <1>5 DEF Waitpid, WaitFor, TypeOK, FunctionsOK, connVars, procVars, peerVars, bevVars
<1>6. ASSUME NEW p \in Procs, Signal(p) \/ ChildStart(p) \/ Wake(p)
      PROVE  TypeOK' /\ FunctionsOK'
  <2>1. CASE Signal(p)
    BY <2>1 DEF Signal, Stop, Continue, TypeOK, FunctionsOK, parentVars, connVars,
       peerVars, bevVars
  <2>2. CASE ChildStart(p)
    <3>1. /\ proc' = [proc EXCEPT ![p] = "loop"] /\ armed' = armed \cup {p}
          /\ proc[p] = "forked"
          /\ UNCHANGED <<stopped, changed, woken, parentVars, connVars, peerVars, bevVars>>
      BY <2>2 DEF ChildStart
    <3>2. /\ proc' \in [Procs -> {"none", "forked", "loop", "exited"}]
          /\ proc'[p] = "loop" /\ \A q \in Procs : q # p => proc'[q] = proc[q]
          /\ armed \subseteq Procs /\ Range(pids) \subseteq Procs
      BY <3>1, RangeOfSeq DEF TypeOK
    <3>3. /\ \A q \in Range(pids') : proc'[q] # "none"
          /\ woken' \subseteq armed' /\ armed' \subseteq {q \in Procs : proc'[q] = "loop"}
      BY <3>1, <3>2 DEF TypeOK, parentVars
    <3> QED
      BY <3>1, <3>2, <3>3 DEF TypeOK, FunctionsOK, parentVars, connVars, peerVars, bevVars
  <2>3. CASE Wake(p)
    BY <2>3 DEF Wake, TypeOK, FunctionsOK, parentVars, connVars, peerVars, bevVars
  <2> QED
    BY <1>6, <2>1, <2>2, <2>3
<1>7. ASSUME NEW p \in Procs, do_accept(p) PROVE TypeOK' /\ FunctionsOK'
  <2>1. UNCHANGED <<proc, stopped, changed, parentVars, peerVars>> /\ woken' = woken \ {p}
        /\ p \in woken
    BY <1>7 DEF do_accept
  <2>2. CASE Unaccept(p)
    BY <2>1, <2>2 DEF Unaccept, TypeOK, FunctionsOK, parentVars, connVars, peerVars, bevVars
  <2>3. CASE backlog # <<>> /\ backlog' = Tail(backlog)
             /\ (Refuse(Head(backlog), p) \/ Serve(Head(backlog), p))
    <3> DEFINE c == Head(backlog)
    <3>1. c \in Conns /\ backlog' \in Seq(Conns)
      BY <2>3, QueueHead
    <3>2. CASE Refuse(c, p)
      BY <2>1, <3>1, <3>2 DEF Refuse, TypeOK, FunctionsOK, parentVars, peerVars, bevVars
    <3>3. CASE Serve(c, p)
      <4>1. armed' \subseteq armed /\ armed \ {p} \subseteq armed'
        BY <3>3 DEF Serve, DeleteListener
      <4>2. /\ conn' = [conn EXCEPT ![c] = "open"]
            /\ owner' = [owner EXCEPT ![c] = p]
            /\ header' = [header EXCEPT ![c] = "header"]
            /\ reading' = [reading EXCEPT ![c] = TRUE]
            /\ writing' = [writing EXCEPT ![c] = TRUE]
            /\ UNCHANGED <<nread, out>>
        BY <3>3 DEF Serve
      <4>3. reading' \in [Conns -> BOOLEAN] /\ writing' \in [Conns -> BOOLEAN]
        BY <4>2 DEF TypeOK
      <4> HIDE DEF c
      <4> QED
        BY <2>1, <3>1, <4>1, <4>2, <4>3 DEF TypeOK, FunctionsOK, parentVars, peerVars
    <3> QED
      BY <2>3, <3>2, <3>3
  <2> QED
    BY <1>7, <2>2, <2>3 DEF do_accept
<1>8. ASSUME NEW p \in Procs, LoopEnds(p) PROVE TypeOK' /\ FunctionsOK'
  BY <1>8 DEF LoopEnds, Exit, TypeOK, FunctionsOK,
     parentVars, connVars, peerVars, bevVars
<1>9. ASSUME NEW c \in Conns, readcb(c) PROVE TypeOK' /\ FunctionsOK'
  <2>1. /\ nread' = [nread EXCEPT ![c] = @ + 1] /\ nread[c] < Len(sent[c])
        /\ UNCHANGED <<reading, writing, parentVars, peerVars>>
        /\ conn[c] = "open"
    BY <1>9 DEF readcb, Served
  <2>2. /\ Stay \/ Exit(owner[c])
        /\ header' \in [Conns -> {"header", "body", "none", "lost"}]
    BY <1>9, SMTT(30) DEF readcb, TakeHeader, TakeBody, TypeOK
  <2>3. out' \in [Conns -> BOOLEAN]
    BY <1>9 DEF readcb, TakeBody, TypeOK
  <2>4. /\ nread' \in [Conns -> Nat] /\ \A d \in Conns : nread'[d] \in 0 .. Len(sent'[d])
    BY <2>1, LenProperties DEF TypeOK, FunctionsOK, peerVars
  <2>5. CASE Stay
    BY <2>1, <2>2, <2>3, <2>4, <2>5
       DEF Stay, TypeOK, FunctionsOK, parentVars, procVars, connVars, peerVars
  <2>6. CASE Exit(owner[c])
    <3>1. owner[c] \in Procs
      BY <2>1 DEF TypeOK
    <3> QED
      BY <2>1, <2>2, <2>3, <2>4, <2>6, <3>1
         DEF Exit, TypeOK, FunctionsOK, parentVars, peerVars
  <2> QED
    BY <2>2, <2>5, <2>6
<1>10. ASSUME NEW c \in Conns, ReadEnd(c) \/ Write(c) \/ WriteError(c)
       PROVE  TypeOK' /\ FunctionsOK'
  <2>1. UNCHANGED <<sent, nread, parentVars, procVars, connVars>>
    BY <1>10 DEF ReadEnd, Write, WriteError, errorcb, Stay
  <2>2. /\ peer' \in [Conns -> {"in", "left", "reset", "dead"}]
        /\ header' \in [Conns -> {"header", "body", "none", "lost"}]
    <3>1. /\ peer \in [Conns -> {"in", "left", "reset", "dead"}]
          /\ header \in [Conns -> {"header", "body", "none", "lost"}]
      BY DEF TypeOK
    <3>2. CASE Write(c)
      BY <3>1, <3>2 DEF Write
    <3>3. CASE errorcb(c)
      BY <3>1, <3>3 DEF errorcb
    <3> QED
      BY <1>10, <3>2, <3>3 DEF ReadEnd, WriteError
  <2>3. /\ reading' \in [Conns -> BOOLEAN] /\ writing' \in [Conns -> BOOLEAN]
        /\ out' \in [Conns -> BOOLEAN]
    BY <1>10 DEF ReadEnd, Write, WriteError, errorcb, TypeOK
  <2> QED
    BY <2>1, <2>2, <2>3 DEF TypeOK, FunctionsOK, parentVars, connVars, procVars
<1>11. CASE UNCHANGED vars
  BY <1>11 DEF TypeOK, FunctionsOK, vars, parentVars, procVars, connVars, peerVars, bevVars
<1> QED
  BY <1>1, <1>2, <1>3, <1>4, <1>5, <1>6, <1>7, <1>8, <1>9, <1>10, <1>11
     DEF Next, Parent, Listen, Client, Echo
-----------------------------------------------------------------------------
(* Processes.                                                              *)

LEMMA ProcsNext == TypeOK /\ ProcsAgree /\ [Next]_vars => ProcsAgree'
<1> SUFFICES ASSUME TypeOK, ProcsAgree, [Next]_vars PROVE ProcsAgree'
  OBVIOUS
<1>0. pids \in Seq(Procs) /\ DOMAIN pids = 1 .. Len(pids) /\ Len(pids) \in Nat
      /\ waited \in 0 .. Len(pids) /\ processCnt \in Nat
      /\ \A k \in 1 .. Len(pids) : pids[k] \in Procs /\ proc[pids[k]] # "none"
  BY LenProperties, CountAssumption DEF TypeOK, Range
<1>1. CASE UNCHANGED <<parentVars, procVars>>
  BY <1>1 DEF ProcsAgree, parentVars, procVars
<1>2. CASE Fork
  <2>1. /\ forks \in Procs /\ forks' = forks + 1 /\ proc[forks] = "none"
        /\ UNCHANGED <<prefork, waited, changed, armed>>
    BY <1>0, <1>2 DEF Fork, TypeOK, Procs, ProcsAgree
  <2>2. CASE pids' = Append(pids, forks) /\ proc' = [proc EXCEPT ![forks] = "forked"]
    <3>1. \A i \in 1 .. waited : pids'[i] = pids[i] /\ pids[i] # forks
      BY <1>0, <2>1, <2>2, AppendProperties
    <3>2. proc'[forks] = "forked" /\ \A p \in Procs : p # forks => proc'[p] = proc[p]
      BY <2>1, <2>2 DEF TypeOK
    <3>3. \A p \in Procs : p >= forks' => proc'[p] = "none"
      BY <1>0, <2>1, <3>2 DEF ProcsAgree, Procs, TypeOK
    <3> QED
      BY <1>0, <2>1, <3>1, <3>2, <3>3 DEF ProcsAgree
  <2>3. CASE UNCHANGED <<pids, proc>>
    BY <1>0, <2>1, <2>3 DEF ProcsAgree, Procs, TypeOK
  <2> QED
    BY <1>2, <2>2, <2>3 DEF Fork
<1>3. CASE Waitpid
  <2>1. /\ UNCHANGED <<prefork, forks, pids, proc, changed, armed>>
        /\ waited' = waited + 1
        /\ proc[pids[waited + 1]] = "exited" \/ pids[waited + 1] \in changed
    BY <1>3 DEF Waitpid, WaitFor, procVars
  <2>2. \A i \in 1 .. waited' : i \in 1 .. waited \/ i = waited + 1
    BY <1>0, <2>1
  <2> QED
    BY <2>1, <2>2 DEF ProcsAgree
<1>4. ASSUME NEW p \in Procs, Signal(p) \/ ChildStart(p) \/ Wake(p) PROVE ProcsAgree'
  BY <1>0, <1>4 DEF Signal, Stop, Continue, ChildStart, Wake, ProcsAgree, TypeOK, parentVars
<1>5. ASSUME NEW p \in Procs, do_accept(p) PROVE ProcsAgree'
  <2>1. UNCHANGED <<proc, changed, parentVars>> /\ (~prefork => armed' = armed)
    BY <1>5 DEF do_accept, Unaccept, Refuse, Serve, DeleteListener
  <2> QED
    BY <2>1 DEF ProcsAgree, parentVars
<1>6. ASSUME NEW p \in Procs, proc[p] = "loop", Exit(p), UNCHANGED parentVars PROVE ProcsAgree'
  BY <1>0, <1>6 DEF Exit, ProcsAgree, TypeOK, parentVars
<1>7. ASSUME NEW c \in Conns, Echo(c) PROVE ProcsAgree'
  <2>1. CASE readcb(c)
    <3>1. /\ owner[c] \in Procs /\ proc[owner[c]] = "loop"
          /\ UNCHANGED parentVars /\ (Stay \/ Exit(owner[c]))
      BY <2>1 DEF readcb, Served, Running, TakeHeader, TakeBody, TypeOK
    <3> QED
      BY <1>1, <1>6, <3>1 DEF Stay
  <2>2. CASE ReadEnd(c) \/ Write(c) \/ WriteError(c)
    BY <1>1, <2>2 DEF ReadEnd, Write, WriteError, errorcb, Stay
  <2> QED
    BY <1>7, <2>1, <2>2 DEF Echo
<1>8. ASSUME NEW c \in Conns, Client(c) PROVE ProcsAgree'
  BY <1>1, <1>8 DEF Client, Connect, Send, Leave
<1>9. ASSUME NEW p \in Procs, LoopEnds(p) PROVE ProcsAgree'
  BY <1>6, <1>9 DEF LoopEnds, Running
<1>10. CASE UNCHANGED vars
  BY <1>1, <1>10 DEF vars
<1> QED
  BY <1>2, <1>3, <1>4, <1>5, <1>7, <1>8, <1>9, <1>10 DEF Next, Parent, Listen

\* A listening socket that is closed stays closed.
LEMMA ListenedFalls ==
    ASSUME TypeOK, ProcsAgree, [Next]_vars, Listening'
    PROVE  Listening
<1> SUFFICES ASSUME ~Listening PROVE FALSE
  OBVIOUS
<1>0. ParentDone /\ \A p \in Procs : proc[p] \notin {"forked", "loop"}
  BY DEF Listening, Listened
<1>1. /\ UNCHANGED parentVars
      /\ \A p \in Procs : proc'[p] \notin {"forked", "loop"}
  <2>1. ~Fork /\ ~Waitpid
    BY <1>0, CountAssumption DEF Fork, Waitpid, ParentDone, TypeOK
  <2>2. ASSUME NEW p \in Procs, Signal(p) \/ Listen(p) PROVE UNCHANGED <<parentVars, proc>>
    BY <1>0, <2>2 DEF Signal, Stop, Continue, Listen, ChildStart, Wake, do_accept,
       LoopEnds, Running
  <2>3. ASSUME NEW c \in Conns, Client(c) \/ Echo(c) PROVE UNCHANGED <<parentVars, proc>>
    <3>1. ~Served(c)
      BY <1>0 DEF Served, Running, TypeOK
    <3> QED
      BY <2>3, <3>1 DEF Client, Connect, Send, Leave, Echo, readcb, ReadEnd, Write,
         WriteError, procVars
  <2> QED
    BY <1>0, <2>1, <2>2, <2>3 DEF Next, Parent, vars, procVars
<1> QED
  BY <1>0, <1>1 DEF Listening, Listened, ParentDone, parentVars
-----------------------------------------------------------------------------
(* The listen queue.                                                       *)

\* A step that closes what is in the queue when nobody listens any more.
LEMMA QueueCloses ==
    ASSUME TypeOK, QueueAgrees,
           Listening' => Listening,
           UNCHANGED <<backlog, owner>>,
           \A c \in Conns :
                \/ conn'[c] = conn[c]
                \/ conn[c] = "backlog" /\ conn'[c] = "closed" /\ ~Listening'
                \/ conn[c] = "open" /\ conn'[c] = "closed",
           \A c \in Conns : nread'[c] = nread[c] \/ conn[c] = "open"
    PROVE  QueueAgrees'
<1>1. \A i \in DOMAIN backlog : backlog[i] \in Conns
  BY LenProperties DEF TypeOK
<1>2. \A i \in DOMAIN backlog :
       \/ conn'[backlog[i]] = "backlog"
       \/ conn'[backlog[i]] = "closed" /\ ~Listening'
  BY <1>1 DEF QueueAgrees
<1> QED
  BY <1>2 DEF QueueAgrees

LEMMA QueueNext == TypeOK /\ FunctionsOK /\ ProcsAgree /\ QueueAgrees /\ [Next]_vars => QueueAgrees'
<1> SUFFICES ASSUME TypeOK, FunctionsOK, ProcsAgree, QueueAgrees, [Next]_vars PROVE QueueAgrees'
  OBVIOUS
<1>0. Listening' => Listening
  BY ListenedFalls
<1>1. CASE UNCHANGED <<connVars, nread>>
  BY <1>0, <1>1, QueueCloses DEF connVars
<1>2. ASSUME NEW c \in Conns, Connect(c) PROVE QueueAgrees'
  <2>1. /\ conn[c] = "none" /\ conn' = [conn EXCEPT ![c] = "backlog"]
        /\ backlog' = Append(backlog, c) /\ UNCHANGED <<owner, nread>>
    BY <1>2 DEF Connect, bevVars
  <2>2. /\ backlog \in Seq(Conns) /\ Len(backlog) \in Nat
        /\ DOMAIN backlog = 1 .. Len(backlog)
        /\ DOMAIN backlog' = 1 .. Len(backlog) + 1
        /\ backlog'[Len(backlog) + 1] = c
        /\ \A i \in DOMAIN backlog : backlog'[i] = backlog[i] /\ backlog[i] \in Conns
    BY <2>1, AppendProperties, LenProperties DEF TypeOK
  <2>3. \A i \in DOMAIN backlog : backlog[i] # c /\ conn'[backlog[i]] = conn[backlog[i]]
    BY <2>1, <2>2 DEF QueueAgrees, TypeOK
  <2>4. \A i \in DOMAIN backlog' : i \in DOMAIN backlog \/ i = Len(backlog) + 1
    BY <2>2
  <2>5. conn'[c] = "backlog" /\ \A d \in Conns : d # c => conn'[d] = conn[d]
    BY <2>1 DEF TypeOK
  <2>6. \A i \in DOMAIN backlog' :
         \/ conn'[backlog'[i]] = "backlog"
         \/ conn'[backlog'[i]] = "closed" /\ ~Listening'
    BY <1>0, <2>2, <2>3, <2>4, <2>5 DEF QueueAgrees
  <2>7. \A i, j \in DOMAIN backlog' : backlog'[i] = backlog'[j] => i = j
    BY <2>2, <2>3, <2>4 DEF QueueAgrees
  <2> QED
    BY <2>1, <2>5, <2>6, <2>7 DEF QueueAgrees
<1>3. ASSUME NEW c \in Conns, (\E u \in Units : Send(c, u))
                             \/ (\E how \in {"left", "reset"} : Leave(c, how))
      PROVE  QueueAgrees'
  BY <1>1, <1>3 DEF Send, Leave, bevVars
<1>4. CASE Fork
  <2>1. \A c \in Conns :
          \/ conn'[c] = conn[c]
          \/ conn[c] = "backlog" /\ conn'[c] = "closed" /\ ~Listening'
    <3>1. /\ conn' = [c \in Conns |->
                        IF conn[c] = "backlog"
                           /\ ~Listened(proc', forks' = processCnt /\ pids' = <<>>)
                        THEN "closed" ELSE conn[c]]
          /\ waited' = waited
      BY <1>4 DEF Fork
    <3>2. waited = 0 \/ pids' # <<>>
      BY <1>4, AppendProperties, EmptySeq DEF Fork, TypeOK
    <3>3. ~Listened(proc', forks' = processCnt /\ pids' = <<>>) => ~Listening'
      BY <3>1, <3>2, EmptySeq DEF Listening, Listened, ParentDone
    <3> QED
      BY <3>1, <3>3
  <2> QED
    BY <1>0, <1>4, <2>1, QueueCloses DEF Fork, bevVars
<1>5. CASE Waitpid
  <2>1. \A c \in Conns :
          \/ conn'[c] = conn[c]
          \/ conn[c] = "backlog" /\ conn'[c] = "closed" /\ ~Listening'
    BY <1>5 DEF Waitpid, WaitFor, Listening, Listened, ParentDone, procVars
  <2> QED
    BY <1>0, <1>5, <2>1, QueueCloses DEF Waitpid, WaitFor, bevVars
<1>6. ASSUME NEW p \in Procs, do_accept(p) PROVE QueueAgrees'
  <2>1. CASE Unaccept(p)
    BY <1>1, <2>1 DEF Unaccept, bevVars
  <2>2. CASE backlog # <<>> /\ backlog' = Tail(backlog)
             /\ (Refuse(Head(backlog), p) \/ Serve(Head(backlog), p))
    <3> DEFINE c == Head(backlog)
    <3>1. /\ c \in Conns /\ c = backlog[1] /\ 1 \in DOMAIN backlog
          /\ backlog \in Seq(Conns) /\ Tail(backlog) \in Seq(Conns)
          /\ \A i \in DOMAIN backlog' :
               i + 1 \in DOMAIN backlog /\ backlog'[i] = backlog[i + 1] /\ i \in Nat \ {0}
      BY <2>2, QueueHead, LenProperties DEF TypeOK
    <3>2. Listening
      BY <1>6 DEF do_accept, Running, Listening, Listened
    <3>3. conn[c] = "backlog" /\ \A i \in DOMAIN backlog : conn[backlog[i]] = "backlog"
      BY <3>1, <3>2 DEF QueueAgrees
    <3>4. /\ conn'[c] \in {"open", "closed"} /\ nread' = nread
          /\ \A d \in Conns : d # c => conn'[d] = conn[d] /\ owner'[d] = owner[d]
      BY <2>2, <3>1 DEF Refuse, Serve, TypeOK, bevVars
    <3>5. \A i \in DOMAIN backlog' : backlog'[i] \in Conns /\ backlog'[i] # c
      BY <3>1, LenProperties DEF QueueAgrees
    <3>6. \A i \in DOMAIN backlog' : conn'[backlog'[i]] = "backlog"
      BY <3>1, <3>3, <3>4, <3>5
    <3>7. \A i, j \in DOMAIN backlog' : backlog'[i] = backlog'[j] => i = j
      <4> SUFFICES ASSUME NEW i \in DOMAIN backlog', NEW j \in DOMAIN backlog',
                          backlog'[i] = backlog'[j]
                   PROVE  i = j
        OBVIOUS
      <4>1. i + 1 = j + 1
        BY <3>1 DEF QueueAgrees
      <4> QED
        BY <3>1, <4>1
    <3>8. \A d \in Conns : conn'[d] \in {"none", "backlog"} => owner'[d] = None /\ nread'[d] = 0
      BY <3>4 DEF QueueAgrees
    <3> QED
      BY <3>6, <3>7, <3>8 DEF QueueAgrees
  <2> QED
    BY <1>6, <2>1, <2>2 DEF do_accept
<1>7. ASSUME NEW p \in Procs, Exit(p), ParentDone' = ParentDone,
             \A c \in Conns : nread'[c] = nread[c] \/ conn[c] = "open"
      PROVE  QueueAgrees'
  <2>1. \A c \in Conns :
          \/ conn'[c] = conn[c]
          \/ conn[c] = "backlog" /\ conn'[c] = "closed" /\ ~Listening'
          \/ conn[c] = "open" /\ conn'[c] = "closed"
    BY <1>7 DEF Exit, OpenOf, Listening, Listened
  <2> QED
    BY <1>0, <1>7, <2>1, QueueCloses DEF Exit
<1>8. ASSUME NEW p \in Procs, Signal(p) \/ Listen(p) PROVE QueueAgrees'
  <2>1. CASE LoopEnds(p)
    BY <1>7, <2>1 DEF LoopEnds, bevVars, parentVars, ParentDone
  <2> QED
    BY <1>1, <1>6, <1>8, <2>1 DEF Signal, Stop, Continue, Listen, ChildStart, Wake, bevVars
<1>9. ASSUME NEW c \in Conns, Echo(c) PROVE QueueAgrees'
  <2>1. CASE readcb(c)
    <3>1. /\ conn[c] = "open" /\ owner[c] \in Procs
          /\ nread' = [nread EXCEPT ![c] = @ + 1] /\ UNCHANGED parentVars
          /\ Stay \/ Exit(owner[c])
      BY <2>1 DEF readcb, Served, TakeHeader, TakeBody, TypeOK
    <3>2. \A d \in Conns : nread'[d] = nread[d] \/ conn[d] = "open"
      BY <3>1 DEF FunctionsOK
    <3>3. CASE Stay
      BY <1>0, <3>2, <3>3, QueueCloses DEF Stay, connVars
    <3> QED
      BY <1>7, <3>1, <3>2, <3>3 DEF parentVars, ParentDone
  <2>2. CASE ReadEnd(c) \/ Write(c) \/ WriteError(c)
    BY <1>1, <2>2 DEF ReadEnd, Write, WriteError, errorcb, Stay
  <2> QED
    BY <1>9, <2>1, <2>2 DEF Echo
<1>10. CASE UNCHANGED vars
  BY <1>1, <1>10 DEF vars, bevVars
<1> QED
  BY <1>2, <1>3, <1>4, <1>5, <1>8, <1>9, <1>10 DEF Next, Parent, Client
-----------------------------------------------------------------------------
(* Who serves whom.                                                        *)

LEMMA OwnersNext ==
    TypeOK /\ ProcsAgree /\ QueueAgrees /\ OwnersAgree /\ [Next]_vars => OwnersAgree'
<1> SUFFICES ASSUME TypeOK, ProcsAgree, QueueAgrees, OwnersAgree, [Next]_vars, prefork'
             PROVE  OwnersAgree'
  BY DEF OwnersAgree
<1>0. prefork' = prefork
  BY DEF Next, Parent, Signal, Listen, Client, Echo, Fork, Waitpid, WaitFor, Stop, Continue,
     ChildStart, Wake, do_accept, LoopEnds, Connect, Send, Leave, readcb, ReadEnd, Write,
     WriteError, errorcb, vars, parentVars
<1>1. CASE UNCHANGED <<owner, proc, armed>>
  BY <1>0, <1>1 DEF OwnersAgree
<1>2. CASE Fork
  <2>1. /\ forks \in Procs /\ proc[forks] = "none" /\ UNCHANGED <<owner, armed>>
        /\ \/ proc' = [proc EXCEPT ![forks] = "forked"]
           \/ UNCHANGED proc
    BY <1>2, CountAssumption DEF Fork, TypeOK, Procs, ProcsAgree
  <2>2. CASE proc' = [proc EXCEPT ![forks] = "forked"]
    <3>1. proc'[forks] = "forked" /\ \A p \in Procs : p # forks => proc'[p] = proc[p]
      BY <2>1, <2>2 DEF TypeOK
    <3> QED
      BY <1>0, <2>1, <3>1 DEF OwnersAgree
  <2> QED
    BY <1>1, <2>1, <2>2
<1>3. ASSUME NEW p \in Procs, ChildStart(p) PROVE OwnersAgree'
  BY <1>0, <1>3 DEF ChildStart, OwnersAgree, TypeOK, connVars
<1>4. ASSUME NEW p \in Procs, do_accept(p) PROVE OwnersAgree'
  <2>1. UNCHANGED proc /\ proc[p] = "loop" /\ p \in armed
    BY <1>4 DEF do_accept, TypeOK
  <2>2. CASE Unaccept(p)
    BY <1>1, <2>1, <2>2 DEF Unaccept, connVars
  <2>3. CASE backlog # <<>> /\ Refuse(Head(backlog), p)
    BY <1>1, <2>1, <2>3 DEF Refuse
  <2>4. CASE backlog # <<>> /\ Serve(Head(backlog), p)
    <3> DEFINE c == Head(backlog)
    <3>1. c \in Conns /\ c = backlog[1] /\ 1 \in DOMAIN backlog
      BY <2>4, QueueHead
    <3>2. conn[c] = "backlog"
      BY <1>4, <3>1 DEF do_accept, Running, QueueAgrees, Listening, Listened
    <3>3. owner[c] = None /\ p # None
      BY <3>1, <3>2, NoneAssumption DEF QueueAgrees, Procs
    <3>4. /\ armed' = armed \ {p}
          /\ owner'[c] = p /\ \A d \in Conns : d # c => owner'[d] = owner[d]
      BY <1>0, <2>4, <3>1 DEF Serve, DeleteListener, TypeOK
    <3>5. \A d \in Conns : owner[d] # p
      BY <1>0, <2>1 DEF OwnersAgree
    <3>6. \A d, e \in Conns : owner'[d] = owner'[e] /\ owner'[d] # None => d = e
      BY <1>0, <3>1, <3>3, <3>4, <3>5 DEF OwnersAgree
    <3>7. ASSUME NEW q \in Procs
          PROVE  /\ proc'[q] \in {"none", "forked"} \/ q \in armed' =>
                        \A d \in Conns : owner'[d] # q
                 /\ proc'[q] = "exited" \/ (proc'[q] = "loop" /\ q \notin armed') =>
                        \E d \in Conns : owner'[d] = q
      <4>1. CASE q = p
        BY <2>1, <3>1, <3>4, <4>1
      <4>2. CASE q # p
        <5>1. (\E d \in Conns : owner[d] = q) => \E d \in Conns : owner'[d] = q
          <6> SUFFICES ASSUME NEW d \in Conns, owner[d] = q PROVE owner'[d] = q
            OBVIOUS
          <6>1. q # None
            BY NoneAssumption DEF Procs
          <6> QED
            BY <3>3, <3>4, <6>1
        <5>2. (\A d \in Conns : owner[d] # q) => \A d \in Conns : owner'[d] # q
          BY <3>1, <3>4, <4>2
        <5> QED
          BY <1>0, <2>1, <3>4, <4>2, <5>1, <5>2 DEF OwnersAgree
      <4> QED
        BY <4>1, <4>2
    <3> QED
      BY <3>6, <3>7 DEF OwnersAgree
  <2> QED
    BY <1>4, <2>2, <2>3, <2>4 DEF do_accept
<1>5. ASSUME NEW p \in Procs, Exit(p), NEW c \in Conns, owner[c] = p, proc[p] = "loop"
      PROVE  OwnersAgree'
  BY <1>0, <1>5 DEF Exit, OwnersAgree, TypeOK
<1>6. ASSUME NEW p \in Procs, Signal(p) \/ Listen(p) PROVE OwnersAgree'
  <2>1. CASE LoopEnds(p)
    <3>1. proc[p] = "loop" /\ p \notin armed /\ Exit(p)
      BY <2>1 DEF LoopEnds, Running
    <3>2. PICK c \in Conns : owner[c] = p
      BY <1>0, <3>1 DEF OwnersAgree
    <3> QED
      BY <1>5, <3>1, <3>2
  <2> QED
    BY <1>1, <1>3, <1>4, <1>6, <2>1 DEF Signal, Stop, Continue, Listen, Wake, connVars
<1>7. ASSUME NEW c \in Conns, Echo(c) PROVE OwnersAgree'
  <2>1. CASE readcb(c)
    <3>1. /\ owner[c] \in Procs /\ proc[owner[c]] = "loop"
          /\ Stay \/ Exit(owner[c])
      BY <2>1 DEF readcb, Served, Running, TakeHeader, TakeBody, TypeOK
    <3> QED
      BY <1>1, <1>5, <3>1 DEF Stay, procVars, connVars
  <2> QED
    BY <1>1, <1>7, <2>1 DEF Echo, ReadEnd, Write, WriteError, errorcb, Stay, procVars, connVars
<1>8. ASSUME NEW c \in Conns, Client(c) PROVE OwnersAgree'
  BY <1>1, <1>8 DEF Client, Connect, Send, Leave, procVars, connVars
<1>9. CASE Waitpid \/ UNCHANGED vars
  BY <1>1, <1>9 DEF Waitpid, WaitFor, vars, procVars, connVars
<1> QED
  BY <1>2, <1>6, <1>7, <1>8, <1>9 DEF Next, Parent
-----------------------------------------------------------------------------
(* The entries of _fd_recvHeader.                                          *)

\* A step that does not touch c, or closes it.
LEMMA EntryKept ==
    ASSUME EntriesAgree, NEW c \in Conns,
           /\ sent'[c] = sent[c] /\ nread'[c] = nread[c] /\ header'[c] = header[c]
           /\ reading'[c] = reading[c] /\ writing'[c] = writing[c]
           /\ peer'[c] = peer[c],
           conn'[c] = conn[c] \/ conn'[c] # "open"
    PROVE  EntryAgrees(c)'
BY DEF EntriesAgree, EntryAgrees, WriteFailed, EntryAfter, BodiesFollowHeaders

\* One more unit is read: the entry says which one it is.
LEMMA UnitIsExpected ==
    ASSUME NEW s \in Seq(Units), NEW n \in Nat, n < Len(s), BodiesFollowHeaders(s)
    PROVE  /\ s[n + 1] \in Units
           /\ s[n + 1] = "body" <=> EntryAfter(s, n) = "body"
           /\ EntryAfter(s, n + 1) = IF s[n + 1] = "header" THEN "body" ELSE "header"
<1>1. Len(s) \in Nat /\ n + 1 \in 1 .. Len(s) /\ s[n + 1] \in Units
  BY LenProperties
<1>2. s[n + 1] = "body" <=> n + 1 > 1 /\ s[n] = "header"
  BY <1>1 DEF BodiesFollowHeaders
<1> QED
  BY <1>1, <1>2 DEF EntryAfter

LEMMA EntriesNext ==
    TypeOK /\ FunctionsOK /\ ProcsAgree /\ QueueAgrees /\ EntriesAgree /\ [Next]_vars
        => EntriesAgree'
<1> SUFFICES ASSUME TypeOK, FunctionsOK, ProcsAgree, QueueAgrees, EntriesAgree, [Next]_vars
             PROVE  EntriesAgree'
  OBVIOUS
<1>1. ASSUME UNCHANGED <<peerVars, bevVars>>,
             \A c \in Conns : conn'[c] = conn[c] \/ conn'[c] # "open"
      PROVE  EntriesAgree'
  BY <1>1, EntryKept DEF EntriesAgree, peerVars, bevVars
<1>2. ASSUME NEW c \in Conns, Connect(c) PROVE EntriesAgree'
  BY <1>1, <1>2 DEF Connect, TypeOK
<1>3. ASSUME NEW c \in Conns, NEW u \in Units, Send(c, u) PROVE EntriesAgree'
  <2>1. /\ sent'[c] = Append(sent[c], u) /\ \A d \in Conns : d # c => sent'[d] = sent[d]
        /\ UNCHANGED <<peer, connVars, bevVars>>
        /\ u = "body" <=> ~AtHeader(sent[c])
    BY <1>3 DEF Send, FunctionsOK
  <2>2. /\ sent[c] \in Seq(Units) /\ Len(sent[c]) \in Nat
        /\ Len(sent'[c]) = Len(sent[c]) + 1 /\ sent'[c][Len(sent[c]) + 1] = u
        /\ \A i \in 1 .. Len(sent[c]) : sent'[c][i] = sent[c][i]
        /\ nread[c] \in 0 .. Len(sent[c])
    BY <2>1, AppendProperties, LenProperties DEF TypeOK
  <2>3. BodiesFollowHeaders(sent'[c])
    <3> SUFFICES ASSUME NEW i \in 1 .. Len(sent[c]) + 1
                 PROVE  sent'[c][i] = "body" <=> i > 1 /\ sent'[c][i - 1] = "header"
      BY <2>2 DEF BodiesFollowHeaders
    <3>1. CASE i \in 1 .. Len(sent[c])
      <4>1. sent[c][i] = "body" <=> i > 1 /\ sent[c][i - 1] = "header"
        BY <3>1 DEF EntriesAgree, EntryAgrees, BodiesFollowHeaders
      <4>2. i > 1 => sent'[c][i - 1] = sent[c][i - 1]
        BY <2>2, <3>1, SMTT(30)
      <4> QED
        BY <2>2, <3>1, <4>1, <4>2
    <3>2. CASE i = Len(sent[c]) + 1
      <4>1. i > 1 <=> sent[c] # <<>>
        BY <2>2, <3>2, EmptySeq
      <4>2. i > 1 => sent'[c][i - 1] = sent[c][Len(sent[c])]
        BY <2>2, <3>2
      <4> QED
        BY <2>1, <2>2, <3>2, <4>1, <4>2 DEF AtHeader
    <3> QED
      BY <2>2, <3>1, <3>2
  <2>4. EntryAfter(sent'[c], nread[c]) = EntryAfter(sent[c], nread[c])
    BY <2>2 DEF EntryAfter
  <2>5. EntryAgrees(c)'
    BY <2>1, <2>3, <2>4 DEF EntriesAgree, EntryAgrees, WriteFailed, connVars, bevVars
  <2> QED
    BY <2>1, <2>5, EntryKept DEF EntriesAgree, connVars, bevVars
<1>4. ASSUME NEW c \in Conns, NEW how \in {"left", "reset"}, Leave(c, how) PROVE EntriesAgree'
  <2>1. /\ peer[c] = "in" /\ peer'[c] = how /\ \A d \in Conns : d # c => peer'[d] = peer[d]
        /\ UNCHANGED <<sent, connVars, bevVars>>
    BY <1>4 DEF Leave, TypeOK
  <2>2. EntryAgrees(c)'
    BY <2>1 DEF EntriesAgree, EntryAgrees, WriteFailed, EntryAfter, BodiesFollowHeaders, connVars, bevVars
  <2> QED
    BY <2>1, <2>2, EntryKept DEF EntriesAgree, connVars, bevVars
<1>5. CASE Fork \/ Waitpid
  <2>1. \A c \in Conns : conn'[c] = conn[c] \/ conn'[c] # "open"
    BY <1>5 DEF Fork, Waitpid, WaitFor
  <2> QED
    BY <1>1, <1>5, <2>1 DEF Fork, Waitpid, WaitFor
<1>6. ASSUME NEW p \in Procs, do_accept(p) PROVE EntriesAgree'
  <2>1. UNCHANGED peerVars
    BY <1>6 DEF do_accept
  <2>2. CASE Unaccept(p)
    BY <1>1, <2>1, <2>2 DEF Unaccept, connVars
  <2>3. CASE backlog # <<>> /\ Refuse(Head(backlog), p)
    <3>1. \A c \in Conns : conn'[c] = conn[c] \/ conn'[c] # "open"
      BY <2>3 DEF Refuse, TypeOK
    <3> QED
      BY <1>1, <2>1, <2>3, <3>1 DEF Refuse
  <2>4. CASE backlog # <<>> /\ Serve(Head(backlog), p)
    <3>1. PICK c \in Conns : c = Head(backlog) /\ c = backlog[1] /\ 1 \in DOMAIN backlog
      BY <2>4, QueueHead
    <3>2. conn[c] = "backlog"
      BY <1>6, <3>1 DEF do_accept, Running, QueueAgrees, Listening, Listened
    <3>3. nread[c] = 0
      BY <3>1, <3>2 DEF QueueAgrees
    <3>4. /\ header'[c] = "header" /\ reading'[c] /\ UNCHANGED nread
          /\ \A d \in Conns : d # c => /\ conn'[d] = conn[d] /\ header'[d] = header[d]
                                      /\ reading'[d] = reading[d] /\ writing'[d] = writing[d]
      BY <2>4, <3>1 DEF Serve, TypeOK
    <3>5. EntryAgrees(c)'
      BY <2>1, <3>1, <3>3, <3>4
         DEF EntriesAgree, EntryAgrees, EntryAfter, BodiesFollowHeaders, peerVars
    <3> QED
      BY <2>1, <3>4, <3>5, EntryKept DEF EntriesAgree, peerVars
  <2> QED
    BY <1>6, <2>2, <2>3, <2>4 DEF do_accept
<1>7. ASSUME NEW p \in Procs, LoopEnds(p) PROVE EntriesAgree'
  <2>1. \A c \in Conns : conn'[c] = conn[c] \/ conn'[c] # "open"
    BY <1>7 DEF LoopEnds, Exit
  <2> QED
    BY <1>1, <1>7, <2>1 DEF LoopEnds
<1>8. ASSUME NEW p \in Procs, Signal(p) \/ ChildStart(p) \/ Wake(p) PROVE EntriesAgree'
  BY <1>1, <1>8 DEF Signal, Stop, Continue, ChildStart, Wake, connVars
<1>9. ASSUME NEW c \in Conns, readcb(c) PROVE EntriesAgree'
  <2> DEFINE s == sent[c]
             n == nread[c]
  <2>1. /\ conn[c] = "open" /\ reading[c] /\ n < Len(s)
        /\ nread'[c] = n + 1 /\ \A d \in Conns : d # c => nread'[d] = nread[d]
        /\ UNCHANGED <<reading, writing, peerVars>>
    BY <1>9 DEF readcb, Served, FunctionsOK
  <2>2. \A d \in Conns : conn'[d] = conn[d] \/ conn'[d] # "open"
    BY <1>9 DEF readcb, TakeHeader, TakeBody, Stay, Exit, connVars
  <2>3. \A d \in Conns : d # c => header'[d] = header[d]
    BY <1>9 DEF readcb, TakeHeader, TakeBody, TypeOK
  <2>4. /\ s[n + 1] \in Units
        /\ s[n + 1] = "body" <=> EntryAfter(s, n) = "body"
        /\ EntryAfter(s, n + 1) = IF s[n + 1] = "header" THEN "body" ELSE "header"
        /\ BodiesFollowHeaders(s)
    BY <2>1, UnitIsExpected DEF FunctionsOK, EntriesAgree, EntryAgrees
  <2>5. CASE ~WriteFailed(c)
    <3>1. header[c] = EntryAfter(s, n)
      BY <2>1, <2>5 DEF EntriesAgree, EntryAgrees
    <3>2. CASE s[n + 1] = "body"
      <4>1. header'[c] = "header"
        BY <1>9, <2>4, <3>1, <3>2 DEF readcb, TakeBody, TypeOK
      <4> QED
        BY <2>1, <2>2, <2>3, <2>4, <3>2, <4>1, EntryKept
           DEF EntriesAgree, EntryAgrees, peerVars
    <3>3. CASE s[n + 1] = "header"
      <4>1. header'[c] = "body"
        BY <1>9, <2>4, <3>1, <3>3 DEF readcb, TakeHeader, TypeOK, EntryAfter
      <4> QED
        BY <2>1, <2>2, <2>3, <2>4, <3>3, <4>1, EntryKept
           DEF EntriesAgree, EntryAgrees, peerVars
    <3>4. CASE s[n + 1] = "big"
      <4>1. header'[c] = "header"
        BY <1>9, <2>4, <3>1, <3>4 DEF readcb, TakeHeader, TypeOK, EntryAfter
      <4> QED
        BY <2>1, <2>2, <2>3, <2>4, <3>4, <4>1, EntryKept
           DEF EntriesAgree, EntryAgrees, peerVars
    <3> QED
      BY <2>4, <3>2, <3>3, <3>4 DEF Units
  <2>6. CASE WriteFailed(c)
    <3>1. peer'[c] = "dead" /\ ~writing'[c] /\ reading'[c]
      BY <2>1, <2>6 DEF WriteFailed, peerVars
    <3> QED
      BY <2>1, <2>2, <2>3, <2>4, <3>1, EntryKept
         DEF EntriesAgree, EntryAgrees, WriteFailed, peerVars
  <2> QED
    BY <2>5, <2>6
<1>10. ASSUME NEW c \in Conns, ReadEnd(c) \/ Write(c) \/ WriteError(c) PROVE EntriesAgree'
  <2>1. \A d \in Conns : d # c =>
          /\ header'[d] = header[d] /\ peer'[d] = peer[d]
          /\ reading'[d] = reading[d] /\ writing'[d] = writing[d]
    BY <1>10 DEF ReadEnd, Write, WriteError, errorcb, TypeOK
  <2>2. UNCHANGED <<sent, nread, connVars>>
    BY <1>10 DEF ReadEnd, Write, WriteError, errorcb, Stay, connVars
  <2>3. EntryAgrees(c)'
    <3>1. CASE ReadEnd(c)
      BY <2>2, <3>1 DEF ReadEnd, errorcb, EntriesAgree, EntryAgrees, BodiesFollowHeaders,
         connVars, TypeOK
    <3>2. CASE Write(c)
      BY <2>2, <3>2 DEF Write, EntriesAgree, EntryAgrees, BodiesFollowHeaders, WriteFailed,
         EntryAfter, connVars, TypeOK
    <3>3. CASE WriteError(c)
      BY <2>2, <3>3 DEF WriteError, errorcb, EntriesAgree, EntryAgrees, BodiesFollowHeaders,
         WriteFailed, connVars, TypeOK
    <3> QED
      BY <1>10, <3>1, <3>2, <3>3
  <2> QED
    BY <2>1, <2>2, <2>3, EntryKept DEF EntriesAgree, connVars
<1>11. CASE UNCHANGED vars
  BY <1>1, <1>11 DEF vars, connVars
<1> QED
  BY <1>2, <1>3, <1>4, <1>5, <1>6, <1>7, <1>8, <1>9, <1>10, <1>11
     DEF Next, Parent, Listen, Client, Echo
-----------------------------------------------------------------------------
(* Isolation.                                                              *)

\* A connection that was closed under its client stays explained.
LEMMA StaysProvoked ==
    ASSUME TypeOK, EntriesAgree, QueueAgrees, Isolation, NEW c \in Conns,
           conn[c] = "closed", conn'[c] = "closed", UNCHANGED prefork,
           \A d \in Conns : conn[d] \in {"open", "closed"} => owner'[d] = owner[d],
           \A d \in Conns : peer[d] # "in" => peer'[d] # "in",
           \A d \in Conns : Provokes(d) => Provokes(d)'
    PROVE  conn'[c] = "closed" /\ owner'[c] # None /\ peer'[c] = "in" =>
            \E d \in Conns : /\ owner'[d] = owner'[c] /\ Provokes(d)'
                             /\ prefork' => d = c
<1> SUFFICES ASSUME owner'[c] # None, peer'[c] = "in"
             PROVE  \E d \in Conns : /\ owner'[d] = owner'[c] /\ Provokes(d)'
                                     /\ prefork' => d = c
  OBVIOUS
<1>1. owner[c] = owner'[c] /\ peer[c] = "in"
  BY DEF TypeOK
<1>2. PICK d \in Conns : owner[d] = owner[c] /\ Provokes(d) /\ (prefork => d = c)
  BY <1>1 DEF Isolation
<1>3. conn[d] \in {"open", "closed"}
  BY <1>1, <1>2 DEF QueueAgrees, TypeOK
<1> QED
  BY <1>1, <1>2, <1>3

LEMMA IsolationNext == IInv /\ [Next]_vars => Isolation'
<1> SUFFICES ASSUME IInv, [Next]_vars PROVE Isolation'
  OBVIOUS
<1>0. /\ TypeOK /\ FunctionsOK /\ ProcsAgree /\ QueueAgrees /\ OwnersAgree
      /\ EntriesAgree /\ Isolation
  BY DEF IInv
<1>1. ASSUME UNCHANGED <<prefork, owner, peer, sent, header>>,
             \A c \in Conns : conn'[c] = "closed" =>
                conn[c] = "closed" \/ owner[c] = None \/ peer[c] # "in"
      PROVE  Isolation'
  BY <1>0, <1>1 DEF Isolation, Provokes
<1>2. ASSUME NEW c \in Conns, Connect(c) PROVE Isolation'
  <2>1. UNCHANGED <<prefork, owner, peer, sent, header>>
    BY <1>2 DEF Connect, parentVars, peerVars, bevVars
  <2>2. \A d \in Conns : conn'[d] = "closed" => conn[d] = "closed"
    BY <1>0, <1>2 DEF Connect, TypeOK
  <2> QED
    BY <1>1, <2>1, <2>2
<1>3. ASSUME UNCHANGED <<prefork, owner, conn>>,
             \A d \in Conns : peer[d] # "in" => peer'[d] # "in",
             \A d \in Conns : Provokes(d) => Provokes(d)'
      PROVE  Isolation'
  <2>1. ASSUME NEW c \in Conns
        PROVE  conn'[c] = "closed" /\ owner'[c] # None /\ peer'[c] = "in" =>
                \E d \in Conns : /\ owner'[d] = owner'[c] /\ Provokes(d)'
                                 /\ prefork' => d = c
    BY <1>0, <1>3, <2>1, StaysProvoked
  <2> QED
    BY <2>1 DEF Isolation
<1>4. ASSUME NEW c \in Conns, NEW u \in Units, Send(c, u) PROVE Isolation'
  <2>1. UNCHANGED <<prefork, owner, conn, peer, header>>
    BY <1>4 DEF Send, parentVars, connVars, bevVars
  <2>2. \A d \in Conns : "big" \in Range(sent[d]) => "big" \in Range(sent'[d])
    <3>1. /\ sent[c] \in Seq(Units) /\ sent'[c] = Append(sent[c], u)
          /\ \A d \in Conns : d # c => sent'[d] = sent[d]
      BY <1>0, <1>4 DEF Send, FunctionsOK
    <3>2. /\ DOMAIN sent[c] = 1 .. Len(sent[c]) /\ Len(sent[c]) \in Nat
          /\ DOMAIN sent'[c] = 1 .. Len(sent[c]) + 1
          /\ \A i \in 1 .. Len(sent[c]) : sent'[c][i] = sent[c][i]
      BY <3>1, AppendProperties, LenProperties
    <3>3. Range(sent[c]) \subseteq Range(sent'[c])
      BY <3>2 DEF Range
    <3> QED
      BY <3>1, <3>3
  <2> QED
    BY <1>3, <2>1, <2>2 DEF Provokes
<1>5. ASSUME NEW c \in Conns, NEW how \in {"left", "reset"}, Leave(c, how) PROVE Isolation'
  <2>1. /\ UNCHANGED <<prefork, owner, conn, sent, header>>
        /\ \A d \in Conns : peer[d] # "in" => peer'[d] # "in"
    BY <1>0, <1>5 DEF Leave, parentVars, connVars, bevVars, TypeOK
  <2> QED
    BY <1>3, <2>1 DEF Provokes
<1>6. CASE Fork \/ Waitpid
  <2>1. /\ UNCHANGED <<prefork, owner, peer, sent, header>>
        /\ \A c \in Conns : conn'[c] = "closed" => conn[c] \in {"closed", "backlog"}
    BY <1>0, <1>6 DEF Fork, Waitpid, WaitFor, peerVars, bevVars, TypeOK
  <2> QED
    BY <1>0, <1>1, <2>1 DEF QueueAgrees
<1>7. ASSUME NEW p \in Procs, do_accept(p) PROVE Isolation'
  <2>1. UNCHANGED <<peer, sent, prefork>>
    BY <1>7 DEF do_accept, peerVars, parentVars
  <2>2. CASE Unaccept(p)
    BY <1>1, <2>1, <2>2 DEF Unaccept, connVars, bevVars
  <2>3. CASE backlog # <<>> /\ (Refuse(Head(backlog), p) \/ Serve(Head(backlog), p))
    <3>1. PICK c \in Conns : c = Head(backlog) /\ c = backlog[1] /\ 1 \in DOMAIN backlog
      BY <1>0, <2>3, QueueHead
    <3>2. conn[c] = "backlog"
      BY <1>0, <1>7, <3>1 DEF do_accept, Running, QueueAgrees, Listening, Listened
    <3>3. owner[c] = None
      BY <1>0, <3>2 DEF QueueAgrees
    <3>4. CASE Refuse(c, p)
      <4>1. \A d \in Conns : conn'[d] = "closed" => conn[d] = "closed" \/ owner[d] = None
        BY <1>0, <3>3, <3>4 DEF Refuse, TypeOK
      <4> QED
        BY <1>1, <2>1, <3>4, <4>1 DEF Refuse, bevVars
    <3>5. CASE Serve(c, p)
      <4>1. /\ conn'[c] = "open"
            /\ \A d \in Conns : d # c => conn'[d] = conn[d] /\ owner'[d] = owner[d]
                                         /\ header'[d] = header[d]
        BY <1>0, <3>5 DEF Serve, TypeOK
      <4>2. ASSUME NEW d \in Conns
            PROVE  conn'[d] = "closed" /\ owner'[d] # None /\ peer'[d] = "in" =>
                    \E e \in Conns : /\ owner'[e] = owner'[d] /\ Provokes(e)'
                                     /\ prefork' => e = d
        <5> SUFFICES ASSUME conn'[d] = "closed", owner'[d] # None, peer'[d] = "in"
                     PROVE  \E e \in Conns : /\ owner'[e] = owner'[d] /\ Provokes(e)'
                                             /\ prefork' => e = d
          OBVIOUS
        <5>1. d # c /\ conn[d] = "closed" /\ owner[d] = owner'[d] /\ peer[d] = "in"
          BY <2>1, <4>1
        <5>2. PICK e \in Conns : owner[e] = owner[d] /\ Provokes(e) /\ (prefork => e = d)
          BY <1>0, <5>1 DEF Isolation
        <5>3. e # c
          BY <3>3, <5>1, <5>2
        <5>4. owner'[e] = owner[e] /\ Provokes(e)'
          BY <2>1, <4>1, <5>2, <5>3 DEF Provokes
        <5> QED
          BY <2>1, <5>1, <5>2, <5>4
      <4> QED
        BY <4>2 DEF Isolation
    <3> QED
      BY <2>3, <3>1, <3>4, <3>5
  <2> QED
    BY <1>7, <2>2, <2>3 DEF do_accept
<1>8. ASSUME NEW p \in Procs, LoopEnds(p) PROVE Isolation'
  <2>1. /\ proc[p] = "loop" /\ p \notin armed /\ Exit(p)
        /\ \A c \in OpenOf(p) : ~reading[c]
        /\ UNCHANGED <<prefork, owner, peer, sent, header>>
    BY <1>8 DEF LoopEnds, Running, Exit, parentVars, peerVars, bevVars
  <2>2. \A c \in Conns : conn'[c] = "closed" =>
          conn[c] \in {"closed", "backlog"} \/ c \in OpenOf(p)
    BY <1>0, <2>1 DEF Exit, TypeOK
  <2>3. \A c \in OpenOf(p) : peer[c] # "in"
    BY <1>0, <2>1 DEF OpenOf, EntriesAgree, EntryAgrees
  <2> QED
    BY <1>0, <1>1, <2>1, <2>2, <2>3 DEF QueueAgrees
<1>9. ASSUME NEW p \in Procs, Signal(p) \/ ChildStart(p) \/ Wake(p) PROVE Isolation'
  BY <1>1, <1>9 DEF Signal, Stop, Continue, ChildStart, Wake, parentVars, connVars,
     peerVars, bevVars
<1>10. ASSUME NEW c \in Conns, readcb(c) PROVE Isolation'
  <2>1. /\ conn[c] = "open" /\ owner[c] \in Procs /\ owner[c] # None
        /\ nread[c] < Len(sent[c])
        /\ UNCHANGED <<prefork, peer, sent, owner>>
    BY <1>0, <1>10, NoneAssumption
       DEF readcb, Served, TakeHeader, TakeBody, Stay, Exit, TypeOK, parentVars, peerVars,
           connVars, Procs
  <2>2. /\ \A d \in Conns : d # c => header'[d] = header[d]
        /\ header[c] = "lost" => header'[c] = "lost"
    BY <1>0, <1>10 DEF readcb, TakeHeader, TakeBody, TypeOK
  <2>3. \A d \in Conns : Provokes(d) => Provokes(d)'
    BY <2>1, <2>2 DEF Provokes
  <2>4. CASE Stay
    BY <1>3, <2>1, <2>3, <2>4 DEF Stay, connVars
  <2>5. CASE Exit(owner[c]) /\ ~Stay
    <3>1. Provokes(c)'
      <4>1. sent[c][nread[c] + 1] = "big" => "big" \in Range(sent[c])
        <5>1. sent[c] \in Seq(Units) /\ nread[c] + 1 \in DOMAIN sent[c]
          BY <1>0, <2>1, LenProperties DEF FunctionsOK
        <5> QED
          BY <5>1 DEF Range
      <4>2. sent[c][nread[c] + 1] = "big" \/ header'[c] = "lost"
        BY <1>0, <1>10, <2>5 DEF readcb, TakeHeader, TakeBody, TypeOK
      <4> QED
        BY <2>1, <4>1, <4>2 DEF Provokes
    <3>2. \A d \in Conns : conn'[d] = "closed" =>
            conn[d] \in {"closed", "backlog"} \/ (conn[d] = "open" /\ owner[d] = owner[c])
      BY <1>0, <2>5 DEF Exit, OpenOf, TypeOK
    <3>3. ASSUME NEW d \in Conns
          PROVE  conn'[d] = "closed" /\ owner'[d] # None /\ peer'[d] = "in" =>
                  \E e \in Conns : /\ owner'[e] = owner'[d] /\ Provokes(e)'
                                   /\ prefork' => e = d
      <4>1. CASE conn[d] = "closed" /\ conn'[d] = "closed"
        BY <1>0, <2>1, <2>3, <4>1, StaysProvoked
      <4>2. CASE conn[d] = "backlog"
        BY <1>0, <2>1, <4>2 DEF QueueAgrees
      <4>3. CASE conn[d] = "open" /\ owner[d] = owner[c]
        <5>1. prefork => d = c
          BY <1>0, <2>1, <4>3 DEF OwnersAgree
        <5> QED
          BY <2>1, <3>1, <4>3, <5>1
      <4> QED
        BY <3>2, <4>1, <4>2, <4>3
    <3> QED
      BY <3>3 DEF Isolation
  <2> QED
    BY <1>10, <2>4, <2>5 DEF readcb, TakeHeader, TakeBody
<1>11. ASSUME NEW c \in Conns, ReadEnd(c) \/ Write(c) \/ WriteError(c) PROVE Isolation'
  <2>1. UNCHANGED <<prefork, owner, conn, sent>>
    BY <1>11 DEF ReadEnd, Write, WriteError, errorcb, Stay, connVars, parentVars
  <2>2. /\ \A d \in Conns : peer[d] # "in" => peer'[d] # "in"
        /\ \A d \in Conns : header[d] = "lost" /\ peer[d] = "dead" => header'[d] = "lost"
    BY <1>0, <1>11 DEF ReadEnd, Write, WriteError, errorcb, TypeOK
  <2>3. \A d \in Conns : Provokes(d) => Provokes(d)'
    BY <1>0, <2>1, <2>2 DEF Provokes, EntriesAgree, EntryAgrees
  <2> QED
    BY <1>3, <2>1, <2>2, <2>3
<1>12. CASE UNCHANGED vars
  BY <1>1, <1>12 DEF vars, parentVars, connVars, peerVars, bevVars
<1> QED
  BY <1>2, <1>4, <1>5, <1>6, <1>7, <1>8, <1>9, <1>10, <1>11, <1>12
     DEF Next, Parent, Listen, Client, Echo
-----------------------------------------------------------------------------
(* The theorems.                                                           *)

LEMMA IInvInit == Init => IInv
<1> SUFFICES ASSUME Init PROVE IInv
  OBVIOUS
<1>1. \A p \in Procs : p \in Nat /\ p < processCnt
  BY CountAssumption DEF Procs
<1>2. ProcsAgree
  BY <1>1, CountAssumption DEF Init, ProcsAgree
<1>3. QueueAgrees
  BY DEF Init, QueueAgrees
<1>4. OwnersAgree
  BY NoneAssumption DEF Init, OwnersAgree, Procs
<1>5. EntriesAgree
  BY EmptySeq DEF Init, EntriesAgree, EntryAgrees, BodiesFollowHeaders
<1>6. Isolation
  BY DEF Init, Isolation
<1> QED
  BY <1>2, <1>3, <1>4, <1>5, <1>6, TypeInit DEF IInv

LEMMA IInvNext == IInv /\ [Next]_vars => IInv'
BY TypeNext, ProcsNext, QueueNext, OwnersNext, EntriesNext, IsolationNext DEF IInv

LEMMA Inductive == Spec => []IInv
BY IInvInit, IInvNext, PTL DEF Spec

\* The tables, the listen queue and the processes keep their types; the
\* listener events belong to processes in their loop.
THEOREM TypeSafe == Spec => []TypeOK
<1>1. IInv => TypeOK
  BY DEF IInv
<1> QED
  BY <1>1, Inductive, PTL

\* The servers close no connection under a client unless a client of the same
\* process has provoked it; in the pre-fork server, unless it did itself.
THEOREM ClientsIsolated == Spec => []Isolation
<1>1. IInv => Isolation
  BY DEF IInv
<1> QED
  BY <1>1, Inductive, PTL

\* readcb reads no missing entry of _fd_recvHeader before a write has failed:
\* until then the entry says what the units read so far call for.
THEOREM EntriesSafe == Spec => []EntryWhileUsed
<1>1. IInv => EntryWhileUsed
  <2> SUFFICES ASSUME IInv, NEW c \in Conns, Served(c), reading[c],
                      header[c] \in {"none", "lost"}
               PROVE  ~writing[c] /\ peer[c] = "dead"
    BY DEF EntryWhileUsed
  <2>1. WriteFailed(c) \/ header[c] = EntryAfter(sent[c], nread[c])
    BY DEF IInv, EntriesAgree, EntryAgrees, Served
  <2> QED
    BY <2>1 DEF EntryAfter, WriteFailed
<1> QED
  BY <1>1, Inductive, PTL

\* Whatever forks fail: a child of the pre-fork server serves one connection,
\* and does not exit without it; main returns when each child has ended or was
\* stopped.
THEOREM ChildrenSafe == Spec => []ChildrenAccountedFor
<1>1. IInv => EachChildServesOne
  <2> SUFFICES ASSUME IInv, prefork, NEW p \in Procs
               PROVE  LET served == {c \in Conns : owner[c] = p}
                      IN  /\ Cardinality(served) <= 1
                          /\ proc[p] = "exited" => served # {}
    BY DEF EachChildServesOne
  <2> DEFINE served == {c \in Conns : owner[c] = p}
  <2>1. p # None
    BY NoneAssumption DEF Procs
  <2>2. served = {} \/ \E c \in Conns : served = {c}
    BY <2>1 DEF IInv, OwnersAgree
  <2>3. Cardinality(served) <= 1
    <3>1. Cardinality(served) = 0 \/ Cardinality(served) = 1
      <4>1. \A S : S = {} => Cardinality(S) = 0
        BY FS_EmptySet, Zenon
      <4>2. \A S : (\E c \in Conns : S = {c}) => Cardinality(S) = 1
        BY FS_Singleton, Zenon
      <4> HIDE DEF served
      <4> QED
        BY <2>2, <4>1, <4>2
    <3> QED
      BY <3>1
  <2>4. proc[p] = "exited" => served # {}
    BY DEF IInv, OwnersAgree
  <2> QED
    BY <2>3, <2>4
<1>2. IInv => ParentWaitsForAll
  <2> SUFFICES ASSUME IInv, ParentDone, NEW p \in Range(pids)
               PROVE  proc[p] = "exited" \/ p \in changed
    BY DEF ParentWaitsForAll
  <2>1. PICK i \in 1 .. waited : p = pids[i]
    BY LenProperties DEF IInv, TypeOK, ParentDone, Range
  <2> QED
    BY <2>1 DEF IInv, ProcsAgree
<1>3. IInv => ChildrenAccountedFor
  BY <1>1, <1>2 DEF ChildrenAccountedFor
<1> QED
  BY <1>3, Inductive, PTL

=============================================================================
