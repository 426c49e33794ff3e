--------------------------- MODULE MtEchoServer ---------------------------
(***************************************************************************)
(* dev_examples/libevent_multithreads: an echo server with one I/O thread  *)
(* (libevent's loop) and threads_cnt worker threads.                       *)
(*                                                                         *)
(*   client --> socket --> readcb --> queuesInput[fd % threads_cnt]        *)
(*          WorkerProc: Get, build the reply, Put --> queueOutput, write   *)
(*          one byte to the worker's pipe --> readcbNotify empties         *)
(*          queueOutput into the output buffers found by fd --> client     *)
(*                                                                         *)
(* A queue element carries the fd of its connection and nothing else of    *)
(* it.  The n-th frame that connection c sends has payload <<c, n>>, so    *)
(* that a reply can be told from every other; readcb's reassembly of bytes *)
(* into frames is the subject of FrameReader.                              *)
(*                                                                         *)
(* Per connection, sent >= recvd >= put >= got >= done >= taken count the  *)
(* frames that passed each hand-off.  sent, recvd and put stand for the    *)
(* socket and the input evbuffer; got, done and taken are history          *)
(* variables that no guard reads.                                          *)
(***************************************************************************)
EXTENDS Integers, Sequences, FiniteSets

CONSTANTS
    Conns,        \* the connections clients make, each at most once
    MaxReq,       \* bound: frames a client sends on one connection
    Fds,          \* descriptors the process may use for connections
    FdSetSize,    \* FD_SETSIZE: acceptcb closes a larger descriptor at once
    threads_cnt,  \* number of worker threads
    PipeCap,      \* bytes a notify pipe holds before write() blocks
    NotifyMax,    \* bytes one call of readcbNotify removes (4096)
    Polite,       \* TRUE: a client hangs up only when all is answered
    None

ASSUME ConstantsAssumption ==
    /\ MaxReq \in Nat
    /\ Fds \subseteq Nat
    /\ FdSetSize \in Nat
    /\ threads_cnt \in Nat \ {0}
    /\ PipeCap \in Nat \ {0}
    /\ NotifyMax \in Nat \ {0}
    /\ None \notin Conns \cup Fds

ASSUME PoliteAssumption == Polite \in BOOLEAN

Workers == 0 .. threads_cnt - 1

QueueEle == [fd : Fds, conn : Conns, n : Nat]

\* A sentinel of no QueueEle: what a worker holds between two elements.
NoEle == [fd |-> None, conn |-> None, n |-> 0]

VARIABLES
    backlog,      \* Seq(Conns): connections the kernel has not handed over
    conn,         \* Conns -> "idle", "backlog", "open" or "closed" (server side)
    hup,          \* the connections whose client has gone
    fdOf,         \* Conns -> the descriptor accept returned (history)
    sessions,     \* Fds -> the connection whose bufferevent is registered
    sent, recvd, put, got, done, taken,   \* Conns -> Nat, see above
    queuesInput,  \* Workers -> Seq(QueueEle)
    pc, qe,       \* Workers -> next step of WorkerProc, element in hand
    queueOutput,  \* Seq(QueueEle)
    pipe,         \* Workers -> bytes in the notify pipe
    io,           \* the callback the I/O thread is in
    reply,        \* Conns -> Seq(QueueEle) ever appended to its output evbuffer
    flushed       \* Conns -> how many of those reached the client

netVars    == <<backlog, conn, hup, fdOf, sessions>>
inVars     == <<sent, recvd, put>>
workerVars == <<pc, qe, got, done>>
outVars    == <<taken, reply, flushed>>
vars == <<netVars, inVars, workerVars, outVars, queuesInput, queueOutput,
          pipe, io>>

Loop == [pc |-> "loop", fd |-> None]

Init ==
    /\ backlog = <<>>
    /\ conn = [c \in Conns |-> "idle"]
    /\ hup = {}
    /\ fdOf = [c \in Conns |-> None]
    /\ sessions = [f \in Fds |-> None]
    /\ sent = [c \in Conns |-> 0] /\ recvd = sent /\ put = sent
    /\ got = sent /\ done = sent /\ taken = sent
    /\ queuesInput = [w \in Workers |-> <<>>]
    /\ pc = [w \in Workers |-> "get"]
    /\ qe = [w \in Workers |-> NoEle]
    /\ queueOutput = <<>>
    /\ pipe = [w \in Workers |-> 0]
    /\ io = Loop
    /\ reply = [c \in Conns |-> <<>>]
    /\ flushed = [c \in Conns |-> 0]

-----------------------------------------------------------------------------
(* Clients and the kernel's side of their connections.                     *)

Connect(c) ==
    /\ conn[c] = "idle"
    /\ conn' = [conn EXCEPT ![c] = "backlog"]
    /\ backlog' = Append(backlog, c)
    /\ UNCHANGED <<hup, fdOf, sessions, inVars, workerVars, outVars,
                   queuesInput, queueOutput, pipe, io>>

\* A client may send before the server has accepted the connection.
Send(c) ==
    /\ conn[c] # "idle" /\ c \notin hup /\ sent[c] < MaxReq
    /\ sent' = [sent EXCEPT ![c] = @ + 1]
    /\ UNCHANGED <<netVars, recvd, put, workerVars, outVars, queuesInput,
                   queueOutput, pipe, io>>

\* Mutant of HangUp: even a polite client does not wait for the last reply.
HangUpEarly(c) ==
    /\ conn[c] # "idle" /\ c \notin hup
    /\ Polite => flushed[c] + 1 >= sent[c]
    /\ hup' = hup \cup {c}
    /\ UNCHANGED <<backlog, conn, fdOf, sessions, inVars, workerVars, outVars,
                   queuesInput, queueOutput, pipe, io>>

\* The client closes its socket, is killed, or its host is lost.  A polite
\* client is one like client.py: it has received as many replies as it sent
\* requests.
HangUp(c) ==
    /\ conn[c] # "idle" /\ c \notin hup
    /\ Polite => flushed[c] = sent[c]
    /\ hup' = hup \cup {c}
    /\ UNCHANGED <<backlog, conn, fdOf, sessions, inVars, workerVars, outVars,
                   queuesInput, queueOutput, pipe, io>>

-----------------------------------------------------------------------------
(* The I/O thread.  It is in one callback at a time; only the steps that   *)
(* touch a queue are interleaved with the workers.                         *)

FreeFds == {f \in Fds : sessions[f] = None}

\* accept() returns the lowest free descriptor.
acceptcb ==
    /\ io = Loop /\ backlog # <<>>
    /\ \E fd \in FreeFds :
         /\ \A f \in FreeFds : fd <= f
         /\ LET c == Head(backlog)
            IN  IF fd > FdSetSize
                THEN /\ conn' = [conn EXCEPT ![c] = "closed"]
                     /\ UNCHANGED <<fdOf, sessions>>
                ELSE /\ conn' = [conn EXCEPT ![c] = "open"]
                     /\ fdOf' = [fdOf EXCEPT ![c] = fd]
                     /\ sessions' = [sessions EXCEPT ![fd] = c]
    /\ backlog' = Tail(backlog)
    /\ UNCHANGED <<hup, inVars, workerVars, outVars, queuesInput, queueOutput,
                   pipe, io>>

\* accept() < 0 (no descriptor left): perror and return.  The listener stays
\* readable, so the loop calls acceptcb again and again.
acceptcbFails ==
    /\ io = Loop /\ backlog # <<>> /\ FreeFds = {}
    /\ UNCHANGED vars

\* libevent moves bytes from the socket to the input evbuffer and calls readcb.
readcb(fd) ==
    /\ io = Loop /\ sessions[fd] # None
    /\ LET c == sessions[fd]
       IN  \E k \in recvd[c] + 1 .. sent[c] :
             recvd' = [recvd EXCEPT ![c] = k]
    /\ io' = [pc |-> "read", fd |-> fd]
    /\ UNCHANGED <<netVars, sent, put, workerVars, outVars, queuesInput,
                   queueOutput, pipe>>

\* Mutant of WorkerOf: the frame goes to a worker with the shortest queue.
ShortestQueue(fd) ==
    CHOOSE w \in Workers : \A v \in Workers :
        Len(queuesInput[w]) <= Len(queuesInput[v])

\* The worker of a descriptor: all frames of a connection go through one queue.
WorkerOf(fd) == fd % threads_cnt

\* One round of readcb's loop that finds a complete frame and queues it.
readcbPut ==
    /\ io.pc = "read"
    /\ LET c == sessions[io.fd]
           w == WorkerOf(io.fd)
       IN  /\ queuesInput' = [queuesInput EXCEPT ![w] =
                 Append(@, [fd |-> io.fd, conn |-> c, n |-> put[c] + 1])]
           /\ put' = [put EXCEPT ![c] = @ + 1]
           /\ io' = IF put[c] + 1 < recvd[c] THEN io ELSE Loop
    /\ UNCHANGED <<netVars, sent, recvd, workerVars, outVars, queueOutput,
                   pipe>>

\* Mutant of errorcb: the session is erased and the connection left open.
errorcbKeepsOpen(fd) ==
    /\ io = Loop /\ sessions[fd] \in hup
    /\ sessions' = [sessions EXCEPT ![fd] = None]
    /\ UNCHANGED <<backlog, conn, hup, fdOf, inVars, workerVars, outVars,
                   queuesInput, queueOutput, pipe, io>>

\* Mutant of errorcb: only a reset cleans up, as in perf_libevent/server.cpp.
errorcbIgnoresEof(fd) ==
    /\ io = Loop /\ sessions[fd] \in hup
    /\ recvd[sessions[fd]] < sent[sessions[fd]]
    /\ sessions' = [sessions EXCEPT ![fd] = None]
    /\ conn' = [conn EXCEPT ![sessions[fd]] = "closed"]
    /\ UNCHANGED <<backlog, hup, fdOf, inVars, workerVars, outVars,
                   queuesInput, queueOutput, pipe, io>>

\* End of file, once everything sent was read, or an error (reset) that may
\* leave bytes unread.  Erasing the session frees the bufferevent, which
\* closes fd: pending output is dropped and the number can be used again.
errorcb(fd) ==
    /\ io = Loop /\ sessions[fd] \in hup
    /\ sessions' = [sessions EXCEPT ![fd] = None]
    /\ conn' = [conn EXCEPT ![sessions[fd]] = "closed"]
    /\ UNCHANGED <<backlog, hup, fdOf, inVars, workerVars, outVars,
                   queuesInput, queueOutput, pipe, io>>

\* Worker w's pipe is readable.
readcbNotify(w) ==
    /\ io = Loop /\ pipe[w] > 0
    /\ pipe' = [pipe EXCEPT ![w] = IF @ > NotifyMax THEN @ - NotifyMax ELSE 0]
    /\ io' = [pc |-> "notify", fd |-> None]
    /\ UNCHANGED <<netVars, inVars, workerVars, outVars, queuesInput,
                   queueOutput>>

\* One TryGet of readcbNotify's loop and what is done with the element: it
\* goes to whatever session is registered under its fd now, or is dropped.
readcbNotifyTryGet ==
    /\ io.pc = "notify" /\ queueOutput # <<>>
    /\ LET ele == Head(queueOutput)
           c   == sessions[ele.fd]
       IN  /\ taken' = [taken EXCEPT ![ele.conn] = @ + 1]
           /\ reply' = IF c # None THEN [reply EXCEPT ![c] = Append(@, ele)]
                                   ELSE reply
    /\ queueOutput' = Tail(queueOutput)
    /\ UNCHANGED <<netVars, inVars, workerVars, flushed, queuesInput, pipe, io>>

\* Mutant of readcbNotifyEmpty: readcbNotify may return before the queue is
\* empty, as if it took a fixed number of elements per byte.
readcbNotifySome ==
    /\ io.pc = "notify"
    /\ io' = Loop
    /\ UNCHANGED <<netVars, inVars, workerVars, outVars, queuesInput,
                   queueOutput, pipe>>

\* QueueEmptyException ends readcbNotify.
readcbNotifyEmpty ==
    /\ io.pc = "notify" /\ queueOutput = <<>>
    /\ io' = Loop
    /\ UNCHANGED <<netVars, inVars, workerVars, outVars, queuesInput,
                   queueOutput, pipe>>

\* libevent writes from the output evbuffer to the socket, then calls writecb,
\* which does nothing.
writecb(fd) ==
    /\ io = Loop /\ sessions[fd] \notin hup \cup {None}
    /\ LET c == sessions[fd]
       IN  \E k \in flushed[c] + 1 .. Len(reply[c]) :
             flushed' = [flushed EXCEPT ![c] = k]
    /\ UNCHANGED <<netVars, inVars, workerVars, taken, reply, queuesInput,
                   queueOutput, pipe, io>>

-----------------------------------------------------------------------------
(* Worker threads.                                                         *)

\* Get() blocks while the queue is empty.
WorkerGet(w) ==
    /\ pc[w] = "get" /\ queuesInput[w] # <<>>
    /\ LET ele == Head(queuesInput[w])
       IN  /\ qe' = [qe EXCEPT ![w] = ele]
           /\ got' = [got EXCEPT ![ele.conn] = @ + 1]
    /\ queuesInput' = [queuesInput EXCEPT ![w] = Tail(@)]
    /\ pc' = [pc EXCEPT ![w] = "put"]
    /\ UNCHANGED <<netVars, inVars, done, outVars, queueOutput, pipe, io>>

WorkerPut(w) ==
    /\ pc[w] = "put"
    /\ queueOutput' = Append(queueOutput, qe[w])
    /\ done' = [done EXCEPT ![qe[w].conn] = @ + 1]
    /\ qe' = [qe EXCEPT ![w] = NoEle]
    /\ pc' = [pc EXCEPT ![w] = "write"]
    /\ UNCHANGED <<netVars, inVars, got, outVars, queuesInput, pipe, io>>

\* Mutant of WorkerWrite: the pipe has no limit.
WorkerWriteUnbounded(w) ==
    /\ pc[w] = "write"
    /\ pipe' = [pipe EXCEPT ![w] = @ + 1]
    /\ pc' = [pc EXCEPT ![w] = "get"]
    /\ UNCHANGED <<netVars, inVars, qe, got, done, outVars, queuesInput,
                   queueOutput, io>>

\* write() of one byte; the pipe is blocking.
WorkerWrite(w) ==
    /\ pc[w] = "write" /\ pipe[w] < PipeCap
    /\ pipe' = [pipe EXCEPT ![w] = @ + 1]
    /\ pc' = [pc EXCEPT ![w] = "get"]
    /\ UNCHANGED <<netVars, inVars, qe, got, done, outVars, queuesInput,
                   queueOutput, io>>

WorkerProc(w) == WorkerGet(w) \/ WorkerPut(w) \/ WorkerWrite(w)

-----------------------------------------------------------------------------
\* Nothing is left to do: every client has come and gone.  Without it TLC
\* would call the end of a finite workload a deadlock.
Finished ==
    /\ \A c \in Conns : conn[c] = "closed"
    /\ \A w \in Workers : pc[w] = "get" /\ queuesInput[w] = <<>> /\ pipe[w] = 0
    /\ io = Loop
    /\ UNCHANGED vars

Client == \E c \in Conns : Connect(c) \/ Send(c) \/ HangUp(c)

IoThread ==
    \/ acceptcb \/ acceptcbFails
    \/ \E fd \in Fds : readcb(fd) \/ errorcb(fd) \/ writecb(fd)
    \/ readcbPut
    \/ \E w \in Workers : readcbNotify(w)
    \/ readcbNotifyTryGet \/ readcbNotifyEmpty

Next == Client \/ IoThread \/ (\E w \in Workers : WorkerProc(w)) \/ Finished

Spec == Init /\ [][Next]_vars

\* Threads are scheduled, and libevent calls the callback of an event that
\* stays ready.  Clients are free to do nothing.
Fairness ==
    /\ \A w \in Workers : WF_vars(WorkerProc(w)) /\ WF_vars(readcbNotify(w))
    /\ WF_vars(readcbPut \/ readcbNotifyTryGet \/ readcbNotifyEmpty)
    /\ WF_vars(acceptcb)
    /\ \A fd \in Fds : WF_vars(readcb(fd)) /\ WF_vars(errorcb(fd))
                                           /\ WF_vars(writecb(fd))

FairSpec == Spec /\ Fairness

-----------------------------------------------------------------------------
(* Properties.                                                             *)

Counters == [Conns -> Nat]

NetTypeOK ==
    /\ backlog \in Seq(Conns)
    /\ conn \in [Conns -> {"idle", "backlog", "open", "closed"}]
    /\ hup \subseteq Conns
    /\ fdOf \in [Conns -> Fds \cup {None}]
    /\ sessions \in [Fds -> Conns \cup {None}]

CounterTypeOK ==
    /\ sent \in Counters /\ recvd \in Counters /\ put \in Counters
    /\ got \in Counters /\ done \in Counters /\ taken \in Counters
    /\ flushed \in Counters

QueueTypeOK ==
    /\ queuesInput \in [Workers -> Seq(QueueEle)]
    /\ queueOutput \in Seq(QueueEle)
    /\ reply \in [Conns -> Seq(QueueEle)]

WorkerTypeOK ==
    /\ pc \in [Workers -> {"get", "put", "write"}]
    /\ qe \in [Workers -> QueueEle \cup {NoEle}]
    /\ \A w \in Workers : pc[w] = "put" <=> qe[w] # NoEle
    /\ pipe \in [Workers -> 0 .. PipeCap]

IoTypeOK ==
    /\ io \in [pc : {"loop", "notify", "read"}, fd : Fds \cup {None}]
    /\ IF io.pc = "read" THEN io.fd # None /\ sessions[io.fd] # None
                         ELSE io.fd = None

\* Every variable has its type, and a callback or a worker that is about to
\* use a session or an element has one.
TypeOK == NetTypeOK /\ CounterTypeOK /\ QueueTypeOK /\ WorkerTypeOK /\ IoTypeOK

\* The connections whose frames go through worker w, and those of all workers.
Accepted  == {c \in Conns : fdOf[c] # None}
Served(w) == {c \in Accepted : fdOf[c] % threads_cnt = w}

\* Queue q holds, of every connection c in C, exactly the frames numbered
\* lo[c]+1 .. hi[c], in that order, each under c's descriptor fd[c].
QueueHolds(q, C, fd, lo, hi) ==
    /\ \A i \in DOMAIN q :
         LET e == q[i]
         IN  /\ e.conn \in C /\ e.fd = fd[e.conn]
             /\ lo[e.conn] < e.n /\ e.n <= hi[e.conn]
    /\ \A i, j \in DOMAIN q :
         i < j /\ q[i].conn = q[j].conn => q[i].n < q[j].n
    /\ \A c \in C : \A n \in lo[c] + 1 .. hi[c] :
         \E i \in DOMAIN q : q[i].conn = c /\ q[i].n = n

\* Between readcb and readcbNotify no frame is lost, duplicated or overtaken by
\* a later one of its connection: what was put and not yet got is in the
\* worker's queue, what was got and not yet done is in the worker's hand, what
\* was done and not yet taken is in queueOutput, in order.
HandOffsKeepOrder ==
    /\ \A w \in Workers :
         /\ QueueHolds(queuesInput[w], Served(w), fdOf, got, put)
         /\ pc[w] = "put" => /\ qe[w].conn \in Served(w)
                             /\ qe[w].fd = fdOf[qe[w].conn]
                             /\ qe[w].n = got[qe[w].conn]
         /\ \A c \in Served(w) :
              got[c] = done[c] + (IF pc[w] = "put" /\ qe[w].conn = c
                                  THEN 1 ELSE 0)
    /\ QueueHolds(queueOutput, Accepted, fdOf, taken, done)

\* No lost wakeup: as long as queueOutput holds a reply, the I/O thread is
\* emptying it, or a byte waits in some pipe, or a worker is between its Put
\* and its write.  A reply is never stranded until another request comes.
NoLostWakeup ==
    queueOutput # <<>> =>
        \/ io.pc = "notify"
        \/ \E w \in Workers : pipe[w] > 0 \/ pc[w] = "write"

\* What a connection's own replies look like: numbered 1, 2, 3, ... with no
\* gap, no repetition and no overtaking, whatever the interleaving of its
\* worker with the others; and a reply left over from an earlier connection
\* of the same descriptor never comes between or after them.
InOrderAt(c, i) ==
    reply[c][i].conn = c =>
        reply[c][i].n = (IF i > 1 /\ reply[c][i - 1].conn = c
                         THEN reply[c][i - 1].n ELSE 0) + 1

StaleFirstAt(c, i) ==
    i > 1 /\ reply[c][i].conn # c => reply[c][i - 1].conn # c

OwnRepliesInOrder ==
    \A c \in Conns : \A i \in DOMAIN reply[c] : InOrderAt(c, i)

StaleRepliesFirst ==
    \A c \in Conns : \A i \in DOMAIN reply[c] : StaleFirstAt(c, i)

\* While a connection is open, each of its requests that left queueOutput was
\* appended to its own output: nothing is lost to another session.
OwnAnswered(c) ==
    IF reply[c] # <<>> /\ reply[c][Len(reply[c])].conn = c
    THEN reply[c][Len(reply[c])].n ELSE 0

NoReplyLost == \A c \in Conns : conn[c] = "open" => OwnAnswered(c) = taken[c]

\* Every reply has its place in the output of its connection: in order, after
\* whatever an earlier connection of the descriptor left, and none is missing.
RepliesInPlace == OwnRepliesInOrder /\ StaleRepliesFirst /\ NoReplyLost

\* An echo client receives the echo of what it sent and nothing else.
RepliesAreOwn ==
    \A c \in Conns : \A i \in 1 .. flushed[c] : reply[c][i].conn = c

\* Every request of a connection that stays is eventually sent back, however
\* full the pipes and however the threads interleave.
EventuallyEchoed ==
    \A c \in Conns : \A k \in 1 .. MaxReq :
        conn[c] = "open" /\ sent[c] >= k
            ~> c \in hup \/ \E i \in 1 .. flushed[c] :
                              reply[c][i].conn = c /\ reply[c][i].n = k

\* A client that has gone is eventually forgotten, and its descriptor freed.
EventuallyErased ==
    \A c \in Conns : conn[c] = "open" /\ c \in hup ~> conn[c] = "closed"

-----------------------------------------------------------------------------
(* The server implements EchoService: a hidden reply of d is one that sits  *)
(* in the history of another connection.                                    *)

Leaked(d) ==
    {p \in UNION {{c} \X DOMAIN reply[c] : c \in Conns \ {d}} :
        reply[p[1]][p[2]].conn = d}

Up == [c \in Conns |-> CASE conn[c] = "open"   -> "up"
                         [] conn[c] = "closed" -> "gone"
                         [] OTHER              -> "new"]

Own == [c \in Conns |-> OwnAnswered(c)]

LeakedCount == [d \in Conns |-> Cardinality(Leaked(d))]

Echo == INSTANCE EchoService WITH
    up <- Up, asked <- put, own <- Own, leaked <- LeakedCount

\* Every behaviour of the server is one of EchoService.
ImplementsEcho == Echo!Spec

=============================================================================
