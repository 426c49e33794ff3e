-------------------------- MODULE EpollEchoServer --------------------------
(***************************************************************************)
(* lite_test/TCP_USER_TIMEOUT_test: the epoll echo server and its client.  *)
(*                                                                         *)
(* The server registers the listening socket and every connection with     *)
(* EPOLLIN | EPOLLET.  Such an event is reported once per arrival, merged  *)
(* with what arrived before it was collected, and leads to one accept or   *)
(* one recv of MAXBUF bytes, which may leave something behind.  maxevents  *)
(* counts the registered sockets by hand.                                  *)
(*                                                                         *)
(* Data is counted in units of MAXBUF bytes.  A connection is named by its *)
(* client: a descriptor is closed while its own event is handled, so no    *)
(* event of a batch refers to a descriptor that was used again.            *)
(***************************************************************************)
EXTENDS Integers, Sequences, FiniteSets, Functions

CONSTANTS
    Clients,
    Listener,      \* listenerfd
    Eager,         \* clients that send again before they have an answer
    SndMax,        \* units that fit between server and client
    MsgUnits,      \* bound: units in a client's message
    MaxSends,      \* bound: messages of a client
    MaxFaults      \* bound: failures of accept and setsockopt

ASSUME ListenerAssumption == Listener \notin Clients
ASSUME EagerAssumption == Eager \subseteq Clients
ASSUME SizeAssumption == SndMax \in Nat \ {0} /\ MsgUnits \in Nat \ {0}
ASSUME BoundAssumption == MaxSends \in Nat /\ MaxFaults \in Nat

VARIABLES
    state,         \* server: "running", "returned" from main, "killed"
    batch,         \* the rest of events[0 .. n-1]
    ready,         \* the kernel's list of sockets to report
    maxevents,
    eagain,        \* errno = 11
    backlog,       \* the listen queue
    registered,    \* connections in the epoll set
    closed,        \* connections the server has closed
    unread,        \* Clients -> units in the server's socket
    end,           \* Clients -> "no", "fin", "reset", "pipe" (reset after a
                   \*   FIN), "seen" (the error was returned)
    cpc,           \* Clients -> "new", "wait", "recv", "lost", "exited"
    echo,          \* Clients -> units in the client's socket
    cready,        \* Clients -> the client's epoll set has an event
    sends,         \* Clients -> messages sent
    faults

serverVars == <<state, batch, maxevents, eagain, registered, closed>>
clientVars == <<cpc, cready, sends>>
vars == <<serverVars, ready, backlog, unread, end, clientVars, echo, faults>>

Init ==
    /\ state = "running" /\ batch = <<>> /\ ready = <<>>
    /\ maxevents = 1 /\ eagain = FALSE
    /\ backlog = <<>> /\ registered = {} /\ closed = {}
    /\ unread = [c \in Clients |-> 0] /\ end = [c \in Clients |-> "no"]
    /\ cpc = [c \in Clients |-> "new"] /\ echo = [c \in Clients |-> 0]
    /\ cready = [c \in Clients |-> FALSE] /\ sends = [c \in Clients |-> 0]
    /\ faults = 0

Minimum(a, b) == IF a < b THEN a ELSE b

\* What is left of q when only the positions I are kept, as the set of that one
\* sequence.
Kept(q, I) ==
    LET n == Cardinality(I)
    IN  {[i \in 1 .. n |-> q[at[i]]] :
            at \in {f \in [1 .. n -> I] : \A i, j \in 1 .. n : i < j => f[i] < f[j]}}

\* An arrival puts a registered socket at the end of the list, once.
Announced(s) ==
    IF s \in Range(ready) \/ s \notin registered \cup {Listener}
    THEN ready ELSE Append(ready, s)

-----------------------------------------------------------------------------
(* The client, tcptest_client.                                             *)

Connect(c) ==
    /\ cpc[c] = "new" /\ state = "running"
    /\ cpc' = [cpc EXCEPT ![c] = "wait"]
    /\ backlog' = Append(backlog, c)
    /\ ready' = Announced(Listener)
    /\ UNCHANGED <<serverVars, unread, end, cready, sends, echo, faults>>

\* epoll_wait times out: send_message, then recv_message blocks.  (Another
\* program may send at any time.)
Timeout(c) ==
    /\ \/ cpc[c] = "wait" /\ ~(cready[c] /\ echo[c] > 0)
       \/ cpc[c] \in {"wait", "recv"} /\ c \in Eager
    /\ state = "running"
    /\ sends[c] < MaxSends
    /\ sends' = [sends EXCEPT ![c] = @ + 1]
    /\ cpc' = [cpc EXCEPT ![c] = "recv"]
    /\ IF end[c] = "no"
       THEN /\ \E k \in 1 .. MsgUnits : unread' = [unread EXCEPT ![c] = @ + k]
            /\ ready' = Announced(c)
       ELSE UNCHANGED <<unread, ready>>
    /\ UNCHANGED <<serverVars, backlog, end, cready, echo, faults>>

\* recv_message takes up to 2048 bytes.
recv_message(c) ==
    /\ echo[c] > 0
    /\ echo' = [echo EXCEPT ![c] = @ - Minimum(@, 2)]
    /\ cpc' = [cpc EXCEPT ![c] = "wait"]
    /\ UNCHANGED <<serverVars, ready, backlog, unread, end, sends, faults>>

RecvAfterSend(c) == cpc[c] = "recv" /\ recv_message(c) /\ UNCHANGED cready

RecvOnEvent(c) ==
    /\ cpc[c] = "wait" /\ cready[c]
    /\ recv_message(c)
    /\ cready' = [cready EXCEPT ![c] = FALSE]

\* The server has gone.  In the loop over events maxevents becomes 0 and the
\* client exits; after a timeout it goes on for ever with a closed socket.
ServerGone(c) ==
    /\ state # "running" /\ echo[c] = 0 /\ cpc[c] \in {"wait", "recv"}
    /\ cpc' = [cpc EXCEPT ![c] = IF @ = "wait" THEN "exited" ELSE "lost"]
    /\ UNCHANGED <<serverVars, ready, backlog, unread, end, cready, sends, echo, faults>>

\* The user ends the client; unread bytes make its close a reset.
Kill(c) ==
    /\ cpc[c] \in {"wait", "recv"} /\ state = "running"
    /\ cpc' = [cpc EXCEPT ![c] = "exited"]
    /\ echo' = [echo EXCEPT ![c] = 0]
    /\ IF end[c] = "no"
       THEN /\ end' = [end EXCEPT ![c] = IF echo[c] > 0 THEN "reset" ELSE "fin"]
            /\ ready' = Announced(c)
       ELSE UNCHANGED <<end, ready>>
    /\ UNCHANGED <<serverVars, backlog, unread, cready, sends, faults>>

\* The network is lost: keepalive or TCP_USER_TIMEOUT ends the connection at
\* the server with ETIMEDOUT, and the client does not know.
UserTimeout(c) ==
    /\ c \in registered /\ end[c] = "no" /\ faults < MaxFaults
    /\ faults' = faults + 1
    /\ end' = [end EXCEPT ![c] = "reset"]
    /\ ready' = Announced(c)
    /\ UNCHANGED <<serverVars, backlog, unread, clientVars, echo>>

-----------------------------------------------------------------------------
(* The server.                                                             *)

Readable(s) ==
    IF s = Listener THEN backlog # <<>> ELSE unread[s] > 0 \/ end[s] # "no"

\* epoll_wait(efd, events, maxevents, -1): what is not readable any more is
\* dropped from the list.
epoll_wait ==
    \E now \in Kept(ready, {i \in DOMAIN ready : Readable(ready[i])}) :
        LET n == Minimum(Len(now), maxevents)
        IN  /\ now # <<>>
            /\ batch' = SubSeq(now, 1, n)
            /\ ready' = SubSeq(now, n + 1, Len(now))
            /\ UNCHANGED state

\* while (maxevents > 0): after the loop main returns.
Loop ==
    /\ state = "running" /\ batch = <<>>
    /\ IF maxevents > 0 THEN epoll_wait
       ELSE state' = "returned" /\ UNCHANGED <<batch, ready>>
    /\ UNCHANGED <<maxevents, eagain, registered, closed, backlog, unread, end,
                   clientVars, echo, faults>>

\* accept, or a setsockopt after it, fails: in the second case the connection
\* stays open and is never looked at again.
AcceptFails ==
    /\ state = "running" /\ batch # <<>> /\ Head(batch) = Listener
    /\ faults < MaxFaults /\ faults' = faults + 1
    /\ batch' = Tail(batch) /\ eagain' = FALSE
    /\ backlog' = backlog \/ (backlog # <<>> /\ backlog' = Tail(backlog))
    /\ UNCHANGED <<state, ready, maxevents, registered, closed, unread, end,
                   clientVars, echo>>

\* Mutant of Accept: maxevents is not incremented.
AcceptUncounted ==
    /\ state = "running" /\ batch # <<>> /\ Head(batch) = Listener
    /\ backlog # <<>>
    /\ batch' = Tail(batch) /\ backlog' = Tail(backlog)
    /\ LET c == Head(backlog)
       IN  /\ registered' = registered \cup {c}
           /\ ready' = IF Readable(c) THEN Append(ready, c) ELSE ready
    /\ UNCHANGED <<state, maxevents, eagain, closed, unread, end, clientVars,
                   echo, faults>>

\* One accept; the listening socket was readable when it was reported, and
\* nobody else accepts.  EPOLL_CTL_ADD reports a socket that is readable already.
Accept ==
    /\ state = "running" /\ batch # <<>> /\ Head(batch) = Listener
    /\ backlog # <<>>
    /\ batch' = Tail(batch) /\ backlog' = Tail(backlog)
    /\ LET c == Head(backlog)
       IN  /\ registered' = registered \cup {c}
           /\ ready' = IF Readable(c) THEN Append(ready, c) ELSE ready
    /\ maxevents' = maxevents + 1
    /\ UNCHANGED <<state, eagain, closed, unread, end, clientVars, echo, faults>>

\* send after recv: no room is EAGAIN, and the bytes are lost.  A client that
\* has closed answers with a reset, and a send after that raises SIGPIPE.
SendBack(c) ==
    CASE end[c] = "no" /\ echo[c] < SndMax ->
            /\ echo' = [echo EXCEPT ![c] = @ + 1]
            /\ cready' = [cready EXCEPT ![c] = TRUE]
            /\ UNCHANGED <<state, eagain, end, ready>>
      [] end[c] = "no" /\ echo[c] >= SndMax ->
            /\ eagain' = TRUE
            /\ UNCHANGED <<state, end, ready, echo, cready>>
      [] end[c] = "fin" ->
            /\ end' = [end EXCEPT ![c] = "pipe"]
            /\ ready' = Announced(c)
            /\ UNCHANGED <<state, eagain, echo, cready>>
      [] end[c] = "reset" ->
            /\ end' = [end EXCEPT ![c] = "seen"]
            /\ eagain' = FALSE
            /\ UNCHANGED <<state, ready, echo, cready>>
      [] OTHER ->
            /\ state' = "killed"
            /\ UNCHANGED <<eagain, end, ready, echo, cready>>

\* Mutant of CloseConn: maxevents is decremented by the caller too.
CloseConnTwice(c, is11) ==
    /\ closed' = closed \cup {c} /\ registered' = registered \ {c}
    /\ ready' \in Kept(ready, {i \in DOMAIN ready : ready[i] # c})
    /\ IF is11 THEN eagain' = TRUE /\ UNCHANGED maxevents
       ELSE maxevents' = maxevents - 2 /\ eagain' = FALSE

\* Mutant of CloseConn: a closed descriptor stays in the epoll set.
CloseConnKeepsEvent(c, is11) ==
    /\ closed' = closed \cup {c}
    /\ UNCHANGED <<registered, ready>>
    /\ IF is11 THEN eagain' = TRUE /\ UNCHANGED maxevents
       ELSE maxevents' = maxevents - 1 /\ eagain' = FALSE

\* close takes the socket out of the epoll set.  Unless errno is 11, from this
\* recv or from an earlier call, maxevents is decremented; EPOLL_CTL_DEL then
\* fails with EBADF.
CloseConn(c, is11) ==
    /\ closed' = closed \cup {c} /\ registered' = registered \ {c}
    /\ ready' \in Kept(ready, {i \in DOMAIN ready : ready[i] # c})
    /\ IF is11 THEN eagain' = TRUE /\ UNCHANGED maxevents
       ELSE maxevents' = maxevents - 1 /\ eagain' = FALSE

\* Mutant of handle_message: a connection with nothing left to read is closed.
handle_messageClosesEmpty(c) ==
    /\ \/ /\ unread[c] > 1
          /\ unread' = [unread EXCEPT ![c] = @ - 1]
          /\ SendBack(c)
          /\ UNCHANGED <<maxevents, registered, closed>>
       \/ /\ unread[c] <= 1
          /\ unread' = [unread EXCEPT ![c] = 0]
          /\ CloseConn(c, FALSE)
          /\ UNCHANGED <<state, end, echo, cready>>

\* After a FIN, or an error that send has returned, recv returns 0 and leaves
\* errno as it is.
handle_message(c) ==
    /\ \/ /\ unread[c] > 0
          /\ unread' = [unread EXCEPT ![c] = @ - 1]
          /\ SendBack(c)
          /\ UNCHANGED <<maxevents, registered, closed>>
       \/ /\ unread[c] = 0
          /\ CloseConn(c, end[c] = "no" \/ (end[c] # "reset" /\ eagain))
          /\ UNCHANGED <<state, unread, end, echo, cready>>

Message(c) ==
    /\ state = "running" /\ batch # <<>> /\ Head(batch) = c
    /\ batch' = Tail(batch)
    /\ handle_message(c)
    /\ UNCHANGED <<backlog, cpc, sends, faults>>

Client(c) == RecvAfterSend(c) \/ RecvOnEvent(c) \/ ServerGone(c)
Server == Loop \/ AcceptFails \/ Accept \/ \E c \in Clients : Message(c)

Next ==
    \/ Server
    \/ \E c \in Clients : Connect(c) \/ Timeout(c) \/ Kill(c) \/ UserTimeout(c) \/ Client(c)

Spec == Init /\ [][Next]_vars

\* The server runs, and a client reads what has come.
FairSpec == Spec /\ WF_vars(Server) /\ \A c \in Clients : WF_vars(Client(c))

-----------------------------------------------------------------------------
(* Properties.                                                             *)

\* Types, and: no socket is twice in the batch or in the list, and only
\* registered ones are announced.
TypeOK ==
    /\ state \in {"running", "returned", "killed"}
    /\ batch \in Seq(Clients \cup {Listener}) /\ IsInjective(batch)
    /\ ready \in Seq(registered \cup {Listener}) /\ IsInjective(ready)
    /\ maxevents \in Int /\ eagain \in BOOLEAN /\ faults \in 0 .. MaxFaults
    /\ backlog \in Seq(Clients)
    /\ registered \subseteq Clients /\ closed \subseteq Clients \ registered
    /\ unread \in [Clients -> Nat] /\ echo \in [Clients -> 0 .. SndMax]
    /\ end \in [Clients -> {"no", "fin", "reset", "pipe", "seen"}]
    /\ cpc \in [Clients -> {"new", "wait", "recv", "lost", "exited"}]
    /\ cready \in [Clients -> BOOLEAN] /\ sends \in [Clients -> 0 .. MaxSends]

\* The room epoll_wait has is at least the number of sockets it may report,
\* although errno may be left at 11 by an earlier call when a connection ends:
\* the count is then too high, never too low, and the loop does not end.
EnoughEvents ==
    /\ maxevents >= 1 + Cardinality(registered)
    /\ maxevents <= 1 + Cardinality(registered \cup closed)

\* The server closes no connection that is still good: EAGAIN, on which
\* handle_message closes too, is never what recv returns, because an event that
\* is out of date is not reported.
ClosedAfterEnd == \A c \in closed : end[c] # "no"

\* A message of a registered client is answered by at least one byte, unless
\* the connection is ended or a SIGPIPE ends the server.
EventuallyEchoed ==
    \A c \in Clients :
        (cpc[c] = "recv" /\ c \in registered) ~>
            (cpc[c] = "wait" \/ end[c] # "no" \/ state = "killed")

=============================================================================
