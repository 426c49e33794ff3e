----------------------------- MODULE PyHandler -----------------------------
(***************************************************************************)
(* How one connection is read by the two gevent servers: recvall and the   *)
(* loop of handler, in perf_gevent_echo_test/server_main.py ("gevent") and *)
(* in pyserver/src/pys_tcpserver.py ("pyserver").  What a request does in  *)
(* pyserver is module PyServer; here a task succeeds, fails or raises.     *)
(*                                                                         *)
(* A byte is known by its place in the stream.  The stream is a sequence   *)
(* of headers, known by where they begin and the number that they hold,    *)
(* each followed by the body it announces; NoMagic is a header that does   *)
(* not begin with the magic of pys_package.py.  The stream may end         *)
(* anywhere.                                                               *)
(***************************************************************************)
EXTENDS Integers, Sequences, FiniteSets, Functions

CONSTANTS
    HEAD_LEN,     \* bytes of a header
    MAX_BODY_LEN, \* the largest length accepted
    IntRange,     \* numbers that '!i' can hold: 2^32
    Numbers,      \* those that headers hold
    MaxHeaders,   \* bound: headers in a stream
    NoMagic

ASSUME HandlerAssumption ==
    /\ HEAD_LEN \in Nat \ {0} /\ MAX_BODY_LEN \in Nat
    /\ MAX_BODY_LEN < IntRange \div 2
    /\ IntRange \in Nat /\ Numbers \subseteq 0 .. IntRange - 1 /\ MaxHeaders \in Nat

VARIABLES
    server,      \* the program
    stream,      \* what the client sends
    sent, eof,   \* bytes that have arrived, and whether the end has
    handler,     \* where the greenlet is, and the locals of recvall
    sessionkey,  \* context['sessionkey'] is set
    logouts,     \* calls of the logout service
    bodies       \* the bodies handed to a task: first byte and length

handlerVars == <<server, stream, sent, eof, handler, sessionkey, logouts, bodies>>

\* struct.unpack('!i', ...): the number is signed.
Signed(n) == IF 2 * n >= IntRange THEN n - IntRange ELSE n

HasBody(n) == n # NoMagic /\ Signed(n) \in 1 .. MAX_BODY_LEN

\* Where a header ends with its body, counting bytes from 0; where the stream
\* ends.
EndOf(h)  == h.at + HEAD_LEN + IF HasBody(h.number) THEN h.number ELSE 0
StreamEnd == IF stream = <<>> THEN 0 ELSE EndOf(stream[Len(stream)])

\* A call of recvall for n bytes from byte p on.
Recvall(pc, p, n) == [pc |-> pc, at |-> p, total |-> n, data |-> 0, left |-> n]
Pos               == handler.at + handler.data

HandlerInit ==
    /\ server \in {"gevent", "pyserver"}
    /\ stream = <<>> /\ sent = 0 /\ eof = FALSE
    /\ handler = Recvall("header", 0, HEAD_LEN)
    /\ sessionkey = FALSE /\ logouts = 0 /\ bodies = <<>>

\* The client and the network.
Send(n) ==
    /\ sent = StreamEnd /\ ~eof /\ Len(stream) < MaxHeaders
    /\ n = NoMagic => server = "pyserver"
    /\ stream' = Append(stream, [at |-> StreamEnd, number |-> n])
    /\ UNCHANGED <<server, sent, eof, handler, sessionkey, logouts, bodies>>

Arrive ==
    /\ sent < StreamEnd /\ ~eof
    /\ sent' = sent + 1
    /\ UNCHANGED <<server, stream, eof, handler, sessionkey, logouts, bodies>>

End ==
    /\ ~eof /\ eof' = TRUE
    /\ UNCHANGED <<server, stream, sent, handler, sessionkey, logouts, bodies>>

Reading == handler.pc \in {"header", "body"}

\* Mutant of recv: what is left is counted from the last chunk only.
recvLastChunk(n) ==
    /\ Reading /\ n <= handler.left /\ Pos + n <= sent
    /\ handler' = [handler EXCEPT !.data = @ + n, !.left = handler.total - n]
    /\ UNCHANGED <<server, stream, sent, eof, sessionkey, logouts, bodies>>

\* One iteration of recvall: sock.recv(left) returns some of what has come.
recv(n) ==
    /\ Reading /\ n <= handler.left /\ Pos + n <= sent
    /\ handler' = [handler EXCEPT !.data = @ + n,
                                  !.left = handler.total - (handler.data + n)]
    /\ UNCHANGED <<server, stream, sent, eof, sessionkey, logouts, bodies>>

Goes(pc) == handler' = [handler EXCEPT !.pc = pc]
Ends     == Goes(IF server = "gevent" THEN "closed" ELSE "cleanup")
NextHeader == handler' = Recvall("header", Pos, HEAD_LEN)

\* recvall returns None.  handler tests header again where it means the body:
\* len(None) and json.loads(None) raise; a session that has its key is logged
\* out, and the loop goes on.
NoData ==
    /\ Reading /\ handler.left > 0 /\ eof /\ Pos = sent
    /\ IF handler.pc = "header" THEN Ends /\ UNCHANGED logouts
       ELSE IF server = "pyserver" /\ sessionkey
       THEN logouts' = logouts + 1 /\ (NextHeader \/ Goes("raised"))
       ELSE Goes("raised") /\ UNCHANGED logouts
    /\ UNCHANGED <<server, stream, sent, eof, sessionkey, bodies>>

\* The connection is reset: recv raises, whatever has arrived.
recvRaises ==
    /\ Reading /\ handler.left > 0
    /\ Goes("raised")
    /\ UNCHANGED <<server, stream, sent, eof, sessionkey, logouts, bodies>>

\* What the bytes from p on say, taken as a header: anything, if no header
\* begins there.
Stated(p) == LET hs == {h \in Range(stream) : h.at = p}
             IN  IF hs = {} THEN Numbers ELSE {h.number : h \in hs}

Header ==
    /\ handler.pc = "header" /\ handler.left <= 0
    /\ \E n \in Stated(handler.at) :
         \/ n = NoMagic /\ Goes("raised")
         \/ n # NoMagic /\ Signed(n) > MAX_BODY_LEN /\ Ends
         \/ HasBody(n) /\ handler' = Recvall("body", Pos, n)
         \/ /\ n # NoMagic /\ Signed(n) <= 0
            /\ IF server = "gevent" THEN NextHeader ELSE Ends
    /\ UNCHANGED <<server, stream, sent, eof, sessionkey, logouts, bodies>>

\* The echo is sent, or the first request opens the session and the others are
\* tasks.
Body ==
    /\ handler.pc = "body" /\ handler.left <= 0
    /\ bodies' = Append(bodies, [at |-> handler.at, len |-> handler.data])
    /\ \/ NextHeader /\ sessionkey' = (server = "pyserver")
       \/ Ends /\ server = "pyserver" /\ UNCHANGED sessionkey
       \/ Goes("raised") /\ UNCHANGED sessionkey
    /\ UNCHANGED <<server, stream, sent, eof, logouts>>

\* pyserver, after the loop: DoTask without a request logs the user out.
Cleanup ==
    /\ handler.pc = "cleanup"
    /\ logouts' = logouts + 1
    /\ Goes("closed") \/ Goes("raised")
    /\ UNCHANGED <<server, stream, sent, eof, sessionkey, bodies>>

HandlerNext ==
    \/ \E n \in Numbers \cup {NoMagic} : Send(n)
    \/ Arrive \/ End
    \/ \E n \in 1 .. StreamEnd : recv(n)
    \/ NoData \/ recvRaises \/ Header \/ Body \/ Cleanup

HandlerSpec == HandlerInit /\ [][HandlerNext]_handlerVars

-----------------------------------------------------------------------------
(* Properties.                                                             *)

HandlerTypeOK ==
    /\ handler.pc \in {"header", "body", "cleanup", "closed", "raised"}
    /\ handler.at \in Nat /\ handler.data \in 0 .. handler.total
    /\ handler.left = handler.total - handler.data
    /\ sent \in 0 .. StreamEnd /\ eof \in BOOLEAN /\ sessionkey \in BOOLEAN
    /\ logouts \in 0 .. 2 /\ Len(bodies) <= Len(stream)

\* The bodies that a reader of the whole stream finds in its first n bytes: up
\* to the first header that the server does not accept.
GoesOn(n) == HasBody(n) \/ (server = "gevent" /\ Signed(n) <= 0)

BodyOf(h) == [at |-> h.at + HEAD_LEN, len |-> h.number]

BodiesIn(n) ==
    {BodyOf(h) : h \in {h \in Range(stream) :
        /\ HasBody(h.number) /\ EndOf(h) <= n
        /\ \A g \in Range(stream) : g.at < h.at => GoesOn(g.number)}}

InsideBody(n) == \E h \in Range(stream) : h.at + HEAD_LEN <= n /\ n < EndOf(h)

\* However the stream arrives and wherever it ends, tasks are given the bodies
\* of the stream, whole and in order, none left out between two of them, and
\* when the handler waits for more, all of them.  A session that is closed has
\* been logged out once, or twice if its stream ended inside a body.
BodiesAreRight ==
    /\ Range(bodies) \subseteq BodiesIn(sent)
    /\ \A i, j \in DOMAIN bodies : i < j => bodies[i].at < bodies[j].at
    /\ \A b \in BodiesIn(sent), i \in DOMAIN bodies :
            b.at < bodies[i].at => b \in Range(bodies)
    /\ Reading /\ handler.left > 0 /\ Pos = sent => Range(bodies) = BodiesIn(sent)
    /\ handler.pc = "closed" /\ server = "pyserver" =>
            logouts = 1 \/ (logouts = 2 /\ InsideBody(sent))

=============================================================================
