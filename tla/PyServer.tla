------------------------------ MODULE PyServer ------------------------------
(***************************************************************************)
(* dev_examples/pyserver: one process of the gevent server.  Each          *)
(* connection is served by a greenlet (pys_tcpserver.handler), which reads *)
(* a request, runs the service the request names, sends its response, and  *)
(* logs the user out when the connection ends.                             *)
(*                                                                         *)
(* Greenlets share two things: the pools of connections to MySQL ("db")    *)
(* and to the two redis databases ("c0" holds the keys of the users that   *)
(* are online, "c1" their locations), and the content of those redis       *)
(* databases.  They are scheduled cooperatively and may be switched at     *)
(* every socket operation, at a Get of an empty pool and in Release, so    *)
(* what is left to do of a request is a sequence of steps, todo, and each  *)
(* step is an action.                                                      *)
(*                                                                         *)
(* The tables of MySQL, the encodings and what a response says are left    *)
(* out: no service reads what another one wrote to MySQL.                  *)
(***************************************************************************)
EXTENDS Integers, Sequences, FiniteSets

CONSTANTS
    Conns,          \* connections that clients make, each at most once
    Users,
    DbSize,         \* db_connection_pool_size
    C0Size, C1Size, \* cache_connection_pool_size of the two caches
    MaxReq,         \* bound: requests on one connection
    MaxFaults,      \* bound: exceptions raised by MySQL or redis
    Clients,        \* how clients behave, see below
    None

ASSUME SizeAssumption ==
    /\ DbSize \in Nat \ {0} /\ C0Size \in Nat \ {0} /\ C1Size \in Nat \ {0}
    /\ MaxReq \in Nat /\ MaxFaults \in Nat

ASSUME NoneAssumption == None \notin Users

ASSUME ConnsAssumption == IsFiniteSet(Conns)

\* "any": a client may send anything and leave at any time.  "eager": it
\* behaves as test/client/client_procedure.py, again and again: it logs in as
\* its user and reports that user's location, one request at a time, closes
\* the connection when it has its responses, and may then connect again.
\* "patient": before that it waits until the server has ended the session.
ASSUME ClientsAssumption == Clients \in {"any", "eager", "patient"}

Polite == Clients # "any"

Pools == {"db", "c0", "c1"}

PoolSize == [p \in Pools |-> CASE p = "db" -> DbSize
                               [] p = "c0" -> C0Size
                               [] p = "c1" -> C1Size]

-----------------------------------------------------------------------------
(* What a service does, step by step.                                      *)

Get(p) == [do |-> "get", of |-> p]
Put(p) == [do |-> "put", of |-> p]
Do(a)  == [do |-> a, of |-> None]

Cmds == {"echo", "login", "uplocation", "logout"}

LoginSteps ==
    <<Get("db"), Get("c0"), Do("select"), Do("set"), Put("c0"), Put("db"),
      Do("send")>>

UplocationSteps ==
    <<Get("db"), Get("c0"), Get("c1"), Do("online?"), Do("insert"),
      Do("setloc"), Put("c1"), Put("c0"), Put("db"), Do("send")>>

\* Mutant of LogoutSteps: the caches are taken in the other order.
LogoutC1First ==
    <<Get("c1"), Get("c0"), Do("del"), Do("delloc"), Put("c1"), Put("c0")>>

\* logout has no response.
LogoutSteps ==
    <<Get("c0"), Get("c1"), Do("del"), Do("delloc"), Put("c1"), Put("c0")>>

EchoSteps == <<Do("send")>>

Steps(cmd) == CASE cmd = "login"      -> LoginSteps
                [] cmd = "uplocation" -> UplocationSteps
                [] cmd = "logout"     -> LogoutSteps
                [] cmd = "echo"       -> EchoSteps

\* The finally clause around a call of a service: what the service got goes
\* back, and without a response nothing is sent.
Finally(call) ==
    CASE call \in {"select", "set"}               -> <<Put("c0"), Put("db")>>
      [] call \in {"online?", "insert", "setloc"} -> <<Put("c1"), Put("c0"), Put("db")>>
      [] call \in {"del", "delloc"}               -> <<Put("c1"), Put("c0")>>

VARIABLES
    pc,       \* Conns -> "idle", "init" (no session key yet), "recv", "work",
              \*          "closed", or "dead" (ended by an exception)
    owner,    \* Conns -> the user for whom a polite client made the connection
    gone,     \* the connections whose client has closed
    eof,      \* the connections whose end was met inside a body
    closing,  \* the connections whose handler has left its loop
    todo,     \* Conns -> steps left of the request being served
    arg,      \* Conns -> user named in that request
    uid,      \* Conns -> context['uid']
    free,     \* Pools -> number of free connections
    lost,     \* Pools -> connections that were never put back (history)
    online,   \* users with a key in redis database c0
    located,  \* users with a key in redis database c1
    asked, answered,  \* Conns -> requests received, responses sent
    faults    \* exceptions so far

peerVars  == <<owner, gone, eof, closing>>
jobVars   == <<todo, arg, uid>>
poolVars  == <<free, lost>>
redisVars == <<online, located>>
cntVars   == <<asked, answered, faults>>
vars == <<pc, peerVars, jobVars, poolVars, redisVars, cntVars>>

Init ==
    /\ pc = [c \in Conns |-> "idle"]
    /\ owner = [c \in Conns |-> None]
    /\ gone = {} /\ eof = {} /\ closing = {}
    /\ todo = [c \in Conns |-> <<>>]
    /\ arg = owner /\ uid = owner
    /\ free = PoolSize
    /\ lost = [p \in Pools |-> 0]
    /\ online = {} /\ located = {}
    /\ asked = [c \in Conns |-> 0] /\ answered = asked
    /\ faults = 0

-----------------------------------------------------------------------------
(* Clients.                                                                *)

Connect(c, u) ==
    /\ pc[c] = "idle"
    /\ \A d \in Conns : owner[d] = u =>
         CASE Clients = "any"     -> TRUE
           [] Clients = "eager"   -> d \in gone
           [] Clients = "patient" -> pc[d] = "closed"
    /\ pc' = [pc EXCEPT ![c] = "init"]
    /\ owner' = IF Polite THEN [owner EXCEPT ![c] = u] ELSE owner
    /\ UNCHANGED <<gone, eof, closing, jobVars, poolVars, redisVars, cntVars>>

\* A polite client closes when it has all its responses.
HangUp(c) ==
    /\ pc[c] \notin {"idle", "closed", "dead"} /\ c \notin gone
    /\ Polite => pc[c] = "recv"
    /\ gone' = gone \cup {c}
    /\ UNCHANGED <<pc, owner, eof, closing, jobVars, poolVars, redisVars,
                   cntVars>>

-----------------------------------------------------------------------------
(* The loop of handler.                                                    *)

\* The first message carries the session key; without one handler leaves its
\* loop, and data that is not JSON raises an exception.
InitSession(c) ==
    /\ pc[c] = "init"
    /\ \/ /\ pc' = [pc EXCEPT ![c] = "recv"]
          /\ UNCHANGED <<closing, todo>>
       \/ /\ ~Polite
          /\ pc' = [pc EXCEPT ![c] = "work"]
          /\ closing' = closing \cup {c}
          /\ todo' = [todo EXCEPT ![c] = LogoutSteps]
       \/ /\ ~Polite
          /\ pc' = [pc EXCEPT ![c] = "dead"]
          /\ UNCHANGED <<closing, todo>>
    /\ UNCHANGED <<owner, gone, eof, arg, uid, poolVars, redisVars, cntVars>>

Request(c, cmd, u) ==
    /\ pc[c] = "recv" /\ c \notin eof /\ asked[c] < MaxReq
    /\ Polite => u = owner[c] /\ cmd # "logout" /\ c \notin gone
    /\ pc' = [pc EXCEPT ![c] = "work"]
    /\ todo' = [todo EXCEPT ![c] = Steps(cmd)]
    /\ arg' = [arg EXCEPT ![c] = u]
    /\ asked' = [asked EXCEPT ![c] = @ + 1]
    /\ UNCHANGED <<peerVars, uid, poolVars, redisVars, answered, faults>>

\* A header without the magic, a body that is not JSON, a request without cmd
\* or one that names no service: the exception ends the greenlet.  So does recv
\* when the connection is reset.
BadRequest(c) ==
    /\ ~Polite /\ pc[c] = "recv" /\ c \notin eof
    /\ pc' = [pc EXCEPT ![c] = "dead"]
    /\ UNCHANGED <<peerVars, jobVars, poolVars, redisVars, cntVars>>

\* Mutant of Eof: the socket is closed and no logout is run.
EofNoLogout(c) ==
    /\ pc[c] \in {"init", "recv"}
    /\ c \in gone \/ ~Polite
    /\ pc' = [pc EXCEPT ![c] = "dead"]
    /\ UNCHANGED <<peerVars, jobVars, poolVars, redisVars, cntVars>>

\* The connection ends before a header (or the length in the header is out of
\* range): handler leaves its loop and runs logout.
Eof(c) ==
    /\ pc[c] \in {"init", "recv"}
    /\ c \in gone \/ ~Polite
    /\ pc' = [pc EXCEPT ![c] = "work"]
    /\ closing' = closing \cup {c}
    /\ todo' = [todo EXCEPT ![c] = LogoutSteps]
    /\ UNCHANGED <<owner, gone, eof, arg, uid, poolVars, redisVars, cntVars>>

\* The connection ends inside a body.  handler tests header, not req: without
\* a session key json.loads(None) raises, with one logout is run at once, and
\* again when the next header does not come.
Truncated(c) ==
    /\ ~Polite /\ c \in gone \ eof
    /\ eof' = eof \cup {c}
    /\ \/ /\ pc[c] = "init"
          /\ pc' = [pc EXCEPT ![c] = "dead"]
          /\ UNCHANGED todo
       \/ /\ pc[c] = "recv"
          /\ pc' = [pc EXCEPT ![c] = "work"]
          /\ todo' = [todo EXCEPT ![c] = LogoutSteps]
    /\ UNCHANGED <<owner, gone, closing, arg, uid, poolVars, redisVars,
                   cntVars>>

-----------------------------------------------------------------------------
(* The steps of a service.                                                 *)

At(c, step) == pc[c] = "work" /\ todo[c][1] = step

\* The rest of c's work; when there is none handler reads the next request,
\* or closes the socket and ends.
Continue(c, rest) ==
    /\ todo' = [todo EXCEPT ![c] = rest]
    /\ pc' = [pc EXCEPT ![c] = IF rest # <<>> THEN "work"
                               ELSE IF c \in closing THEN "closed" ELSE "recv"]

\* Mutant of PoolGet: it does not block, and hands out what is not there.
PoolGetNoWait(c, p) ==
    /\ At(c, Get(p))
    /\ free' = [free EXCEPT ![p] = @ - 1]
    /\ Continue(c, Tail(todo[c]))
    /\ UNCHANGED <<peerVars, arg, uid, lost, redisVars, cntVars>>

\* Get blocks while the pool is empty.
PoolGet(c, p) ==
    /\ At(c, Get(p)) /\ free[p] > 0
    /\ free' = [free EXCEPT ![p] = @ - 1]
    /\ Continue(c, Tail(todo[c]))
    /\ UNCHANGED <<peerVars, arg, uid, lost, redisVars, cntVars>>

PoolRelease(c, p) ==
    /\ At(c, Put(p))
    /\ free' = [free EXCEPT ![p] = @ + 1]
    /\ Continue(c, Tail(todo[c]))
    /\ UNCHANGED <<peerVars, arg, uid, lost, redisVars, cntVars>>

\* select_user finds the user, or does not and nothing is set.
Select(c) ==
    /\ At(c, Do("select"))
    /\ Continue(c, Tail(todo[c])) \/ Continue(c, Tail(Tail(todo[c])))
    /\ UNCHANGED <<peerVars, arg, uid, poolVars, redisVars, cntVars>>

\* Mutant of SetOnline: the context does not remember the user.
SetOnlineOnly(c) ==
    /\ At(c, Do("set"))
    /\ online' = online \cup {arg[c]}
    /\ Continue(c, Tail(todo[c]))
    /\ UNCHANGED <<peerVars, arg, uid, poolVars, located, cntVars>>

\* cache.set; then the context remembers who is logged in, and forgets who was.
\* When redis answers that it did not set the key, the login fails.
SetOnline(c) ==
    /\ At(c, Do("set"))
    /\ \/ /\ online' = online \cup {arg[c]}
          /\ uid' = [uid EXCEPT ![c] = arg[c]]
       \/ UNCHANGED <<online, uid>>
    /\ Continue(c, Tail(todo[c]))
    /\ UNCHANGED <<peerVars, arg, poolVars, located, cntVars>>

\* cache0.get: the location is recorded only for a user that is online.
TestOnline(c) ==
    /\ At(c, Do("online?"))
    /\ Continue(c, IF arg[c] \in online THEN Tail(todo[c])
                                        ELSE Tail(Tail(Tail(todo[c]))))
    /\ UNCHANGED <<peerVars, arg, uid, poolVars, redisVars, cntVars>>

\* update_location inserts a row; without it cache1 is not set.
Insert(c) ==
    /\ At(c, Do("insert"))
    /\ Continue(c, Tail(todo[c])) \/ Continue(c, Tail(Tail(todo[c])))
    /\ UNCHANGED <<peerVars, arg, uid, poolVars, redisVars, cntVars>>

\* cache1.set, which redis may answer not to have done.
SetLocation(c) ==
    /\ At(c, Do("setloc"))
    /\ located' \in {located, located \cup {arg[c]}}
    /\ Continue(c, Tail(todo[c]))
    /\ UNCHANGED <<peerVars, arg, uid, poolVars, online, cntVars>>

\* logout deletes the keys of the user in the context, if there is one.  The
\* context keeps it.
DelOnline(c) ==
    /\ At(c, Do("del"))
    /\ online' = online \ {uid[c]}
    /\ Continue(c, Tail(todo[c]))
    /\ UNCHANGED <<peerVars, arg, uid, poolVars, located, cntVars>>

DelLocation(c) ==
    /\ At(c, Do("delloc"))
    /\ located' = located \ {uid[c]}
    /\ Continue(c, Tail(todo[c]))
    /\ UNCHANGED <<peerVars, arg, uid, poolVars, online, cntVars>>

SendResponse(c) ==
    /\ At(c, Do("send"))
    /\ answered' = [answered EXCEPT ![c] = @ + 1]
    /\ Continue(c, Tail(todo[c]))
    /\ UNCHANGED <<peerVars, arg, uid, poolVars, redisVars, asked, faults>>

\* sendall to a client that has gone raises, and no logout is run.
SendRaises(c) ==
    /\ At(c, Do("send")) /\ c \in gone
    /\ pc' = [pc EXCEPT ![c] = "dead"]
    /\ todo' = [todo EXCEPT ![c] = <<>>]
    /\ UNCHANGED <<peerVars, arg, uid, poolVars, redisVars, cntVars>>

\* c is about to call MySQL or redis inside try; logout calls redis only when
\* the context names a user.
Calls(c) ==
    /\ pc[c] = "work"
    /\ \/ todo[c][1].do \in {"select", "set", "online?", "insert", "setloc"}
       \/ todo[c][1].do \in {"del", "delloc"} /\ uid[c] # None

\* Mutant of ServiceRaises: the services have no finally clause.
ServiceRaisesNoFinally(c) ==
    /\ Calls(c) /\ faults < MaxFaults
    /\ faults' = faults + 1
    /\ Continue(c, <<>>)
    /\ UNCHANGED <<peerVars, arg, uid, poolVars, redisVars, asked, answered>>

\* MySQL or redis raises inside try, before or after it did what it was asked:
\* the service releases what it holds and has no response.
ServiceRaises(c) ==
    /\ Calls(c) /\ faults < MaxFaults
    /\ faults' = faults + 1
    /\ online' \in {online,
                    CASE todo[c][1].do = "set" -> online \cup {arg[c]}
                      [] todo[c][1].do = "del" -> online \ {uid[c]}
                      [] OTHER -> online}
    /\ located' \in {located,
                     CASE todo[c][1].do = "setloc" -> located \cup {arg[c]}
                       [] todo[c][1].do = "delloc" -> located \ {uid[c]}
                       [] OTHER -> located}
    /\ Continue(c, Finally(todo[c][1].do))
    /\ UNCHANGED <<peerVars, arg, uid, poolVars, asked, answered>>

\* commit raises in Release: the connection is not put back, and the exception
\* leaves the finally clause, DoTask and handler.
CommitRaises(c) ==
    /\ At(c, Put("db")) /\ faults < MaxFaults
    /\ faults' = faults + 1
    /\ lost' = [lost EXCEPT !["db"] = @ + 1]
    /\ pc' = [pc EXCEPT ![c] = "dead"]
    /\ todo' = [todo EXCEPT ![c] = <<>>]
    /\ UNCHANGED <<peerVars, arg, uid, free, redisVars, asked, answered>>

Service(c) ==
    \/ \E p \in Pools : PoolGet(c, p) \/ PoolRelease(c, p)
    \/ Select(c) \/ SetOnline(c)
    \/ TestOnline(c) \/ Insert(c) \/ SetLocation(c)
    \/ DelOnline(c) \/ DelLocation(c)
    \/ SendResponse(c) \/ SendRaises(c)

Fault(c) == ServiceRaises(c) \/ CommitRaises(c)

handler(c) ==
    \/ InitSession(c) \/ BadRequest(c) \/ Eof(c) \/ Truncated(c)
    \/ \E cmd \in Cmds, u \in Users : Request(c, cmd, u)

Client(c) == HangUp(c) \/ \E u \in Users : Connect(c, u)

\* All connections have come and gone.
Finished ==
    /\ \A c \in Conns : pc[c] \in {"closed", "dead"}
    /\ UNCHANGED vars

Next ==
    \/ \E c \in Conns : Client(c) \/ handler(c) \/ Service(c) \/ Fault(c)
    \/ Finished

Spec == Init /\ [][Next]_vars

-----------------------------------------------------------------------------
(* Properties.                                                             *)

StepsOf == {Get(p) : p \in Pools} \cup {Put(p) : p \in Pools}
           \cup {Do(a) : a \in {"select", "set", "online?", "insert", "setloc",
                                "del", "delloc", "send"}}

TypeOK ==
    /\ pc \in [Conns -> {"idle", "init", "recv", "work", "closed", "dead"}]
    /\ owner \in [Conns -> Users \cup {None}]
    /\ gone \subseteq Conns /\ eof \subseteq gone /\ closing \subseteq Conns
    /\ todo \in [Conns -> Seq(StepsOf)]
    /\ \A c \in Conns : pc[c] = "work" <=> todo[c] # <<>>
    /\ arg \in [Conns -> Users \cup {None}]
    /\ uid \in [Conns -> Users \cup {None}]
    /\ free \in [Pools -> Nat] /\ lost \in [Pools -> Nat]
    /\ online \subseteq Users /\ located \subseteq Users
    /\ asked \in [Conns -> 0 .. MaxReq] /\ answered \in [Conns -> 0 .. MaxReq]
    /\ faults \in 0 .. MaxFaults

Pending(c) == {todo[c][i] : i \in DOMAIN todo[c]}

\* c has got a connection of pool p and not put it back.
Holds(c, p) == Put(p) \in Pending(c) /\ Get(p) \notin Pending(c)

\* Whatever raises, and wherever: each connection of a pool is free, held by
\* one greenlet, or was lost in a commit that raised; none is put back twice.
PoolsConserved ==
    \A p \in Pools :
        free[p] + Cardinality({c \in Conns : Holds(c, p)}) + lost[p]
            = PoolSize[p]

\* Greenlets never wait on one another in a circle: if all that have work wait
\* for a pool, then a pool has lost all its connections.
Waits(c) == \E p \in Pools : At(c, Get(p)) /\ free[p] = 0

Working == {c \in Conns : pc[c] = "work"}

StuckOnlyByLoss ==
    Working # {} /\ (\A c \in Working : Waits(c)) =>
        \E p \in Pools : lost[p] = PoolSize[p]

\* A user that is logged in has its key in c0 until its session ends: a
\* location is taken only of a user that has (pys_uplocation.py).
LoggedInIsOnline ==
    \A c \in Conns :
        pc[c] \in {"recv", "work"} /\ c \notin closing /\ uid[c] # None
            => uid[c] \in online

\* Every request of a polite client is answered, however many greenlets share
\* however few connections.
EventuallyAnswered ==
    \A c \in Conns : \A k \in 1 .. MaxReq : asked[c] >= k ~> answered[c] >= k

\* A session whose client has gone comes to its end.
EventuallyClosed == \A c \in Conns : c \in gone ~> pc[c] = "closed"

=============================================================================
