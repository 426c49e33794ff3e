--------------------------- MODULE PyServerHistory ---------------------------
(***************************************************************************)
(* The server of PyServer, and a record of what happened to each user that *)
(* the services do not provide for.  The keys of a user in redis are right *)
(* until one of these things happens to that user, whatever other users    *)
(* and their connections do.                                               *)
(***************************************************************************)
EXTENDS PyServer

LOCAL INSTANCE TLC

VARIABLE
    spoilt   \* the users to whom such a thing has happened (history)

historyVars == <<vars, spoilt>>

\* A session of u ends by an exception, and no logout is run.
Dies(c, u) == uid[c] = u /\ pc'[c] = "dead"

\* A second login in the session of u: the context forgets u.
IsForgotten(c, u) == uid[c] = u /\ uid'[c] # u

\* u logs in again before its last session is over.
Overlaps(c, u) ==
    /\ At(c, Do("set")) /\ arg[c] = u
    /\ \E d \in Conns \ {c} : uid[d] = u /\ pc[d] # "closed"

\* redis raises in a call that was to set or to delete a key of u.
IsCutShort(c, u) ==
    /\ faults' # faults
    /\ \/ At(c, Do("set")) /\ arg[c] = u
       \/ (At(c, Do("del")) \/ At(c, Do("delloc"))) /\ uid[c] = u

\* uplocation found u online, and u no longer is when its location is set.
IsLate(u) == u \in located' /\ u \notin located \cup online

\* The session of u goes on after a logout: one that the client asked for, or
\* the first of two when a connection ends inside a body.
GoesOn(c, u) == At(c, Do("del")) /\ uid[c] = u /\ c \notin closing

SpoiltBy(c) ==
    {u \in Users : \/ Dies(c, u) \/ IsForgotten(c, u) \/ Overlaps(c, u)
                   \/ IsCutShort(c, u) \/ IsLate(u) \/ GoesOn(c, u)}

HistoryInit == Init /\ spoilt = {}

Recorded(c) == spoilt' = spoilt \cup SpoiltBy(c)

\* The steps of PyServer's Next, one by one.
ClientRecorded(c) ==
    \/ HangUp(c) /\ Recorded(c)
    \/ \E u \in Users : Connect(c, u) /\ Recorded(c)

handlerRecorded(c) ==
    \/ InitSession(c) /\ Recorded(c)
    \/ BadRequest(c) /\ Recorded(c)
    \/ Eof(c) /\ Recorded(c)
    \/ Truncated(c) /\ Recorded(c)
    \/ \E cmd \in Cmds, u \in Users : Request(c, cmd, u) /\ Recorded(c)

ServiceRecorded(c) ==
    \/ \E p \in Pools : PoolGet(c, p) /\ Recorded(c)
    \/ \E p \in Pools : PoolRelease(c, p) /\ Recorded(c)
    \/ Select(c) /\ Recorded(c)
    \/ SetOnline(c) /\ Recorded(c)
    \/ TestOnline(c) /\ Recorded(c)
    \/ Insert(c) /\ Recorded(c)
    \/ SetLocation(c) /\ Recorded(c)
    \/ DelOnline(c) /\ Recorded(c)
    \/ DelLocation(c) /\ Recorded(c)
    \/ SendResponse(c) /\ Recorded(c)
    \/ SendRaises(c) /\ Recorded(c)

FaultRecorded(c) ==
    \/ ServiceRaises(c) /\ Recorded(c)
    \/ CommitRaises(c) /\ Recorded(c)

HistoryNext ==
    \/ \E c \in Conns : \/ ClientRecorded(c) \/ handlerRecorded(c)
                         \/ ServiceRecorded(c) \/ FaultRecorded(c)
    \/ Finished /\ UNCHANGED spoilt

HistorySpec == HistoryInit /\ [][HistoryNext]_historyVars

\* gevent runs every greenlet that is ready; clients need do nothing.
FairSpec ==
    HistorySpec /\ \A c \in Conns : WF_vars(Service(c)) /\ WF_vars(Eof(c))

\* Connections are alike, and so are users.
Symmetry == Permutations(Conns) \cup Permutations(Users)

-----------------------------------------------------------------------------
(* Properties.                                                             *)

\* A key of u in c0 belongs to a session of u, ...
OnlineIsLoggedIn(u) ==
    u \in online => \E c \in Conns : pc[c] \in {"recv", "work"} /\ uid[c] = u

\* ... a session of u has its key until it ends, ...
SessionIsOnline(u) ==
    \A c \in Conns :
        pc[c] \in {"recv", "work"} /\ c \notin closing /\ uid[c] = u => u \in online

\* ... and a location of u is kept only while u is online or being logged out.
LocatedIsOnline(u) ==
    u \in located =>
        u \in online \/ \E c \in closing : uid[c] = u /\ pc[c] = "work"

\* What redis says of a user is what the user's sessions say, with any clients
\* and whatever MySQL and redis do, until one of the things of SpoiltBy happens
\* to that user: nothing else spoils it, and nothing that happens to another
\* user does.
RedisAgrees ==
    \A u \in Users \ spoilt :
        OnlineIsLoggedIn(u) /\ SessionIsOnline(u) /\ LocatedIsOnline(u)

=============================================================================
