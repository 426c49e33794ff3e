-------------------------- MODULE PerfEchoServer ---------------------------
(***************************************************************************)
(* The processes of the two performance servers: perf_libevent, one        *)
(* process that accepts for ever, and perf_libevent_multi_processes, whose *)
(* main forks processCnt children and waits for them.  A child deletes its *)
(* listener event when it has accepted, so it serves one connection and    *)
(* its loop ends with it.  The programs differ in nothing else modelled    *)
(* here, and prefork says which of the two runs.                           *)
(*                                                                         *)
(* What a client sends is abstracted to units: a header, a body, or a      *)
(* header with a length above 1000, which makes readcb call exit.  (The    *)
(* bytes of a frame are FrameReader's.)  errorcb frees nothing, so no      *)
(* accepted descriptor is closed before its process exits, none is used    *)
(* twice, and the tables by descriptor are functions of the connection.    *)
(***************************************************************************)
EXTENDS Integers, Sequences, FiniteSets, Functions

CONSTANTS
    Conns,         \* connections clients make
    processCnt,
    Fd_setsize,    \* FD_SETSIZE, counted from the first accepted descriptor
    Talkers,       \* bound: the connections on which units and resets are sent
    MaxUnits,      \* bound: units sent on each
    Stoppable,     \* bound: children that get one SIGSTOP, and SIGCONT
    None

ASSUME CountAssumption == processCnt \in Nat \ {0}
ASSUME LimitAssumption == Fd_setsize \in Nat /\ MaxUnits \in Nat
ASSUME NoneAssumption  == None \notin 0 .. processCnt - 1

Procs == 0 .. processCnt - 1
Units == {"header", "big", "body"}

VARIABLES
    prefork,    \* which program
    forks,      \* calls of fork made
    pids,       \* the children, as main has them in pids
    waited,     \* calls of waitpid returned
    proc,       \* Procs -> "none", "forked", "loop", "exited"
    stopped,    \* stopped by a signal
    changed,    \* stopped or continued at some time: waitpid reports it
    armed,      \* processes whose listener_event is added
    woken,      \* processes in which it is active
    backlog,    \* the listen queue they share
    conn,       \* Conns -> "none", "backlog", "open", "closed": server's end
    owner,      \* Conns -> the process that accepted it, or None
    peer,       \* Conns -> "in", "left" (FIN), "reset", "dead" (reset after
                \*   a FIN, or reported)
    sent,       \* Conns -> units sent
    nread,      \* Conns -> units taken from the socket
    header,     \* _fd_recvHeader: "header" (1), "body" (0), "none" (erased),
                \*   "lost" (0, but not at a body)
    reading,    \* EV_READ enabled
    writing,    \* EV_WRITE enabled
    out         \* Conns -> the output evbuffer is not empty

parentVars == <<prefork, forks, pids, waited>>
procVars   == <<proc, stopped, changed, armed, woken>>
connVars   == <<backlog, conn, owner>>
peerVars   == <<peer, sent>>
bevVars    == <<nread, header, reading, writing, out>>
vars       == <<parentVars, procVars, connVars, peerVars, bevVars>>

ParentDone == forks = processCnt /\ waited = Len(pids)
Running(p) == proc[p] = "loop" /\ p \notin stopped

\* A listening socket is open while some process has it.
Listened(ps, parentDone) ==
    ~parentDone \/ \E p \in Procs : ps[p] \in {"forked", "loop"}

Init ==
    /\ prefork \in BOOLEAN
    /\ forks = IF prefork THEN 0 ELSE processCnt
    /\ pids = <<>> /\ waited = 0
    /\ proc = [p \in Procs |-> IF ~prefork /\ p = 0 THEN "loop" ELSE "none"]
    /\ stopped = {} /\ changed = {}
    /\ armed = (IF prefork THEN {} ELSE {0}) /\ woken = {}
    /\ backlog = <<>>
    /\ conn = [c \in Conns |-> "none"]
    /\ owner = [c \in Conns |-> None]
    /\ peer = [c \in Conns |-> "in"]
    /\ sent = [c \in Conns |-> <<>>]
    /\ nread = [c \in Conns |-> 0]
    /\ header = [c \in Conns |-> "none"]
    /\ reading = [c \in Conns |-> FALSE] /\ writing = [c \in Conns |-> FALSE]
    /\ out = [c \in Conns |-> FALSE]

-----------------------------------------------------------------------------
(* Clients and signals.                                                    *)

Connect(c) ==
    /\ conn[c] = "none" /\ Listened(proc, ParentDone)
    /\ conn' = [conn EXCEPT ![c] = "backlog"]
    /\ backlog' = Append(backlog, c)
    /\ UNCHANGED <<owner, parentVars, procVars, peerVars, bevVars>>

AtHeader(s) == s = <<>> \/ s[Len(s)] # "header"

Send(c, u) ==
    /\ c \in Talkers /\ conn[c] \in {"backlog", "open"} /\ peer[c] = "in"
    /\ Len(sent[c]) < MaxUnits
    /\ "big" \notin Range(sent[c])
    /\ (u = "body") <=> ~AtHeader(sent[c])
    /\ sent' = [sent EXCEPT ![c] = Append(@, u)]
    /\ UNCHANGED <<peer, parentVars, procVars, connVars, bevVars>>

Leave(c, how) ==
    /\ conn[c] # "none" /\ peer[c] = "in"
    /\ how = "left" \/ (how = "reset" /\ c \in Talkers)
    /\ peer' = [peer EXCEPT ![c] = how]
    /\ UNCHANGED <<sent, parentVars, procVars, connVars, bevVars>>

Stop(p) ==
    /\ proc[p] \in {"forked", "loop"} /\ p \in Range(pids) \cap Stoppable
    /\ p \notin changed
    /\ stopped' = stopped \cup {p} /\ changed' = changed \cup {p}
    /\ UNCHANGED <<proc, armed, woken, parentVars, connVars, peerVars, bevVars>>

Continue(p) ==
    /\ p \in stopped
    /\ stopped' = stopped \ {p}
    /\ UNCHANGED <<proc, changed, armed, woken, parentVars, connVars, peerVars, bevVars>>

-----------------------------------------------------------------------------
(* The parent.                                                             *)

\* Mutant of Fork: main also keeps the pid of a fork that failed.
ForkPushesFailed ==
    /\ forks < processCnt
    /\ forks' = forks + 1
    /\ pids' = Append(pids, forks)
    /\ proc' = [proc EXCEPT ![forks] = "forked"] \/ UNCHANGED proc
    /\ UNCHANGED <<prefork, waited, stopped, changed, armed, woken, connVars,
                   peerVars, bevVars>>

\* fork succeeds, or fails and is printed.
Fork ==
    /\ forks < processCnt
    /\ forks' = forks + 1
    /\ \/ /\ pids' = Append(pids, forks)
          /\ proc' = [proc EXCEPT ![forks] = "forked"]
       \/ UNCHANGED <<pids, proc>>
    /\ conn' = [c \in Conns |->
                  IF conn[c] = "backlog"
                     /\ ~Listened(proc', forks' = processCnt /\ pids' = <<>>)
                  THEN "closed" ELSE conn[c]]
    /\ UNCHANGED <<prefork, waited, stopped, changed, armed, woken, backlog,
                   owner, peerVars, bevVars>>

\* waitpid(pids[i], &status, WUNTRACED | WCONTINUED); after the last, main
\* returns.
WaitFor(i) ==
    /\ forks = processCnt /\ waited < Len(pids)
    /\ proc[pids[i]] = "exited" \/ pids[i] \in changed
    /\ waited' = waited + 1
    /\ conn' = [c \in Conns |->
                  IF conn[c] = "backlog" /\ ~Listened(proc, waited' = Len(pids))
                  THEN "closed" ELSE conn[c]]
    /\ UNCHANGED <<prefork, forks, pids, procVars, backlog, owner, peerVars, bevVars>>

Waitpid == waited < Len(pids) /\ WaitFor(waited + 1)

-----------------------------------------------------------------------------
(* A process.                                                              *)

\* The child's part of main up to event_base_dispatch.
ChildStart(p) ==
    /\ proc[p] = "forked" /\ p \notin stopped
    /\ proc' = [proc EXCEPT ![p] = "loop"]
    /\ armed' = armed \cup {p}
    /\ UNCHANGED <<stopped, changed, woken, parentVars, connVars, peerVars, bevVars>>

\* A connection in the queue wakes every process that waits for one.
Wake(p) ==
    /\ Running(p) /\ p \in armed \ woken /\ \E c \in Conns : conn[c] = "backlog"
    /\ woken' = woken \cup {p}
    /\ UNCHANGED <<proc, stopped, changed, armed, parentVars, connVars, peerVars, bevVars>>

OpenOf(p) == {c \in Conns : conn[c] = "open" /\ owner[c] = p}

\* accept fails: another process was faster.
Unaccept(p) ==
    /\ backlog = <<>>
    /\ UNCHANGED <<armed, connVars, bevVars>>

\* The descriptor is the number of those this process has.
Refuse(c, p) ==
    /\ Cardinality(OpenOf(p)) > Fd_setsize
    /\ conn' = [conn EXCEPT ![c] = "closed"]
    /\ UNCHANGED <<armed, owner, bevVars>>

\* Mutant of DeleteListener: the single-process server deletes it too.
DeleteListenerAlways(p) == armed' = armed \ {p}

\* Mutant of DeleteListener: no process deletes it.
DeleteListenerNever(p) == UNCHANGED armed

\* event_del(listener_event), in the child of the pre-fork server only.
DeleteListener(p) == armed' = IF prefork THEN armed \ {p} ELSE armed

\* Mutant of Serve: _fd_recvHeader gets no entry.
ServeNoEntry(c, p) ==
    /\ Cardinality(OpenOf(p)) <= Fd_setsize
    /\ DeleteListener(p)
    /\ conn' = [conn EXCEPT ![c] = "open"]
    /\ owner' = [owner EXCEPT ![c] = p]
    /\ reading' = [reading EXCEPT ![c] = TRUE]
    /\ writing' = [writing EXCEPT ![c] = TRUE]
    /\ UNCHANGED <<nread, header, out>>

Serve(c, p) ==
    /\ Cardinality(OpenOf(p)) <= Fd_setsize
    /\ DeleteListener(p)
    /\ conn' = [conn EXCEPT ![c] = "open"]
    /\ owner' = [owner EXCEPT ![c] = p]
    /\ header' = [header EXCEPT ![c] = "header"]
    /\ reading' = [reading EXCEPT ![c] = TRUE]
    /\ writing' = [writing EXCEPT ![c] = TRUE]
    /\ UNCHANGED <<nread, out>>

\* Mutant of do_accept: the listener event is deleted before accept, and so
\* also when accept fails.
do_acceptDeletesFirst(p) ==
    /\ Running(p) /\ p \in woken
    /\ woken' = woken \ {p}
    /\ \/ /\ backlog = <<>> /\ DeleteListener(p)
          /\ UNCHANGED <<connVars, bevVars>>
       \/ /\ backlog # <<>> /\ backlog' = Tail(backlog)
          /\ Refuse(Head(backlog), p) \/ Serve(Head(backlog), p)
    /\ UNCHANGED <<proc, stopped, changed, parentVars, peerVars>>

do_accept(p) ==
    /\ Running(p) /\ p \in woken
    /\ woken' = woken \ {p}
    /\ \/ Unaccept(p)
       \/ /\ backlog # <<>> /\ backlog' = Tail(backlog)
          /\ Refuse(Head(backlog), p) \/ Serve(Head(backlog), p)
    /\ UNCHANGED <<proc, stopped, changed, parentVars, peerVars>>

\* exit(0): the kernel closes what the process has open, and the listening
\* socket with its last owner.
Exit(p) ==
    /\ proc' = [proc EXCEPT ![p] = "exited"]
    /\ armed' = armed \ {p} /\ woken' = woken \ {p}
    /\ conn' = [c \in Conns |->
                  IF c \in OpenOf(p)
                     \/ (conn[c] = "backlog" /\ ~Listened(proc', ParentDone))
                  THEN "closed" ELSE conn[c]]
    /\ UNCHANGED <<stopped, changed, backlog, owner>>

Stay == UNCHANGED <<procVars, connVars>>

Served(c) == conn[c] = "open" /\ Running(owner[c])

\* What readcb makes of the next unit.  A missing entry reads as 0, a body of
\* length 0: it is answered, and what follows is taken for a header.
TakeHeader(c, u) ==
    \/ /\ u = "header" /\ Stay
       /\ header' = [header EXCEPT ![c] = "body"]
    \/ /\ u = "big" /\ Exit(owner[c])
       /\ UNCHANGED header
    \/ /\ u = "body"
       /\ header' = [header EXCEPT ![c] = "lost"]
       /\ Stay \/ Exit(owner[c])

TakeBody(c) ==
    /\ out' = [out EXCEPT ![c] = TRUE]
    /\ header' = [header EXCEPT ![c] = "header"]
    /\ Stay

readcb(c) ==
    /\ Served(c) /\ reading[c] /\ nread[c] < Len(sent[c])
    /\ nread' = [nread EXCEPT ![c] = @ + 1]
    /\ LET u == sent[c][nread[c] + 1]
       IN  \/ header[c] = "header" /\ TakeHeader(c, u) /\ UNCHANGED out
           \/ header[c] = "body" /\ TakeBody(c)
           \/ /\ header[c] = "none" /\ TakeHeader(c, u)
              /\ out' = [out EXCEPT ![c] = TRUE]
           \/ /\ header[c] = "lost" /\ UNCHANGED <<header, out>>
              /\ Stay \/ Exit(owner[c])
    /\ UNCHANGED <<reading, writing, parentVars, peerVars>>

\* errorcb: the entries are erased on ECONNRESET, which the first call after
\* the reset reports; later ones report EPIPE or the end of the stream.
errorcb(c) ==
    /\ header' = [header EXCEPT ![c] = IF peer[c] = "reset" THEN "none" ELSE @]
    /\ peer' = [peer EXCEPT ![c] = IF @ = "reset" THEN "dead" ELSE @]
    /\ UNCHANGED <<sent, nread, out>> /\ Stay /\ UNCHANGED parentVars

\* The socket has no more bytes: libevent disables EV_READ and calls errorcb.
ReadEnd(c) ==
    /\ Served(c) /\ reading[c] /\ nread[c] = Len(sent[c]) /\ peer[c] # "in"
    /\ reading' = [reading EXCEPT ![c] = FALSE]
    /\ errorcb(c)
    /\ UNCHANGED writing

\* What was written to a client that has left is answered by a reset, which
\* after a FIN is reported as EPIPE.
Write(c) ==
    /\ Served(c) /\ writing[c] /\ out[c] /\ peer[c] \in {"in", "left"}
    /\ out' = [out EXCEPT ![c] = FALSE]
    /\ peer' = [peer EXCEPT ![c] = IF @ = "left" THEN "dead" ELSE @]
    /\ UNCHANGED <<sent, nread, header, reading, writing, parentVars, procVars, connVars>>

\* A write fails: libevent disables EV_WRITE, and EV_READ stays enabled.
WriteError(c) ==
    /\ Served(c) /\ writing[c] /\ out[c] /\ peer[c] \in {"reset", "dead"}
    /\ writing' = [writing EXCEPT ![c] = FALSE]
    /\ errorcb(c)
    /\ UNCHANGED reading

\* event_base_dispatch returns when no event is left, and the child exits.
LoopEnds(p) ==
    /\ Running(p) /\ p \notin armed \cup woken
    /\ \A c \in OpenOf(p) : ~reading[c] /\ ~(writing[c] /\ out[c])
    /\ Exit(p)
    /\ UNCHANGED <<parentVars, peerVars, bevVars>>

Client(c) ==
    Connect(c) \/ (\E u \in Units : Send(c, u))
               \/ (\E how \in {"left", "reset"} : Leave(c, how))
Signal(p) == Stop(p) \/ Continue(p)
Parent    == Fork \/ Waitpid
Listen(p) == ChildStart(p) \/ Wake(p) \/ do_accept(p) \/ LoopEnds(p)
Echo(c)   == readcb(c) \/ ReadEnd(c) \/ Write(c) \/ WriteError(c)

Next ==
    \/ Parent
    \/ \E p \in Procs : Signal(p) \/ Listen(p)
    \/ \E c \in Conns : Client(c) \/ Echo(c)

Spec == Init /\ [][Next]_vars

\* Processes are scheduled, and libevent calls every callback that is active.
FairSpec ==
    /\ Spec /\ WF_vars(Parent)
    /\ \A p \in Procs : WF_vars(Listen(p))
    /\ \A c \in Conns : WF_vars(Echo(c))

-----------------------------------------------------------------------------
(* Properties.                                                             *)

\* Types, and: the listener events belong to running processes, pids
\* holds processes that were forked, and a served connection has an
\* owner and has read no more than was sent.
TypeOK ==
    /\ prefork \in BOOLEAN
    /\ forks \in 0 .. processCnt /\ waited \in 0 .. Len(pids)
    /\ pids \in Seq(Procs) /\ Len(pids) <= forks
    /\ \A p \in Range(pids) : proc[p] # "none"
    /\ proc \in [Procs -> {"none", "forked", "loop", "exited"}]
    /\ stopped \subseteq changed /\ changed \subseteq Stoppable
    /\ woken \subseteq armed /\ armed \subseteq {p \in Procs : proc[p] = "loop"}
    /\ backlog \in Seq(Conns)
    /\ conn \in [Conns -> {"none", "backlog", "open", "closed"}]
    /\ owner \in [Conns -> Procs \cup {None}]
    /\ \A c \in Conns : conn[c] = "open" => owner[c] \in Procs
    /\ peer \in [Conns -> {"in", "left", "reset", "dead"}]
    /\ \A c \in Conns : sent[c] \in Seq(Units) /\ nread[c] \in 0 .. Len(sent[c])
    /\ header \in [Conns -> {"header", "body", "none", "lost"}]
    /\ reading \in [Conns -> BOOLEAN] /\ writing \in [Conns -> BOOLEAN]
    /\ out \in [Conns -> BOOLEAN]

\* A client that may end the process that serves it: it sent an oversize
\* length, or was reset in such a way that readcb takes a body for a length.
Provokes(c) == "big" \in Range(sent[c]) \/ header[c] = "lost"

\* The server closes a connection under its client only when a client of the
\* same process provokes it; in the pre-fork server, only when that client does.
Isolation ==
    \A c \in Conns :
        conn[c] = "closed" /\ owner[c] # None /\ peer[c] = "in" =>
            \E d \in Conns : /\ owner[d] = owner[c] /\ Provokes(d)
                             /\ prefork => d = c

\* A child of the pre-fork server serves one connection and no more before it
\* exits, and does not exit without one: no place among the processCnt is lost.
EachChildServesOne ==
    prefork => \A p \in Procs :
        LET served == {c \in Conns : owner[c] = p}
        IN  /\ Cardinality(served) <= 1
            /\ proc[p] = "exited" => served # {}

\* main returns when each of its children has exited, or has been stopped: the
\* flags WUNTRACED and WCONTINUED make waitpid return for such a child too.
ParentWaitsForAll ==
    prefork /\ ParentDone => \A p \in Range(pids) : proc[p] = "exited" \/ p \in changed

\* Every child that is forked has its one client, and main has waited for it.
ChildrenAccountedFor == EachChildServesOne /\ ParentWaitsForAll

\* readcb is called without an entry in _fd_recvHeader only for a connection
\* on which a write has already failed.
EntryWhileUsed ==
    \A c \in Conns :
        Served(c) /\ reading[c] /\ header[c] \in {"none", "lost"} =>
            ~writing[c] /\ peer[c] = "dead"

\* A child that can take a connection, now or when it has started.
Free(p) == proc[p] \in {"forked", "loop"} /\ \A c \in Conns : owner[c] # p

\* A client in the listen queue is taken from it, unless every child has its
\* connection or was stopped.
EventuallyAccepted ==
    \A c \in Conns :
        conn[c] = "backlog" ~>
            conn[c] # "backlog" \/ (prefork /\ \A p \in Procs : Free(p) => p \in changed)

\* When as many clients have come as there are children, and all have left,
\* the children exit and main returns.
AllLeft == /\ Cardinality({c \in Conns : conn[c] # "none"}) >= processCnt
           /\ \A c \in Conns : conn[c] # "none" => peer[c] # "in"
ServerEnds == (prefork /\ AllLeft) ~> (ParentDone \/ ~AllLeft)

=============================================================================
