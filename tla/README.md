# A TLA+ model of the `test-code` servers

The repository is a collection of small programs. Its core is a family of TCP
servers: three echo servers on libevent (one thread; one I/O thread with worker
threads; pre-forked processes), a gevent application server (`pyserver`) and an
epoll echo server. They share a few hard ideas: frames cut out of a byte stream,
work handed from thread to thread, descriptors used again, pools of connections,
session state kept in a shared store. Around the servers stand smaller programs, of
which those with something hard to test are modelled too. This directory holds the TLA+ modules that
model them, the TLC configurations that check the modules on small instances, and
the proofs of theorems that hold for every instance. `PROJECT.json` lists the
components, the runs, which line of the source each definition stands for, the
hazards and the theorems.

Run a check with `tlc -config MtEchoLimits.cfg MtEchoServer`, a proof with
`tlapm MtEchoServerProofs.tla`.

## 1. Inventory

| part | state | operations | what makes it correct |
|---|---|---|---|
| **Multi-thread echo server** `dev_examples/libevent_multithreads` | `sessions` (descriptor to `SessionInfo`), one input queue per worker, one output queue, one notify pipe per worker, evbuffers | `acceptcb`, `readcb`, `errorcb`, `writecb`, `readcbNotify` on the I/O thread; `WorkerProc` on each worker | each client gets the echo of its frames, in order, once; no reply is left without a wake-up; a client that has gone does no harm |
| **Frame reader** `readcb` in the three libevent servers | `recvingHeader`, `bodySize`, input evbuffer | `readcb` | the frames do not depend on how TCP cuts the stream; lengths are limited; the loop ends |
| **Single-thread echo server** `dev_examples/perf_libevent` | `_fd_recvHeader`, `_fd_sessionInfo` | `do_accept`, `readcb`, `errorcb` | descriptors are given back; which client can end the process |
| **Pre-fork echo server** `dev_examples/perf_libevent_multi_processes` | the same in each of 5 children, the listener event | `fork` loop, `do_accept`, `waitpid` loop | each child serves one connection and ends with it; no place is lost; children are waited for |
| **pyserver** `dev_examples/pyserver/src` | per greenlet: `context` (uid, session key); per process: pools of MySQL and redis connections; in redis: keys of online users and their locations | `handler`, `DoTask`, `login`, `logout`, `uplocation`, `echo`, pool `Get`/`Release` | pools lose nothing; services do not block one another; the redis keys say who is logged in |
| **pyserver packages** `src/util/pys_package.py`, `pys_common.py` | per connection: what `recvall` has read | header and magic, `recvall` | requests do not depend on how TCP cuts the stream |
| **gevent echo server** `perf_gevent_echo_test` | the same | `recvall`, `handler` | frames as above |
| **epoll echo server** `lite_test/TCP_USER_TIMEOUT_test` | epoll set, `maxevents` | `accept`, `handle_message` | `maxevents` is never below the number of registered sockets; no good connection is closed; a message is answered |
| **Twisted chat** `twisted_test/chat` | list of clients | `connectionMade`, `connectionLost`, `lineReceived` | a line reaches the clients that are connected |
| **CreateDirs** `lite_test/createdir_test` | the file system, shared by processes | `access`, `mkdir` per component | 0 means that the path exists; racing calls do not all fail because of one another |
| **protobuf test** `lite_test/protobuf_debugstring_test` | a `focustm` with its `userinfo`s: has bits, string pointers, cleared elements, cached sizes | accessors, `Clear`, `MergeFrom`, `CopyFrom`, `Swap`, parse, serialize | messages behave as values; no string is deleted twice or lost; what is written can be read |
| **log4cplus test** `lite_test/log4cplus_test` | processes, their log files, the clock | `fork`, `GenerateExtend`, `Log4cplus_AddExtenToFilename`, `wait` | each process has a log file of its own; the parent outlives its children |
| **Packet capture** `dev_examples/network_capture` | the packet counter; a position in the payload | `main`'s set-up, `got_packet`, `print_payload` | every byte of a payload is printed once, and nothing else |
| **IPHash** `lite_test/ip_hash` | none | `IPHash` | see section 7 |
| **LiteService, signal, exec, proxy, rpath, download** | little or none | calls of libraries and the system | see section 7 |

How the parts interact. In the multi-thread server the I/O thread and the workers
share the queues (a thread-safe queue of the external library `cppfoundation`) and
the pipes; nothing else crosses threads. `sessions` belongs to the I/O thread. A
queue element carries the *number* of a descriptor and no reference to a session:
this is where most of the server's hazards come from. In pyserver greenlets share
the pools of their process, and, with all other processes, redis and MySQL. Racing
`CreateDirs` share the file system, the log test's processes share pids, clock and
log directory, and threads that serialize one message share its cached sizes. The
other parts stand alone.

Hard behaviours: the order of Put, write, Get and erase between threads; a
descriptor that is closed and given to the next client while work for it is in
flight; blocking pipes and bounded pools; exceptions and hang-ups between any two
socket operations of a greenlet; a header and its body in different chunks, and
what is left of the reader's state after an oversize length. `PROJECT.json`
"hazards" lists them line by line.

## 2. Modules

| module | models | used by |
|---|---|---|
| `EchoService` | what the multi-thread server promises, without queues, threads or descriptors | instantiated in `MtEchoServer` |
| `MtEchoServer` | the multi-thread server, its clients and the kernel's side of its connections | runs `mt_*` |
| `MtEchoServerProofs` | theorems about `MtEchoServer` | |
| `FrameReader` | `readcb` at the level of bytes, one connection | run `frames` |
| `FrameReaderProofs` | theorems about `FrameReader` | |
| `WorkerStartup` | the start of the multi-thread server's workers | run `worker_startup` |
| `WorkerStartupProofs` | theorems about `WorkerStartup` | |
| `PerfEchoServer` | the processes of the single-thread and the pre-fork server: accepting, errors, exits, `fork` and `waitpid` | run `perf_echo` |
| `PerfEchoServerProofs` | theorems about `PerfEchoServer` | |
| `EpollEchoServer` | the epoll echo server and its test client | run `epoll_echo` |
| `EpollEchoServerProofs` | theorems about `EpollEchoServer` | |
| `PyServer` | one process of pyserver: handlers, services, pools, redis | `PyServerHistory`, run `py_reconnect` |
| `PyServerHistory` | `PyServer` with a record of what happened to each user | runs `py_patient`, `py_faults` |
| `PyServerProofs` | theorems about `PyServer` and `PyServerHistory` | |
| `PyHandler` | one connection of either gevent server, byte by byte | `SmallPrograms` |
| `MessageData` | the two protobuf messages: values, wire format, sizes, parsing | the next four |
| `MessageValue` | what the generated classes promise: messages are values | instantiated in `MessageObject` |
| `MessageObject` | the classes as objects: pointers, has bits, cleared elements | `SmallPrograms` |
| `MessageObjectProofs` | theorems about `MessageObject` | |
| `MessageSerialize` | threads that serialize one message, and its `_cached_size_`s | `SmallPrograms` |
| `MessageParse` | parsing and merging inputs, whole and broken | `SmallPrograms` |
| `PacketCapture` | `sniffex` and `custcap` | `SmallPrograms` |
| `LogProcesses` | the log4cplus test with several processes | `SmallPrograms` |
| `CreateDirs` | processes that call `CreateDirs` at once | `SmallPrograms` |
| `SmallPrograms` | these side by side, one of them running | run `small_programs` |
| `SmallProgramsProofs` | theorems about the other six, each on its own, and the types of all | |

### MtEchoServer

One action per callback of the I/O thread and per step of `WorkerProc`. The I/O
thread runs one callback at a time. A callback that only touches `sessions` and
evbuffers (`acceptcb`, `errorcb`) is one action. The two that touch a queue,
`readcb` and `readcbNotify`, are split at each `Put` and `TryGet`, because workers
run in between: `io` says which callback is running. `WorkerProc` has three
actions, `Get`, `Put` and `write`, and `pc[w]` says which is next.

| variable | code |
|---|---|
| `backlog`, `conn`, `hup` | the kernel: the listen queue, the server's side of a connection, whether the client has gone |
| `sessions` | `T_Sessions sessions`, descriptor to the connection its bufferevent serves |
| `sent`, `recvd`, `put` | frames in the socket, in the input evbuffer, queued |
| `queuesInput`, `queueOutput`, `pipe` | the queues and the bytes in each pipe |
| `pc`, `qe` | the worker's next step and its local `qe` |
| `reply`, `flushed` | the output evbuffer: everything ever added, and how much reached the client |
| `fdOf`, `got`, `done`, `taken` | history, read by no guard |

Data is abstracted to what the properties tell apart: the n-th frame of connection
c is the pair of c and n. `accept` returns the lowest free descriptor, as POSIX
says, so a descriptor is reused as soon as it can be. `errorcb` may run while bytes
of the client are still unread, which is what a reset does. Errors of `pipe`,
`bind` and other start-up calls are left out; `WorkerStartup` has the start of the
workers.

### FrameReader

Bytes come one at a time, and `Call` may follow any of them, so every division of
every stream into chunks is covered. The base of a byte and the largest body are
parameters; `ntohl` is what it computes. The servers differ in one place, the
reaction to an oversize length, and `policy` is either. The state after it is
modelled as the code leaves it: the header is gone from the buffer, `recvingHeader`
is 0 and `bodySize` is that of an earlier frame. `trusted` counts the frames
dispatched before that point.

### WorkerStartup

`main` gives each thread the address of an element of `thrags`, and goes on filling
`thrags`. `push_back` and `pthread_create` are actions of `main`, `ReadIndex` and
`ReadCtx` the start of `WorkerProc`, which copies the index first and the pointers to
the queues after it. `arg[w]` is the block of memory the thread's address points
into and `block` the one the vector is in; a read from an earlier block is undefined
and yields any index, one that names no queue (`Wild`), or pointers to anything. A full
vector doubles, as in libstdc++. `late` is a history variable.

### PerfEchoServer

Both programs in one module: `prefork` is chosen in `Init` and says whether there is
a parent and whether `do_accept` deletes the listener event. Processes share the
listen queue (`backlog`); `Wake` activates the listener event in any of them, and
`do_accept` may then find the queue empty. Four outside facts are modelled from how
the code uses them: a listening socket lives as long as a process has it;
`event_base_dispatch` returns when no event is left, so a child exits after its
connection has ended; libevent disables only EV_READ or EV_WRITE before it calls
`errorcb` with an error of that side; and the first call after a reset reports
ECONNRESET, the next ones EPIPE or the end of the stream, but bytes that had come
before are still read. After a FIN the reset is reported as EPIPE.

| variable | code |
|---|---|
| `forks`, `pids`, `waited` | the two loops of `main` |
| `proc`, `stopped`, `changed` | the kernel's state of each process |
| `armed`, `woken` | `listener_event` added, and active |
| `conn`, `owner`, `peer`, `sent`, `nread` | both ends of a connection |
| `header` | `_fd_recvHeader`: 1, 0, erased, or 0 at a byte that starts no body |
| `reading`, `writing`, `out` | the bufferevent: EV_READ, EV_WRITE, output not empty |

A client sends units: a header, a body, or a header with an oversize length. No
descriptor is closed before its process exits, so the tables are functions of the
connection. Errors of `accept` other than an empty queue are left out.

### EpollEchoServer

Server and client are both the repository's. `ready` is the kernel's list: an
arrival puts a registered socket there once, `epoll_wait` takes up to `maxevents` of
those that are still readable, and handling one takes one connection or one unit of
1024 bytes. `batch` is what is left of `events`. `eagain` says whether `errno` is 11,
which line 238 reads after calls that may not have set it. `end` is what the client
or the network did to the connection: a FIN, a reset (or ETIMEDOUT, for which the
program sets `TCP_USER_TIMEOUT`), or a reset after a FIN, which makes the next `send`
raise SIGPIPE; `recv` still returns 0 after it, and leaves `errno` as it is. `buf[sn]`
with `sn` -1 writes one byte before `buf`; it is taken to have no effect. `AcceptFails` includes the path that forgets an accepted
descriptor after a failed `setsockopt`. `Eager` clients are programs other than
`tcptest_client`, which never sends twice without an answer.

### PyServer

What is left of a request is a sequence of steps, `todo`, taken from the service's
code: `Get`s, calls of MySQL and redis, `Release`s, the send. Every step is an
action, since a greenlet may be switched at every socket operation, at a `Get` of an
empty pool and in `Release`. `ServiceRaises` is an exception inside `try`: the rest
of `todo` becomes its `finally` clause. `CommitRaises` and `SendRaises` are
exceptions outside it, which end the greenlet without a logout. The constant
`Clients` says how clients behave: "any" may send anything and leave at any time;
"eager" and "patient" do what `test/client/client_procedure.py` does, again and
again, and differ in whether the next connection waits for the end of the last
session. redis may raise, or answer that it did not set a key: then a login fails, and a
location is not recorded. A `recv` that raises is one more way into `BadRequest`. One
process is modelled: processes share redis only, whose operations are single steps here
too.

### PyServerHistory

What redis says of a user and what the user's sessions say do come apart: the services
provide for none of six things. `SpoiltBy` names each at the step where it happens: a
session ends by an exception (`Dies`), a second login makes the context forget the first
user (`IsForgotten`), a user logs in again before its last session is over (`Overlaps`),
redis raises in a call that sets or deletes a key (`IsCutShort`), a location is set after
the user has been logged out (`IsLate`), a session goes on after a logout (`GoesOn`).
`spoilt` collects the users it happened to, and no action reads it. `RedisAgrees` says that
nothing else sets the two apart, and that what happens to one user does not touch another.
With any of the six left out of `SpoiltBy` TLC finds `RedisAgrees` violated; for `IsLate`
this takes pools of two connections, since with one an `uplocation` keeps a `logout` out.

### PyHandler

`PyServer` takes a request whole; this module is how the bytes become requests. It has
the two handlers, which are written alike, in one: `server` is chosen in `Init`. A byte
is known by its place, so a body is a place and a length. `recv` returns any part of
what is asked for and has arrived. A length is signed, as `'!i'` is. Both programs test
`header` again where they mean the body: `NoData` is what follows, `len(None)` in one, a
logout and another turn of the loop in the other. `recvRaises` is a reset.

### The protobuf messages

| variable | code |
|---|---|
| `focus[m].ui`, `.n` | `ui_`: all elements that were ever made, and how many are current |
| `ptr` in a string field, 0 | `username_`, `msgtype_`; `&kEmptyString` |
| `heap`, `hand` | the strings allocated; the one the caller owns |
| `cached_size` | `_cached_size_` of each `userinfo`; that of the `focustm` is read by nobody |
| `sender` | a thread's place in `SerializeToString` |

`MessageObject` has an action for every public call of the two classes that changes
something. A string is its length, because nothing tells more apart, and a pointer may be
shared by a mistake of the code, which is what `StringsOwnedOnce` would see.
`MessageValue` says what these calls mean for values, without any of this, and
`MessageObject!ObjectsAreValues` is the refinement; it says that what the messages read as
changes in one of the ways that calls on values may, and leaves open which call that is.
`RepeatedPtrField`, the wire format and `SkipField` are the library's, modelled from how
the generated code uses them.
`SerializeWithCachedSizes`, to a stream, writes what the array variant writes.

### PacketCapture, LogProcesses, CreateDirs

`PacketCapture` knows a byte by its position in the frame; one action is one line of
`print_payload`. `custcap` does the same and does not print the payload. `LogProcesses`
knows a file by what was appended to the configured name; a pid is free again when its
process is reaped. `CreateDirs` has an action for each `access` and each `mkdir`, and a path
is its list of names. Other processes make directories and regular files at any time, and
either call may fail for any reason. `access` succeeds on a regular file as on a directory:
a call may then return 0 with a file at the end of its path, where its caller wants a
directory, and with a file further up its `mkdir` fails. Nobody removes anything: a
directory that is removed meanwhile is not in the model.

### SmallPrograms

These programs never meet. They stand in one module so that one run checks them:
`program` says which of them runs, and the others keep their initial state. The states of
the run are the sum of theirs, not the product.

## 3. What the runs check

| run | instance | shows |
|---|---|---|
| `mt_limits` | 3 connections, 1 request each, descriptors 0..2, limit 1, pipes of 1 byte | types; `NoLostWakeup`; the server implements `EchoService` |
| `mt_order` | 2 connections, 2 requests each, descriptors 0 and 2 (the same worker), pipes of 2 bytes | no frame is lost, duplicated or overtaken on its way (`HandOffsKeepOrder`); replies in order, left-over ones only before the connection's own, none of an open connection lost (`RepliesInPlace`) |
| `mt_polite` | 3 polite connections on 2 descriptors | each client gets its own replies only, every request is answered, every session erased |
| `mt_stale` | as above, impolite | **violation**: a reply reaches a client that did not ask |
| `frames` | base 2, bodies up to 2 bytes, streams up to 12 bytes | frames are those of a reference parser of the whole stream; nothing complete is left behind; `readcb` returns |
| `worker_startup` | 4 workers | a queue lacks its worker only because of a thread that failed or read too late; after the last growth no worker can be wrong |
| `perf_echo` | both servers; 3 connections, 2 children (one may be stopped and continued), 4 units on one connection, the third descriptor above the limit | who is disconnected when a process exits; one connection per child, none lost; `main` returns when it should |
| `epoll_echo` | 2 clients, one eager, room for 1 unit on the way back, 2 messages of up to 2 units, 1 fault | `maxevents` between the registered sockets and those ever accepted; only ended connections are closed; answers |
| `py_patient` | 2 connections, 2 users, pools of 1, 3 requests each | every request is answered, every session ends |
| `py_faults` | 2 connections, 2 users, pools of 1, 2 requests each, 1 exception; connections and users are symmetric | pools are conserved; no circular wait; redis keys agree with the sessions of every user that was not spoilt |
| `py_reconnect` | 2 eager connections of one user | **violation**: the logout of the old session logs the new one out |
| `small_programs` | one of: 2 messages, 2 strings, 1 element and 1 unknown field each; 2 threads that serialize up to 2 elements; 2 merges; 2 frames; 3 children with 3 pids in 2 seconds; 2 processes, paths of 2 names and 2 files or directories made by others; 2 headers | messages are values, strings have one owner, what is written has the right lengths and is read back, parsing keeps what was said but for what a failed call gives up; payload lines; log files; directories; bodies |

Bounds and why they are enough. A stale reply takes two connections and one
descriptor; overtaking takes two requests of one connection and two workers; a
blocked `write` takes a pipe of one byte and two replies; running out of
descriptors takes one connection more than there are descriptors. The runs have
each of these. `NotifyMax` (4096 in the code) is 1 so that a call may leave bytes
in the pipe. In `FrameReader` four bytes of base 2 encode lengths 0..15, so with
`MaxBody` 2 the empty, the largest and the oversize frame all occur, and twelve
bytes hold two frames and part of a third. In `PyServer` pools of one connection
make every possible wait happen; two greenlets are enough for a circle of two
pools, and the pools are taken in one order by all services.

`worker_startup` has 4 workers, more than the code's 2, so that the vector grows three
times and once has room left. In `perf_echo` four units are what it takes to have a reply
fail to be written while a body is still unread; one child fewer than clients makes
children compete and a client stay in the queue.

In `epoll_echo` room for one unit makes `send` fail with EAGAIN, messages of two
units leave something unread behind an edge-triggered event, and two clients let a
stale `errno` of one spoil the count for the other.

In `small_programs` the second message gives `MergeFrom`, `CopyFrom` and `Swap`
something to share, and one element is enough to be cleared and used again. Serializing
uses values whose lengths take one byte and two, so a length from another message is
seen. Inputs of the parser have up to two fields out of a list that has known numbers with the
right and with another wire type, unknown numbers, end-group tags and ends of the input,
in the message and in an element; the end of the input inside a field nested in an element is there for
each kind of field. Payloads have 0, 1, 16, 17 and 33 bytes: each way out of
`print_payload`. Three children and two seconds give two that start in the same one and
one that does not. Lengths in `PyHandler` are 0, 1, the largest, one more, and a negative
one; two headers let a broken one come before or after a good one.

Several properties are conjunctions of facts that belong together: `RepliesInPlace`,
`FramesAreRight` (`WellFramed`, `FrameBounded`), `StartupIsRight` (`InTimeIsRight`,
`AfterGrowthIsRight`), `ChildrenAccountedFor` (`EachChildServesOne`,
`ParentWaitsForAll`), `RedisAgrees` (`OnlineIsLoggedIn`, `SessionIsOnline`,
`LocatedIsOnline`), `LogsKeptApart` (`EachFileOneWriter`, `ParentReturnsLast`).

`SomeCallSucceeds` is the most that `CreateDirs` promises when several processes run it:
the one that is slower at some directory fails there with -1 and gives up, although nothing
is wrong. Not all of them can fail so, since each such failure is another's success. They
can all fail when the system refuses a `mkdir`, or when a process that is no caller was
quicker, and the property says nothing of such runs but what a return of 0 means.

`ParsedIsSaid` says of a call that fails exactly what it leaves. What came before the field
at which it gave up is there, but for two things: `ReadString` empties `msgtype` before it
reads its bytes, so a `msgtype` that is cut there has lost its earlier value, and a `ui` that
is cut, or whose own fields are bad, stays behind as one more element.

Some properties name what the code does not prevent as their exception: `RedisAgrees` (see
`PyServerHistory`), `Isolation` the clients whose own process a client has ended
(`Provokes`), `ChildrenAccountedFor` a child that was stopped, for which `waitpid` with
WUNTRACED returns as for one that has ended, `FramesAreRight` what follows an oversize length.
The hazards in `PROJECT.json` say so where it matters.

Two runs end in a violation, and the findings in `PROJECT.json` quote what the
repository says against it. In `mt_stale` a client sends a request and hangs up,
`errorcb` closes its descriptor, `accept` gives the number to the next client, and
then the worker's reply comes out of `queueOutput`. `EchoService` says exactly what
remains true: such replies belong to connections that are gone, come before any
reply of the connection's own, and each at most once. In `py_reconnect` the handler
of the old connection is still in `logout` when the new session has logged in.

### Fairness

`MtEchoServer!FairSpec` assumes weak fairness of each worker (threads are
scheduled), of the I/O thread inside a callback, and of each callback whose event
stays ready (libevent calls the callbacks of all active events in each round of its
loop). Clients are never obliged to do anything. `FrameReader` assumes that
`readcb` is called when bytes came and that it keeps running.
`PerfEchoServer!FairSpec` assumes that processes that are not stopped run and that
libevent calls each active callback; no client has to do anything, and a stopped child
need not be continued. `EpollEchoServer!FairSpec` assumes that the server runs and
that a client reads what has come. `PyServerHistory!FairSpec` assumes that a greenlet that can run does,
and that the end of a connection is noticed. Weak fairness of `Get` is enough although
other greenlets compete for the pool, because the number of requests is bounded in the
run.

## 4. Theorems

All but two are of the form `Spec => []P`; `EchoImplemented` and `MessagesAreValues` are
refinements. They hold for every value of the constants that satisfies the named assumptions,
and one of them, `PoliteSafe`, for the values that a hypothesis of its own names. Section 5
lists what the runs check and no theorem states.

**`MtEchoServerProofs`**: `TypeCorrect`, `WakeupSafe`, `HandOffsSafe`,
`RepliesSafe`. The first two are inductive
almost as they stand. The others rest on `IInv`, which adds to them

- `SessionsAgree`: a registered descriptor and an open connection name each other,
  which is what makes "the session under this descriptor" the right one while the
  connection lives;
- `CountersAgree`: sent >= recvd >= put >= got >= done >= taken for each
  connection, so that the intervals in `HandOffsKeepOrder` are intervals;
- `IsStale`, `StaleAhead`, `StaleAgree`: an element whose connection is closed was
  put before every element of the connection that has the descriptor now, in each
  queue and across the two. Without it nothing forbids a left-over reply after the
  connection's own;
- `RepliesAgree`: the last own reply of an open connection is the last that was
  taken.

`HandOffsKeepOrder` alone is not inductive for the output queue: a worker's `Put`
appends frame `got`, and only the equation of `got` and `done` with the element in
the worker's hand says that it follows the last one there.

`PoliteSafe` proves `RepliesAreOwn` for clients that read their replies before they hang
up (`Polite = TRUE`). A descriptor is then given back only when nothing of its connection
is on its way (`GoneIsAnswered`), so the element that `TryGet` takes is one of the session
that is registered. The hypothesis is needed: `mt_stale` is the counterexample without it.

`EchoImplemented` proves `ImplementsEcho`. `acceptcb` and `errorcb` open and drop, `readcbPut`
asks, a round of `readcbNotify` answers or leaks, and every other step is a stutter. The
abstract counter of leaked replies is a `Cardinality` of what the evbuffers hold. That a
reply is not counted twice needs `NoneTwice`, which relates the two counters to what left
`queueOutput`.

**`FrameReaderProofs`**: `TypeCorrect`, `FramesRight` (from `FramesSafe` and
`FramesBounded`), `RestSafe`, `ChunksSafe`.
`FramesSafe` rests on `Tail0` (the buffer is the stream from `pos` on) and `InStep`
(`pos` is at the end of the last frame, or four bytes after it with `bodySize` the
length those bytes encode). `InStep` holds until an oversize length and not after
it, which is why `WellFramed` speaks of the first `trusted` frames only.
`ChunksSafe` proves `ChunkingIrrelevant`, which compares with `Parse`, a recursive function
on the positions of the stream. That such a function exists and is unique (`ListsExist`,
`ListsUnique`) is proved by the least number for which it would not be so (`LeastNat`).
`ParsedSoFar` says that what `Parse` finds begins with the frames up to any trusted one, and
`RestParsed` that where `readcb` waits there are none after them, but an empty body whose
header it has read. After an oversize length the
invariant `Misled` keeps where that length is: after the last trusted frame, where `Parse`
stops too.

**`WorkerStartupProofs`**: `TypeCorrect`, `StartupSafe`. The invariant says that what a
worker has read in time is its own (`OnTime`), that only started workers have read, and the
index before the pointers (`ReadInOrder`), without which a worker could be started that
already has a wrong index. For `AfterGrowthIsRight` it adds `GrowthInv`: the capacity is
always reached by doublings (`CapacityDoubles`), an argument in an earlier block belongs
to a worker below a capacity the vector has outgrown (`OldIsMoved`), and so does a worker
that has read a wrong index or wrong pointers (`WrongIsMoved`). The powers of two are the
least set that holds 1 and is closed under doubling, so that no induction over them is
needed.

**`PerfEchoServerProofs`**: `TypeSafe`, `ClientsIsolated`, `EntriesSafe`, `ChildrenSafe`, from
one invariant. `OwnersAgree` ties a child's one connection to its listener event: none
before it listens, one when the event is deleted. `QueueAgrees` says that nobody owns a
connection in the listen queue. `EntriesAgree` gives the entry of `_fd_recvHeader` from the
units read so far, until a write has failed. `ProcsAgree` says that what `main` has waited
for has ended or was stopped.

**`PyServerProofs`**: `TypeSafe`, `PoolsSafe`, `StuckSafe`, `RedisSafe`. What is left of a
request (`todo`) is always `Orderly`: each `Release` once, after its `Get`, nested in the
order MySQL, first redis, second redis, and a `finally` clause puts back what the request
would have. With it the free, the held and the lost connections of a pool add up, and a
greenlet that waits for a pool holds earlier ones only, so that all wait only when a
pool is lost. `RedisSafe` holds for any clients and any exceptions; it is a
theorem about `PyServerHistory`, and `py_reconnect` shows what happens without the
exceptions that `SpoiltBy` names. Its invariant says of a user that is not spoilt that no
session of the user has died and one at most is not over (`Alone`), and that each key of the
user belongs to that session and, if the session is being closed, that the deletion of the
key is still ahead of it (`Keeps`); and of every session that is being closed that it has
nothing left but its logout (`ClosingLogsOut`), so that it sets nothing any more.

**`EpollEchoServerProofs`**: `TypeSafe`, `RoomSafe`, `CloseSafe`. The invariant says that
what is left of `events` is still true when it is handled (`BatchLive`), that a connection
is accepted once (`BacklogFresh`), and it holds the bounds of `maxevents` by the
cardinalities of `registered` and `closed` (`Counted`).

**`SmallProgramsProofs`**: `LogsSafe` (and `LogTypesSafe`), `DirsSafe`, `PayloadsSafe`,
`BodiesSafe`, `ParsesSafe`, `SerializesSafe`, `TypeCorrect`.

- `LogProcesses`: nobody is reaped before all are forked, so no two children ever have the
  same pid, and a file that is named after a pid has one writer whatever the seconds
  (`ForkThenReap`, `PidsDiffer`, `FilesNamed`, `FilesOwned`).
- `CreateDirs`: whoever made a directory went on past it (`Passed`), so a call that gave up
  there has one that came deeper than itself, and the deepest was beaten by nobody. What a
  call has passed is there, and what is there lies in a directory (`Behind`, `Tree`), so all
  of a path but its end are directories. The deepest is found with a well-founded order on
  the distance to `MaxDepth`, which takes no induction and no bound on the number of callers.
- `PacketCapture`: `Printing` says which lines have been printed and where `ch`, `len_rem`
  and `offset` then are.
- `PyHandler`: `InPlace` says that, while no body was cut, `recvall` is at a header or in
  the body of one, with everything before it accepted and exactly those bodies handed to
  tasks. `LogoutsAgree` has the second logout: it comes only when the stream was cut
  inside a body, and then nothing is read any more. That a waiting handler has handed out
  all the bodies that came follows from these and is no part of the invariant.
- `MessageParse`: `ParseInv` says that the message is what the fields it was given say, or,
  after a failed call, what `Spares` makes of that: the field at which the call gave up adds
  an element or changes `msgtype` and touches nothing else. What
  is proved for it is about the parsers, and for every sequence of fields, not only for the
  `Inputs` of the runs: one more whole field does to the message what it does to what the
  fields say (`UserReadsWell`, `FocusFieldRead`, `FocusSaidAppend`), and a parser that
  starts from any message stops where `WholePart` ends (`FocusReadsWell`).
- `MessageSerialize`: `Progress` says of each thread that the `_cached_size_`s up to where
  it is are the right ones, whoever wrote them, and that what it wrote is what the elements
  up to there are written as (`OutTo`). A thread that writes a size again writes the one
  that is there (`ProgressKept`); that is why the shared `_cached_size_` does no harm.
  `FocusIsWritten` says of any message that what is written for it has the size that was
  computed, has the right lengths in it, and parses back. It holds for any number of threads
  and elements, over the fields' values in `SomeUser` and `SomeFocus`.

Parsers, sums and selections are recursive functions of a place in a sequence. That such a
function is what its definition says is proved with `IteratesExist`, and induction over the
places of one sequence with `CountsUp`, which says that a set of places with 0 and the next
of each holds all of them; both rest on a well-founded order and take no operator as a
parameter.

`TypeCorrect` follows from the specifications of the programs that stand side by side in
`SmallPrograms` (the lemma `EachIsItself`), from `ObjectTypesSafe` of `MessageObjectProofs`
and from the invariants above. That no more bodies are handed out than headers came
(`BodiesAreFew`) is the one bound among the types that is not in the invariants: bodies are
in order, so each has a header of its own.

**`MessageObjectProofs`**: `StringsSafe`, `MessagesAreValues`, `ObjectTypesSafe`. What may
point to a string is a place: the hand, the `msgtype` of a message, the `username` of an
element, current or cleared. `ObjectInv`
says that the messages have their types and that the strings on the heap are those the
places point to, one place each (`Owned`). A call does one of three things to the places:
it fills empty ones with new strings (`Filled`: the setters, `MergeFrom`, `CopyFrom`), moves
what they point to (`Moved`: `Swap`; `release_...`, where a field and the empty hand
exchange what they point to), or deletes it (`Dropped`: destructors). `set_allocated_...` is
an exchange with the hand, after which what came into the hand is deleted. `FilledOwned`,
`MovedOwned` and `DroppedOwned` say that each keeps `Owned`. `CopyFrom` is `Clear` and
`MergeFrom`, and `KeepsTwice` joins the two.

`MessagesAreValues` proves `ObjectsAreValues`: every call on the objects is the step of
`MessageValue` it is named for, or a stutter (`mutable_...` of a field that is set, calls of
nobody's string). `ViewOf` is the value a message reads as. The invariant is `ReadInv`,
`ObjectInv` and `CleanFocus`: a field that is not set reads as empty, one that is set has a
string, and a cleared element reads as `NoUser`. Without it the refinement is not to be had,
since `userinfo::Clear` looks only at fields whose has bits are set and `add_ui` hands out
cleared elements again. A call changes the contents of strings of its own message only
(`StayBut`), and by `ObjectInv` no other message points to them (`AvoidsReads`,
`MessageReads`), which is where one owner for each string is needed.

`ObjectTypesSafe` adds to `ReadInv` that every message keeps within the bounds (`Fitting`),
cleared elements too, since `add_ui` and `MergeFrom` use them again.

Assumptions: the `ASSUME`s of the modules and the hypotheses named above. Two of the
`ASSUME`s are there for the proofs: `PyServer!ConnsAssumption` (finitely many clients, so
that the greenlets that hold a connection can be counted) and
`CreateDirs!CallersAssumption` (somebody calls, or no call could succeed). The bounds of
the runs are constants too, and the theorems hold for every value of them.

## 5. Only model-checked

- Liveness: `EventuallyEchoed`, `EventuallyErased`, `CallbackReturns`,
  `EventuallyAnswered`, `EventuallyClosed`, `EventuallyAccepted`, `ServerEnds`;
  `EpollEchoServer!EventuallyEchoed`.
  Fairness and ENABLED are out of the prover's reach.

## 6. Plan

Every safety property of the runs is proved; what is left is between the modules, which
are not composed: `FrameReader` and `MtEchoServer` meet at `readcb`, whose frames are the
bytes' meaning in the one and atoms in the other; `WorkerStartup` ends where `MtEchoServer`
begins; a unit of `PerfEchoServer` is a run of `FrameReader`'s bytes; `PyHandler` gives
`PyServer` its requests.

## 7. Not modelled

- Configuration (`ParseConf`, arguments, `bind` and `listen`), printing and logging:
  no state that outlives them.
- MySQL tables: no service reads what another wrote. That `Release` commits after a
  failed service is a listed hazard without a property, as is the SIGPIPE of the epoll
  server, which nothing in the code prevents.
- `Final` of the pools: never called.
- Ciphers, zlib, JSON, libpcap, log4cplus, the protobuf library, Twisted, the Windows
  service manager: libraries outside the repository. The filters of `pys_package.py`
  hold no state; the servers of `twisted_test` are a few callbacks the reactor runs one
  at a time.
- Of the generated protobuf code: descriptors and reflection, `DebugString`,
  `SerializeWithCachedSizes`, `SetCachedSize`, the default instances' set-up.
- `IPHash`: a pure function of one string whose only definition is its own code.
- `cap.c`, `custcap`'s unused `print_payload`, the printing of addresses and flags. Frames
  that state a longer packet than they hold are not in the model: `got_packet` does not
  look at `caplen`, and what it reads then is undefined. Neither is a filter that was not
  given, whose pointer is not initialised.
- `CreateDirs` with a path of 2048 characters or more, which `strncpy` does not terminate,
  and directories that somebody removes while it runs.
- What `catch(...)` in the log4cplus test does with an exception: only the library and
  allocation raise one there. A parent that catches one waits for children it may not have
  forked; a child writes a last record with the configuration it has, which may be its
  parent's, and returns.
- `raw_client.py`, which takes one `recv` for a header and one for a body.
- `pyserver/examples`, `signal_test`, `execve`, `setproctitle`, `download_example`,
  `proxy_test`, `rpath_test`, `test_multi_log`, `protobuf_python_test`: programs that try
  one call.
- `loggingmacros_ext.h`: a header of log4cplus with changed macros.
- Memory: allocation failure, and the shared pointers' reference counts, which only
  the I/O thread touches.
