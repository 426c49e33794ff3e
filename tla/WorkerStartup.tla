--------------------------- MODULE WorkerStartup ---------------------------
(***************************************************************************)
(* dev_examples/libevent_multithreads, main: how the workers are started.  *)
(*                                                                         *)
(* main appends one ThreadArg per worker to the vector thrags and passes   *)
(* the address of the new element to pthread_create.  The vector grows as  *)
(* it is filled: when it is full, push_back moves its elements to a larger *)
(* block and frees the old one, while a worker started before may not yet  *)
(* have copied its argument.  What it then reads is freed memory: its old  *)
(* content, or whatever was written there since.                           *)
(***************************************************************************)
EXTENDS Integers, FiniteSets

CONSTANTS
    threads_cnt,
    Wild           \* an index that names no queue

ASSUME CountAssumption == threads_cnt \in Nat \ {0}
ASSUME WildAssumption  == Wild \notin Int

Workers == 0 .. threads_cnt - 1

VARIABLES
    i,          \* main's loop counter: elements pushed
    pushed,     \* TRUE between push_back and pthread_create
    capacity,   \* of thrags
    block,      \* number of the block thrags is in: blocks ever allocated
    started,    \* the workers whose thread was created
    failed,     \* the workers whose pthread_create failed
    arg,        \* Workers -> block the argument's address points into
    index,      \* Workers -> index read by WorkerProc, or -1
    ctx,        \* Workers -> what it read as the pointers to the queues
    late        \* workers that read after their block was freed (history)

vars == <<i, pushed, capacity, block, started, failed, arg, index, ctx, late>>

Init ==
    /\ i = 0 /\ pushed = FALSE
    /\ capacity = 0 /\ block = 0
    /\ started = {} /\ failed = {}
    /\ arg = [w \in Workers |-> 0]
    /\ index = [w \in Workers |-> -1]
    /\ ctx = [w \in Workers |-> "unread"]
    /\ late = {}

\* Mutant of push_back: the vector grows by one element at a time.
push_backByOne ==
    /\ i < threads_cnt /\ ~pushed
    /\ pushed' = TRUE
    /\ capacity' = capacity + 1 /\ block' = block + 1
    /\ UNCHANGED <<i, started, failed, arg, index, ctx, late>>

\* thrags.push_back(tharg): a full vector doubles, in a new block.
push_back ==
    /\ i < threads_cnt /\ ~pushed
    /\ pushed' = TRUE
    /\ IF i = capacity
       THEN /\ capacity' = IF capacity = 0 THEN 1 ELSE 2 * capacity
            /\ block' = block + 1
       ELSE UNCHANGED <<capacity, block>>
    /\ UNCHANGED <<i, started, failed, arg, index, ctx, late>>

\* Mutant of pthread_create: main tries a worker again that it could not start.
pthread_createRetry ==
    /\ pushed
    /\ \/ /\ started' = started \cup {i}
          /\ i' = i + 1
          /\ UNCHANGED failed
       \/ /\ failed' = failed \cup {i}
          /\ UNCHANGED <<i, started>>
    /\ arg' = [arg EXCEPT ![i] = block]
    /\ pushed' = FALSE
    /\ UNCHANGED <<capacity, block, index, ctx, late>>

\* pthread_create(..., &thrags[i]); a failure is printed and main goes on.
pthread_create ==
    /\ pushed
    /\ \/ /\ started' = started \cup {i}
          /\ UNCHANGED failed
       \/ /\ failed' = failed \cup {i}
          /\ UNCHANGED started
    /\ arg' = [arg EXCEPT ![i] = block]
    /\ i' = i + 1 /\ pushed' = FALSE
    /\ UNCHANGED <<capacity, block, index, ctx, late>>

\* The argument of w is in a block that was freed.
Freed(w) == arg[w] # block

\* WorkerProc copies index, and then ctx.
ReadIndex(w) ==
    /\ w \in started /\ index[w] = -1
    /\ \E x \in Workers \cup {Wild} :
         /\ x = w \/ Freed(w)
         /\ index' = [index EXCEPT ![w] = x]
    /\ late' = IF Freed(w) THEN late \cup {w} ELSE late
    /\ UNCHANGED <<i, pushed, capacity, block, started, failed, arg, ctx>>

ReadCtx(w) ==
    /\ w \in started /\ index[w] # -1 /\ ctx[w] = "unread"
    /\ \E x \in {"right", "wild"} :
         /\ x = "right" \/ Freed(w)
         /\ ctx' = [ctx EXCEPT ![w] = x]
    /\ late' = IF Freed(w) THEN late \cup {w} ELSE late
    /\ UNCHANGED <<i, pushed, capacity, block, started, failed, arg, index>>

\* main is in event_base_dispatch and every worker in its loop.
Finished ==
    /\ i = threads_cnt /\ \A w \in started : ctx[w] # "unread"
    /\ UNCHANGED vars

Next ==
    \/ push_back \/ pthread_create
    \/ \E w \in Workers : ReadIndex(w) \/ ReadCtx(w)
    \/ Finished

Spec == Init /\ [][Next]_vars

-----------------------------------------------------------------------------
(* Properties.                                                             *)

\* The elements pushed fit in thrags, every worker passed is started or failed,
\* and no argument points into a block that does not exist yet.
TypeOK ==
    /\ i \in 0 .. threads_cnt /\ pushed \in BOOLEAN
    /\ pushed => i < threads_cnt
    /\ capacity \in Nat /\ block \in Nat
    /\ i <= capacity /\ (pushed => i < capacity)
    /\ started \cup failed = 0 .. i - 1 /\ started \cap failed = {}
    /\ arg \in [Workers -> Nat] /\ \A w \in Workers : arg[w] <= block
    /\ index \in [Workers -> Workers \cup {-1, Wild}]
    /\ ctx \in [Workers -> {"unread", "right", "wild"}]
    /\ late \subseteq started

\* The queues that some worker takes from.
ServedQueues == {index[w] : w \in {v \in started : ctx[v] = "right"}} \cap Workers

\* When every worker has read its argument, a queue has nobody that takes from
\* it only if its thread could not be created or read too late, and a queue
\* that two workers take from has one of them because it read too late.
InTimeIsRight ==
    i = threads_cnt /\ (\A w \in started : ctx[w] # "unread") =>
        /\ Workers \ (failed \cup late) \subseteq ServedQueues
        /\ \A v, w \in started : index[v] = index[w] => v = w \/ {v, w} \cap late # {}

\* The powers of two below threads_cnt: what is in every set that holds 1 and
\* the double of each of its members.
Doubling(S) == 1 \in S /\ \A p \in S : 2 * p < threads_cnt => 2 * p \in S

PowersOfTwo == {p \in Workers \ {0} : \A S \in SUBSET Workers : Doubling(S) => p \in S}

\* The workers after the last growth are never wrong, however late they run:
\* thrags is moved only when the number of its elements is a power of two.
AfterGrowthIsRight ==
    \A w \in Workers :
        index[w] # -1 /\ (\A j \in w + 1 .. threads_cnt - 1 : j \notin PowersOfTwo)
            => index[w] = w /\ ctx[w] # "wild"

\* Together: a worker is wrong only if it is late, and only if one whose thread
\* was started before the last growth.
StartupIsRight == InTimeIsRight /\ AfterGrowthIsRight

=============================================================================
