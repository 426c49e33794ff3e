---------------------------- MODULE LogProcesses ----------------------------
(***************************************************************************)
(* lite_test/log4cplus_test/src/test_normal.cpp: a process configures      *)
(* log4cplus, forks children, and each child configures it again with a    *)
(* log file of its own, whose name ends in the child's pid and the second. *)
(* The parent writes to the file of the configuration, and waits for the   *)
(* children when all are forked.                                           *)
(*                                                                         *)
(* A file is known by what was appended to the configured name.            *)
(***************************************************************************)
EXTENDS Naturals, Sequences, FiniteSets

CONSTANTS
    NumChildren, \* children that are forked
    Pids,        \* process numbers, used again when a process is reaped
    MaxSecond,   \* bound: seconds the run takes
    MaxRecords   \* bound: records a child writes

ASSUME LogAssumption ==
    /\ NumChildren \in Nat /\ Pids \subseteq Nat \ {0}
    /\ MaxSecond \in Nat /\ MaxRecords \in Nat \ {0}

VARIABLES
    parent,      \* where it is, the next child, and the waits it has made
    child,       \* for each child: where it is, pid, name, records written
    second,      \* gettimeofday
    hasFile,     \* the configuration file names an appender's file
    written      \* who has written to which file

logVars == <<parent, child, second, hasFile, written>>

\* In the order they are forked.
Children == 1 .. NumChildren

NotForked == [pc |-> "none", pid |-> 0, extend |-> <<>>, file |-> <<>>, records |-> 0]

LogInit ==
    /\ parent = [pc |-> "configure", i |-> 1, waits |-> 0]
    /\ child = [c \in Children |-> NotForked]
    /\ second = 0 /\ hasFile = FALSE /\ written = {}

\* A pid is free when no process has it, running or waiting to be reaped.
Unreaped == {c \in Children : child[c].pc \notin {"none", "reaped"}}
FreePids == Pids \ {child[c].pid : c \in Unreaped}

doConfigure ==
    /\ parent.pc = "configure"
    /\ parent' = [parent EXCEPT !.pc = "fork"]
    /\ hasFile' \in BOOLEAN
    /\ UNCHANGED <<child, second, written>>

fork ==
    /\ parent.pc = "fork" /\ parent.i \in Children
    /\ parent' = [parent EXCEPT !.i = @ + 1]
    /\ \E pid \in FreePids :
         child' = [child EXCEPT ![parent.i] =
                    [NotForked EXCEPT !.pc = "extend", !.pid = pid]]
    /\ UNCHANGED <<second, hasFile, written>>

\* exit(0) in the middle of the loop, without waiting.
forkFails ==
    /\ parent.pc = "fork" /\ parent.i \in Children
    /\ parent' = [parent EXCEPT !.pc = "exited"]
    /\ UNCHANGED <<child, second, hasFile, written>>

\* Who writes is the parent, 0, or a child.
Write(who, file) == written' = written \cup {<<file, who>>}

parentWriteLog ==
    /\ parent.pc = "fork" /\ parent.i \notin Children
    /\ parent' = [parent EXCEPT !.pc = "wait"]
    /\ IF hasFile THEN Write(0, <<>>) ELSE UNCHANGED written
    /\ UNCHANGED <<child, second, hasFile>>

Ended == {c \in Children : child[c].pc = "ended"}

\* One of as many calls of wait() as there are children.
waitChild ==
    /\ parent.pc = "wait" /\ parent.waits < NumChildren
    /\ parent' = [parent EXCEPT !.waits = @ + 1]
    /\ \E c \in Ended : child' = [child EXCEPT ![c].pc = "reaped"]
    /\ UNCHANGED <<second, hasFile, written>>

parentReturns ==
    /\ parent.pc = "wait" /\ parent.waits = NumChildren
    /\ parent' = [parent EXCEPT !.pc = "returned"]
    /\ UNCHANGED <<child, second, hasFile, written>>

\* Mutant of GenerateExtend: the second alone.
GenerateExtendNoPid(c) ==
    /\ child[c].pc = "extend"
    /\ \/ child' = [child EXCEPT ![c].pc = "addExtend", ![c].extend = <<second>>]
       \/ child' = [child EXCEPT ![c].pc = "ended"]
    /\ UNCHANGED <<parent, second, hasFile, written>>

\* GenerateExtend: the pid and the second.  When gettimeofday fails the child
\* ends, having written nothing.
GenerateExtend(c) ==
    /\ child[c].pc = "extend"
    /\ \/ child' = [child EXCEPT ![c].pc = "addExtend",
                                 ![c].extend = <<child[c].pid, second>>]
       \/ child' = [child EXCEPT ![c].pc = "ended"]
    /\ UNCHANGED <<parent, second, hasFile, written>>

\* Log4cplus_AddExtenToFilename appends the extension to the one file that
\* conf_async.properties names, and the child configures log4cplus with the
\* result; -1 when there is no file to extend, and the child ends.
AddExtenToFilename(c) ==
    /\ child[c].pc = "addExtend"
    /\ child' = IF hasFile
                THEN [child EXCEPT ![c].pc = "write",
                                   ![c].file = Append(@, child[c].extend)]
                ELSE [child EXCEPT ![c].pc = "ended"]
    /\ UNCHANGED <<parent, second, hasFile, written>>

WriteLog(c) ==
    /\ child[c].pc = "write" /\ child[c].records < MaxRecords
    /\ child' = [child EXCEPT ![c].records = @ + 1]
    /\ Write(c, child[c].file)
    /\ UNCHANGED <<parent, second, hasFile>>

childExits(c) ==
    /\ child[c].pc = "write" /\ child[c].records = MaxRecords
    /\ child' = [child EXCEPT ![c].pc = "ended"]
    /\ UNCHANGED <<parent, second, hasFile, written>>

Tick ==
    /\ second < MaxSecond
    /\ second' = second + 1
    /\ UNCHANGED <<parent, child, hasFile, written>>

LogNext ==
    \/ doConfigure \/ fork \/ forkFails \/ parentWriteLog \/ waitChild
    \/ parentReturns \/ Tick
    \/ \E c \in Children : \/ GenerateExtend(c) \/ AddExtenToFilename(c)
                           \/ WriteLog(c) \/ childExits(c)

LogSpec == LogInit /\ [][LogNext]_logVars

-----------------------------------------------------------------------------
(* Properties.                                                             *)

LogTypeOK ==
    /\ parent.pc \in {"configure", "fork", "wait", "returned", "exited"}
    /\ parent.i \in Nat \ {0} /\ parent.waits \in 0 .. NumChildren
    /\ \A c \in Children :
        /\ child[c].pc \in {"none", "extend", "addExtend", "write", "ended", "reaped"}
        /\ child[c].pid \in Pids \cup {0}
        /\ child[c].records \in 0 .. MaxRecords
    /\ second \in 0 .. MaxSecond /\ hasFile \in BOOLEAN

\* No log file is written by two processes: a child that starts in the second
\* in which another one started cannot have its pid, because nobody is reaped
\* before all are forked.
EachFileOneWriter ==
    \A a, b \in written : a[1] = b[1] => a[2] = b[2]

\* A parent that returns from the function, and has not given up at a failed
\* fork, has waited for the end of every child.
ParentReturnsLast ==
    parent.pc = "returned" => \A c \in Children : child[c].pc = "reaped"

\* The log files of the run are complete and each process has its own.
LogsKeptApart == EachFileOneWriter /\ ParentReturnsLast

=============================================================================
