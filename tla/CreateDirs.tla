----------------------------- MODULE CreateDirs -----------------------------
(***************************************************************************)
(* CreateDirs of lite_test/createdir_test/createdir_test.cpp, called by    *)
(* several processes on paths that begin alike: for every '/' after the    *)
(* first character, access() of the path up to it and, if that fails,      *)
(* mkdir().  Other processes run between the two.                          *)
(*                                                                         *)
(* A path is the sequence of the names before its last '/': what comes     *)
(* after that is not looked at.  A directory or a regular file is the path *)
(* that leads to it.  Both calls may fail for reasons of their own, as the *)
(* permissions or the space there is.  Nobody removes anything.            *)
(***************************************************************************)
EXTENDS Naturals, Sequences, FiniteSets

CONSTANTS
    Callers,     \* processes that call CreateDirs
    Names,       \* names of directories and files
    MaxDepth,    \* bound: names in a path
    MaxOthers    \* bound: what processes that are no callers make

ASSUME DirsAssumption == MaxDepth \in Nat
ASSUME CallersAssumption == Callers # {}

VARIABLES
    dirs,      \* the directories there are
    regular,   \* the regular files there are
    made,      \* the directories that callers have made
    caller     \* for each process: its path, how far it is, and its result

dirsVars == <<dirs, regular, made, caller>>

Paths    == UNION {[1 .. n -> Names] : n \in 0 .. MaxDepth}
Up(d, i) == SubSeq(d, 1, i)

\* What access() finds, and the directory in which d lies.
There     == dirs \cup regular
Parent(d) == Up(d, Len(d) - 1)

NotCalled == [pc |-> "idle", path |-> <<>>, i |-> 1]

DirsInit ==
    /\ dirs = {<<>>} /\ regular = {} /\ made = {}
    /\ caller = [p \in Callers |-> NotCalled]

\* Before, between or during the calls somebody else makes a directory or a
\* regular file.
Exists(d) ==
    /\ d \notin There /\ Parent(d) \in dirs
    /\ Cardinality(There \ made) <= MaxOthers
    /\ \/ dirs' = dirs \cup {d} /\ UNCHANGED regular
       \/ regular' = regular \cup {d} /\ UNCHANGED dirs
    /\ UNCHANGED <<made, caller>>

Call(p, d) ==
    /\ caller[p].pc = "idle"
    /\ caller' = [caller EXCEPT ![p] = [pc |-> "access", path |-> d, i |-> 1]]
    /\ UNCHANGED <<dirs, regular, made>>

\* dirname[i] is '/': the path is cut there for the two calls.
Here(p) == Up(caller[p].path, caller[p].i)

\* access(R_OK) succeeds on a regular file as on a directory.  It fails on
\* what is not there, and on what p must not read.
access(p) ==
    /\ caller[p].pc = "access" /\ caller[p].i <= Len(caller[p].path)
    /\ \/ /\ Here(p) \in There
          /\ caller' = [caller EXCEPT ![p].i = @ + 1]
       \/ caller' = [caller EXCEPT ![p].pc = "mkdir"]
    /\ UNCHANGED <<dirs, regular, made>>

Makes(p) ==
    /\ Here(p) \notin There /\ Parent(Here(p)) \in dirs
    /\ dirs' = dirs \cup {Here(p)} /\ made' = made \cup {Here(p)}
    /\ caller' = [caller EXCEPT ![p].pc = "access", ![p].i = @ + 1]

\* Mutant of mkdir: a failure ends the call like a success.
mkdirReturns0(p) ==
    /\ caller[p].pc = "mkdir"
    /\ \/ Makes(p)
       \/ /\ caller' = [caller EXCEPT ![p].pc = "returned"]
          /\ UNCHANGED <<dirs, made>>
    /\ UNCHANGED regular

\* mkdir fails on what exists already, below a regular file, and whenever the
\* system refuses: no permission, no space, a read-only file system.
mkdir(p) ==
    /\ caller[p].pc = "mkdir"
    /\ \/ Makes(p)
       \/ /\ caller' = [caller EXCEPT ![p].pc = "failed"]
          /\ UNCHANGED <<dirs, made>>
    /\ UNCHANGED regular

Return(p) ==
    /\ caller[p].pc = "access" /\ caller[p].i > Len(caller[p].path)
    /\ caller' = [caller EXCEPT ![p].pc = "returned"]
    /\ UNCHANGED <<dirs, regular, made>>

DirsNext ==
    \/ \E d \in Paths \ {<<>>} : Exists(d)
    \/ \E p \in Callers :
        \/ \E d \in Paths : Call(p, d)
        \/ access(p) \/ mkdir(p) \/ Return(p)

DirsSpec == DirsInit /\ [][DirsNext]_dirsVars

-----------------------------------------------------------------------------
(* Properties.                                                             *)

DirsTypeOK ==
    /\ dirs \subseteq Paths /\ regular \subseteq Paths /\ made \subseteq dirs
    /\ caller \in [Callers -> [pc : {"idle", "access", "mkdir", "failed", "returned"},
                               path : Paths, i : 1 .. MaxDepth + 1]]

\* p gave up at a directory that another caller has made.
Beaten(p) == caller[p].pc = "failed" /\ Here(p) \in made

\* A call that returns 0 leaves its path behind it, whoever made it: all of it
\* directories, but for its end, where there may be a regular file, which
\* access() takes for the directory.  A call may give up because another one
\* was quicker, but not all of them: if every call has ended, and each that
\* failed did so at a directory that a caller has made, one has made or found
\* its whole path.
SomeCallSucceeds ==
    /\ \A p \in Callers : caller[p].pc = "returned" =>
        /\ caller[p].path \in There
        /\ \A i \in 1 .. Len(caller[p].path) - 1 : Up(caller[p].path, i) \in dirs
    /\ (\A p \in Callers : caller[p].pc = "returned" \/ Beaten(p)) =>
        \E p \in Callers : caller[p].pc = "returned"

=============================================================================
