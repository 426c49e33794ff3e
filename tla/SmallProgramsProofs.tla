------------------------- MODULE SmallProgramsProofs -------------------------
(***************************************************************************)
(* Proofs about six of the programs of SmallPrograms, each on its own: the *)
(* log test (LogProcesses), the racing calls of CreateDirs, the sniffers   *)
(* (PacketCapture), the gevent servers' handler (PyHandler), and the tests *)
(* of the generated messages: the parser (MessageParse) and the serializer *)
(* (MessageSerialize).  The seventh is in MessageObjectProofs.  At the end *)
(* SmallPrograms as a whole.                                               *)
(***************************************************************************)
EXTENDS SmallPrograms, MessageObjectProofs, WellFoundedInduction

-----------------------------------------------------------------------------
(* LogProcesses: for any number of children, pids, seconds and records.    *)

Forked == {c \in Children : child[c].pc # "none"}
Reaped == {c \in Children : child[c].pc = "reaped"}

Extends == {<<>>} \cup ((Pids \cup {0}) \X Nat)

ChildType == [pc      : {"none", "extend", "addExtend", "write", "ended", "reaped"},
              pid     : Pids \cup {0},
              extend  : Extends,
              file    : Seq(Extends),
              records : 0 .. MaxRecords]

\* LogTypeOK, and what it leaves out.
Types ==
    /\ LogTypeOK
    /\ parent \in [pc    : {"configure", "fork", "wait", "returned", "exited"},
                   i     : Nat \ {0},
                   waits : 0 .. NumChildren]
    /\ child \in [Children -> ChildType]

\* Nobody is reaped before all are forked, ...
ForkThenReap ==
    /\ \A c \in Children : parent.i <= c => c \notin Forked
    /\ parent.pc \in {"configure", "fork"} => Reaped = {}
    /\ parent.waits = Cardinality(Reaped)
    /\ parent.pc = "returned" => parent.waits = NumChildren

\* ... and so no two children have, or had, the same pid.
PidsDiffer ==
    \A c \in Forked :
        /\ child[c].pid \in Pids
        /\ \A d \in Forked : child[c].pid = child[d].pid => c = d

\* The name of a child's file ends in its pid, ...
FilesNamed ==
    \A c \in Children :
        /\ child[c].pc \in {"extend", "addExtend"} => child[c].file = <<>>
        /\ child[c].pc = "addExtend" => \E s \in Nat : child[c].extend = <<child[c].pid, s>>
        /\ child[c].pc = "write" => \E s \in Nat : child[c].file = << <<child[c].pid, s>> >>

\* ... and each file was written by who it is named after.
FilesOwned ==
    \A w \in written :
        \/ w = <<<<>>, 0>>
        \/ \E c \in Forked : \E s \in Nat : w = << << <<child[c].pid, s>> >>, c>>

LogInv == Types /\ ForkThenReap /\ PidsDiffer /\ FilesNamed /\ FilesOwned

-----------------------------------------------------------------------------
(* The invariant and what follows from it.                                 *)

LEMMA ChildrenFinite ==
    /\ IsFiniteSet(Children) /\ Cardinality(Children) = NumChildren
    /\ \A S \in SUBSET Children : IsFiniteSet(S) /\ Cardinality(S) \in Nat
    /\ \A S \in SUBSET Children : Cardinality(S) = NumChildren => S = Children
<1>1. IsFiniteSet(Children) /\ Cardinality(Children) = NumChildren
  <2>1. 1 \in Int /\ NumChildren \in Nat
    BY LogAssumption
  <2>2. /\ IsFiniteSet(1 .. NumChildren)
        /\ Cardinality(1 .. NumChildren) = IF 1 > NumChildren THEN 0 ELSE NumChildren - 1 + 1
    BY <2>1, FS_Interval
  <2> QED
    BY <2>1, <2>2 DEF Children
<1>2. \A S \in SUBSET Children : IsFiniteSet(S) /\ Cardinality(S) \in Nat
  BY <1>1, FS_Subset, FS_CardinalityType
<1>3. \A S \in SUBSET Children : Cardinality(S) = NumChildren => S = Children
  BY <1>1, FS_Subset
<1> QED
  BY <1>1, <1>2, <1>3

LEMMA NotForkedType == NotForked \in ChildType
BY LogAssumption DEF NotForked, ChildType, Extends

LEMMA LogInvInit == LogInit => LogInv
<1> SUFFICES ASSUME LogInit PROVE LogInv
  OBVIOUS
<1>1. Reaped = {} /\ Forked = {}
  BY DEF LogInit, NotForked, Reaped, Forked
<1>2. Cardinality({}) = 0
  BY FS_EmptySet
<1>3. /\ parent.pc = "configure" /\ parent.i = 1 /\ parent.waits = 0
      /\ child \in [Children -> ChildType]
      /\ \A c \in Children : child[c] = NotForked
  BY NotForkedType DEF LogInit
<1>4. LogTypeOK
  <2>1. second \in 0 .. MaxSecond /\ parent.waits \in 0 .. NumChildren
    BY <1>3, LogAssumption DEF LogInit
  <2>3. hasFile \in BOOLEAN
    BY DEF LogInit
  <2>2. \A c \in Children : /\ child[c].pc = "none" /\ child[c].pid \in Pids \cup {0}
                            /\ child[c].records \in 0 .. MaxRecords
    BY <1>3, LogAssumption DEF NotForked
  <2> QED
    BY <1>3, <2>1, <2>2, <2>3 DEF LogTypeOK
<1>5. Types
  BY <1>3, <1>4, LogAssumption DEF LogInit, Types
<1>6. ForkThenReap
  BY <1>1, <1>2 DEF ForkThenReap, LogInit
<1>7. PidsDiffer /\ FilesNamed /\ FilesOwned
  BY <1>1 DEF PidsDiffer, FilesNamed, FilesOwned, LogInit, NotForked
<1> QED
  BY <1>5, <1>6, <1>7 DEF LogInv

\* A step in which one child goes on, to a state that is neither the first
\* nor the last.
LEMMA ChildStep ==
    ASSUME LogInv, NEW c \in Forked, NEW r \in ChildType,
           child' = [child EXCEPT ![c] = r],
           r.pid = child[c].pid, r.pc \notin {"none", "reaped"},
           child[c].pc # "reaped", UNCHANGED <<parent, second, hasFile>>,
           r.pc \in {"extend", "addExtend"} => r.file = <<>>,
           r.pc = "addExtend" => \E s \in Nat : r.extend = <<r.pid, s>>,
           r.pc = "write" => \E s \in Nat : r.file = << <<r.pid, s>> >>,
           written' = written \/
             \E s \in Nat : written' = written \cup {<< << <<r.pid, s>> >>, c>>}
    PROVE  LogInv'
<1>1. /\ c \in Children /\ child'[c] = r /\ \A d \in Children : d # c => child'[d] = child[d]
      /\ child' \in [Children -> ChildType]
  BY DEF LogInv, Types, Forked
<1>2. Forked' = Forked /\ Reaped' = Reaped
  BY <1>1 DEF Forked, Reaped
<1>3. \A d \in Children : child'[d].pid = child[d].pid
  BY <1>1
<1>4. Types'
  <2>1. LogTypeOK'
    BY <1>1 DEF LogInv, Types, LogTypeOK, ChildType
  <2> QED
    BY <1>1, <2>1 DEF LogInv, Types
<1>5. ForkThenReap'
  BY <1>2 DEF LogInv, ForkThenReap
<1>6. PidsDiffer'
  BY <1>2, <1>3 DEF LogInv, PidsDiffer, Forked
<1>7. FilesNamed'
  BY <1>1 DEF LogInv, FilesNamed
<1>8. FilesOwned'
  BY <1>2, <1>3 DEF LogInv, FilesOwned, Forked
<1> QED
  BY <1>4, <1>5, <1>6, <1>7, <1>8 DEF LogInv

LEMMA LogInvNext == LogInv /\ [LogNext]_logVars => LogInv'
<1> SUFFICES ASSUME LogInv, [LogNext]_logVars PROVE LogInv'
  OBVIOUS
<1> USE LogAssumption
<1>1. ASSUME UNCHANGED child, parent'.pc \in {"fork", "wait", "returned", "exited"},
             parent' \in [pc : {"configure", "fork", "wait", "returned", "exited"},
                          i : Nat \ {0}, waits : 0 .. NumChildren],
             parent'.i = parent.i, parent'.waits = parent.waits,
             parent'.pc = "fork" => parent.pc = "configure",
             parent'.pc = "returned" => parent.waits = NumChildren,
             second' = second, hasFile' \in BOOLEAN,
             written' = written \/ written' = written \cup {<<<<>>, 0>>}
      PROVE  LogInv'
  <2>1. Types'
    BY <1>1 DEF LogInv, Types, LogTypeOK
  <2>2. ForkThenReap'
    BY <1>1 DEF LogInv, ForkThenReap, Forked, Reaped
  <2>3. PidsDiffer' /\ FilesNamed'
    BY <1>1 DEF LogInv, PidsDiffer, FilesNamed, Forked
  <2>4. FilesOwned'
    BY <1>1 DEF LogInv, FilesOwned, Forked
  <2> QED
    BY <2>1, <2>2, <2>3, <2>4 DEF LogInv
<1>2. CASE doConfigure
  BY <1>1, <1>2 DEF doConfigure, LogInv, Types
<1>3. CASE forkFails
  BY <1>1, <1>3 DEF forkFails, LogInv, Types, LogTypeOK
<1>4. CASE parentWriteLog
  BY <1>1, <1>4 DEF parentWriteLog, Write, LogInv, Types, LogTypeOK
<1>5. CASE parentReturns
  BY <1>1, <1>5 DEF parentReturns, LogInv, Types, LogTypeOK
<1>6. CASE fork
  <2>1. PICK pid \in FreePids :
          child' = [child EXCEPT ![parent.i] =
                     [NotForked EXCEPT !.pc = "extend", !.pid = pid]]
    BY <1>6 DEF fork
  <2> DEFINE new == [NotForked EXCEPT !.pc = "extend", !.pid = pid]
             me  == parent.i
  <2>2. /\ me \in Children /\ parent.pc = "fork" /\ parent' = [parent EXCEPT !.i = @ + 1]
        /\ UNCHANGED <<second, hasFile, written>>
    BY <1>6 DEF fork
  <2>3. /\ new \in ChildType /\ new.pc = "extend" /\ new.pid = pid /\ new.file = <<>>
        /\ pid \in Pids
    <3>1. pid \in Pids
      BY DEF FreePids
    <3>2. new \in ChildType /\ new.pc = "extend" /\ new.pid = pid /\ new.file = NotForked.file
      BY <3>1, NotForkedType DEF ChildType
    <3> QED
      BY <3>1, <3>2 DEF NotForked
  <2> HIDE DEF new
  <2>4. /\ child'[me] = new /\ \A d \in Children : d # me => child'[d] = child[d]
        /\ child' \in [Children -> ChildType]
    BY <2>1, <2>2, <2>3 DEF LogInv, Types, new
  <2>5. /\ me \notin Forked /\ Reaped = {} /\ me \in Nat /\ Children \subseteq Nat
    BY <2>2 DEF LogInv, ForkThenReap, Children
  <2> HIDE DEF me
  <2>6. /\ Forked' = Forked \cup {me} /\ Reaped' = Reaped
    BY <2>2, <2>3, <2>4, <2>5 DEF Forked, Reaped
  <2>7. \A d \in Forked : child[d].pid # pid
    BY <2>5 DEF FreePids, Unreaped, Forked, Reaped
  <2>8. /\ parent'.i = me + 1 /\ parent'.pc = "fork" /\ parent'.waits = parent.waits
        /\ parent' \in [pc : {"configure", "fork", "wait", "returned", "exited"},
                        i : Nat \ {0}, waits : 0 .. NumChildren]
    BY <2>2, <2>5 DEF LogInv, Types, me
  <2>9. Types'
    <3>1. LogTypeOK'
      BY <2>2, <2>4, <2>8 DEF LogInv, Types, LogTypeOK, ChildType
    <3> QED
      BY <2>4, <2>8, <3>1 DEF LogInv, Types
  <2>10. ForkThenReap'
    <3>1. \A d \in Children : parent'.i <= d => d \notin Forked'
      BY <2>5, <2>6, <2>8 DEF LogInv, ForkThenReap, me
    <3>2. parent'.waits = Cardinality(Reaped')
      BY <2>6, <2>8 DEF LogInv, ForkThenReap
    <3> QED
      BY <2>5, <2>6, <2>8, <3>1, <3>2 DEF ForkThenReap
  <2>11. PidsDiffer'
    BY <2>3, <2>4, <2>5, <2>6, <2>7 DEF LogInv, PidsDiffer, Forked
  <2>12. FilesNamed'
    BY <2>3, <2>4 DEF LogInv, FilesNamed
  <2>13. FilesOwned'
    BY <2>2, <2>4, <2>5, <2>6 DEF LogInv, FilesOwned, Forked
  <2> QED
    BY <2>9, <2>10, <2>11, <2>12, <2>13 DEF LogInv
<1>7. CASE waitChild
  <2>1. PICK c \in Ended : child' = [child EXCEPT ![c].pc = "reaped"]
    BY <1>7 DEF waitChild
  <2>2. /\ c \in Children /\ child[c].pc = "ended" /\ parent.pc = "wait"
        /\ parent.waits < NumChildren /\ parent' = [parent EXCEPT !.waits = @ + 1]
        /\ UNCHANGED <<second, hasFile, written>>
    BY <1>7 DEF waitChild, Ended
  <2>3. /\ child'[c] = [child[c] EXCEPT !.pc = "reaped"]
        /\ \A d \in Children : d # c => child'[d] = child[d]
        /\ child' \in [Children -> ChildType]
    <3>1. child \in [Children -> ChildType]
      BY DEF LogInv, Types
    <3>2. [child[c] EXCEPT !.pc = "reaped"] \in ChildType
      BY <2>2, <3>1 DEF ChildType
    <3> QED
      BY <2>1, <2>2, <3>1, <3>2, Zenon
  <2>4. /\ child'[c].pc = "reaped" /\ child'[c].pid = child[c].pid
    BY <2>2, <2>3 DEF LogInv, Types, ChildType
  <2>5. Forked' = Forked /\ Reaped' = Reaped \cup {c} /\ c \notin Reaped
    BY <2>2, <2>3, <2>4 DEF Forked, Reaped
  <2>6. /\ parent'.pc = "wait" /\ parent'.i = parent.i /\ parent'.waits = parent.waits + 1
        /\ parent' \in [pc : {"configure", "fork", "wait", "returned", "exited"},
                        i : Nat \ {0}, waits : 0 .. NumChildren]
    BY <2>2 DEF LogInv, Types
  <2>7. Types'
    <3>1. LogTypeOK'
      BY <2>2, <2>3, <2>6 DEF LogInv, Types, LogTypeOK, ChildType
    <3> QED
      BY <2>3, <2>6, <3>1 DEF LogInv, Types
  <2>8. ForkThenReap'
    <3>1. IsFiniteSet(Reaped) /\ Cardinality(Reaped \cup {c}) = Cardinality(Reaped) + 1
      BY <2>5, ChildrenFinite, FS_AddElement DEF Reaped
    <3>2. parent'.waits = Cardinality(Reaped')
      BY <2>5, <2>6, <3>1 DEF LogInv, ForkThenReap
    <3>3. \A d \in Children : parent'.i <= d => d \notin Forked'
      BY <2>5, <2>6 DEF LogInv, ForkThenReap
    <3> QED
      BY <2>6, <3>2, <3>3 DEF ForkThenReap
  <2>9. /\ \A d \in Children : child'[d].pid = child[d].pid
        /\ \A d \in Children : d # c => child'[d] = child[d]
        /\ child'[c].pc = "reaped"
    BY <2>3, <2>4
  <2>10. PidsDiffer'
    BY <2>5, <2>9 DEF LogInv, PidsDiffer, Forked
  <2>11. FilesNamed'
    BY <2>9 DEF LogInv, FilesNamed
  <2>12. FilesOwned'
    BY <2>2, <2>5, <2>9 DEF LogInv, FilesOwned, Forked
  <2> QED
    BY <2>7, <2>8, <2>10, <2>11, <2>12 DEF LogInv
<1>8. CASE Tick
  <2>1. UNCHANGED <<parent, child, hasFile, written>> /\ second' \in 0 .. MaxSecond
    BY <1>8 DEF Tick, LogInv, Types, LogTypeOK
  <2>2. Types'
    BY <2>1 DEF LogInv, Types, LogTypeOK
  <2> QED
    BY <2>1, <2>2 DEF LogInv, ForkThenReap, PidsDiffer, FilesNamed, FilesOwned, Forked, Reaped
<1>9. ASSUME NEW c \in Children, GenerateExtend(c) PROVE LogInv'
  <2>1. /\ child[c].pc = "extend" /\ child[c] \in ChildType /\ c \in Forked
        /\ UNCHANGED <<parent, second, hasFile, written>>
        /\ child[c].pid \in Pids /\ child[c].file = <<>> /\ second \in Nat
    BY <1>9 DEF GenerateExtend, LogInv, Types, Forked, PidsDiffer, FilesNamed, LogTypeOK
  <2>2. ASSUME child' = [child EXCEPT ![c].pc = "addExtend",
                                      ![c].extend = <<child[c].pid, second>>]
        PROVE  LogInv'
    <3> DEFINE r == [child[c] EXCEPT !.pc = "addExtend", !.extend = <<child[c].pid, second>>]
    <3>1. /\ r \in ChildType /\ r.pc = "addExtend" /\ r.pid = child[c].pid /\ r.file = <<>>
          /\ r.extend = <<r.pid, second>>
      BY <2>1 DEF ChildType, Extends
    <3>2. child' = [child EXCEPT ![c] = r]
      BY <2>1, <2>2 DEF LogInv, Types
    <3> HIDE DEF r
    <3> QED
      BY <2>1, <3>1, <3>2, ChildStep
  <2>3. ASSUME child' = [child EXCEPT ![c].pc = "ended"] PROVE LogInv'
    <3> DEFINE r == [child[c] EXCEPT !.pc = "ended"]
    <3>1. r \in ChildType /\ r.pc = "ended" /\ r.pid = child[c].pid
      BY <2>1 DEF ChildType
    <3>2. child' = [child EXCEPT ![c] = r]
      BY <2>1, <2>3 DEF LogInv, Types
    <3> HIDE DEF r
    <3> QED
      BY <2>1, <3>1, <3>2, ChildStep
  <2> QED
    BY <1>9, <2>2, <2>3 DEF GenerateExtend
<1>10. ASSUME NEW c \in Children, AddExtenToFilename(c) PROVE LogInv'
  <2>1. /\ child[c].pc = "addExtend" /\ child[c] \in ChildType /\ c \in Forked
        /\ UNCHANGED <<parent, second, hasFile, written>>
        /\ child[c].pid \in Pids /\ child[c].file = <<>>
        /\ \E s \in Nat : child[c].extend = <<child[c].pid, s>>
    BY <1>10 DEF AddExtenToFilename, LogInv, Types, Forked, PidsDiffer, FilesNamed
  <2>2. ASSUME child' = [child EXCEPT ![c].pc = "write",
                                      ![c].file = Append(@, child[c].extend)]
        PROVE  LogInv'
    <3> DEFINE r == [child[c] EXCEPT !.pc = "write", !.file = Append(@, child[c].extend)]
    <3>1. /\ r.pc = "write" /\ r.pid = child[c].pid /\ r.file = <<child[c].extend>>
          /\ child[c].extend \in Extends
      BY <2>1, SMTT(30) DEF ChildType
    <3>2. r \in ChildType
      <4>1. Append(child[c].file, child[c].extend) \in Seq(Extends)
        BY <2>1 DEF ChildType
      <4> QED
        BY <2>1, <4>1 DEF ChildType
    <3>3. child' = [child EXCEPT ![c] = r]
      BY <2>1, <2>2 DEF LogInv, Types
    <3> HIDE DEF r
    <3> QED
      BY <2>1, <3>1, <3>2, <3>3, ChildStep
  <2>3. ASSUME child' = [child EXCEPT ![c].pc = "ended"] PROVE LogInv'
    <3> DEFINE r == [child[c] EXCEPT !.pc = "ended"]
    <3>1. r \in ChildType /\ r.pc = "ended" /\ r.pid = child[c].pid
      BY <2>1 DEF ChildType
    <3>2. child' = [child EXCEPT ![c] = r]
      BY <2>1, <2>3 DEF LogInv, Types
    <3> HIDE DEF r
    <3> QED
      BY <2>1, <3>1, <3>2, ChildStep
  <2> QED
    BY <1>10, <2>2, <2>3 DEF AddExtenToFilename
<1>11. ASSUME NEW c \in Children, WriteLog(c) PROVE LogInv'
  <2>1. /\ child[c].pc = "write" /\ child[c] \in ChildType /\ c \in Forked
        /\ child[c].records < MaxRecords
        /\ UNCHANGED <<parent, second, hasFile>>
        /\ written' = written \cup {<<child[c].file, c>>}
        /\ child' = [child EXCEPT ![c].records = @ + 1]
        /\ \E s \in Nat : child[c].file = << <<child[c].pid, s>> >>
    BY <1>11 DEF WriteLog, Write, LogInv, Types, Forked, FilesNamed
  <2> DEFINE r == [child[c] EXCEPT !.records = @ + 1]
  <2>2. /\ r \in ChildType /\ r.pc = "write" /\ r.pid = child[c].pid
        /\ r.file = child[c].file
    BY <2>1, SMTT(30) DEF ChildType
  <2>3. child' = [child EXCEPT ![c] = r]
    BY <2>1 DEF LogInv, Types
  <2> HIDE DEF r
  <2> QED
    BY <2>1, <2>2, <2>3, ChildStep
<1>12. ASSUME NEW c \in Children, childExits(c) PROVE LogInv'
  <2>1. /\ child[c].pc = "write" /\ child[c] \in ChildType /\ c \in Forked
        /\ UNCHANGED <<parent, second, hasFile, written>>
        /\ child' = [child EXCEPT ![c].pc = "ended"]
    BY <1>12 DEF childExits, LogInv, Types, Forked
  <2> DEFINE r == [child[c] EXCEPT !.pc = "ended"]
  <2>2. r \in ChildType /\ r.pc = "ended" /\ r.pid = child[c].pid
    BY <2>1 DEF ChildType
  <2>3. child' = [child EXCEPT ![c] = r]
    BY <2>1 DEF LogInv, Types
  <2> HIDE DEF r
  <2> QED
    BY <2>1, <2>2, <2>3, ChildStep
<1>13. CASE UNCHANGED logVars
  <2>1. UNCHANGED <<parent, child, second, hasFile, written>>
    BY <1>13 DEF logVars
  <2> QED
    BY <2>1 DEF LogInv, Types, LogTypeOK, ForkThenReap, PidsDiffer, FilesNamed, FilesOwned,
                Forked, Reaped
<1> QED
  BY <1>2, <1>3, <1>4, <1>5, <1>6, <1>7, <1>8, <1>9, <1>10, <1>11, <1>12, <1>13 DEF LogNext

LEMMA LogsFollow == LogInv => LogsKeptApart
<1> SUFFICES ASSUME LogInv PROVE LogsKeptApart
  OBVIOUS
<1>1. EachFileOneWriter
  <2> SUFFICES ASSUME NEW a \in written, NEW b \in written, a[1] = b[1] PROVE a[2] = b[2]
    BY DEF EachFileOneWriter
  <2>1. \A w \in written :
          \/ w[1] = <<>> /\ w[2] = 0
          \/ w[2] \in Forked /\ \E s \in Nat : w[1] = << <<child[w[2]].pid, s>> >>
    BY DEF LogInv, FilesOwned
  <2>2. CASE a[1] = <<>>
    <3>1. \A x : <<x>> # <<>>
      OBVIOUS
    <3>2. \A w \in written : w[1] = <<>> => w[2] = 0
      BY <2>1, <3>1
    <3>3. a[2] = 0
      BY <2>2, <3>2
    <3>4. b[1] = <<>>
      BY <2>2
    <3>5. b[2] = 0
      BY <3>2, <3>4
    <3> QED
      BY <3>3, <3>5
  <2>3. CASE a[1] # <<>>
    <3>1. /\ a[2] \in Forked /\ b[2] \in Forked
          /\ \E s, q \in Nat : << <<child[a[2]].pid, s>> >> = << <<child[b[2]].pid, q>> >>
      BY <2>1, <2>3
    <3>2. child[a[2]].pid = child[b[2]].pid
      BY <3>1
    <3> QED
      BY <3>1, <3>2 DEF LogInv, PidsDiffer
  <2> QED
    BY <2>2, <2>3
<1>2. ParentReturnsLast
  <2> SUFFICES ASSUME parent.pc = "returned" PROVE \A c \in Children : child[c].pc = "reaped"
    BY DEF ParentReturnsLast
  <2>1. Cardinality(Reaped) = NumChildren /\ Reaped \subseteq Children
    BY DEF LogInv, ForkThenReap, Reaped
  <2>2. Reaped = Children
    BY <2>1, ChildrenFinite
  <2> QED
    BY <2>2 DEF Reaped
<1> QED
  BY <1>1, <1>2 DEF LogsKeptApart

\* No file is written by two processes, and a parent that returns has waited
\* for every child: for any number of children, although pids are used again
\* and children start in the same second.
THEOREM LogsSafe == LogSpec => []LogsKeptApart
BY LogInvInit, LogInvNext, LogsFollow, PTL DEF LogSpec

\* Every variable keeps its type.
THEOREM LogTypesSafe == LogSpec => []LogTypeOK
<1>1. LogInv => LogTypeOK
  BY DEF LogInv, Types
<1> QED
  BY <1>1, LogInvInit, LogInvNext, PTL DEF LogSpec

-----------------------------------------------------------------------------
(* CreateDirs: for every number of callers, every set of names and every   *)
(* depth, a call that returns 0 leaves its path behind it, and of calls    *)
(* that only other calls got in the way of, one returns 0.                 *)
(*                                                                         *)
(* The second follows from who beats whom: whoever made a directory went   *)
(* on past it (Passed), so a caller that gave up at it has one that came   *)
(* deeper in its own path.  The deepest of the callers was beaten by none. *)

\* A process that has not called has looked at nothing.
Fresh == \A p \in Callers : caller[p].pc = "idle" => caller[p] = NotCalled

\* What is there lies in a directory.
Tree == <<>> \in dirs /\ \A d \in There \ {<<>>} : Parent(d) \in dirs

\* Everything up to where a caller is exists.
Behind ==
    \A p \in Callers : caller[p].pc # "idle" =>
        \A j \in 1 .. caller[p].i - 1 : Up(caller[p].path, j) \in There

\* How far a caller is in its path.
InPath ==
    \A p \in Callers :
        /\ caller[p].i <= Len(caller[p].path) + 1
        /\ caller[p].pc \in {"mkdir", "failed"} => caller[p].i <= Len(caller[p].path)
        /\ caller[p].pc = "returned" => caller[p].i = Len(caller[p].path) + 1

\* Somebody has come deeper than any directory that a caller made.
Passed == \A d \in made : \E q \in Callers : caller[q].i > Len(d)

DirsInv == DirsTypeOK /\ Fresh /\ Tree /\ Behind /\ InPath /\ Passed

-----------------------------------------------------------------------------
(* Paths and what comes before their ends.                                 *)

\* Every path is a sequence of names, no longer than the bound.
LEMMA PathsAreSeqs ==
    ASSUME NEW d \in Paths
    PROVE  d \in Seq(Names) /\ Len(d) \in 0 .. MaxDepth
<1>1. PICK n \in 0 .. MaxDepth : d \in [1 .. n -> Names]
    BY DEF Paths
<1> QED
    BY <1>1, DirsAssumption

\* The beginning of a path is a path, of the length that is asked for.
LEMMA UpIsPath ==
    ASSUME NEW d \in Paths, NEW i \in 0 .. Len(d)
    PROVE  Up(d, i) \in Paths /\ Len(Up(d, i)) = i
<1>1. d \in Seq(Names) /\ Len(d) \in 0 .. MaxDepth
    BY PathsAreSeqs
<1>2. \A j \in 1 .. i : d[j] \in Names
    BY <1>1
<1>3. Up(d, i) \in Seq(Names) /\ Len(Up(d, i)) = i
    BY <1>1, <1>2, SubSeqProperties DEF Up
<1>4. i \in 0 .. MaxDepth
    BY <1>1, DirsAssumption
<1>5. Up(d, i) \in [1 .. i -> Names]
    BY <1>3
<1> QED
    BY <1>3, <1>4, <1>5 DEF Paths

\* A path is its own end, and lies in the one that is a name shorter.
LEMMA ParentOfUp ==
    ASSUME NEW d \in Paths
    PROVE  /\ Up(d, Len(d)) = d
           /\ \A i \in 1 .. Len(d) : Up(d, i) # <<>> /\ Parent(Up(d, i)) = Up(d, i - 1)
<1>1. d \in Seq(Names) /\ Len(d) \in Nat
    BY PathsAreSeqs, DirsAssumption
<1>2. Up(d, Len(d)) = d
    BY <1>1 DEF Up
<1>3. ASSUME NEW i \in 1 .. Len(d)
      PROVE  Up(d, i) # <<>> /\ Parent(Up(d, i)) = Up(d, i - 1)
  <2> DEFINE u == Up(d, i)
  <2>1. i \in 0 .. Len(d) /\ i \in Nat
      BY <1>1
  <2>2. Len(u) = i /\ u \in Seq(Names) /\ \A j \in 1 .. i : u[j] = d[j]
      BY <1>1, <2>1 DEF Up
  <2> HIDE DEF u
  <2>3. u # <<>>
      BY <2>1, <2>2
  <2>4. SubSeq(u, 1, i - 1) = SubSeq(d, 1, i - 1)
      BY <1>1, <2>1, <2>2
  <2>5. Parent(u) = Up(d, i - 1)
      BY <2>2, <2>4 DEF Parent, Up
  <2> QED
      BY <2>3, <2>5 DEF u
<1> QED
    BY <1>2, <1>3

\* Of finitely many callers, or infinitely many, one is the deepest: the
\* depths are bounded.
LEMMA SomebodyIsDeepest ==
    ASSUME NEW at \in [Callers -> 1 .. MaxDepth + 1]
    PROVE  \E p \in Callers : \A q \in Callers : ~ (at[q] > at[p])
<1> DEFINE Left == {MaxDepth + 1 - at[p] : p \in Callers}
           R == OpToRel(<, Nat)
<1>1. Left \subseteq Nat
    BY DirsAssumption
<1>2. Left # {}
    BY CallersAssumption
<1>3. IsWellFoundedOn(R, Nat)
    BY NatLessThanWellFounded
<1> HIDE DEF R
<1>4. PICK x \in Left : \A y \in Left : ~ (<<y, x>> \in R)
    BY <1>1, <1>2, <1>3, WFMin
<1>5. PICK p \in Callers : x = MaxDepth + 1 - at[p]
    BY <1>4
<1>6. ASSUME NEW q \in Callers, at[q] > at[p]
      PROVE  FALSE
  <2> DEFINE y == MaxDepth + 1 - at[q]
  <2>1. y \in Left /\ y \in Nat /\ x \in Nat
      BY <1>1, <1>4
  <2>2. y < x
      BY <1>5, <1>6, DirsAssumption
  <2> HIDE DEF y
  <2>3. <<y, x>> \in R
      BY <2>1, <2>2 DEF R, OpToRel
  <2> QED
      BY <1>4, <2>1, <2>3
<1> QED
    BY <1>6

-----------------------------------------------------------------------------
(* The invariant holds before the calls.                                   *)

\* Nobody has called.
LEMMA DirsInvInit ==
    ASSUME DirsInit
    PROVE  DirsInv
<1>1. <<>> \in Paths
  <2>1. 0 \in 0 .. MaxDepth /\ <<>> \in [1 .. 0 -> Names]
      BY DirsAssumption
  <2> QED
      BY <2>1 DEF Paths
<1>2. \A p \in Callers : caller[p] = NotCalled
    BY DEF DirsInit
<1>3. NotCalled \in [pc : {"idle", "access", "mkdir", "failed", "returned"},
                     path : Paths, i : 1 .. MaxDepth + 1]
    BY <1>1, DirsAssumption DEF NotCalled
<1>4. DirsTypeOK
    BY <1>1, <1>3 DEF DirsTypeOK, DirsInit
<1>5. Fresh /\ Behind
    BY <1>2 DEF Fresh, Behind, NotCalled
<1>6. InPath
  <2>1. NotCalled.path = <<>> /\ NotCalled.i = 1 /\ NotCalled.pc = "idle"
      BY DEF NotCalled
  <2>2. Len(NotCalled.path) = 0
      BY DEF NotCalled
  <2> SUFFICES /\ NotCalled.i <= Len(NotCalled.path) + 1
               /\ NotCalled.pc \notin {"mkdir", "failed", "returned"}
      BY <1>2 DEF InPath
  <2> QED
      BY <2>1, <2>2
<1>7. Tree /\ Passed
    BY DEF DirsInit, Tree, Passed, There
<1> QED
    BY <1>4, <1>5, <1>6, <1>7 DEF DirsInv

-----------------------------------------------------------------------------
(* Every step keeps it.                                                    *)

\* What others make lies in a directory, and the callers are where they were.
LEMMA ExistsKeeps ==
    ASSUME DirsInv, NEW d \in Paths \ {<<>>}, Exists(d)
    PROVE  DirsInv'
<1>1. /\ There' = There \cup {d} /\ dirs \subseteq dirs' /\ Parent(d) \in dirs
      /\ dirs' \subseteq Paths /\ regular' \subseteq Paths
      /\ made' = made /\ caller' = caller
    BY DEF Exists, There, DirsInv, DirsTypeOK
<1>2. DirsTypeOK'
    BY <1>1 DEF DirsTypeOK, DirsInv
<1>3. Tree'
    BY <1>1 DEF Tree, DirsInv
<1>4. Behind'
    BY <1>1 DEF Behind, DirsInv
<1> QED
    BY <1>1, <1>2, <1>3, <1>4 DEF DirsInv, Fresh, InPath, Passed

CallerRecord == [pc : {"idle", "access", "mkdir", "failed", "returned"},
                 path : Paths, i : 1 .. MaxDepth + 1]

\* What a step of caller p that leaves it as r must give for the invariant to
\* hold after it: directories only come, in directories, and nobody goes back.
LEMMA StepKeeps ==
    ASSUME DirsInv,
           NEW p \in Callers, NEW r \in CallerRecord,
           caller' = [caller EXCEPT ![p] = r],
           dirs \subseteq dirs', dirs' \subseteq Paths, regular' = regular,
           made' \subseteq dirs', Tree',
           \A d \in made' \ made : r.i > Len(d),
           r.pc # "idle", r.i >= caller[p].i,
           \A j \in 1 .. r.i - 1 : Up(r.path, j) \in There',
           r.i <= Len(r.path) + 1,
           r.pc \in {"mkdir", "failed"} => r.i <= Len(r.path),
           r.pc = "returned" => r.i = Len(r.path) + 1
    PROVE  DirsInv'
<1>1. /\ caller \in [Callers -> CallerRecord]
      /\ caller' \in [Callers -> CallerRecord]
    BY DEF DirsInv, DirsTypeOK, CallerRecord
<1>2. caller'[p] = r /\ \A q \in Callers \ {p} : caller'[q] = caller[q]
    BY <1>1
<1>3. DirsTypeOK'
    BY <1>1 DEF DirsTypeOK, DirsInv, CallerRecord
<1>4. Fresh'
    BY <1>2 DEF Fresh, DirsInv
<1>5. Behind'
  <2>1. There \subseteq There'
      BY DEF There
  <2> QED
      BY <1>2, <2>1 DEF Behind, DirsInv
<1>6. InPath'
    BY <1>2 DEF InPath, DirsInv
<1>7. Passed'
  <2> SUFFICES ASSUME NEW d \in made' PROVE \E q \in Callers : caller'[q].i > Len(d)
      BY DEF Passed
  <2>1. CASE d \in made
    <3>1. PICK q \in Callers : caller[q].i > Len(d)
        BY <2>1 DEF DirsInv, Passed
    <3>2. caller'[q].i >= caller[q].i
        BY <1>1, <1>2 DEF CallerRecord
    <3>3. caller'[q].i \in Int /\ caller[q].i \in Int
        BY <1>1, DirsAssumption DEF CallerRecord
    <3>4. Len(d) \in Int
        BY <2>1, PathsAreSeqs DEF DirsInv, DirsTypeOK
    <3> QED
        BY <3>1, <3>2, <3>3, <3>4
  <2>2. CASE d \notin made
      BY <1>2, <2>2
  <2> QED
      BY <2>1, <2>2
<1> QED
    BY <1>3, <1>4, <1>5, <1>6, <1>7 DEF DirsInv

\* The caller has done nothing yet: it is at the first name.
LEMMA CallKeeps ==
    ASSUME DirsInv, NEW p \in Callers, NEW d \in Paths, Call(p, d)
    PROVE  DirsInv'
<1> DEFINE r == [pc |-> "access", path |-> d, i |-> 1]
<1>1. r \in CallerRecord
    BY DirsAssumption DEF CallerRecord
<1>2. dirs \subseteq Paths /\ made \subseteq dirs
    BY DEF DirsInv, DirsTypeOK
<1>3. caller[p].i = 1
    BY DEF DirsInv, Fresh, NotCalled, Call
<1>4. d \in Seq(Names) /\ Len(d) \in 0 .. MaxDepth
    BY PathsAreSeqs
<1>5. /\ r.i = 1 /\ r.path = d /\ r.pc = "access"
      /\ caller' = [caller EXCEPT ![p] = r]
      /\ dirs' = dirs /\ regular' = regular /\ made' = made
    BY DEF Call
<1> HIDE DEF r
<1>6. r.i <= Len(r.path) + 1 /\ r.i >= caller[p].i
    BY <1>3, <1>4, <1>5
<1>7. \A j \in 1 .. r.i - 1 : Up(r.path, j) \in There'
    BY <1>5
<1>8. Tree'
    BY <1>5 DEF DirsInv, Tree, There
<1> QED
    BY <1>1, <1>2, <1>5, <1>6, <1>7, <1>8, StepKeeps

\* Where caller p is when it is at a name of its path.
LEMMA AtName ==
    ASSUME DirsInv, NEW p \in Callers, caller[p].pc # "idle",
           caller[p].i <= Len(caller[p].path)
    PROVE  /\ caller[p] \in CallerRecord
           /\ caller[p].i \in Nat /\ Len(caller[p].path) \in Nat
           /\ caller[p].i + 1 \in 1 .. MaxDepth + 1
           /\ Here(p) \in Paths \ {<<>>} /\ Len(Here(p)) = caller[p].i
           /\ \A j \in 1 .. caller[p].i - 1 : Up(caller[p].path, j) \in There
           /\ dirs \subseteq Paths /\ made \subseteq dirs
           /\ caller \in [Callers -> CallerRecord]
<1>1. /\ caller \in [Callers -> CallerRecord] /\ dirs \subseteq Paths
      /\ made \subseteq dirs
    BY DEF DirsInv, DirsTypeOK, CallerRecord
<1>2. caller[p].i \in 1 .. MaxDepth + 1 /\ caller[p].path \in Paths
    BY <1>1 DEF CallerRecord
<1>3. Len(caller[p].path) \in 0 .. MaxDepth
    BY <1>2, PathsAreSeqs
<1>4. caller[p].i \in 1 .. Len(caller[p].path)
    BY <1>2, <1>3, DirsAssumption
<1>5. Here(p) \in Paths /\ Len(Here(p)) = caller[p].i /\ Here(p) # <<>>
  <2>1. caller[p].i \in 0 .. Len(caller[p].path)
      BY <1>3, <1>4
  <2> QED
      BY <1>2, <1>4, <2>1, UpIsPath, ParentOfUp DEF Here
<1>6. \A j \in 1 .. caller[p].i - 1 : Up(caller[p].path, j) \in There
    BY DEF DirsInv, Behind
<1> QED
    BY <1>1, <1>2, <1>3, <1>4, <1>5, <1>6, DirsAssumption

\* access() goes on only past what is there.
LEMMA AccessKeeps ==
    ASSUME DirsInv, NEW p \in Callers, access(p)
    PROVE  DirsInv'
<1>0. /\ caller[p].pc = "access" /\ caller[p].i <= Len(caller[p].path)
      /\ dirs' = dirs /\ regular' = regular /\ made' = made
    BY DEF access
<1>1. /\ caller[p] \in CallerRecord
      /\ caller[p].i \in Nat /\ Len(caller[p].path) \in Nat
      /\ caller[p].i + 1 \in 1 .. MaxDepth + 1
      /\ \A j \in 1 .. caller[p].i - 1 : Up(caller[p].path, j) \in There
      /\ dirs \subseteq Paths /\ made \subseteq dirs
    BY <1>0, AtName
<1>2. Tree' /\ There' = There
    BY <1>0 DEF DirsInv, Tree, There
<1>3. CASE Here(p) \in There /\ caller' = [caller EXCEPT ![p].i = @ + 1]
  <2> DEFINE r == [caller[p] EXCEPT !.i = @ + 1]
  <2>1. caller' = [caller EXCEPT ![p] = r]
      BY <1>3
  <2>2. /\ r.i = caller[p].i + 1 /\ r.pc = "access"
        /\ r.path = caller[p].path /\ r \in CallerRecord
      BY <1>0, <1>1 DEF CallerRecord
  <2> HIDE DEF r
  <2>3. \A j \in 1 .. r.i - 1 : Up(r.path, j) \in There'
      BY <1>1, <1>2, <1>3, <2>2 DEF Here
  <2>4. r.i <= Len(r.path) + 1 /\ r.i >= caller[p].i
      BY <1>0, <1>1, <2>2
  <2> QED
      BY <1>0, <1>1, <1>2, <2>1, <2>2, <2>3, <2>4, StepKeeps
<1>4. CASE caller' = [caller EXCEPT ![p].pc = "mkdir"]
  <2> DEFINE r == [caller[p] EXCEPT !.pc = "mkdir"]
  <2>1. caller' = [caller EXCEPT ![p] = r]
      BY <1>4
  <2>2. /\ r.i = caller[p].i /\ r.pc = "mkdir"
        /\ r.path = caller[p].path /\ r \in CallerRecord
      BY <1>1 DEF CallerRecord
  <2> HIDE DEF r
  <2>3. r.i <= Len(r.path) + 1 /\ r.i <= Len(r.path) /\ r.i >= caller[p].i
      BY <1>0, <1>1, <2>2
  <2>4. \A j \in 1 .. r.i - 1 : Up(r.path, j) \in There'
      BY <1>1, <1>2, <2>2
  <2> QED
      BY <1>0, <1>1, <1>2, <2>1, <2>2, <2>3, <2>4, StepKeeps
<1> QED
    BY <1>3, <1>4 DEF access

\* Whoever makes a directory goes on past it.
LEMMA MkdirKeeps ==
    ASSUME DirsInv, NEW p \in Callers, mkdir(p)
    PROVE  DirsInv'
<1>0. /\ caller[p].pc = "mkdir" /\ caller[p].i <= Len(caller[p].path)
      /\ regular' = regular
    BY DEF mkdir, DirsInv, InPath
<1>1. /\ caller[p] \in CallerRecord
      /\ caller[p].i \in Nat /\ Len(caller[p].path) \in Nat
      /\ caller[p].i + 1 \in 1 .. MaxDepth + 1
      /\ Here(p) \in Paths \ {<<>>} /\ Len(Here(p)) = caller[p].i
      /\ \A j \in 1 .. caller[p].i - 1 : Up(caller[p].path, j) \in There
      /\ dirs \subseteq Paths /\ made \subseteq dirs
    BY <1>0, AtName
<1>2. CASE Makes(p)
  <2> DEFINE r == [caller[p] EXCEPT !.pc = "access", !.i = @ + 1]
             h == Here(p)
  <2>1. /\ caller' = [caller EXCEPT ![p] = r]
        /\ dirs' = dirs \cup {h} /\ made' = made \cup {h} /\ Parent(h) \in dirs
      BY <1>2 DEF Makes
  <2>2. [caller[p] EXCEPT !.pc = "access"] \in CallerRecord
      BY <1>1 DEF CallerRecord
  <2>3. /\ r.i = caller[p].i + 1 /\ r.pc = "access"
        /\ r.path = caller[p].path /\ r \in CallerRecord
      BY <1>1, <2>2 DEF CallerRecord
  <2>4. h \in Paths \ {<<>>} /\ Len(h) = caller[p].i
      BY <1>1
  <2>5. h = Up(r.path, caller[p].i)
      BY <2>3 DEF Here
  <2> HIDE DEF r, h
  <2>6. There' = There \cup {h}
      BY <1>0, <2>1 DEF There
  <2>7. Tree'
      BY <2>1, <2>4, <2>6 DEF Tree, DirsInv
  <2>8. \A j \in 1 .. r.i - 1 : Up(r.path, j) \in There'
      BY <1>1, <2>3, <2>5, <2>6
  <2>9. r.i <= Len(r.path) + 1 /\ r.i >= caller[p].i
      BY <1>0, <1>1, <2>3
  <2>10. \A d \in made' \ made : r.i > Len(d)
      BY <1>1, <2>1, <2>3, <2>4
  <2>11. dirs \subseteq dirs' /\ dirs' \subseteq Paths /\ made' \subseteq dirs'
      BY <1>1, <2>1, <2>4
  <2> QED
      BY <1>0, <2>1, <2>3, <2>7, <2>8, <2>9, <2>10, <2>11, StepKeeps
<1>3. CASE /\ caller' = [caller EXCEPT ![p].pc = "failed"]
           /\ UNCHANGED <<dirs, made>>
  <2> DEFINE r == [caller[p] EXCEPT !.pc = "failed"]
  <2>1. caller' = [caller EXCEPT ![p] = r] /\ dirs' = dirs /\ made' = made
      BY <1>3
  <2>2. /\ r.i = caller[p].i /\ r.pc = "failed"
        /\ r.path = caller[p].path /\ r \in CallerRecord
      BY <1>1 DEF CallerRecord
  <2> HIDE DEF r
  <2>3. r.i <= Len(r.path) + 1 /\ r.i <= Len(r.path) /\ r.i >= caller[p].i
      BY <1>0, <1>1, <2>2
  <2>4. Tree' /\ There' = There
      BY <1>0, <2>1 DEF DirsInv, Tree, There
  <2>5. \A j \in 1 .. r.i - 1 : Up(r.path, j) \in There'
      BY <1>1, <2>2, <2>4
  <2> QED
      BY <1>0, <1>1, <2>1, <2>2, <2>3, <2>4, <2>5, StepKeeps
<1> QED
    BY <1>2, <1>3 DEF mkdir

\* The end of the path.
LEMMA ReturnKeeps ==
    ASSUME DirsInv, NEW p \in Callers, Return(p)
    PROVE  DirsInv'
<1> DEFINE r == [caller[p] EXCEPT !.pc = "returned"]
<1>1. /\ caller \in [Callers -> CallerRecord] /\ dirs \subseteq Paths
      /\ made \subseteq dirs
    BY DEF DirsInv, DirsTypeOK, CallerRecord
<1>2. /\ caller[p].i \in 1 .. MaxDepth + 1 /\ caller[p].path \in Paths
      /\ caller[p].pc = "access" /\ caller[p].i > Len(caller[p].path)
      /\ caller[p].i <= Len(caller[p].path) + 1
      /\ dirs' = dirs /\ regular' = regular /\ made' = made
    BY <1>1 DEF Return, CallerRecord, DirsInv, InPath
<1>3. Len(caller[p].path) \in 0 .. MaxDepth
    BY <1>2, PathsAreSeqs
<1>4. \A j \in 1 .. caller[p].i - 1 : Up(caller[p].path, j) \in There
    BY <1>2 DEF DirsInv, Behind
<1>5. caller' = [caller EXCEPT ![p] = r]
    BY DEF Return
<1>6. /\ r.i = caller[p].i /\ r.pc = "returned"
      /\ r.path = caller[p].path /\ r \in CallerRecord
    BY <1>1, <1>2 DEF CallerRecord
<1> HIDE DEF r
<1>7. r.i = Len(r.path) + 1 /\ r.i >= caller[p].i
    BY <1>2, <1>3, <1>6, DirsAssumption
<1>8. Tree' /\ There' = There
    BY <1>2 DEF DirsInv, Tree, There
<1>9. \A j \in 1 .. r.i - 1 : Up(r.path, j) \in There'
    BY <1>4, <1>6, <1>8
<1>10. r.i <= Len(r.path) + 1
    BY <1>3, <1>6, <1>7
<1> QED
    BY <1>1, <1>2, <1>5, <1>6, <1>7, <1>8, <1>9, <1>10, StepKeeps

-----------------------------------------------------------------------------
(* What the callers are promised.                                          *)

\* What is there has directories above it.  The deepest caller is not one that
\* was beaten.
LEMMA DirsInvMeans == DirsInv => SomeCallSucceeds
<1> SUFFICES ASSUME DirsInv PROVE SomeCallSucceeds
    OBVIOUS
<1>1. caller \in [Callers -> CallerRecord]
    BY DEF DirsInv, DirsTypeOK, CallerRecord
<1>2. ASSUME NEW p \in Callers, caller[p].pc = "returned"
      PROVE  /\ caller[p].path \in There
             /\ \A i \in 1 .. Len(caller[p].path) - 1 : Up(caller[p].path, i) \in dirs
  <2> DEFINE d == caller[p].path
  <2>1. d \in Paths /\ Len(d) \in 0 .. MaxDepth /\ caller[p].i = Len(d) + 1
      BY <1>1, <1>2, PathsAreSeqs DEF CallerRecord, DirsInv, InPath
  <2>2. \A j \in 1 .. caller[p].i - 1 : Up(d, j) \in There
      BY <1>2 DEF DirsInv, Behind
  <2> HIDE DEF d
  <2>3. \A j \in 1 .. Len(d) : Up(d, j) \in There
      BY <2>1, <2>2, DirsAssumption
  <2>4. d \in There
    <3>1. CASE Len(d) = 0
      <4>1. d = <<>>
          BY <2>1, <3>1, PathsAreSeqs
      <4> QED
          BY <4>1 DEF DirsInv, Tree, There
    <3>2. CASE Len(d) # 0
        BY <2>1, <2>3, <3>2, ParentOfUp, DirsAssumption
    <3> QED
        BY <3>1, <3>2
  <2>5. ASSUME NEW i \in 1 .. Len(d) - 1 PROVE Up(d, i) \in dirs
    <3> DEFINE k == i + 1
    <3>1. k \in 1 .. Len(d) /\ k - 1 = i
        BY <2>1, DirsAssumption
    <3> HIDE DEF k
    <3>2. Up(d, k) \in There \ {<<>>} /\ Parent(Up(d, k)) = Up(d, i)
        BY <2>1, <2>3, <3>1, ParentOfUp
    <3> QED
        BY <3>2 DEF DirsInv, Tree
  <2> QED
      BY <2>4, <2>5 DEF d
<1>3. ASSUME \A p \in Callers : caller[p].pc = "returned" \/ Beaten(p)
      PROVE  \E p \in Callers : caller[p].pc = "returned"
  <2> DEFINE at == [p \in Callers |-> caller[p].i]
  <2>1. at \in [Callers -> 1 .. MaxDepth + 1]
      BY <1>1 DEF CallerRecord
  <2>2. PICK p \in Callers : \A q \in Callers : ~ (at[q] > at[p])
      BY <2>1, SomebodyIsDeepest
  <2>3. ~ Beaten(p)
    <3> SUFFICES ASSUME Beaten(p) PROVE FALSE
        OBVIOUS
    <3>1. caller[p].pc = "failed" /\ Here(p) \in made
        BY DEF Beaten
    <3>2. Len(Here(p)) = caller[p].i
        BY <3>1, AtName DEF DirsInv, InPath
    <3>3. PICK q \in Callers : caller[q].i > Len(Here(p))
        BY <3>1 DEF DirsInv, Passed
    <3> QED
        BY <2>2, <3>2, <3>3
  <2> QED
      BY <1>3, <2>3
<1> QED
    BY <1>2, <1>3 DEF SomeCallSucceeds

\* DirsInv is inductive.
LEMMA DirsInvNext == DirsInv /\ [DirsNext]_dirsVars => DirsInv'
<1> SUFFICES ASSUME DirsInv, [DirsNext]_dirsVars PROVE DirsInv'
    OBVIOUS
<1>1. ASSUME NEW d \in Paths \ {<<>>}, Exists(d) PROVE DirsInv'
    BY <1>1, ExistsKeeps
<1>2. ASSUME NEW p \in Callers, NEW d \in Paths, Call(p, d) PROVE DirsInv'
    BY <1>2, CallKeeps
<1>3. ASSUME NEW p \in Callers, access(p) PROVE DirsInv'
    BY <1>3, AccessKeeps
<1>4. ASSUME NEW p \in Callers, mkdir(p) PROVE DirsInv'
    BY <1>4, MkdirKeeps
<1>5. ASSUME NEW p \in Callers, Return(p) PROVE DirsInv'
    BY <1>5, ReturnKeeps
<1>6. CASE UNCHANGED dirsVars
    BY <1>6 DEF dirsVars, DirsInv, DirsTypeOK, Fresh, Tree, Behind, InPath, Passed, There
<1> QED
    BY <1>1, <1>2, <1>3, <1>4, <1>5, <1>6 DEF DirsNext

\* A call of CreateDirs that returns 0 leaves its path behind it: directories,
\* and at its end a directory or a regular file.  And of calls that give up
\* only at what another of them made, one returns 0.  It is so however they
\* interleave between the access() and the mkdir(), whatever others make
\* meanwhile, and whatever the system refuses.
THEOREM DirsSafe == DirsSpec => []SomeCallSucceeds
BY DirsInvInit, DirsInvNext, DirsInvMeans, PTL DEF DirsSpec

-----------------------------------------------------------------------------
(* PacketCapture: for all lengths of headers and payloads.  In the loop of *)
(* print_payload the lines printed are full, and end where ch begins.      *)

\* Line k of a payload that begins at byte p, when it is full.
FullLine(p, k) == Line(p + LINE_WIDTH * (k - 1), LINE_WIDTH, LINE_WIDTH * (k - 1))

\* Such lines from byte p on, m of them, and the rest up to byte e.
FullThenLast(q, p, m, e) ==
    /\ DOMAIN q = 1 .. m + 1
    /\ \A k \in 1 .. m : q[k] = FullLine(p, k)
    /\ q[m + 1] = Line(p + 16 * m, e - (p + 16 * m), 16 * m)
    /\ e - (p + 16 * m) \in 1 .. 16

\* What PayloadPrintedOnce says of each line.
LinesFit(q, c) ==
    \A k \in DOMAIN q :
        /\ q[k].len \in 1 .. LINE_WIDTH
        /\ q[k].offset = q[k].from - q[1].from
        /\ k > 1 => /\ q[k].from = q[k - 1].from + LINE_WIDTH
                    /\ q[k - 1].len = LINE_WIDTH
        /\ q[k].from + q[k].len <= c

PayloadAt(f) == SIZE_ETHERNET + 4 * f.hl + 4 * f.off
PacketEnd(f) == SIZE_ETHERNET + f.ip_len

\* In the loop of print_payload: full lines are printed, more than one line is
\* left, and ch, len_rem and offset say the same.
Printing ==
    sniffer = "print" =>
        /\ tool = "sniffex" /\ frame \in Frames /\ IsTcp(frame)
        /\ size = Cardinality(PayloadOf(frame))
        /\ rest.len_rem > LINE_WIDTH
        /\ rest.offset = LINE_WIDTH * Len(lines)
        /\ rest.ch = PayloadAt(frame) + rest.offset
        /\ rest.ch + rest.len_rem = PacketEnd(frame)
        /\ \A k \in DOMAIN lines : lines[k] = FullLine(PayloadAt(frame), k)

\* While main sets up there is no frame.
SettingUp ==
    sniffer \in {Calls[k] : k \in DOMAIN Calls} =>
        frame = NoFrame /\ size = -1 /\ lines = <<>>

CaptureInv == CaptureTypeOK /\ SettingUp /\ Printing /\ PayloadPrintedOnce

LEMMA FrameFields ==
    ASSUME NEW f \in Frames
    PROVE  /\ f.hl \in Nat /\ f.off \in Nat /\ f.ip_len \in Nat /\ f.caplen \in Nat
           /\ f.caplen >= PacketEnd(f)
           /\ Dissects(f) <=> IsTcp(f)
           /\ Dissects(f) => PayloadAt(f) <= PacketEnd(f)
<1>1. PICK p \in {"tcp", "udp", "icmp", "ip", "other"}, i \in IpWords, o \in TcpWords,
           s \in Payloads : f = Frame(p, i, o, s)
    BY DEF Frames
<1>2. i \in Nat /\ o \in Nat /\ s \in Nat
    BY CaptureAssumption
<1> DEFINE n == 4 * Greater(i, 5) + 4 * Greater(o, 5) + s
<1>3. /\ f.protocol = p /\ f.hl = i /\ f.off = o /\ f.ip_len = n
      /\ f.caplen = Greater(SIZE_ETHERNET + n, MIN_FRAME)
    BY <1>1 DEF Frame
<1>4. n \in Nat /\ n >= 4 * i + 4 * o
    BY <1>2 DEF Greater
<1> HIDE DEF n
<1>5. f.caplen \in Nat /\ f.caplen >= SIZE_ETHERNET + n
    BY <1>3, <1>4 DEF Greater, SIZE_ETHERNET, MIN_FRAME
<1>6. i * 4 >= 20 <=> i >= 5
    BY <1>2
<1>7. o * 4 >= 20 <=> o >= 5
    BY <1>2
<1>8. Dissects(f) <=> IsTcp(f)
    BY <1>3, <1>6, <1>7 DEF Dissects, IsTcp
<1>9. PayloadAt(f) <= PacketEnd(f)
    BY <1>2, <1>3, <1>4 DEF PayloadAt, PacketEnd, SIZE_ETHERNET
<1> QED
    BY <1>2, <1>3, <1>4, <1>5, <1>8, <1>9 DEF PacketEnd

LEMMA LineLength == ASSUME NEW n \in Nat, n > 16 PROVE 16 % n = 16
OBVIOUS

\* The size that got_packet prints.
LEMMA PayloadSize ==
    ASSUME NEW f \in Frames, IsTcp(f)
    PROVE  /\ Cardinality(PayloadOf(f)) = PacketEnd(f) - PayloadAt(f)
           /\ PayloadOf(f) = PayloadAt(f) .. PacketEnd(f) - 1
<1>1. /\ f.hl \in Nat /\ f.off \in Nat /\ f.ip_len \in Nat
      /\ PayloadAt(f) <= PacketEnd(f)
    BY FrameFields
<1>2. PayloadAt(f) \in Int /\ PacketEnd(f) \in Int
    BY <1>1 DEF PayloadAt, PacketEnd, SIZE_ETHERNET
<1>3. PayloadOf(f) = PayloadAt(f) .. PacketEnd(f) - 1
  <2>1. PacketEnd(f) - 1 = SIZE_ETHERNET + f.ip_len - 1
      BY <1>1 DEF PacketEnd, SIZE_ETHERNET
  <2> QED
      BY <2>1, Zenon DEF PayloadOf, PayloadAt
<1>4. PacketEnd(f) - 1 \in Int
    BY <1>2
<1>5. Cardinality(PayloadAt(f) .. PacketEnd(f) - 1)
        = IF PayloadAt(f) > PacketEnd(f) - 1 THEN 0
          ELSE PacketEnd(f) - 1 - PayloadAt(f) + 1
    BY <1>2, <1>4, FS_Interval
<1> QED
    BY <1>1, <1>2, <1>3, <1>5

\* A line lies in the payload.
LEMMA LineInside ==
    ASSUME NEW p \in Nat, NEW m \in Nat, NEW e \in Nat, NEW k \in 1 .. m + 1,
           e - (p + 16 * m) \in 1 .. 16,
           NEW from, from = p + 16 * (k - 1),
           NEW len, len = IF k <= m THEN 16 ELSE e - (p + 16 * m)
    PROVE  from \in Nat /\ len \in 1 .. 16 /\ p <= from /\ from + len <= e
<1>1. CASE k <= m
    BY <1>1
<1>2. CASE k > m
  <2>1. k - 1 = m /\ ~(k <= m)
      BY <1>2
  <2>2. from = p + 16 * m /\ len = e - (p + 16 * m)
      BY <2>1
  <2> QED
      BY <2>2
<1> QED
    BY <1>1, <1>2

\* Full lines one after the other and a last one, up to byte e: what
\* PayloadPrintedOnce says of the lines.
LEMMA LinesAreOnce ==
    ASSUME NEW p \in Nat, NEW m \in Nat, NEW e \in Nat, NEW q, NEW c \in Nat,
           FullThenLast(q, p, m, e), e <= c
    PROVE  UNION {BytesOf(q[k]) : k \in DOMAIN q} = p .. e - 1 /\ LinesFit(q, c)
<1>0. /\ DOMAIN q = 1 .. m + 1 /\ \A k \in 1 .. m : q[k] = FullLine(p, k)
      /\ q[m + 1] = Line(p + 16 * m, e - (p + 16 * m), 16 * m)
      /\ e - (p + 16 * m) \in 1 .. 16
    BY DEF FullThenLast
<1>1. \A k \in 1 .. m : /\ q[k].from = p + 16 * (k - 1) /\ q[k].len = 16
                        /\ q[k].offset = 16 * (k - 1)
  <2> TAKE k \in 1 .. m
  <2>1. q[k] = [from   |-> p + 16 * (k - 1), len |-> 16, offset |-> 16 * (k - 1)]
      BY <1>0, Zenon DEF FullLine, Line, LINE_WIDTH
  <2> QED
      BY <2>1
<1>2. /\ q[m + 1].from = p + 16 * m /\ q[m + 1].len = e - (p + 16 * m)
      /\ q[m + 1].offset = 16 * m
    BY <1>0 DEF Line
<1>3. \A k \in 1 .. m + 1 : /\ q[k].from = p + 16 * (k - 1)
                            /\ q[k].len = IF k <= m THEN 16 ELSE e - (p + 16 * m)
                            /\ q[k].offset = 16 * (k - 1)
  <2> SUFFICES ASSUME NEW k \in 1 .. m + 1
               PROVE  /\ q[k].from = p + 16 * (k - 1)
                      /\ q[k].len = IF k <= m THEN 16 ELSE e - (p + 16 * m)
                      /\ q[k].offset = 16 * (k - 1)
      OBVIOUS
  <2>1. CASE k \in 1 .. m
      BY <1>1, <2>1
  <2>2. CASE k = m + 1
    <3>1. k - 1 = m /\ ~(k <= m)
        BY <2>2
    <3> QED
        BY <1>2, <2>2, <3>1
  <2> QED
      BY <2>1, <2>2
<1>4. LinesFit(q, c)
  <2> SUFFICES ASSUME NEW k \in DOMAIN q
               PROVE  /\ q[k].len \in 1 .. LINE_WIDTH
                      /\ q[k].offset = q[k].from - q[1].from
                      /\ k > 1 => /\ q[k].from = q[k - 1].from + LINE_WIDTH
                                  /\ q[k - 1].len = LINE_WIDTH
                      /\ q[k].from + q[k].len <= c
      BY DEF LinesFit
  <2>1. q[k].len \in 1 .. LINE_WIDTH
    <3>1. k \in 1 .. m + 1 /\ LINE_WIDTH = 16
        BY <1>0 DEF LINE_WIDTH
    <3>2. q[k].len = IF k <= m THEN 16 ELSE e - (p + 16 * m)
        BY <1>3, <3>1
    <3> QED
        BY <1>0, <3>1, <3>2
  <2>2. q[k].offset = q[k].from - q[1].from
    <3>1. 1 \in 1 .. m + 1 /\ k \in 1 .. m + 1
        BY <1>0
    <3>2. q[1].from = p
        BY <1>3, <3>1
    <3> QED
        BY <1>3, <3>1, <3>2
  <2>3. k > 1 => q[k].from = q[k - 1].from + LINE_WIDTH /\ q[k - 1].len = LINE_WIDTH
    <3> SUFFICES ASSUME k > 1 PROVE q[k].from = q[k - 1].from + LINE_WIDTH
                                    /\ q[k - 1].len = LINE_WIDTH
        OBVIOUS
    <3>1. k - 1 \in 1 .. m + 1 /\ k - 1 <= m /\ k \in 1 .. m + 1
        BY <1>0
    <3>2. q[k].from = p + 16 * (k - 1)
        BY <1>3, <3>1
    <3>3. q[k - 1].from = p + 16 * (k - 1 - 1) /\ q[k - 1].len = 16
        BY <1>3, <3>1
    <3> QED
        BY <3>1, <3>2, <3>3 DEF LINE_WIDTH
  <2>4. q[k].from + q[k].len <= c
    <3>1. /\ k \in 1 .. m + 1 /\ q[k].from = p + 16 * (k - 1)
          /\ q[k].len = IF k <= m THEN 16 ELSE e - (p + 16 * m)
        BY <1>0, <1>3
    <3>2. e - (p + 16 * m) \in 1 .. 16
        BY <1>0
    <3>3. /\ q[k].from \in Nat /\ q[k].len \in 1 .. 16
          /\ p <= q[k].from /\ q[k].from + q[k].len <= e
        BY <3>1, <3>2, LineInside
    <3> QED
        BY <3>3
  <2> QED
      BY <2>1, <2>2, <2>3, <2>4
<1>5. ASSUME NEW k \in DOMAIN q, NEW b \in BytesOf(q[k]) PROVE b \in p .. e - 1
  <2>1. /\ k \in 1 .. m + 1 /\ q[k].from = p + 16 * (k - 1)
        /\ q[k].len = IF k <= m THEN 16 ELSE e - (p + 16 * m)
      BY <1>0, <1>3
  <2>2. e - (p + 16 * m) \in 1 .. 16
      BY <1>0
  <2>3. /\ q[k].from \in Nat /\ q[k].len \in 1 .. 16
        /\ p <= q[k].from /\ q[k].from + q[k].len <= e
      BY <2>1, <2>2, LineInside
  <2>4. b \in Int /\ q[k].from <= b /\ b < q[k].from + q[k].len
      BY <2>3 DEF BytesOf
  <2> QED
      BY <2>3, <2>4
<1>6. ASSUME NEW b \in p .. e - 1 PROVE \E k \in DOMAIN q : b \in BytesOf(q[k])
  <2> DEFINE k == (b - p) \div 16 + 1
  <2>1. k \in 1 .. m + 1 /\ 16 * (k - 1) <= b - p /\ b - p < 16 * k
      BY <1>0
  <2> HIDE DEF k
  <2>2. /\ q[k].from = p + 16 * (k - 1)
        /\ q[k].len = IF k <= m THEN 16 ELSE e - (p + 16 * m)
      BY <1>3, <2>1
  <2>3. k <= m \/ k - 1 = m
      BY <2>1
  <2>4. q[k].from <= b /\ b <= q[k].from + q[k].len - 1
      BY <1>0, <2>1, <2>2, <2>3
  <2>5. b \in q[k].from .. q[k].from + q[k].len - 1
      BY <1>0, <2>1, <2>2, <2>4
  <2> QED
      BY <1>0, <2>1, <2>5, Zenon DEF BytesOf
<1>7. UNION {BytesOf(q[k]) : k \in DOMAIN q} = p .. e - 1
    BY <1>5, <1>6, Zenon
<1> QED
    BY <1>4, <1>7

\* The same for the payload of a frame.
LEMMA PayloadIsOnce ==
    ASSUME NEW f \in Frames, IsTcp(f), NEW m \in Nat, NEW q,
           FullThenLast(q, PayloadAt(f), m, PacketEnd(f))
    PROVE  /\ UNION {BytesOf(q[k]) : k \in DOMAIN q} = PayloadOf(f)
           /\ LinesFit(q, f.caplen)
<1>1. f.hl \in Nat /\ f.off \in Nat /\ f.ip_len \in Nat /\ f.caplen \in Nat
    BY FrameFields
<1>2. PacketEnd(f) \in Nat
    BY <1>1 DEF PacketEnd, SIZE_ETHERNET
<1>3. PayloadAt(f) \in Nat
    BY <1>1 DEF PayloadAt, SIZE_ETHERNET
<1>4. PacketEnd(f) <= f.caplen
    BY <1>1, <1>2, FrameFields
<1>5. PayloadOf(f) = PayloadAt(f) .. PacketEnd(f) - 1
    BY PayloadSize
<1> QED
    BY <1>1, <1>2, <1>3, <1>4, <1>5, LinesAreOnce

\* Nothing is printed of a frame without a payload.
LEMMA NothingIsOnce ==
    ASSUME lines' = <<>>, size' = -1, frame' = NoFrame
    PROVE  PayloadPrintedOnce'
<1>1. DOMAIN lines' = {}
    BY EmptySeq
<1>2. ~IsTcp(frame') /\ PayloadOf(frame') = {}
    BY DEF IsTcp, NoFrame, PayloadOf
<1>3. UNION {BytesOf(lines'[k]) : k \in DOMAIN lines'} = {}
    BY <1>1
<1> QED
    BY <1>1, <1>2, <1>3 DEF PayloadPrintedOnce

LEMMA CaptureInvInit == CaptureInit => CaptureInv
<1> SUFFICES ASSUME CaptureInit PROVE CaptureInv
    OBVIOUS
<1>1. CaptureTypeOK
  <2>1. lines \in Seq([from : Nat, len : Nat, offset : Nat])
      BY EmptySeq DEF CaptureInit
  <2>2. counter \in 0 .. MaxFrames /\ size \in Int
      BY CaptureAssumption DEF CaptureInit
  <2>3. 1 \in DOMAIN Calls
      BY DEF Calls
  <2> QED
      BY <2>1, <2>2, <2>3 DEF CaptureInit, CaptureTypeOK
<1>2. sniffer = "lookupdev"
    BY DEF CaptureInit, Calls
<1> QED
    BY <1>1, <1>2 DEF CaptureInit, CaptureInv, SettingUp, Printing, PayloadPrintedOnce

LEMMA CaptureInvNext == CaptureInv /\ [CaptureNext]_captureVars => CaptureInv'
<1> SUFFICES ASSUME CaptureInv, [CaptureNext]_captureVars PROVE CaptureInv'
    OBVIOUS
<1>0. CaptureTypeOK /\ SettingUp /\ Printing /\ PayloadPrintedOnce
    BY DEF CaptureInv
\* Only the last call of main lets pcap_loop begin, and then no frame has come.
<1>1. ASSUME NEW k \in DOMAIN Calls, SetUp(k) PROVE CaptureInv'
  <2>1. sniffer' \in {Calls[i] : i \in DOMAIN Calls} \cup {"loop", "exited"}
      BY <1>1 DEF SetUp, Calls
  <2>2. UNCHANGED <<tool, counter, frame, size, rest, lines>>
      BY <1>1 DEF SetUp
  <2>3. frame = NoFrame /\ size = -1 /\ lines = <<>>
      BY <1>0, <1>1 DEF SettingUp, SetUp
  <2>4. CaptureTypeOK'
      BY <1>0, <2>1, <2>2 DEF CaptureTypeOK
  <2>5. SettingUp' /\ Printing'
      BY <2>1, <2>2, <2>3 DEF SettingUp, Printing, Calls
  <2>6. PayloadPrintedOnce'
      BY <2>2, <2>3, NothingIsOnce
  <2> QED
      BY <2>4, <2>5, <2>6 DEF CaptureInv
<1>2. ASSUME NEW f \in Frames, got_packet(f) PROVE CaptureInv'
  <2> DEFINE n == f.ip_len - (f.hl * 4 + f.off * 4)
             p == PayloadAt(f)
             e == PacketEnd(f)
  <2>1. /\ f.hl \in Nat /\ f.off \in Nat /\ f.ip_len \in Nat
        /\ Dissects(f) <=> IsTcp(f)
        /\ Dissects(f) => p <= e
      BY FrameFields
  <2>2. p \in Nat /\ e \in Nat /\ n = e - p /\ n \in Int
    <3>0. f.hl \in Nat /\ f.off \in Nat /\ f.ip_len \in Nat
        BY <2>1
    <3>1. p \in Nat
        BY <3>0 DEF PayloadAt, SIZE_ETHERNET
    <3>2. e \in Nat
        BY <3>0 DEF PacketEnd, SIZE_ETHERNET
    <3>3. n = (SIZE_ETHERNET + f.ip_len) - (SIZE_ETHERNET + 4 * f.hl + 4 * f.off)
        BY <3>0, SMTT(30) DEF SIZE_ETHERNET
    <3>4. n = e - p
        BY <3>3, Zenon DEF PayloadAt, PacketEnd
    <3>5. n \in Int
        BY <3>0
    <3> QED
        BY <3>1, <3>2, <3>4, <3>5
  <2>3. /\ sniffer = "loop" /\ counter < MaxFrames
        /\ counter' = counter + 1 /\ frame' = f /\ UNCHANGED tool
        /\ size' = IF Dissects(f) THEN n ELSE -1
      BY <1>2 DEF got_packet
  <2>4. /\ lines \in Seq([from : Nat, len : Nat, offset : Nat])
        /\ rest \in [ch : Nat, len_rem : Int, offset : Nat]
        /\ tool \in {"sniffex", "custcap"} /\ counter' \in 0 .. MaxFrames /\ size' \in Int
    <3>1. counter \in 0 .. MaxFrames /\ MaxFrames \in Nat
        BY <1>0, CaptureAssumption DEF CaptureTypeOK
    <3>2. counter' \in 0 .. MaxFrames /\ size' \in Int
        BY <2>2, <2>3, <3>1
    <3> QED
        BY <1>0, <3>2 DEF CaptureTypeOK
  <2>5. /\ Dissects(f) => Cardinality(PayloadOf(f)) = n
        /\ Dissects(f) /\ n <= 0 => PayloadOf(f) = {}
        /\ ~Dissects(f) => PayloadOf(f) = {}
    <3>1. Dissects(f) => Cardinality(PayloadOf(f)) = n /\ PayloadOf(f) = p .. e - 1
        BY <2>1, <2>2, PayloadSize
    <3>2. n <= 0 => p .. e - 1 = {}
      <4> HIDE DEF p, e, n
      <4> QED
          BY <2>2
    <3>3. ~Dissects(f) => PayloadOf(f) = {}
        BY <2>1 DEF PayloadOf
    <3> QED
        BY <3>1, <3>2, <3>3
  <2>6. CASE ~(Dissects(f) /\ n > 0 /\ tool = "sniffex")
    <3>1. lines' = <<>> /\ sniffer' = "loop" /\ rest' = rest
        BY <1>2, <2>3, <2>6 DEF got_packet
    <3>2. DOMAIN lines' = {}
        BY <3>1, EmptySeq
    <3>3. CaptureTypeOK'
        BY <1>0, <2>3, <2>4, <3>1, EmptySeq DEF CaptureTypeOK
    <3>4. tool = "sniffex" => PayloadOf(f) = {}
      <4> HIDE DEF n
      <4> QED
          BY <2>2, <2>5, <2>6
    <3>5. UNION {BytesOf(lines'[k]) : k \in DOMAIN lines'} = {}
        BY <3>2
    <3>6. size' = IF IsTcp(f) THEN Cardinality(PayloadOf(f)) ELSE -1
        BY <2>1, <2>3, <2>5
    <3>7. PayloadPrintedOnce'
        BY <2>3, <3>2, <3>4, <3>5, <3>6 DEF PayloadPrintedOnce
    <3> QED
        BY <3>1, <3>3, <3>7 DEF CaptureInv, SettingUp, Printing, Calls
  <2>7. CASE Dissects(f) /\ n > 0 /\ tool = "sniffex"
    <3> DEFINE at == SIZE_ETHERNET + f.hl * 4 + f.off * 4
    <3>1. print_payload(p, n)
      <4>1. SIZE_ETHERNET + f.hl * 4 + f.off * 4 = p
          BY <2>1 DEF PayloadAt, SIZE_ETHERNET
      <4> QED
          BY <1>2, <2>7, <4>1, Zenon DEF got_packet
    <3>2. rest' = [ch |-> p, len_rem |-> n, offset |-> 0]
        BY <3>1 DEF print_payload
    <3>3. rest' \in [ch : Nat, len_rem : Int, offset : Nat]
        BY <2>2, <3>2
    <3>4. IsTcp(f) /\ size' = n /\ n = Cardinality(PayloadOf(f))
        BY <2>1, <2>3, <2>5, <2>7
    <3>5. CASE n <= 16
      <4> DEFINE q == lines'
      <4>1. q = <<Line(p, n, 0)>> /\ sniffer' = "loop"
        <5>1. n \in 1 .. 16 /\ ~(n > 16)
          <6> HIDE DEF n
          <6> QED
              BY <2>2, <2>7, <3>5
        <5> QED
            BY <3>1, <5>1, Zenon DEF print_payload, LINE_WIDTH
      <4>2. Line(p, n, 0) \in [from : Nat, len : Nat, offset : Nat]
        <5> HIDE DEF n, p
        <5> QED
            BY <2>2, <2>7 DEF Line
      <4>3. CaptureTypeOK'
          BY <1>0, <2>3, <2>4, <3>3, <4>1, <4>2 DEF CaptureTypeOK
      <4>4. FullThenLast(q, p, 0, e)
        <5>1. DOMAIN q = 1 .. 0 + 1 /\ q[0 + 1] = Line(p, n, 0) /\ 1 .. 0 = {}
            BY <4>1
        <5>2. p + 16 * 0 = p /\ 16 * 0 = 0 /\ e - p = n /\ n \in 1 .. 16
          <6> HIDE DEF n, p, e
          <6> QED
              BY <2>2, <2>7, <3>5
        <5> HIDE DEF n, p, e, q
        <5> QED
            BY <5>1, <5>2 DEF FullThenLast
      <4>5. UNION {BytesOf(q[k]) : k \in DOMAIN q} = PayloadOf(f) /\ LinesFit(q, f.caplen)
          BY <3>4, <4>4, PayloadIsOnce
      <4>6. PayloadPrintedOnce'
          BY <2>3, <2>7, <3>4, <4>5, Zenon DEF PayloadPrintedOnce, LinesFit
      <4> QED
          BY <4>1, <4>3, <4>6 DEF CaptureInv, SettingUp, Printing, Calls
    <3>6. CASE n > 16
      <4>1. lines' = <<>> /\ sniffer' = "print"
          BY <2>2, <3>1, <3>6 DEF print_payload, LINE_WIDTH
      <4>2. CaptureTypeOK'
          BY <1>0, <2>3, <2>4, <3>3, <4>1, EmptySeq DEF CaptureTypeOK
      <4>3. Len(lines') = 0 /\ DOMAIN lines' = {}
          BY <4>1, EmptySeq
      <4>4. /\ rest'.len_rem > 16 /\ rest'.offset = 16 * Len(lines')
            /\ rest'.ch = p + rest'.offset /\ rest'.ch + rest'.len_rem = e
        <5>1. rest'.ch = p /\ rest'.len_rem = n /\ rest'.offset = 0
            BY <3>2
        <5> HIDE DEF n, p, e
        <5> QED
            BY <2>2, <3>6, <4>3, <5>1
      <4>5. Printing'
          BY <2>3, <2>7, <3>4, <4>3, <4>4 DEF Printing, LINE_WIDTH
      <4> QED
          BY <4>1, <4>2, <4>5 DEF CaptureInv, SettingUp, PayloadPrintedOnce, Calls
    <3> QED
        BY <2>2, <3>5, <3>6
  <2> QED
      BY <2>6, <2>7
<1>3. CASE PrintLine
  <2> DEFINE n == Len(lines)
             p == PayloadAt(frame)
             e == PacketEnd(frame)
             full == Line(rest.ch, 16, rest.offset)
             last == Line(rest.ch + 16, rest.len_rem - 16, rest.offset + 16)
  <2>1. /\ tool = "sniffex" /\ frame \in Frames /\ IsTcp(frame)
        /\ size = Cardinality(PayloadOf(frame))
        /\ rest.len_rem > 16 /\ rest.offset = 16 * n
        /\ rest.ch = p + rest.offset /\ rest.ch + rest.len_rem = e
        /\ \A k \in DOMAIN lines : lines[k] = FullLine(p, k)
      BY <1>0, <1>3 DEF Printing, PrintLine, LINE_WIDTH
  <2>2. /\ rest \in [ch : Nat, len_rem : Int, offset : Nat]
        /\ lines \in Seq([from : Nat, len : Nat, offset : Nat])
        /\ counter \in 0 .. MaxFrames /\ size \in Int
      BY <1>0 DEF CaptureTypeOK
  <2>3. /\ n \in Nat /\ DOMAIN lines = 1 .. n
        /\ rest.ch \in Nat /\ rest.len_rem \in Int /\ rest.offset \in Nat
      BY <2>2, LenProperties
  <2>4. p \in Nat /\ e \in Nat /\ size = e - p
    <3>1. frame.hl \in Nat /\ frame.off \in Nat /\ frame.ip_len \in Nat
        BY <2>1, FrameFields
    <3>2. size = e - p
        BY <2>1, PayloadSize
    <3> QED
        BY <3>1, <3>2 DEF PayloadAt, PacketEnd, SIZE_ETHERNET
  <2>5. LINE_WIDTH % rest.len_rem = 16
      BY <2>1, <2>2, LineLength DEF LINE_WIDTH
  <2>6. /\ rest' = [ch |-> rest.ch + 16, len_rem |-> rest.len_rem - 16,
                    offset |-> rest.offset + 16]
        /\ IF rest.len_rem - 16 <= 16
           THEN lines' = lines \o <<full, last>> /\ sniffer' = "loop"
           ELSE lines' = Append(lines, full) /\ sniffer' = "print"
        /\ UNCHANGED <<tool, counter, frame, size>>
      BY <1>3, <2>5 DEF PrintLine, LINE_WIDTH
  <2>7. full = FullLine(p, n + 1) /\ full \in [from : Nat, len : Nat, offset : Nat]
    <3>1. rest.ch = p + 16 * n /\ rest.offset = 16 * n /\ n + 1 - 1 = n
        BY <2>1, <2>3, <2>4
    <3>2. full = FullLine(p, n + 1)
        BY <3>1 DEF FullLine, LINE_WIDTH
    <3> QED
        BY <2>2, <3>2 DEF Line
  <2>8. rest' \in [ch : Nat, len_rem : Int, offset : Nat]
    <3>1. rest.ch + 16 \in Nat /\ rest.len_rem - 16 \in Int /\ rest.offset + 16 \in Nat
        BY <2>3
    <3> QED
        BY <2>6, <3>1, Zenon
  <2>9. CASE rest.len_rem - 16 <= 16
    <3>1. lines' = lines \o <<full, last>> /\ sniffer' = "loop"
        BY <2>6, <2>9
    <3>2. last \in [from : Nat, len : Nat, offset : Nat]
        BY <2>1, <2>2 DEF Line
    <3> HIDE DEF n, full, last
    <3>3. /\ lines' \in Seq([from : Nat, len : Nat, offset : Nat])
          /\ Len(lines') = n + 2 /\ DOMAIN lines' = 1 .. n + 2
          /\ \A k \in 1 .. n : lines'[k] = lines[k]
          /\ lines'[n + 1] = full /\ lines'[n + 2] = last
        BY <2>2, <2>3, <2>7, <3>1, <3>2 DEF n
    <3>4. CaptureTypeOK'
        BY <1>0, <2>2, <2>6, <2>8, <3>1, <3>3 DEF CaptureTypeOK
    <3>5. \A k \in 1 .. n + 1 : lines'[k] = FullLine(p, k)
      <4> TAKE k \in 1 .. n + 1
      <4>1. CASE k \in 1 .. n
          BY <2>1, <2>3, <3>3, <4>1
      <4>2. CASE k = n + 1
          BY <2>7, <3>3, <4>2
      <4> QED
          BY <2>3, <4>1, <4>2
    <3>6. /\ last = Line(p + 16 * (n + 1), e - (p + 16 * (n + 1)), 16 * (n + 1))
          /\ e - (p + 16 * (n + 1)) \in 1 .. 16
      <4>1. /\ rest.ch + 16 = p + 16 * (n + 1) /\ rest.offset + 16 = 16 * (n + 1)
            /\ rest.len_rem - 16 = e - (p + 16 * (n + 1))
        <5> HIDE DEF p, e
        <5> QED
            BY <2>1, <2>3, <2>4
      <4>2. rest.len_rem > 16 /\ rest.len_rem \in Int /\ rest.len_rem - 16 <= 16
          BY <2>1, <2>3, <2>9
      <4>3. rest.len_rem - 16 \in 1 .. 16
          BY <4>2
      <4> QED
          BY <4>1, <4>3 DEF last
    <3>7. PayloadPrintedOnce'
      <4>1. n + 1 \in Nat /\ n + 1 + 1 = n + 2
          BY <2>3
      <4> DEFINE q == lines'
      <4>3. /\ DOMAIN q = 1 .. n + 1 + 1 /\ q[n + 1 + 1] = last
            /\ \A k \in 1 .. n + 1 : q[k] = FullLine(p, k)
          BY <3>3, <3>5, <4>1
      <4> HIDE DEF q
      <4>4. FullThenLast(q, p, n + 1, e)
          BY <3>6, <4>1, <4>3 DEF FullThenLast
      <4>5. UNION {BytesOf(q[k]) : k \in DOMAIN q} = PayloadOf(frame)
            /\ LinesFit(q, frame.caplen)
          BY <2>1, <4>1, <4>4, PayloadIsOnce
      <4> QED
          BY <2>1, <2>6, <4>5, Zenon DEF PayloadPrintedOnce, LinesFit, q
    <3> QED
        BY <3>1, <3>4, <3>7 DEF CaptureInv, SettingUp, Printing, Calls
  <2>10. CASE rest.len_rem - 16 > 16
    <3>1. lines' = Append(lines, full) /\ sniffer' = "print"
        BY <2>2, <2>6, <2>10
    <3> HIDE DEF n, full, last
    <3>2. /\ lines' \in Seq([from : Nat, len : Nat, offset : Nat])
          /\ Len(lines') = n + 1 /\ DOMAIN lines' = 1 .. n + 1
          /\ \A k \in 1 .. n : lines'[k] = lines[k]
          /\ lines'[n + 1] = full
        BY <2>2, <2>3, <2>7, <3>1 DEF n
    <3>3. CaptureTypeOK'
        BY <1>0, <2>2, <2>6, <2>8, <3>1, <3>2 DEF CaptureTypeOK
    <3>4. \A k \in 1 .. n + 1 : lines'[k] = FullLine(p, k)
      <4> TAKE k \in 1 .. n + 1
      <4>1. CASE k \in 1 .. n
          BY <2>1, <2>3, <3>2, <4>1
      <4>2. CASE k = n + 1
          BY <2>7, <3>2, <4>2
      <4> QED
          BY <2>3, <4>1, <4>2
    <3>5. /\ rest'.len_rem > 16 /\ rest'.offset = 16 * Len(lines')
          /\ rest'.ch = p + rest'.offset /\ rest'.ch + rest'.len_rem = e
      <4>1. /\ rest'.ch = rest.ch + 16 /\ rest'.len_rem = rest.len_rem - 16
            /\ rest'.offset = rest.offset + 16
          BY <2>6
      <4>2. Len(lines') = n + 1 /\ n \in Nat
          BY <2>3, <3>2
      <4> HIDE DEF p, e
      <4>3. rest.len_rem - 16 > 16 /\ rest.offset + 16 = 16 * (n + 1)
          BY <2>1, <2>3, <2>10
      <4>4. /\ rest.ch + 16 = p + (rest.offset + 16)
            /\ (rest.ch + 16) + (rest.len_rem - 16) = e
          BY <2>1, <2>3, <2>4
      <4> QED
          BY <4>1, <4>2, <4>3, <4>4
    <3>6. Printing'
        BY <2>1, <2>6, <3>2, <3>4, <3>5 DEF Printing, LINE_WIDTH
    <3> QED
        BY <3>1, <3>3, <3>6 DEF CaptureInv, SettingUp, PayloadPrintedOnce, Calls
  <2> QED
      BY <2>2, <2>9, <2>10
<1>4. CASE LoopEnds
  <2>1. sniffer' = "closed" /\ UNCHANGED <<tool, counter, frame, size, rest, lines>>
      BY <1>4 DEF LoopEnds
  <2>2. CaptureTypeOK'
      BY <1>0, <2>1 DEF CaptureTypeOK
  <2> QED
      BY <2>1, <2>2 DEF CaptureInv, SettingUp, Printing, PayloadPrintedOnce, Calls
<1>5. CASE UNCHANGED captureVars
  <2>1. CaptureTypeOK' /\ SettingUp'
      BY <1>0, <1>5 DEF captureVars, CaptureTypeOK, SettingUp
  <2>2. Printing' /\ PayloadPrintedOnce'
      BY <1>0, <1>5, Zenon DEF captureVars, Printing, PayloadPrintedOnce
  <2> QED
      BY <2>1, <2>2 DEF CaptureInv
<1> QED
    BY <1>1, <1>2, <1>3, <1>4, <1>5 DEF CaptureNext

\* The payload of every frame is printed once, in order, whatever its length,
\* and the size printed is its size: for every length of the headers.
THEOREM PayloadsSafe == CaptureSpec => []PayloadPrintedOnce
<1>1. CaptureInv => PayloadPrintedOnce
    BY DEF CaptureInv
<1> QED
    BY <1>1, CaptureInvInit, CaptureInvNext, PTL DEF CaptureSpec

-----------------------------------------------------------------------------
(* PyHandler: for any lengths, numbers and headers.                        *)

Headers == [at : Nat, number : Numbers \cup {NoMagic}]

\* Where a header may begin, or the stream ends.
Joined(p) == p = StreamEnd \/ \E h \in Range(stream) : h.at = p

\* The headers of the stream follow one another, each after the body of the one
\* before.
Placed ==
    /\ stream \in Seq(Headers) /\ StreamEnd \in Nat
    /\ \A g, h \in Range(stream) : g = h \/ EndOf(g) <= h.at \/ EndOf(h) <= g.at
    /\ \A h \in Range(stream) : EndOf(h) <= StreamEnd /\ Joined(EndOf(h))
    /\ sent \in Nat /\ sent <= StreamEnd /\ eof \in BOOLEAN

\* The locals of recvall.
LocalsOK ==
    /\ server \in {"gevent", "pyserver"} /\ logouts \in 0 .. 2
    /\ handler \in [pc : {"header", "body", "cleanup", "closed", "raised"},
                    at : Nat, total : Nat, data : Nat, left : Int]
    /\ handler.left = handler.total - handler.data /\ handler.data <= handler.total
    /\ Pos <= sent
    /\ handler.pc = "header" => handler.total = HEAD_LEN
    /\ handler.pc = "cleanup" => server = "pyserver"
    /\ bodies \in Seq([at : Nat, len : Nat])

\* A header is expected at byte p: every header before it has been accepted,
\* and their bodies are those that were handed to a task.
ReadUpTo(p) ==
    /\ Joined(p)
    /\ \A h \in Range(stream) : h.at < p => GoesOn(h.number)
    /\ Range(bodies)
         = {BodyOf(h) : h \in {h \in Range(stream) : HasBody(h.number) /\ h.at < p}}

\* recvall reads the body of h.
InBodyOf(h) == /\ HasBody(h.number) /\ handler.at = h.at + HEAD_LEN
               /\ handler.total = h.number /\ ReadUpTo(h.at)

\* Where recvall is, before a body was cut.
InPlace ==
    /\ handler.pc = "header" /\ logouts = 0 => ReadUpTo(handler.at)
    /\ handler.pc = "body" => logouts = 0 /\ \E h \in Range(stream) : InBodyOf(h)

\* The stream ends inside a body.
CutShort == eof /\ InsideBody(sent)

\* A session is logged out once by handler, and before that once if its stream
\* was cut: then nothing more is read.
LogoutsAgree ==
    /\ handler.pc = "header" => \/ logouts = 0
                                \/ /\ logouts = 1 /\ CutShort /\ handler.data = 0
                                   /\ handler.at = sent /\ Range(bodies) = BodiesIn(sent)
    /\ handler.pc = "cleanup" => logouts = 0 \/ (logouts = 1 /\ CutShort)
    /\ handler.pc = "closed" /\ server = "pyserver" => logouts = 1 \/ (logouts = 2 /\ CutShort)

\* The bodies handed out are the first ones.
BodiesFirst ==
    /\ Range(bodies) \subseteq BodiesIn(sent)
    /\ \A i, j \in DOMAIN bodies : i < j => bodies[i].at < bodies[j].at
    /\ \A b \in BodiesIn(sent), i \in DOMAIN bodies :
            b.at < bodies[i].at => b \in Range(bodies)

HandlerInv == Placed /\ LocalsOK /\ InPlace /\ LogoutsAgree /\ BodiesFirst

\* The number of a header that has a body is the length of the body.
LEMMA BodyLength ==
    ASSUME NEW n \in Numbers \cup {NoMagic}, HasBody(n)
    PROVE  n \in Nat /\ n > 0
<1>1. n \in 0 .. IntRange - 1 /\ IntRange \in Nat
  BY HandlerAssumption DEF HasBody
<1>2. Signed(n) >= 1
  BY HandlerAssumption DEF HasBody
<1> QED
  BY <1>1, <1>2 DEF Signed

LEMMA EndsLater ==
    ASSUME NEW h \in Headers
    PROVE  /\ h.at \in Nat /\ EndOf(h) \in Nat
           /\ h.at < EndOf(h) /\ h.at + HEAD_LEN <= EndOf(h)
           /\ HasBody(h.number) => EndOf(h) = h.at + HEAD_LEN + h.number
           /\ HasBody(h.number) => h.number \in Nat /\ h.number > 0
           /\ ~HasBody(h.number) => EndOf(h) = h.at + HEAD_LEN
<1>1. h.at \in Nat /\ h.number \in Numbers \cup {NoMagic}
  BY DEF Headers
<1>2. HEAD_LEN \in Nat /\ HEAD_LEN > 0
  BY HandlerAssumption
<1>3. CASE HasBody(h.number)
  <2>1. h.number \in Nat /\ h.number > 0
    BY <1>1, <1>3, BodyLength
  <2>2. EndOf(h) = h.at + HEAD_LEN + h.number
    BY <1>3 DEF EndOf
  <2> QED
    BY <1>1, <1>2, <1>3, <2>1, <2>2
<1>4. CASE ~HasBody(h.number)
  <2>1. EndOf(h) = h.at + HEAD_LEN
    BY <1>1, <1>2, <1>4 DEF EndOf
  <2> QED
    BY <1>1, <1>2, <1>4, <2>1
<1> QED
  BY <1>3, <1>4

\* A header of the stream, with what EndsLater says of it.
LEMMA InStream ==
    ASSUME Placed, NEW h \in Range(stream)
    PROVE  h \in Headers
  BY DEF Placed, Range

\* A header ends before the ones that begin after it.
LEMMA EndsBefore ==
    ASSUME Placed, NEW g \in Range(stream), NEW h \in Range(stream), g.at < h.at
    PROVE  EndOf(g) <= h.at
<1>1. g \in Headers /\ h \in Headers
  BY InStream
<1>2. h.at \in Nat /\ g.at \in Nat /\ EndOf(h) \in Nat /\ h.at < EndOf(h)
  BY <1>1, EndsLater
<1>3. g = h \/ EndOf(g) <= h.at \/ EndOf(h) <= g.at
  BY DEF Placed
<1> QED
  BY <1>2, <1>3

\* No two headers begin at the same byte.
LEMMA OneHeader ==
    ASSUME Placed, NEW g \in Range(stream), NEW h \in Range(stream), g.at = h.at
    PROVE  g = h
<1>1. g \in Headers /\ h \in Headers
  BY InStream
<1>2. /\ h.at \in Nat /\ g.at \in Nat /\ EndOf(h) \in Nat /\ h.at < EndOf(h)
      /\ EndOf(g) \in Nat /\ g.at < EndOf(g)
  BY <1>1, EndsLater
<1>3. g = h \/ EndOf(g) <= h.at \/ EndOf(h) <= g.at
  BY DEF Placed
<1> QED
  BY <1>2, <1>3

\* When everything before byte p has been read, and no body ends between p and
\* n, all the bodies in the first n bytes have been handed out.
LEMMA AllOut ==
    ASSUME HandlerInv, NEW p \in Nat, NEW n \in Nat, ReadUpTo(p),
           \A h \in Range(stream) : HasBody(h.number) /\ EndOf(h) <= n => h.at < p
    PROVE  BodiesIn(n) \subseteq Range(bodies)
  BY DEF BodiesIn, ReadUpTo

\* A handler that waits for bytes has handed out all the bodies that came.
LEMMA WaitingHasAll ==
    ASSUME HandlerInv, Reading, handler.left > 0, Pos = sent
    PROVE  Range(bodies) = BodiesIn(sent)
<1>0. Placed /\ Range(bodies) \subseteq BodiesIn(sent)
  BY DEF HandlerInv, BodiesFirst
<1>1. /\ handler.at \in Nat /\ handler.data \in Nat /\ handler.total \in Nat
      /\ sent = handler.at + handler.data /\ handler.data < handler.total
  BY DEF HandlerInv, LocalsOK, Pos
<1>2. sent \in Nat
  BY <1>0 DEF Placed
<1>3. CASE handler.pc = "header" /\ logouts # 0
  BY <1>3 DEF HandlerInv, LogoutsAgree
<1>4. CASE handler.pc = "header" /\ logouts = 0
  <2>1. ReadUpTo(handler.at) /\ handler.total = HEAD_LEN
    BY <1>4 DEF HandlerInv, InPlace, LocalsOK
  <2>2. ASSUME NEW h \in Range(stream), EndOf(h) <= sent
        PROVE  h.at < handler.at
    <3>1. h.at \in Nat /\ EndOf(h) \in Nat /\ h.at + HEAD_LEN <= EndOf(h)
      BY <1>0, InStream, EndsLater
    <3>2. HEAD_LEN \in Nat
      BY HandlerAssumption
    <3> QED
      BY <1>1, <1>2, <2>1, <2>2, <3>1, <3>2
  <2> QED
    BY <1>0, <1>1, <1>2, <2>1, <2>2, AllOut
<1>5. CASE handler.pc = "body"
  <2>1. PICK h \in Range(stream) : InBodyOf(h)
    BY <1>5 DEF HandlerInv, InPlace
  <2>2. /\ h.at \in Nat /\ EndOf(h) \in Nat /\ EndOf(h) = h.at + HEAD_LEN + h.number
        /\ h.number \in Nat /\ HEAD_LEN \in Nat
    BY <1>0, <2>1, InStream, EndsLater, HandlerAssumption DEF InBodyOf
  <2>3. sent < EndOf(h)
    <3>1. handler.at = h.at + HEAD_LEN /\ handler.total = h.number
      BY <2>1 DEF InBodyOf
    <3> QED
      BY <1>1, <2>2, <3>1
  <2>4. ASSUME NEW g \in Range(stream), EndOf(g) <= sent
        PROVE  g.at < h.at
    <3>1. g.at \in Nat /\ EndOf(g) \in Nat /\ g.at < EndOf(g)
      BY <1>0, InStream, EndsLater
    <3>2. g = h \/ EndOf(g) <= h.at \/ EndOf(h) <= g.at
      BY <1>0 DEF Placed
    <3> QED
      BY <1>2, <2>2, <2>3, <2>4, <3>1, <3>2
  <2> QED
    BY <1>0, <1>2, <2>1, <2>2, <2>4, AllOut DEF InBodyOf
<1> QED
  BY <1>3, <1>4, <1>5 DEF Reading

LEMMA HandlerInitOK == HandlerInit => HandlerInv
<1> SUFFICES ASSUME HandlerInit PROVE HandlerInv
  OBVIOUS
<1>1. Range(stream) = {} /\ Range(bodies) = {} /\ StreamEnd = 0
  BY DEF HandlerInit, Range, StreamEnd
<1>2. HEAD_LEN \in Nat \ {0}
  BY HandlerAssumption
<1>3. Placed
  <2>1. stream \in Seq(Headers) /\ sent = 0 /\ eof = FALSE
    BY DEF HandlerInit
  <2>2. \A h \in Range(stream) : FALSE
    BY <1>1
  <2>3. StreamEnd \in Nat /\ sent \in Nat /\ sent <= StreamEnd
    BY <1>1, <2>1
  <2>4. eof \in BOOLEAN
    BY <2>1
  <2> QED
    BY <2>1, <2>2, <2>3, <2>4 DEF Placed
<1>4. LocalsOK
  BY <1>2 DEF HandlerInit, LocalsOK, Recvall, Pos
<1>5. InPlace
  BY <1>1 DEF HandlerInit, InPlace, ReadUpTo, Joined, Recvall
<1>6. LogoutsAgree
  BY DEF HandlerInit, LogoutsAgree, Recvall
<1>7. BodiesFirst
  BY <1>1 DEF HandlerInit, BodiesFirst, BodiesIn
<1> QED
  BY <1>3, <1>4, <1>5, <1>6, <1>7 DEF HandlerInv

\* A header that is sent begins where the stream ended.
LEMMA SendHeader ==
    ASSUME HandlerInv, NEW n \in Numbers \cup {NoMagic}, Send(n)
    PROVE  \E x \in Headers :
             /\ x.at = StreamEnd /\ x.at = sent /\ StreamEnd' = EndOf(x)
             /\ stream' \in Seq(Headers)
             /\ Range(stream') = Range(stream) \cup {x}
<1> DEFINE x == [at |-> StreamEnd, number |-> n]
<1>1. x \in Headers /\ x.at = StreamEnd /\ x.at = sent
  BY DEF HandlerInv, Placed, Headers, Send
<1>2. stream \in Seq(Headers) /\ stream' = Append(stream, x)
  BY DEF HandlerInv, Placed, Send
<1> HIDE DEF x
<1>3. /\ stream' \in Seq(Headers) /\ Len(stream') = Len(stream) + 1
      /\ stream'[Len(stream) + 1] = x /\ Len(stream) \in Nat
      /\ \A k \in 1 .. Len(stream) : stream'[k] = stream[k]
  BY <1>1, <1>2
<1>4. Range(stream') = Range(stream) \cup {x}
  <2>1. DOMAIN stream' = 1 .. Len(stream) + 1 /\ DOMAIN stream = 1 .. Len(stream)
    BY <1>2, <1>3
  <2> QED
    BY <1>3, <2>1 DEF Range
<1>5. StreamEnd' = EndOf(x)
  <2>1. stream' # <<>> /\ stream'[Len(stream')] = x
    BY <1>3
  <2> QED
    BY <2>1 DEF StreamEnd
<1> QED
  BY <1>1, <1>3, <1>4, <1>5

LEMMA SendOK ==
    ASSUME HandlerInv, NEW n \in Numbers \cup {NoMagic}, Send(n)
    PROVE  HandlerInv'
<1>1. PICK x \in Headers :
        /\ x.at = StreamEnd /\ x.at = sent /\ StreamEnd' = EndOf(x)
        /\ stream' \in Seq(Headers)
        /\ Range(stream') = Range(stream) \cup {x}
  BY SendHeader
<1>2. /\ x.at \in Nat /\ EndOf(x) \in Nat /\ x.at < EndOf(x)
  BY EndsLater
<1>3. /\ UNCHANGED <<server, sent, eof, handler, sessionkey, logouts, bodies>>
      /\ eof = FALSE
  BY DEF Send
<1>4. Placed /\ LocalsOK /\ InPlace /\ LogoutsAgree /\ BodiesFirst
  BY DEF HandlerInv
<1>5. \A h \in Range(stream) : h.at \in Nat /\ EndOf(h) \in Nat /\ h.at < EndOf(h)
  BY <1>4, InStream, EndsLater
<1>6. \A h \in Range(stream) : EndOf(h) <= x.at
  BY <1>1, <1>4 DEF Placed
<1>7. Placed'
  <2>1. \A g, h \in Range(stream') : g = h \/ EndOf(g) <= h.at \/ EndOf(h) <= g.at
    BY <1>1, <1>4, <1>6 DEF Placed
  <2>2. \A p : Joined(p) => Joined(p)'
    BY <1>1 DEF Joined
  <2>3. \A h \in Range(stream') : EndOf(h) <= StreamEnd'
    BY <1>1, <1>2, <1>5, <1>6
  <2>4. \A h \in Range(stream') : Joined(EndOf(h))'
    <3>1. Joined(EndOf(x))'
      BY <1>1 DEF Joined
    <3>2. ASSUME NEW h \in Range(stream) PROVE Joined(EndOf(h))'
      BY <1>4, <2>2 DEF Placed
    <3> QED
      BY <1>1, <3>1, <3>2
  <2>5. sent <= StreamEnd' /\ sent \in Nat
    BY <1>1, <1>2
  <2> QED
    BY <1>1, <1>2, <1>3, <1>4, <2>1, <2>3, <2>4, <2>5 DEF Placed
<1>8. LocalsOK'
  BY <1>3, <1>4 DEF LocalsOK, Pos
<1>9. ASSUME NEW p \in Nat, p <= sent, ReadUpTo(p)
      PROVE  ReadUpTo(p)'
  <2>1. ~(x.at < p)
    BY <1>1, <1>2, <1>9
  <2>2. {h \in Range(stream') : h.at < p} = {h \in Range(stream) : h.at < p}
    BY <1>1, <2>1
  <2>3. Joined(p)'
    BY <1>1, <1>9 DEF Joined, ReadUpTo
  <2>4. \A h \in Range(stream') : h.at < p => GoesOn(h.number)
    BY <1>9, <2>2 DEF ReadUpTo
  <2>5. {h \in Range(stream') : HasBody(h.number) /\ h.at < p}
          = {h \in Range(stream) : HasBody(h.number) /\ h.at < p}
    BY <2>2
  <2> QED
    BY <1>3, <1>9, <2>3, <2>4, <2>5 DEF ReadUpTo, GoesOn
<1>10. InPlace'
  <2>1. ASSUME handler.pc = "header", logouts = 0 PROVE ReadUpTo(handler.at)'
    <3>1. handler.at \in Nat /\ handler.data \in Nat /\ handler.at + handler.data <= sent
      BY <1>4 DEF LocalsOK, Pos
    <3>2. sent \in Nat
      BY <1>4 DEF Placed
    <3> DEFINE p == handler.at
    <3>3. p \in Nat /\ p <= sent /\ ReadUpTo(p)
      BY <1>4, <2>1, <3>1, <3>2 DEF InPlace
    <3>4. p' = p
      BY <1>3
    <3> HIDE DEF p
    <3>5. ReadUpTo(p)'
      BY <1>1, <1>3, <1>9, <3>3, <3>4 DEF ReadUpTo, Joined, GoesOn
    <3> QED
      BY <3>5 DEF p
  <2>2. ASSUME handler.pc = "body" PROVE logouts' = 0 /\ \E h \in Range(stream') : InBodyOf(h)'
    <3>1. PICK h \in Range(stream) : InBodyOf(h)
      BY <1>4, <2>2 DEF InPlace
    <3>2. h.at \in Nat /\ h.at <= sent
      BY <1>1, <1>2, <1>5, <1>6
    <3>3. ReadUpTo(h.at)'
      BY <1>9, <3>1, <3>2 DEF InBodyOf
    <3> QED
      BY <1>1, <1>3, <1>4, <2>2, <3>1, <3>3 DEF InPlace, InBodyOf
  <2> QED
    BY <1>3, <2>1, <2>2 DEF InPlace
<1>11. LogoutsAgree'
  BY <1>3, <1>4 DEF LogoutsAgree, CutShort
<1>12. BodiesIn(sent)' = BodiesIn(sent)
  <2>1. ASSUME NEW h \in Range(stream)
        PROVE  (\A g \in Range(stream') : g.at < h.at => GoesOn(g.number))
                 <=> (\A g \in Range(stream) : g.at < h.at => GoesOn(g.number))
    <3>1. ~(x.at < h.at)
      BY <1>2, <1>5, <1>6
    <3> QED
      BY <1>1, <3>1
  <2>2. ~(EndOf(x) <= sent)
    BY <1>1, <1>2
  <2>3. {h \in Range(stream') :
            /\ HasBody(h.number) /\ EndOf(h) <= sent
            /\ \A g \in Range(stream') : g.at < h.at => GoesOn(g.number)}
          = {h \in Range(stream) :
            /\ HasBody(h.number) /\ EndOf(h) <= sent
            /\ \A g \in Range(stream) : g.at < h.at => GoesOn(g.number)}
    BY <1>1, <2>1, <2>2
  <2> QED
    BY <1>3, <2>3 DEF BodiesIn, GoesOn
<1>13. BodiesFirst'
  BY <1>3, <1>4, <1>12 DEF BodiesFirst
<1> QED
  BY <1>7, <1>8, <1>10, <1>11, <1>13 DEF HandlerInv

\* A byte that arrives ends no body before the ones that were handed out.
LEMMA ArriveOK ==
    ASSUME HandlerInv, Arrive
    PROVE  HandlerInv'
<1>1. /\ sent' = sent + 1 /\ eof = FALSE /\ sent < StreamEnd
      /\ UNCHANGED <<server, stream, eof, handler, sessionkey, logouts, bodies>>
  BY DEF Arrive
<1>2. Placed /\ LocalsOK /\ InPlace /\ LogoutsAgree /\ BodiesFirst
  BY DEF HandlerInv
<1>3. sent \in Nat /\ StreamEnd \in Nat /\ StreamEnd' = StreamEnd
  BY <1>1, <1>2 DEF Placed, StreamEnd
<1>4. \A h \in Range(stream) : h.at \in Nat /\ EndOf(h) \in Nat /\ h.at < EndOf(h)
  BY <1>2, InStream, EndsLater
<1>5. Placed'
  <2>1. \A p : Joined(p)' = Joined(p)
    BY <1>1, <1>3 DEF Joined
  <2>2. sent' \in Nat /\ sent' <= StreamEnd
    BY <1>1, <1>3
  <2> QED
    BY <1>1, <1>2, <1>3, <2>1, <2>2 DEF Placed
<1>6. LocalsOK'
  <2>1. handler.at \in Nat /\ handler.data \in Nat /\ Pos <= sent /\ Pos' = Pos
    BY <1>1, <1>2 DEF LocalsOK, Pos
  <2>2. Pos' <= sent'
    BY <1>1, <1>3, <2>1 DEF Pos
  <2> QED
    BY <1>1, <1>2, <2>2 DEF LocalsOK
<1>7. InPlace'
  BY <1>1, <1>2, <1>3 DEF InPlace, InBodyOf, ReadUpTo, Joined, GoesOn
<1>8. LogoutsAgree'
  BY <1>1, <1>2 DEF LogoutsAgree, CutShort
<1>9. BodiesFirst'
  <2>1. BodiesIn(sent)' = BodiesIn(sent + 1)
    BY <1>1 DEF BodiesIn, GoesOn
  <2>2. BodiesIn(sent) \subseteq BodiesIn(sent + 1)
    BY <1>3, <1>4 DEF BodiesIn
  <2>3. ASSUME NEW b \in BodiesIn(sent + 1), NEW i \in DOMAIN bodies, b.at < bodies[i].at
        PROVE  b \in Range(bodies)
    <3>1. bodies[i] \in BodiesIn(sent)
      BY <1>2 DEF BodiesFirst, Range
    <3>2. PICK g \in Range(stream) : bodies[i] = BodyOf(g) /\ EndOf(g) <= sent
      BY <3>1 DEF BodiesIn
    <3>3. PICK h \in Range(stream) :
            /\ b = BodyOf(h) /\ HasBody(h.number) /\ EndOf(h) <= sent + 1
            /\ \A f \in Range(stream) : f.at < h.at => GoesOn(f.number)
      BY DEF BodiesIn
    <3>4. h.at < g.at
      <4>1. b.at = h.at + HEAD_LEN /\ bodies[i].at = g.at + HEAD_LEN
        BY <3>2, <3>3 DEF BodyOf
      <4>2. HEAD_LEN \in Nat
        BY HandlerAssumption
      <4> QED
        BY <1>4, <2>3, <4>1, <4>2
    <3>5. EndOf(h) <= g.at
      BY <1>2, <3>4, EndsBefore
    <3>6. EndOf(h) <= sent
      BY <1>3, <1>4, <3>2, <3>5
    <3>7. b \in BodiesIn(sent)
      BY <3>3, <3>6 DEF BodiesIn
    <3> QED
      BY <1>2, <2>3, <3>7 DEF BodiesFirst
  <2>4. UNCHANGED bodies
    BY <1>1
  <2>5. Range(bodies) \subseteq BodiesIn(sent + 1)
    BY <1>2, <2>2 DEF BodiesFirst
  <2>6. \A i, j \in DOMAIN bodies : i < j => bodies[i].at < bodies[j].at
    BY <1>2 DEF BodiesFirst
  <2> QED
    BY <2>1, <2>3, <2>4, <2>5, <2>6 DEF BodiesFirst
<1> QED
  BY <1>5, <1>6, <1>7, <1>8, <1>9 DEF HandlerInv

\* What a step that leaves the stream and what has come of it alone keeps.
LEMMA StreamKept ==
    ASSUME HandlerInv, UNCHANGED <<server, stream, sent, eof>>
    PROVE  /\ Placed' /\ BodiesIn(sent)' = BodiesIn(sent) /\ CutShort' = CutShort
           /\ \A p : Joined(p)' = Joined(p)
<1>1. StreamEnd' = StreamEnd
  BY DEF StreamEnd
<1>2. \A p : Joined(p)' = Joined(p)
  BY <1>1 DEF Joined
<1>3. Placed
  BY DEF HandlerInv
<1>4. Placed'
  BY <1>1, <1>2, <1>3 DEF Placed
<1>5. BodiesIn(sent)' = BodiesIn(sent)
  BY DEF BodiesIn, GoesOn
<1>6. CutShort' = CutShort
  BY DEF CutShort, InsideBody
<1> QED
  BY <1>2, <1>4, <1>5, <1>6

LEMMA EndOK ==
    ASSUME HandlerInv, End
    PROVE  HandlerInv'
<1>1. /\ eof' = TRUE
      /\ UNCHANGED <<server, stream, sent, handler, sessionkey, logouts, bodies>>
      /\ eof = FALSE
  BY DEF End
<1>2. Placed /\ LocalsOK /\ InPlace /\ LogoutsAgree /\ BodiesFirst
  BY DEF HandlerInv
<1>3. StreamEnd' = StreamEnd
  BY <1>1 DEF StreamEnd
<1>4. \A p : Joined(p)' = Joined(p)
  BY <1>1, <1>3 DEF Joined
<1>5. Placed'
  BY <1>1, <1>2, <1>3, <1>4 DEF Placed
<1>6. LocalsOK'
  BY <1>1, <1>2 DEF LocalsOK, Pos
<1>7. InPlace'
  BY <1>1, <1>2, <1>3 DEF InPlace, InBodyOf, ReadUpTo, Joined, GoesOn
<1>8. LogoutsAgree'
  BY <1>1, <1>2 DEF LogoutsAgree, CutShort
<1>9. BodiesIn(sent)' = BodiesIn(sent)
  BY <1>1 DEF BodiesIn, GoesOn
<1>10. BodiesFirst'
  BY <1>1, <1>2, <1>9 DEF BodiesFirst
<1> QED
  BY <1>5, <1>6, <1>7, <1>8, <1>10 DEF HandlerInv

LEMMA RecvOK ==
    ASSUME HandlerInv, NEW n \in 1 .. StreamEnd, recv(n)
    PROVE  HandlerInv'
<1>1. /\ UNCHANGED <<server, stream, sent, eof, sessionkey, logouts, bodies>>
      /\ Reading /\ n <= handler.left /\ Pos + n <= sent
      /\ handler' = [handler EXCEPT !.data = @ + n,
                                    !.left = handler.total - (handler.data + n)]
  BY DEF recv
<1>2. Placed /\ LocalsOK /\ InPlace /\ LogoutsAgree /\ BodiesFirst
  BY DEF HandlerInv
<1>3. /\ Placed' /\ BodiesIn(sent)' = BodiesIn(sent) /\ CutShort' = CutShort
      /\ \A p : Joined(p)' = Joined(p)
  BY <1>1, StreamKept
<1>4. /\ handler.at \in Nat /\ handler.data \in Nat /\ handler.total \in Nat
      /\ handler.left = handler.total - handler.data /\ n \in Nat /\ n > 0
  BY <1>2 DEF LocalsOK, Placed
<1>5. /\ handler'.pc = handler.pc /\ handler'.at = handler.at
      /\ handler'.total = handler.total /\ handler'.data = handler.data + n
      /\ handler'.left = handler.total - (handler.data + n)
  BY <1>1, <1>2 DEF LocalsOK
<1>6. LocalsOK'
  <2>1. handler.left \in Int /\ n <= handler.left
    BY <1>1, <1>4
  <2>2. handler.data + n <= handler.total /\ handler'.data \in Nat /\ handler'.left \in Int
    BY <1>4, <1>5, <2>1
  <2>3. Pos' <= sent'
    BY <1>1, <1>4, <1>5 DEF Pos
  <2>4. handler' \in [pc : {"header", "body", "cleanup", "closed", "raised"},
                      at : Nat, total : Nat, data : Nat, left : Int]
    BY <1>1, <1>2, <2>2, <1>5 DEF LocalsOK
  <2> QED
    BY <1>1, <1>2, <1>5, <2>2, <2>3, <2>4 DEF LocalsOK
<1>7. InPlace'
  BY <1>1, <1>2, <1>3, <1>5 DEF InPlace, InBodyOf, ReadUpTo, GoesOn
<1>8. LogoutsAgree'
  <2>1. handler.pc = "header" => logouts = 0
    <3>1. ~(handler.data = 0 /\ handler.at = sent)
      BY <1>1, <1>4 DEF Pos
    <3> QED
      BY <1>2, <3>1 DEF LogoutsAgree
  <2> QED
    BY <1>1, <1>2, <1>3, <1>5, <2>1 DEF LogoutsAgree
<1>9. BodiesFirst'
  BY <1>1, <1>2, <1>3 DEF BodiesFirst
<1> QED
  BY <1>3, <1>6, <1>7, <1>8, <1>9 DEF HandlerInv

\* A new call of recvall.
LEMMA RecvallOK ==
    ASSUME HandlerInv, UNCHANGED <<server, sent>>,
           NEW pc \in {"header", "body"}, NEW p \in Nat, NEW n \in Nat, p <= sent,
           pc = "header" => n = HEAD_LEN,
           handler' = Recvall(pc, p, n), logouts' \in 0 .. 2,
           bodies' \in Seq([at : Nat, len : Nat])
    PROVE  /\ LocalsOK'
           /\ handler'.pc = pc /\ handler'.at = p /\ handler'.total = n /\ handler'.data = 0
<1>1. /\ handler'.pc = pc /\ handler'.at = p /\ handler'.total = n /\ handler'.data = 0
      /\ handler'.left = n
  BY DEF Recvall
<1>2. handler' \in [pc : {"header", "body", "cleanup", "closed", "raised"},
                    at : Nat, total : Nat, data : Nat, left : Int]
  BY DEF Recvall
<1>3. Pos' <= sent'
  BY <1>1 DEF Pos
<1>4. server' \in {"gevent", "pyserver"}
  BY DEF HandlerInv, LocalsOK
<1>5. handler'.left = handler'.total - handler'.data /\ handler'.data <= handler'.total
  BY <1>1
<1> QED
  BY <1>1, <1>2, <1>3, <1>4, <1>5 DEF LocalsOK

\* The greenlet goes on elsewhere.
LEMMA GoesOK ==
    ASSUME HandlerInv, UNCHANGED <<server, sent>>,
           NEW pc \in {"cleanup", "closed", "raised"}, Goes(pc),
           pc = "cleanup" => server = "pyserver", logouts' \in 0 .. 2,
           bodies' \in Seq([at : Nat, len : Nat])
    PROVE  LocalsOK' /\ handler'.pc = pc /\ InPlace'
<1>1. LocalsOK
  BY DEF HandlerInv
<1>2. /\ handler'.pc = pc /\ handler'.at = handler.at /\ handler'.total = handler.total
      /\ handler'.data = handler.data /\ handler'.left = handler.left
  BY <1>1 DEF Goes, LocalsOK
<1>3. handler' \in [pc : {"header", "body", "cleanup", "closed", "raised"},
                    at : Nat, total : Nat, data : Nat, left : Int]
  BY <1>1 DEF Goes, LocalsOK
<1>4. Pos' = Pos
  BY <1>2 DEF Pos
<1>5. LocalsOK'
  BY <1>1, <1>2, <1>3, <1>4 DEF LocalsOK
<1>6. InPlace'
  BY <1>2 DEF InPlace
<1> QED
  BY <1>2, <1>5, <1>6

\* The loop of handler ends.
LEMMA EndsOK ==
    ASSUME HandlerInv, UNCHANGED <<server, stream, sent, eof>>, Ends,
           logouts = 0, logouts' = 0, bodies' \in Seq([at : Nat, len : Nat])
    PROVE  LocalsOK' /\ InPlace' /\ LogoutsAgree'
<1>1. server \in {"gevent", "pyserver"}
  BY DEF HandlerInv, LocalsOK
<1>2. CASE server = "gevent"
  <2>1. Goes("closed")
    BY <1>2 DEF Ends
  <2>2. LocalsOK' /\ handler'.pc = "closed" /\ InPlace'
    BY <2>1, GoesOK
  <2>3. LogoutsAgree'
    BY <1>2, <2>2 DEF LogoutsAgree
  <2> QED
    BY <2>2, <2>3
<1>3. CASE server = "pyserver"
  <2>1. Goes("cleanup")
    BY <1>3 DEF Ends
  <2>2. LocalsOK' /\ handler'.pc = "cleanup" /\ InPlace'
    BY <1>3, <2>1, GoesOK
  <2>3. LogoutsAgree'
    BY <2>2 DEF LogoutsAgree
  <2> QED
    BY <2>2, <2>3
<1> QED
  BY <1>1, <1>2, <1>3

\* A greenlet that raised is done.
LEMMA RaisedOK ==
    ASSUME HandlerInv, UNCHANGED <<server, sent>>, Goes("raised"),
           logouts' \in 0 .. 2, bodies' \in Seq([at : Nat, len : Nat])
    PROVE  LocalsOK' /\ InPlace' /\ LogoutsAgree'
<1>1. LocalsOK' /\ handler'.pc = "raised" /\ InPlace'
  BY GoesOK
<1>2. LogoutsAgree'
  BY <1>1 DEF LogoutsAgree
<1> QED
  BY <1>1, <1>2

LEMMA NoDataOK ==
    ASSUME HandlerInv, NoData
    PROVE  HandlerInv'
<1>1. /\ Reading /\ handler.left > 0 /\ eof /\ Pos = sent
      /\ UNCHANGED <<server, stream, sent, eof, sessionkey, bodies>>
  BY DEF NoData
<1>2. Placed /\ LocalsOK /\ InPlace /\ LogoutsAgree /\ BodiesFirst
  BY DEF HandlerInv
<1>3. /\ Placed' /\ BodiesIn(sent)' = BodiesIn(sent) /\ CutShort' = CutShort
  BY <1>1, StreamKept
<1>4. BodiesFirst'
  BY <1>1, <1>2, <1>3 DEF BodiesFirst
<1>5. bodies' \in Seq([at : Nat, len : Nat])
  BY <1>1, <1>2 DEF LocalsOK
<1>6. CASE handler.pc = "header" /\ logouts = 0
  <2>1. Ends /\ logouts' = 0
    BY <1>6 DEF NoData
  <2>2. LocalsOK' /\ InPlace' /\ LogoutsAgree'
    BY <1>1, <1>5, <1>6, <2>1, EndsOK
  <2> QED
    BY <1>3, <1>4, <2>2 DEF HandlerInv
<1>7. CASE handler.pc = "header" /\ logouts # 0
  <2>1. Ends /\ logouts' = logouts
    BY <1>7 DEF NoData
  <2>2. logouts = 1 /\ CutShort
    BY <1>2, <1>7 DEF LogoutsAgree
  <2>3. server \in {"gevent", "pyserver"}
    BY <1>2 DEF LocalsOK
  <2>4. CASE server = "gevent"
    <3>1. Goes("closed")
      BY <2>1, <2>4 DEF Ends
    <3>2. LocalsOK' /\ handler'.pc = "closed" /\ InPlace'
      BY <1>1, <1>5, <2>1, <2>2, <3>1, GoesOK
    <3>3. LogoutsAgree'
      BY <1>1, <2>4, <3>2 DEF LogoutsAgree
    <3> QED
      BY <1>3, <1>4, <3>2, <3>3 DEF HandlerInv
  <2>5. CASE server = "pyserver"
    <3>1. Goes("cleanup")
      BY <2>1, <2>5 DEF Ends
    <3>2. LocalsOK' /\ handler'.pc = "cleanup" /\ InPlace'
      BY <1>1, <1>5, <2>1, <2>2, <2>5, <3>1, GoesOK
    <3>3. LogoutsAgree'
      BY <1>3, <2>1, <2>2, <3>2 DEF LogoutsAgree
    <3> QED
      BY <1>3, <1>4, <3>2, <3>3 DEF HandlerInv
  <2> QED
    BY <2>3, <2>4, <2>5
<1>8. CASE handler.pc = "body"
  <2>1. PICK h \in Range(stream) : InBodyOf(h)
    BY <1>2, <1>8 DEF InPlace
  <2>2. logouts = 0
    BY <1>2, <1>8 DEF InPlace
  <2>3. CASE Goes("raised") /\ logouts' \in {logouts, logouts + 1}
    <3>1. logouts' \in 0 .. 2
      BY <2>2, <2>3
    <3>2. LocalsOK' /\ InPlace' /\ LogoutsAgree'
      BY <1>1, <1>5, <2>3, <3>1, RaisedOK
    <3> QED
      BY <1>3, <1>4, <3>2 DEF HandlerInv
  <2>4. CASE NextHeader /\ logouts' = logouts + 1
    <3>1. /\ handler.at \in Nat /\ handler.data \in Nat /\ handler.total \in Nat
          /\ sent = handler.at + handler.data /\ handler.data < handler.total
          /\ sent \in Nat
      BY <1>1, <1>2 DEF LocalsOK, Placed, Pos
    <3>2. handler' = Recvall("header", sent, HEAD_LEN) /\ logouts' = 1
      BY <1>1, <2>2, <2>4 DEF NextHeader
    <3>3. LocalsOK' /\ handler'.pc = "header" /\ handler'.at = sent /\ handler'.data = 0
      <4>1. HEAD_LEN \in Nat /\ logouts' \in 0 .. 2 /\ sent <= sent
        BY <3>1, <3>2, HandlerAssumption
      <4> QED
        BY <1>1, <1>5, <3>1, <3>2, <4>1, RecvallOK
    <3>4. CutShort
      <4>1. h.at + HEAD_LEN = handler.at /\ handler.total = h.number
        BY <2>1 DEF InBodyOf
      <4>2. EndOf(h) = h.at + HEAD_LEN + h.number /\ h.at \in Nat /\ h.number \in Nat
        BY <1>2, <2>1, InStream, EndsLater DEF InBodyOf
      <4>3. HEAD_LEN \in Nat
        BY HandlerAssumption
      <4>4. h.at + HEAD_LEN <= sent /\ sent < EndOf(h)
        BY <3>1, <4>1, <4>2, <4>3
      <4> QED
        BY <1>1, <4>4 DEF CutShort, InsideBody
    <3>5. Range(bodies) = BodiesIn(sent)
      BY <1>1, WaitingHasAll
    <3>6. InPlace'
      BY <3>2, <3>3 DEF InPlace
    <3>7. Range(bodies)' = BodiesIn(sent)'
      BY <1>1, <1>3, <3>5
    <3>8. LogoutsAgree'
      BY <1>1, <1>3, <3>2, <3>3, <3>4, <3>7 DEF LogoutsAgree
    <3> QED
      BY <1>3, <1>4, <3>3, <3>6, <3>8 DEF HandlerInv
  <2> QED
    BY <1>8, <2>3, <2>4 DEF NoData
<1> QED
  BY <1>1, <1>6, <1>7, <1>8 DEF Reading

LEMMA RecvRaisesOK ==
    ASSUME HandlerInv, recvRaises
    PROVE  HandlerInv'
<1>1. Goes("raised") /\ UNCHANGED <<server, stream, sent, eof, sessionkey, logouts, bodies>>
  BY DEF recvRaises
<1>2. Placed /\ LocalsOK /\ BodiesFirst
  BY DEF HandlerInv
<1>3. /\ Placed' /\ BodiesIn(sent)' = BodiesIn(sent)
  BY <1>1, StreamKept
<1>4. BodiesFirst'
  BY <1>1, <1>2, <1>3 DEF BodiesFirst
<1>5. bodies' \in Seq([at : Nat, len : Nat]) /\ logouts' \in 0 .. 2
  BY <1>1, <1>2 DEF LocalsOK
<1>6. LocalsOK' /\ InPlace' /\ LogoutsAgree'
  BY <1>1, <1>5, RaisedOK
<1> QED
  BY <1>3, <1>4, <1>6 DEF HandlerInv

\* The next header is expected where the one at p ends with its body.
LEMMA ReadOn ==
    ASSUME HandlerInv, NEW h \in Range(stream), ReadUpTo(h.at), GoesOn(h.number),
           UNCHANGED <<server, stream, sent, eof>>,
           Range(bodies') = Range(bodies)
                              \cup {BodyOf(g) : g \in {g \in {h} : HasBody(g.number)}}
    PROVE  ReadUpTo(EndOf(h))'
<1> DEFINE p == EndOf(h)
<1>1. Placed
  BY DEF HandlerInv
<1>2. \A g \in Range(stream) : g.at \in Nat /\ EndOf(g) \in Nat /\ g.at < EndOf(g)
  BY <1>1, InStream, EndsLater
<1>3. \A g \in Range(stream) : g.at < p <=> g.at < h.at \/ g = h
  <2>1. SUFFICES ASSUME NEW g \in Range(stream) PROVE g.at < p <=> g.at < h.at \/ g = h
    OBVIOUS
  <2>2. g = h \/ EndOf(g) <= h.at \/ EndOf(h) <= g.at
    BY <1>1 DEF Placed
  <2> QED
    BY <1>2, <2>2
<1>4. Joined(p)' = Joined(p) /\ Joined(p)
  BY <1>1 DEF Joined, StreamEnd, Placed
<1> HIDE DEF p
<1>5. \A g \in Range(stream) : g.at < p => GoesOn(g.number)
  BY <1>3 DEF ReadUpTo
<1>6. {g \in Range(stream) : HasBody(g.number) /\ g.at < p}
        = {g \in Range(stream) : HasBody(g.number) /\ g.at < h.at}
            \cup {g \in {h} : HasBody(g.number)}
  BY <1>3
<1>7. {BodyOf(g) : g \in {g \in Range(stream) : HasBody(g.number) /\ g.at < p}}
        = Range(bodies)
            \cup {BodyOf(g) : g \in {g \in {h} : HasBody(g.number)}}
  BY <1>6 DEF ReadUpTo
<1>8. p' = p
  BY DEF p
<1>9. ReadUpTo(p)'
  BY <1>4, <1>5, <1>7, <1>8 DEF ReadUpTo, GoesOn
<1> QED
  BY <1>9 DEF p

LEMMA HeaderOK ==
    ASSUME HandlerInv, Header
    PROVE  HandlerInv'
<1>1. /\ handler.pc = "header" /\ handler.left <= 0
      /\ UNCHANGED <<server, stream, sent, eof, sessionkey, logouts, bodies>>
  BY DEF Header
<1>2. Placed /\ LocalsOK /\ InPlace /\ LogoutsAgree /\ BodiesFirst
  BY DEF HandlerInv
<1>3. /\ Placed' /\ BodiesIn(sent)' = BodiesIn(sent) /\ CutShort' = CutShort
  BY <1>1, StreamKept
<1>4. BodiesFirst'
  BY <1>1, <1>2, <1>3 DEF BodiesFirst
<1>5. bodies' \in Seq([at : Nat, len : Nat]) /\ logouts' \in 0 .. 2
  BY <1>1, <1>2 DEF LocalsOK
<1>6. HEAD_LEN \in Nat /\ HEAD_LEN > 0
  BY HandlerAssumption
<1>7. /\ handler.at \in Nat /\ handler.data = HEAD_LEN
      /\ Pos = handler.at + HEAD_LEN /\ Pos <= sent /\ Pos \in Nat
      /\ sent \in Nat /\ StreamEnd \in Nat /\ sent <= StreamEnd
  BY <1>1, <1>2, <1>6 DEF LocalsOK, Placed, Pos
<1>8. logouts = 0
  BY <1>1, <1>2, <1>6, <1>7 DEF LogoutsAgree
<1>9. ReadUpTo(handler.at)
  BY <1>1, <1>2, <1>8 DEF InPlace
<1>10. PICK h \in Range(stream) : h.at = handler.at
  <2>1. handler.at # StreamEnd
    BY <1>6, <1>7
  <2> QED
    BY <1>9, <2>1 DEF ReadUpTo, Joined
<1>11. Stated(handler.at) = {h.number}
  <2>1. {g \in Range(stream) : g.at = handler.at} = {h}
    BY <1>2, <1>10, OneHeader
  <2> QED
    BY <2>1 DEF Stated
<1>12. \/ Goes("raised") \/ Ends
       \/ HasBody(h.number) /\ handler' = Recvall("body", Pos, h.number)
       \/ /\ h.number # NoMagic /\ Signed(h.number) <= 0
          /\ server = "gevent" /\ NextHeader
  BY <1>11 DEF Header
<1>13. CASE Goes("raised")
  BY <1>1, <1>3, <1>4, <1>5, <1>13, RaisedOK DEF HandlerInv
<1>14. CASE Ends
  <2>1. LocalsOK' /\ InPlace' /\ LogoutsAgree'
    BY <1>1, <1>5, <1>8, <1>14, EndsOK
  <2> QED
    BY <1>3, <1>4, <2>1 DEF HandlerInv
<1>15. CASE HasBody(h.number) /\ handler' = Recvall("body", Pos, h.number)
  <2>1. h.number \in Nat
    BY <1>2, <1>15, InStream, EndsLater
  <2>2. /\ LocalsOK' /\ handler'.pc = "body" /\ handler'.at = h.at + HEAD_LEN
        /\ handler'.total = h.number /\ handler'.data = 0
    <3>1. "body" = "header" => h.number = HEAD_LEN
      OBVIOUS
    <3>2. LocalsOK' /\ handler'.pc = "body" /\ handler'.at = Pos
          /\ handler'.total = h.number /\ handler'.data = 0
      BY <1>1, <1>5, <1>7, <1>15, <2>1, <3>1, RecvallOK
    <3> QED
      BY <1>7, <1>10, <3>2
  <2>3. ReadUpTo(h.at)'
    <3>1. \A p : Joined(p)' = Joined(p)
      BY <1>1, StreamKept
    <3>2. ReadUpTo(h.at)
      BY <1>9, <1>10
    <3> QED
      BY <1>1, <3>1, <3>2 DEF ReadUpTo, GoesOn
  <2>4. InBodyOf(h)'
    BY <1>15, <2>2, <2>3 DEF InBodyOf
  <2>5. InPlace'
    BY <1>1, <1>8, <2>2, <2>4 DEF InPlace
  <2>6. LogoutsAgree'
    BY <2>2 DEF LogoutsAgree
  <2> QED
    BY <1>3, <1>4, <2>2, <2>5, <2>6 DEF HandlerInv
<1>16. CASE /\ h.number # NoMagic /\ Signed(h.number) <= 0
            /\ server = "gevent" /\ NextHeader
  <2>1. ~HasBody(h.number) /\ GoesOn(h.number)
    <3>1. ~(Signed(h.number) \in 1 .. MAX_BODY_LEN)
      BY <1>16
    <3> QED
      BY <1>16, <3>1 DEF HasBody, GoesOn
  <2>2. EndOf(h) = Pos
    BY <1>2, <1>7, <1>10, <2>1, InStream, EndsLater
  <2>3. handler' = Recvall("header", Pos, HEAD_LEN)
    BY <1>16 DEF NextHeader
  <2>4. LocalsOK' /\ handler'.pc = "header" /\ handler'.at = Pos /\ handler'.data = 0
    BY <1>1, <1>5, <1>6, <1>7, <2>3, RecvallOK
  <2>5. ReadUpTo(EndOf(h))'
    <3>1. {BodyOf(g) : g \in {g \in {h} : HasBody(g.number)}} = {}
      BY <2>1
    <3> QED
      BY <1>1, <1>9, <1>10, <2>1, <3>1, ReadOn
  <2>6. InPlace'
    <3>1. handler'.at = EndOf(h)
      BY <2>2, <2>4
    <3> QED
      BY <2>4, <2>5, <3>1 DEF InPlace, ReadUpTo, Joined
  <2>7. LogoutsAgree'
    BY <1>1, <1>8, <2>4 DEF LogoutsAgree
  <2> QED
    BY <1>3, <1>4, <2>4, <2>6, <2>7 DEF HandlerInv
<1> QED
  BY <1>12, <1>13, <1>14, <1>15, <1>16

\* The body that is handed out next is the next one of the stream.
LEMMA NextBody ==
    ASSUME HandlerInv, NEW h \in Range(stream), HasBody(h.number), ReadUpTo(h.at),
           EndOf(h) <= sent, UNCHANGED <<server, stream, sent, eof>>,
           bodies' = Append(bodies, BodyOf(h))
    PROVE  BodiesFirst' /\ Range(bodies') = Range(bodies) \cup {BodyOf(h)}
<1>1. Placed /\ LocalsOK /\ BodiesFirst
  BY DEF HandlerInv
<1>2. bodies \in Seq([at : Nat, len : Nat])
  BY <1>1 DEF LocalsOK
<1>3. BodyOf(h) \in [at : Nat, len : Nat] /\ BodyOf(h).at = h.at + HEAD_LEN
  <2>1. h.at \in Nat /\ h.number \in Nat /\ HEAD_LEN \in Nat
    BY <1>1, InStream, EndsLater, HandlerAssumption
  <2> QED
    BY <2>1 DEF BodyOf
<1> DEFINE n == Len(bodies)
<1>4. /\ n \in Nat /\ DOMAIN bodies = 1 .. n /\ DOMAIN bodies' = 1 .. n + 1
      /\ bodies'[n + 1] = BodyOf(h) /\ \A i \in 1 .. n : bodies'[i] = bodies[i]
  BY <1>2, <1>3
<1> HIDE DEF n
<1>5. Range(bodies') = Range(bodies) \cup {BodyOf(h)}
  BY <1>4 DEF Range
<1>6. BodiesIn(sent)' = BodiesIn(sent)
  BY StreamKept
<1>7. BodyOf(h) \in BodiesIn(sent)
  BY DEF BodiesIn, ReadUpTo
<1>8. ASSUME NEW i \in 1 .. n
      PROVE  bodies[i].at < BodyOf(h).at
  <2>1. bodies[i] \in Range(bodies)
    BY <1>4 DEF Range
  <2>2. PICK g \in Range(stream) : bodies[i] = BodyOf(g) /\ g.at < h.at
    BY <2>1 DEF ReadUpTo
  <2>3. g.at \in Nat /\ h.at \in Nat /\ HEAD_LEN \in Nat
    BY <1>1, InStream, EndsLater, HandlerAssumption
  <2>4. bodies[i].at = g.at + HEAD_LEN
    BY <2>2 DEF BodyOf
  <2> QED
    BY <1>3, <2>2, <2>3, <2>4
<1>9. \A i, j \in DOMAIN bodies' : i < j => bodies'[i].at < bodies'[j].at
  <2>1. SUFFICES ASSUME NEW i \in 1 .. n + 1, NEW j \in 1 .. n + 1, i < j
                 PROVE  bodies'[i].at < bodies'[j].at
    BY <1>4
  <2>2. CASE j = n + 1
    <3>1. i \in 1 .. n
      BY <1>4, <2>1, <2>2
    <3> QED
      BY <1>4, <1>8, <2>2, <3>1
  <2>3. CASE j # n + 1
    <3>1. i \in 1 .. n /\ j \in 1 .. n
      BY <1>4, <2>1, <2>3
    <3>2. bodies[i].at < bodies[j].at
      BY <1>1, <1>4, <2>1, <3>1 DEF BodiesFirst
    <3> QED
      BY <1>4, <3>1, <3>2
  <2> QED
    BY <2>2, <2>3
<1>10. ASSUME NEW b \in BodiesIn(sent), b.at < BodyOf(h).at
       PROVE  b \in Range(bodies)
  <2>1. PICK g \in Range(stream) : b = BodyOf(g) /\ HasBody(g.number)
    BY DEF BodiesIn
  <2>2. g.at \in Nat /\ h.at \in Nat /\ HEAD_LEN \in Nat
    BY <1>1, InStream, EndsLater, HandlerAssumption
  <2>3. b.at = g.at + HEAD_LEN
    BY <2>1 DEF BodyOf
  <2>4. g.at < h.at
    BY <1>3, <1>10, <2>2, <2>3
  <2> QED
    BY <2>1, <2>4 DEF ReadUpTo
<1>11. ASSUME NEW b \in BodiesIn(sent), NEW i \in DOMAIN bodies', b.at < bodies'[i].at
       PROVE  b \in Range(bodies')
  <2>1. CASE i = n + 1
    BY <1>4, <1>5, <1>10, <1>11, <2>1
  <2>2. CASE i # n + 1
    <3>1. i \in DOMAIN bodies /\ bodies'[i] = bodies[i]
      BY <1>4, <2>2
    <3> QED
      BY <1>1, <1>5, <1>11, <3>1 DEF BodiesFirst
  <2> QED
    BY <2>1, <2>2
<1>12. Range(bodies') \subseteq BodiesIn(sent)
  BY <1>1, <1>5, <1>7 DEF BodiesFirst
<1>13. BodiesFirst'
  BY <1>6, <1>9, <1>11, <1>12 DEF BodiesFirst
<1> QED
  BY <1>5, <1>13

LEMMA BodyOK ==
    ASSUME HandlerInv, Body
    PROVE  HandlerInv'
<1>1. /\ handler.pc = "body" /\ handler.left <= 0
      /\ bodies' = Append(bodies, [at |-> handler.at, len |-> handler.data])
      /\ UNCHANGED <<server, stream, sent, eof, logouts>>
  BY DEF Body
<1>2. Placed /\ LocalsOK /\ InPlace /\ LogoutsAgree /\ BodiesFirst
  BY DEF HandlerInv
<1>3. PICK h \in Range(stream) : InBodyOf(h)
  BY <1>1, <1>2 DEF InPlace
<1>4. logouts = 0
  BY <1>1, <1>2 DEF InPlace
<1>5. /\ HasBody(h.number) /\ handler.at = h.at + HEAD_LEN
      /\ handler.total = h.number /\ ReadUpTo(h.at)
  BY <1>3 DEF InBodyOf
<1>6. /\ h.at \in Nat /\ h.number \in Nat /\ EndOf(h) = h.at + HEAD_LEN + h.number
  BY <1>2, <1>5, InStream, EndsLater
<1>7. HEAD_LEN \in Nat
  BY HandlerAssumption
<1>8. handler.data = h.number
  <2>1. /\ handler.data \in Nat /\ handler.left = handler.total - handler.data
        /\ handler.data <= handler.total
    BY <1>2 DEF LocalsOK
  <2> QED
    BY <1>1, <1>5, <1>6, <2>1
<1>9. Pos = EndOf(h) /\ Pos \in Nat /\ EndOf(h) <= sent
  <2>1. Pos = EndOf(h)
    BY <1>5, <1>6, <1>7, <1>8 DEF Pos
  <2> QED
    BY <1>2, <1>6, <1>7, <2>1 DEF LocalsOK
<1>10. bodies' = Append(bodies, BodyOf(h))
  BY <1>1, <1>5, <1>8 DEF BodyOf
<1>11. BodiesFirst' /\ Range(bodies') = Range(bodies) \cup {BodyOf(h)}
  BY <1>1, <1>5, <1>9, <1>10, NextBody
<1>12. Placed'
  BY <1>1, StreamKept
<1>13. bodies' \in Seq([at : Nat, len : Nat]) /\ logouts' \in 0 .. 2 /\ logouts' = 0
  <2>1. BodyOf(h) \in [at : Nat, len : Nat]
    BY <1>6, <1>7 DEF BodyOf
  <2> QED
    BY <1>1, <1>2, <1>4, <1>10, <2>1 DEF LocalsOK
<1>14. NextHeader \/ Ends \/ Goes("raised")
  BY DEF Body
<1>15. CASE NextHeader
  <2>1. handler' = Recvall("header", Pos, HEAD_LEN)
    BY <1>15 DEF NextHeader
  <2>2. LocalsOK' /\ handler'.pc = "header" /\ handler'.at = Pos
    BY <1>1, <1>7, <1>9, <1>13, <2>1, RecvallOK
  <2>3. ReadUpTo(EndOf(h))'
    <3>1. {BodyOf(g) : g \in {g \in {h} : HasBody(g.number)}} = {BodyOf(h)}
      BY <1>5
    <3>2. GoesOn(h.number)
      BY <1>5 DEF GoesOn
    <3> QED
      BY <1>1, <1>5, <1>11, <3>1, <3>2, ReadOn
  <2>4. InPlace'
    <3>1. handler'.at = EndOf(h)
      BY <1>9, <2>2
    <3> QED
      BY <2>2, <2>3, <3>1 DEF InPlace, ReadUpTo, Joined
  <2>5. LogoutsAgree'
    BY <1>13, <2>2 DEF LogoutsAgree
  <2> QED
    BY <1>11, <1>12, <2>2, <2>4, <2>5 DEF HandlerInv
<1>16. CASE Ends
  <2>1. LocalsOK' /\ InPlace' /\ LogoutsAgree'
    BY <1>1, <1>4, <1>13, <1>16, EndsOK
  <2> QED
    BY <1>11, <1>12, <2>1 DEF HandlerInv
<1>17. CASE Goes("raised")
  <2>1. LocalsOK' /\ InPlace' /\ LogoutsAgree'
    BY <1>1, <1>13, <1>17, RaisedOK
  <2> QED
    BY <1>11, <1>12, <2>1 DEF HandlerInv
<1> QED
  BY <1>14, <1>15, <1>16, <1>17

LEMMA CleanupOK ==
    ASSUME HandlerInv, Cleanup
    PROVE  HandlerInv'
<1>1. /\ handler.pc = "cleanup" /\ logouts' = logouts + 1
      /\ UNCHANGED <<server, stream, sent, eof, sessionkey, bodies>>
  BY DEF Cleanup
<1>2. Placed /\ LocalsOK /\ InPlace /\ LogoutsAgree /\ BodiesFirst
  BY DEF HandlerInv
<1>3. /\ Placed' /\ BodiesIn(sent)' = BodiesIn(sent) /\ CutShort' = CutShort
  BY <1>1, StreamKept
<1>4. BodiesFirst'
  BY <1>1, <1>2, <1>3 DEF BodiesFirst
<1>5. logouts = 0 \/ (logouts = 1 /\ CutShort)
  BY <1>1, <1>2 DEF LogoutsAgree
<1>6. /\ bodies' \in Seq([at : Nat, len : Nat]) /\ logouts' \in 0 .. 2
      /\ logouts' = 1 \/ (logouts' = 2 /\ CutShort)
  BY <1>1, <1>2, <1>5 DEF LocalsOK
<1>7. CASE Goes("closed")
  <2>1. LocalsOK' /\ handler'.pc = "closed" /\ InPlace'
    BY <1>1, <1>6, <1>7, GoesOK
  <2>2. LogoutsAgree'
    BY <1>3, <1>6, <2>1 DEF LogoutsAgree
  <2> QED
    BY <1>3, <1>4, <2>1, <2>2 DEF HandlerInv
<1>8. CASE Goes("raised")
  BY <1>1, <1>3, <1>4, <1>6, <1>8, RaisedOK DEF HandlerInv
<1> QED
  BY <1>7, <1>8 DEF Cleanup

LEMMA HandlerStepOK ==
    ASSUME HandlerInv, [HandlerNext]_handlerVars
    PROVE  HandlerInv'
<1>1. CASE UNCHANGED handlerVars
  <2>1. UNCHANGED <<server, stream, sent, eof, handler, sessionkey, logouts, bodies>>
    BY <1>1 DEF handlerVars
  <2>2. Placed' /\ BodiesIn(sent)' = BodiesIn(sent) /\ CutShort' = CutShort
        /\ \A p : Joined(p)' = Joined(p)
    BY <2>1, StreamKept
  <2> QED
    BY <2>1, <2>2 DEF HandlerInv, LocalsOK, Pos, InPlace, InBodyOf, ReadUpTo, GoesOn,
                      LogoutsAgree, BodiesFirst
<1>2. ASSUME NEW n \in Numbers \cup {NoMagic}, Send(n) PROVE HandlerInv'
  BY <1>2, SendOK
<1>3. ASSUME NEW n \in 1 .. StreamEnd, recv(n) PROVE HandlerInv'
  BY <1>3, RecvOK
<1> QED
  BY <1>1, <1>2, <1>3, ArriveOK, EndOK, NoDataOK, RecvRaisesOK, HeaderOK, BodyOK,
     CleanupOK
     DEF HandlerNext

LEMMA HandlerInvRight == HandlerInv => BodiesAreRight
<1> SUFFICES ASSUME HandlerInv PROVE BodiesAreRight
  OBVIOUS
<1>1. BodiesFirst /\ LogoutsAgree
  BY DEF HandlerInv
<1>2. Reading /\ handler.left > 0 /\ Pos = sent => Range(bodies) = BodiesIn(sent)
  BY WaitingHasAll
<1>3. handler.pc = "closed" /\ server = "pyserver" =>
        logouts = 1 \/ (logouts = 2 /\ InsideBody(sent))
  BY <1>1 DEF LogoutsAgree, CutShort
<1> QED
  BY <1>1, <1>2, <1>3 DEF BodiesFirst, BodiesAreRight

\* However the bytes arrive, tasks are given the bodies of the stream, whole, in
\* order and none left out, and a session is logged out when it is closed:
\* recvall and handler of pys_tcpserver.py and server_main.py.
THEOREM BodiesSafe == HandlerSpec => []BodiesAreRight
<1>1. HandlerInit => HandlerInv
  BY HandlerInitOK
<1>2. HandlerInv /\ [HandlerNext]_handlerVars => HandlerInv'
  BY HandlerStepOK
<1>3. HandlerInv => BodiesAreRight
  BY HandlerInvRight
<1> QED
  BY <1>1, <1>2, <1>3, PTL DEF HandlerSpec

-----------------------------------------------------------------------------
(* Induction over places, and recursive functions of them.                 *)

\* A set that holds 0, and with each number below N the next, holds all of them.
LEMMA CountsUp ==
    ASSUME NEW N \in Nat, NEW P, 0 \in P,
           \A n \in 0 .. N : n \in P /\ n < N => n + 1 \in P
    PROVE  \A n \in 0 .. N : n \in P
<1> DEFINE R == OpToRel(<, Nat)
           T == {n \in 0 .. N : n \notin P}
<1>1. IsWellFoundedOn(R, Nat)
  BY NatLessThanWellFounded
<1>2. \A m, n \in Nat : m < n => <<m, n>> \in R
  BY DEF OpToRel
<1>3. T \in SUBSET Nat
  OBVIOUS
<1> HIDE DEF R
<1>4. ASSUME T # {} PROVE FALSE
  <2>1. PICK n \in T : \A m \in T : ~ (<<m, n>> \in R)
    <3> HIDE DEF T
    <3> QED
      BY <1>1, <1>3, <1>4, WFMin
  <2>2. n \in 0 .. N /\ n \notin P /\ n # 0
    BY <2>1
  <2>3. n - 1 \in 0 .. N /\ n - 1 < n /\ n - 1 < N /\ n - 1 + 1 = n /\ n - 1 \in Nat
        /\ n \in Nat
    BY <2>2
  <2>4. n - 1 \notin T
    BY <1>2, <2>1, <2>3
  <2>5. n - 1 \in P
    BY <2>3, <2>4
  <2> QED
    BY <2>2, <2>3, <2>5
<1> QED
  BY <1>4

\* What a recursive function of places is: it begins with b, and each value
\* comes from the one before.
Iterates(f, N, b, step) ==
    f[0] = b /\ \A n \in 1 .. N : f[n] = step[<<n, f[n - 1]>>]

LEMMA IteratesExist ==
    ASSUME NEW N \in Nat, NEW S, NEW b \in S, NEW step \in [(1 .. N) \X S -> S]
    PROVE  \E f \in [0 .. N -> S] : Iterates(f, N, b, step)
<1> DEFINE Upto(k) == \E f \in [0 .. k -> S] : Iterates(f, k, b, step)
           P == {k \in 0 .. N : Upto(k)}
<1>1. 0 \in P
  <2>1. [n \in 0 .. 0 |-> b] \in [0 .. 0 -> S]
    OBVIOUS
  <2>2. Iterates([n \in 0 .. 0 |-> b], 0, b, step)
    BY DEF Iterates
  <2>3. Upto(0)
    BY <2>1, <2>2
  <2> QED
    BY <2>3
<1>2. ASSUME NEW k \in 0 .. N, k \in P, k < N PROVE k + 1 \in P
  <2>1. PICK f \in [0 .. k -> S] : Iterates(f, k, b, step)
    BY <1>2
  <2> DEFINE g == [n \in 0 .. k + 1 |-> IF n = k + 1 THEN step[<<k + 1, f[k]>>] ELSE f[n]]
  <2>2. k + 1 \in 1 .. N /\ k \in 0 .. k /\ k + 1 # 0 /\ k \in Nat
    BY <1>2
  <2>3. step[<<k + 1, f[k]>>] \in S
    <3>1. f[k] \in S
      BY <2>2
    <3>2. <<k + 1, f[k]>> \in (1 .. N) \X S
      BY <2>2, <3>1
    <3> QED
      BY <3>2
  <2>4. g \in [0 .. k + 1 -> S]
    <3>1. \A n \in 0 .. k + 1 : n # k + 1 => n \in 0 .. k
      BY <2>2
    <3> QED
      BY <2>3, <3>1
  <2>5. g[0] = b
    BY <2>1, <2>2 DEF Iterates
  <2>6. ASSUME NEW n \in 1 .. k + 1 PROVE g[n] = step[<<n, g[n - 1]>>]
    <3>1. n - 1 \in 0 .. k + 1 /\ n - 1 # k + 1 /\ n \in 0 .. k + 1
      BY <2>2
    <3>2. g[n - 1] = f[n - 1]
      BY <3>1
    <3>3. CASE n = k + 1
      <4>1. n - 1 = k
        BY <2>2, <3>3
      <4> QED
        BY <3>1, <3>2, <3>3, <4>1
    <3>4. CASE n # k + 1
      <4>1. n \in 1 .. k
        BY <2>2, <3>4
      <4>2. g[n] = f[n]
        BY <3>1, <3>4
      <4> QED
        BY <2>1, <3>2, <4>1, <4>2 DEF Iterates
    <3> QED
      BY <3>3, <3>4
  <2> HIDE DEF g
  <2>7. Upto(k + 1)
    BY <2>4, <2>5, <2>6 DEF Iterates
  <2>8. k + 1 \in 0 .. N
    BY <1>2
  <2> QED
    BY <2>7, <2>8
<1> HIDE DEF P
<1>3. N \in P
  <2>1. \A n \in 0 .. N : n \in P
    BY <1>1, <1>2, CountsUp
  <2> QED
    BY <2>1
<1> QED
  BY <1>3 DEF P

\* Two functions that begin alike and go on alike are alike.
Agree(f, g, N) == \A n \in 0 .. N : f[n] = g[n]

LEMMA IteratesAgree ==
    ASSUME NEW N \in Nat, NEW f, NEW g, f[0] = g[0],
           \A n \in 1 .. N : f[n - 1] = g[n - 1] => f[n] = g[n]
    PROVE  Agree(f, g, N)
<1> DEFINE P == {n \in 0 .. N : f[n] = g[n]}
<1>1. 0 \in P
  OBVIOUS
<1>2. ASSUME NEW n \in 0 .. N, n \in P, n < N PROVE n + 1 \in P
  <2>1. n + 1 \in 1 .. N /\ n + 1 - 1 = n /\ n + 1 \in 0 .. N
    BY <1>2
  <2>2. f[n] = g[n]
    BY <1>2
  <2> QED
    BY <2>1, <2>2
<1> HIDE DEF P
<1>3. \A n \in 0 .. N : n \in P
  BY <1>1, <1>2, CountsUp
<1> QED
  BY <1>3 DEF P, Agree

\* All the values of such a function are in S.
LEMMA IteratesInside ==
    ASSUME NEW N \in Nat, NEW S, NEW f, f[0] \in S,
           \A n \in 1 .. N : f[n - 1] \in S => f[n] \in S
    PROVE  \A n \in 0 .. N : f[n] \in S
<1> DEFINE P == {n \in 0 .. N : f[n] \in S}
<1>1. 0 \in P
  OBVIOUS
<1>2. ASSUME NEW n \in 0 .. N, n \in P, n < N PROVE n + 1 \in P
  <2>1. n + 1 \in 1 .. N /\ n + 1 - 1 = n /\ n + 1 \in 0 .. N
    BY <1>2
  <2>2. f[n] \in S
    BY <1>2
  <2> QED
    BY <2>1, <2>2
<1> HIDE DEF P
<1>3. \A n \in 0 .. N : n \in P
  BY <1>1, <1>2, CountsUp
<1> QED
  BY <1>3 DEF P

-----------------------------------------------------------------------------
(* Sums.                                                                   *)

\* Total is what its definition computes, place by place.
LEMMA TotalRuns ==
    ASSUME NEW s \in Seq(Nat)
    PROVE  \E f : /\ f[0] = 0 /\ \A n \in 1 .. Len(s) : f[n] = f[n - 1] + s[n]
                  /\ Total(s) = f[Len(s)]
<1> DEFINE N    == Len(s)
           E(f) == f = [n \in 0 .. N |-> IF n = 0 THEN 0 ELSE f[n - 1] + s[n]]
           step == [p \in (1 .. N) \X Nat |-> p[2] + s[p[1]]]
<1>1. Total(s) = (CHOOSE f : E(f))[N]
  BY DEF Total
<1>2. N \in Nat /\ step \in [(1 .. N) \X Nat -> Nat]
  OBVIOUS
<1>3. PICK f \in [0 .. N -> Nat] : Iterates(f, N, 0, step)
  <2> HIDE DEF N, step
  <2> QED
    BY <1>2, IteratesExist
<1>4. E(f)
  <2>1. ASSUME NEW n \in 0 .. N PROVE f[n] = IF n = 0 THEN 0 ELSE f[n - 1] + s[n]
    <3>1. n # 0 => n \in 1 .. N /\ n - 1 \in 0 .. N
      OBVIOUS
    <3>2. n # 0 => <<n, f[n - 1]>> \in (1 .. N) \X Nat
      BY <3>1
    <3> QED
      BY <1>3, <3>1, <3>2 DEF Iterates
  <2>2. f = [n \in 0 .. N |-> f[n]]
    OBVIOUS
  <2> QED
    BY <2>1, <2>2
<1>5. E(CHOOSE g : E(g))
  BY <1>4, Zenon
<1> DEFINE c == CHOOSE g : E(g)
<1>6. E(c)
  BY <1>5
<1> HIDE DEF c
<1>7. c[0] = 0 /\ \A n \in 1 .. N : c[n] = c[n - 1] + s[n]
  <2>1. \A n \in 0 .. N : c[n] = IF n = 0 THEN 0 ELSE c[n - 1] + s[n]
    BY <1>6
  <2>2. 0 \in 0 .. N /\ \A n \in 1 .. N : n \in 0 .. N /\ n # 0
    BY <1>2
  <2> QED
    BY <2>1, <2>2
<1> QED
  BY <1>1, <1>7 DEF c

LEMMA TotalNothing == Total(<<>>) = 0
<1>1. <<>> \in Seq(Nat) /\ Len(<<>>) = 0
  OBVIOUS
<1> QED
  BY <1>1, TotalRuns

LEMMA TotalNat == ASSUME NEW s \in Seq(Nat) PROVE Total(s) \in Nat
<1>1. PICK f : /\ f[0] = 0 /\ \A n \in 1 .. Len(s) : f[n] = f[n - 1] + s[n]
               /\ Total(s) = f[Len(s)]
  BY TotalRuns
<1>2. f[0] \in Nat
  BY <1>1
<1>3. ASSUME NEW n \in 1 .. Len(s), f[n - 1] \in Nat PROVE f[n] \in Nat
  <2>1. s[n] \in Nat
    OBVIOUS
  <2> QED
    BY <1>1, <1>3, <2>1
<1>4. Len(s) \in Nat
  OBVIOUS
<1>5. \A n \in 0 .. Len(s) : f[n] \in Nat
  BY <1>2, <1>3, <1>4, IteratesInside
<1> QED
  BY <1>1, <1>4, <1>5

LEMMA TotalAppend ==
    ASSUME NEW s \in Seq(Nat), NEW x \in Nat
    PROVE  Total(Append(s, x)) = Total(s) + x
<1> DEFINE r == Append(s, x)
<1>1. r \in Seq(Nat) /\ Len(r) = Len(s) + 1 /\ Len(s) \in Nat /\ r[Len(s) + 1] = x
      /\ \A n \in 1 .. Len(s) : r[n] = s[n]
  OBVIOUS
<1> HIDE DEF r
<1>2. PICK f : /\ f[0] = 0 /\ \A n \in 1 .. Len(s) : f[n] = f[n - 1] + s[n]
               /\ Total(s) = f[Len(s)]
  BY TotalRuns
<1>3. PICK g : /\ g[0] = 0 /\ \A n \in 1 .. Len(r) : g[n] = g[n - 1] + r[n]
               /\ Total(r) = g[Len(r)]
  BY <1>1, TotalRuns
<1>4. f[0] = g[0]
  BY <1>2, <1>3
<1>5. ASSUME NEW n \in 1 .. Len(s), f[n - 1] = g[n - 1] PROVE f[n] = g[n]
  <2>1. n \in 1 .. Len(r)
    BY <1>1
  <2> QED
    BY <1>1, <1>2, <1>3, <1>5, <2>1
<1>6. \A n \in 0 .. Len(s) : f[n] = g[n]
  <2>1. Agree(f, g, Len(s))
    BY <1>1, <1>4, <1>5, IteratesAgree
  <2> QED
    BY <2>1 DEF Agree
<1>7. Len(r) \in 1 .. Len(r) /\ Len(r) - 1 = Len(s) /\ Len(s) \in 0 .. Len(s)
  BY <1>1
<1>8. g[Len(r)] = g[Len(s)] + x
  BY <1>1, <1>3, <1>7
<1> QED
  BY <1>2, <1>3, <1>6, <1>7, <1>8 DEF r

\* A property of the empty sequence that a sequence keeps when it is extended
\* holds for all sequences.
LEMMA BySequence ==
    ASSUME NEW S, NEW Q, <<>> \in Q,
           \A s \in Seq(S) : \A x \in S : s \in Q => Append(s, x) \in Q
    PROVE  \A s \in Seq(S) : s \in Q
<1>1. SUFFICES ASSUME NEW s \in Seq(S) PROVE s \in Q
  OBVIOUS
<1> DEFINE P == {n \in 0 .. Len(s) : SubSeq(s, 1, n) \in Q}
<1>2. Len(s) \in Nat
  OBVIOUS
<1>3. 0 \in P
  <2>1. SubSeq(s, 1, 0) = <<>>
    OBVIOUS
  <2>2. SubSeq(s, 1, 0) \in Q
    BY <2>1, Zenon
  <2>3. 0 \in 0 .. Len(s)
    BY <1>2
  <2> QED
    BY <2>2, <2>3
<1>4. ASSUME NEW n \in 0 .. Len(s), n \in P, n < Len(s) PROVE n + 1 \in P
  <2>1. n + 1 \in 1 .. Len(s) /\ n + 1 \in 0 .. Len(s) /\ n \in Nat
    BY <1>2, <1>4
  <2>2. SubSeq(s, 1, n + 1) = Append(SubSeq(s, 1, n), s[n + 1])
    BY <2>1
  <2>3. SubSeq(s, 1, n) \in Seq(S) /\ s[n + 1] \in S
    BY <2>1
  <2>4. SubSeq(s, 1, n) \in Q
    BY <1>4
  <2>5. Append(SubSeq(s, 1, n), s[n + 1]) \in Q
    BY <2>3, <2>4
  <2> QED
    BY <2>1, <2>2, <2>5
<1> HIDE DEF P
<1>5. \A n \in 0 .. Len(s) : n \in P
  BY <1>2, <1>3, <1>4, CountsUp
<1>6. SubSeq(s, 1, Len(s)) \in Q
  BY <1>2, <1>5 DEF P
<1>7. SubSeq(s, 1, Len(s)) = s
  OBVIOUS
<1> QED
  BY <1>6, <1>7

-----------------------------------------------------------------------------
(* Sequences of chosen elements.                                           *)

\* Selected is what its definition computes, place by place.
LEMMA SelectedRuns ==
    ASSUME NEW T, NEW w \in Seq(T), NEW K
    PROVE  \E f : /\ f[0] = <<>>
                  /\ \A n \in 1 .. Len(w) :
                        f[n] = IF n \in K THEN Append(f[n - 1], w[n]) ELSE f[n - 1]
                  /\ Selected(w, K) = f[Len(w)]
<1> DEFINE N    == Len(w)
           E(f) == f = [n \in 0 .. N |-> IF n = 0 THEN <<>>
                             ELSE IF n \in K THEN Append(f[n - 1], w[n]) ELSE f[n - 1]]
           step == [p \in (1 .. N) \X Seq(T) |-> IF p[1] \in K THEN Append(p[2], w[p[1]])
                                                 ELSE p[2]]
<1>1. Selected(w, K) = (CHOOSE f : E(f))[N]
  BY DEF Selected
<1>2. N \in Nat /\ step \in [(1 .. N) \X Seq(T) -> Seq(T)] /\ <<>> \in Seq(T)
  <2>1. ASSUME NEW p \in (1 .. N) \X Seq(T)
        PROVE  (IF p[1] \in K THEN Append(p[2], w[p[1]]) ELSE p[2]) \in Seq(T)
    <3>1. w[p[1]] \in T /\ p[2] \in Seq(T)
      OBVIOUS
    <3> QED
      BY <3>1
  <2> QED
    BY <2>1
<1>3. PICK f \in [0 .. N -> Seq(T)] : Iterates(f, N, <<>>, step)
  <2> HIDE DEF N, step
  <2> QED
    BY <1>2, IteratesExist
<1>4. E(f)
  <2>1. ASSUME NEW n \in 0 .. N
        PROVE  f[n] = IF n = 0 THEN <<>>
                      ELSE IF n \in K THEN Append(f[n - 1], w[n]) ELSE f[n - 1]
    <3>1. n # 0 => n \in 1 .. N /\ n - 1 \in 0 .. N
      OBVIOUS
    <3>2. n # 0 => <<n, f[n - 1]>> \in (1 .. N) \X Seq(T)
      BY <3>1
    <3> QED
      BY <1>3, <3>1, <3>2 DEF Iterates
  <2>2. f = [n \in 0 .. N |-> f[n]]
    OBVIOUS
  <2> QED
    BY <2>1, <2>2
<1>5. E(CHOOSE g : E(g))
  BY <1>4, Zenon
<1> DEFINE c == CHOOSE g : E(g)
<1>6. E(c)
  BY <1>5
<1> HIDE DEF c
<1>7. c[0] = <<>> /\ \A n \in 1 .. N :
          c[n] = IF n \in K THEN Append(c[n - 1], w[n]) ELSE c[n - 1]
  <2>1. ASSUME NEW n \in 0 .. N
        PROVE  c[n] = IF n = 0 THEN <<>>
                      ELSE IF n \in K THEN Append(c[n - 1], w[n]) ELSE c[n - 1]
    BY <1>6, Zenon
  <2>2. 0 \in 0 .. N /\ \A n \in 1 .. N : n \in 0 .. N /\ n # 0
    BY <1>2
  <2> QED
    BY <2>1, <2>2, Zenon
<1> QED
  BY <1>1, <1>7 DEF c

LEMMA SelectedNothing == ASSUME NEW K PROVE Selected(<<>>, K) = <<>>
<1> DEFINE w == <<>>
<1>1. w \in Seq({}) /\ Len(w) = 0
  OBVIOUS
<1> HIDE DEF w
<1>2. PICK f : /\ f[0] = <<>>
               /\ \A n \in 1 .. Len(w) :
                     f[n] = IF n \in K THEN Append(f[n - 1], w[n]) ELSE f[n - 1]
               /\ Selected(w, K) = f[Len(w)]
  BY <1>1, SelectedRuns
<1>3. Selected(w, K) = <<>>
  BY <1>1, <1>2
<1> QED
  BY <1>3 DEF w

LEMMA SelectedSeq ==
    ASSUME NEW T, NEW w \in Seq(T), NEW K
    PROVE  Selected(w, K) \in Seq(T)
<1>1. PICK f : /\ f[0] = <<>>
               /\ \A n \in 1 .. Len(w) :
                     f[n] = IF n \in K THEN Append(f[n - 1], w[n]) ELSE f[n - 1]
               /\ Selected(w, K) = f[Len(w)]
  BY SelectedRuns
<1>2. f[0] \in Seq(T)
  BY <1>1
<1>3. ASSUME NEW n \in 1 .. Len(w), f[n - 1] \in Seq(T) PROVE f[n] \in Seq(T)
  <2>1. w[n] \in T
    OBVIOUS
  <2>2. f[n] = IF n \in K THEN Append(f[n - 1], w[n]) ELSE f[n - 1]
    BY <1>1
  <2>3. Append(f[n - 1], w[n]) \in Seq(T)
    BY <1>3, <2>1
  <2> QED
    BY <1>3, <2>2, <2>3, Zenon
<1>4. Len(w) \in Nat
  OBVIOUS
<1>5. \A n \in 0 .. Len(w) : f[n] \in Seq(T)
  BY <1>2, <1>3, <1>4, IteratesInside
<1> QED
  BY <1>1, <1>4, <1>5

\* Which elements are chosen before the last does not depend on it.
LEMMA SelectedAppend ==
    ASSUME NEW T, NEW w \in Seq(T), NEW t \in T, NEW K, NEW J,
           \A n \in 1 .. Len(w) : n \in J <=> n \in K
    PROVE  Selected(Append(w, t), J) = IF Len(w) + 1 \in J THEN Append(Selected(w, K), t)
                                       ELSE Selected(w, K)
<1> DEFINE r == Append(w, t)
<1>1. r \in Seq(T) /\ Len(r) = Len(w) + 1 /\ Len(w) \in Nat /\ r[Len(w) + 1] = t
      /\ \A n \in 1 .. Len(w) : r[n] = w[n]
  OBVIOUS
<1> HIDE DEF r
<1>2. PICK f : /\ f[0] = <<>>
               /\ \A n \in 1 .. Len(w) :
                     f[n] = IF n \in K THEN Append(f[n - 1], w[n]) ELSE f[n - 1]
               /\ Selected(w, K) = f[Len(w)]
  BY SelectedRuns
<1>3. PICK g : /\ g[0] = <<>>
               /\ \A n \in 1 .. Len(r) :
                     g[n] = IF n \in J THEN Append(g[n - 1], r[n]) ELSE g[n - 1]
               /\ Selected(r, J) = g[Len(r)]
  BY <1>1, SelectedRuns
<1>4. f[0] = g[0]
  BY <1>2, <1>3
<1>5. ASSUME NEW n \in 1 .. Len(w), f[n - 1] = g[n - 1] PROVE f[n] = g[n]
  <2>1. n \in 1 .. Len(r)
    BY <1>1
  <2> QED
    BY <1>1, <1>2, <1>3, <1>5, <2>1
<1>6. \A n \in 0 .. Len(w) : f[n] = g[n]
  <2>1. Agree(f, g, Len(w))
    BY <1>1, <1>4, <1>5, IteratesAgree
  <2> QED
    BY <2>1 DEF Agree
<1>7. Len(r) \in 1 .. Len(r) /\ Len(r) - 1 = Len(w) /\ Len(w) \in 0 .. Len(w)
  BY <1>1
<1>8. g[Len(r)] = IF Len(r) \in J THEN Append(g[Len(w)], t) ELSE g[Len(w)]
  BY <1>1, <1>3, <1>7
<1> QED
  BY <1>1, <1>2, <1>3, <1>6, <1>7, <1>8 DEF r

-----------------------------------------------------------------------------
(* Parsers: both are functions of the place, that stop at the first field  *)
(* that ends the run or fails; one more field is one more step.            *)

Opt     == [has : BOOLEAN, val : Nat]
CutAt   == {"no", "length", "body"}
TypesOf == {"varint", "bytes", "end"}
Stopped == {"go", "end", "fail"}

UserField  == [num : Nat, type : TypesOf, val : Nat, sub : {<<>>}, len : Nat, cut : CutAt]
FocusField == [num : Nat, type : TypesOf, val : Nat, sub : Seq(UserField), len : Nat,
               cut : CutAt]

UserRead  == [userid : Opt, username : Opt, unknown : Seq(UserField)]
FocusRead == [msgtype : Opt, ui : Seq(UserRead), unknown : Seq(FocusField)]

UserState  == [msg : UserRead, run : Stopped]
FocusState == [msg : FocusRead, run : Stopped]

Taken(t) == t.cut = "no" /\ t.type # "end"

\* What a field that is taken does to a userinfo.
UserTakes(m, t) ==
    [userid   |-> IF Known(t, 1, "varint") THEN Given(t.val) ELSE m.userid,
     username |-> IF Known(t, 2, "bytes") THEN Given(t.val) ELSE m.username,
     unknown  |-> IF Known(t, 1, "varint") \/ Known(t, 2, "bytes") THEN m.unknown
                  ELSE Append(m.unknown, t)]

LEMMA UserStateIs ==
    ASSUME NEW st \in UserState
    PROVE  /\ st = [msg |-> st.msg, run |-> st.run]
           /\ st.msg = [userid |-> st.msg.userid, username |-> st.msg.username,
                        unknown |-> st.msg.unknown]
           /\ st.msg.userid \in Opt /\ st.msg.username \in Opt
           /\ st.msg.unknown \in Seq(UserField) /\ st.run \in Stopped
  BY DEF UserState, UserRead

LEMMA UserTakesType ==
    ASSUME NEW m \in UserRead, NEW t \in UserField
    PROVE  UserTakes(m, t) \in UserRead
<1>1. Given(t.val) \in Opt
  BY DEF Given, Opt, UserField
<1>2. m.userid \in Opt /\ m.username \in Opt /\ m.unknown \in Seq(UserField)
  BY DEF UserRead
<1>3. Append(m.unknown, t) \in Seq(UserField)
  BY <1>2
<1> QED
  BY <1>1, <1>2, <1>3 DEF UserTakes, UserRead

LEMMA UninterpretedUser ==
    ASSUME NEW st \in UserState, NEW t \in UserField
    PROVE  /\ t.type = "end" => Uninterpreted(st, t) = [msg |-> st.msg, run |-> "end"]
           /\ t.type # "end" /\ t.cut # "no"
              => Uninterpreted(st, t) = [msg |-> st.msg, run |-> "fail"]
           /\ Taken(t) => Uninterpreted(st, t) =
                [msg |-> [userid |-> st.msg.userid, username |-> st.msg.username,
                          unknown |-> Append(st.msg.unknown, t)],
                 run |-> st.run]
<1>1. [st EXCEPT !.run = "end"] = [msg |-> st.msg, run |-> "end"]
      /\ [st EXCEPT !.run = "fail"] = [msg |-> st.msg, run |-> "fail"]
  BY DEF UserState
<1>2. [st EXCEPT !.msg.unknown = Append(@, t)] =
          [msg |-> [userid |-> st.msg.userid, username |-> st.msg.username,
                    unknown |-> Append(st.msg.unknown, t)],
           run |-> st.run]
  <2> DEFINE x == Append(st.msg.unknown, t)
  <2>1. [st EXCEPT !.msg.unknown = Append(@, t)] = [st EXCEPT !.msg.unknown = x]
    OBVIOUS
  <2> HIDE DEF x
  <2>2. [st EXCEPT !.msg.unknown = x] =
            [msg |-> [userid |-> st.msg.userid, username |-> st.msg.username,
                      unknown |-> x], run |-> st.run]
    BY DEF UserState, UserRead
  <2> QED
    BY <2>1, <2>2 DEF x
<1> QED
  BY <1>1, <1>2 DEF Uninterpreted, Fails, Taken

LEMMA UserFieldRead ==
    ASSUME NEW st \in UserState, NEW t \in UserField, st.run = "go"
    PROVE  /\ UserFieldParsed(st, t) \in UserState
           /\ Taken(t) => UserFieldParsed(st, t) = [msg |-> UserTakes(st.msg, t), run |-> "go"]
           /\ ~Taken(t) => UserFieldParsed(st, t).run # "go"
<1> DEFINE r == UserFieldParsed(st, t)
<1>1. CASE Known(t, 1, "varint")
  <2>2. t.type # "end" /\ ~Known(t, 2, "bytes")
    BY <1>1 DEF Known
  <2>1. r = IF t.cut = "no" THEN [st EXCEPT !.msg.userid = Given(t.val)] ELSE Fails(st)
    BY <1>1, <2>2 DEF UserFieldParsed
  <2>3. [st EXCEPT !.msg.userid = Given(t.val)] =
            [msg |-> [userid |-> Given(t.val), username |-> st.msg.username,
                      unknown |-> st.msg.unknown],
             run |-> st.run]
    BY DEF UserState, UserRead
  <2>4. Taken(t) => r = [msg |-> UserTakes(st.msg, t), run |-> "go"]
    BY <1>1, <2>1, <2>2, <2>3 DEF Taken, UserTakes
  <2>5. ~Taken(t) => r = [msg |-> st.msg, run |-> "fail"]
    BY <2>1, <2>2 DEF Taken, Fails, UserState
  <2>6. UserTakes(st.msg, t) \in UserRead /\ st.msg \in UserRead
    BY UserTakesType DEF UserState
  <2> HIDE DEF r
  <2>7. r \in UserState /\ (~Taken(t) => r.run # "go")
    BY <2>4, <2>5, <2>6 DEF UserState, Stopped
  <2> QED
    BY <2>4, <2>7 DEF r
<1>2. CASE Known(t, 2, "bytes")
  <2>1. t.type # "end" /\ ~Known(t, 1, "varint")
    BY <1>2 DEF Known
  <2>2. r = [st EXCEPT !.msg.username = ReadString(@, t),
                       !.run = IF t.cut = "no" THEN "go" ELSE "fail"]
    BY <1>2, <2>1 DEF UserFieldParsed
  <2>3. r = [msg |-> [userid |-> st.msg.userid,
                      username |-> ReadString(st.msg.username, t),
                      unknown |-> st.msg.unknown],
             run |-> IF t.cut = "no" THEN "go" ELSE "fail"]
    BY <2>2 DEF UserState, UserRead
  <2>4. t.cut = "no" => ReadString(st.msg.username, t) = Given(t.val)
    BY DEF ReadString, Given
  <2>5. ReadString(st.msg.username, t) \in Opt
    BY DEF ReadString, UserField, UserState, UserRead, Opt, CutAt
  <2>6. Taken(t) => r = [msg |-> UserTakes(st.msg, t), run |-> "go"]
    BY <1>2, <2>1, <2>3, <2>4 DEF Taken, UserTakes
  <2>7. [userid |-> st.msg.userid, username |-> ReadString(st.msg.username, t),
         unknown |-> st.msg.unknown] \in UserRead
    BY <2>5, UserStateIs DEF UserRead
  <2> HIDE DEF r
  <2>8. r \in UserState /\ (~Taken(t) => r.run # "go")
    BY <2>1, <2>3, <2>7 DEF UserState, Stopped, Taken
  <2> QED
    BY <2>6, <2>8 DEF r
<1>3. CASE ~Known(t, 1, "varint") /\ ~Known(t, 2, "bytes")
  <2>1. r = Uninterpreted(st, t)
    BY <1>3 DEF UserFieldParsed
  <2>2. Taken(t) => r = [msg |-> UserTakes(st.msg, t), run |-> "go"]
    BY <1>3, <2>1, UninterpretedUser DEF UserTakes
  <2>3. ~Taken(t) => r = [msg |-> st.msg, run |-> IF t.type = "end" THEN "end" ELSE "fail"]
    BY <2>1, UninterpretedUser DEF Taken
  <2>4. UserTakes(st.msg, t) \in UserRead /\ st.msg \in UserRead
    BY UserTakesType DEF UserState
  <2> HIDE DEF r
  <2>5. r \in UserState /\ (~Taken(t) => r.run # "go")
    BY <2>2, <2>3, <2>4 DEF UserState, Stopped
  <2> QED
    BY <2>2, <2>5 DEF r
<1> QED
  BY <1>1, <1>2, <1>3

UserStepped(st, t) == IF st.run = "go" THEN UserFieldParsed(st, t) ELSE st

LEMMA UserStepType ==
    ASSUME NEW st \in UserState, NEW t \in UserField
    PROVE  UserStepped(st, t) \in UserState
  BY UserFieldRead DEF UserStepped

LEMMA UserParsedRuns ==
    ASSUME NEW u \in UserRead, NEW w \in Seq(UserField)
    PROVE  \E f : /\ f[0] = [msg |-> u, run |-> "go"]
                  /\ \A n \in 1 .. Len(w) : f[n] = UserStepped(f[n - 1], w[n])
                  /\ UserParsed(u, w) = f[Len(w)]
<1> DEFINE N    == Len(w)
           b    == [msg |-> u, run |-> "go"]
           E(f) == f = [n \in 0 .. N |-> IF n = 0 THEN b ELSE UserStepped(f[n - 1], w[n])]
           step == [p \in (1 .. N) \X UserState |-> UserStepped(p[2], w[p[1]])]
<1>1. UserParsed(u, w) = (CHOOSE f : E(f))[N]
  BY DEF UserParsed, UserStepped
<1>2. N \in Nat /\ b \in UserState
  BY DEF UserState, Stopped
<1>3. step \in [(1 .. N) \X UserState -> UserState]
  <2>1. ASSUME NEW p \in (1 .. N) \X UserState PROVE UserStepped(p[2], w[p[1]]) \in UserState
    <3>1. w[p[1]] \in UserField /\ p[2] \in UserState
      OBVIOUS
    <3> QED
      BY <3>1, UserStepType
  <2> QED
    BY <2>1
<1>4. PICK f \in [0 .. N -> UserState] : Iterates(f, N, b, step)
  <2> HIDE DEF N, b, step
  <2> QED
    BY <1>2, <1>3, IteratesExist
<1> HIDE DEF b
<1>5. E(f)
  <2>1. ASSUME NEW n \in 0 .. N
        PROVE  f[n] = IF n = 0 THEN b ELSE UserStepped(f[n - 1], w[n])
    <3>1. n # 0 => n \in 1 .. N /\ n - 1 \in 0 .. N
      OBVIOUS
    <3>2. n # 0 => <<n, f[n - 1]>> \in (1 .. N) \X UserState
      BY <3>1
    <3>3. n # 0 => step[<<n, f[n - 1]>>] = UserStepped(f[n - 1], w[n])
      BY <3>2
    <3> HIDE DEF step
    <3> QED
      BY <1>4, <3>1, <3>3 DEF Iterates
  <2>2. f = [n \in 0 .. N |-> f[n]]
    OBVIOUS
  <2> QED
    BY <2>1, <2>2
<1>6. E(CHOOSE g : E(g))
  BY <1>5, Zenon
<1> DEFINE c == CHOOSE g : E(g)
<1>7. E(c)
  BY <1>6
<1> HIDE DEF c
<1>8. c[0] = b /\ \A n \in 1 .. N : c[n] = UserStepped(c[n - 1], w[n])
  <2>1. ASSUME NEW n \in 0 .. N
        PROVE  c[n] = IF n = 0 THEN b ELSE UserStepped(c[n - 1], w[n])
    BY <1>7, Zenon
  <2>2. 0 \in 0 .. N /\ \A n \in 1 .. N : n \in 0 .. N /\ n # 0
    BY <1>2
  <2> QED
    BY <2>1, <2>2, Zenon
<1> QED
  BY <1>1, <1>8 DEF c, b

LEMMA Greatest ==
    ASSUME NEW N \in Nat, NEW K \in SUBSET (1 .. N), K # {}
    PROVE  \E x \in K : \A y \in K : x >= y
<1> SUFFICES ASSUME \A x \in K : \E y \in K : ~ (x >= y) PROVE FALSE
  OBVIOUS
<1> DEFINE P == {n \in 0 .. N : \A y \in K : y <= N - n}
<1>1. 0 \in P
  OBVIOUS
<1>2. ASSUME NEW n \in 0 .. N, n \in P, n < N PROVE n + 1 \in P
  <2>1. N - n \notin K
    <3>1. \A y \in K : y <= N - n /\ y \in Nat /\ N - n \in Nat
      BY <1>2
    <3> QED
      BY <3>1
  <2>2. ASSUME NEW y \in K PROVE y <= N - (n + 1)
    <3>1. y <= N - n /\ y # N - n /\ y \in Nat
      BY <1>2, <2>1
    <3> QED
      BY <3>1
  <2>3. n + 1 \in 0 .. N
    BY <1>2
  <2> QED
    BY <2>2, <2>3
<1> HIDE DEF P
<1>3. \A n \in 0 .. N : n \in P
  BY <1>1, <1>2, CountsUp
<1>4. \A y \in K : y <= N - N
  <2>1. N \in 0 .. N
    OBVIOUS
  <2> QED
    BY <1>3, <2>1 DEF P
<1>5. PICK y \in K : TRUE
  OBVIOUS
<1>6. y \in 1 .. N /\ y <= N - N
  BY <1>4, <1>5
<1> QED
  BY <1>6

-----------------------------------------------------------------------------
(* What fields say: one more whole field changes it as the parser's step   *)
(* changes the message.                                                    *)

LEMMA FieldsAppend ==
    ASSUME NEW T, NEW w \in Seq(T), NEW t \in T, NEW n, NEW type
    PROVE  Fields(Append(w, t), n, type) =
               Fields(w, n, type) \cup (IF Known(t, n, type) THEN {Len(w) + 1} ELSE {})
<1> DEFINE r == Append(w, t)
<1>1. Len(w) \in Nat /\ DOMAIN w = 1 .. Len(w) /\ DOMAIN r = 1 .. Len(w) + 1
  OBVIOUS
<1>2. r[Len(w) + 1] = t /\ \A i \in 1 .. Len(w) : r[i] = w[i]
  OBVIOUS
<1> HIDE DEF r
<1>3. ASSUME NEW i PROVE i \in DOMAIN r /\ Known(r[i], n, type)
                         <=> \/ i \in DOMAIN w /\ Known(w[i], n, type)
                             \/ i = Len(w) + 1 /\ Known(t, n, type)
  <2>1. i \in DOMAIN r <=> i \in DOMAIN w \/ i = Len(w) + 1
    BY <1>1
  <2>2. i \in DOMAIN w => i # Len(w) + 1 /\ r[i] = w[i]
    BY <1>1, <1>2
  <2> QED
    BY <1>2, <2>1, <2>2
<1> QED
  BY <1>3 DEF Fields, r

LEMMA FieldsInside ==
    ASSUME NEW T, NEW w \in Seq(T), NEW n, NEW type
    PROVE  Fields(w, n, type) \in SUBSET (1 .. Len(w)) /\ Len(w) \in Nat
  BY DEF Fields

LEMMA FieldOfNothing ==
    ASSUME NEW n, NEW type PROVE FieldOf(<<>>, n, type) = Unset
<1>1. Fields(<<>>, n, type) = {}
  BY DEF Fields
<1> QED
  BY <1>1 DEF FieldOf

LEMMA FieldOfAppend ==
    ASSUME NEW T, NEW w \in Seq(T), NEW t \in T, NEW n, NEW type
    PROVE  FieldOf(Append(w, t), n, type) = IF Known(t, n, type) THEN Given(t.val)
                                            ELSE FieldOf(w, n, type)
<1> DEFINE K == Fields(w, n, type)
           J == Fields(Append(w, t), n, type)
<1>1. K \in SUBSET (1 .. Len(w)) /\ Len(w) \in Nat
  BY FieldsInside
<1>2. J = K \cup (IF Known(t, n, type) THEN {Len(w) + 1} ELSE {})
  BY FieldsAppend
<1>3. FieldOf(w, n, type) = IF K = {} THEN Unset ELSE Given(w[Max(K)].val)
  BY DEF FieldOf
<1>4. FieldOf(Append(w, t), n, type) =
          IF J = {} THEN Unset ELSE Given(Append(w, t)[Max(J)].val)
  BY DEF FieldOf
<1> HIDE DEF K, J
<1>5. CASE Known(t, n, type)
  <2>1. J = K \cup {Len(w) + 1}
    BY <1>2, <1>5
  <2>2. Len(w) + 1 \in J /\ \A y \in J : Len(w) + 1 >= y
    BY <1>1, <2>1
  <2>3. \A x \in J : x # Len(w) + 1 => ~ (x >= Len(w) + 1)
    BY <1>1, <2>1
  <2>4. Max(J) = Len(w) + 1
    BY <2>2, <2>3 DEF Max
  <2>5. Append(w, t)[Len(w) + 1] = t
    OBVIOUS
  <2> QED
    BY <1>4, <1>5, <2>2, <2>4, <2>5
<1>6. CASE ~Known(t, n, type)
  <2>1. J = K
    BY <1>2, <1>6
  <2>2. ASSUME K # {} PROVE Append(w, t)[Max(K)] = w[Max(K)]
    <3>1. \E x \in K : \A y \in K : x >= y
      BY <1>1, <2>2, Greatest
    <3>2. Max(K) \in K
      BY <3>1 DEF Max
    <3>3. Max(K) \in 1 .. Len(w)
      BY <1>1, <3>2
    <3>4. \A i \in 1 .. Len(w) : Append(w, t)[i] = w[i]
      OBVIOUS
    <3> QED
      BY <3>3, <3>4
  <2> QED
    BY <1>3, <1>4, <1>6, <2>1, <2>2
<1> QED
  BY <1>5, <1>6

\* The elements that are neither of two fields.
Others(w, m, mtype, n, ntype) ==
    Selected(w, DOMAIN w \ (Fields(w, m, mtype) \cup Fields(w, n, ntype)))

LEMMA OthersAppend ==
    ASSUME NEW T, NEW w \in Seq(T), NEW t \in T, NEW m, NEW mtype, NEW n, NEW ntype
    PROVE  Others(Append(w, t), m, mtype, n, ntype) =
               IF Known(t, m, mtype) \/ Known(t, n, ntype) THEN Others(w, m, mtype, n, ntype)
               ELSE Append(Others(w, m, mtype, n, ntype), t)
<1> DEFINE r == Append(w, t)
           K == DOMAIN w \ (Fields(w, m, mtype) \cup Fields(w, n, ntype))
           J == DOMAIN r \ (Fields(r, m, mtype) \cup Fields(r, n, ntype))
<1>1. Len(w) \in Nat /\ DOMAIN w = 1 .. Len(w) /\ DOMAIN r = 1 .. Len(w) + 1
  OBVIOUS
<1>2. /\ Fields(r, m, mtype) =
             Fields(w, m, mtype) \cup (IF Known(t, m, mtype) THEN {Len(w) + 1} ELSE {})
      /\ Fields(r, n, ntype) =
             Fields(w, n, ntype) \cup (IF Known(t, n, ntype) THEN {Len(w) + 1} ELSE {})
  BY FieldsAppend
<1>3. /\ Fields(w, m, mtype) \in SUBSET (1 .. Len(w))
      /\ Fields(w, n, ntype) \in SUBSET (1 .. Len(w))
  BY FieldsInside
<1>4. \A i \in 1 .. Len(w) : i # Len(w) + 1 /\ i \in DOMAIN w /\ i \in DOMAIN r
  BY <1>1
<1>5. \A i \in 1 .. Len(w) : i \in J <=> i \in K
  BY <1>2, <1>4
<1>6. Len(w) + 1 \in J <=> ~ (Known(t, m, mtype) \/ Known(t, n, ntype))
  <2>1. Len(w) + 1 \notin 1 .. Len(w) /\ Len(w) + 1 \in DOMAIN r
    BY <1>1
  <2> QED
    BY <1>2, <1>3, <2>1
<1>7. /\ Others(w, m, mtype, n, ntype) = Selected(w, K)
      /\ Others(r, m, mtype, n, ntype) = Selected(r, J)
  BY DEF Others
<1> HIDE DEF K, J
<1>8. Selected(r, J) = IF Len(w) + 1 \in J THEN Append(Selected(w, K), t) ELSE Selected(w, K)
  BY <1>5, SelectedAppend
<1> QED
  BY <1>6, <1>7, <1>8

LEMMA UserSaidAppend ==
    ASSUME NEW w \in Seq(UserField), NEW t \in UserField
    PROVE  UserSaid(Append(w, t)) = UserTakes(UserSaid(w), t)
<1>1. \A v : UserSaid(v) = [userid   |-> FieldOf(v, 1, "varint"),
                            username |-> FieldOf(v, 2, "bytes"),
                            unknown  |-> Others(v, 1, "varint", 2, "bytes")]
  BY DEF UserSaid, Others
<1>2. /\ FieldOf(Append(w, t), 1, "varint") =
             IF Known(t, 1, "varint") THEN Given(t.val) ELSE FieldOf(w, 1, "varint")
      /\ FieldOf(Append(w, t), 2, "bytes") =
             IF Known(t, 2, "bytes") THEN Given(t.val) ELSE FieldOf(w, 2, "bytes")
  BY FieldOfAppend
<1>3. Others(Append(w, t), 1, "varint", 2, "bytes") =
          IF Known(t, 1, "varint") \/ Known(t, 2, "bytes")
          THEN Others(w, 1, "varint", 2, "bytes")
          ELSE Append(Others(w, 1, "varint", 2, "bytes"), t)
  BY OthersAppend
<1> QED
  BY <1>1, <1>2, <1>3 DEF UserTakes

LEMMA UserSaidNothing == UserSaid(<<>>) = NoUser /\ NoUser \in UserRead
<1>1. UserSaid(<<>>) = NoUser
  BY FieldOfNothing, SelectedNothing DEF UserSaid, NoUser
<1>2. NoUser \in UserRead
  BY DEF NoUser, UserRead, Unset, Opt
<1> QED
  BY <1>1, <1>2

LEMMA UserParsedNothing ==
    ASSUME NEW u \in UserRead PROVE UserParsed(u, <<>>) = [msg |-> u, run |-> "go"]
<1> DEFINE w == <<>>
<1>1. w \in Seq(UserField) /\ Len(w) = 0
  OBVIOUS
<1> HIDE DEF w
<1>2. PICK f : /\ f[0] = [msg |-> u, run |-> "go"]
               /\ \A n \in 1 .. Len(w) : f[n] = UserStepped(f[n - 1], w[n])
               /\ UserParsed(u, w) = f[Len(w)]
  BY <1>1, UserParsedRuns
<1>3. UserParsed(u, w) = [msg |-> u, run |-> "go"]
  BY <1>1, <1>2
<1> QED
  BY <1>3 DEF w

LEMMA UserParsedAppend ==
    ASSUME NEW u \in UserRead, NEW w \in Seq(UserField), NEW t \in UserField
    PROVE  UserParsed(u, Append(w, t)) = UserStepped(UserParsed(u, w), t)
<1> DEFINE r == Append(w, t)
<1>1. r \in Seq(UserField) /\ Len(r) = Len(w) + 1 /\ Len(w) \in Nat /\ r[Len(w) + 1] = t
      /\ \A n \in 1 .. Len(w) : r[n] = w[n]
  OBVIOUS
<1> HIDE DEF r
<1>2. PICK f : /\ f[0] = [msg |-> u, run |-> "go"]
               /\ \A n \in 1 .. Len(w) : f[n] = UserStepped(f[n - 1], w[n])
               /\ UserParsed(u, w) = f[Len(w)]
  BY UserParsedRuns
<1>3. PICK g : /\ g[0] = [msg |-> u, run |-> "go"]
               /\ \A n \in 1 .. Len(r) : g[n] = UserStepped(g[n - 1], r[n])
               /\ UserParsed(u, r) = g[Len(r)]
  BY <1>1, UserParsedRuns
<1>4. f[0] = g[0]
  BY <1>2, <1>3
<1>5. ASSUME NEW n \in 1 .. Len(w), f[n - 1] = g[n - 1] PROVE f[n] = g[n]
  <2>1. n \in 1 .. Len(r)
    BY <1>1
  <2> QED
    BY <1>1, <1>2, <1>3, <1>5, <2>1
<1>6. \A n \in 0 .. Len(w) : f[n] = g[n]
  <2>1. Agree(f, g, Len(w))
    BY <1>1, <1>4, <1>5, IteratesAgree
  <2> QED
    BY <2>1 DEF Agree
<1>7. Len(r) \in 1 .. Len(r) /\ Len(r) - 1 = Len(w) /\ Len(w) \in 0 .. Len(w)
  BY <1>1
<1>8. g[Len(r)] = UserStepped(g[Len(w)], t)
  BY <1>1, <1>3, <1>7
<1> QED
  BY <1>2, <1>3, <1>6, <1>7, <1>8 DEF r

AllTaken(w) == \A i \in 1 .. Len(w) : Taken(w[i])

LEMMA AllTakenAppend ==
    ASSUME NEW T, NEW w \in Seq(T), NEW t \in T
    PROVE  AllTaken(Append(w, t)) <=> AllTaken(w) /\ Taken(t)
<1> DEFINE r == Append(w, t)
<1>1. /\ Len(w) \in Nat /\ Len(r) = Len(w) + 1 /\ r[Len(w) + 1] = t
      /\ \A i \in 1 .. Len(w) : r[i] = w[i]
  OBVIOUS
<1> HIDE DEF r
<1>2. \A i : i \in 1 .. Len(r) <=> i \in 1 .. Len(w) \/ i = Len(w) + 1
  BY <1>1
<1>3. AllTaken(r) <=> AllTaken(w) /\ Taken(t)
  BY <1>1, <1>2 DEF AllTaken
<1> QED
  BY <1>3 DEF r

\* What a parser makes of the fields of a userinfo.
UserWell(w) ==
    LET r == UserParsed(NoUser, w)
    IN  /\ r \in UserState
        /\ r.run = "go" <=> AllTaken(w)
        /\ AllTaken(w) => r.msg = UserSaid(w)

LEMMA UserReadsWell == \A w \in Seq(UserField) : UserWell(w)
<1> DEFINE Q == {w \in Seq(UserField) : UserWell(w)}
<1>1. <<>> \in Q
  <2>1. UserParsed(NoUser, <<>>) = [msg |-> NoUser, run |-> "go"]
    BY UserParsedNothing, UserSaidNothing
  <2>2. [msg |-> NoUser, run |-> "go"] \in UserState
    BY UserSaidNothing DEF UserState, Stopped
  <2>3. AllTaken(<<>>) /\ <<>> \in Seq(UserField)
    BY DEF AllTaken
  <2> QED
    BY <2>1, <2>2, <2>3, UserSaidNothing DEF UserWell
<1>2. ASSUME NEW w \in Seq(UserField), NEW t \in UserField, w \in Q
      PROVE  Append(w, t) \in Q
  <2> DEFINE r == UserParsed(NoUser, w)
             q == UserParsed(NoUser, Append(w, t))
  <2>1. q = UserStepped(r, t)
    BY UserParsedAppend, UserSaidNothing
  <2>2. /\ r \in UserState /\ (r.run = "go" <=> AllTaken(w))
        /\ (AllTaken(w) => r.msg = UserSaid(w))
    BY <1>2 DEF UserWell
  <2>3. AllTaken(Append(w, t)) <=> AllTaken(w) /\ Taken(t)
    BY AllTakenAppend
  <2>4. Append(w, t) \in Seq(UserField)
    OBVIOUS
  <2> HIDE DEF r, q
  <2>5. q \in UserState
    BY <2>1, <2>2, UserStepType
  <2>6. CASE r.run = "go"
    <3>1. q = UserFieldParsed(r, t)
      BY <2>1, <2>6 DEF UserStepped
    <3>2. /\ Taken(t) => q = [msg |-> UserTakes(r.msg, t), run |-> "go"]
          /\ ~Taken(t) => q.run # "go"
      BY <2>2, <2>6, <3>1, UserFieldRead
    <3>3. UserSaid(Append(w, t)) = UserTakes(r.msg, t)
      BY <2>2, <2>6, UserSaidAppend
    <3>4. /\ q.run = "go" <=> AllTaken(Append(w, t))
          /\ AllTaken(Append(w, t)) => q.msg = UserSaid(Append(w, t))
      BY <2>2, <2>3, <2>6, <3>2, <3>3
    <3> QED
      BY <2>4, <2>5, <3>4 DEF UserWell, q
  <2>7. CASE r.run # "go"
    <3>1. q = r
      BY <2>1, <2>7 DEF UserStepped
    <3>2. q.run # "go" /\ ~AllTaken(Append(w, t))
      BY <2>2, <2>3, <2>7, <3>1
    <3> QED
      BY <2>4, <2>5, <3>2 DEF UserWell, q
  <2> QED
    BY <2>6, <2>7
<1> HIDE DEF Q
<1>3. \A w \in Seq(UserField) : w \in Q
  BY <1>1, <1>2, BySequence
<1> QED
  BY <1>3 DEF Q

\* What a field that is taken does to a focustm.
FocusTakes(m, t) ==
    [msgtype |-> IF Known(t, 1, "bytes") THEN Given(t.val) ELSE m.msgtype,
     ui      |-> IF Known(t, 2, "bytes") THEN Append(m.ui, UserSaid(t.sub)) ELSE m.ui,
     unknown |-> IF Known(t, 1, "bytes") \/ Known(t, 2, "bytes") THEN m.unknown
                 ELSE Append(m.unknown, t)]

\* What the field t, when it is not taken, leaves of a focustm m.
Spares(m, q, t) ==
    /\ q.unknown = m.unknown
    /\ q.msgtype = StringLeft(m.msgtype, t)
    /\ IF Known(t, 2, "bytes") THEN \E x \in UserRead : q.ui = Append(m.ui, x)
                               ELSE q.ui = m.ui

LEMMA WholeIs ==
    ASSUME NEW t \in FocusField
    PROVE  Whole(t) <=> Taken(t) /\ (Known(t, 2, "bytes") => AllTaken(t.sub))
<1>1. DOMAIN t.sub = 1 .. Len(t.sub)
  BY DEF FocusField
<1> QED
  BY <1>1 DEF Whole, Taken, AllTaken

LEMMA FocusStateIs ==
    ASSUME NEW st \in FocusState
    PROVE  /\ st.msg \in FocusRead /\ st.run \in Stopped
           /\ st.msg.msgtype \in Opt /\ st.msg.ui \in Seq(UserRead)
           /\ st.msg.unknown \in Seq(FocusField)
  BY DEF FocusState, FocusRead

LEMMA SubReads ==
    ASSUME NEW t \in FocusField
    PROVE  /\ UserParsed(NoUser, t.sub) \in UserState
           /\ UserParsed(NoUser, t.sub).msg \in UserRead
           /\ UserParsed(NoUser, t.sub).run = "go" <=> AllTaken(t.sub)
           /\ AllTaken(t.sub) => UserParsed(NoUser, t.sub).msg = UserSaid(t.sub)
<1>1. t.sub \in Seq(UserField)
  BY DEF FocusField
<1>2. UserWell(t.sub)
  BY <1>1, UserReadsWell
<1> QED
  BY <1>2 DEF UserWell, UserState

LEMMA UninterpretedFocus ==
    ASSUME NEW st \in FocusState, NEW t \in FocusField
    PROVE  /\ t.type = "end" => Uninterpreted(st, t) = [msg |-> st.msg, run |-> "end"]
           /\ t.type # "end" /\ t.cut # "no"
              => Uninterpreted(st, t) = [msg |-> st.msg, run |-> "fail"]
           /\ Taken(t) => Uninterpreted(st, t) =
                [msg |-> [msgtype |-> st.msg.msgtype, ui |-> st.msg.ui,
                          unknown |-> Append(st.msg.unknown, t)],
                 run |-> st.run]
<1>1. [st EXCEPT !.run = "end"] = [msg |-> st.msg, run |-> "end"]
      /\ [st EXCEPT !.run = "fail"] = [msg |-> st.msg, run |-> "fail"]
  BY DEF FocusState
<1>2. [st EXCEPT !.msg.unknown = Append(@, t)] =
          [msg |-> [msgtype |-> st.msg.msgtype, ui |-> st.msg.ui,
                    unknown |-> Append(st.msg.unknown, t)],
           run |-> st.run]
  <2> DEFINE x == Append(st.msg.unknown, t)
  <2>1. [st EXCEPT !.msg.unknown = Append(@, t)] = [st EXCEPT !.msg.unknown = x]
    OBVIOUS
  <2> HIDE DEF x
  <2>2. [st EXCEPT !.msg.unknown = x] =
            [msg |-> [msgtype |-> st.msg.msgtype, ui |-> st.msg.ui,
                      unknown |-> x], run |-> st.run]
    BY DEF FocusState, FocusRead
  <2> QED
    BY <2>1, <2>2 DEF x
<1> QED
  BY <1>1, <1>2 DEF Uninterpreted, Fails, Taken

LEMMA FocusFieldRead ==
    ASSUME NEW st \in FocusState, NEW t \in FocusField, st.run = "go"
    PROVE  /\ FocusFieldParsed(st, t) \in FocusState
           /\ Whole(t) => FocusFieldParsed(st, t) = [msg |-> FocusTakes(st.msg, t), run |-> "go"]
           /\ ~Whole(t) => /\ FocusFieldParsed(st, t).run # "go"
                           /\ Spares(st.msg, FocusFieldParsed(st, t).msg, t)
<1> DEFINE r == FocusFieldParsed(st, t)
           m == st.msg
<1>0. /\ m \in FocusRead /\ m.msgtype \in Opt /\ m.ui \in Seq(UserRead)
      /\ m.unknown \in Seq(FocusField)
  BY FocusStateIs
<1>1. CASE Known(t, 1, "bytes")
  <2>1. t.type # "end" /\ ~Known(t, 2, "bytes")
    BY <1>1 DEF Known
  <2>2. Whole(t) <=> t.cut = "no"
    BY <2>1, WholeIs DEF Taken
  <2>3. r = [st EXCEPT !.msg.msgtype = ReadString(@, t),
                       !.run = IF t.cut = "no" THEN "go" ELSE "fail"]
    BY <1>1, <2>1 DEF FocusFieldParsed
  <2>4. r = [msg |-> [msgtype |-> ReadString(m.msgtype, t), ui |-> m.ui,
                      unknown |-> m.unknown],
             run |-> IF t.cut = "no" THEN "go" ELSE "fail"]
    BY <2>3 DEF FocusState, FocusRead
  <2>5. /\ t.cut = "no" => ReadString(m.msgtype, t) = Given(t.val)
        /\ t.cut # "no" => ReadString(m.msgtype, t) = StringLeft(m.msgtype, t)
    BY <1>1 DEF ReadString, StringLeft, Given, FocusField, CutAt
  <2>6. ReadString(m.msgtype, t) \in Opt
    BY <1>0 DEF ReadString, FocusField, Opt, CutAt
  <2>7. Whole(t) => r = [msg |-> FocusTakes(m, t), run |-> "go"]
    BY <1>1, <2>1, <2>2, <2>4, <2>5 DEF FocusTakes
  <2>8. [msgtype |-> ReadString(m.msgtype, t), ui |-> m.ui, unknown |-> m.unknown]
        \in FocusRead
    BY <1>0, <2>6 DEF FocusRead
  <2> HIDE DEF r, m
  <2>9. r \in FocusState
    BY <2>4, <2>8 DEF FocusState, Stopped
  <2>10. ~Whole(t) => r.run # "go" /\ Spares(m, r.msg, t)
    BY <2>1, <2>2, <2>4, <2>5 DEF Spares
  <2> QED
    BY <2>7, <2>9, <2>10 DEF r, m
<1>2. CASE Known(t, 2, "bytes")
  <2> DEFINE q == UserParsed(NoUser, t.sub)
  <2>1. t.type # "end" /\ ~Known(t, 1, "bytes")
    BY <1>2 DEF Known
  <2>2. /\ q \in UserState /\ q.msg \in UserRead /\ (q.run = "go" <=> AllTaken(t.sub))
        /\ (AllTaken(t.sub) => q.msg = UserSaid(t.sub))
    BY SubReads
  <2>3. Whole(t) <=> q.run = "go" /\ t.cut = "no"
    BY <1>2, <2>1, <2>2, WholeIs DEF Taken
  <2>4. r = [st EXCEPT !.msg.ui = Append(@, q.msg),
                       !.run = IF q.run = "go" /\ t.cut = "no" THEN "go" ELSE "fail"]
    BY <1>2, <2>1 DEF FocusFieldParsed, ReadMessage
  <2> HIDE DEF q
  <2> DEFINE x == Append(m.ui, q.msg)
  <2>5. r = [st EXCEPT !.msg.ui = x,
                       !.run = IF q.run = "go" /\ t.cut = "no" THEN "go" ELSE "fail"]
    BY <2>4
  <2>6. x \in Seq(UserRead)
    BY <1>0, <2>2
  <2> HIDE DEF x
  <2>7. r = [msg |-> [msgtype |-> m.msgtype, ui |-> x, unknown |-> m.unknown],
             run |-> IF q.run = "go" /\ t.cut = "no" THEN "go" ELSE "fail"]
    BY <2>5 DEF FocusState, FocusRead
  <2>8. Whole(t) => x = Append(m.ui, UserSaid(t.sub))
    BY <2>2, <2>3 DEF x
  <2>9. Whole(t) => r = [msg |-> FocusTakes(m, t), run |-> "go"]
    BY <1>2, <2>1, <2>3, <2>7, <2>8 DEF FocusTakes
  <2>10. [msgtype |-> m.msgtype, ui |-> x, unknown |-> m.unknown] \in FocusRead
    BY <1>0, <2>6 DEF FocusRead
  <2> HIDE DEF r, m
  <2>11. r \in FocusState
    BY <2>7, <2>10 DEF FocusState, Stopped
  <2>12. StringLeft(m.msgtype, t) = m.msgtype
    BY <2>1 DEF StringLeft
  <2>13. ~Whole(t) => r.run # "go" /\ Spares(m, r.msg, t)
    BY <1>2, <2>2, <2>3, <2>7, <2>12 DEF Spares, x
  <2> QED
    BY <2>9, <2>11, <2>13 DEF r, m
<1>3. CASE ~Known(t, 1, "bytes") /\ ~Known(t, 2, "bytes")
  <2>1. r = Uninterpreted(st, t)
    BY <1>3 DEF FocusFieldParsed
  <2>2. Whole(t) <=> Taken(t)
    BY <1>3, WholeIs
  <2>3. Taken(t) => r = [msg |-> FocusTakes(m, t), run |-> "go"]
    BY <1>3, <2>1, UninterpretedFocus DEF FocusTakes
  <2>4. ~Taken(t) => r = [msg |-> m, run |-> IF t.type = "end" THEN "end" ELSE "fail"]
    BY <2>1, UninterpretedFocus DEF Taken
  <2>5. FocusTakes(m, t) \in FocusRead
    <3>1. Append(m.unknown, t) \in Seq(FocusField)
      BY <1>0
    <3> QED
      BY <1>0, <1>3, <3>1 DEF FocusTakes, FocusRead
  <2> HIDE DEF r, m
  <2>6. r \in FocusState
    BY <1>0, <2>3, <2>4, <2>5 DEF FocusState, Stopped
  <2>7. StringLeft(m.msgtype, t) = m.msgtype
    BY <1>3 DEF StringLeft
  <2>8. ~Whole(t) => r.run # "go" /\ Spares(m, r.msg, t)
    BY <1>3, <2>2, <2>4, <2>7 DEF Spares
  <2> QED
    BY <2>2, <2>3, <2>6, <2>8 DEF r, m
<1> QED
  BY <1>1, <1>2, <1>3

FocusStepped(st, t) == IF st.run = "go" THEN FocusFieldParsed(st, t) ELSE st

LEMMA FocusStepType ==
    ASSUME NEW st \in FocusState, NEW t \in FocusField
    PROVE  FocusStepped(st, t) \in FocusState
  BY FocusFieldRead DEF FocusStepped
LEMMA FocusParsedRuns ==
    ASSUME NEW m \in FocusRead, NEW w \in Seq(FocusField)
    PROVE  \E f : /\ f[0] = [msg |-> m, run |-> "go"]
                  /\ \A n \in 1 .. Len(w) : f[n] = FocusStepped(f[n - 1], w[n])
                  /\ FocusParsed(m, w) = f[Len(w)]
<1> DEFINE N    == Len(w)
           b    == [msg |-> m, run |-> "go"]
           E(f) == f = [n \in 0 .. N |-> IF n = 0 THEN b ELSE FocusStepped(f[n - 1], w[n])]
           step == [p \in (1 .. N) \X FocusState |-> FocusStepped(p[2], w[p[1]])]
<1>1. FocusParsed(m, w) = (CHOOSE f : E(f))[N]
  BY DEF FocusParsed, FocusStepped
<1>2. N \in Nat /\ b \in FocusState
  BY DEF FocusState, Stopped
<1>3. step \in [(1 .. N) \X FocusState -> FocusState]
  <2>1. ASSUME NEW p \in (1 .. N) \X FocusState PROVE FocusStepped(p[2], w[p[1]]) \in FocusState
    <3>1. w[p[1]] \in FocusField /\ p[2] \in FocusState
      OBVIOUS
    <3> QED
      BY <3>1, FocusStepType
  <2> QED
    BY <2>1
<1>4. PICK f \in [0 .. N -> FocusState] : Iterates(f, N, b, step)
  <2> HIDE DEF N, b, step
  <2> QED
    BY <1>2, <1>3, IteratesExist
<1> HIDE DEF b
<1>5. E(f)
  <2>1. ASSUME NEW n \in 0 .. N
        PROVE  f[n] = IF n = 0 THEN b ELSE FocusStepped(f[n - 1], w[n])
    <3>1. n # 0 => n \in 1 .. N /\ n - 1 \in 0 .. N
      OBVIOUS
    <3>2. n # 0 => <<n, f[n - 1]>> \in (1 .. N) \X FocusState
      BY <3>1
    <3>3. n # 0 => step[<<n, f[n - 1]>>] = FocusStepped(f[n - 1], w[n])
      BY <3>2
    <3> HIDE DEF step
    <3> QED
      BY <1>4, <3>1, <3>3 DEF Iterates
  <2>2. f = [n \in 0 .. N |-> f[n]]
    OBVIOUS
  <2> QED
    BY <2>1, <2>2
<1>6. E(CHOOSE g : E(g))
  BY <1>5, Zenon
<1> DEFINE c == CHOOSE g : E(g)
<1>7. E(c)
  BY <1>6
<1> HIDE DEF c
<1>8. c[0] = b /\ \A n \in 1 .. N : c[n] = FocusStepped(c[n - 1], w[n])
  <2>1. ASSUME NEW n \in 0 .. N
        PROVE  c[n] = IF n = 0 THEN b ELSE FocusStepped(c[n - 1], w[n])
    BY <1>7, Zenon
  <2>2. 0 \in 0 .. N /\ \A n \in 1 .. N : n \in 0 .. N /\ n # 0
    BY <1>2
  <2> QED
    BY <2>1, <2>2, Zenon
<1> QED
  BY <1>1, <1>8 DEF c, b
LEMMA FocusParsedNothing ==
    ASSUME NEW m \in FocusRead PROVE FocusParsed(m, <<>>) = [msg |-> m, run |-> "go"]
<1> DEFINE w == <<>>
<1>1. w \in Seq(FocusField) /\ Len(w) = 0
  OBVIOUS
<1> HIDE DEF w
<1>2. PICK f : /\ f[0] = [msg |-> m, run |-> "go"]
               /\ \A n \in 1 .. Len(w) : f[n] = FocusStepped(f[n - 1], w[n])
               /\ FocusParsed(m, w) = f[Len(w)]
  BY <1>1, FocusParsedRuns
<1>3. FocusParsed(m, w) = [msg |-> m, run |-> "go"]
  BY <1>1, <1>2
<1> QED
  BY <1>3 DEF w

LEMMA FocusParsedAppend ==
    ASSUME NEW m \in FocusRead, NEW w \in Seq(FocusField), NEW t \in FocusField
    PROVE  FocusParsed(m, Append(w, t)) = FocusStepped(FocusParsed(m, w), t)
<1> DEFINE r == Append(w, t)
<1>1. r \in Seq(FocusField) /\ Len(r) = Len(w) + 1 /\ Len(w) \in Nat /\ r[Len(w) + 1] = t
      /\ \A n \in 1 .. Len(w) : r[n] = w[n]
  OBVIOUS
<1> HIDE DEF r
<1>2. PICK f : /\ f[0] = [msg |-> m, run |-> "go"]
               /\ \A n \in 1 .. Len(w) : f[n] = FocusStepped(f[n - 1], w[n])
               /\ FocusParsed(m, w) = f[Len(w)]
  BY FocusParsedRuns
<1>3. PICK g : /\ g[0] = [msg |-> m, run |-> "go"]
               /\ \A n \in 1 .. Len(r) : g[n] = FocusStepped(g[n - 1], r[n])
               /\ FocusParsed(m, r) = g[Len(r)]
  BY <1>1, FocusParsedRuns
<1>4. f[0] = g[0]
  BY <1>2, <1>3
<1>5. ASSUME NEW n \in 1 .. Len(w), f[n - 1] = g[n - 1] PROVE f[n] = g[n]
  <2>1. n \in 1 .. Len(r)
    BY <1>1
  <2> QED
    BY <1>1, <1>2, <1>3, <1>5, <2>1
<1>6. \A n \in 0 .. Len(w) : f[n] = g[n]
  <2>1. Agree(f, g, Len(w))
    BY <1>1, <1>4, <1>5, IteratesAgree
  <2> QED
    BY <2>1 DEF Agree
<1>7. Len(r) \in 1 .. Len(r) /\ Len(r) - 1 = Len(w) /\ Len(w) \in 0 .. Len(w)
  BY <1>1
<1>8. g[Len(r)] = FocusStepped(g[Len(w)], t)
  BY <1>1, <1>3, <1>7
<1> QED
  BY <1>2, <1>3, <1>6, <1>7, <1>8 DEF r

\* What each of the embedded fields s says.
Embeds(s) == [i \in DOMAIN s |-> UserSaid(s[i].sub)]

LEMMA EmbedsAppend ==
    ASSUME NEW s \in Seq(FocusField), NEW t \in FocusField
    PROVE  /\ Embeds(Append(s, t)) = Append(Embeds(s), UserSaid(t.sub))
           /\ Embeds(s) \in Seq({UserSaid(e.sub) : e \in FocusField})
<1> DEFINE X == {UserSaid(e.sub) : e \in FocusField}
           r == Append(s, t)
           x == UserSaid(t.sub)
<1>1. DOMAIN s = 1 .. Len(s) /\ Len(s) \in Nat /\ DOMAIN r = 1 .. Len(s) + 1
      /\ r[Len(s) + 1] = t /\ \A i \in 1 .. Len(s) : r[i] = s[i] /\ s[i] \in FocusField
  OBVIOUS
<1>2. Embeds(s) = [i \in 1 .. Len(s) |-> UserSaid(s[i].sub)]
  BY <1>1 DEF Embeds
<1>3. x \in X /\ \A i \in 1 .. Len(s) : UserSaid(s[i].sub) \in X
  BY <1>1
<1>4. Embeds(r) = [i \in 1 .. Len(s) + 1 |-> UserSaid(r[i].sub)]
  BY <1>1 DEF Embeds
<1> HIDE DEF r, x, X
<1>5. Embeds(s) \in Seq(X) /\ Len(Embeds(s)) = Len(s)
      /\ \A i \in 1 .. Len(s) : Embeds(s)[i] = UserSaid(s[i].sub)
  BY <1>1, <1>2, <1>3
<1>6. Append(Embeds(s), x) = [i \in 1 .. Len(s) + 1 |-> Append(Embeds(s), x)[i]]
      /\ Append(Embeds(s), x)[Len(s) + 1] = x
      /\ \A i \in 1 .. Len(s) : Append(Embeds(s), x)[i] = UserSaid(s[i].sub)
  <2> DEFINE e == Embeds(s)
  <2>1. e \in Seq(X) /\ Len(e) = Len(s) /\ \A i \in 1 .. Len(s) : e[i] = UserSaid(s[i].sub)
    BY <1>5
  <2> HIDE DEF e
  <2>2. Append(e, x) \in Seq(X) /\ Len(Append(e, x)) = Len(s) + 1
        /\ Append(e, x)[Len(s) + 1] = x /\ \A i \in 1 .. Len(s) : Append(e, x)[i] = e[i]
    BY <1>1, <1>3, <2>1
  <2> DEFINE a == Append(e, x)
  <2>3. a = [i \in 1 .. Len(s) + 1 |-> a[i]]
    <3>1. a \in Seq(X) /\ Len(a) = Len(s) + 1
      BY <2>2
    <3> HIDE DEF a
    <3>2. a = [i \in 1 .. Len(a) |-> a[i]]
      BY <3>1
    <3> QED
      BY <3>1, <3>2
  <2> QED
    BY <2>1, <2>2, <2>3 DEF e
<1>7. ASSUME NEW i \in 1 .. Len(s) + 1
      PROVE  Append(Embeds(s), x)[i] = UserSaid(r[i].sub)
  <2>1. i \in 1 .. Len(s) \/ i = Len(s) + 1
    BY <1>1
  <2>2. CASE i \in 1 .. Len(s)
    <3>1. r[i] = s[i]
      BY <1>1, <2>2
    <3> QED
      BY <1>6, <2>2, <3>1, Zenon
  <2>3. CASE i = Len(s) + 1
    BY <1>1, <1>6, <2>3, Zenon DEF x
  <2> QED
    BY <2>1, <2>2, <2>3
<1>8. Embeds(r) = Append(Embeds(s), x)
  BY <1>4, <1>6, <1>7, Zenon
<1> QED
  BY <1>5, <1>8 DEF r, x, X

LEMMA FocusSaidIs ==
    ASSUME NEW w
    PROVE  FocusSaid(w) = [msgtype |-> FieldOf(w, 1, "bytes"),
                           ui      |-> Embeds(Selected(w, Fields(w, 2, "bytes"))),
                           unknown |-> Others(w, 1, "bytes", 2, "bytes")]
  BY DEF FocusSaid, Embeds, Others

LEMMA FocusSaidNothing == FocusSaid(<<>>) = NoFocus /\ NoFocus \in FocusRead
<1>1. Embeds(<<>>) = <<>>
  BY DEF Embeds
<1>2. FocusSaid(<<>>) = NoFocus
  BY <1>1, FocusSaidIs, FieldOfNothing, SelectedNothing DEF NoFocus, Others
<1>3. NoFocus \in FocusRead
  BY DEF NoFocus, FocusRead, Unset, Opt
<1> QED
  BY <1>2, <1>3

LEMMA FocusSaidSeq ==
    ASSUME NEW w \in Seq(FocusField)
    PROVE  \E X : FocusSaid(w).ui \in Seq(X)
<1> DEFINE s == Selected(w, Fields(w, 2, "bytes"))
<1>1. s \in Seq(FocusField)
  BY SelectedSeq
<1>2. FocusSaid(w).ui = Embeds(s)
  BY FocusSaidIs
<1> HIDE DEF s
<1>3. PICK t : t \in FocusField
  <2>1. [num |-> 0, type |-> "end", val |-> 0, sub |-> <<>>, len |-> 0, cut |-> "no"]
        \in FocusField
    BY DEF FocusField, TypesOf, CutAt
  <2> QED
    BY <2>1
<1>4. Embeds(s) \in Seq({UserSaid(e.sub) : e \in FocusField})
  BY <1>1, <1>3, EmbedsAppend
<1> QED
  BY <1>2, <1>4

LEMMA FocusSaidAppend ==
    ASSUME NEW w \in Seq(FocusField), NEW t \in FocusField
    PROVE  FocusSaid(Append(w, t)) = FocusTakes(FocusSaid(w), t)
<1> DEFINE r == Append(w, t)
           K == Fields(w, 2, "bytes")
           J == Fields(r, 2, "bytes")
<1>1. FieldOf(r, 1, "bytes") =
          IF Known(t, 1, "bytes") THEN Given(t.val) ELSE FieldOf(w, 1, "bytes")
  BY FieldOfAppend
<1>2. Others(r, 1, "bytes", 2, "bytes") =
          IF Known(t, 1, "bytes") \/ Known(t, 2, "bytes")
          THEN Others(w, 1, "bytes", 2, "bytes")
          ELSE Append(Others(w, 1, "bytes", 2, "bytes"), t)
  BY OthersAppend
<1>3. J = K \cup (IF Known(t, 2, "bytes") THEN {Len(w) + 1} ELSE {})
  BY FieldsAppend
<1>4. K \in SUBSET (1 .. Len(w)) /\ Len(w) \in Nat
  BY FieldsInside
<1>5. Selected(w, K) \in Seq(FocusField)
  BY SelectedSeq
<1>6. /\ FocusSaid(w).ui = Embeds(Selected(w, K))
      /\ FocusSaid(r).ui = Embeds(Selected(r, J))
  BY FocusSaidIs
<1> HIDE DEF K, J
<1>7. /\ \A n \in 1 .. Len(w) : n \in J <=> n \in K
      /\ Len(w) + 1 \in J <=> Known(t, 2, "bytes")
  BY <1>3, <1>4
<1>8. Selected(r, J) = IF Len(w) + 1 \in J THEN Append(Selected(w, K), t) ELSE Selected(w, K)
  BY <1>7, SelectedAppend
<1>9. FocusSaid(r).ui = IF Known(t, 2, "bytes")
                        THEN Append(FocusSaid(w).ui, UserSaid(t.sub)) ELSE FocusSaid(w).ui
  <2> DEFINE s == Selected(w, K)
  <2>1. Embeds(Append(s, t)) = Append(Embeds(s), UserSaid(t.sub))
    BY <1>5, EmbedsAppend
  <2> HIDE DEF s
  <2>2. Selected(r, J) = IF Known(t, 2, "bytes") THEN Append(s, t) ELSE s
    BY <1>7, <1>8 DEF s
  <2> QED
    BY <1>6, <2>1, <2>2 DEF s
<1> HIDE DEF r
<1>10. /\ FocusSaid(r) = [msgtype |-> FieldOf(r, 1, "bytes"), ui |-> FocusSaid(r).ui,
                          unknown |-> Others(r, 1, "bytes", 2, "bytes")]
       /\ FocusSaid(w).msgtype = FieldOf(w, 1, "bytes")
       /\ FocusSaid(w).unknown = Others(w, 1, "bytes", 2, "bytes")
  BY FocusSaidIs
<1>11. FocusSaid(r) = FocusTakes(FocusSaid(w), t)
  BY <1>1, <1>2, <1>9, <1>10 DEF FocusTakes
<1> QED
  BY <1>11 DEF r

-----------------------------------------------------------------------------
(* The fields up to the first that is not whole.                           *)

\* A set of places that is not empty has a first one.
LEMMA Least ==
    ASSUME NEW N \in Nat, NEW K \in SUBSET (1 .. N), K # {}
    PROVE  \E x \in K : \A y \in K : x <= y
<1> SUFFICES ASSUME \A x \in K : \E y \in K : ~ (x <= y) PROVE FALSE
  OBVIOUS
<1> DEFINE P == {n \in 0 .. N : \A y \in K : y > n}
<1>1. 0 \in P
  OBVIOUS
<1>2. ASSUME NEW n \in 0 .. N, n \in P, n < N PROVE n + 1 \in P
  <2>1. n + 1 \notin K
    <3>1. \A y \in K : y > n /\ y \in Nat /\ n \in Nat
      BY <1>2
    <3> QED
      BY <3>1
  <2>2. ASSUME NEW y \in K PROVE y > n + 1
    <3>1. y > n /\ y # n + 1 /\ y \in Nat /\ n \in Nat
      BY <1>2, <2>1
    <3> QED
      BY <3>1
  <2>3. n + 1 \in 0 .. N
    BY <1>2
  <2> QED
    BY <2>2, <2>3
<1> HIDE DEF P
<1>3. \A n \in 0 .. N : n \in P
  BY <1>1, <1>2, CountsUp
<1>4. \A y \in K : y > N
  <2>1. N \in 0 .. N
    OBVIOUS
  <2> QED
    BY <1>3, <2>1 DEF P
<1>5. PICK y \in K : TRUE
  OBVIOUS
<1>6. y \in 1 .. N /\ y > N
  BY <1>4, <1>5
<1> QED
  BY <1>6

AllWhole(w) == \A i \in 1 .. Len(w) : Whole(w[i])

LEMMA FirstOf ==
    ASSUME NEW N \in Nat, NEW K \in SUBSET (1 .. N), K # {}
    PROVE  FirstIn(K) \in K /\ FirstIn(K) \in 1 .. N /\ \A j \in K : FirstIn(K) <= j
<1>1. \E x \in K : \A y \in K : x <= y
  BY Least
<1>2. FirstIn(K) \in K /\ \A j \in K : FirstIn(K) <= j
  BY <1>1 DEF FirstIn
<1> QED
  BY <1>2

LEMMA WholePartIs ==
    ASSUME NEW w \in Seq(FocusField)
    PROVE  /\ NotWhole(w) \in SUBSET (1 .. Len(w)) /\ Len(w) \in Nat
           /\ NotWhole(w) = {} <=> AllWhole(w)
           /\ WholePart(w) = IF NotWhole(w) = {} THEN w
                             ELSE SubSeq(w, 1, FirstIn(NotWhole(w)) - 1)
           /\ StopIn(w) = IF NotWhole(w) = {} THEN NoStop ELSE w[FirstIn(NotWhole(w))]
<1>1. DOMAIN w = 1 .. Len(w) /\ Len(w) \in Nat
  OBVIOUS
<1>2. NotWhole(w) \in SUBSET (1 .. Len(w)) /\ (NotWhole(w) = {} <=> AllWhole(w))
  BY <1>1 DEF NotWhole, AllWhole
<1> QED
  BY <1>1, <1>2 DEF WholePart, StopIn

LEMMA StopIsAField ==
    NoStop \in FocusField /\ \A w \in Seq(FocusField) : StopIn(w) \in FocusField
<1>1. NoStop \in FocusField
  <2>1. <<>> \in Seq(UserField)
    OBVIOUS
  <2> QED
    BY <2>1 DEF NoStop, Varint, FocusField, TypesOf, CutAt
<1>2. ASSUME NEW w \in Seq(FocusField) PROVE StopIn(w) \in FocusField
  <2> DEFINE K == NotWhole(w)
  <2>1. /\ K \in SUBSET (1 .. Len(w)) /\ Len(w) \in Nat
        /\ StopIn(w) = IF K = {} THEN NoStop ELSE w[FirstIn(K)]
    BY WholePartIs
  <2> HIDE DEF K
  <2>2. K # {} => FirstIn(K) \in 1 .. Len(w)
    BY <2>1, FirstOf
  <2>3. \A i \in 1 .. Len(w) : w[i] \in FocusField
    OBVIOUS
  <2> QED
    BY <1>1, <2>1, <2>2, <2>3
<1> QED
  BY <1>1, <1>2

LEMMA WholePartAppend ==
    ASSUME NEW w \in Seq(FocusField), NEW t \in FocusField
    PROVE  /\ AllWhole(Append(w, t)) <=> AllWhole(w) /\ Whole(t)
           /\ AllWhole(w) /\ Whole(t) => WholePart(Append(w, t)) = Append(w, t)
           /\ AllWhole(w) /\ ~Whole(t) => /\ WholePart(Append(w, t)) = w
                                           /\ StopIn(Append(w, t)) = t
           /\ ~AllWhole(w) => /\ WholePart(Append(w, t)) = WholePart(w)
                              /\ StopIn(Append(w, t)) = StopIn(w)
<1> DEFINE r == Append(w, t)
           K == NotWhole(w)
           J == NotWhole(r)
<1>1. /\ r \in Seq(FocusField) /\ Len(r) = Len(w) + 1 /\ Len(w) \in Nat /\ r[Len(w) + 1] = t
      /\ \A i \in 1 .. Len(w) : r[i] = w[i]
  OBVIOUS
<1>2. /\ \A k \in 0 .. Len(w) : SubSeq(r, 1, k) = SubSeq(w, 1, k)
      /\ SubSeq(r, 1, Len(w)) = w
  OBVIOUS
<1> HIDE DEF r
<1>3. /\ K \in SUBSET (1 .. Len(w)) /\ (K = {} <=> AllWhole(w))
      /\ WholePart(w) = IF K = {} THEN w ELSE SubSeq(w, 1, FirstIn(K) - 1)
      /\ StopIn(w) = IF K = {} THEN NoStop ELSE w[FirstIn(K)]
  BY WholePartIs
<1>4. /\ J \in SUBSET (1 .. Len(r)) /\ (J = {} <=> AllWhole(r))
      /\ WholePart(r) = IF J = {} THEN r ELSE SubSeq(r, 1, FirstIn(J) - 1)
      /\ StopIn(r) = IF J = {} THEN NoStop ELSE r[FirstIn(J)]
  BY <1>1, WholePartIs
<1>5. ASSUME NEW i PROVE i \in J <=> i \in K \/ (i = Len(w) + 1 /\ ~Whole(t))
  <2>1. DOMAIN w = 1 .. Len(w) /\ DOMAIN r = 1 .. Len(w) + 1
    BY <1>1
  <2>2. i \in DOMAIN r <=> i \in DOMAIN w \/ i = Len(w) + 1
    BY <1>1, <2>1
  <2>3. i \in DOMAIN w => i # Len(w) + 1 /\ r[i] = w[i]
    BY <1>1, <2>1
  <2>4. /\ i \in J <=> i \in DOMAIN r /\ ~Whole(r[i])
        /\ i \in K <=> i \in DOMAIN w /\ ~Whole(w[i])
    BY Zenon DEF NotWhole
  <2> HIDE DEF K, J
  <2>5. r[Len(w) + 1] = t
    BY <1>1
  <2> QED
    BY <2>2, <2>3, <2>4, <2>5, Zenon
<1> HIDE DEF K, J
<1>6. AllWhole(r) <=> AllWhole(w) /\ Whole(t)
  <2>1. /\ J = {} <=> \A i : i \notin J
        /\ K = {} <=> \A i : i \notin K
    OBVIOUS
  <2> QED
    BY <1>3, <1>4, <1>5, <2>1, Zenon
<1>7. AllWhole(w) /\ Whole(t) => WholePart(r) = r
  BY <1>4, <1>6
<1>8. ASSUME AllWhole(w), ~Whole(t) PROVE WholePart(r) = w /\ StopIn(r) = t
  <2>1. \A i : i \in J <=> i = Len(w) + 1
    BY <1>3, <1>5, <1>8
  <2>2. J # {}
    BY <2>1
  <2>3. FirstIn(J) \in J
    BY <1>1, <1>4, <2>2, FirstOf
  <2>4. FirstIn(J) = Len(w) + 1 /\ FirstIn(J) - 1 = Len(w)
    BY <1>1, <2>1, <2>3
  <2>5. StopIn(r) = t
    BY <1>1, <1>4, <2>2, <2>4
  <2> QED
    BY <1>2, <1>4, <2>2, <2>4, <2>5
<1>9. ASSUME ~AllWhole(w)
      PROVE  WholePart(r) = WholePart(w) /\ StopIn(r) = StopIn(w)
  <2>1. K # {} /\ J # {}
    <3>1. K # {}
      BY <1>3, <1>9
    <3>2. PICK i : i \in K
      BY <3>1
    <3>3. i \in J
      BY <1>5, <3>2
    <3> QED
      BY <3>1, <3>3
  <2>2. FirstIn(K) \in K /\ FirstIn(K) \in 1 .. Len(w) /\ \A j \in K : FirstIn(K) <= j
    BY <1>1, <1>3, <2>1, FirstOf
  <2>3. FirstIn(J) \in J /\ FirstIn(J) \in 1 .. Len(r) /\ \A j \in J : FirstIn(J) <= j
    BY <1>1, <1>4, <2>1, FirstOf
  <2>4. FirstIn(J) <= FirstIn(K)
    BY <1>5, <2>2, <2>3
  <2>5. FirstIn(J) # Len(w) + 1
    BY <1>1, <2>2, <2>4
  <2>6. FirstIn(J) \in K
    BY <1>5, <2>3, <2>5
  <2>7. FirstIn(K) <= FirstIn(J)
    BY <2>2, <2>6
  <2>8. FirstIn(J) = FirstIn(K)
    BY <1>1, <2>2, <2>3, <2>4, <2>7
  <2>9. FirstIn(K) - 1 \in 0 .. Len(w)
    BY <1>1, <2>2
  <2>10. StopIn(r) = StopIn(w)
    BY <1>1, <1>3, <1>4, <2>1, <2>2, <2>8
  <2> QED
    BY <1>2, <1>3, <1>4, <2>1, <2>8, <2>9, <2>10
<1> QED
  BY <1>6, <1>7, <1>8, <1>9 DEF r

\* What parsing w makes of a message that is what v says.
FocusWell(v, w) ==
    LET r == FocusParsed(FocusSaid(v), w)
        p == WholePart(w)
    IN  /\ r \in FocusState /\ p \in Seq(FocusField)
        /\ r.run = "go" <=> AllWhole(w)
        /\ AllWhole(w) => p = w /\ r.msg = FocusSaid(v \o w)
        /\ ~AllWhole(w) => Spares(FocusSaid(v \o p), r.msg, StopIn(w))

LEMMA FocusReadsWell ==
    ASSUME NEW v \in Seq(FocusField), FocusSaid(v) \in FocusRead
    PROVE  \A w \in Seq(FocusField) : FocusWell(v, w)
<1> DEFINE Q == {w \in Seq(FocusField) : FocusWell(v, w)}
           m == FocusSaid(v)
<1>1. <<>> \in Q
  <2>1. FocusParsed(m, <<>>) = [msg |-> m, run |-> "go"]
    BY FocusParsedNothing
  <2>2. [msg |-> m, run |-> "go"] \in FocusState
    BY DEF FocusState, Stopped
  <2>3. AllWhole(<<>>) /\ <<>> \in Seq(FocusField)
    BY DEF AllWhole
  <2>4. WholePart(<<>>) = <<>>
    <3>1. NotWhole(<<>>) = {}
      BY DEF NotWhole
    <3> QED
      BY <2>3, <3>1, WholePartIs
  <2>5. v \o <<>> = v
    OBVIOUS
  <2> DEFINE x == <<>>
             q == FocusParsed(m, x)
             o == WholePart(x)
  <2>6. /\ q = [msg |-> m, run |-> "go"] /\ q \in FocusState /\ AllWhole(x)
        /\ o = x /\ x \in Seq(FocusField) /\ v \o x = v
    BY <2>1, <2>2, <2>3, <2>4, <2>5
  <2> HIDE DEF x, q, o, m
  <2>7. q.run = "go" /\ q.msg = m
    BY <2>6
  <2>8. FocusWell(v, x)
    BY <2>6, <2>7 DEF FocusWell, q, o, m
  <2> QED
    BY <2>6, <2>8 DEF x
<1>2. ASSUME NEW w \in Seq(FocusField), NEW t \in FocusField, w \in Q
      PROVE  Append(w, t) \in Q
  <2> DEFINE x == Append(w, t)
             r == FocusParsed(m, w)
             q == FocusParsed(m, x)
             p == WholePart(w)
             o == WholePart(x)
  <2>1. q = FocusStepped(r, t)
    BY FocusParsedAppend
  <2>2. /\ r \in FocusState /\ p \in Seq(FocusField) /\ (r.run = "go" <=> AllWhole(w))
        /\ (AllWhole(w) => p = w /\ r.msg = FocusSaid(v \o w))
        /\ (~AllWhole(w) => Spares(FocusSaid(v \o p), r.msg, StopIn(w)))
    BY <1>2 DEF FocusWell
  <2>3. /\ AllWhole(x) <=> AllWhole(w) /\ Whole(t)
        /\ AllWhole(w) /\ Whole(t) => o = x
        /\ AllWhole(w) /\ ~Whole(t) => o = w /\ StopIn(x) = t
        /\ ~AllWhole(w) => o = p /\ StopIn(x) = StopIn(w)
    BY WholePartAppend
  <2>4. x \in Seq(FocusField) /\ v \o x = Append(v \o w, t) /\ v \o w \in Seq(FocusField)
    OBVIOUS
  <2> HIDE DEF r, q, p, o, x
  <2>5. q \in FocusState
    BY <2>1, <2>2, FocusStepType
  <2>6. o \in Seq(FocusField)
    BY <2>2, <2>3, <2>4
  <2>7. ASSUME AllWhole(w)
        PROVE  /\ q.run = "go" <=> AllWhole(x)
               /\ AllWhole(x) => o = x /\ q.msg = FocusSaid(v \o x)
               /\ ~AllWhole(x) => Spares(FocusSaid(v \o o), q.msg, StopIn(x))
    <3>1. r.run = "go" /\ r.msg = FocusSaid(v \o w)
      BY <2>2, <2>7
    <3>2. q = FocusFieldParsed(r, t)
      BY <2>1, <3>1 DEF FocusStepped
    <3>3. /\ Whole(t) => q = [msg |-> FocusTakes(r.msg, t), run |-> "go"]
          /\ ~Whole(t) => q.run # "go" /\ Spares(r.msg, q.msg, t)
      BY <2>2, <3>1, <3>2, FocusFieldRead
    <3>4. FocusSaid(v \o x) = FocusTakes(r.msg, t)
      BY <2>4, <3>1, FocusSaidAppend
    <3>5. CASE Whole(t)
      <4>1. AllWhole(x) /\ o = x
        BY <2>3, <2>7, <3>5
      <4>2. q = [msg |-> FocusTakes(r.msg, t), run |-> "go"]
        BY <3>3, <3>5
      <4> QED
        BY <3>4, <4>1, <4>2
    <3>6. CASE ~Whole(t)
      <4>1. ~AllWhole(x) /\ o = w /\ StopIn(x) = t
        BY <2>3, <2>7, <3>6
      <4>2. q.run # "go" /\ Spares(FocusSaid(v \o w), q.msg, t)
        BY <3>1, <3>3, <3>6
      <4> QED
        BY <4>1, <4>2
    <3> QED
      BY <3>5, <3>6
  <2>8. ASSUME ~AllWhole(w)
        PROVE  /\ q.run # "go" /\ ~AllWhole(x)
               /\ Spares(FocusSaid(v \o o), q.msg, StopIn(x))
    <3>1. r.run # "go" /\ o = p /\ ~AllWhole(x) /\ StopIn(x) = StopIn(w)
      BY <2>2, <2>3, <2>8
    <3>2. q = r
      BY <2>1, <3>1 DEF FocusStepped
    <3> QED
      BY <2>2, <2>8, <3>1, <3>2
  <2>9. FocusWell(v, x)
    BY <2>5, <2>6, <2>7, <2>8 DEF FocusWell, q, o
  <2> QED
    BY <2>4, <2>9 DEF x
<1> HIDE DEF Q
<1>3. \A w \in Seq(FocusField) : w \in Q
  BY <1>1, <1>2, BySequence
<1> QED
  BY <1>3 DEF Q

-----------------------------------------------------------------------------
(* The inputs are fields, whatever the numbers they are built from.        *)

LEMMA VarintSizeNat == \A v : VarintSize(v) \in Nat
<1> SUFFICES ASSUME NEW v PROVE VarintSize(v) \in Nat
  OBVIOUS
<1> DEFINE S == {k \in 1 .. 4 : v >= 128 ^ k}
<1>1. IsFiniteSet(1 .. 4)
  <2>1. 1 \in Int /\ 4 \in Int
    OBVIOUS
  <2> QED
    BY <2>1, FS_Interval
<1>2. IsFiniteSet(S)
  BY <1>1, FS_Subset
<1>3. Cardinality(S) \in Nat
  BY <1>2, FS_CardinalityType
<1> HIDE DEF S
<1>4. 1 + Cardinality(S) \in Nat
  BY <1>3
<1> QED
  BY <1>4 DEF VarintSize, S

LEMMA FieldSizeNat == ASSUME NEW t, t.val \in Nat PROVE FieldSize(t) \in Nat
<1>1. VarintSize(t.val) \in Nat
  BY VarintSizeNat
<1>2. StringSize(t.val) \in Nat
  BY <1>1 DEF StringSize
<1> QED
  BY <1>1, <1>2 DEF FieldSize

LEMMA WireSizeNat ==
    ASSUME NEW w \in Seq(UserField)
    PROVE  WireSize(w) \in Nat
<1>1. DOMAIN w = 1 .. Len(w) /\ Len(w) \in Nat
  OBVIOUS
<1>2. \A i \in 1 .. Len(w) : FieldSize(w[i]) \in Nat
  <2>1. ASSUME NEW i \in 1 .. Len(w) PROVE w[i].val \in Nat
    <3>1. w[i] \in UserField
      OBVIOUS
    <3> QED
      BY <3>1 DEF UserField
  <2> QED
    BY <2>1, FieldSizeNat
<1>3. [i \in DOMAIN w |-> FieldSize(w[i])] \in Seq(Nat)
  BY <1>1, <1>2
<1> QED
  BY <1>3, TotalNat DEF WireSize

LEMMA EmbeddedIs ==
    ASSUME NEW n, NEW w, NEW l
    PROVE  Embedded(n, w, l) = [num |-> n, type |-> "bytes", val |-> 0, sub |-> w,
                                len |-> l, cut |-> "no"]
<1>1. Bytes(n, 0) = [num |-> n, type |-> "bytes", val |-> 0, sub |-> <<>>,
                     len |-> 0, cut |-> "no"]
  BY DEF Bytes, Varint
<1> DEFINE b == Bytes(n, 0)
           e == [b EXCEPT !.sub = w]
<1>2. Embedded(n, w, l) = [e EXCEPT !.len = l]
  BY DEF Embedded
<1>3. b = [num |-> n, type |-> "bytes", val |-> 0, sub |-> <<>>, len |-> 0, cut |-> "no"]
  BY <1>1
<1> HIDE DEF b
<1>4. e = [num |-> n, type |-> "bytes", val |-> 0, sub |-> w, len |-> 0, cut |-> "no"]
  BY <1>3
<1> HIDE DEF e
<1>5. [e EXCEPT !.len = l] =
          [num |-> n, type |-> "bytes", val |-> 0, sub |-> w, len |-> l, cut |-> "no"]
  BY <1>4
<1> QED
  BY <1>2, <1>5

LEMMA FieldTypes ==
    /\ \A n, v \in Nat : /\ Varint(n, v) \in UserField /\ Bytes(n, v) \in UserField
                         /\ Varint(n, v) \in FocusField /\ Bytes(n, v) \in FocusField
    /\ EndGroup \in UserField /\ EndGroup \in FocusField
    /\ \A n, l \in Nat : \A w \in Seq(UserField) : Embedded(n, w, l) \in FocusField
    /\ \A t \in UserField : \A c \in CutAt : Cut(t, c) \in UserField
    /\ \A t \in FocusField : \A c \in CutAt : Cut(t, c) \in FocusField
<1>1. ASSUME NEW n \in Nat, NEW v \in Nat
      PROVE  /\ Varint(n, v) \in UserField /\ Bytes(n, v) \in UserField
             /\ Varint(n, v) \in FocusField /\ Bytes(n, v) \in FocusField
  <2>1. Bytes(n, v) = [num |-> n, type |-> "bytes", val |-> v, sub |-> <<>>,
                       len |-> 0, cut |-> "no"]
    BY DEF Bytes, Varint
  <2> QED
    BY <2>1 DEF Varint, UserField, FocusField, TypesOf, CutAt
<1>2. EndGroup \in UserField /\ EndGroup \in FocusField
  <2>1. EndGroup = [num |-> 1, type |-> "end", val |-> 0, sub |-> <<>>,
                    len |-> 0, cut |-> "no"]
    BY DEF EndGroup, Varint
  <2> QED
    BY <2>1 DEF UserField, FocusField, TypesOf, CutAt
<1>3. ASSUME NEW n \in Nat, NEW l \in Nat, NEW w \in Seq(UserField)
      PROVE  Embedded(n, w, l) \in FocusField
  BY EmbeddedIs DEF FocusField, TypesOf, CutAt
<1>4. ASSUME NEW t \in UserField, NEW c \in CutAt PROVE Cut(t, c) \in UserField
  BY DEF Cut, UserField
<1>5. ASSUME NEW t \in FocusField, NEW c \in CutAt PROVE Cut(t, c) \in FocusField
  BY DEF Cut, FocusField
<1> QED
  BY <1>1, <1>2, <1>3, <1>4, <1>5

LEMMA InputsAreFields == \A i \in DOMAIN Inputs : Inputs[i] \in Seq(FocusField)
<1>1. UserWires \in Seq(Seq(UserField))
  <2> DEFINE v1 == Varint(1, 300)
             v0 == Varint(1, 0)
             v2 == Varint(2, 1)
             b1 == Bytes(1, 1)
             b2 == Bytes(2, 1)
             b130 == Bytes(2, 130)
             c1 == Cut(v0, "body")
             c2 == Cut(b2, "body")
  <2>1. /\ v1 \in UserField /\ v0 \in UserField /\ v2 \in UserField /\ b1 \in UserField
        /\ b2 \in UserField /\ b130 \in UserField /\ EndGroup \in UserField
    BY FieldTypes
  <2>2. c1 \in UserField /\ c2 \in UserField
    BY <2>1, FieldTypes DEF CutAt
  <2>3. UserWires = << <<>>, <<v1, b130, v0>>, <<b2, b1, v2>>, <<v1, EndGroup>>,
                       <<v1, c1>>, <<b130, c2>> >>
    BY DEF UserWires
  <2> HIDE DEF v1, v0, v2, b1, b2, b130, c1, c2
  <2> QED
    BY <2>1, <2>2, <2>3
<1>2. WholeFields \in Seq(FocusField)
  <2> DEFINE e == [i \in DOMAIN UserWires |->
                      Embedded(2, UserWires[i], WireSize(UserWires[i]))]
             b0 == Bytes(1, 0)
             b130 == Bytes(1, 130)
             v1 == Varint(1, 1)
             v2 == Varint(2, 1)
             b3 == Bytes(3, 1)
             s == <<b0, b130, v1, v2, b3, EndGroup>>
  <2>1. WholeFields = s \o e
    BY DEF WholeFields
  <2>2. \A i \in DOMAIN UserWires : UserWires[i] \in Seq(UserField)
    BY <1>1
  <2>3. \A i \in DOMAIN UserWires :
            Embedded(2, UserWires[i], WireSize(UserWires[i])) \in FocusField
    BY <2>2, WireSizeNat, FieldTypes
  <2>4. DOMAIN UserWires = 1 .. Len(UserWires) /\ Len(UserWires) \in Nat
    BY <1>1
  <2>5. e \in Seq(FocusField)
    BY <2>3, <2>4
  <2>6. /\ b0 \in FocusField /\ b130 \in FocusField /\ v1 \in FocusField
        /\ v2 \in FocusField /\ b3 \in FocusField /\ EndGroup \in FocusField
    BY FieldTypes
  <2> HIDE DEF b0, b130, v1, v2, b3, e
  <2>7. s \in Seq(FocusField)
    BY <2>6
  <2> HIDE DEF s
  <2> QED
    BY <2>1, <2>5, <2>7
<1>3. CutFields \in Seq(FocusField)
  <2> DEFINE b1 == Bytes(1, 1)
             m2 == Embedded(2, <<>>, 0)
             v3 == Varint(3, 1)
             c1 == Cut(b1, "length")
             c2 == Cut(b1, "body")
             c3 == Cut(m2, "length")
             c4 == Cut(v3, "body")
  <2>1. b1 \in FocusField /\ m2 \in FocusField /\ v3 \in FocusField
    <3>1. <<>> \in Seq(UserField) /\ 0 \in Nat /\ 1 \in Nat /\ 2 \in Nat /\ 3 \in Nat
      OBVIOUS
    <3> QED
      BY <3>1, FieldTypes
  <2>2. CutFields = <<c1, c2, c3, c4>>
    BY DEF CutFields
  <2> HIDE DEF b1, m2, v3
  <2>3. c1 \in FocusField /\ c2 \in FocusField /\ c3 \in FocusField /\ c4 \in FocusField
    BY <2>1, FieldTypes DEF CutAt
  <2> HIDE DEF c1, c2, c3, c4
  <2> QED
    BY <2>2, <2>3
<1>4. LastFields \in Seq(FocusField)
  BY <1>2, <1>3 DEF LastFields
<1> DEFINE W == WholeFields
           L == LastFields
           one == [i \in DOMAIN L |-> <<L[i]>>]
           two == [k \in 1 .. Len(W) * Len(L) |->
                      <<W[((k - 1) \div Len(L)) + 1], L[((k - 1) % Len(L)) + 1]>>]
<1>5. Inputs = <<<<>>>> \o one \o two
  BY DEF Inputs
<1>6. W \in Seq(FocusField) /\ L \in Seq(FocusField)
  BY <1>2, <1>4
<1> HIDE DEF W, L
<1>7. one \in Seq(Seq(FocusField))
  <2>1. DOMAIN L = 1 .. Len(L) /\ Len(L) \in Nat /\ \A i \in 1 .. Len(L) : L[i] \in FocusField
    BY <1>6
  <2>2. \A i \in 1 .. Len(L) : <<L[i]>> \in Seq(FocusField)
    BY <2>1
  <2> QED
    BY <2>1, <2>2
<1>8. two \in Seq(Seq(FocusField))
  <2> DEFINE a == Len(W)
             b == Len(L)
  <2>1. a \in Nat /\ b \in Nat /\ a * b \in Nat
    BY <1>6
  <2>2. /\ \A i \in 1 .. a : W[i] \in FocusField
        /\ \A i \in 1 .. b : L[i] \in FocusField
    BY <1>6
  <2> HIDE DEF a, b
  <2>3. ASSUME NEW k \in 1 .. a * b
        PROVE  ((k - 1) \div b) + 1 \in 1 .. a /\ ((k - 1) % b) + 1 \in 1 .. b
    <3>1. b # 0
      BY <2>1
    <3> DEFINE q == (k - 1) \div b
               r == (k - 1) % b
    <3>2. k - 1 \in Nat /\ b \in Nat \ {0} /\ k - 1 < a * b
      BY <2>1, <3>1
    <3>3. q \in Nat /\ r \in 0 .. b - 1 /\ k - 1 = b * q + r
      BY <3>2
    <3> HIDE DEF q, r
    <3>4. q < a
      <4> SUFFICES ASSUME ~ (q < a) PROVE FALSE
        OBVIOUS
      <4>1. q - a \in Nat
        BY <2>1, <3>3
      <4> DEFINE d == q - a
      <4>2. q = a + d /\ d \in Nat
        BY <2>1, <3>3, <4>1
      <4> HIDE DEF d
      <4>3. b * q = a * b + b * d /\ b * d \in Nat
        BY <2>1, <4>2
      <4> QED
        BY <2>1, <3>2, <3>3, <4>3
    <3> QED
      BY <2>1, <3>2, <3>3, <3>4 DEF q, r
  <2>4. ASSUME NEW k \in 1 .. a * b
        PROVE  <<W[((k - 1) \div b) + 1], L[((k - 1) % b) + 1]>> \in Seq(FocusField)
    <3> DEFINE i == ((k - 1) \div b) + 1
               j == ((k - 1) % b) + 1
    <3>1. i \in 1 .. a /\ j \in 1 .. b
      BY <2>3
    <3> HIDE DEF i, j
    <3>2. W[i] \in FocusField /\ L[j] \in FocusField
      BY <2>2, <3>1
    <3>3. <<W[i], L[j]>> \in Seq(FocusField)
      BY <3>2
    <3> QED
      BY <3>3 DEF i, j
  <2>5. [k \in 1 .. a * b |-> <<W[((k - 1) \div b) + 1], L[((k - 1) % b) + 1]>>]
        \in Seq(Seq(FocusField))
    BY <2>1, <2>4
  <2> QED
    BY <2>5 DEF a, b
<1> HIDE DEF one, two
<1>9. Inputs \in Seq(Seq(FocusField))
  <2>1. <<<<>>>> \in Seq(Seq(FocusField))
    OBVIOUS
  <2> QED
    BY <1>5, <1>7, <1>8, <2>1
<1> QED
  BY <1>9

-----------------------------------------------------------------------------
(* The invariant of MessageParse.                                          *)

\* What ok says of the message m that was given the fields v, and stopped at t.
Reads(good, m, v, t) ==
    IF good THEN m = FocusSaid(v) ELSE Spares(FocusSaid(v), m, t)

ParseInv ==
    /\ fed \in Seq(FocusField) /\ ft1 \in FocusRead /\ ok \in BOOLEAN
    /\ merges \in 0 .. MaxMerges /\ stop \in FocusField
    /\ merges = 0 => ok /\ fed = <<>>
    /\ Reads(ok, ft1, fed, stop)

LEMMA ParseInvInit == ParseInit => ParseInv
<1> SUFFICES ASSUME ParseInit PROVE ParseInv
  OBVIOUS
<1>1. 0 \in 0 .. MaxMerges
  BY ParseAssumption
<1>2. <<>> \in Seq(FocusField)
  OBVIOUS
<1> QED
  BY <1>1, <1>2, FocusSaidNothing, StopIsAField DEF ParseInit, ParseInv, Reads

LEMMA MergedReads ==
    ASSUME ParseInv, ok, NEW w \in Seq(FocusField), Merged(ft1, w)
    PROVE  /\ ft1' \in FocusRead /\ ok' \in BOOLEAN
           /\ fed \o WholePart(w) \in Seq(FocusField)
           /\ Reads(ok', ft1', fed \o WholePart(w), StopIn(w))
<1> DEFINE r == FocusParsed(ft1, w)
           p == WholePart(w)
<1>1. fed \in Seq(FocusField) /\ ft1 = FocusSaid(fed) /\ ft1 \in FocusRead
  BY DEF ParseInv, Reads
<1>2. FocusWell(fed, w)
  BY <1>1, FocusReadsWell
<1>3. /\ r \in FocusState /\ p \in Seq(FocusField) /\ (r.run = "go" <=> AllWhole(w))
      /\ (AllWhole(w) => p = w /\ r.msg = FocusSaid(fed \o w))
      /\ (~AllWhole(w) => Spares(FocusSaid(fed \o p), r.msg, StopIn(w)))
  BY <1>1, <1>2 DEF FocusWell
<1>4. ft1' = r.msg /\ ok' = (r.run = "go")
  BY DEF Merged
<1> HIDE DEF r, p
<1>5. ok' \in BOOLEAN /\ (ok' <=> AllWhole(w))
  BY <1>3, <1>4
<1>6. ft1' \in FocusRead
  BY <1>3, <1>4 DEF FocusState
<1>7. fed \o p \in Seq(FocusField)
  BY <1>1, <1>3
<1>8. Reads(ok', ft1', fed \o p, StopIn(w))
  <2>1. CASE AllWhole(w)
    <3>1. ok' /\ ft1' = FocusSaid(fed \o p)
      BY <1>3, <1>4, <1>5, <2>1
    <3> QED
      BY <3>1 DEF Reads
  <2>2. CASE ~AllWhole(w)
    <3>1. ~ok' /\ Spares(FocusSaid(fed \o p), ft1', StopIn(w))
      BY <1>3, <1>4, <1>5, <2>2
    <3> QED
      BY <3>1 DEF Reads
  <2> QED
    BY <2>1, <2>2
<1> QED
  BY <1>5, <1>6, <1>7, <1>8 DEF p

LEMMA ParseInvNext == ParseInv /\ [ParseNext]_parseVars => ParseInv'
<1> SUFFICES ASSUME ParseInv, [ParseNext]_parseVars PROVE ParseInv'
  OBVIOUS
<1>0. MaxMerges \in Nat \ {0} /\ merges \in 0 .. MaxMerges
  BY ParseAssumption DEF ParseInv
<1>1. ASSUME NEW i \in DOMAIN Inputs, ParseFromArray(Inputs[i]) PROVE ParseInv'
  <2> DEFINE w == Inputs[i]
  <2>1. w \in Seq(FocusField)
    BY InputsAreFields
  <2>2. /\ merges = 0 /\ Merged(ft1, w) /\ fed' = WholePart(w) /\ merges' = 1
        /\ stop' = StopIn(w)
    BY <1>1 DEF ParseFromArray
  <2> HIDE DEF w
  <2>3. ok /\ fed = <<>>
    BY <2>2 DEF ParseInv
  <2>4. /\ ft1' \in FocusRead /\ ok' \in BOOLEAN
        /\ fed \o WholePart(w) \in Seq(FocusField)
        /\ Reads(ok', ft1', fed \o WholePart(w), StopIn(w))
    BY <2>1, <2>2, <2>3, MergedReads
  <2>5. WholePart(w) \in Seq(FocusField)
    <3>1. FocusSaid(<<>>) \in FocusRead /\ <<>> \in Seq(FocusField)
      BY FocusSaidNothing
    <3> QED
      BY <2>1, <3>1, FocusReadsWell DEF FocusWell
  <2>6. fed \o WholePart(w) = WholePart(w)
    BY <2>3, <2>5
  <2>7. merges' \in 0 .. MaxMerges /\ merges' # 0 /\ stop' \in FocusField
    BY <1>0, <2>1, <2>2, StopIsAField
  <2> QED
    BY <2>2, <2>4, <2>6, <2>7 DEF ParseInv
<1>2. ASSUME NEW i \in DOMAIN Inputs, MergeFromString(Inputs[i]) PROVE ParseInv'
  <2> DEFINE w == Inputs[i]
  <2>1. w \in Seq(FocusField)
    BY InputsAreFields
  <2>2. /\ ok /\ merges \in 1 .. MaxMerges - 1 /\ Merged(ft1, w)
        /\ fed' = fed \o WholePart(w) /\ merges' = merges + 1 /\ stop' = StopIn(w)
    BY <1>2 DEF MergeFromString
  <2> HIDE DEF w
  <2>3. /\ ft1' \in FocusRead /\ ok' \in BOOLEAN
        /\ fed \o WholePart(w) \in Seq(FocusField)
        /\ Reads(ok', ft1', fed \o WholePart(w), StopIn(w))
    BY <2>1, <2>2, MergedReads
  <2>4. merges' \in 0 .. MaxMerges /\ merges' # 0 /\ stop' \in FocusField
    BY <1>0, <2>1, <2>2, StopIsAField
  <2> QED
    BY <2>2, <2>3, <2>4 DEF ParseInv
<1>3. CASE ClearMessage
  <2>1. ft1' = NoFocus /\ ok' = TRUE /\ fed' = <<>> /\ merges' = 0 /\ stop' = NoStop
    BY <1>3 DEF ClearMessage
  <2>2. 0 \in 0 .. MaxMerges /\ <<>> \in Seq(FocusField)
    BY <1>0
  <2> QED
    BY <2>1, <2>2, FocusSaidNothing, StopIsAField DEF ParseInv, Reads
<1>4. CASE UNCHANGED parseVars
  BY <1>4 DEF parseVars, ParseInv
<1> QED
  BY <1>1, <1>2, <1>3, <1>4 DEF ParseNext

LEMMA ParseInvMeans == ParseInv => ParsedIsSaid
<1> SUFFICES ASSUME ParseInv PROVE ParsedIsSaid
  OBVIOUS
<1> DEFINE said == FocusSaid(fed)
<1>1. CASE ok
  BY <1>1 DEF ParseInv, Reads, ParsedIsSaid
<1>2. CASE ~ok
  <2>1. Spares(said, ft1, stop)
    BY <1>2 DEF ParseInv, Reads
  <2>2. PICK X : said.ui \in Seq(X)
    BY FocusSaidSeq DEF ParseInv
  <2> DEFINE a == said.ui
             b == ft1.ui
             more == IF Known(stop, 2, "bytes") THEN 1 ELSE 0
  <2>3. IF Known(stop, 2, "bytes") THEN \E x \in UserRead : b = Append(a, x) ELSE b = a
    BY <2>1 DEF Spares
  <2>4. a \in Seq(X) /\ Len(a) \in Nat
    BY <2>2
  <2> HIDE DEF a, b
  <2>5. IsPrefix(a, b) /\ Len(b) = Len(a) + more
    <3>1. CASE ~Known(stop, 2, "bytes")
      <4>1. b = a /\ more = 0
        BY <2>3, <3>1
      <4> QED
        BY <2>4, <4>1 DEF IsPrefix
    <3>2. CASE Known(stop, 2, "bytes")
      <4>1. PICK x \in UserRead : b = Append(a, x)
        BY <2>3, <3>2
      <4>2. a \in Seq(X \cup UserRead)
        BY <2>4
      <4>3. Len(b) = Len(a) + 1 /\ SubSeq(b, 1, Len(a)) = a /\ SubSeq(a, 1, Len(a)) = a
        BY <4>1, <4>2
      <4> QED
        BY <2>4, <3>2, <4>3 DEF IsPrefix
    <3> QED
      BY <3>1, <3>2
  <2>6. ft1.unknown = said.unknown /\ ft1.msgtype = StringLeft(said.msgtype, stop)
    BY <2>1 DEF Spares
  <2> QED
    BY <1>2, <2>5, <2>6 DEF ParsedIsSaid, a, b
<1> QED
  BY <1>1, <1>2

\* ParsedIsSaid: what was parsed is what all the inputs say together; a call
\* that fails leaves what came before the field at which it gave up, but for
\* the string of that field, which is emptied, or the element it was to be,
\* which stays: MergePartialFromCodedStream of message.pb.cc.
THEOREM ParsesSafe == ParseSpec => []ParsedIsSaid
<1>1. ParseInv => ParsedIsSaid
  BY ParseInvMeans
<1> QED
  BY ParseInvInit, ParseInvNext, <1>1, PTL DEF ParseSpec

-----------------------------------------------------------------------------
(* What is written for a message.                                          *)

\* A field is not set, or has a value.
Plain(o) == o \in Opt /\ o = (IF o.has THEN Given(o.val) ELSE Unset)

LEMMA SomeUserIs ==
    ASSUME NEW u \in SomeUser
    PROVE  /\ Plain(u.userid) /\ Plain(u.username) /\ u.unknown = <<>>
           /\ u = [userid |-> u.userid, username |-> u.username, unknown |-> <<>>]
           /\ u \in UserRead
<1>1. /\ u.userid \in {Unset, Given(0), Given(300)} /\ u.username \in {Unset, Given(130)}
      /\ u.unknown = <<>>
      /\ u = [userid |-> u.userid, username |-> u.username, unknown |-> <<>>]
  BY DEF SomeUser
<1>2. Plain(Unset) /\ \A v \in Nat : Plain(Given(v))
  BY DEF Plain, Opt, Unset, Given
<1>3. Plain(u.userid) /\ Plain(u.username)
  BY <1>1, <1>2
<1>4. u \in UserRead
  <2>1. u.userid \in Opt /\ u.username \in Opt
    BY <1>3 DEF Plain
  <2>2. <<>> \in Seq(UserField)
    OBVIOUS
  <2>3. [userid |-> u.userid, username |-> u.username, unknown |-> <<>>] \in UserRead
    BY <2>1, <2>2 DEF UserRead
  <2> QED
    BY <1>1, <2>3, Zenon
<1> QED
  BY <1>1, <1>3, <1>4

LEMMA SomeFocusIs ==
    ASSUME NEW f \in SomeFocus
    PROVE  /\ Plain(f.msgtype) /\ f.ui \in Seq(SomeUser) /\ Len(f.ui) \in 0 .. MaxUi
           /\ f.unknown \in {<<>>, <<Varint(3, 300)>>}
           /\ f = [msgtype |-> f.msgtype, ui |-> f.ui, unknown |-> f.unknown]
<1>1. /\ f.msgtype \in {Unset, Given(1)}
      /\ f.ui \in UNION {[1 .. n -> SomeUser] : n \in 0 .. MaxUi}
      /\ f.unknown \in {<<>>, <<Varint(3, 300)>>}
      /\ f = [msgtype |-> f.msgtype, ui |-> f.ui, unknown |-> f.unknown]
  BY DEF SomeFocus
<1>2. Plain(Unset) /\ \A v \in Nat : Plain(Given(v))
  BY DEF Plain, Opt, Unset, Given
<1>3. PICK n \in 0 .. MaxUi : f.ui \in [1 .. n -> SomeUser]
  BY <1>1
<1>4. n \in Nat
  BY SerializeAssumption
<1>5. f.ui \in Seq(SomeUser) /\ Len(f.ui) = n
  <2> DEFINE s == f.ui
  <2>1. s \in [1 .. n -> SomeUser]
    BY <1>3
  <2> HIDE DEF s
  <2>2. s \in Seq(SomeUser) /\ Len(s) = n
    BY <1>4, <2>1
  <2> QED
    BY <2>2 DEF s
<1> QED
  BY <1>1, <1>2, <1>3, <1>5

LEMMA NoFocusIsSome == NoFocus \in SomeFocus
<1>1. <<>> \in [1 .. 0 -> SomeUser] /\ 0 \in 0 .. MaxUi
  BY SerializeAssumption
<1>2. <<>> \in UNION {[1 .. n -> SomeUser] : n \in 0 .. MaxUi}
  BY <1>1
<1> QED
  BY <1>2 DEF NoFocus, SomeFocus

LEMMA WireSizeAppend ==
    ASSUME NEW w \in Seq(UserField), NEW t \in UserField
    PROVE  WireSize(Append(w, t)) = WireSize(w) + FieldSize(t)
<1> DEFINE r == Append(w, t)
           a == [i \in DOMAIN w |-> FieldSize(w[i])]
           b == [i \in DOMAIN r |-> FieldSize(r[i])]
<1>1. /\ DOMAIN w = 1 .. Len(w) /\ Len(w) \in Nat /\ DOMAIN r = 1 .. Len(w) + 1
      /\ r[Len(w) + 1] = t /\ \A i \in 1 .. Len(w) : r[i] = w[i] /\ w[i] \in UserField
  OBVIOUS
<1>2. FieldSize(t) \in Nat /\ \A i \in 1 .. Len(w) : FieldSize(w[i]) \in Nat
  <2>1. \A e \in UserField : e.val \in Nat
    BY DEF UserField
  <2> QED
    BY <1>1, <2>1, FieldSizeNat
<1>3. WireSize(w) = Total(a) /\ WireSize(r) = Total(b)
  BY DEF WireSize
<1> HIDE DEF r
<1>4. a \in Seq(Nat) /\ Len(a) = Len(w) /\ \A i \in 1 .. Len(w) : a[i] = FieldSize(w[i])
  BY <1>1, <1>2
<1>5. b = [i \in 1 .. Len(w) + 1 |-> FieldSize(r[i])]
  BY <1>1
<1> DEFINE x == FieldSize(t)
           c == Append(a, x)
<1>6. /\ c \in Seq(Nat) /\ Len(c) = Len(w) + 1 /\ c[Len(w) + 1] = x
      /\ \A i \in 1 .. Len(w) : c[i] = a[i]
  <2> HIDE DEF a, x
  <2>1. x \in Nat
    BY <1>2 DEF x
  <2> QED
    BY <1>1, <1>4, <2>1
<1>7. Total(c) = Total(a) + x
  <2> HIDE DEF a, x
  <2>1. x \in Nat
    BY <1>2 DEF x
  <2> QED
    BY <1>4, <2>1, TotalAppend
<1> HIDE DEF a, c
<1>8. ASSUME NEW i \in 1 .. Len(w) + 1 PROVE c[i] = FieldSize(r[i])
  <2>1. i \in 1 .. Len(w) \/ i = Len(w) + 1
    BY <1>1
  <2>2. CASE i \in 1 .. Len(w)
    <3>1. r[i] = w[i]
      BY <1>1, <2>2
    <3> QED
      BY <1>4, <1>6, <2>2, <3>1, Zenon
  <2>3. CASE i = Len(w) + 1
    BY <1>1, <1>6, <2>3, Zenon
  <2> QED
    BY <2>1, <2>2, <2>3
<1>9. c = [i \in 1 .. Len(w) + 1 |-> c[i]]
  BY <1>6
<1>10. b = c
  BY <1>5, <1>8, <1>9, Zenon
<1> QED
  BY <1>3, <1>7, <1>10 DEF r

LEMMA WireSizeNothing == WireSize(<<>>) = 0
<1>1. [i \in DOMAIN <<>> |-> FieldSize(<<>>[i])] = <<>>
  OBVIOUS
<1> QED
  BY <1>1, TotalNothing DEF WireSize

\* A field after a sequence of fields, if it is there.
With(s, o, t) == IF o.has THEN Append(s, t) ELSE s

LEMMA PresentWith ==
    ASSUME NEW T, NEW s \in Seq(T), NEW o, NEW t \in T
    PROVE  s \o Present(o, t) = With(s, o, t) /\ With(s, o, t) \in Seq(T)
<1>1. s \o <<>> = s /\ s \o <<t>> = Append(s, t) /\ Append(s, t) \in Seq(T)
  OBVIOUS
<1> QED
  BY <1>1 DEF Present, With

LEMMA UserToArrayIs ==
    ASSUME NEW u \in SomeUser
    PROVE  UserToArray(u) = With(With(<<>>, u.userid, Varint(1, u.userid.val)),
                                 u.username, Bytes(2, u.username.val))
<1> DEFINE a == Varint(1, u.userid.val)
           b == Bytes(2, u.username.val)
           p == Present(u.userid, a)
           q == Present(u.username, b)
           v == With(<<>>, u.userid, a)
<1>1. u.userid \in Opt /\ u.username \in Opt /\ u.unknown = <<>>
  BY SomeUserIs DEF Plain
<1>2. a \in UserField /\ b \in UserField
  <2>1. u.userid.val \in Nat /\ u.username.val \in Nat
    BY <1>1 DEF Opt
  <2> QED
    BY <2>1, FieldTypes
<1>3. UserToArray(u) = p \o q \o <<>>
  BY <1>1 DEF UserToArray
<1> HIDE DEF a, b
<1>4. p \in Seq(UserField) /\ q \in Seq(UserField)
  BY <1>2 DEF Present
<1>5. <<>> \o p = v /\ v \in Seq(UserField)
  <2>1. <<>> \in Seq(UserField)
    OBVIOUS
  <2> QED
    BY <1>2, <2>1, PresentWith
<1>6. v \o q = With(v, u.username, b) /\ With(v, u.username, b) \in Seq(UserField)
  BY <1>2, <1>5, PresentWith
<1> HIDE DEF p, q, v
<1>7. p = v
  BY <1>4, <1>5
<1>8. v \o q \o <<>> = v \o q
  BY <1>4, <1>5
<1> QED
  BY <1>3, <1>6, <1>7, <1>8 DEF a, b, v

\* What is written for a userinfo: as many bytes as ByteSize says, and a parser
\* gets it back.
LEMMA UserIsWritten ==
    ASSUME NEW u \in SomeUser
    PROVE  /\ UserToArray(u) \in Seq(UserField) /\ UserByteSize(u) \in Nat
           /\ WireSize(UserToArray(u)) = UserByteSize(u)
           /\ UserParsed(NoUser, UserToArray(u)) = [msg |-> u, run |-> "go"]
<1> DEFINE a == Varint(1, u.userid.val)
           b == Bytes(2, u.username.val)
           v == With(<<>>, u.userid, a)
           w == With(v, u.username, b)
           m == [userid |-> u.userid, username |-> Unset, unknown |-> <<>>]
<1>1. /\ Plain(u.userid) /\ Plain(u.username) /\ u.unknown = <<>> /\ u \in UserRead
      /\ u = [userid |-> u.userid, username |-> u.username, unknown |-> <<>>]
  BY SomeUserIs
<1>2. u.userid.val \in Nat /\ u.username.val \in Nat /\ u.userid \in Opt
  BY <1>1 DEF Plain, Opt
<1>3. a \in UserField /\ b \in UserField
  BY <1>2, FieldTypes
<1>4. /\ a = [num |-> 1, type |-> "varint", val |-> u.userid.val, sub |-> <<>>,
              len |-> 0, cut |-> "no"]
      /\ b = [num |-> 2, type |-> "bytes", val |-> u.username.val, sub |-> <<>>,
              len |-> 0, cut |-> "no"]
  BY DEF Varint, Bytes
<1>5. UserToArray(u) = w
  BY UserToArrayIs
<1>6. /\ UserByteSize(u) = (IF u.userid.has THEN FieldSize(a) ELSE 0)
                           + (IF u.username.has THEN FieldSize(b) ELSE 0) + 0
      /\ FieldSize(a) \in Nat /\ FieldSize(b) \in Nat
  <2>1. FieldSize(a) = 1 + VarintSize(u.userid.val)
    BY <1>4 DEF FieldSize
  <2>2. FieldSize(b) = 1 + StringSize(u.username.val)
    BY <1>4 DEF FieldSize
  <2>3. WireSize(u.unknown) = 0
    BY <1>1, WireSizeNothing
  <2>4. FieldSize(a) \in Nat /\ FieldSize(b) \in Nat
    <3>1. a.val \in Nat /\ b.val \in Nat
      BY <1>2, <1>4
    <3> QED
      BY <3>1, FieldSizeNat
  <2> HIDE DEF a, b
  <2> QED
    BY <2>1, <2>2, <2>3, <2>4 DEF UserByteSize
<1>7. /\ Known(a, 1, "varint") /\ ~Known(a, 2, "bytes") /\ Taken(a)
      /\ Known(b, 2, "bytes") /\ ~Known(b, 1, "varint") /\ Taken(b)
      /\ a.val = u.userid.val /\ b.val = u.username.val
  BY <1>4 DEF Known, Taken
<1> HIDE DEF a, b
<1>8. <<>> \in Seq(UserField)
  OBVIOUS
<1>9. v \in Seq(UserField)
  BY <1>3, <1>8, PresentWith
<1>10. w \in Seq(UserField)
  BY <1>3, <1>9, PresentWith
<1>11. WireSize(v) = IF u.userid.has THEN FieldSize(a) ELSE 0
  <2>1. WireSize(Append(<<>>, a)) = 0 + FieldSize(a)
    BY <1>3, <1>8, WireSizeAppend, WireSizeNothing
  <2>2. 0 + FieldSize(a) = FieldSize(a)
    BY <1>6
  <2> QED
    BY <2>1, <2>2, WireSizeNothing DEF With
<1>12. m \in UserRead
  BY <1>2 DEF UserRead, Unset, Opt
<1>13. UserParsed(NoUser, v) = [msg |-> m, run |-> "go"]
  <2> DEFINE s == [msg |-> NoUser, run |-> "go"]
  <2>1. UserParsed(NoUser, <<>>) = s /\ NoUser \in UserRead /\ s \in UserState
    BY UserParsedNothing, UserSaidNothing DEF UserState, Stopped
  <2>2. CASE u.userid.has
    <3>1. v = Append(<<>>, a)
      BY <2>2 DEF With
    <3>2. UserParsed(NoUser, v) = UserFieldParsed(s, a)
      <4>1. UserParsed(NoUser, v) = UserStepped(s, a)
        BY <1>3, <1>8, <2>1, <3>1, UserParsedAppend
      <4>2. s.run = "go"
        OBVIOUS
      <4> QED
        BY <4>1, <4>2, Zenon DEF UserStepped
    <3>3. UserFieldParsed(s, a) = [msg |-> UserTakes(NoUser, a), run |-> "go"]
      BY <1>3, <1>7, <2>1, UserFieldRead
    <3>4. u.userid = Given(a.val)
      BY <1>1, <1>7, <2>2 DEF Plain
    <3>5. UserTakes(NoUser, a) = m
      BY <1>7, <3>4 DEF UserTakes, NoUser
    <3> QED
      BY <3>2, <3>3, <3>5
  <2>3. CASE ~u.userid.has
    <3>1. v = <<>>
      BY <2>3 DEF With
    <3>2. m = NoUser
      BY <1>1, <2>3 DEF Plain, NoUser
    <3> QED
      BY <2>1, <3>1, <3>2
  <2> QED
    BY <2>2, <2>3
<1> HIDE DEF v
<1>14. WireSize(w) = WireSize(v) + (IF u.username.has THEN FieldSize(b) ELSE 0)
  <2>1. WireSize(Append(v, b)) = WireSize(v) + FieldSize(b)
    BY <1>3, <1>9, WireSizeAppend
  <2>2. WireSize(v) + 0 = WireSize(v)
    BY <1>6, <1>11
  <2> QED
    BY <2>1, <2>2 DEF With
<1>15. UserParsed(NoUser, w) = [msg |-> u, run |-> "go"]
  <2> DEFINE s == [msg |-> m, run |-> "go"]
  <2>1. UserParsed(NoUser, v) = s /\ NoUser \in UserRead /\ s \in UserState /\ s.run = "go"
        /\ s.msg = m
    BY <1>12, <1>13, UserSaidNothing DEF UserState, Stopped
  <2>2. CASE u.username.has
    <3>1. w = Append(v, b)
      BY <2>2 DEF With
    <3>2. UserParsed(NoUser, w) = UserFieldParsed(s, b)
      BY <1>3, <1>9, <2>1, <3>1, UserParsedAppend DEF UserStepped
    <3>3. UserFieldParsed(s, b) = [msg |-> UserTakes(m, b), run |-> "go"]
      BY <1>3, <1>7, <2>1, UserFieldRead
    <3>4. u.username = Given(b.val)
      BY <1>1, <1>7, <2>2 DEF Plain
    <3>5. UserTakes(m, b) = u
      BY <1>1, <1>7, <3>4 DEF UserTakes
    <3> QED
      BY <3>2, <3>3, <3>5
  <2>3. CASE ~u.username.has
    <3>1. w = v
      BY <2>3 DEF With
    <3>2. m = u
      BY <1>1, <2>3 DEF Plain
    <3> QED
      BY <2>1, <3>1, <3>2
  <2> QED
    BY <2>2, <2>3
<1> HIDE DEF w
<1>16. UserByteSize(u) \in Nat /\ WireSize(w) = UserByteSize(u)
  BY <1>6, <1>11, <1>14
<1> QED
  BY <1>5, <1>10, <1>15, <1>16

\* The bytes of the fields o.
BytesWritten(o) == Total([i \in DOMAIN o |-> Written(o[i])])

LEMMA WrittenNat == \A t \in FocusField : Written(t) \in Nat
<1> SUFFICES ASSUME NEW t \in FocusField PROVE Written(t) \in Nat
  OBVIOUS
<1>1. t.val \in Nat /\ t.sub \in Seq(UserField)
  BY DEF FocusField
<1>2. FieldSize(t) \in Nat /\ WireSize(t.sub) \in Nat /\ VarintSize(t.len) \in Nat
  BY <1>1, FieldSizeNat, WireSizeNat, VarintSizeNat
<1> QED
  BY <1>2 DEF Written

LEMMA BytesOfNothing == BytesWritten(<<>>) = 0
<1>1. [i \in DOMAIN <<>> |-> Written(<<>>[i])] = <<>>
  OBVIOUS
<1> QED
  BY <1>1, TotalNothing DEF BytesWritten

LEMMA BytesOfAppend ==
    ASSUME NEW w \in Seq(FocusField), NEW t \in FocusField
    PROVE  BytesWritten(Append(w, t)) = BytesWritten(w) + Written(t)
<1> DEFINE r == Append(w, t)
           a == [i \in DOMAIN w |-> Written(w[i])]
           b == [i \in DOMAIN r |-> Written(r[i])]
<1>1. /\ DOMAIN w = 1 .. Len(w) /\ Len(w) \in Nat /\ DOMAIN r = 1 .. Len(w) + 1
      /\ r[Len(w) + 1] = t /\ \A i \in 1 .. Len(w) : r[i] = w[i] /\ w[i] \in FocusField
  OBVIOUS
<1>2. Written(t) \in Nat /\ \A i \in 1 .. Len(w) : Written(w[i]) \in Nat
  BY <1>1, WrittenNat
<1>3. BytesWritten(w) = Total(a) /\ BytesWritten(r) = Total(b)
  BY DEF BytesWritten
<1> HIDE DEF r
<1>4. a \in Seq(Nat) /\ Len(a) = Len(w) /\ \A i \in 1 .. Len(w) : a[i] = Written(w[i])
  BY <1>1, <1>2
<1>5. b = [i \in 1 .. Len(w) + 1 |-> Written(r[i])]
  BY <1>1
<1> DEFINE x == Written(t)
           c == Append(a, x)
<1>6. /\ c \in Seq(Nat) /\ Len(c) = Len(w) + 1 /\ c[Len(w) + 1] = x
      /\ \A i \in 1 .. Len(w) : c[i] = a[i]
  <2> HIDE DEF a, x
  <2>1. x \in Nat
    BY <1>2 DEF x
  <2> QED
    BY <1>1, <1>4, <2>1
<1>7. Total(c) = Total(a) + x
  <2> HIDE DEF a, x
  <2>1. x \in Nat
    BY <1>2 DEF x
  <2> QED
    BY <1>4, <2>1, TotalAppend
<1> HIDE DEF a, c
<1>8. ASSUME NEW i \in 1 .. Len(w) + 1 PROVE c[i] = Written(r[i])
  <2>1. i \in 1 .. Len(w) \/ i = Len(w) + 1
    BY <1>1
  <2>2. CASE i \in 1 .. Len(w)
    <3>1. r[i] = w[i]
      BY <1>1, <2>2
    <3> QED
      BY <1>4, <1>6, <2>2, <3>1, Zenon
  <2>3. CASE i = Len(w) + 1
    BY <1>1, <1>6, <2>3, Zenon
  <2> QED
    BY <2>1, <2>2, <2>3
<1>9. c = [i \in 1 .. Len(w) + 1 |-> c[i]]
  BY <1>6
<1>10. b = c
  BY <1>5, <1>8, <1>9, Zenon
<1> QED
  BY <1>3, <1>7, <1>10 DEF r


-----------------------------------------------------------------------------

\* What is written for a userinfo as a field of a focustm.
EmbeddedOf(u) == Embedded(2, UserToArray(u), UserByteSize(u))

LEMMA EmbeddedWritten ==
    ASSUME NEW u \in SomeUser
    PROVE  /\ EmbeddedOf(u) \in FocusField /\ EmbeddedOf(u).len = WireSize(EmbeddedOf(u).sub)
           /\ Written(EmbeddedOf(u)) = EmbeddedSize(UserByteSize(u))
           /\ EmbeddedSize(UserByteSize(u)) \in Nat
           /\ Known(EmbeddedOf(u), 2, "bytes") /\ ~Known(EmbeddedOf(u), 1, "bytes")
           /\ Whole(EmbeddedOf(u)) /\ UserSaid(EmbeddedOf(u).sub) = u
<1> DEFINE w == UserToArray(u)
           l == UserByteSize(u)
           e == EmbeddedOf(u)
<1>1. /\ w \in Seq(UserField) /\ l \in Nat /\ WireSize(w) = l
      /\ UserParsed(NoUser, w) = [msg |-> u, run |-> "go"]
  BY UserIsWritten
<1>2. e = [num |-> 2, type |-> "bytes", val |-> 0, sub |-> w, len |-> l, cut |-> "no"]
  BY EmbeddedIs DEF EmbeddedOf
<1>3. UserWell(w)
  BY <1>1, UserReadsWell
<1>4. AllTaken(w) /\ UserSaid(w) = u
  BY <1>1, <1>3 DEF UserWell
<1> HIDE DEF w, l, e
<1>5. e \in FocusField
  BY <1>1, <1>2 DEF FocusField, TypesOf, CutAt
<1>6. e.sub = w /\ e.len = l
  BY <1>2
<1>7. Known(e, 2, "bytes") /\ ~Known(e, 1, "bytes") /\ Taken(e)
  BY <1>2 DEF Known, Taken
<1>8. Whole(e)
  BY <1>4, <1>5, <1>6, <1>7, WholeIs
<1>9. Written(e) = EmbeddedSize(l)
  BY <1>1, <1>6, <1>7 DEF Written, EmbeddedSize
<1>10. Written(e) \in Nat
  BY <1>5, WrittenNat
<1> QED
  BY <1>1, <1>4, <1>5, <1>6, <1>7, <1>8, <1>9, <1>10 DEF w, l, e

\* The sizes of the first k ui of f, and what is written for them.
SizesTo(f, k) == [j \in 1 .. k |-> EmbeddedSize(UserByteSize(f.ui[j]))]
OutTo(f, k)   == [j \in 1 .. k |-> EmbeddedOf(f.ui[j])]

LEMMA MoreWritten ==
    ASSUME NEW f \in SomeFocus, NEW k \in 0 .. Len(f.ui)
    PROVE  /\ SizesTo(f, k) \in Seq(Nat) /\ OutTo(f, k) \in Seq(FocusField)
           /\ Len(OutTo(f, k)) = k
           /\ k < Len(f.ui) =>
                /\ f.ui[k + 1] \in SomeUser
                /\ SizesTo(f, k + 1) =
                       Append(SizesTo(f, k), EmbeddedSize(UserByteSize(f.ui[k + 1])))
                /\ OutTo(f, k + 1) = Append(OutTo(f, k), EmbeddedOf(f.ui[k + 1]))
<1> DEFINE N == Len(f.ui)
           Z == [j \in 1 .. N |-> EmbeddedSize(UserByteSize(f.ui[j]))]
           O == [j \in 1 .. N |-> EmbeddedOf(f.ui[j])]
<1>1. f.ui \in Seq(SomeUser) /\ N \in Nat /\ \A j \in 1 .. N : f.ui[j] \in SomeUser
  <2>1. f.ui \in Seq(SomeUser)
    BY SomeFocusIs
  <2> QED
    BY <2>1
<1>2. Z \in [1 .. N -> Nat] /\ O \in [1 .. N -> FocusField]
  BY <1>1, EmbeddedWritten
<1>3. k \in Nat /\ k <= N
  BY <1>1
<1>4. /\ SizesTo(f, k) = [j \in 1 .. k |-> Z[j]] /\ OutTo(f, k) = [j \in 1 .. k |-> O[j]]
  <2>1. \A j \in 1 .. k : j \in 1 .. N
    BY <1>1, <1>3
  <2> QED
    BY <2>1 DEF SizesTo, OutTo
<1>5. ASSUME k < N
      PROVE  /\ SizesTo(f, k + 1) = [j \in 1 .. k + 1 |-> Z[j]]
             /\ OutTo(f, k + 1) = [j \in 1 .. k + 1 |-> O[j]]
             /\ Z[k + 1] = EmbeddedSize(UserByteSize(f.ui[k + 1]))
             /\ O[k + 1] = EmbeddedOf(f.ui[k + 1]) /\ k + 1 \in 1 .. N
  <2>1. k + 1 \in 1 .. N /\ \A j \in 1 .. k + 1 : j \in 1 .. N
    BY <1>1, <1>3, <1>5
  <2> QED
    BY <2>1 DEF SizesTo, OutTo
<1> HIDE DEF N, Z, O
<1>6. /\ SizesTo(f, k) \in Seq(Nat) /\ OutTo(f, k) \in Seq(FocusField)
      /\ Len(OutTo(f, k)) = k
  <2>1. \A j \in 1 .. k : Z[j] \in Nat /\ O[j] \in FocusField
    <3>1. \A j \in 1 .. k : j \in 1 .. N
      BY <1>1, <1>3 DEF N
    <3> QED
      BY <1>2, <3>1
  <2>2. [j \in 1 .. k |-> Z[j]] \in Seq(Nat)
    BY <1>3, <2>1
  <2>3. /\ [j \in 1 .. k |-> O[j]] \in Seq(FocusField)
        /\ Len([j \in 1 .. k |-> O[j]]) = k
    BY <1>3, <2>1
  <2> QED
    BY <1>4, <2>2, <2>3, Zenon
<1>7. ASSUME k < N
      PROVE  /\ SizesTo(f, k + 1) = Append(SizesTo(f, k), Z[k + 1])
             /\ OutTo(f, k + 1) = Append(OutTo(f, k), O[k + 1])
  <2>1. \A j \in 1 .. k + 1 : j \in 1 .. N
    BY <1>1, <1>3, <1>7
  <2>2. [j \in 1 .. k + 1 |-> Z[j]] = Append([j \in 1 .. k |-> Z[j]], Z[k + 1])
    BY <1>2, <1>3, <2>1
  <2>3. [j \in 1 .. k + 1 |-> O[j]] = Append([j \in 1 .. k |-> O[j]], O[k + 1])
    BY <1>2, <1>3, <2>1
  <2> QED
    BY <1>4, <1>5, <1>7, <2>2, <2>3
<1> QED
  BY <1>1, <1>5, <1>6, <1>7 DEF N

\* The first k ui of f.
UpTo(f, k) == [msgtype |-> f.msgtype, ui |-> SubSeq(f.ui, 1, k), unknown |-> <<>>]

\* The length before each embedded message of o is its own.
LensRight(o) == \A i \in 1 .. Len(o) : Known(o[i], 2, "bytes") => o[i].len = WireSize(o[i].sub)

LEMMA LensRightAppend ==
    ASSUME NEW o \in Seq(FocusField), NEW t \in FocusField, LensRight(o),
           Known(t, 2, "bytes") => t.len = WireSize(t.sub)
    PROVE  LensRight(Append(o, t))
<1> DEFINE r == Append(o, t)
<1>1. /\ Len(o) \in Nat /\ Len(r) = Len(o) + 1 /\ r[Len(o) + 1] = t
      /\ \A i \in 1 .. Len(o) : r[i] = o[i]
  OBVIOUS
<1> HIDE DEF r
<1>2. \A i \in 1 .. Len(r) : i \in 1 .. Len(o) \/ i = Len(o) + 1
  BY <1>1
<1>3. LensRight(r)
  BY <1>1, <1>2 DEF LensRight
<1> QED
  BY <1>3 DEF r

\* What is known of fields o that were written for a message m that takes n bytes.
WrittenFor(o, m, n) ==
    /\ o \in Seq(FocusField) /\ m \in FocusRead /\ n \in Nat
    /\ LensRight(o) /\ BytesWritten(o) = n
    /\ FocusParsed(NoFocus, o) = [msg |-> m, run |-> "go"]

LEMMA WrittenForMore ==
    ASSUME NEW o, NEW m, NEW n, WrittenFor(o, m, n), NEW t \in FocusField, Whole(t),
           Known(t, 2, "bytes") => t.len = WireSize(t.sub),
           FocusTakes(m, t) \in FocusRead
    PROVE  WrittenFor(Append(o, t), FocusTakes(m, t), n + Written(t))
<1>1. o \in Seq(FocusField) /\ m \in FocusRead /\ n \in Nat /\ LensRight(o)
      /\ BytesWritten(o) = n /\ FocusParsed(NoFocus, o) = [msg |-> m, run |-> "go"]
  BY DEF WrittenFor
<1>2. Append(o, t) \in Seq(FocusField)
  BY <1>1
<1>3. LensRight(Append(o, t))
  BY <1>1, LensRightAppend
<1>4. Written(t) \in Nat /\ BytesWritten(Append(o, t)) = n + Written(t)
  BY <1>1, WrittenNat, BytesOfAppend
<1>5. n + Written(t) \in Nat
  BY <1>1, <1>4
<1> DEFINE s == [msg |-> m, run |-> "go"]
<1>6. s \in FocusState /\ s.run = "go" /\ s.msg = m
  BY <1>1 DEF FocusState, Stopped
<1>7. FocusParsed(NoFocus, Append(o, t)) = FocusStepped(s, t)
  BY <1>1, FocusParsedAppend, FocusSaidNothing
<1> HIDE DEF s
<1>8. FocusParsed(NoFocus, Append(o, t)) = FocusFieldParsed(s, t)
  BY <1>6, <1>7 DEF FocusStepped
<1>9. FocusFieldParsed(s, t) = [msg |-> FocusTakes(m, t), run |-> "go"]
  BY <1>6, FocusFieldRead
<1> QED
  BY <1>2, <1>3, <1>4, <1>5, <1>8, <1>9 DEF WrittenFor

First(f)    == With(<<>>, f.msgtype, Bytes(1, f.msgtype.val))
OwnFirst(f) == IF f.msgtype.has THEN 1 + StringSize(f.msgtype.val) ELSE 0
Begun(f, k) == First(f) \o OutTo(f, k)

LEMMA FirstWritten ==
    ASSUME NEW f \in SomeFocus
    PROVE  /\ WrittenFor(First(f), UpTo(f, 0), OwnFirst(f))
           /\ Present(f.msgtype, Bytes(1, f.msgtype.val)) = First(f)
<1> DEFINE b == Bytes(1, f.msgtype.val)
<1>1. Plain(f.msgtype) /\ f.ui \in Seq(SomeUser)
  BY SomeFocusIs
<1>2. f.msgtype \in Opt /\ f.msgtype.val \in Nat
  BY <1>1 DEF Plain, Opt
<1>3. b \in FocusField
  BY <1>2, FieldTypes
<1>4. b = [num |-> 1, type |-> "bytes", val |-> f.msgtype.val, sub |-> <<>>,
           len |-> 0, cut |-> "no"]
  BY DEF Bytes, Varint
<1>5. First(f) = With(<<>>, f.msgtype, b)
  BY DEF First
<1>6. Present(f.msgtype, b) = First(f)
  BY <1>5 DEF Present, With
<1> HIDE DEF b
<1>7. b.val = f.msgtype.val /\ b.type = "bytes" /\ Known(b, 1, "bytes") /\ ~Known(b, 2, "bytes")
      /\ Taken(b)
  BY <1>4 DEF Known, Taken
<1>8. Whole(b)
  BY <1>3, <1>7, WholeIs
<1>9. Written(b) = 1 + StringSize(f.msgtype.val)
  BY <1>7 DEF Written, FieldSize
<1>10. SubSeq(f.ui, 1, 0) = <<>>
  BY <1>1
<1>11. WrittenFor(<<>>, NoFocus, 0)
  <2>1. LensRight(<<>>) /\ <<>> \in Seq(FocusField)
    BY DEF LensRight
  <2>2. FocusParsed(NoFocus, <<>>) = [msg |-> NoFocus, run |-> "go"]
    BY FocusParsedNothing, FocusSaidNothing
  <2> QED
    BY <2>1, <2>2, BytesOfNothing, FocusSaidNothing DEF WrittenFor
<1>12. UpTo(f, 0) = [msgtype |-> f.msgtype, ui |-> <<>>, unknown |-> <<>>]
  BY <1>10 DEF UpTo
<1>13. UpTo(f, 0) \in FocusRead
  <2>1. <<>> \in Seq(UserRead) /\ <<>> \in Seq(FocusField)
    OBVIOUS
  <2>2. [msgtype |-> f.msgtype, ui |-> <<>>, unknown |-> <<>>] \in FocusRead
    BY <1>2, <2>1 DEF FocusRead
  <2> QED
    BY <1>12, <2>2, Zenon
<1>14. CASE f.msgtype.has
  <2>1. First(f) = Append(<<>>, b) /\ OwnFirst(f) = Written(b)
    BY <1>5, <1>9, <1>14 DEF With, OwnFirst
  <2>2. f.msgtype = Given(b.val)
    BY <1>1, <1>7, <1>14 DEF Plain
  <2>3. FocusTakes(NoFocus, b) = UpTo(f, 0)
    BY <1>7, <1>12, <2>2 DEF FocusTakes, NoFocus
  <2>4. WrittenFor(Append(<<>>, b), FocusTakes(NoFocus, b), 0 + Written(b))
    BY <1>3, <1>7, <1>8, <1>11, <1>13, <2>3, WrittenForMore
  <2>5. 0 + Written(b) = Written(b)
    BY <1>3, WrittenNat
  <2> QED
    BY <1>6, <2>1, <2>3, <2>4, <2>5 DEF b
<1>15. CASE ~f.msgtype.has
  <2>1. First(f) = <<>> /\ OwnFirst(f) = 0
    BY <1>5, <1>15 DEF With, OwnFirst
  <2>2. UpTo(f, 0) = NoFocus
    BY <1>1, <1>12, <1>15 DEF Plain, NoFocus
  <2> QED
    BY <1>6, <1>11, <2>1, <2>2 DEF b
<1> QED
  BY <1>14, <1>15

LEMMA UpToMore ==
    ASSUME NEW f \in SomeFocus, NEW k \in 0 .. Len(f.ui), k < Len(f.ui), UpTo(f, k) \in FocusRead
    PROVE  /\ FocusTakes(UpTo(f, k), EmbeddedOf(f.ui[k + 1])) = UpTo(f, k + 1)
           /\ UpTo(f, k + 1) \in FocusRead
<1> DEFINE u == f.ui[k + 1]
           e == EmbeddedOf(u)
<1>1. f.ui \in Seq(SomeUser) /\ Len(f.ui) \in Nat
  BY SomeFocusIs
<1>2. u \in SomeUser
  BY <1>1
<1>3. Known(e, 2, "bytes") /\ ~Known(e, 1, "bytes") /\ UserSaid(e.sub) = u
  BY <1>2, EmbeddedWritten
<1>4. u \in UserRead
  BY <1>2, SomeUserIs
<1>5. SubSeq(f.ui, 1, k + 1) = Append(SubSeq(f.ui, 1, k), u)
  BY <1>1
<1>6. /\ UpTo(f, k).ui = SubSeq(f.ui, 1, k) /\ UpTo(f, k).msgtype = f.msgtype
      /\ UpTo(f, k).unknown = <<>>
  BY DEF UpTo
<1> HIDE DEF u, e
<1>7. FocusTakes(UpTo(f, k), e) = UpTo(f, k + 1)
  BY <1>3, <1>5, <1>6 DEF FocusTakes, UpTo
<1>8. SubSeq(f.ui, 1, k) \in Seq(UserRead) /\ f.msgtype \in Opt /\ <<>> \in Seq(FocusField)
  BY <1>6 DEF FocusRead
<1>9. Append(SubSeq(f.ui, 1, k), u) \in Seq(UserRead)
  BY <1>4, <1>8
<1>10. UpTo(f, k + 1) \in FocusRead
  BY <1>5, <1>8, <1>9 DEF UpTo, FocusRead
<1> QED
  BY <1>7, <1>10 DEF e, u

LEMMA BegunWritten ==
    ASSUME NEW f \in SomeFocus
    PROVE  \A k \in 0 .. Len(f.ui) :
              WrittenFor(Begun(f, k), UpTo(f, k), OwnFirst(f) + Total(SizesTo(f, k)))
<1> DEFINE N == Len(f.ui)
           Q(k) == WrittenFor(Begun(f, k), UpTo(f, k), OwnFirst(f) + Total(SizesTo(f, k)))
           P == {k \in 0 .. N : Q(k)}
<1>1. N \in Nat
  BY SomeFocusIs
<1>2. WrittenFor(First(f), UpTo(f, 0), OwnFirst(f))
  BY FirstWritten
<1>3. First(f) \in Seq(FocusField) /\ OwnFirst(f) \in Nat
  BY <1>2 DEF WrittenFor
<1>4. 0 \in P
  <2>1. SizesTo(f, 0) = <<>> /\ OutTo(f, 0) = <<>>
    BY DEF SizesTo, OutTo
  <2>2. Begun(f, 0) = First(f)
    BY <1>3, <2>1 DEF Begun
  <2>3. OwnFirst(f) + Total(SizesTo(f, 0)) = OwnFirst(f)
    BY <1>3, <2>1, TotalNothing
  <2>4. Q(0)
    BY <1>2, <2>2, <2>3
  <2> QED
    BY <1>1, <2>4
<1>5. ASSUME NEW k \in 0 .. N, k \in P, k < N PROVE k + 1 \in P
  <2> DEFINE e == EmbeddedOf(f.ui[k + 1])
             z == EmbeddedSize(UserByteSize(f.ui[k + 1]))
  <2>1. Q(k)
    BY <1>5
  <2>2. /\ SizesTo(f, k) \in Seq(Nat) /\ OutTo(f, k) \in Seq(FocusField)
        /\ f.ui[k + 1] \in SomeUser
        /\ SizesTo(f, k + 1) = Append(SizesTo(f, k), z)
        /\ OutTo(f, k + 1) = Append(OutTo(f, k), e)
    BY <1>5, MoreWritten
  <2>3. /\ e \in FocusField /\ Whole(e) /\ e.len = WireSize(e.sub) /\ Written(e) = z
        /\ z \in Nat
    BY <2>2, EmbeddedWritten
  <2>4. UpTo(f, k) \in FocusRead
    BY <2>1 DEF WrittenFor
  <2>5. FocusTakes(UpTo(f, k), e) = UpTo(f, k + 1) /\ UpTo(f, k + 1) \in FocusRead
    BY <1>5, <2>4, UpToMore
  <2> HIDE DEF e, z
  <2>6. Begun(f, k + 1) = Append(Begun(f, k), e)
    <3> DEFINE a == First(f)
               o == OutTo(f, k)
    <3>1. a \in Seq(FocusField) /\ o \in Seq(FocusField)
      BY <1>3, <2>2
    <3> HIDE DEF a, o
    <3>2. a \o Append(o, e) = Append(a \o o, e)
      BY <2>3, <3>1
    <3> QED
      BY <2>2, <3>2 DEF Begun, a, o
  <2> DEFINE n == OwnFirst(f) + Total(SizesTo(f, k))
  <2>7. WrittenFor(Append(Begun(f, k), e), UpTo(f, k + 1), n + Written(e))
    BY <2>1, <2>3, <2>5, WrittenForMore
  <2>8. OwnFirst(f) + Total(SizesTo(f, k + 1)) = n + Written(e)
    <3>1. Total(SizesTo(f, k + 1)) = Total(SizesTo(f, k)) + z
      BY <2>2, <2>3, TotalAppend
    <3>2. Total(SizesTo(f, k)) \in Nat
      BY <2>2, TotalNat
    <3> QED
      BY <1>3, <2>3, <3>1, <3>2
  <2>9. Q(k + 1)
    BY <2>6, <2>7, <2>8
  <2>10. k + 1 \in 0 .. N
    BY <1>1, <1>5
  <2> QED
    BY <2>9, <2>10
<1> HIDE DEF P
<1>6. \A k \in 0 .. N : k \in P
  BY <1>1, <1>4, <1>5, CountsUp
<1> QED
  BY <1>6 DEF P

\* What is written for f, and its size.
OutOf(f)  == Present(f.msgtype, Bytes(1, f.msgtype.val)) \o OutTo(f, Len(f.ui)) \o f.unknown
SizeFor(f) == Total(SizesTo(f, Len(f.ui))) + FocusOwnSize(f)

LEMMA FocusIsWritten ==
    ASSUME NEW f \in SomeFocus
    PROVE  WrittenFor(OutOf(f), f, SizeFor(f))
<1> DEFINE N == Len(f.ui)
           b == Begun(f, N)
           v == Varint(3, 300)
           a == OwnFirst(f)
           c == Total(SizesTo(f, N))
<1>1. /\ f.ui \in Seq(SomeUser) /\ N \in Nat /\ f.unknown \in {<<>>, <<v>>}
      /\ f = [msgtype |-> f.msgtype, ui |-> f.ui, unknown |-> f.unknown]
      /\ f.msgtype \in Opt
  BY SomeFocusIs DEF Plain
<1>2. N \in 0 .. N
  BY <1>1
<1>3. WrittenFor(b, UpTo(f, N), a + c)
  BY <1>2, BegunWritten
<1>4. UpTo(f, N) = [msgtype |-> f.msgtype, ui |-> f.ui, unknown |-> <<>>]
  <2>1. SubSeq(f.ui, 1, N) = f.ui
    BY <1>1
  <2> QED
    BY <2>1 DEF UpTo
<1>5. a \in Nat /\ c \in Nat
  <2>1. a \in Nat
    BY FirstWritten DEF WrittenFor
  <2>2. SizesTo(f, N) \in Seq(Nat)
    BY <1>2, MoreWritten
  <2> QED
    BY <2>1, <2>2, TotalNat
<1>6. OutOf(f) = b \o f.unknown
  BY FirstWritten DEF OutOf, Begun
<1>7. SizeFor(f) = c + (a + WireSize(f.unknown))
  BY DEF SizeFor, FocusOwnSize, OwnFirst
<1>8. v \in FocusField /\ v \in UserField /\ v.type = "varint" /\ v.val = 300
      /\ ~Known(v, 1, "bytes") /\ ~Known(v, 2, "bytes") /\ Taken(v)
  <2>1. v = [num |-> 3, type |-> "varint", val |-> 300, sub |-> <<>>, len |-> 0, cut |-> "no"]
    BY DEF Varint
  <2>2. v \in FocusField /\ v \in UserField
    <3>1. 3 \in Nat /\ 300 \in Nat
      OBVIOUS
    <3> QED
      BY <3>1, FieldTypes
  <2> QED
    BY <2>1, <2>2 DEF Known, Taken
<1> HIDE DEF v, b, a, c
<1>9. b \in Seq(FocusField) /\ UpTo(f, N) \in FocusRead
  BY <1>3 DEF WrittenFor
<1>10. CASE f.unknown = <<>>
  <2>1. OutOf(f) = b
    BY <1>6, <1>9, <1>10
  <2>2. SizeFor(f) = a + c
    BY <1>5, <1>7, <1>10, WireSizeNothing
  <2>3. UpTo(f, N) = f
    BY <1>1, <1>4, <1>10
  <2> QED
    BY <1>3, <2>1, <2>2, <2>3
<1>11. CASE f.unknown = <<v>>
  <2>1. OutOf(f) = Append(b, v)
    BY <1>6, <1>8, <1>9, <1>11
  <2>2. WireSize(f.unknown) = Written(v)
    <3>1. f.unknown = Append(<<>>, v) /\ <<>> \in Seq(UserField)
      BY <1>11
    <3>2. WireSize(Append(<<>>, v)) = 0 + FieldSize(v)
      BY <1>8, <3>1, WireSizeAppend, WireSizeNothing
    <3>3. FieldSize(v) \in Nat
      BY <1>8, FieldSizeNat
    <3> QED
      BY <1>8, <3>1, <3>2, <3>3 DEF Written
  <2>3. SizeFor(f) = a + c + Written(v)
    <3>1. Written(v) \in Nat
      BY <1>8, WrittenNat
    <3> QED
      BY <1>5, <1>7, <2>2, <3>1
  <2>4. FocusTakes(UpTo(f, N), v) = f
    <3> DEFINE m == UpTo(f, N)
    <3>1. m.msgtype = f.msgtype /\ m.ui = f.ui /\ m.unknown = <<>>
      BY <1>4
    <3> HIDE DEF m
    <3>2. Append(m.unknown, v) = f.unknown
      BY <1>11, <3>1
    <3>3. FocusTakes(m, v) = [msgtype |-> m.msgtype, ui |-> m.ui, unknown |-> Append(m.unknown, v)]
      BY <1>8 DEF FocusTakes
    <3> QED
      BY <1>1, <3>1, <3>2, <3>3 DEF m
  <2>5. f \in FocusRead
    <3>1. f.unknown \in Seq(FocusField)
      BY <1>8, <1>11
    <3>2. f.ui \in Seq(UserRead)
      BY <1>4, <1>9 DEF FocusRead
    <3> QED
      BY <1>1, <3>1, <3>2 DEF FocusRead
  <2>6. Whole(v)
    BY <1>8, WholeIs
  <2>7. WrittenFor(Append(b, v), FocusTakes(UpTo(f, N), v), a + c + Written(v))
    BY <1>3, <1>8, <2>4, <2>5, <2>6, WrittenForMore
  <2> QED
    BY <2>1, <2>3, <2>4, <2>7
<1> QED
  BY <1>1, <1>10, <1>11

-----------------------------------------------------------------------------
(* The invariant of MessageSerialize.                                      *)

SenderType == [pc : {"rest", "size", "write", "done"}, i : Nat \ {0}, size : Nat,
               out : Seq(FocusField)]

\* The sizes of the first k ui of f are in c.
CachedTo(c, f, k) == \A j \in 1 .. k : c[j] = UserByteSize(f.ui[j])

\* Where a thread s is in serializing f, with the sizes c.
Progress(s, c, f) ==
    /\ s.i \in 1 .. Len(f.ui) + 1
    /\ s.pc = "rest"  => s = AtRest
    /\ s.pc = "size"  => /\ CachedTo(c, f, s.i - 1) /\ s.out = <<>>
                         /\ s.size = Total(SizesTo(f, s.i - 1))
    /\ s.pc = "write" => /\ CachedTo(c, f, Len(f.ui)) /\ s.size = SizeFor(f)
                         /\ s.out = OutTo(f, s.i - 1)
    /\ s.pc = "done"  => s.size = SizeFor(f) /\ s.out = OutOf(f)

SerializeInv ==
    /\ ft \in SomeFocus /\ cached_size \in [Slots -> Nat]
    /\ sender \in [Senders -> SenderType]
    /\ \A t \in Senders : Progress(sender[t], cached_size, ft)

SetAt(S, t, s) == [S EXCEPT ![t] = s]

LEMMA SetThere ==
    ASSUME NEW S \in [Senders -> SenderType], NEW t \in Senders, NEW s \in SenderType
    PROVE  /\ SetAt(S, t, s) \in [Senders -> SenderType] /\ SetAt(S, t, s)[t] = s
           /\ \A o \in Senders : o # t => SetAt(S, t, s)[o] = S[o]
  BY DEF SetAt

\* What the actions change of the record of a thread.
PcSet(S, t, p)       == [S EXCEPT ![t].pc = p]
SizeSet(S, t, k, z)  == [S EXCEPT ![t].i = k, ![t].size = z]
SizeEnd(S, t, p, k, z) == [S EXCEPT ![t].pc = p, ![t].i = k, ![t].size = z]
OutSet(S, t, k, o)   == [S EXCEPT ![t].i = k, ![t].out = o]
OutEnd(S, t, p, o)   == [S EXCEPT ![t].pc = p, ![t].out = o]

LEMMA SenderUpdates ==
    ASSUME NEW S \in [Senders -> SenderType], NEW t \in Senders
    PROVE  /\ \A p : PcSet(S, t, p) =
                 SetAt(S, t, [pc |-> p, i |-> S[t].i, size |-> S[t].size, out |-> S[t].out])
           /\ \A k, z : SizeSet(S, t, k, z) =
                 SetAt(S, t, [pc |-> S[t].pc, i |-> k, size |-> z, out |-> S[t].out])
           /\ \A p, k, z : SizeEnd(S, t, p, k, z) =
                 SetAt(S, t, [pc |-> p, i |-> k, size |-> z, out |-> S[t].out])
           /\ \A k, o : OutSet(S, t, k, o) =
                 SetAt(S, t, [pc |-> S[t].pc, i |-> k, size |-> S[t].size, out |-> o])
           /\ \A p, o : OutEnd(S, t, p, o) =
                 SetAt(S, t, [pc |-> p, i |-> S[t].i, size |-> S[t].size, out |-> o])
<1>1. ASSUME NEW p, NEW k, NEW z, NEW o
      PROVE  /\ PcSet(S, t, p) =
                   SetAt(S, t, [pc |-> p, i |-> S[t].i, size |-> S[t].size, out |-> S[t].out])
             /\ SizeSet(S, t, k, z) =
                   SetAt(S, t, [pc |-> S[t].pc, i |-> k, size |-> z, out |-> S[t].out])
             /\ SizeEnd(S, t, p, k, z) =
                   SetAt(S, t, [pc |-> p, i |-> k, size |-> z, out |-> S[t].out])
             /\ OutSet(S, t, k, o) =
                   SetAt(S, t, [pc |-> S[t].pc, i |-> k, size |-> S[t].size, out |-> o])
             /\ OutEnd(S, t, p, o) =
                   SetAt(S, t, [pc |-> p, i |-> S[t].i, size |-> S[t].size, out |-> o])
  <2>1. S = [j \in Senders |-> S[j]]
    OBVIOUS
  <2>2. PcSet(S, t, p) = SetAt(S, t, [S[t] EXCEPT !.pc = p])
    BY DEF SetAt, PcSet
  <2>3. SizeSet(S, t, k, z)
        = SetAt(S, t, [[S[t] EXCEPT !.i = k] EXCEPT !.size = z])
    BY <2>1 DEF SetAt, SizeSet
  <2>4. SizeEnd(S, t, p, k, z)
        = SetAt(S, t, [[[S[t] EXCEPT !.pc = p] EXCEPT !.i = k] EXCEPT !.size = z])
    BY <2>1 DEF SetAt, SizeEnd
  <2>5. OutSet(S, t, k, o)
        = SetAt(S, t, [[S[t] EXCEPT !.i = k] EXCEPT !.out = o])
    BY <2>1 DEF SetAt, OutSet
  <2>6. OutEnd(S, t, p, o)
        = SetAt(S, t, [[S[t] EXCEPT !.pc = p] EXCEPT !.out = o])
    BY <2>1 DEF SetAt, OutEnd
  <2>7. /\ [S[t] EXCEPT !.pc = p]
               = [pc |-> p, i |-> S[t].i, size |-> S[t].size, out |-> S[t].out]
        /\ [[S[t] EXCEPT !.i = k] EXCEPT !.size = z]
               = [pc |-> S[t].pc, i |-> k, size |-> z, out |-> S[t].out]
        /\ [[[S[t] EXCEPT !.pc = p] EXCEPT !.i = k] EXCEPT !.size = z]
               = [pc |-> p, i |-> k, size |-> z, out |-> S[t].out]
        /\ [[S[t] EXCEPT !.i = k] EXCEPT !.out = o]
               = [pc |-> S[t].pc, i |-> k, size |-> S[t].size, out |-> o]
        /\ [[S[t] EXCEPT !.pc = p] EXCEPT !.out = o]
               = [pc |-> p, i |-> S[t].i, size |-> S[t].size, out |-> o]
    <3> DEFINE s == S[t]
               a == s.pc
               b == s.i
               c == s.size
               d == s.out
    <3>1. s = [pc |-> a, i |-> b, size |-> c, out |-> d]
      BY DEF SenderType
    <3> HIDE DEF s, a, b, c, d
    <3> DEFINE x == [s EXCEPT !.pc = p]
               y == [s EXCEPT !.i = k]
               w == [x EXCEPT !.i = k]
    <3>2. x = [pc |-> p, i |-> b, size |-> c, out |-> d]
      BY <3>1
    <3>3. y = [pc |-> a, i |-> k, size |-> c, out |-> d]
      BY <3>1
    <3> HIDE DEF x, y
    <3>4. w = [pc |-> p, i |-> k, size |-> c, out |-> d]
      BY <3>2
    <3> HIDE DEF w
    <3>5. [w EXCEPT !.size = z] = [pc |-> p, i |-> k, size |-> z, out |-> d]
      BY <3>4
    <3>6. [y EXCEPT !.size = z] = [pc |-> a, i |-> k, size |-> z, out |-> d]
      BY <3>3
    <3>7. [y EXCEPT !.out = o] = [pc |-> a, i |-> k, size |-> c, out |-> o]
      BY <3>3
    <3>8. [x EXCEPT !.out = o] = [pc |-> p, i |-> b, size |-> c, out |-> o]
      BY <3>2
    <3> QED
      BY <3>2, <3>5, <3>6, <3>7, <3>8, Zenon DEF s, a, b, c, d, x, y, w
  <2> QED
    BY <2>2, <2>3, <2>4, <2>5, <2>6, <2>7, Zenon
<1>2. \A p : PcSet(S, t, p) =
         SetAt(S, t, [pc |-> p, i |-> S[t].i, size |-> S[t].size, out |-> S[t].out])
  BY <1>1
<1>3. \A k, z : SizeSet(S, t, k, z) =
         SetAt(S, t, [pc |-> S[t].pc, i |-> k, size |-> z, out |-> S[t].out])
  BY <1>1
<1>4. \A p, k, z : SizeEnd(S, t, p, k, z) =
         SetAt(S, t, [pc |-> p, i |-> k, size |-> z, out |-> S[t].out])
  BY <1>1
<1>5. \A k, o : OutSet(S, t, k, o) =
         SetAt(S, t, [pc |-> S[t].pc, i |-> k, size |-> S[t].size, out |-> o])
  BY <1>1
<1>6. \A p, o : OutEnd(S, t, p, o) =
         SetAt(S, t, [pc |-> p, i |-> S[t].i, size |-> S[t].size, out |-> o])
  BY <1>1
<1> QED
  BY <1>2, <1>3, <1>4, <1>5, <1>6, Zenon

LEMMA AtRestIs == AtRest \in SenderType /\ AtRest.pc = "rest" /\ AtRest.i = 1
<1>1. <<>> \in Seq(FocusField)
  OBVIOUS
<1>2. 1 \in Nat \ {0} /\ 0 \in Nat
  OBVIOUS
<1> QED
  BY <1>1, <1>2 DEF AtRest, SenderType

LEMMA AllAtRest ==
    ASSUME NEW f \in SomeFocus, NEW c
    PROVE  Progress(AtRest, c, f)
<1>1. Len(f.ui) \in Nat
  BY SomeFocusIs
<1> QED
  BY <1>1, AtRestIs DEF Progress

LEMMA SerializeInvInit == SerializeInit => SerializeInv
<1> SUFFICES ASSUME SerializeInit PROVE SerializeInv
  OBVIOUS
<1>1. ft \in SomeFocus
  BY NoFocusIsSome DEF SerializeInit
<1>2. cached_size \in [Slots -> Nat]
  BY DEF SerializeInit
<1>3. sender \in [Senders -> SenderType] /\ \A t \in Senders : sender[t] = AtRest
  BY AtRestIs DEF SerializeInit
<1>4. \A t \in Senders : Progress(sender[t], cached_size, ft)
  BY <1>1, <1>3, AllAtRest
<1> QED
  BY <1>1, <1>2, <1>3, <1>4 DEF SerializeInv

\* Sizes c are as good as b to a thread that serializes f: what was changed was
\* set right.
Refreshed(b, c, f) == \A j \in 1 .. Len(f.ui) : c[j] \in {b[j], UserByteSize(f.ui[j])}

LEMMA ProgressKept ==
    ASSUME NEW f \in SomeFocus, NEW s \in SenderType, NEW b, NEW c,
           Refreshed(b, c, f), Progress(s, b, f)
    PROVE  Progress(s, c, f)
<1>1. Len(f.ui) \in Nat /\ s.i \in 1 .. Len(f.ui) + 1
  BY SomeFocusIs DEF Progress
<1>2. ASSUME NEW k \in 0 .. Len(f.ui), CachedTo(b, f, k) PROVE CachedTo(c, f, k)
  <2> SUFFICES ASSUME NEW j \in 1 .. k PROVE c[j] = UserByteSize(f.ui[j])
    BY DEF CachedTo
  <2>1. j \in 1 .. Len(f.ui) /\ b[j] = UserByteSize(f.ui[j])
    BY <1>1, <1>2 DEF CachedTo
  <2> QED
    BY <2>1 DEF Refreshed
<1>3. s.i - 1 \in 0 .. Len(f.ui) /\ Len(f.ui) \in 0 .. Len(f.ui)
  BY <1>1
<1>4. s.pc = "size" => CachedTo(c, f, s.i - 1)
  BY <1>2, <1>3 DEF Progress
<1>5. s.pc = "write" => CachedTo(c, f, Len(f.ui))
  BY <1>2, <1>3 DEF Progress
<1> QED
  BY <1>4, <1>5 DEF Progress

\* A step of one thread.
LEMMA OneSends ==
    ASSUME SerializeInv, NEW t \in Senders, NEW s \in SenderType, NEW c \in [Slots -> Nat],
           UNCHANGED ft, cached_size' = c, sender' = SetAt(sender, t, s),
           Refreshed(cached_size, c, ft), Progress(s, c, ft)
    PROVE  SerializeInv'
<1>1. /\ ft \in SomeFocus /\ sender \in [Senders -> SenderType]
      /\ \A o \in Senders : Progress(sender[o], cached_size, ft)
  BY DEF SerializeInv
<1>2. /\ sender' \in [Senders -> SenderType] /\ sender'[t] = s
      /\ \A o \in Senders : o # t => sender'[o] = sender[o]
  BY <1>1, SetThere
<1>3. ASSUME NEW o \in Senders PROVE Progress(sender'[o], c, ft)
  <2>1. CASE o = t
    BY <1>2, <2>1
  <2>2. CASE o # t
    <3>1. sender[o] \in SenderType
      BY <1>1
    <3>2. Progress(sender[o], c, ft)
      BY <1>1, <3>1, ProgressKept
    <3> QED
      BY <1>2, <2>2, <3>2
  <2> QED
    BY <2>1, <2>2
<1> QED
  BY <1>1, <1>2, <1>3 DEF SerializeInv

LEMMA PlaceOf ==
    ASSUME NEW N \in Nat, NEW i \in 1 .. N + 1, i <= N
    PROVE  /\ i - 1 \in 0 .. N /\ i - 1 < N /\ (i - 1) + 1 = i /\ i \in 1 .. N /\ i \in Nat
           /\ i + 1 \in 1 .. N + 1 /\ (i + 1) - 1 = i
  OBVIOUS

LEMMA SerializeInvNext == SerializeInv /\ [SerializeNext]_serializeVars => SerializeInv'
<1> SUFFICES ASSUME SerializeInv, [SerializeNext]_serializeVars PROVE SerializeInv'
  OBVIOUS
<1> DEFINE N == Len(ft.ui)
           c == cached_size
<1>1. /\ ft \in SomeFocus /\ c \in [Slots -> Nat] /\ sender \in [Senders -> SenderType]
      /\ \A t \in Senders : Progress(sender[t], c, ft)
  BY DEF SerializeInv
<1>2. N \in 0 .. MaxUi /\ ft.ui \in Seq(SomeUser) /\ N \in Nat
  BY <1>1, SomeFocusIs
<1>3. Refreshed(c, c, ft)
  BY DEF Refreshed
<1>4. CASE Fill
  <2>1. ft' \in SomeFocus /\ cached_size' = c /\ sender' = [t \in Senders |-> AtRest]
    BY <1>4 DEF Fill
  <2>2. sender' \in [Senders -> SenderType] /\ \A t \in Senders : sender'[t] = AtRest
    BY <2>1, AtRestIs
  <2>3. \A t \in Senders : Progress(sender'[t], c, ft')
    BY <2>1, <2>2, AllAtRest
  <2> QED
    BY <1>1, <2>1, <2>2, <2>3 DEF SerializeInv
<1>5. ASSUME NEW t \in Senders,
             \/ SerializeToString(t) \/ ByteSizeUi(t) \/ ByteSize(t)
             \/ ToArrayUi(t) \/ ToArray(t)
      PROVE  SerializeInv'
  <2> DEFINE s == sender[t]
             i == s.i
  <2>1. s \in SenderType /\ Progress(s, c, ft)
    BY <1>1
  <2>2. i \in 1 .. N + 1 /\ s.size \in Nat /\ s.out \in Seq(FocusField)
    BY <2>1 DEF Progress, SenderType
  <2>3. CASE SerializeToString(t)
    <3> DEFINE r == [pc |-> "size", i |-> i, size |-> s.size, out |-> s.out]
    <3>1. s.pc = "rest" /\ sender' = SetAt(sender, t, r) /\ UNCHANGED <<ft, cached_size>>
      <4>1. /\ s.pc = "rest" /\ UNCHANGED <<ft, cached_size>>
            /\ sender' = PcSet(sender, t, "size")
        BY <2>3 DEF SerializeToString, PcSet
      <4>2. PcSet(sender, t, "size") = SetAt(sender, t, r)
        BY <1>1, SenderUpdates
      <4> QED
        BY <4>1, <4>2
    <3>2. i = 1 /\ s.size = 0 /\ s.out = <<>>
      BY <2>1, <3>1 DEF Progress, AtRest
    <3>3. r \in SenderType
      BY <2>2 DEF SenderType
    <3>4. SizesTo(ft, 0) = <<>> /\ CachedTo(c, ft, 0)
      BY DEF SizesTo, CachedTo
    <3>5. Progress(r, c, ft)
      <4>1. i - 1 = 0
        BY <3>2
      <4> QED
        BY <2>2, <3>2, <3>4, <4>1, TotalNothing DEF Progress
    <3> HIDE DEF r
    <3> QED
      BY <1>1, <1>3, <3>1, <3>3, <3>5, OneSends
  <2>4. CASE ByteSizeUi(t)
    <3> DEFINE n == UserByteSize(ft.ui[i])
               z == s.size + EmbeddedSize(n)
               r == [pc |-> s.pc, i |-> i + 1, size |-> z, out |-> s.out]
               d == [c EXCEPT ![i] = n]
    <3>1. /\ s.pc = "size" /\ i <= N /\ sender' = SetAt(sender, t, r) /\ UNCHANGED ft
          /\ cached_size' = d
      <4>1. /\ s.pc = "size" /\ i <= N /\ UNCHANGED ft /\ cached_size' = d
            /\ sender' = SizeSet(sender, t, i + 1, z)
        BY <2>4 DEF ByteSizeUi, SizeSet
      <4> HIDE DEF z
      <4>2. SizeSet(sender, t, i + 1, z) = SetAt(sender, t, r)
        BY <1>1, SenderUpdates
      <4> QED
        BY <4>1, <4>2
    <3>2. CachedTo(c, ft, i - 1) /\ s.out = <<>> /\ s.size = Total(SizesTo(ft, i - 1))
      BY <2>1, <3>1 DEF Progress
    <3>3. i - 1 \in 0 .. N /\ i - 1 < N /\ (i - 1) + 1 = i /\ i \in 1 .. N /\ i \in Slots
          /\ i \in Nat
      <4>1. N <= MaxUi /\ MaxUi \in Nat
        BY <1>2, SerializeAssumption
      <4> HIDE DEF N, i
      <4>2. /\ i - 1 \in 0 .. N /\ i - 1 < N /\ (i - 1) + 1 = i /\ i \in 1 .. N /\ i \in Nat
        BY <1>2, <2>2, <3>1, PlaceOf
      <4>3. i \in Slots
        BY <1>2, <4>1, <4>2 DEF Slots
      <4> QED
        BY <4>2, <4>3
    <3>4. /\ ft.ui[i] \in SomeUser /\ SizesTo(ft, i - 1) \in Seq(Nat)
          /\ SizesTo(ft, i) = Append(SizesTo(ft, i - 1), EmbeddedSize(n))
      BY <1>1, <3>3, MoreWritten
    <3>5. n \in Nat /\ EmbeddedSize(n) \in Nat
      BY <3>4, UserIsWritten, EmbeddedWritten
    <3>6. d \in [Slots -> Nat] /\ d[i] = n /\ \A j \in Slots : j # i => d[j] = c[j]
      BY <1>1, <3>3, <3>5
    <3>7. z \in Nat /\ z = Total(SizesTo(ft, i))
      <4> DEFINE g == EmbeddedSize(n)
                 a == SizesTo(ft, i - 1)
      <4> HIDE DEF n, g, a
      <4>1. Total(Append(a, g)) = Total(a) + g
        BY <3>4, <3>5, TotalAppend DEF g, a
      <4> QED
        BY <2>2, <3>2, <3>4, <3>5, <4>1 DEF g, a
    <3>8. r \in SenderType
      BY <2>1, <2>2, <3>3, <3>7 DEF SenderType
    <3>9. \A j \in 1 .. N : j \in Slots
      BY <1>2, SerializeAssumption DEF Slots
    <3> HIDE DEF d, n
    <3>10. Refreshed(c, d, ft)
      BY <3>6, <3>9 DEF Refreshed, n
    <3>11. CachedTo(d, ft, i)
      <4> SUFFICES ASSUME NEW j \in 1 .. i PROVE d[j] = UserByteSize(ft.ui[j])
        BY DEF CachedTo
      <4>1. j = i \/ j \in 1 .. i - 1
        BY <3>3
      <4>2. j \in Slots
        BY <3>3, <3>9
      <4> QED
        BY <3>2, <3>6, <4>1, <4>2, <3>3 DEF CachedTo, n
    <3>12. Progress(r, d, ft)
      <4>1. r.i = i + 1 /\ r.pc = "size" /\ r.size = z /\ r.out = <<>>
        BY <3>1, <3>2
      <4> HIDE DEF r
      <4>2. r.i \in 1 .. N + 1 /\ r.i - 1 = i
        BY <1>2, <3>3, <4>1
      <4> QED
        BY <3>7, <3>11, <4>1, <4>2 DEF Progress
    <3> HIDE DEF r
    <3> QED
      BY <3>1, <3>6, <3>8, <3>10, <3>12, OneSends
  <2>5. CASE ByteSize(t)
    <3> DEFINE z == s.size + FocusOwnSize(ft)
               r == [pc |-> "write", i |-> 1, size |-> z, out |-> s.out]
    <3>1. /\ s.pc = "size" /\ i > N /\ sender' = SetAt(sender, t, r)
          /\ UNCHANGED <<ft, cached_size>>
      <4>1. /\ s.pc = "size" /\ i > N /\ UNCHANGED <<ft, cached_size>>
            /\ sender' = SizeEnd(sender, t, "write", 1, z)
        BY <2>5 DEF ByteSize, SizeEnd
      <4> HIDE DEF z
      <4>2. SizeEnd(sender, t, "write", 1, z) = SetAt(sender, t, r)
        BY <1>1, SenderUpdates
      <4> QED
        BY <4>1, <4>2
    <3>2. i - 1 = N
      <4> HIDE DEF N, i
      <4> QED
        BY <1>2, <2>2, <3>1
    <3>3. CachedTo(c, ft, N) /\ s.out = <<>> /\ s.size = Total(SizesTo(ft, N))
      BY <2>1, <3>1, <3>2 DEF Progress
    <3>4. z = SizeFor(ft)
      BY <3>3 DEF SizeFor
    <3>5. z \in Nat
      BY <1>1, <3>4, FocusIsWritten DEF WrittenFor
    <3>6. r \in SenderType
      BY <2>2, <3>5 DEF SenderType
    <3>7. OutTo(ft, 0) = <<>>
      BY DEF OutTo
    <3>8. Progress(r, c, ft)
      <4>1. r.i = 1 /\ r.pc = "write" /\ r.size = z /\ r.out = <<>>
        BY <3>3
      <4> HIDE DEF r, z
      <4>2. r.i \in 1 .. N + 1 /\ r.i - 1 = 0
        BY <1>2, <4>1
      <4> QED
        BY <3>3, <3>4, <3>7, <4>1, <4>2 DEF Progress
    <3> HIDE DEF r
    <3> QED
      BY <1>1, <1>3, <3>1, <3>6, <3>8, OneSends
  <2>6. CASE ToArrayUi(t)
    <3> DEFINE e == Embedded(2, UserToArray(ft.ui[i]), c[i])
               w == Append(s.out, e)
               r == [pc |-> s.pc, i |-> i + 1, size |-> s.size, out |-> w]
    <3>1. /\ s.pc = "write" /\ i <= N /\ sender' = SetAt(sender, t, r)
          /\ UNCHANGED <<ft, cached_size>>
      <4>1. /\ s.pc = "write" /\ i <= N /\ UNCHANGED <<ft, cached_size>>
            /\ sender' = OutSet(sender, t, i + 1, w)
        BY <2>6 DEF ToArrayUi, OutSet
      <4> HIDE DEF w
      <4>2. OutSet(sender, t, i + 1, w) = SetAt(sender, t, r)
        BY <1>1, SenderUpdates
      <4> QED
        BY <4>1, <4>2
    <3>2. CachedTo(c, ft, N) /\ s.out = OutTo(ft, i - 1) /\ s.size = SizeFor(ft)
      BY <2>1, <3>1 DEF Progress
    <3>3. i - 1 \in 0 .. N /\ i - 1 < N /\ (i - 1) + 1 = i /\ i \in 1 .. N /\ i \in Nat
      <4> HIDE DEF N, i
      <4> QED
        BY <1>2, <2>2, <3>1, PlaceOf
    <3>4. e = EmbeddedOf(ft.ui[i])
      BY <3>2, <3>3 DEF CachedTo, EmbeddedOf
    <3>5. ft.ui[i] \in SomeUser /\ OutTo(ft, i) = Append(OutTo(ft, i - 1), EmbeddedOf(ft.ui[i]))
      BY <1>1, <3>3, MoreWritten
    <3>6. e \in FocusField
      BY <3>4, <3>5, EmbeddedWritten
    <3> HIDE DEF e
    <3>7. w \in Seq(FocusField) /\ w = OutTo(ft, i)
      BY <2>2, <3>2, <3>4, <3>5, <3>6
    <3> HIDE DEF w
    <3>8. r \in SenderType
      BY <2>1, <2>2, <3>3, <3>7 DEF SenderType
    <3>9. Progress(r, c, ft)
      <4>1. r.i = i + 1 /\ r.pc = "write" /\ r.size = s.size /\ r.out = w
        BY <3>1
      <4> HIDE DEF r
      <4>2. r.i \in 1 .. N + 1 /\ r.i - 1 = i
        BY <1>2, <3>3, <4>1
      <4> QED
        BY <3>2, <3>7, <4>1, <4>2 DEF Progress
    <3> HIDE DEF r
    <3> QED
      BY <1>1, <1>3, <3>1, <3>8, <3>9, OneSends DEF w, e
  <2>7. CASE ToArray(t)
    <3> DEFINE w == Present(ft.msgtype, Bytes(1, ft.msgtype.val)) \o s.out \o ft.unknown
               r == [pc |-> "done", i |-> i, size |-> s.size, out |-> w]
    <3>1. /\ s.pc = "write" /\ i > N /\ sender' = SetAt(sender, t, r)
          /\ UNCHANGED <<ft, cached_size>>
      <4>1. /\ s.pc = "write" /\ i > N /\ UNCHANGED <<ft, cached_size>>
            /\ sender' = OutEnd(sender, t, "done", w)
        BY <2>7 DEF ToArray, OutEnd
      <4> HIDE DEF w
      <4>2. OutEnd(sender, t, "done", w) = SetAt(sender, t, r)
        BY <1>1, SenderUpdates
      <4> QED
        BY <4>1, <4>2
    <3>2. i - 1 = N
      <4> HIDE DEF N, i
      <4> QED
        BY <1>2, <2>2, <3>1
    <3>3. s.out = OutTo(ft, N) /\ s.size = SizeFor(ft)
      BY <2>1, <3>1, <3>2 DEF Progress
    <3>4. w = OutOf(ft)
      BY <3>3 DEF OutOf
    <3>5. w \in Seq(FocusField)
      BY <1>1, <3>4, FocusIsWritten DEF WrittenFor
    <3> HIDE DEF w
    <3>6. r \in SenderType
      BY <2>1, <2>2, <3>5 DEF SenderType
    <3>7. Progress(r, c, ft)
      BY <2>2, <3>3, <3>4 DEF Progress
    <3> HIDE DEF r
    <3> QED
      BY <1>1, <1>3, <3>1, <3>6, <3>7, OneSends DEF w
  <2> QED
    BY <1>5, <2>3, <2>4, <2>5, <2>6, <2>7
<1>6. CASE UNCHANGED serializeVars
  BY <1>6 DEF serializeVars, SerializeInv
<1> QED
  BY <1>4, <1>5, <1>6 DEF SerializeNext

LEMMA SerializeInvMeans == SerializeInv => SerializedRight
<1> SUFFICES ASSUME SerializeInv, NEW t \in Senders, sender[t].pc = "done"
             PROVE  LET out == sender[t].out
                    IN  /\ \A i \in DOMAIN out : Known(out[i], 2, "bytes")
                                                 => out[i].len = WireSize(out[i].sub)
                        /\ Total([i \in DOMAIN out |-> Written(out[i])]) = sender[t].size
                        /\ FocusParsed(NoFocus, out) = [msg |-> ft, run |-> "go"]
  BY DEF SerializedRight
<1> DEFINE o == sender[t].out
<1>1. ft \in SomeFocus /\ o = OutOf(ft) /\ sender[t].size = SizeFor(ft)
  BY DEF SerializeInv, Progress
<1>2. WrittenFor(o, ft, SizeFor(ft))
  BY <1>1, FocusIsWritten
<1> HIDE DEF o
<1>3. DOMAIN o = 1 .. Len(o)
  BY <1>2 DEF WrittenFor
<1>4. \A i \in DOMAIN o : Known(o[i], 2, "bytes") => o[i].len = WireSize(o[i].sub)
  BY <1>2, <1>3 DEF WrittenFor, LensRight
<1>5. Total([i \in DOMAIN o |-> Written(o[i])]) = SizeFor(ft)
  BY <1>2 DEF WrittenFor, BytesWritten
<1>6. FocusParsed(NoFocus, o) = [msg |-> ft, run |-> "go"]
  BY <1>2 DEF WrittenFor
<1> QED
  BY <1>1, <1>4, <1>5, <1>6, Zenon DEF o

\* SerializedRight: when a thread is done, the size it got is that of what it
\* wrote, and what it wrote parses back to the message, however the threads
\* shared _cached_size_: ByteSize and SerializeWithCachedSizesToArray of
\* message.pb.cc.
THEOREM SerializesSafe == SerializeSpec => []SerializedRight
<1>1. SerializeSpec => []SerializeInv
  BY SerializeInvInit, SerializeInvNext, PTL DEF SerializeSpec
<1> QED
  BY <1>1, SerializeInvMeans, PTL

-----------------------------------------------------------------------------
(* The types of all programs, and SmallPrograms as a whole.                *)

LEMMA SerializeTypes == SerializeInv => SerializeTypeOK
<1> SUFFICES ASSUME SerializeInv PROVE SerializeTypeOK
  OBVIOUS
<1> DEFINE T == [userid : Opt, username : Opt, unknown : {<<>>}]
<1>1. ft.ui \in Seq(SomeUser) /\ Len(ft.ui) \in 0 .. MaxUi
  BY SomeFocusIs DEF SerializeInv
<1>2. ft.ui \in Seq(T)
  <2>1. ASSUME NEW u \in SomeUser PROVE u \in T
    <3>1. Plain(u.userid) /\ Plain(u.username)
          /\ u = [userid |-> u.userid, username |-> u.username, unknown |-> <<>>]
      BY SomeUserIs
    <3>2. u.userid \in Opt /\ u.username \in Opt
      BY <3>1 DEF Plain
    <3>3. [userid |-> u.userid, username |-> u.username, unknown |-> <<>>] \in T
      BY <3>2
    <3> QED
      BY <3>1, <3>3, Zenon
  <2> HIDE DEF T
  <2> QED
    BY <1>1, <2>1
<1>3. ASSUME NEW t \in Senders
      PROVE  /\ sender[t].pc \in {"rest", "size", "write", "done"}
             /\ sender[t].i \in 1 .. Len(ft.ui) + 1
  BY DEF SerializeInv, SenderType, Progress
<1>4. cached_size \in [Slots -> Nat]
  BY DEF SerializeInv
<1> QED
  BY <1>1, <1>2, <1>3, <1>4, SerializeAssumption DEF SerializeTypeOK, Opt

LEMMA ParseTypes == ParseInv => ParseTypeOK
<1> SUFFICES ASSUME ParseInv PROVE ParseTypeOK
  OBVIOUS
<1>1. ok \in BOOLEAN /\ merges \in 0 .. MaxMerges /\ ft1 \in FocusRead /\ stop \in FocusField
  BY DEF ParseInv
<1>2. ft1.msgtype \in Opt /\ ft1.ui \in Seq(UserRead)
  BY <1>1 DEF FocusRead
<1>3. ASSUME NEW i \in DOMAIN ft1.ui PROVE ft1.ui[i].userid \in Opt /\ ft1.ui[i].username \in Opt
  <2>1. ft1.ui[i] \in UserRead
    BY <1>2, <1>3
  <2> QED
    BY <2>1 DEF UserRead
<1>4. stop.num \in Nat /\ stop.type \in TypesOf /\ stop.cut \in CutAt
  BY <1>1 DEF FocusField
<1> QED
  BY <1>1, <1>2, <1>3, <1>4 DEF ParseTypeOK, Opt, TypesOf, CutAt

\* No body is handed out twice, so there are no more of them than headers.
LEMMA BodiesAreFew == HandlerInv => Len(bodies) <= Len(stream)
<1> SUFFICES ASSUME HandlerInv PROVE Len(bodies) <= Len(stream)
  OBVIOUS
<1> DEFINE k == [i \in 1 .. Len(bodies) |->
                    CHOOSE n \in 1 .. Len(stream) : BodyOf(stream[n]) = bodies[i]]
<1>1. /\ bodies \in Seq([at : Nat, len : Nat]) /\ stream \in Seq(Headers)
      /\ Len(bodies) \in Nat /\ DOMAIN bodies = 1 .. Len(bodies)
      /\ Len(stream) \in Nat /\ DOMAIN stream = 1 .. Len(stream)
  BY DEF HandlerInv, LocalsOK, Placed
<1>2. ASSUME NEW i \in 1 .. Len(bodies)
      PROVE  \E n \in 1 .. Len(stream) : BodyOf(stream[n]) = bodies[i]
  <2>1. bodies[i] \in Range(bodies)
    BY <1>1 DEF Range
  <2>2. bodies[i] \in BodiesIn(sent)
    BY <2>1 DEF HandlerInv, BodiesFirst
  <2>3. PICK h \in Range(stream) : bodies[i] = BodyOf(h)
    BY <2>2 DEF BodiesIn
  <2>4. PICK n \in 1 .. Len(stream) : h = stream[n]
    BY <1>1 DEF Range
  <2> QED
    BY <2>3, <2>4
<1>3. ASSUME NEW i \in 1 .. Len(bodies)
      PROVE  k[i] \in 1 .. Len(stream) /\ BodyOf(stream[k[i]]) = bodies[i]
  BY <1>2
<1>4. k \in [1 .. Len(bodies) -> 1 .. Len(stream)]
  <2>1. k = [i \in 1 .. Len(bodies) |-> k[i]]
    OBVIOUS
  <2> HIDE DEF k
  <2> QED
    BY <1>3, <2>1
<1> HIDE DEF k
<1>5. ASSUME NEW i \in 1 .. Len(bodies), NEW j \in 1 .. Len(bodies), k[i] = k[j]
      PROVE  i = j
  <2>1. bodies[i] = bodies[j]
    BY <1>3, <1>5
  <2>2. \A a, b \in 1 .. Len(bodies) : a < b => bodies[a].at < bodies[b].at
    BY <1>1 DEF HandlerInv, BodiesFirst
  <2>3. bodies[i].at \in Nat /\ bodies[j].at \in Nat
    <3> DEFINE T == [at : Nat, len : Nat]
    <3>1. \A b \in T : b.at \in Nat
      OBVIOUS
    <3>2. bodies[i] \in T /\ bodies[j] \in T
      <4>1. bodies \in Seq(T)
        BY <1>1
      <4> HIDE DEF T
      <4> QED
        BY <4>1, ElementOfSeq
    <3> QED
      BY <3>1, <3>2
  <2>4. ~ (i < j) /\ ~ (j < i)
    BY <2>1, <2>2, <2>3
  <2> QED
    BY <1>1, <2>4
<1>6. k \in Injection(1 .. Len(bodies), 1 .. Len(stream))
  BY <1>4, <1>5 DEF Injection, IsInjective
<1>7. /\ IsFiniteSet(1 .. Len(stream))
      /\ Cardinality(1 .. Len(bodies)) = Len(bodies)
      /\ Cardinality(1 .. Len(stream)) = Len(stream)
  <2>1. 1 \in Int /\ Len(bodies) \in Int /\ Len(stream) \in Int
    BY <1>1
  <2>2. /\ IsFiniteSet(1 .. Len(stream))
        /\ Cardinality(1 .. Len(bodies)) = IF 1 > Len(bodies) THEN 0 ELSE Len(bodies) - 1 + 1
        /\ Cardinality(1 .. Len(stream)) = IF 1 > Len(stream) THEN 0 ELSE Len(stream) - 1 + 1
    BY <2>1, FS_Interval
  <2> QED
    BY <1>1, <2>2
<1>8. Cardinality(1 .. Len(bodies)) <= Cardinality(1 .. Len(stream))
  BY <1>6, <1>7, FS_Injection
<1> QED
  BY <1>7, <1>8

LEMMA HandlerTypes == HandlerInv /\ sessionkey \in BOOLEAN => HandlerTypeOK
<1> SUFFICES ASSUME HandlerInv, sessionkey \in BOOLEAN PROVE HandlerTypeOK
  OBVIOUS
<1>1. /\ handler.pc \in {"header", "body", "cleanup", "closed", "raised"}
      /\ handler.at \in Nat /\ handler.data \in 0 .. handler.total
      /\ handler.left = handler.total - handler.data /\ logouts \in 0 .. 2
  BY DEF HandlerInv, LocalsOK
<1>2. sent \in 0 .. StreamEnd /\ eof \in BOOLEAN
  BY DEF HandlerInv, Placed
<1> QED
  BY <1>1, <1>2, BodiesAreFew DEF HandlerTypeOK

LEMMA KeyKept ==
    ASSUME sessionkey \in BOOLEAN, [HandlerNext]_handlerVars
    PROVE  sessionkey' \in BOOLEAN
<1>1. sessionkey' = sessionkey \/ sessionkey' = (server = "pyserver")
  BY DEF HandlerNext, handlerVars, Send, Arrive, End, recv, NoData, recvRaises,
         Header, Body, Cleanup
<1> QED
  BY <1>1

\* Each program of SmallPrograms, the others aside, is the program of its module.
LEMMA EachIsItself ==
    Spec => /\ ObjectSpec /\ SerializeSpec /\ ParseSpec /\ CaptureSpec
            /\ LogSpec /\ DirsSpec /\ HandlerSpec
<1>1. Init => /\ ObjectInit /\ SerializeInit /\ ParseInit /\ CaptureInit
              /\ LogInit /\ DirsInit /\ HandlerInit
  BY DEF Init
<1>2. ASSUME [Next]_vars
      PROVE  /\ [ObjectNext]_objectVars /\ [SerializeNext]_serializeVars
             /\ [ParseNext]_parseVars /\ [CaptureNext]_captureVars
             /\ [LogNext]_logVars /\ [DirsNext]_dirsVars /\ [HandlerNext]_handlerVars
  <2>1. CASE UNCHANGED vars
    <3>1. /\ UNCHANGED objectVars /\ UNCHANGED serializeVars /\ UNCHANGED parseVars
          /\ UNCHANGED captureVars /\ UNCHANGED logVars /\ UNCHANGED dirsVars
          /\ UNCHANGED handlerVars
      BY <2>1 DEF vars
    <3> QED
      BY <3>1
  <2>2. CASE Next
    BY <2>2 DEF Next, Runs
  <2> QED
    BY <1>2, <2>1, <2>2
<1> QED
  BY <1>1, <1>2, PTL DEF Spec, ObjectSpec, SerializeSpec, ParseSpec, CaptureSpec,
                         LogSpec, DirsSpec, HandlerSpec

\* TypeOK of SmallPrograms: every variable of every program has its type and
\* keeps within its bounds.
THEOREM TypeCorrect == Spec => []TypeOK
<1>1. SerializeSpec => []SerializeTypeOK
  <2>1. SerializeSpec => []SerializeInv
    BY SerializeInvInit, SerializeInvNext, PTL DEF SerializeSpec
  <2> QED
    BY <2>1, SerializeTypes, PTL
<1>2. ParseSpec => []ParseTypeOK
  BY ParseInvInit, ParseInvNext, ParseTypes, PTL DEF ParseSpec
<1>3. CaptureSpec => []CaptureTypeOK
  <2>1. CaptureInv => CaptureTypeOK
    BY DEF CaptureInv
  <2> QED
    BY <2>1, CaptureInvInit, CaptureInvNext, PTL DEF CaptureSpec
<1>4. DirsSpec => []DirsTypeOK
  <2>1. DirsInv => DirsTypeOK
    BY DEF DirsInv
  <2>2. DirsSpec => []DirsInv
    BY DirsInvInit, DirsInvNext, PTL DEF DirsSpec
  <2> QED
    BY <2>1, <2>2, PTL
<1>5. HandlerSpec => []HandlerTypeOK
  <2> DEFINE I == HandlerInv /\ sessionkey \in BOOLEAN
  <2>1. HandlerInit => I
    BY HandlerInitOK DEF HandlerInit
  <2>2. I /\ [HandlerNext]_handlerVars => I'
    BY HandlerStepOK, KeyKept
  <2>3. I => HandlerTypeOK
    BY HandlerTypes
  <2> HIDE DEF I
  <2> QED
    BY <2>1, <2>2, <2>3, PTL DEF HandlerSpec
<1>6. Spec => [](program \in Programs)
  <2>1. Init => program \in Programs
    BY DEF Init
  <2>2. program \in Programs /\ [Next]_vars => (program \in Programs)'
    BY DEF Next, Runs, vars
  <2> QED
    BY <2>1, <2>2, PTL DEF Spec
<1> QED
  BY <1>1, <1>2, <1>3, <1>4, <1>5, <1>6, EachIsItself, ObjectTypesSafe, LogTypesSafe, PTL
     DEF TypeOK

=============================================================================
