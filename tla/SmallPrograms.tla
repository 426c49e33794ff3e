---------------------------- MODULE SmallPrograms ----------------------------
(***************************************************************************)
(* The smaller programs of the repository, which share nothing with one    *)
(* another, side by side: a run is a run of one of them.                   *)
(***************************************************************************)
EXTENDS MessageObject, MessageSerialize, MessageParse,
        PacketCapture, LogProcesses, CreateDirs, PyHandler

VARIABLE program    \* the program that runs

vars == <<program, objectVars, serializeVars, parseVars, captureVars,
          logVars, dirsVars, handlerVars>>

Programs == {"objects", "serialize", "parse", "capture", "log", "dirs", "handler"}

Init ==
    /\ program \in Programs
    /\ ObjectInit /\ SerializeInit /\ ParseInit
    /\ CaptureInit /\ LogInit /\ DirsInit /\ HandlerInit
    /\ program # "handler" => server = "gevent"
    /\ program # "capture" => tool = "sniffex"

\* Program p takes a step, and the others do not run.
Runs(p) ==
    /\ program = p /\ UNCHANGED program
    /\ p # "objects"   => UNCHANGED objectVars
    /\ p # "serialize" => UNCHANGED serializeVars
    /\ p # "parse"     => UNCHANGED parseVars
    /\ p # "capture"   => UNCHANGED captureVars
    /\ p # "log"       => UNCHANGED logVars
    /\ p # "dirs"      => UNCHANGED dirsVars
    /\ p # "handler"   => UNCHANGED handlerVars

Next ==
    \/ Runs("objects")   /\ ObjectNext
    \/ Runs("serialize") /\ SerializeNext
    \/ Runs("parse")     /\ ParseNext
    \/ Runs("capture")   /\ CaptureNext
    \/ Runs("log")       /\ LogNext
    \/ Runs("dirs")      /\ DirsNext
    \/ Runs("handler")   /\ HandlerNext

Spec == Init /\ [][Next]_vars

\* Every variable of every program has its type.
TypeOK ==
    /\ ObjectTypeOK /\ SerializeTypeOK /\ ParseTypeOK
    /\ CaptureTypeOK /\ LogTypeOK /\ DirsTypeOK /\ HandlerTypeOK
    /\ program \in Programs

=============================================================================
