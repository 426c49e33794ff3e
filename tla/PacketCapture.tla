---------------------------- MODULE PacketCapture ----------------------------
(***************************************************************************)
(* The packet sniffers of dev_examples/network_capture: example/sniffex.c  *)
(* and src/custcap.c.  main opens the device and installs the filter, and  *)
(* pcap_loop calls got_packet with each frame, which follows the header    *)
(* lengths to the TCP payload and prints its size; sniffex prints the      *)
(* payload too, in lines of sixteen bytes.                                 *)
(*                                                                         *)
(* Bytes are known by their position in the frame.  Frames are those a     *)
(* network card delivers: they hold the IP packet whose length they state, *)
(* padded to the least length of a frame.                                  *)
(***************************************************************************)
EXTENDS Integers, Sequences, FiniteSets

CONSTANTS
    IpWords,     \* header lengths, in words, that IP headers state
    TcpWords,    \* and TCP headers
    Payloads,    \* lengths of TCP payloads
    MaxFrames    \* bound: frames captured

ASSUME CaptureAssumption ==
    /\ IpWords \subseteq 0 .. 15 /\ TcpWords \subseteq 0 .. 15
    /\ Payloads \subseteq Nat /\ MaxFrames \in Nat

VARIABLES
    tool,        \* the program
    sniffer,     \* where it is
    counter,     \* packets counted
    frame,       \* the frame got_packet is called with
    size,        \* the size printed of its payload, or -1
    rest,        \* print_payload: ch, len_rem and offset
    lines        \* the lines printed of this frame: their bytes and offsets

captureVars == <<tool, sniffer, counter, frame, size, rest, lines>>

SIZE_ETHERNET == 14
LINE_WIDTH    == 16
MIN_FRAME     == 60

Greater(a, b) == IF a > b THEN a ELSE b

NoFrame == [protocol |-> "none", hl |-> 0, off |-> 0, ip_len |-> 0, caplen |-> 0]

Frame(p, i, o, s) ==
    LET n == 4 * Greater(i, 5) + 4 * Greater(o, 5) + s
    IN  [protocol |-> p, hl |-> i, off |-> o, ip_len |-> n,
         caplen |-> Greater(SIZE_ETHERNET + n, MIN_FRAME)]

Frames == {Frame(p, i, o, s) : p \in {"tcp", "udp", "icmp", "ip", "other"},
                               i \in IpWords, o \in TcpWords, s \in Payloads}

\* The calls of main, in order.  All but pcap_lookupnet end the program when
\* they fail.  "lookupdev" stands for the device: sniffex takes that of the
\* command line or looks for one, custcap returns when none is named.
Calls == <<"lookupdev", "lookupnet", "open_live", "datalink", "compile", "setfilter">>

CaptureInit ==
    /\ tool \in {"sniffex", "custcap"}
    /\ sniffer = Calls[1] /\ counter = 0 /\ frame = NoFrame /\ size = -1
    /\ rest = [ch |-> 0, len_rem |-> 0, offset |-> 0] /\ lines = <<>>

SetUp(k) ==
    /\ sniffer = Calls[k]
    /\ \/ sniffer' = IF k < Len(Calls) THEN Calls[k + 1] ELSE "loop"
       \/ sniffer' = "exited" /\ Calls[k] # "lookupnet"
    /\ UNCHANGED <<tool, counter, frame, size, rest, lines>>

\* pcap_loop ends on an error of the device only; main frees and closes.
LoopEnds ==
    /\ sniffer = "loop"
    /\ sniffer' = "closed"
    /\ UNCHANGED <<tool, counter, frame, size, rest, lines>>

Line(from, len, offset) == [from |-> from, len |-> len, offset |-> offset]

\* Mutant of print_payload: a payload that fills one line goes to the loop.
print_payloadLess(payload, len) ==
    /\ lines' = IF len \in 1 .. LINE_WIDTH - 1 THEN <<Line(payload, len, 0)>> ELSE <<>>
    /\ rest' = [ch |-> payload, len_rem |-> len, offset |-> 0]
    /\ sniffer' = IF len >= LINE_WIDTH THEN "print" ELSE "loop"

\* print_payload up to its loop.
print_payload(payload, len) ==
    /\ lines' = IF len \in 1 .. LINE_WIDTH THEN <<Line(payload, len, 0)>> ELSE <<>>
    /\ rest' = [ch |-> payload, len_rem |-> len, offset |-> 0]
    /\ sniffer' = IF len > LINE_WIDTH THEN "print" ELSE "loop"

\* Headers shorter than they may be, and protocols other than TCP, are left
\* without looking further.
Dissects(f) == f.hl * 4 >= 20 /\ f.protocol = "tcp" /\ f.off * 4 >= 20

\* In custcap the call of print_payload is commented out.
got_packet(f) ==
    LET size_ip      == f.hl * 4
        size_tcp     == f.off * 4
        size_payload == f.ip_len - (size_ip + size_tcp)
    IN  /\ sniffer = "loop" /\ counter < MaxFrames
        /\ counter' = counter + 1 /\ frame' = f
        /\ size' = IF Dissects(f) THEN size_payload ELSE -1
        /\ IF Dissects(f) /\ size_payload > 0 /\ tool = "sniffex"
           THEN print_payload(SIZE_ETHERNET + size_ip + size_tcp, size_payload)
           ELSE lines' = <<>> /\ UNCHANGED <<sniffer, rest>>
        /\ UNCHANGED tool

\* One iteration of print_payload's loop; the last prints two lines.
PrintLine ==
    LET line_len == LINE_WIDTH % rest.len_rem
        left     == [ch      |-> rest.ch + line_len,
                     len_rem |-> rest.len_rem - line_len,
                     offset  |-> rest.offset + LINE_WIDTH]
        line     == Line(rest.ch, line_len, rest.offset)
        last     == Line(left.ch, left.len_rem, left.offset)
    IN  /\ sniffer = "print"
        /\ rest' = left
        /\ IF left.len_rem <= LINE_WIDTH
           THEN lines' = lines \o <<line, last>> /\ sniffer' = "loop"
           ELSE lines' = Append(lines, line) /\ UNCHANGED sniffer
        /\ UNCHANGED <<tool, counter, frame, size>>

CaptureNext ==
    \/ \E k \in DOMAIN Calls : SetUp(k)
    \/ \E f \in Frames : got_packet(f)
    \/ PrintLine \/ LoopEnds

CaptureSpec == CaptureInit /\ [][CaptureNext]_captureVars

-----------------------------------------------------------------------------
(* Properties.                                                             *)

CaptureTypeOK ==
    /\ sniffer \in {Calls[k] : k \in DOMAIN Calls} \cup {"loop", "print", "closed", "exited"}
    /\ tool \in {"sniffex", "custcap"}
    /\ counter \in 0 .. MaxFrames /\ size \in Int
    /\ rest \in [ch : Nat, len_rem : Int, offset : Nat]
    /\ lines \in Seq([from : Nat, len : Nat, offset : Nat])

\* The bytes of a frame that are TCP payload: not the padding after it.
IsTcp(f) == f.protocol = "tcp" /\ f.hl >= 5 /\ f.off >= 5

PayloadOf(f) ==
    IF IsTcp(f)
    THEN SIZE_ETHERNET + 4 * f.hl + 4 * f.off .. SIZE_ETHERNET + f.ip_len - 1
    ELSE {}

BytesOf(l) == l.from .. l.from + l.len - 1

\* When got_packet returns, the size it printed is that of the payload, and the
\* lines of sniffex hold every byte of it once, in order, and nothing else of
\* the frame; all lines but the last are full, and each begins with the offset
\* of its first byte.
PayloadPrintedOnce ==
    sniffer = "loop" =>
        /\ size = IF IsTcp(frame) THEN Cardinality(PayloadOf(frame)) ELSE -1
        /\ UNION {BytesOf(lines[k]) : k \in DOMAIN lines}
              = IF tool = "sniffex" THEN PayloadOf(frame) ELSE {}
        /\ \A k \in DOMAIN lines :
            /\ lines[k].len \in 1 .. LINE_WIDTH
            /\ lines[k].offset = lines[k].from - lines[1].from
            /\ k > 1 => /\ lines[k].from = lines[k - 1].from + LINE_WIDTH
                        /\ lines[k - 1].len = LINE_WIDTH
            /\ lines[k].from + lines[k].len <= frame.caplen

=============================================================================
