---------------------------- MODULE FrameReader ----------------------------
(***************************************************************************)
(* readcb of the three libevent echo servers: how the bytes of one         *)
(* connection become frames (4 bytes of length in network order, then the  *)
(* body).  The socket hands over bytes in chunks of any size; the state    *)
(* kept between two calls is recvingHeader and bodySize                    *)
(* (SessionInfo, or the maps _fd_recvHeader and _fd_sessionInfo).          *)
(*                                                                         *)
(* The servers differ in what an oversize length does: the multi-thread    *)
(* server returns from readcb, the other two call exit(0).                 *)
(***************************************************************************)
EXTENDS Integers, Sequences

CONSTANTS
    Base,       \* values of a byte (256)
    MaxBody,    \* largest accepted body: 1024000, or 1000
    Policies,   \* subset of {"return", "exit"}
    MaxBytes    \* bound: bytes the peer sends

ASSUME BaseAssumption == Base \in Nat \ {0}
ASSUME MaxBodyAssumption == MaxBody \in Nat
ASSUME MaxBytesAssumption == MaxBytes \in Nat
ASSUME PoliciesAssumption == Policies \subseteq {"return", "exit"}

Byte == 0 .. Base - 1

VARIABLES
    pc,             \* "wait", "fresh" (bytes came, readcb not yet called),
                    \* "loop" (inside readcb), "exited"
    input,          \* Seq(Byte): the input evbuffer
    recvingHeader,
    bodySize,
    frames,         \* the frames queued or echoed: position and body
    received,       \* Seq(Byte): all bytes that ever came (history)
    pos,            \* how many of them left input (history)
    trusted,        \* frames dispatched before the first oversize length
    oversize,       \* an oversize length was met (history)
    policy          \* what this server does on an oversize length

vars == <<pc, input, recvingHeader, bodySize, frames, received, pos, trusted,
          oversize, policy>>

Init ==
    /\ pc = "wait" /\ input = <<>> /\ recvingHeader = TRUE /\ bodySize = 0
    /\ frames = <<>> /\ received = <<>> /\ pos = 0 /\ trusted = 0
    /\ oversize = FALSE /\ policy \in Policies

\* ntohl of four bytes.
Ntohl(a, b, c, d) == ((a * Base + b) * Base + c) * Base + d

\* evbuffer_remove(input, ..., n)
Drain(n) ==
    /\ input' = SubSeq(input, n + 1, Len(input))
    /\ pos' = pos + n

\* A chunk is read from the socket, byte by byte in the model, and then
\* libevent calls readcb.
Receive(b) ==
    /\ pc \in {"wait", "fresh"} /\ Len(received) < MaxBytes
    /\ input' = Append(input, b)
    /\ received' = Append(received, b)
    /\ pc' = "fresh"
    /\ UNCHANGED <<recvingHeader, bodySize, frames, pos, trusted, oversize,
                   policy>>

Call ==
    /\ pc = "fresh" /\ pc' = "loop"
    /\ UNCHANGED <<input, recvingHeader, bodySize, frames, received, pos,
                   trusted, oversize, policy>>

\* Mutant of Break: a short header does not leave the loop.
BreakOnBodyOnly ==
    /\ pc = "loop"
    /\ Len(input) = 0 \/ (~recvingHeader /\ Len(input) < bodySize)
    /\ pc' = "wait"
    /\ UNCHANGED <<input, recvingHeader, bodySize, frames, received, pos,
                   trusted, oversize, policy>>

\* The loop ends on an empty buffer, on less than a header when one is
\* expected, and on less than a body when one is.
Break ==
    /\ pc = "loop"
    /\ Len(input) < IF recvingHeader THEN 4 ELSE IF bodySize > 0 THEN bodySize ELSE 1
    /\ pc' = "wait"
    /\ UNCHANGED <<input, recvingHeader, bodySize, frames, received, pos,
                   trusted, oversize, policy>>

\* Mutant of ReadHeader: the limit is not enforced.
ReadHeaderNoLimit ==
    /\ pc = "loop" /\ recvingHeader /\ Len(input) >= 4
    /\ Drain(4)
    /\ recvingHeader' = FALSE
    /\ LET size == Ntohl(input[1], input[2], input[3], input[4])
       IN  /\ bodySize' = size
           /\ pc' = IF Len(input) - 4 < size THEN "wait" ELSE "loop"
    /\ UNCHANGED <<frames, received, trusted, oversize, policy>>

\* Mutant of ReadHeader: readcb returns after every header.
ReadHeaderReturns ==
    /\ pc = "loop" /\ recvingHeader /\ Len(input) >= 4
    /\ Drain(4)
    /\ recvingHeader' = FALSE
    /\ pc' = "wait"
    /\ LET size == Ntohl(input[1], input[2], input[3], input[4])
       IN  IF size > MaxBody
           THEN oversize' = TRUE /\ UNCHANGED bodySize
           ELSE bodySize' = size /\ UNCHANGED oversize
    /\ UNCHANGED <<frames, received, trusted, policy>>

\* A complete header.  recvingHeader is cleared before the size is looked at,
\* and an oversize length leaves bodySize at the size of an earlier frame.
ReadHeader ==
    /\ pc = "loop" /\ recvingHeader /\ Len(input) >= 4
    /\ Drain(4)
    /\ recvingHeader' = FALSE
    /\ LET size == Ntohl(input[1], input[2], input[3], input[4])
       IN  IF size > MaxBody
           THEN /\ pc' = IF policy = "exit" THEN "exited" ELSE "wait"
                /\ oversize' = TRUE
                /\ UNCHANGED bodySize
           ELSE /\ bodySize' = size
                /\ pc' = IF Len(input) - 4 < size THEN "wait" ELSE "loop"
                /\ UNCHANGED oversize
    /\ UNCHANGED <<frames, received, trusted, policy>>

\* Mutant of ReadBody: the flag is not set back.
ReadBodyKeepsFlag ==
    /\ pc = "loop" /\ ~recvingHeader
    /\ Len(input) > 0 /\ Len(input) >= bodySize
    /\ Drain(bodySize)
    /\ frames' = Append(frames, [at |-> pos, body |-> SubSeq(input, 1, bodySize)])
    /\ trusted' = IF oversize THEN trusted ELSE trusted + 1
    /\ pc' = IF Len(input) - bodySize < 4 THEN "wait" ELSE "loop"
    /\ UNCHANGED <<recvingHeader, bodySize, received, oversize, policy>>

\* A complete body is queued (multi-thread server) or echoed.  With fewer than
\* four bytes left readcb returns.
ReadBody ==
    /\ pc = "loop" /\ ~recvingHeader
    /\ Len(input) > 0 /\ Len(input) >= bodySize
    /\ Drain(bodySize)
    /\ frames' = Append(frames, [at |-> pos, body |-> SubSeq(input, 1, bodySize)])
    /\ trusted' = IF oversize THEN trusted ELSE trusted + 1
    /\ recvingHeader' = TRUE
    /\ pc' = IF Len(input) - bodySize < 4 THEN "wait" ELSE "loop"
    /\ UNCHANGED <<bodySize, received, oversize, policy>>

readcb == Break \/ ReadHeader \/ ReadBody

Next == (\E b \in Byte : Receive(b)) \/ Call \/ readcb

\* libevent calls readcb when bytes came, and the I/O thread runs it.
Spec == Init /\ [][Next]_vars /\ WF_vars(Call) /\ WF_vars(readcb)

-----------------------------------------------------------------------------
(* Properties.                                                             *)

TypeOK ==
    /\ pc \in {"wait", "fresh", "loop", "exited"}
    /\ input \in Seq(Byte) /\ received \in Seq(Byte)
    /\ recvingHeader \in BOOLEAN /\ oversize \in BOOLEAN
    /\ bodySize \in 0 .. MaxBody
    /\ frames \in Seq([at : Nat, body : Seq(Byte)])
    /\ pos \in Nat /\ trusted \in 0 .. Len(frames)
    /\ policy \in Policies

\* Where the frame after frame i begins.
End(i) == IF i = 0 THEN 0 ELSE frames[i].at + Len(frames[i].body)

SizeAt(p) == Ntohl(received[p - 3], received[p - 2], received[p - 1], received[p])

\* Frame i starts right after its header, which starts right after frame i-1,
\* is as long as the header says, and is made of the bytes that were received
\* there.
FrameOK(i) ==
    LET f == frames[i]
    IN  /\ f.at = End(i - 1) + 4
        /\ f.at + Len(f.body) <= Len(received)
        /\ Len(f.body) = SizeAt(f.at)
        /\ \A j \in 1 .. Len(f.body) : f.body[j] = received[f.at + j]

\* However the stream is cut into chunks, the frames dispatched before an
\* oversize length are the frames of the stream, in order, byte for byte.
WellFramed == \A i \in 1 .. trusted : FrameOK(i)

\* At rest nothing complete is left behind in the buffer, with one exception:
\* the body of an empty frame at the very end of what was received is not
\* dispatched until another byte comes.
AtRestIncomplete ==
    pc = "wait" /\ ~oversize =>
        \/ recvingHeader /\ Len(input) < 4
        \/ ~recvingHeader /\ Len(input) < bodySize
        \/ ~recvingHeader /\ bodySize = 0 /\ input = <<>>

\* The same against a reference parser of the whole stream, which knows
\* nothing of chunks, flags or buffers.
Parse(s) ==
    LET SizeOf(p) == Ntohl(s[p + 1], s[p + 2], s[p + 3], s[p + 4])
        from[p \in 0 .. Len(s)] ==
            IF p + 4 > Len(s) \/ SizeOf(p) > MaxBody
               \/ p + 4 + SizeOf(p) > Len(s)
            THEN <<>>
            ELSE <<SubSeq(s, p + 5, p + 4 + SizeOf(p))>> \o from[p + 4 + SizeOf(p)]
    IN  from[0]

Bodies == [i \in 1 .. trusted |-> frames[i].body]

ChunkingIrrelevant ==
    pc = "wait" =>
        \/ Bodies = Parse(received)
        \/ /\ ~recvingHeader /\ bodySize = 0 /\ input = <<>>
           /\ Append(Bodies, <<>>) = Parse(received)

\* No frame is longer than the limit, even after an oversize length has put
\* the reader out of step with the stream.
FrameBounded == \A i \in DOMAIN frames : Len(frames[i].body) <= MaxBody

\* What is dispatched is right, and never more than a caller has room for.
FramesAreRight == WellFramed /\ FrameBounded

\* readcb returns: no input keeps the only I/O thread in its loop.
CallbackReturns == pc = "loop" ~> pc \in {"wait", "exited"}

=============================================================================
