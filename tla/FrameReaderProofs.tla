------------------------- MODULE FrameReaderProofs -------------------------
(***************************************************************************)
(* Proofs about FrameReader, for every size of a byte, every limit and any *)
(* number of bytes: the frames dispatched before an oversize length are    *)
(* the frames of the stream and no frame is longer than the limit          *)
(* (FramesRight), and nothing complete waits while readcb is not running   *)
(* (RestSafe).  A parser that gets the whole stream at once finds the same *)
(* frames (ChunksSafe): Parse is recursive, and what it computes is proved *)
(* by the least place where it could be otherwise (LeastNat).              *)
(*                                                                         *)
(* FramesSafe needs to know where the reader is in the stream:             *)
(*   Tail     input is what of received begins at pos;                     *)
(*   InStep   pos is at the end of the last frame, or four bytes after it, *)
(*            where bodySize is the length those four bytes encode.        *)
(***************************************************************************)
EXTENDS FrameReader, SequenceTheorems, WellFoundedInduction, TLAPS

USE BaseAssumption, MaxBodyAssumption, MaxBytesAssumption, PoliciesAssumption

Frame == [at : Nat, body : Seq(Byte)]

\* The state predicates of FrameReader with the sequences as parameters.
EndIn(fs, i) == IF i = 0 THEN 0 ELSE fs[i].at + Len(fs[i].body)

SizeIn(r, p) == Ntohl(r[p - 3], r[p - 2], r[p - 1], r[p])

FrameIn(fs, r, i) ==
    /\ fs[i].at = EndIn(fs, i - 1) + 4
    /\ fs[i].at + Len(fs[i].body) <= Len(r)
    /\ Len(fs[i].body) = SizeIn(r, fs[i].at)
    /\ \A j \in 1 .. Len(fs[i].body) : fs[i].body[j] = r[fs[i].at + j]

\* r from position p on is s.
TailOf(s, r, p) ==
    /\ p + Len(s) = Len(r)
    /\ \A j \in 1 .. Len(s) : s[j] = r[p + j]

InStepWith(fs, r, p, flag, size) ==
    IF flag THEN p = EndIn(fs, Len(fs))
            ELSE p = EndIn(fs, Len(fs)) + 4 /\ size = SizeIn(r, p)

Tail0 == TailOf(input, received, pos)

InStep ==
    ~oversize => /\ trusted = Len(frames)
                 /\ InStepWith(frames, received, pos, recvingHeader, bodySize)

Framed == \A i \in 1 .. trusted : FrameIn(frames, received, i)

IInv == TypeOK /\ Tail0 /\ InStep /\ Framed

-----------------------------------------------------------------------------
(* Lemmas about bytes, ends and frames.                                    *)

\* A length read from the network is a natural number.
LEMMA NtohlNat ==
    ASSUME NEW a \in Byte, NEW b \in Byte, NEW c \in Byte, NEW d \in Byte
    PROVE  Ntohl(a, b, c, d) \in Nat
<1>1. a \in Nat /\ b \in Nat /\ c \in Nat /\ d \in Nat /\ Base \in Nat
  BY DEF Byte
<1>2. \A x, y \in Nat : x * Base + y \in Nat
  BY <1>1
<1>3. a * Base + b \in Nat
  BY <1>1, <1>2
<1>4. (a * Base + b) * Base + c \in Nat
  BY <1>1, <1>2, <1>3
<1> QED
  BY <1>1, <1>2, <1>4 DEF Ntohl

\* The end of a frame is a natural number.
LEMMA EndNat ==
    ASSUME NEW fs \in Seq(Frame), NEW i \in 0 .. Len(fs)
    PROVE  EndIn(fs, i) \in Nat
<1>1. CASE i = 0
  BY <1>1 DEF EndIn
<1>2. CASE i # 0
  <2>1. fs[i] \in Frame
    BY <1>2
  <2> QED
    BY <1>2, <2>1 DEF EndIn, Frame
<1> QED
  BY <1>1, <1>2

\* A frame stays well formed when another byte is received.
LEMMA FrameAppendByte ==
    ASSUME NEW fs \in Seq(Frame), NEW r \in Seq(Byte), NEW b \in Byte,
           NEW i \in 1 .. Len(fs), FrameIn(fs, r, i)
    PROVE  FrameIn(fs, Append(r, b), i)
<1> DEFINE p == fs[i].at
<1>1. fs[i] \in Frame /\ EndIn(fs, i - 1) \in Nat
  BY EndNat
<1>2. /\ fs[i].at \in Nat /\ fs[i].at >= 4
      /\ fs[i].body \in Seq(Byte) /\ Len(fs[i].body) \in Nat
  BY <1>1, SMTT(30) DEF Frame, FrameIn
<1>3. Len(Append(r, b)) = Len(r) + 1
      /\ \A j \in 1 .. Len(r) : Append(r, b)[j] = r[j]
  OBVIOUS
<1>4. SizeIn(Append(r, b), p) = SizeIn(r, p)
  <2>1. p \in Nat /\ p >= 4 /\ p <= Len(r)
    BY <1>2 DEF FrameIn
  <2> HIDE DEF p
  <2>2. p \in 1 .. Len(r) /\ p - 1 \in 1 .. Len(r) /\ p - 2 \in 1 .. Len(r)
        /\ p - 3 \in 1 .. Len(r)
    BY <2>1
  <2> QED
    BY <1>3, <2>2 DEF SizeIn
<1>5. \A j \in 1 .. Len(fs[i].body) : fs[i].body[j] = Append(r, b)[p + j]
  BY <1>2, <1>3, SMTT(30) DEF FrameIn
<1> QED
  BY <1>2, <1>3, <1>4, <1>5, SMTT(30) DEF FrameIn

\* A frame stays well formed when another frame is dispatched.
LEMMA FrameAppendFrame ==
    ASSUME NEW fs \in Seq(Frame), NEW r, NEW f \in Frame,
           NEW i \in 1 .. Len(fs), FrameIn(fs, r, i)
    PROVE  FrameIn(Append(fs, f), r, i)
<1>1. \A j \in 1 .. Len(fs) : Append(fs, f)[j] = fs[j]
  OBVIOUS
<1>2. EndIn(Append(fs, f), i - 1) = EndIn(fs, i - 1)
  BY <1>1 DEF EndIn
<1> QED
  BY <1>1, <1>2 DEF FrameIn

\* What SubSeq takes from the front and leaves behind.
LEMMA Split ==
    ASSUME NEW s \in Seq(Byte), NEW n \in 0 .. Len(s)
    PROVE  /\ SubSeq(s, 1, n) \in Seq(Byte)
           /\ Len(SubSeq(s, 1, n)) = n
           /\ \A j \in 1 .. n : SubSeq(s, 1, n)[j] = s[j]
           /\ SubSeq(s, n + 1, Len(s)) \in Seq(Byte)
           /\ Len(SubSeq(s, n + 1, Len(s))) = Len(s) - n
           /\ \A j \in 1 .. Len(s) - n : SubSeq(s, n + 1, Len(s))[j] = s[n + j]
  OBVIOUS

\* Removing n bytes from the buffer moves its position in the stream by n.
LEMMA DrainTail ==
    ASSUME NEW s \in Seq(Byte), NEW r \in Seq(Byte), NEW p \in Nat,
           TailOf(s, r, p), NEW n \in 0 .. Len(s)
    PROVE  TailOf(SubSeq(s, n + 1, Len(s)), r, p + n)
<1> DEFINE t == SubSeq(s, n + 1, Len(s))
<1>1. Len(t) = Len(s) - n /\ \A j \in 1 .. Len(s) - n : t[j] = s[n + j]
  BY Split
<1>2. Len(s) \in Nat /\ Len(r) \in Nat
  OBVIOUS
<1> HIDE DEF t
<1>3. ASSUME NEW j \in 1 .. Len(t) PROVE t[j] = r[(p + n) + j]
  <2>1. n + j \in 1 .. Len(s) /\ t[j] = s[n + j]
    BY <1>1, <1>2
  <2>2. s[n + j] = r[p + (n + j)]
    BY <2>1 DEF TailOf
  <2> QED
    BY <2>1, <2>2
<1>4. (p + n) + Len(t) = Len(r)
  BY <1>1, <1>2 DEF TailOf
<1>5. TailOf(t, r, p + n)
  BY <1>3, <1>4 DEF TailOf
<1> QED
  BY <1>5 DEF t

\* A received byte goes to the end of both.
LEMMA AppendTail ==
    ASSUME NEW s \in Seq(Byte), NEW r \in Seq(Byte), NEW p \in Nat,
           TailOf(s, r, p), NEW b \in Byte
    PROVE  TailOf(Append(s, b), Append(r, b), p)
<1> DEFINE t == Append(s, b)
           u == Append(r, b)
           n == Len(s)
<1>1. /\ Len(t) = n + 1 /\ t[n + 1] = b /\ \A j \in 1 .. n : t[j] = s[j]
      /\ n \in Nat
  OBVIOUS
<1>2. /\ Len(u) = Len(r) + 1 /\ u[Len(r) + 1] = b
      /\ \A j \in 1 .. Len(r) : u[j] = r[j]
  OBVIOUS
<1>3. p + n = Len(r) /\ \A j \in 1 .. n : s[j] = r[p + j]
  BY DEF TailOf
<1> HIDE DEF t, u, n
<1>4. ASSUME NEW j \in 1 .. n + 1 PROVE t[j] = u[p + j]
  <2>1. CASE j = n + 1
    <3>1. p + j = Len(r) + 1
      BY <1>1, <1>3, <2>1
    <3> QED
      BY <1>1, <1>2, <2>1, <3>1
  <2>2. CASE j \in 1 .. n
    <3>1. p + j \in 1 .. p + n
      BY <1>1, <2>2
    <3>2. u[p + j] = r[p + j]
      BY <1>2, <1>3, <3>1
    <3> QED
      BY <1>1, <1>3, <2>2, <3>2
  <2>3. j = n + 1 \/ j \in 1 .. n
    BY <1>1
  <2> QED
    BY <2>1, <2>2, <2>3
<1>5. p + Len(t) = Len(u)
  <2>1. Len(t) = n + 1 /\ Len(u) = Len(r) + 1 /\ Len(r) = p + n /\ n \in Nat
    BY <1>1, <1>2, <1>3
  <2> QED
    BY <2>1
<1>6. TailOf(t, u, p)
  BY <1>1, <1>4, <1>5 DEF TailOf
<1> QED
  BY <1>6 DEF t, u

-----------------------------------------------------------------------------
(* Type correctness.                                                       *)

\* The initial state has the right types.
LEMMA TypeInit == Init => TypeOK
<1> SUFFICES ASSUME Init PROVE TypeOK
  OBVIOUS
<1>1. input \in Seq(Byte) /\ received \in Seq(Byte) /\ frames \in Seq(Frame)
  BY DEF Init
<1>2. bodySize \in 0 .. MaxBody /\ pos \in Nat /\ trusted \in 0 .. Len(frames)
  BY DEF Init
<1> QED
  BY <1>1, <1>2 DEF Init, TypeOK, Frame

\* Every step keeps the types: no buffer is read past its end, and bodySize
\* is never larger than the limit.
LEMMA TypeStep == TypeOK /\ [Next]_vars => TypeOK'
<1> SUFFICES ASSUME TypeOK, [Next]_vars PROVE TypeOK'
  OBVIOUS
<1>1. ASSUME NEW b \in Byte, Receive(b) PROVE TypeOK'
  BY <1>1 DEF TypeOK, Receive
<1>2. CASE Call
  BY <1>2 DEF TypeOK, Call
<1>3. CASE Break
  BY <1>3 DEF TypeOK, Break
<1>4. CASE ReadHeader
  <2> DEFINE size == Ntohl(input[1], input[2], input[3], input[4])
  <2>1. size \in Nat
    <3>1. input[1] \in Byte /\ input[2] \in Byte /\ input[3] \in Byte
          /\ input[4] \in Byte
      BY <1>4 DEF TypeOK, ReadHeader
    <3> HIDE DEF Byte
    <3> QED
      BY <3>1, NtohlNat
  <2>2. 4 \in 0 .. Len(input)
    BY <1>4 DEF TypeOK, ReadHeader
  <2>3. input' \in Seq(Byte) /\ pos' \in Nat
    BY <1>4, <2>2, Split DEF TypeOK, ReadHeader, Drain
  <2> HIDE DEF size
  <2>4. CASE size > MaxBody
    <3>1. bodySize' = bodySize /\ oversize' = TRUE /\ pc' \in {"exited", "wait"}
      BY <1>4, <2>4 DEF ReadHeader, size
    <3> QED
      BY <1>4, <2>3, <3>1 DEF TypeOK, ReadHeader
  <2>5. CASE ~(size > MaxBody)
    <3>1. bodySize' = size /\ oversize' = oversize /\ pc' \in {"loop", "wait"}
      BY <1>4, <2>5 DEF ReadHeader, size
    <3>2. bodySize' \in 0 .. MaxBody
      BY <2>1, <2>5, <3>1
    <3> QED
      BY <1>4, <2>3, <3>1, <3>2 DEF TypeOK, ReadHeader
  <2> QED
    BY <2>4, <2>5
<1>5. CASE ReadBody
  <2>1. bodySize \in 0 .. Len(input)
    BY <1>5 DEF TypeOK, ReadBody
  <2>2. input' \in Seq(Byte) /\ pos' \in Nat
    BY <1>5, <2>1, Split DEF TypeOK, ReadBody, Drain
  <2>3. [at |-> pos, body |-> SubSeq(input, 1, bodySize)] \in Frame
    BY <2>1, Split DEF TypeOK, Frame
  <2>4. /\ frames' \in Seq(Frame) /\ Len(frames') = Len(frames) + 1
        /\ Len(frames) \in Nat
    BY <1>5, <2>3 DEF TypeOK, ReadBody, Frame
  <2>5. trusted' \in 0 .. Len(frames')
    BY <1>5, <2>4 DEF TypeOK, ReadBody
  <2> QED
    BY <1>5, <2>2, <2>4, <2>5 DEF TypeOK, ReadBody, Frame
<1>6. CASE UNCHANGED vars
  BY <1>6 DEF TypeOK, vars
<1> QED
  BY <1>1, <1>2, <1>3, <1>4, <1>5, <1>6 DEF Next, readcb

\* TypeOK holds always: in particular bodySize, which readcb uses as the
\* length to remove from the buffer, is within the limit.
THEOREM TypeCorrect == Spec => []TypeOK
<1>1. TypeOK /\ [Next]_vars => TypeOK'
  BY TypeStep
<1> QED
  BY TypeInit, <1>1, PTL DEF Spec

-----------------------------------------------------------------------------
(* The reader's place in the stream.                                       *)

\* The inductive invariant holds initially.
LEMMA IInvInit == Init => IInv
<1> SUFFICES ASSUME Init PROVE IInv
  OBVIOUS
<1>1. TypeOK
  BY TypeInit
<1>2. Tail0
  BY DEF Init, Tail0, TailOf
<1>3. InStep
  BY DEF Init, InStep, InStepWith, EndIn
<1>4. Framed
  BY DEF Init, Framed
<1> QED
  BY <1>1, <1>2, <1>3, <1>4 DEF IInv

\* A received byte goes to the end of the stream and of the buffer; the frames
\* and the place in the stream stay what they are.
LEMMA ReceiveStep ==
    ASSUME IInv, TypeOK', NEW b \in Byte, Receive(b)
    PROVE  IInv'
<1> USE DEF IInv
<1>1. /\ input \in Seq(Byte) /\ received \in Seq(Byte) /\ pos \in Nat
      /\ frames \in Seq(Frame) /\ trusted \in 0 .. Len(frames)
  BY DEF TypeOK, Frame
<1>2. /\ input' = Append(input, b) /\ received' = Append(received, b)
      /\ UNCHANGED <<recvingHeader, bodySize, frames, pos, trusted, oversize>>
  BY DEF Receive
<1>3. Tail0'
  <2>1. TailOf(Append(input, b), Append(received, b), pos)
    BY <1>1, AppendTail DEF Tail0
  <2> QED
    BY <1>2, <2>1 DEF Tail0
<1>4. InStep'
  <2>1. ASSUME ~oversize
        PROVE  InStepWith(frames, Append(received, b), pos, recvingHeader,
                          bodySize)
    <3>1. InStepWith(frames, received, pos, recvingHeader, bodySize)
      BY <2>1 DEF InStep
    <3>2. CASE recvingHeader
      BY <3>1, <3>2 DEF InStepWith
    <3>3. CASE ~recvingHeader
      <4>1. EndIn(frames, Len(frames)) \in Nat
        BY <1>1, EndNat
      <4>2. pos >= 4 /\ pos <= Len(received)
        BY <1>1, <3>1, <3>3, <4>1 DEF InStepWith, Tail0, TailOf
      <4>3. /\ Append(received, b)[pos] = received[pos]
            /\ Append(received, b)[pos - 1] = received[pos - 1]
            /\ Append(received, b)[pos - 2] = received[pos - 2]
            /\ Append(received, b)[pos - 3] = received[pos - 3]
        BY <1>1, <4>2
      <4>4. SizeIn(Append(received, b), pos) = SizeIn(received, pos)
        BY <4>3 DEF SizeIn
      <4> QED
        BY <3>1, <3>3, <4>4 DEF InStepWith
    <3> QED
      BY <3>2, <3>3
  <2> QED
    BY <1>2, <2>1 DEF InStep
<1>5. Framed'
  <2>1. \A i \in 1 .. trusted : FrameIn(frames, Append(received, b), i)
    BY <1>1, FrameAppendByte DEF Framed
  <2> QED
    BY <1>2, <2>1 DEF Framed
<1> QED
  BY <1>3, <1>4, <1>5

\* A complete header: pos is now four bytes past the end of the last frame,
\* and unless the length was oversize bodySize is what the header says.
LEMMA ReadHeaderStep ==
    ASSUME IInv, TypeOK', ReadHeader
    PROVE  IInv'
<1> USE DEF IInv
<1>1. /\ input \in Seq(Byte) /\ received \in Seq(Byte) /\ pos \in Nat
      /\ frames \in Seq(Frame) /\ 4 \in 0 .. Len(input)
  BY DEF TypeOK, Frame, ReadHeader
<1>2. /\ input' = SubSeq(input, 5, Len(input)) /\ pos' = pos + 4
      /\ recvingHeader /\ recvingHeader' = FALSE
      /\ UNCHANGED <<received, frames, trusted>>
  BY DEF ReadHeader, Drain
<1>3. Tail0'
  <2>1. TailOf(SubSeq(input, 4 + 1, Len(input)), received, pos + 4)
    BY <1>1, DrainTail DEF Tail0
  <2> QED
    BY <1>2, <2>1 DEF Tail0
<1>4. InStep'
  <2>1. ASSUME ~oversize'
        PROVE  /\ ~oversize
               /\ bodySize' = Ntohl(input[1], input[2], input[3], input[4])
    BY <2>1 DEF ReadHeader
  <2>2. /\ input[1] = received[pos + 1] /\ input[2] = received[pos + 2]
        /\ input[3] = received[pos + 3] /\ input[4] = received[pos + 4]
    BY <1>1 DEF Tail0, TailOf
  <2>3. Ntohl(input[1], input[2], input[3], input[4])
          = SizeIn(received, pos + 4)
    <3>1. (pos + 4) - 3 = pos + 1 /\ (pos + 4) - 2 = pos + 2
          /\ (pos + 4) - 1 = pos + 3
      BY <1>1
    <3> QED
      BY <2>2, <3>1 DEF SizeIn
  <2>4. ASSUME ~oversize'
        PROVE  /\ trusted = Len(frames)
               /\ InStepWith(frames, received, pos + 4, FALSE, bodySize')
    BY <1>2, <2>1, <2>3, <2>4 DEF InStep, InStepWith
  <2> QED
    BY <1>2, <2>4 DEF InStep
<1>5. Framed'
  BY <1>2 DEF Framed
<1> QED
  BY <1>3, <1>4, <1>5

\* A complete body: the new frame begins at pos, right after its header, and
\* is as long as bodySize, the length that header encodes.
LEMMA ReadBodyStep ==
    ASSUME IInv, TypeOK', ReadBody
    PROVE  IInv'
<1> USE DEF IInv
<1> DEFINE body == SubSeq(input, 1, bodySize)
           f    == [at |-> pos, body |-> body]
           fs   == Append(frames, f)
<1>1. /\ input \in Seq(Byte) /\ received \in Seq(Byte) /\ pos \in Nat
      /\ frames \in Seq(Frame) /\ trusted \in 0 .. Len(frames)
      /\ bodySize \in 0 .. Len(input)
  BY DEF TypeOK, Frame, ReadBody
<1>2. /\ input' = SubSeq(input, bodySize + 1, Len(input))
      /\ pos' = pos + bodySize
      /\ ~recvingHeader /\ recvingHeader' = TRUE
      /\ frames' = fs
      /\ trusted' = IF oversize THEN trusted ELSE trusted + 1
      /\ UNCHANGED <<bodySize, received, oversize>>
  BY DEF ReadBody, Drain
<1>3. /\ body \in Seq(Byte) /\ Len(body) = bodySize
      /\ \A j \in 1 .. bodySize : body[j] = input[j]
  BY <1>1, Split
<1>4. f \in Frame /\ f.at = pos /\ f.body = body
  BY <1>1, <1>3 DEF Frame
<1> HIDE DEF f, body
<1>5. /\ Len(fs) = Len(frames) + 1 /\ fs[Len(fs)] = f
      /\ Len(frames) \in Nat
  BY <1>1, <1>4
<1>6. Tail0'
  <2>1. TailOf(SubSeq(input, bodySize + 1, Len(input)), received,
               pos + bodySize)
    BY <1>1, DrainTail DEF Tail0
  <2> QED
    BY <1>2, <2>1 DEF Tail0
<1>7. EndIn(fs, Len(fs)) = pos + bodySize
  BY <1>1, <1>3, <1>4, <1>5 DEF EndIn
<1>8. InStep'
  BY <1>2, <1>5, <1>7 DEF InStep, InStepWith
<1>9. Framed'
  <2>1. \A i \in 1 .. trusted : FrameIn(fs, received, i)
    BY <1>1, <1>4, FrameAppendFrame DEF Framed
  <2>2. ASSUME ~oversize PROVE FrameIn(fs, received, Len(fs))
    <3>1. /\ pos = EndIn(frames, Len(frames)) + 4
          /\ bodySize = SizeIn(received, pos)
      BY <1>2, <2>2 DEF InStep, InStepWith
    <3>2. EndIn(fs, Len(fs) - 1) = EndIn(frames, Len(frames))
      BY <1>1, <1>5 DEF EndIn
    <3>3. pos + bodySize <= Len(received)
          /\ \A j \in 1 .. bodySize : input[j] = received[pos + j]
      BY <1>1 DEF Tail0, TailOf
    <3> QED
      BY <1>3, <1>4, <1>5, <3>1, <3>2, <3>3 DEF FrameIn
  <2>3. CASE oversize
    BY <1>2, <2>1, <2>3 DEF Framed
  <2>4. CASE ~oversize
    <3>1. trusted' = Len(fs) /\ trusted = Len(fs) - 1
      BY <1>2, <1>5, <2>4 DEF InStep
    <3>2. \A i \in 1 .. Len(fs) : FrameIn(fs, received, i)
      BY <1>5, <2>1, <2>2, <2>4, <3>1
    <3> QED
      BY <1>2, <3>1, <3>2 DEF Framed
  <2> QED
    BY <2>3, <2>4
<1> QED
  BY <1>6, <1>8, <1>9

\* Every step keeps the inductive invariant.
LEMMA IInvStep == IInv /\ [Next]_vars => IInv'
<1> SUFFICES ASSUME IInv, [Next]_vars PROVE IInv'
  OBVIOUS
<1>1. TypeOK'
  BY TypeStep DEF IInv
<1>2. ASSUME UNCHANGED <<input, received, pos, recvingHeader, bodySize, frames,
                         trusted, oversize>>
      PROVE  IInv'
  BY <1>1, <1>2 DEF IInv, Tail0, InStep, Framed
<1>3. ASSUME NEW b \in Byte, Receive(b) PROVE IInv'
  BY <1>1, <1>3, ReceiveStep
<1>4. CASE Call
  BY <1>2, <1>4 DEF Call
<1>5. CASE Break
  BY <1>2, <1>5 DEF Break
<1>6. CASE ReadHeader
  BY <1>1, <1>6, ReadHeaderStep
<1>7. CASE ReadBody
  BY <1>1, <1>7, ReadBodyStep
<1>8. CASE UNCHANGED vars
  BY <1>2, <1>8 DEF vars
<1> QED
  BY <1>3, <1>4, <1>5, <1>6, <1>7, <1>8 DEF Next, readcb

\* However the stream is cut into chunks, the frames readcb dispatches before
\* the first oversize length are those of the stream, in order, byte for byte.
THEOREM FramesSafe == Spec => []WellFramed
<1>1. IInv => WellFramed
  <2>1. \A i : FrameIn(frames, received, i) => FrameOK(i)
    BY DEF FrameIn, FrameOK, EndIn, End, SizeIn, SizeAt
  <2> QED
    BY <2>1 DEF IInv, Framed, WellFramed
<1> QED
  BY IInvInit, IInvStep, <1>1, PTL DEF Spec

-----------------------------------------------------------------------------
(* Two more invariants that only need the types.                           *)

\* No frame is longer than the limit, not even after an oversize length.
THEOREM FramesBounded == Spec => []FrameBounded
<1>1. Init => FrameBounded
  BY DEF Init, FrameBounded
<1>2. TypeOK /\ FrameBounded /\ [Next]_vars => FrameBounded'
  <2> SUFFICES ASSUME TypeOK, FrameBounded, [Next]_vars PROVE FrameBounded'
    OBVIOUS
  <2>1. ASSUME frames' = frames PROVE FrameBounded'
    BY <2>1 DEF FrameBounded
  <2>2. CASE ReadBody
    <3> DEFINE f == [at |-> pos, body |-> SubSeq(input, 1, bodySize)]
    <3>1. bodySize \in 0 .. Len(input) /\ bodySize <= MaxBody
      BY <2>2 DEF TypeOK, ReadBody
    <3>2. Len(f.body) <= MaxBody
      BY <3>1, Split DEF TypeOK
    <3>3. frames \in Seq(Frame) /\ frames' = Append(frames, f)
      BY <2>2 DEF TypeOK, Frame, ReadBody
    <3> HIDE DEF f
    <3>4. \A i \in DOMAIN frames' :
            \/ i \in DOMAIN frames /\ frames'[i] = frames[i]
            \/ frames'[i] = f
      BY <3>3
    <3> QED
      BY <3>2, <3>4 DEF FrameBounded
  <2>3. ~ReadBody => frames' = frames
    BY DEF Next, Receive, Call, readcb, Break, ReadHeader, vars
  <2> QED
    BY <2>1, <2>2, <2>3
<1> QED
  BY TypeCorrect, <1>1, <1>2, PTL DEF Spec

\* What readcb dispatches is right and bounded: the two theorems together.
THEOREM FramesRight == Spec => []FramesAreRight
BY FramesSafe, FramesBounded, PTL DEF FramesAreRight

\* When readcb has returned, no complete header or body is left in the buffer,
\* except an empty body at the very end of what was received.
THEOREM RestSafe == Spec => []AtRestIncomplete
<1>1. Init => AtRestIncomplete
  BY DEF Init, AtRestIncomplete
<1>2. TypeOK /\ TypeOK' /\ AtRestIncomplete /\ [Next]_vars => AtRestIncomplete'
  <2> SUFFICES ASSUME TypeOK, TypeOK', AtRestIncomplete, [Next]_vars,
                      pc' = "wait", ~oversize'
               PROVE  \/ recvingHeader' /\ Len(input') < 4
                      \/ ~recvingHeader' /\ Len(input') < bodySize'
                      \/ ~recvingHeader' /\ bodySize' = 0 /\ input' = <<>>
    BY DEF AtRestIncomplete
  <2>1. CASE Break
    <3>1. /\ input' = input /\ recvingHeader' = recvingHeader
          /\ bodySize' = bodySize
          /\ Len(input) < IF recvingHeader THEN 4
                          ELSE IF bodySize > 0 THEN bodySize ELSE 1
      BY <2>1 DEF Break
    <3>2. input \in Seq(Byte) /\ bodySize \in Nat
      BY DEF TypeOK
    <3>3. Len(input) < 1 => input = <<>>
      BY <3>2
    <3> QED
      BY <3>1, <3>2, <3>3
  <2>2. CASE ReadHeader
    <3>1. 4 \in 0 .. Len(input)
      BY <2>2 DEF TypeOK, ReadHeader
    <3>2. Len(input') = Len(input) - 4
      BY <2>2, <3>1, Split DEF TypeOK, ReadHeader, Drain
    <3> QED
      BY <2>2, <3>2 DEF ReadHeader
  <2>3. CASE ReadBody
    <3>1. bodySize \in 0 .. Len(input)
      BY <2>3 DEF TypeOK, ReadBody
    <3>2. Len(input') = Len(input) - bodySize
      BY <2>3, <3>1, Split DEF TypeOK, ReadBody, Drain
    <3> QED
      BY <2>3, <3>2 DEF ReadBody
  <2>4. CASE UNCHANGED vars
    BY <2>4 DEF vars, AtRestIncomplete
  <2> QED
    BY <2>1, <2>2, <2>3, <2>4 DEF Next, readcb, Receive, Call
<1> QED
  BY TypeCorrect, <1>1, <1>2, PTL DEF Spec

-----------------------------------------------------------------------------
(* Induction over places.                                                  *)

\* A set of natural numbers that is not empty has a least member.
LEMMA LeastNat ==
    ASSUME NEW T \in SUBSET Nat, T # {}
    PROVE  \E n \in T : \A m \in T : n <= m
<1> DEFINE R == OpToRel(<, Nat)
<1>1. IsWellFoundedOn(R, Nat)
  BY NatLessThanWellFounded
<1>2. \A m, n \in Nat : m < n => <<m, n>> \in R
  BY DEF OpToRel
<1> HIDE DEF R
<1>3. PICK n \in T : \A m \in T : ~ (<<m, n>> \in R)
  BY <1>1, WFMin
<1>4. ASSUME NEW m \in T PROVE n <= m
  <2>1. ~ (m < n)
    BY <1>2, <1>3
  <2>2. m \in Nat /\ n \in Nat
    OBVIOUS
  <2> QED
    BY <2>1, <2>2
<1> QED
  BY <1>4

-----------------------------------------------------------------------------
(* The reference parser.                                                   *)

\* f is a list for each place of 0 .. n: empty where stop holds it, and
\* elsewhere item and then the list of a later place.
Lists(f, n, stop, item, next) ==
    f = [p \in 0 .. n |-> IF p \in stop THEN <<>> ELSE <<item[p]>> \o f[next[p]]]

\* The same from place k on.
ListsFrom(f, k, n, stop, item, next) ==
    \A p \in k .. n : f[p] = IF p \in stop THEN <<>> ELSE <<item[p]>> \o f[next[p]]

\* There are such lists, and they are the only ones.
LEMMA ListsExist ==
    ASSUME NEW n \in Nat, NEW stop, NEW B, NEW item, NEW next,
           \A p \in (0 .. n) \ stop : item[p] \in B /\ next[p] \in p + 1 .. n
    PROVE  \E f \in [0 .. n -> Seq(B)] : Lists(f, n, stop, item, next)
<1> DEFINE Good(k) == \E f \in [k .. n -> Seq(B)] : ListsFrom(f, k, n, stop, item, next)
           T == {j \in 0 .. n : ~Good(n - j)}
<1>1. ASSUME NEW j \in T, \A i \in T : j <= i PROVE FALSE
  <2> DEFINE k == n - j
  <2>1. k \in 0 .. n /\ ~Good(k)
    BY <1>1
  <2>2. PICK f \in [k + 1 .. n -> Seq(B)] : ListsFrom(f, k + 1, n, stop, item, next)
    <3>1. CASE j = 0
      <4> DEFINE e == [p \in k + 1 .. n |-> <<>>]
      <4>1. k + 1 .. n = {}
        BY <3>1
      <4>2. e \in [k + 1 .. n -> Seq(B)]
        OBVIOUS
      <4>3. ListsFrom(e, k + 1, n, stop, item, next)
        BY <4>1 DEF ListsFrom
      <4> QED
        BY <4>2, <4>3
    <3>2. CASE j # 0
      <4>1. j - 1 \in 0 .. n /\ ~(j <= j - 1) /\ n - (j - 1) = k + 1
        BY <3>2
      <4>2. j - 1 \notin T
        BY <1>1, <4>1
      <4>3. Good(n - (j - 1))
        BY <4>1, <4>2
      <4> QED
        BY <4>1, <4>3
    <3> QED
      BY <3>1, <3>2
  <2> HIDE DEF k
  <2> DEFINE v == IF k \in stop THEN <<>> ELSE <<item[k]>> \o f[next[k]]
             g == [p \in k .. n |-> IF p = k THEN v ELSE f[p]]
  <2>3. v \in Seq(B)
    <3>1. CASE k \in stop
      BY <3>1
    <3>2. CASE k \notin stop
      <4>1. item[k] \in B /\ next[k] \in k + 1 .. n
        BY <2>1, <3>2
      <4>2. <<item[k]>> \in Seq(B) /\ f[next[k]] \in Seq(B)
        BY <2>2, <4>1
      <4>3. <<item[k]>> \o f[next[k]] \in Seq(B)
        BY <4>2, ConcatProperties
      <4> QED
        BY <3>2, <4>3
    <3> QED
      BY <3>1, <3>2
  <2>4. g \in [k .. n -> Seq(B)]
    <3> HIDE DEF v
    <3>1. \A p \in k .. n : p # k => p \in k + 1 .. n
      BY <2>1
    <3> QED
      BY <2>2, <2>3, <3>1
  <2>5. ASSUME NEW p \in k .. n
        PROVE  g[p] = IF p \in stop THEN <<>> ELSE <<item[p]>> \o g[next[p]]
    <3>1. p \in 0 .. n /\ (p # k => p \in k + 1 .. n)
      BY <2>1
    <3>2. CASE p \in stop
      <4>1. g[p] = IF p = k THEN v ELSE f[p]
        OBVIOUS
      <4>2. p # k => f[p] = <<>>
        BY <2>2, <3>1, <3>2 DEF ListsFrom
      <4> QED
        BY <3>2, <4>1, <4>2
    <3>3. CASE p \notin stop
      <4>1. next[p] \in p + 1 .. n
        BY <3>1, <3>3
      <4>2. next[p] \in k .. n /\ next[p] # k
        BY <2>1, <4>1
      <4>3. g[next[p]] = f[next[p]]
        BY <4>2
      <4>4. p # k => f[p] = <<item[p]>> \o f[next[p]]
        BY <2>2, <3>1, <3>3 DEF ListsFrom
      <4>5. g[p] = IF p = k THEN v ELSE f[p]
        OBVIOUS
      <4> QED
        BY <3>3, <4>3, <4>4, <4>5
    <3> QED
      BY <3>2, <3>3
  <2> HIDE DEF g, v
  <2>6. Good(k)
    BY <2>4, <2>5 DEF ListsFrom
  <2> QED
    BY <2>1, <2>6
<1> HIDE DEF Good
<1>2. T = {}
  <2>1. T \in SUBSET Nat
    OBVIOUS
  <2> HIDE DEF T
  <2> QED
    BY <1>1, <2>1, LeastNat
<1>3. Good(0)
  <2>1. n \in 0 .. n /\ n - n = 0
    OBVIOUS
  <2>2. n \notin T
    BY <1>2
  <2>3. Good(n - n)
    BY <2>1, <2>2
  <2> QED
    BY <2>1, <2>3
<1> QED
  <2>1. PICK f \in [0 .. n -> Seq(B)] : ListsFrom(f, 0, n, stop, item, next)
    BY <1>3 DEF Good
  <2>2. f = [p \in 0 .. n |-> f[p]]
    OBVIOUS
  <2> QED
    BY <2>1, <2>2 DEF Lists, ListsFrom

\* No two functions satisfy that definition.
LEMMA ListsUnique ==
    ASSUME NEW n \in Nat, NEW stop, NEW item, NEW next,
           \A p \in (0 .. n) \ stop : next[p] \in p + 1 .. n,
           NEW f, NEW g, Lists(f, n, stop, item, next), Lists(g, n, stop, item, next)
    PROVE  f = g
<1> DEFINE T == {j \in 0 .. n : f[n - j] # g[n - j]}
<1>1. /\ \A p \in 0 .. n : f[p] = IF p \in stop THEN <<>> ELSE <<item[p]>> \o f[next[p]]
      /\ \A p \in 0 .. n : g[p] = IF p \in stop THEN <<>> ELSE <<item[p]>> \o g[next[p]]
  BY DEF Lists
<1>2. ASSUME NEW j \in T, \A i \in T : j <= i PROVE FALSE
  <2>1. n - j \in 0 .. n /\ f[n - j] # g[n - j]
    BY <1>2
  <2>2. n - j \notin stop
    BY <1>1, <2>1
  <2>3. next[n - j] \in (n - j) + 1 .. n
    BY <2>1, <2>2
  <2> DEFINE i == n - next[n - j]
  <2>4. i \in 0 .. n /\ ~(j <= i) /\ n - i = next[n - j]
    BY <1>2, <2>3
  <2>5. f[next[n - j]] = g[next[n - j]]
    BY <1>2, <2>4
  <2> QED
    BY <1>1, <2>1, <2>2, <2>5
<1>3. T = {}
  <2>1. T \in SUBSET Nat
    OBVIOUS
  <2> HIDE DEF T
  <2> QED
    BY <1>2, <2>1, LeastNat
<1>4. ASSUME NEW p \in 0 .. n PROVE f[p] = g[p]
  <2>1. n - p \in 0 .. n /\ n - (n - p) = p
    OBVIOUS
  <2>2. n - p \notin T
    BY <1>3
  <2> HIDE DEF T
  <2>3. f[n - (n - p)] = g[n - (n - p)]
    BY <2>1, <2>2 DEF T
  <2> QED
    BY <2>1, <2>3
<1>5. DOMAIN f = 0 .. n /\ DOMAIN g = 0 .. n /\ f = [p \in 0 .. n |-> f[p]]
      /\ g = [p \in 0 .. n |-> g[p]]
  BY DEF Lists
<1> QED
  BY <1>4, <1>5

\* Parse, without its recursive definition: the bodies that begin at each place
\* of s, and those of the whole of it are what Parse returns.
SizeOf(s, p)  == Ntohl(s[p + 1], s[p + 2], s[p + 3], s[p + 4])
BodyOf(s, p)  == SubSeq(s, p + 5, p + 4 + SizeOf(s, p))
AfterOf(s, p) == p + 4 + SizeOf(s, p)
Stops(s, p)   == p + 4 > Len(s) \/ SizeOf(s, p) > MaxBody \/ AfterOf(s, p) > Len(s)

Parses(f, s) ==
    \A p \in 0 .. Len(s) :
        f[p] = IF Stops(s, p) THEN <<>> ELSE <<BodyOf(s, p)>> \o f[AfterOf(s, p)]

\* Where Parse does not stop a whole frame follows, and Parse goes on behind it.
LEMMA GoesOn ==
    ASSUME NEW s \in Seq(Byte), NEW p \in 0 .. Len(s), ~Stops(s, p)
    PROVE  /\ SizeOf(s, p) \in Nat /\ SizeOf(s, p) <= MaxBody /\ p + 4 <= Len(s)
           /\ AfterOf(s, p) \in p + 1 .. Len(s) /\ BodyOf(s, p) \in Seq(Byte)
           /\ Len(BodyOf(s, p)) = SizeOf(s, p)
           /\ \A j \in 1 .. SizeOf(s, p) : BodyOf(s, p)[j] = s[p + 4 + j]
<1>1. p + 4 <= Len(s) /\ Len(s) \in Nat
  BY DEF Stops
<1>2. s[p + 1] \in Byte /\ s[p + 2] \in Byte /\ s[p + 3] \in Byte /\ s[p + 4] \in Byte
  BY <1>1
<1>3. SizeOf(s, p) \in Nat
  BY <1>2, NtohlNat DEF SizeOf
<1> DEFINE z == SizeOf(s, p)
<1>4. z \in Nat /\ z <= MaxBody /\ p + 4 + z <= Len(s)
  <2>1. ~ (z > MaxBody) /\ ~ (p + 4 + z > Len(s))
    BY DEF Stops, AfterOf
  <2>2. z \in Nat
    BY <1>3
  <2> HIDE DEF z
  <2> QED
    BY <1>1, <2>1, <2>2
<1>5. BodyOf(s, p) = SubSeq(s, p + 5, p + 4 + z)
  BY DEF BodyOf
<1>6. AfterOf(s, p) = p + 4 + z
  BY DEF AfterOf
<1> HIDE DEF z
<1>7. /\ SubSeq(s, p + 5, p + 4 + z) \in Seq(Byte)
      /\ Len(SubSeq(s, p + 5, p + 4 + z)) = z
      /\ \A j \in 1 .. z : SubSeq(s, p + 5, p + 4 + z)[j] = s[p + 4 + j]
  <2> HIDE DEF Byte
  <2> QED
    BY <1>1, <1>4
<1>8. AfterOf(s, p) \in p + 1 .. Len(s)
  BY <1>4, <1>6
<1> QED
  BY <1>1, <1>4, <1>5, <1>7, <1>8 DEF z

\* The recursive function in Parse exists, and Parse is its value at the start.
LEMMA ParseRuns ==
    ASSUME NEW s \in Seq(Byte)
    PROVE  \E f \in [0 .. Len(s) -> Seq(Seq(Byte))] : Parses(f, s) /\ Parse(s) = f[0]
<1> DEFINE n    == Len(s)
           stop == {p \in 0 .. n : Stops(s, p)}
           item == [p \in 0 .. n |-> BodyOf(s, p)]
           next == [p \in 0 .. n |-> AfterOf(s, p)]
           E(f) == f = [p \in 0 .. n |-> IF Stops(s, p) THEN <<>>
                                         ELSE <<BodyOf(s, p)>> \o f[AfterOf(s, p)]]
<1>1. Parse(s) = (CHOOSE f : E(f))[0]
  BY DEF Parse, Stops, BodyOf, AfterOf, SizeOf
<1>2. n \in Nat
  OBVIOUS
<1>3. \A p \in (0 .. n) \ stop : item[p] \in Seq(Byte) /\ next[p] \in p + 1 .. n
  BY GoesOn
<1>4. ASSUME NEW f PROVE E(f) <=> Lists(f, n, stop, item, next)
  <2>1. [p \in 0 .. n |-> IF p \in stop THEN <<>> ELSE <<item[p]>> \o f[next[p]]]
        = [p \in 0 .. n |-> IF Stops(s, p) THEN <<>>
                            ELSE <<BodyOf(s, p)>> \o f[AfterOf(s, p)]]
    OBVIOUS
  <2> QED
    BY <2>1, Zenon DEF Lists
<1> HIDE DEF n, stop, item, next
<1>5. PICK f \in [0 .. n -> Seq(Seq(Byte))] : Lists(f, n, stop, item, next)
  BY <1>2, <1>3, ListsExist
<1>6. E(f)
  BY <1>4, <1>5
<1>7. E(CHOOSE g : E(g))
  BY <1>6, Zenon
<1> DEFINE c == CHOOSE g : E(g)
<1>8. Lists(c, n, stop, item, next)
  BY <1>4, <1>7
<1> HIDE DEF c
<1>9. c = f
  BY <1>2, <1>3, <1>5, <1>8, ListsUnique
<1>10. Parse(s) = f[0]
  BY <1>1, <1>9 DEF c
<1>11. Parses(f, s)
  BY <1>6 DEF Parses, n
<1> QED
  BY <1>5, <1>10, <1>11 DEF n

-----------------------------------------------------------------------------
(* How the stream is cut into chunks makes no difference.                  *)

\* After an oversize length: it follows the last trusted frame.
Misled ==
    oversize =>
        /\ EndIn(frames, trusted) + 4 <= Len(received)
        /\ SizeIn(received, EndIn(frames, trusted) + 4) > MaxBody

BodiesOf(fs, i) == [j \in 1 .. i |-> fs[j].body]

\* What of the stream is parsed is the frames up to i, and the bodies after them.
LEMMA ParsedSoFar ==
    ASSUME NEW r \in Seq(Byte), NEW fs \in Seq(Frame), NEW t \in 0 .. Len(fs),
           \A i \in 1 .. t : FrameIn(fs, r, i) /\ Len(fs[i].body) <= MaxBody,
           NEW f \in [0 .. Len(r) -> Seq(Seq(Byte))], Parses(f, r)
    PROVE  /\ EndIn(fs, t) \in 0 .. Len(r)
           /\ f[0] = BodiesOf(fs, t) \o f[EndIn(fs, t)]
<1> DEFINE P(i) == EndIn(fs, i) \in 0 .. Len(r) /\ f[0] = BodiesOf(fs, i) \o f[EndIn(fs, i)]
           T == {i \in 0 .. t : ~P(i)}
<1>1. Len(r) \in Nat /\ t \in Nat /\ Len(fs) \in Nat
  OBVIOUS
<1>2. ASSUME NEW i \in 0 .. t PROVE BodiesOf(fs, i) \in Seq(Seq(Byte)) /\ Len(BodiesOf(fs, i)) = i
  <2>1. \A j \in 1 .. i : fs[j].body \in Seq(Byte)
    <3>1. \A j \in 1 .. i : fs[j] \in Frame
      OBVIOUS
    <3> QED
      BY <3>1 DEF Frame
  <2> HIDE DEF Byte
  <2>2. BodiesOf(fs, i) \in [1 .. i -> Seq(Byte)]
    BY <2>1 DEF BodiesOf
  <2> QED
    BY <2>2
<1>3. P(0)
  <2>1. EndIn(fs, 0) = 0
    BY DEF EndIn
  <2>2. BodiesOf(fs, 0) = <<>>
    BY DEF BodiesOf
  <2>3. f[0] \in Seq(Seq(Byte))
    BY <1>1
  <2> HIDE DEF Byte
  <2>4. <<>> \o f[0] = f[0]
    BY <2>3, ConcatEmptySeq
  <2> QED
    BY <1>1, <2>1, <2>2, <2>4
<1>4. ASSUME NEW i \in 1 .. t, P(i - 1) PROVE P(i)
  <2> DEFINE p == EndIn(fs, i - 1)
             b == fs[i].body
  <2>1. p \in 0 .. Len(r) /\ f[0] = BodiesOf(fs, i - 1) \o f[p]
    BY <1>4
  <2>2. fs[i] \in Frame /\ i - 1 \in 0 .. t /\ i # 0 /\ i \in 0 .. t
    OBVIOUS
  <2>3. b \in Seq(Byte) /\ Len(b) \in Nat
    BY <2>2 DEF Frame
  <2>4. fs[i].at = p + 4 /\ p + 4 + Len(b) <= Len(r) /\ Len(b) = SizeIn(r, p + 4)
        /\ Len(b) <= MaxBody /\ \A j \in 1 .. Len(b) : b[j] = r[p + 4 + j]
    BY <2>1 DEF FrameIn
  <2>5. EndIn(fs, i) = p + 4 + Len(b)
    BY <2>2, <2>4 DEF EndIn
  <2> HIDE DEF b, p
  <2>6. SizeOf(r, p) = Len(b)
    <3>1. (p + 4) - 3 = p + 1 /\ (p + 4) - 2 = p + 2 /\ (p + 4) - 1 = p + 3
      BY <2>1
    <3> QED
      BY <2>4, <3>1 DEF SizeIn, SizeOf
  <2>7. ~Stops(r, p) /\ AfterOf(r, p) = EndIn(fs, i)
    <3>1. AfterOf(r, p) = EndIn(fs, i)
      BY <2>5, <2>6 DEF AfterOf
    <3>2. ~ (p + 4 > Len(r)) /\ ~ (Len(b) > MaxBody) /\ ~ (EndIn(fs, i) > Len(r))
      BY <1>1, <2>1, <2>3, <2>4, <2>5
    <3> QED
      BY <2>6, <3>1, <3>2 DEF Stops
  <2>8. BodyOf(r, p) = b
    <3>1. /\ BodyOf(r, p) \in Seq(Byte) /\ Len(BodyOf(r, p)) = Len(b)
          /\ \A j \in 1 .. Len(b) : BodyOf(r, p)[j] = b[j]
      <4>1. /\ BodyOf(r, p) \in Seq(Byte) /\ Len(BodyOf(r, p)) = SizeOf(r, p)
            /\ \A j \in 1 .. SizeOf(r, p) : BodyOf(r, p)[j] = r[p + 4 + j]
        BY <2>1, <2>7, GoesOn
      <4> QED
        BY <2>4, <2>6, <4>1, Zenon
    <3> QED
      BY <2>3, <3>1, SeqEqual
  <2>9. EndIn(fs, i) \in 0 .. Len(r)
    BY <1>1, <2>1, <2>3, <2>4, <2>5
  <2>10. f[p] = <<b>> \o f[EndIn(fs, i)] /\ f[EndIn(fs, i)] \in Seq(Seq(Byte))
    BY <2>1, <2>7, <2>8, <2>9 DEF Parses
  <2>11. BodiesOf(fs, i) = BodiesOf(fs, i - 1) \o <<b>>
    <3>1. BodiesOf(fs, i - 1) \in Seq(Seq(Byte)) /\ Len(BodiesOf(fs, i - 1)) = i - 1
      BY <1>2, <2>2
    <3>2. \A j \in 1 .. i - 1 : BodiesOf(fs, i - 1)[j] = fs[j].body
      BY DEF BodiesOf
    <3>3. <<b>> \in Seq(Seq(Byte)) /\ Len(<<b>>) = 1 /\ <<b>>[1] = b
      BY <2>3
    <3> DEFINE u == BodiesOf(fs, i - 1)
    <3>10. u \in Seq(Seq(Byte)) /\ Len(u) = i - 1 /\ i \in Nat
      BY <3>1
    <3>4. u \o <<b>> \in Seq(Seq(Byte)) /\ Len(u \o <<b>>) = i
          /\ \A j \in 1 .. i : (u \o <<b>>)[j] = IF j <= i - 1 THEN u[j] ELSE b
      <4> HIDE DEF u, Byte
      <4>1. /\ u \o <<b>> \in Seq(Seq(Byte)) /\ Len(u \o <<b>>) = Len(u) + 1
            /\ \A j \in 1 .. Len(u) + 1 : (u \o <<b>>)[j] = IF j <= Len(u) THEN u[j] ELSE <<b>>[j - Len(u)]
        BY <3>3, <3>10, ConcatProperties
      <4>2. ASSUME NEW j \in 1 .. i PROVE (u \o <<b>>)[j] = IF j <= i - 1 THEN u[j] ELSE b
        <5>1. CASE j <= i - 1
          BY <3>10, <4>1, <5>1
        <5>2. CASE ~(j <= i - 1)
          <6>1. j - Len(u) = 1 /\ j \in 1 .. Len(u) + 1 /\ ~(j <= Len(u))
            BY <3>10, <5>2
          <6> QED
            BY <3>3, <4>1, <5>2, <6>1
        <5> QED
          BY <5>1, <5>2
      <4> QED
        BY <3>10, <4>1, <4>2
    <3>5. BodiesOf(fs, i) \in Seq(Seq(Byte)) /\ Len(BodiesOf(fs, i)) = i
      BY <1>2, <2>2
    <3>6. ASSUME NEW j \in 1 .. i PROVE BodiesOf(fs, i)[j] = (u \o <<b>>)[j]
      <4>1. BodiesOf(fs, i)[j] = fs[j].body
        BY DEF BodiesOf
      <4>2. CASE j <= i - 1
        <5>1. j \in 1 .. i - 1
          BY <3>10, <4>2
        <5> HIDE DEF Byte
        <5> QED
          BY <3>2, <3>4, <4>1, <4>2, <5>1
      <4>3. CASE ~ (j <= i - 1)
        <5>1. j = i
          BY <3>10, <4>3
        <5>2. (u \o <<b>>)[j] = b
          BY <3>4, <4>3
        <5> QED
          BY <4>1, <5>1, <5>2 DEF b
      <4> QED
        BY <4>2, <4>3
    <3> HIDE DEF u, Byte
    <3> QED
      BY <3>4, <3>5, <3>6, SeqEqual DEF u
  <2>12. (BodiesOf(fs, i - 1) \o <<b>>) \o f[EndIn(fs, i)]
         = BodiesOf(fs, i - 1) \o (<<b>> \o f[EndIn(fs, i)])
    <3>1. BodiesOf(fs, i - 1) \in Seq(Seq(Byte)) /\ <<b>> \in Seq(Seq(Byte))
      BY <1>2, <2>2, <2>3
    <3> DEFINE S == Seq(Byte)
               e == f[EndIn(fs, i)]
               u == BodiesOf(fs, i - 1)
    <3>2. u \in Seq(S) /\ <<b>> \in Seq(S) /\ e \in Seq(S)
      BY <2>10, <3>1
    <3> HIDE DEF S, e, u
    <3>3. (u \o <<b>>) \o e = u \o (<<b>> \o e)
      BY <3>2, ConcatAssociative
    <3> QED
      BY <3>3 DEF e, u
  <2> QED
    BY <2>1, <2>9, <2>10, <2>11, <2>12
<1> HIDE DEF P
<1>5. ASSUME NEW i \in T, \A j \in T : i <= j PROVE FALSE
  <2>1. i # 0
    BY <1>3
  <2>2. i \in 1 .. t /\ i - 1 \in 0 .. t /\ ~(i <= i - 1)
    BY <2>1
  <2>3. P(i - 1)
    BY <1>5, <2>2
  <2> QED
    BY <1>4, <2>2, <2>3
<1>6. T = {}
  <2>1. T \in SUBSET Nat
    OBVIOUS
  <2> HIDE DEF T
  <2> QED
    BY <1>5, <2>1, LeastNat
<1>7. P(t)
  <2>1. t \in 0 .. t
    BY <1>1
  <2> HIDE DEF P
  <2>2. t \notin T
    BY <1>6
  <2> QED
    BY <2>1, <2>2
<1> QED
  BY <1>7 DEF P

\* What is left of the stream after the last trusted frame.
LEMMA IInvParsed ==
    ASSUME IInv, FrameBounded, NEW f \in [0 .. Len(received) -> Seq(Seq(Byte))],
           Parses(f, received)
    PROVE  /\ EndIn(frames, trusted) \in 0 .. Len(received)
           /\ f[0] = Bodies \o f[EndIn(frames, trusted)]
           /\ Bodies \in Seq(Seq(Byte))
<1>1. /\ received \in Seq(Byte) /\ frames \in Seq(Frame) /\ trusted \in 0 .. Len(frames)
      /\ \A i \in 1 .. trusted : FrameIn(frames, received, i) /\ Len(frames[i].body) <= MaxBody
  BY DEF IInv, TypeOK, Frame, Framed, FrameBounded
<1>2. Bodies = BodiesOf(frames, trusted)
  BY DEF Bodies, BodiesOf
<1>3. Bodies \in Seq(Seq(Byte))
  <2>1. \A j \in 1 .. trusted : frames[j] \in Frame
    BY <1>1
  <2>2. \A j \in 1 .. trusted : frames[j].body \in Seq(Byte)
    BY <2>1 DEF Frame
  <2>3. trusted \in Nat
    BY <1>1
  <2> HIDE DEF Byte
  <2> QED
    BY <2>2, <2>3 DEF Bodies
<1> QED
  BY <1>1, <1>2, <1>3, ParsedSoFar

\* At rest the reader has dispatched what the parser finds.
LEMMA RestParsed ==
    ASSUME IInv, Misled, FrameBounded, AtRestIncomplete, pc = "wait"
    PROVE  \/ Bodies = Parse(received)
           \/ /\ ~recvingHeader /\ bodySize = 0 /\ input = <<>>
              /\ Append(Bodies, <<>>) = Parse(received)
<1> DEFINE r == received
           p == EndIn(frames, trusted)
<1>1. /\ r \in Seq(Byte) /\ input \in Seq(Byte) /\ pos \in Nat
      /\ Len(r) \in Nat /\ Len(input) \in Nat /\ pos + Len(input) = Len(r)
  BY DEF IInv, TypeOK, Tail0, TailOf
<1>2. PICK f \in [0 .. Len(r) -> Seq(Seq(Byte))] : Parses(f, r) /\ Parse(r) = f[0]
  BY <1>1, ParseRuns
<1>3. p \in 0 .. Len(r) /\ f[0] = Bodies \o f[p] /\ Bodies \in Seq(Seq(Byte))
  BY <1>2, IInvParsed
<1>4. SizeOf(r, p) = SizeIn(r, p + 4)
  <2> HIDE DEF p
  <2>1. (p + 4) - 3 = p + 1 /\ (p + 4) - 2 = p + 2 /\ (p + 4) - 1 = p + 3
    BY <1>3
  <2> QED
    BY <2>1 DEF SizeIn, SizeOf
<1>5. ASSUME Stops(r, p) PROVE Bodies = Parse(r)
  <2>1. f[p] = <<>>
    BY <1>2, <1>3, <1>5 DEF Parses
  <2> HIDE DEF Byte, r, p
  <2> QED
    BY <1>2, <1>3, <2>1, ConcatEmptySeq
<1>6. CASE oversize
  <2>1. Stops(r, p)
    BY <1>4, <1>6 DEF Misled, Stops
  <2> QED
    BY <1>5, <2>1
<1>7. CASE ~oversize /\ recvingHeader /\ Len(input) < 4
  <2>1. pos = p
    BY <1>7 DEF IInv, InStep, InStepWith
  <2> HIDE DEF p, r
  <2>2. p + 4 > Len(r)
    BY <1>1, <1>7, <2>1
  <2> QED
    BY <1>5, <2>2 DEF Stops
<1>8. ASSUME ~oversize, ~recvingHeader
      PROVE  pos = p + 4 /\ bodySize = SizeOf(r, p) /\ bodySize \in Nat
  BY <1>4, <1>8 DEF IInv, InStep, InStepWith, TypeOK
<1>9. CASE ~oversize /\ ~recvingHeader /\ Len(input) < bodySize
  <2>1. pos = p + 4 /\ bodySize = SizeOf(r, p) /\ bodySize \in Nat
    BY <1>8, <1>9
  <2> HIDE DEF p, r
  <2>2. p + 4 + bodySize > Len(r)
    BY <1>1, <1>3, <1>9, <2>1
  <2> QED
    BY <1>5, <2>1, <2>2 DEF Stops, AfterOf
<1>10. CASE ~oversize /\ ~recvingHeader /\ bodySize = 0 /\ input = <<>>
  <2>1. pos = p + 4 /\ SizeOf(r, p) = 0
    BY <1>8, <1>10
  <2>2. Len(r) = p + 4
    <3>1. Len(input) = 0
      BY <1>10
    <3> HIDE DEF p, r
    <3> QED
      BY <1>1, <1>3, <2>1, <3>1
  <2> HIDE DEF p, r
  <2>3. ~Stops(r, p) /\ AfterOf(r, p) = p + 4
    BY <1>3, <2>1, <2>2 DEF Stops, AfterOf
  <2>4. Stops(r, p + 4)
    BY <1>3, <2>2 DEF Stops
  <2>5. p + 4 \in 0 .. Len(r)
    BY <1>3, <2>2
  <2>6. BodyOf(r, p) = <<>>
    <3>1. BodyOf(r, p) \in Seq(Byte) /\ Len(BodyOf(r, p)) = 0
      BY <1>1, <1>3, <2>1, <2>3, GoesOn
    <3> QED
      BY <3>1
  <2>7. f[p + 4] = <<>>
    BY <1>2, <2>4, <2>5 DEF Parses
  <2>8. f[p] = <<<<>>>> \o <<>>
    BY <1>2, <1>3, <2>3, <2>6, <2>7 DEF Parses
  <2>9. <<>> \in Seq(Byte)
    OBVIOUS
  <2>10. f[p] = <<<<>>>>
    BY <2>8
  <2>11. Append(Bodies, <<>>) = Parse(r)
    <3> DEFINE S == Seq(Byte)
    <3>1. <<>> \in S /\ Bodies \in Seq(S)
      BY <1>3, <2>9
    <3> HIDE DEF S
    <3> QED
      BY <1>2, <1>3, <2>10, <3>1, AppendIsConcat
  <2> QED
    BY <1>10, <2>11 DEF r
<1> QED
  BY <1>5, <1>6, <1>7, <1>9, <1>10 DEF AtRestIncomplete

\* No oversize length has been read in the initial state.
LEMMA MisledInit == Init => Misled
BY DEF Init, Misled

\* Once an oversize length has been read it stays where it was in the stream.
LEMMA MisledStep == IInv /\ IInv' /\ Misled /\ [Next]_vars => Misled'
<1> SUFFICES ASSUME IInv, IInv', Misled, [Next]_vars PROVE Misled'
  OBVIOUS
<1>1. /\ received \in Seq(Byte) /\ frames \in Seq(Frame) /\ trusted \in 0 .. Len(frames)
      /\ input \in Seq(Byte) /\ pos \in Nat
  BY DEF IInv, TypeOK, Frame
<1>2. EndIn(frames, trusted) \in Nat /\ Len(received) \in Nat
  BY <1>1, EndNat
<1> DEFINE q == EndIn(frames, trusted) + 4
<1>3. q \in Nat /\ q >= 4
  BY <1>2
<1>4. ASSUME UNCHANGED <<oversize, frames, trusted, received>> PROVE Misled'
  BY <1>4 DEF Misled
<1>5. ASSUME NEW b \in Byte, Receive(b) PROVE Misled'
  <2>1. received' = Append(received, b) /\ UNCHANGED <<oversize, frames, trusted>>
    BY <1>5 DEF Receive
  <2>2. CASE ~oversize
    BY <2>1, <2>2 DEF Misled
  <2>3. CASE oversize
    <3>1. q <= Len(received) /\ SizeIn(received, q) > MaxBody
      BY <2>3 DEF Misled
    <3> HIDE DEF q
    <3>2. /\ Append(received, b)[q] = received[q]
          /\ Append(received, b)[q - 1] = received[q - 1]
          /\ Append(received, b)[q - 2] = received[q - 2]
          /\ Append(received, b)[q - 3] = received[q - 3]
      BY <1>1, <1>3, <3>1
    <3>3. SizeIn(Append(received, b), q) = SizeIn(received, q)
      BY <3>2 DEF SizeIn
    <3>4. q <= Len(Append(received, b))
      BY <1>1, <1>2, <1>3, <3>1
    <3> QED
      BY <2>1, <3>1, <3>3, <3>4 DEF Misled, q
  <2> QED
    BY <2>2, <2>3
<1>6. CASE ReadHeader
  <2>1. UNCHANGED <<frames, trusted, received>>
    BY <1>6 DEF ReadHeader
  <2>2. CASE oversize \/ ~oversize'
    BY <2>1, <2>2 DEF Misled
  <2>3. CASE ~oversize /\ oversize'
    <3>1. /\ Ntohl(input[1], input[2], input[3], input[4]) > MaxBody
          /\ Len(input) >= 4 /\ recvingHeader
      BY <1>6, <2>3 DEF ReadHeader
    <3>2. pos = EndIn(frames, trusted)
      BY <2>3, <3>1 DEF IInv, InStep, InStepWith
    <3>3. /\ pos + Len(input) = Len(received)
          /\ input[1] = received[pos + 1] /\ input[2] = received[pos + 2]
          /\ input[3] = received[pos + 3] /\ input[4] = received[pos + 4]
      <4>1. /\ pos + Len(input) = Len(received)
            /\ \A j \in 1 .. Len(input) : input[j] = received[pos + j]
        BY DEF IInv, Tail0, TailOf
      <4>2. 1 \in 1 .. Len(input) /\ 2 \in 1 .. Len(input)
            /\ 3 \in 1 .. Len(input) /\ 4 \in 1 .. Len(input)
        BY <1>1, <3>1
      <4> QED
        BY <4>1, <4>2
    <3>4. (pos + 4) - 3 = pos + 1 /\ (pos + 4) - 2 = pos + 2 /\ (pos + 4) - 1 = pos + 3
      BY <1>1
    <3>5. SizeIn(received, pos + 4) > MaxBody
      BY <3>1, <3>3, <3>4 DEF SizeIn
    <3>6. pos + 4 <= Len(received)
      BY <1>1, <1>2, <3>1, <3>3
    <3> QED
      BY <2>1, <3>2, <3>5, <3>6 DEF Misled
  <2> QED
    BY <2>2, <2>3
<1>7. CASE ReadBody
  <2>1. received' = received /\ oversize' = oversize
        /\ frames' = Append(frames, [at |-> pos, body |-> SubSeq(input, 1, bodySize)])
        /\ trusted' = IF oversize THEN trusted ELSE trusted + 1
    BY <1>7 DEF ReadBody
  <2>2. CASE ~oversize
    BY <2>1, <2>2 DEF Misled
  <2>3. CASE oversize
    <3>1. trusted' = trusted
      BY <2>1, <2>3
    <3>2. trusted # 0 => frames'[trusted] = frames[trusted]
      BY <1>1, <2>1
    <3>3. EndIn(frames', trusted) = EndIn(frames, trusted)
      BY <3>2 DEF EndIn
    <3> QED
      BY <2>1, <3>1, <3>3 DEF Misled
  <2> QED
    BY <2>2, <2>3
<1>8. CASE Call \/ Break \/ UNCHANGED vars
  <2>1. UNCHANGED <<oversize, frames, trusted, received>>
    BY <1>8 DEF Call, Break, vars
  <2> QED
    BY <1>4, <2>1
<1> QED
  BY <1>5, <1>6, <1>7, <1>8 DEF Next, readcb

\* The frames that readcb dispatches are those a parser finds that gets the
\* whole stream at once, in whatever chunks the stream came, once readcb has
\* returned; an empty body at the end of the stream is the one that may wait.
THEOREM ChunksSafe == Spec => []ChunkingIrrelevant
<1>1. IInv /\ Misled /\ FrameBounded /\ AtRestIncomplete => ChunkingIrrelevant
  BY RestParsed DEF ChunkingIrrelevant
<1>2. Spec => []IInv
  BY IInvInit, IInvStep, PTL DEF Spec
<1>3. Spec => []Misled
  BY <1>2, MisledInit, MisledStep, PTL DEF Spec
<1> QED
  BY <1>1, <1>2, <1>3, FramesBounded, RestSafe, PTL

=============================================================================
