----------------------------- MODULE MessageData -----------------------------
(***************************************************************************)
(* The messages of lite_test/protobuf_debugstring_test/src/message.proto   *)
(* and their wire format, as message.pb.cc (protoc 2.5) reads and writes   *)
(* it.  A userinfo has a userid and a username, a focustm a msgtype and a  *)
(* sequence ui of userinfos; every field but ui is optional.               *)
(*                                                                         *)
(* A string is known by its length only: 0 is the empty string.  A wire is *)
(* a sequence of fields, each with its number, its wire type, its value    *)
(* (or the fields of an embedded message), the length written before an    *)
(* embedded message, and where the input ends inside it: "no", in its      *)
(* "length" or tag, or in its "body".                                      *)
(***************************************************************************)
EXTENDS Naturals, SequencesExt, FiniteSets

(* Values of messages.                                                     *)

Unset    == [has |-> FALSE, val |-> 0]
Given(v) == [has |-> TRUE, val |-> v]

NoUser  == [userid |-> Unset, username |-> Unset, unknown |-> <<>>]
NoFocus == [msgtype |-> Unset, ui |-> <<>>, unknown |-> <<>>]

\* What merging means: a field that the second message has replaces that of
\* the first, repeated and unknown fields are appended.
MergeField(a, b) == IF b.has THEN b ELSE a

MergeUser(a, b) ==
    [userid   |-> MergeField(a.userid, b.userid),
     username |-> MergeField(a.username, b.username),
     unknown  |-> a.unknown \o b.unknown]

MergeFocus(a, b) ==
    [msgtype |-> MergeField(a.msgtype, b.msgtype),
     ui      |-> a.ui \o b.ui,
     unknown |-> a.unknown \o b.unknown]

-----------------------------------------------------------------------------
(* The wire.                                                               *)

Varint(n, v)   == [num |-> n, type |-> "varint", val |-> v,
                   sub |-> <<>>, len |-> 0, cut |-> "no"]
Bytes(n, s)    == [Varint(n, s) EXCEPT !.type = "bytes"]
Embedded(n, w, l) == [Bytes(n, 0) EXCEPT !.sub = w, !.len = l]
EndGroup       == [Varint(1, 0) EXCEPT !.type = "end"]

\* Bytes of a varint: seven bits in each.
VarintSize(v) == 1 + Cardinality({k \in 1 .. 4 : v >= 128 ^ k})

StringSize(s) == VarintSize(s) + s

\* The bytes that a field of a userinfo takes on the wire, and a wire of them.
FieldSize(t) == 1 + IF t.type = "varint" THEN VarintSize(t.val)
                                         ELSE StringSize(t.val)

\* Sums and parsers are recursive functions of the place in a sequence.
Total(s) == LET sum[n \in 0 .. Len(s)] == IF n = 0 THEN 0 ELSE sum[n - 1] + s[n]
            IN  sum[Len(s)]

WireSize(w) == Total([i \in DOMAIN w |-> FieldSize(w[i])])

-----------------------------------------------------------------------------
(* ByteSize and SerializeWithCachedSizesToArray.                           *)

Present(f, t) == IF f.has THEN <<t>> ELSE <<>>

UserByteSize(u) ==
    (IF u.userid.has THEN 1 + VarintSize(u.userid.val) ELSE 0)
    + (IF u.username.has THEN 1 + StringSize(u.username.val) ELSE 0)
    + WireSize(u.unknown)

UserToArray(u) ==
    Present(u.userid, Varint(1, u.userid.val))
    \o Present(u.username, Bytes(2, u.username.val))
    \o u.unknown

\* What a focustm adds to the sizes of its ui: all but the embedded messages.
FocusOwnSize(m) ==
    (IF m.msgtype.has THEN 1 + StringSize(m.msgtype.val) ELSE 0)
    + WireSize(m.unknown)

\* A field of a focustm, and one of its ui with the length that was cached.
EmbeddedSize(size) == 1 + VarintSize(size) + size

-----------------------------------------------------------------------------
(* MergePartialFromCodedStream: one iteration of the loop, which ExpectTag *)
(* and the gotos only shorten.  "run" is "go" until the parser returns:    *)
(* "end" at an end-group tag (it returns true), "fail" when it returns     *)
(* false.  What was parsed until then stays in the message.                *)

Fails(st)   == [st EXCEPT !.run = "fail"]
Known(t, n, type) == t.num = n /\ t.type = type

\* ReadString(input, mutable_...()): the field is set before anything is
\* read, and its string emptied when the length was read.  The bytes that came
\* of a string in which the input ends stay in it: none, as no such string is
\* longer than a byte here.
ReadString(f, t) ==
    [has |-> TRUE, val |-> CASE t.cut = "no"     -> t.val
                             [] t.cut = "length" -> f.val
                             [] t.cut = "body"   -> 0]

\* Mutant of Uninterpreted: a known number with another type is skipped.
UninterpretedSkipped(st, t) ==
    CASE t.type = "end" -> [st EXCEPT !.run = "end"]
      [] t.type # "end" /\ t.cut # "no" -> Fails(st)
      [] OTHER -> IF t.num > 2 THEN [st EXCEPT !.msg.unknown = Append(@, t)] ELSE st

\* A field of another number or type.  SkipField keeps nothing of a varint in
\* which the input ends; other fields are not cut here.
Uninterpreted(st, t) ==
    CASE t.type = "end" -> [st EXCEPT !.run = "end"]
      [] t.type # "end" /\ t.cut # "no" -> Fails(st)
      [] OTHER -> [st EXCEPT !.msg.unknown = Append(@, t)]

UserFieldParsed(st, t) ==
    CASE Known(t, 1, "varint") ->
            IF t.cut = "no" THEN [st EXCEPT !.msg.userid = Given(t.val)]
                            ELSE Fails(st)
      [] Known(t, 2, "bytes") ->
            [st EXCEPT !.msg.username = ReadString(@, t),
                       !.run = IF t.cut = "no" THEN "go" ELSE "fail"]
      [] OTHER -> Uninterpreted(st, t)

UserParsed(u, w) ==
    LET st[n \in 0 .. Len(w)] ==
            IF n = 0 THEN [msg |-> u, run |-> "go"]
            ELSE LET before == st[n - 1]
                 IN  IF before.run = "go" THEN UserFieldParsed(before, w[n]) ELSE before
    IN  st[Len(w)]

\* ReadMessageNoVirtual(input, add_ui()): the element is added before
\* anything is read, and its parser must stop at the end of the embedded
\* message, not at an end-group tag.
ReadMessage(st, t) ==
    LET r == UserParsed(NoUser, t.sub)
    IN  [st EXCEPT !.msg.ui = Append(@, r.msg),
                   !.run = IF r.run = "go" /\ t.cut = "no" THEN "go" ELSE "fail"]

FocusFieldParsed(st, t) ==
    CASE Known(t, 1, "bytes") ->
            [st EXCEPT !.msg.msgtype = ReadString(@, t),
                       !.run = IF t.cut = "no" THEN "go" ELSE "fail"]
      [] Known(t, 2, "bytes") -> ReadMessage(st, t)
      [] OTHER -> Uninterpreted(st, t)

FocusParsed(m, w) ==
    LET st[n \in 0 .. Len(w)] ==
            IF n = 0 THEN [msg |-> m, run |-> "go"]
            ELSE LET before == st[n - 1]
                 IN  IF before.run = "go" THEN FocusFieldParsed(before, w[n]) ELSE before
    IN  st[Len(w)]

=============================================================================
