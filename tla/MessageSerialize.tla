-------------------------- MODULE MessageSerialize --------------------------
(***************************************************************************)
(* Serializing one focustm, as SerializeToString of the protobuf library   *)
(* does it: ByteSize first, which leaves the size of every embedded        *)
(* message in its _cached_size_, then SerializeWithCachedSizesToArray,     *)
(* which writes these sizes before the messages.  Both are const: several  *)
(* threads may serialize the same message, and all of them write the       *)
(* mutable _cached_size_ (GOOGLE_SAFE_CONCURRENT_WRITES_BEGIN).            *)
(*                                                                         *)
(* The message changes only while nobody serializes it; its ui keep their  *)
(* _cached_size_ when they change, are cleared or are used again.  The     *)
(* _cached_size_ of the focustm itself is read by nobody and left out.     *)
(***************************************************************************)
EXTENDS MessageData

CONSTANTS
    Senders,     \* threads that serialize the message
    MaxUi        \* bound: ui of the message

ASSUME SerializeAssumption == MaxUi \in Nat

VARIABLES
    ft,          \* the message
    cached_size, \* _cached_size_ of its ui, of the cleared ones too
    sender       \* for each thread, where it is in SerializeToString

serializeVars == <<ft, cached_size, sender>>

Slots == 1 .. MaxUi

\* The values of the fields: absent, a varint of one byte and of two, a string
\* whose length takes one byte and two.
SomeUser  == [userid   : {Unset, Given(0), Given(300)},
              username : {Unset, Given(130)},
              unknown  : {<<>>}]
SomeFocus == [msgtype : {Unset, Given(1)},
              ui      : UNION {[1 .. n -> SomeUser] : n \in 0 .. MaxUi},
              unknown : {<<>>, <<Varint(3, 300)>>}]

AtRest == [pc |-> "rest", i |-> 1, size |-> 0, out |-> <<>>]

SerializeInit ==
    /\ ft = NoFocus
    /\ cached_size = [s \in Slots |-> 0]
    /\ sender = [t \in Senders |-> AtRest]

\* main fills the message in: set_msgtype, add_ui, set_userid, set_username,
\* Clear, in any way.
Fill ==
    /\ \A t \in Senders : sender[t].pc \in {"rest", "done"}
    /\ ft' \in SomeFocus
    /\ sender' = [t \in Senders |-> AtRest]
    /\ UNCHANGED cached_size

SerializeToString(t) ==
    /\ sender[t].pc = "rest"
    /\ sender' = [sender EXCEPT ![t].pc = "size"]
    /\ UNCHANGED <<ft, cached_size>>

\* Mutant of ByteSizeUi: an empty ui does not write its _cached_size_.
ByteSizeUiUnlessEmpty(t) ==
    LET i == sender[t].i
        n == UserByteSize(ft.ui[i])
    IN  /\ sender[t].pc = "size" /\ i <= Len(ft.ui)
        /\ cached_size' = IF n = 0 THEN cached_size ELSE [cached_size EXCEPT ![i] = n]
        /\ sender' = [sender EXCEPT ![t].i = i + 1,
                                    ![t].size = @ + EmbeddedSize(n)]
        /\ UNCHANGED ft

\* ByteSize of a focustm, one ui at a time: the ui's own ByteSize returns its
\* size and leaves it in _cached_size_.
ByteSizeUi(t) ==
    LET i == sender[t].i
        n == UserByteSize(ft.ui[i])
    IN  /\ sender[t].pc = "size" /\ i <= Len(ft.ui)
        /\ cached_size' = [cached_size EXCEPT ![i] = n]
        /\ sender' = [sender EXCEPT ![t].i = i + 1,
                                    ![t].size = @ + EmbeddedSize(n)]
        /\ UNCHANGED ft

ByteSize(t) ==
    /\ sender[t].pc = "size" /\ sender[t].i > Len(ft.ui)
    /\ sender' = [sender EXCEPT ![t].pc = "write", ![t].i = 1,
                                ![t].size = @ + FocusOwnSize(ft)]
    /\ UNCHANGED <<ft, cached_size>>

\* SerializeWithCachedSizesToArray, one ui at a time: WriteMessageNoVirtual-
\* ToArray writes GetCachedSize() and then the ui.
ToArrayUi(t) ==
    LET i == sender[t].i
    IN  /\ sender[t].pc = "write" /\ i <= Len(ft.ui)
        /\ sender' = [sender EXCEPT ![t].i = i + 1,
                ![t].out = Append(@, Embedded(2, UserToArray(ft.ui[i]),
                                              cached_size[i]))]
        /\ UNCHANGED <<ft, cached_size>>

ToArray(t) ==
    /\ sender[t].pc = "write" /\ sender[t].i > Len(ft.ui)
    /\ sender' = [sender EXCEPT ![t].pc = "done",
            ![t].out = Present(ft.msgtype, Bytes(1, ft.msgtype.val))
                       \o @ \o ft.unknown]
    /\ UNCHANGED <<ft, cached_size>>

SerializeNext ==
    \/ Fill
    \/ \E t \in Senders :
        \/ SerializeToString(t)
        \/ ByteSizeUi(t) \/ ByteSize(t)
        \/ ToArrayUi(t) \/ ToArray(t)

SerializeSpec == SerializeInit /\ [][SerializeNext]_serializeVars

-----------------------------------------------------------------------------
(* Properties.                                                             *)

SerializeTypeOK ==
    /\ ft.ui \in Seq([userid : [has : BOOLEAN, val : Nat],
                      username : [has : BOOLEAN, val : Nat],
                      unknown : {<<>>}])
    /\ Len(ft.ui) <= MaxUi
    /\ cached_size \in [Slots -> Nat]
    /\ \A t \in Senders :
         /\ sender[t].pc \in {"rest", "size", "write", "done"}
         /\ sender[t].i \in 1 .. Len(ft.ui) + 1

\* The bytes of a field of a focustm.
Written(e) == IF Known(e, 2, "bytes")
              THEN 1 + VarintSize(e.len) + WireSize(e.sub) ELSE FieldSize(e)

\* Whatever the message was when a size was cached, and however the threads
\* interleave: each thread writes before every ui the length it really has, as
\* many bytes as its buffer was made for, and a parser gets the message back.
SerializedRight ==
    \A t \in Senders : sender[t].pc = "done" =>
        LET out == sender[t].out
        IN  /\ \A i \in DOMAIN out : Known(out[i], 2, "bytes")
                                     => out[i].len = WireSize(out[i].sub)
            /\ Total([i \in DOMAIN out |-> Written(out[i])]) = sender[t].size
            /\ FocusParsed(NoFocus, out) = [msg |-> ft, run |-> "go"]

=============================================================================
