---------------------------- MODULE MessageParse ----------------------------
(***************************************************************************)
(* Parsing into one focustm: ParseFromArray, as main.cpp calls it, merges  *)
(* an input into an empty message; MergeFromString merges more input.  The *)
(* inputs hold fields of the message, fields of a known number and another *)
(* wire type, unknown fields, end-group tags, and ends of the input inside *)
(* a field.                                                                *)
(***************************************************************************)
EXTENDS MessageData

CONSTANT MaxMerges   \* bound: inputs merged into a message

ASSUME ParseAssumption == MaxMerges \in Nat \ {0}

VARIABLES
    ft1,     \* the message parsed into
    ok,      \* what the last call returned
    fed,     \* the whole fields it was given since it was cleared
    stop,    \* the field at which the last call gave up
    merges   \* the number of inputs since the message was cleared

parseVars == <<ft1, ok, fed, stop, merges>>

Cut(t, where) == [t EXCEPT !.cut = where]

\* Inputs are listed, not collected in a set: fields hold values of several
\* kinds.
UserWires == <<
    <<>>,
    <<Varint(1, 300), Bytes(2, 130), Varint(1, 0)>>,
    <<Bytes(2, 1), Bytes(1, 1), Varint(2, 1)>>,
    <<Varint(1, 300), EndGroup>>,
    <<Varint(1, 300), Cut(Varint(1, 0), "body")>>,
    <<Bytes(2, 130), Cut(Bytes(2, 1), "body")>> >>

WholeFields ==
    <<Bytes(1, 0), Bytes(1, 130), Varint(1, 1), Varint(2, 1), Bytes(3, 1), EndGroup>>
    \o [i \in DOMAIN UserWires |->
            Embedded(2, UserWires[i], WireSize(UserWires[i]))]

CutFields == <<
    Cut(Bytes(1, 1), "length"), Cut(Bytes(1, 1), "body"),
    Cut(Embedded(2, <<>>, 0), "length"), Cut(Varint(3, 1), "body") >>

LastFields == WholeFields \o CutFields

Inputs ==
    <<<<>>>>
    \o [i \in DOMAIN LastFields |-> <<LastFields[i]>>]
    \o [k \in 1 .. Len(WholeFields) * Len(LastFields) |->
            <<WholeFields[((k - 1) \div Len(LastFields)) + 1],
              LastFields[((k - 1) % Len(LastFields)) + 1]>>]

-----------------------------------------------------------------------------

\* A field that a parser takes as a whole; the places of w where it does not,
\* and the fields up to the first of them.
Whole(t) ==
    /\ t.cut = "no" /\ t.type # "end"
    /\ Known(t, 2, "bytes") => \A i \in DOMAIN t.sub :
            t.sub[i].cut = "no" /\ t.sub[i].type # "end"

NotWhole(w) == {i \in DOMAIN w : ~Whole(w[i])}
FirstIn(K)  == CHOOSE i \in K : \A j \in K : i <= j

WholePart(w) ==
    IF NotWhole(w) = {} THEN w ELSE SubSeq(w, 1, FirstIn(NotWhole(w)) - 1)

\* The first field that is not taken as a whole; there is no field 0.
NoStop == Varint(0, 0)

StopIn(w) == IF NotWhole(w) = {} THEN NoStop ELSE w[FirstIn(NotWhole(w))]

ParseInit == ft1 = NoFocus /\ ok = TRUE /\ fed = <<>> /\ stop = NoStop /\ merges = 0

\* The library's MergeFromCodedStream: true when the parser did not fail and
\* stopped at the end of the input.
Merged(m, w) ==
    LET r == FocusParsed(m, w)
    IN  ft1' = r.msg /\ ok' = (r.run = "go")

\* main.cpp parses into a message it has just made.
ParseFromArray(w) ==
    /\ merges = 0
    /\ Merged(ft1, w)
    /\ fed' = WholePart(w) /\ stop' = StopIn(w) /\ merges' = 1

MergeFromString(w) ==
    /\ ok /\ merges \in 1 .. MaxMerges - 1
    /\ Merged(ft1, w)
    /\ fed' = fed \o WholePart(w) /\ stop' = StopIn(w)
    /\ merges' = merges + 1

\* The caller drops a message that failed to parse, or clears it.
ClearMessage ==
    /\ merges > 0
    /\ ft1' = NoFocus /\ ok' = TRUE /\ fed' = <<>> /\ stop' = NoStop /\ merges' = 0

ParseNext ==
    \/ \E i \in DOMAIN Inputs : ParseFromArray(Inputs[i]) \/ MergeFromString(Inputs[i])
    \/ ClearMessage

ParseSpec == ParseInit /\ [][ParseNext]_parseVars

-----------------------------------------------------------------------------
(* Properties.                                                             *)

ParseTypeOK ==
    /\ ok \in BOOLEAN /\ merges \in 0 .. MaxMerges /\ stop.num \in Nat
    /\ stop.type \in {"varint", "bytes", "end"} /\ stop.cut \in {"no", "length", "body"}
    /\ ft1.msgtype \in [has : BOOLEAN, val : Nat]
    /\ \A i \in DOMAIN ft1.ui : /\ ft1.ui[i].userid \in [has : BOOLEAN, val : Nat]
                                /\ ft1.ui[i].username \in [has : BOOLEAN, val : Nat]

\* What a sequence of whole fields says: of an optional field the last, of a
\* repeated one all, and every other field kept as it came.
Fields(w, n, type) == {i \in DOMAIN w : Known(w[i], n, type)}

FieldOf(w, n, type) ==
    LET K == Fields(w, n, type)
    IN  IF K = {} THEN Unset ELSE Given(w[Max(K)].val)

\* The elements of w at the places K, in their order.
Selected(w, K) ==
    LET s[n \in 0 .. Len(w)] ==
            IF n = 0 THEN <<>>
            ELSE IF n \in K THEN Append(s[n - 1], w[n]) ELSE s[n - 1]
    IN  s[Len(w)]

UserSaid(w) ==
    [userid   |-> FieldOf(w, 1, "varint"),
     username |-> FieldOf(w, 2, "bytes"),
     unknown  |-> Selected(w, DOMAIN w \ (Fields(w, 1, "varint") \cup Fields(w, 2, "bytes")))]

FocusSaid(w) ==
    LET ui == Selected(w, Fields(w, 2, "bytes"))
    IN  [msgtype |-> FieldOf(w, 1, "bytes"),
         ui      |-> [i \in DOMAIN ui |-> UserSaid(ui[i].sub)],
         unknown |-> Selected(w, DOMAIN w \ (Fields(w, 1, "bytes") \cup Fields(w, 2, "bytes")))]

\* What a call that gave up at field t leaves of the string of field 1, which
\* was f: another field than this one does not touch it.  The field itself is
\* set before its length is read, and its string emptied before its bytes are.
StringLeft(f, t) ==
    IF ~Known(t, 1, "bytes") THEN f
    ELSE IF t.cut = "length" THEN Given(f.val) ELSE Given(0)

\* The message is what all its inputs say together, as if they had been one:
\* nothing is lost, a field of an unexpected wire type included.  After a call
\* that fails it is what came before the field at which the call gave up, but
\* for that field: a msgtype cut in its bytes has lost the value it had before,
\* and an embedded ui, whose end or whose own fields are bad, stays behind as
\* one more element, read in part.
ParsedIsSaid ==
    LET said == FocusSaid(fed)
    IN  IF ok THEN ft1 = said
        ELSE /\ ft1.msgtype = StringLeft(said.msgtype, stop)
             /\ ft1.unknown = said.unknown
             /\ IsPrefix(said.ui, ft1.ui)
             /\ Len(ft1.ui) = Len(said.ui) + IF Known(stop, 2, "bytes") THEN 1 ELSE 0

=============================================================================
