---------------------------- MODULE MessageObject ----------------------------
(***************************************************************************)
(* The generated classes userinfo and focustm of message.pb.h and          *)
(* message.pb.cc as objects in memory: has bits, string fields that point  *)
(* to the shared kEmptyString or to a string of their own, and repeated    *)
(* fields that keep cleared elements and use them again.  Two focustm      *)
(* objects, and a caller that makes any calls and owns one string at most. *)
(* The cached sizes are in MessageSerialize.                               *)
(***************************************************************************)
EXTENDS MessageData

CONSTANTS
    Focuses,     \* focustm objects
    Values,      \* values the caller writes
    MaxStrings,  \* bound: strings on the heap
    MaxElements, \* bound: elements of a repeated field
    MaxUnknown   \* bound: unknown fields of a message

ASSUME ObjectAssumption ==
    /\ Values \subseteq Nat
    /\ MaxStrings \in Nat /\ MaxElements \in Nat /\ MaxUnknown \in Nat

VARIABLES
    focus,       \* the objects
    heap,        \* the strings allocated, and their contents
    hand         \* the string that the caller owns

objectVars == <<focus, heap, hand>>

\* Pointers to strings.  0 is &kEmptyString in a message, NULL in the hand.
Strs  == 1 .. MaxStrings
Empty == 0

Content(h, p) == IF p = Empty THEN 0 ELSE h[p]
Delete(h, p)  == [q \in DOMAIN h \ {p} |-> h[q]]
New(h)        == CHOOSE p \in Strs \ DOMAIN h : TRUE
Stored(h, p, v) == [q \in DOMAIN h \cup {p} |-> IF q = p THEN v ELSE h[q]]
Emptied(h, S) == [p \in DOMAIN h |-> IF p \in S THEN 0 ELSE h[p]]

\* The constructors: SharedCtor.
NoString == [has |-> FALSE, ptr |-> Empty]
NewUser  == [userid |-> Unset, username |-> NoString, unknown |-> <<>>]
NewFocus == [msgtype |-> NoString, ui |-> <<>>, n |-> 0, unknown |-> <<>>]

-----------------------------------------------------------------------------
(* A string field f, by the accessors, which are the same for username and *)
(* msgtype: the field and the heap afterwards.                             *)

MutableString(f, h) ==
    LET p == IF f.ptr = Empty THEN New(h) ELSE f.ptr
    IN  [f |-> [has |-> TRUE, ptr |-> p],
         h |-> IF f.ptr = Empty THEN Stored(h, p, 0) ELSE h]

SetString(f, h, v) ==
    LET r == MutableString(f, h) IN [f |-> r.f, h |-> Stored(r.h, r.f.ptr, v)]

ClearString(f, h) ==
    [f |-> [f EXCEPT !.has = FALSE], h |-> Emptied(h, {f.ptr})]

\* Mutant of ReleaseString: the message keeps its pointer too.
ReleaseStringKeeps(f, h) == [f |-> [f EXCEPT !.has = FALSE], h |-> h]

ReleaseString(f, h) == [f |-> NoString, h |-> h]

SetAllocatedString(f, h, p) ==
    [f |-> IF p = Empty THEN NoString ELSE [has |-> TRUE, ptr |-> p],
     h |-> Delete(h, f.ptr)]

-----------------------------------------------------------------------------
(* Clear and MergeFrom: the message x and the heap afterwards.             *)

\* Mutant of UserClear: the has bits are reset and the fields kept.
UserClearHasBits(u, h) ==
    [x |-> [userid   |-> [u.userid EXCEPT !.has = FALSE],
            username |-> [u.username EXCEPT !.has = FALSE],
            unknown  |-> <<>>],
     h |-> h]

\* userinfo::Clear looks at the fields only when some has bit is set, and at
\* username only when its own is.
UserClear(u, h) ==
    [x |-> [userid   |-> [has |-> FALSE,
                          val |-> IF u.userid.has \/ u.username.has
                                  THEN 0 ELSE u.userid.val],
            username |-> [u.username EXCEPT !.has = FALSE],
            unknown  |-> <<>>],
     h |-> IF u.username.has THEN ClearString(u.username, h).h ELSE h]

\* What u becomes, if p is its string then.
UserMerged(u, from, p) ==
    [userid   |-> MergeField(u.userid, from.userid),
     username |-> IF from.username.has THEN [has |-> TRUE, ptr |-> p] ELSE u.username,
     unknown  |-> u.unknown \o from.unknown]

UserMergeFrom(u, h, from) ==
    LET r == IF from.username.has
             THEN SetString(u.username, h, Content(h, from.username.ptr))
             ELSE [f |-> u.username, h |-> h]
    IN  [x |-> UserMerged(u, from, r.f.ptr), h |-> r.h]

\* RepeatedPtrField::Clear clears the elements and keeps them.
ClearElements(m, h) ==
    LET written == {i \in 1 .. m.n : m.ui[i].username.has}
    IN  [x |-> [m EXCEPT !.n = 0,
                         !.ui = [i \in DOMAIN m.ui |->
                                    IF i <= m.n THEN UserClear(m.ui[i], h).x ELSE m.ui[i]]],
         h |-> Emptied(h, {m.ui[i].username.ptr : i \in written})]

\* RepeatedPtrField::Add, k times, takes cleared elements before it makes new
\* ones.
AddElements(m, k) ==
    [m EXCEPT !.n = m.n + k,
              !.ui = [i \in DOMAIN m.ui \cup 1 .. m.n + k |->
                        IF i \in DOMAIN m.ui THEN m.ui[i] ELSE NewUser]]

FocusClear(m, h) ==
    LET r == ClearElements(m, h)
        s == ClearString(m.msgtype, r.h)
    IN  [x |-> [r.x EXCEPT !.msgtype = s.f, !.unknown = <<>>],
         h |-> IF m.msgtype.has THEN s.h ELSE r.h]

\* A new string for each member of S.
NewStrings(h, S) == CHOOSE f \in Injection(S, Strs \ DOMAIN h) : TRUE

\* RepeatedPtrField::MergeFrom adds an element for each and merges it in.
MergeElements(m, h, from) ==
    LET a     == AddElements(m, from.n)
        given == {k \in 1 .. from.n : from.ui[k].username.has}
        new   == NewStrings(h, {k \in given : a.ui[m.n + k].username.ptr = Empty})
        ptr   == [k \in 1 .. from.n |->
                    IF k \in DOMAIN new THEN new[k] ELSE a.ui[m.n + k].username.ptr]
    IN  [x |-> [a EXCEPT !.ui = [i \in DOMAIN a.ui |->
                  IF i \in m.n + 1 .. a.n
                  THEN UserMerged(a.ui[i], from.ui[i - m.n], ptr[i - m.n])
                  ELSE a.ui[i]]],
         h |-> [p \in DOMAIN h \cup Range(new) |->
                  LET ks == {k \in given : ptr[k] = p}
                  IN  IF ks = {} THEN h[p]
                      ELSE Content(h, from.ui[CHOOSE k \in ks : TRUE].username.ptr)]]

FocusMergeFrom(m, h, from) ==
    LET r == MergeElements(m, h, from)
        s == IF from.msgtype.has
             THEN SetString(r.x.msgtype, r.h, Content(r.h, from.msgtype.ptr))
             ELSE [f |-> r.x.msgtype, h |-> r.h]
    IN  [x |-> [r.x EXCEPT !.msgtype = s.f, !.unknown = @ \o from.unknown],
         h |-> s.h]

-----------------------------------------------------------------------------
(* The calls.                                                              *)

ObjectInit ==
    /\ focus = [m \in Focuses |-> NewFocus]
    /\ heap = <<>>
    /\ hand = Empty

\* Bound: a call that may allocate k strings finds room for them.
Room(k) == Cardinality(Strs \ DOMAIN heap) >= k

\* The current elements of a repeated field, in message a[1] the a[2]-th.
Elements    == UNION {{m} \X (1 .. focus[m].n) : m \in Focuses}
ElementAt(a) == focus[a[1]].ui[a[2]]

HasRoom(f) == f.ptr # Empty \/ Room(1)

\* The strings that merging message m, or userinfo u, may allocate.
UserStrings(u) == IF u.username.has THEN 1 ELSE 0
FocusStrings(m) ==
    (IF focus[m].msgtype.has THEN 1 ELSE 0)
    + Cardinality({i \in 1 .. focus[m].n : focus[m].ui[i].username.has})

MsgtypeBecomes(m, r)  == focus' = [focus EXCEPT ![m].msgtype = r.f] /\ heap' = r.h
UsernameBecomes(a, r) == /\ focus' = [focus EXCEPT ![a[1]].ui[a[2]].username = r.f]
                         /\ heap' = r.h
FocusBecomes(m, r)    == focus' = [focus EXCEPT ![m] = r.x] /\ heap' = r.h
UserBecomes(a, r)     == focus' = [focus EXCEPT ![a[1]].ui[a[2]] = r.x] /\ heap' = r.h

\* Accessors of msgtype.
set_msgtype(m, v) ==
    /\ HasRoom(focus[m].msgtype) /\ UNCHANGED hand
    /\ MsgtypeBecomes(m, SetString(focus[m].msgtype, heap, v))

mutable_msgtype(m) ==
    /\ HasRoom(focus[m].msgtype) /\ UNCHANGED hand
    /\ MsgtypeBecomes(m, MutableString(focus[m].msgtype, heap))

clear_msgtype(m) ==
    MsgtypeBecomes(m, ClearString(focus[m].msgtype, heap)) /\ UNCHANGED hand

release_msgtype(m) ==
    /\ hand = Empty
    /\ hand' = focus[m].msgtype.ptr
    /\ MsgtypeBecomes(m, ReleaseString(focus[m].msgtype, heap))

set_allocated_msgtype(m) ==
    /\ MsgtypeBecomes(m, SetAllocatedString(focus[m].msgtype, heap, hand))
    /\ hand' = Empty

\* Accessors of username, and of userid.
set_username(a, v) ==
    /\ HasRoom(ElementAt(a).username) /\ UNCHANGED hand
    /\ UsernameBecomes(a, SetString(ElementAt(a).username, heap, v))

mutable_username(a) ==
    /\ HasRoom(ElementAt(a).username) /\ UNCHANGED hand
    /\ UsernameBecomes(a, MutableString(ElementAt(a).username, heap))

clear_username(a) ==
    UsernameBecomes(a, ClearString(ElementAt(a).username, heap)) /\ UNCHANGED hand

release_username(a) ==
    /\ hand = Empty
    /\ hand' = ElementAt(a).username.ptr
    /\ UsernameBecomes(a, ReleaseString(ElementAt(a).username, heap))

set_allocated_username(a) ==
    /\ UsernameBecomes(a, SetAllocatedString(ElementAt(a).username, heap, hand))
    /\ hand' = Empty

set_userid(a, v) ==
    /\ focus' = [focus EXCEPT ![a[1]].ui[a[2]].userid = Given(v)]
    /\ UNCHANGED <<heap, hand>>

clear_userid(a) ==
    /\ focus' = [focus EXCEPT ![a[1]].ui[a[2]].userid = Unset]
    /\ UNCHANGED <<heap, hand>>

\* The repeated field.
add_ui(m) ==
    /\ focus[m].n < MaxElements
    /\ focus' = [focus EXCEPT ![m] = AddElements(@, 1)]
    /\ UNCHANGED <<heap, hand>>

clear_ui(m) == FocusBecomes(m, ClearElements(focus[m], heap)) /\ UNCHANGED hand

\* Whole messages.  GOOGLE_CHECK_NE forbids merging a message into itself.
Clear(m) == FocusBecomes(m, FocusClear(focus[m], heap)) /\ UNCHANGED hand

MergeFits(m, from) ==
    /\ focus[m].n + focus[from].n <= MaxElements
    /\ Len(focus[m].unknown) + Len(focus[from].unknown) <= MaxUnknown
    /\ Room(FocusStrings(from))

MergeFrom(m, from) ==
    /\ m # from /\ MergeFits(m, from)
    /\ FocusBecomes(m, FocusMergeFrom(focus[m], heap, focus[from]))
    /\ UNCHANGED hand

\* Mutant of CopyFrom: the message is not cleared first.
CopyFromMerges(m, from) ==
    /\ m # from /\ Room(FocusStrings(from))
    /\ FocusBecomes(m, FocusMergeFrom(focus[m], heap, focus[from]))
    /\ UNCHANGED hand

CopyFrom(m, from) ==
    LET c == FocusClear(focus[m], heap)
    IN  /\ m # from /\ Room(FocusStrings(from))
        /\ FocusBecomes(m, FocusMergeFrom(c.x, c.h, focus[from]))
        /\ UNCHANGED hand

Swap(m, other) ==
    /\ m # other
    /\ focus' = [focus EXCEPT ![m] = focus[other], ![other] = focus[m]]
    /\ UNCHANGED <<heap, hand>>

\* The destructor: SharedDtor of the message and of every element, cleared
\* ones too.  The variable goes out of scope, and a new one comes into it.
OwnedBy(m) == {focus[m].msgtype.ptr} \cup {focus[m].ui[i].username.ptr : i \in DOMAIN focus[m].ui}

Destroy(m) ==
    /\ focus' = [focus EXCEPT ![m] = NewFocus]
    /\ heap' = [p \in DOMAIN heap \ OwnedBy(m) |-> heap[p]]
    /\ UNCHANGED hand

\* The same on userinfos.
UserCleared(a) == UserBecomes(a, UserClear(ElementAt(a), heap)) /\ UNCHANGED hand

UserMergedFrom(a, b) ==
    /\ a # b /\ Room(UserStrings(ElementAt(b)))
    /\ Len(ElementAt(a).unknown) + Len(ElementAt(b).unknown) <= MaxUnknown
    /\ UserBecomes(a, UserMergeFrom(ElementAt(a), heap, ElementAt(b)))
    /\ UNCHANGED hand

UserCopied(a, b) ==
    LET c == UserClear(ElementAt(a), heap)
    IN  /\ a # b /\ Room(UserStrings(ElementAt(b)))
        /\ UserBecomes(a, UserMergeFrom(c.x, c.h, ElementAt(b)))
        /\ UNCHANGED hand

UserSwapped(a, b) ==
    /\ a # b
    /\ focus' = [focus EXCEPT ![a[1]].ui[a[2]] = ElementAt(b),
                              ![b[1]].ui[b[2]] = ElementAt(a)]
    /\ UNCHANGED <<heap, hand>>

\* mutable_unknown_fields(), as the parsers use it.
KeepUnknown(m) ==
    /\ Len(focus[m].unknown) < MaxUnknown
    /\ focus' = [focus EXCEPT ![m].unknown = Append(@, Varint(3, 1))]
    /\ UNCHANGED <<heap, hand>>

UserKeepUnknown(a) ==
    /\ Len(ElementAt(a).unknown) < MaxUnknown
    /\ focus' = [focus EXCEPT ![a[1]].ui[a[2]].unknown = Append(@, Varint(3, 1))]
    /\ UNCHANGED <<heap, hand>>

\* The caller makes a string to pass to set_allocated_...(), or deletes one
\* that release_...() returned.
NewOwnString(v) ==
    /\ hand = Empty /\ Room(1)
    /\ hand' = New(heap)
    /\ heap' = Stored(heap, hand', v)
    /\ UNCHANGED focus

DeleteOwnString ==
    /\ hand # Empty
    /\ heap' = Delete(heap, hand) /\ hand' = Empty
    /\ UNCHANGED focus

StringCalls ==
    \/ \E v \in Values : NewOwnString(v)
    \/ DeleteOwnString
    \/ \E m \in Focuses :
        \/ \E v \in Values : set_msgtype(m, v)
        \/ mutable_msgtype(m) \/ clear_msgtype(m)
        \/ release_msgtype(m) \/ set_allocated_msgtype(m)
    \/ \E a \in Elements :
        \/ \E v \in Values : set_username(a, v)
        \/ mutable_username(a) \/ clear_username(a)
        \/ release_username(a) \/ set_allocated_username(a)

FocusCalls ==
    \E m \in Focuses :
        \/ add_ui(m) \/ clear_ui(m) \/ Clear(m) \/ Destroy(m) \/ KeepUnknown(m)
        \/ \E n \in Focuses : MergeFrom(m, n) \/ CopyFrom(m, n) \/ Swap(m, n)

UserCalls ==
    \E a \in Elements :
        \/ \E v \in Values : set_userid(a, v)
        \/ clear_userid(a) \/ UserCleared(a) \/ UserKeepUnknown(a)
        \/ \E b \in Elements : UserMergedFrom(a, b) \/ UserCopied(a, b) \/ UserSwapped(a, b)

ObjectNext == StringCalls \/ FocusCalls \/ UserCalls

ObjectSpec == ObjectInit /\ [][ObjectNext]_objectVars

-----------------------------------------------------------------------------
(* Properties.                                                             *)

StringField == [has : BOOLEAN, ptr : Strs \cup {Empty}]

UserTypeOK(u) ==
    /\ u.userid \in [has : BOOLEAN, val : Nat]
    /\ u.username \in StringField
    /\ Len(u.unknown) <= MaxUnknown

ObjectTypeOK ==
    /\ \A m \in Focuses :
        /\ focus[m].msgtype \in StringField
        /\ focus[m].n \in 0 .. Len(focus[m].ui)
        /\ Len(focus[m].ui) <= MaxElements
        /\ \A i \in DOMAIN focus[m].ui : UserTypeOK(focus[m].ui[i])
    /\ DOMAIN heap \subseteq Strs /\ \A p \in DOMAIN heap : heap[p] \in Nat
    /\ hand \in Strs \cup {Empty}

\* Everything that points to string p: the caller's hand, a msgtype, the
\* username of an element, current or cleared.
Owners(p) ==
    (IF hand = p THEN {<<"hand">>} ELSE {})
    \cup {<<"msgtype", m>> : m \in {k \in Focuses : focus[k].msgtype.ptr = p}}
    \cup UNION {{<<"username", m, i>> :
                    i \in {j \in DOMAIN focus[m].ui : focus[m].ui[j].username.ptr = p}}
                : m \in Focuses}

\* Whatever the calls, every string on the heap has one owner, which will
\* delete it once, and nothing points to a deleted string.
StringsOwnedOnce ==
    \A p \in Strs : Cardinality(Owners(p)) = IF p \in DOMAIN heap THEN 1 ELSE 0

\* The objects implement values: see MessageValue.
StringView(f) == [has |-> f.has, val |-> Content(heap, f.ptr)]

UserView(u) == [userid |-> u.userid, username |-> StringView(u.username),
                unknown |-> u.unknown]

FocusView(f) == [msgtype |-> StringView(f.msgtype),
                 ui      |-> [i \in 1 .. f.n |-> UserView(f.ui[i])],
                 unknown |-> f.unknown]

Views == [m \in Focuses |-> FocusView(focus[m])]
Own   == IF hand = Empty THEN <<>> ELSE <<heap[hand]>>

Value == INSTANCE MessageValue WITH val <- Views, held <- Own

\* Whatever the objects share and use again, a call changes what the messages
\* read as in one of the ways a call on values may: its own message only, or
\* the two it swaps, to something that such a call makes of them.  Which of the
\* calls on values that is, the formula leaves open.
ObjectsAreValues == Value!Spec

=============================================================================
