---------------------------- MODULE MessageValue ----------------------------
(***************************************************************************)
(* What the generated classes of message.pb.h promise their caller:        *)
(* messages are values.  A call changes the message it is made on, and the *)
(* one it is swapped with; no two messages share anything; a string the    *)
(* caller was given by release_...() is the caller's until it is passed to *)
(* set_allocated_...() or deleted; a field that is not set reads as empty. *)
(***************************************************************************)
EXTENDS MessageData

CONSTANTS
    Focuses,     \* messages
    Values       \* values of userids and strings

VARIABLES
    val,         \* the value of each message
    held         \* <<>>, or the string that the caller owns

Fields == {Unset} \cup {Given(v) : v \in Values \cup {0}}

Init ==
    /\ val = [m \in Focuses |-> NoFocus]
    /\ held = <<>>

Becomes(m, v) == val' = [val EXCEPT ![m] = v] /\ UNCHANGED held

\* The places of userinfos: in message m, the i-th.
Users == UNION {{m} \X DOMAIN val[m].ui : m \in Focuses}
UserAt(a) == val[a[1]].ui[a[2]]
UserBecomes(a, u) == Becomes(a[1], [val[a[1]] EXCEPT !.ui[a[2]] = u])

\* set_...(), mutable_...() and clear_...() of one field.
WriteField(m) ==
    \/ \E f \in Fields : Becomes(m, [val[m] EXCEPT !.msgtype = f])
    \/ \E a \in Users, f \in Fields :
        /\ a[1] = m
        /\ \/ UserBecomes(a, [UserAt(a) EXCEPT !.userid = f])
           \/ UserBecomes(a, [UserAt(a) EXCEPT !.username = f])

\* release_...() hands out the string of the field, if the field has one.
Handed(f) == IF f.has THEN held' = <<f.val>> ELSE held' \in {<<>>, <<0>>}

Release(m) ==
    /\ held = <<>>
    /\ \/ /\ Handed(val[m].msgtype)
          /\ val' = [val EXCEPT ![m].msgtype = Unset]
       \/ \E i \in DOMAIN val[m].ui :
            /\ Handed(val[m].ui[i].username)
            /\ val' = [val EXCEPT ![m].ui[i].username = Unset]

SetAllocated(m) ==
    LET f == IF held = <<>> THEN Unset ELSE Given(held[1])
    IN  /\ held' = <<>>
        /\ \/ val' = [val EXCEPT ![m].msgtype = f]
           \/ \E i \in DOMAIN val[m].ui : val' = [val EXCEPT ![m].ui[i].username = f]

\* The caller makes and deletes strings of its own.
OwnString ==
    /\ UNCHANGED val
    /\ IF held = <<>> THEN held' \in {<<v>> : v \in Values} ELSE held' = <<>>

\* Operations on a whole message.
WholeMessage(m) ==
    \/ Becomes(m, [val[m] EXCEPT !.ui = Append(@, NoUser)])
    \/ Becomes(m, [val[m] EXCEPT !.ui = <<>>])
    \/ Becomes(m, NoFocus)
    \/ \E n \in Focuses \ {m} :
        \/ Becomes(m, MergeFocus(val[m], val[n]))
        \/ Becomes(m, val[n])
        \/ /\ val' = [val EXCEPT ![m] = val[n], ![n] = val[m]]
           /\ UNCHANGED held

\* The same on a userinfo inside one.
WholeUser ==
    \E a \in Users :
        \/ UserBecomes(a, NoUser)
        \/ \E b \in Users \ {a} :
            \/ UserBecomes(a, MergeUser(UserAt(a), UserAt(b)))
            \/ UserBecomes(a, UserAt(b))
            \/ /\ val' = [val EXCEPT ![a[1]].ui[a[2]] = UserAt(b),
                                     ![b[1]].ui[b[2]] = UserAt(a)]
               /\ UNCHANGED held

\* A parser puts a field it does not know into a message.
KeepUnknown(m, t) ==
    \/ Becomes(m, [val[m] EXCEPT !.unknown = Append(@, t)])
    \/ \E a \in Users :
        a[1] = m /\ UserBecomes(a, [UserAt(a) EXCEPT !.unknown = Append(@, t)])

Next ==
    \/ \E m \in Focuses :
        \/ WriteField(m) \/ WholeMessage(m) \/ KeepUnknown(m, Varint(3, 1))
        \/ Release(m) \/ SetAllocated(m)
    \/ WholeUser \/ OwnString

Spec == Init /\ [][Next]_<<val, held>>

=============================================================================
