------------------------ MODULE MessageObjectProofs ------------------------
(***************************************************************************)
(* Proofs about MessageObject, for any number of messages, strings,        *)
(* elements and values: every string has one owner, and the messages are   *)
(* the values of MessageValue.                                             *)
(*                                                                         *)
(* What may point to a string is a place: the hand, and the slots of each  *)
(* message, of which 0 is its msgtype and i the username of its i-th       *)
(* element, current or cleared.  Calls on a field, a userinfo or a message *)
(* keep what its slots point to, or fill empty ones with new strings       *)
(* (Keeps); the others move a string to another place, or delete it.       *)
(* Each call changes the contents only of strings that the message it is   *)
(* made on has (StayBut), so that no other message reads as another value. *)
(***************************************************************************)
EXTENDS MessageObject, SequenceTheorems, FunctionTheorems, FiniteSetTheorems,
        TLAPS

-----------------------------------------------------------------------------
(* The invariant.                                                          *)

Unknowns  == {Varint(3, 1)}
UserType  == [userid   : [has : BOOLEAN, val : Nat],
              username : StringField,
              unknown  : Seq(Unknowns)]
FocusType == [msgtype : StringField, ui : Seq(UserType), n : Nat,
              unknown : Seq(Unknowns)]

FocusOK(f) == f \in FocusType /\ f.n <= Len(f.ui)
HeapOK(h)  == DOMAIN h \subseteq Strs /\ h \in [DOMAIN h -> Nat]

SlotsOf(f)  == 0 .. Len(f.ui)
Ptr(f, i) == IF i = 0 THEN f.msgtype.ptr ELSE f.ui[i].username.ptr

Hand      == <<0, -1>>
Places(F) == {a \in Focuses \X Nat : a[2] \in SlotsOf(F[a[1]])} \cup {Hand}

\* What each place points to, with the messages F and the hand hd.
Held(F, hd) == [a \in Places(F) |-> IF a = Hand THEN hd ELSE Ptr(F[a[1]], a[2])]

\* The strings D are those that the places P point to, one each.
Owned(P, D) ==
    /\ Empty \notin D
    /\ \A a \in DOMAIN P : P[a] # Empty => P[a] \in D
    /\ \A a, b \in DOMAIN P : P[a] # Empty /\ P[a] = P[b] => a = b
    /\ \A p \in D : \E a \in DOMAIN P : P[a] = p

\* The state of the messages F, the hand hd and the heap h.
Good(F, hd, h) ==
    /\ F = [m \in Focuses |-> F[m]] /\ \A m \in Focuses : FocusOK(F[m])
    /\ HeapOK(h) /\ hd \in Strs \cup {Empty}
    /\ Owned(Held(F, hd), DOMAIN h)

ObjectInv == Good(focus, hand, heap)

-----------------------------------------------------------------------------
(* Steps on places.                                                        *)

\* The places I, which were empty or are new, are filled with new strings.
Filled(P, Q, D, E, I) ==
    /\ DOMAIN P \subseteq DOMAIN Q /\ I \subseteq DOMAIN Q
    /\ \A a \in DOMAIN Q \ I : Q[a] = IF a \in DOMAIN P THEN P[a] ELSE Empty
    /\ \A a \in I : /\ a \in DOMAIN P => P[a] = Empty
                    /\ Q[a] # Empty /\ Q[a] \notin D
    /\ \A a, b \in I : Q[a] = Q[b] => a = b
    /\ E = D \cup {Q[a] : a \in I}

\* What the places J point to is deleted, and they are empty or gone.
Dropped(P, Q, D, E, J) ==
    /\ \A a \in DOMAIN P \ J : a \in DOMAIN Q /\ Q[a] = P[a]
    /\ \A a \in DOMAIN Q : Q[a] = Empty \/ (a \in DOMAIN P \ J /\ Q[a] = P[a])
    /\ J \subseteq DOMAIN P
    /\ E = D \ {P[a] : a \in J}

\* Each place gets what s says: s is one to one.
Moved(P, Q, s) ==
    /\ s \in Bijection(DOMAIN Q, DOMAIN P)
    /\ \A a \in DOMAIN Q : Q[a] = P[s[a]]

LEMMA FilledOwned ==
    ASSUME NEW P, NEW Q, NEW D, NEW E, NEW I, Owned(P, D), Filled(P, Q, D, E, I)
    PROVE  Owned(Q, E)
<1>1. Empty \notin E
  BY DEF Owned, Filled
<1>2. ASSUME NEW a \in DOMAIN Q, Q[a] # Empty
      PROVE  \/ a \in I /\ Q[a] \notin D
             \/ a \in DOMAIN P /\ a \notin I /\ Q[a] = P[a] /\ Q[a] \in D
  BY <1>2 DEF Owned, Filled
<1>3. \A a \in DOMAIN Q : Q[a] # Empty => Q[a] \in E
  BY <1>2 DEF Filled
<1>4. ASSUME NEW a \in DOMAIN Q, NEW b \in DOMAIN Q, Q[a] # Empty, Q[a] = Q[b]
      PROVE  a = b
  BY <1>2, <1>4 DEF Owned, Filled
<1>5. ASSUME NEW p \in E PROVE \E a \in DOMAIN Q : Q[a] = p
  <2>1. CASE p \in D
    <3>1. PICK a \in DOMAIN P : P[a] = p
      BY <2>1 DEF Owned
    <3>2. a \in DOMAIN Q \ I
      BY <2>1, <3>1 DEF Owned, Filled
    <3> QED
      BY <3>1, <3>2 DEF Filled
  <2>2. CASE p \notin D
    BY <2>2 DEF Filled
  <2> QED
    BY <2>1, <2>2
<1> QED
  BY <1>1, <1>3, <1>4, <1>5 DEF Owned

LEMMA DroppedOwned ==
    ASSUME NEW P, NEW Q, NEW D, NEW E, NEW J, Owned(P, D), Dropped(P, Q, D, E, J)
    PROVE  Owned(Q, E)
<1>1. ASSUME NEW a \in DOMAIN Q, Q[a] # Empty
      PROVE  a \in DOMAIN P \ J /\ Q[a] = P[a] /\ Q[a] \in E
  BY <1>1 DEF Owned, Dropped
<1>2. \A a, b \in DOMAIN Q : Q[a] # Empty /\ Q[a] = Q[b] => a = b
  BY <1>1 DEF Owned
<1>3. ASSUME NEW p \in E PROVE \E a \in DOMAIN Q : Q[a] = p
  <2>1. PICK a \in DOMAIN P : P[a] = p
    BY <1>3 DEF Owned, Dropped
  <2>2. a \notin J
    BY <1>3, <2>1 DEF Dropped
  <2> QED
    BY <2>1, <2>2 DEF Dropped
<1> QED
  BY <1>1, <1>2, <1>3 DEF Owned, Dropped

LEMMA MovedOwned ==
    ASSUME NEW P, NEW Q, NEW D, NEW s, Owned(P, D), Moved(P, Q, s)
    PROVE  Owned(Q, D)
<1>1. /\ \A a \in DOMAIN Q : s[a] \in DOMAIN P
      /\ \A a, b \in DOMAIN Q : s[a] = s[b] => a = b
      /\ \A c \in DOMAIN P : \E a \in DOMAIN Q : s[a] = c
  BY DEF Moved, Bijection, Injection, Surjection, IsInjective
<1> QED
  BY <1>1 DEF Owned, Moved

-----------------------------------------------------------------------------
(* Places of messages.                                                     *)

LEMMA FocusFacts ==
    ASSUME NEW f, FocusOK(f)
    PROVE  /\ f = [msgtype |-> f.msgtype, ui |-> f.ui, n |-> f.n, unknown |-> f.unknown]
           /\ f.msgtype \in StringField /\ f.unknown \in Seq(Unknowns)
           /\ f.n \in Nat /\ Len(f.ui) \in Nat /\ f.n <= Len(f.ui)
           /\ f.ui \in Seq(UserType) /\ DOMAIN f.ui = 1 .. Len(f.ui)
           /\ \A i \in 1 .. Len(f.ui) :
                /\ f.ui[i] \in UserType
                /\ f.ui[i] = [userid |-> f.ui[i].userid, username |-> f.ui[i].username,
                              unknown |-> f.ui[i].unknown]
                /\ f.ui[i].username \in StringField
           /\ \A i \in SlotsOf(f) : Ptr(f, i) \in Strs \cup {Empty}
<1>1. f \in FocusType /\ f.n <= Len(f.ui)
  BY DEF FocusOK
<1>2. /\ f.msgtype \in StringField /\ f.ui \in Seq(UserType)
      /\ f.n \in Nat /\ f.unknown \in Seq(Unknowns)
      /\ f = [msgtype |-> f.msgtype, ui |-> f.ui, n |-> f.n, unknown |-> f.unknown]
  BY <1>1 DEF FocusType
<1>3. Len(f.ui) \in Nat /\ DOMAIN f.ui = 1 .. Len(f.ui)
  BY <1>2, LenProperties
<1>4. ASSUME NEW i \in 1 .. Len(f.ui)
      PROVE  /\ f.ui[i] \in UserType
             /\ f.ui[i] = [userid |-> f.ui[i].userid, username |-> f.ui[i].username,
                           unknown |-> f.ui[i].unknown]
             /\ f.ui[i].username \in StringField
  <2>1. f.ui[i] \in UserType
    BY <1>2, <1>4, ElementOfSeq
  <2> QED
    BY <2>1 DEF UserType
<1>5. ASSUME NEW i \in SlotsOf(f) PROVE Ptr(f, i) \in Strs \cup {Empty}
  <2>1. CASE i = 0
    BY <1>2, <2>1 DEF Ptr, StringField
  <2>2. CASE i # 0
    <3>1. i \in 1 .. Len(f.ui)
      BY <1>3, <2>2 DEF SlotsOf
    <3>2. f.ui[i].username.ptr \in Strs \cup {Empty}
      BY <1>4, <3>1 DEF StringField
    <3> QED
      BY <2>2, <3>2 DEF Ptr
  <2> QED
    BY <2>1, <2>2
<1> QED
  BY <1>1, <1>2, <1>3, <1>4, <1>5

\* P is what each place points to, with the messages F and the hand hd.
PlacesAre(P, F, hd) ==
    /\ DOMAIN P = Places(F) /\ Hand \in Places(F) /\ P[Hand] = hd
    /\ \A m \in Focuses : \A i \in SlotsOf(F[m]) :
         /\ <<m, i>> \in Places(F) /\ <<m, i>> # Hand
         /\ P[<<m, i>>] = Ptr(F[m], i)
    /\ \A a \in Places(F) \ {Hand} :
         /\ a = <<a[1], a[2]>> /\ a[1] \in Focuses /\ a[2] \in SlotsOf(F[a[1]])
         /\ P[a] = Ptr(F[a[1]], a[2])

LensOK(F) == \A m \in Focuses : Len(F[m].ui) \in Nat

LEMMA HeldAt ==
    ASSUME NEW F, NEW hd, LensOK(F)
    PROVE  PlacesAre(Held(F, hd), F, hd)
<1>1. ASSUME NEW m \in Focuses, NEW i \in SlotsOf(F[m])
      PROVE  <<m, i>> \in Places(F) /\ <<m, i>> # Hand
  <2>1. i \in Nat
    BY DEF SlotsOf, LensOK
  <2> QED
    BY <2>1 DEF Places, Hand
<1> QED
  BY <1>1 DEF Held, Places, PlacesAre

\* Message f and heap h become g and E: slots are added, and those in I, which
\* were empty or are new, are filled with new strings; the others stay.
Fills(f, g, D, E, I) ==
    /\ SlotsOf(f) \subseteq SlotsOf(g) /\ I \subseteq SlotsOf(g)
    /\ \A i \in SlotsOf(g) \ I : Ptr(g, i) = IF i \in SlotsOf(f) THEN Ptr(f, i) ELSE Empty
    /\ \A i \in I : /\ i \in SlotsOf(f) => Ptr(f, i) = Empty
                    /\ Ptr(g, i) # Empty /\ Ptr(g, i) \notin D
    /\ \A i, j \in I : Ptr(g, i) = Ptr(g, j) => i = j
    /\ E = D \cup {Ptr(g, i) : i \in I}

Keeps(f, h, g, k) ==
    /\ FocusOK(g) /\ HeapOK(k)
    /\ \E I : Fills(f, g, DOMAIN h, DOMAIN k, I)

LEMMA KeepsGood ==
    ASSUME NEW F, NEW hd, NEW h, NEW k, NEW m \in Focuses, NEW g,
           Good(F, hd, h), Keeps(F[m], h, g, k)
    PROVE  Good([F EXCEPT ![m] = g], hd, k)
<1> DEFINE G == [F EXCEPT ![m] = g]
           P == Held(F, hd)
           Q == Held(G, hd)
<1>1. G[m] = g /\ \A n \in Focuses \ {m} : G[n] = F[n]
  BY DEF Good
<1>2. G = [n \in Focuses |-> G[n]] /\ \A n \in Focuses : FocusOK(G[n])
  BY <1>1 DEF Good, Keeps
<1>3. PICK I : Fills(F[m], G[m], DOMAIN h, DOMAIN k, I)
  BY <1>1 DEF Keeps
<1> DEFINE J == {<<m, i>> : i \in I}
<1>4. LensOK(F) /\ LensOK(G)
  BY <1>2, FocusFacts DEF Good, LensOK
<1> HIDE DEF G, P, Q
<1>5. PlacesAre(P, F, hd)
  BY <1>4, HeldAt DEF P
<1>6. PlacesAre(Q, G, hd)
  BY <1>4, HeldAt DEF Q
<1>7. Filled(P, Q, DOMAIN h, DOMAIN k, J)
  <2>1. DOMAIN P \subseteq DOMAIN Q
    BY <1>1, <1>3, <1>5, <1>6 DEF Fills, PlacesAre
  <2>2. J \subseteq DOMAIN Q
    BY <1>3, <1>6 DEF Fills, PlacesAre
  <2>3. ASSUME NEW a \in DOMAIN Q \ J PROVE Q[a] = IF a \in DOMAIN P THEN P[a] ELSE Empty
    <3>1. CASE a = Hand
      BY <3>1, <1>5, <1>6 DEF PlacesAre
    <3>2. CASE a # Hand /\ a[1] = m
      <4>1. a = <<m, a[2]>> /\ a[2] \in SlotsOf(G[m]) \ I /\ Q[a] = Ptr(G[m], a[2])
        BY <3>2, <1>6, <2>3 DEF PlacesAre
      <4>2. a \in DOMAIN P <=> a[2] \in SlotsOf(F[m])
        BY <3>2, <4>1, <1>5 DEF PlacesAre
      <4>3. a \in DOMAIN P => P[a] = Ptr(F[m], a[2])
        BY <3>2, <1>5 DEF PlacesAre
      <4> QED
        BY <4>1, <4>2, <4>3, <1>3 DEF Fills
    <3>3. CASE a # Hand /\ a[1] # m
      <4>1. /\ a = <<a[1], a[2]>> /\ a[1] \in Focuses \ {m} /\ a[2] \in SlotsOf(F[a[1]])
            /\ Q[a] = Ptr(F[a[1]], a[2])
        BY <3>3, <1>1, <1>6 DEF PlacesAre
      <4> QED
        BY <4>1, <1>5 DEF PlacesAre
    <3> QED
      BY <3>1, <3>2, <3>3
  <2>4. ASSUME NEW i \in I
        PROVE  /\ <<m, i>> \in DOMAIN P => P[<<m, i>>] = Empty
               /\ Q[<<m, i>>] = Ptr(G[m], i)
               /\ Q[<<m, i>>] # Empty /\ Q[<<m, i>>] \notin DOMAIN h
    <3>1. i \in SlotsOf(G[m]) /\ Q[<<m, i>>] = Ptr(G[m], i) /\ <<m, i>> # Hand
      BY <1>3, <1>6 DEF Fills, PlacesAre
    <3>2. <<m, i>> \in DOMAIN P => i \in SlotsOf(F[m])
      BY <3>1, <1>5 DEF PlacesAre
    <3> QED
      BY <3>1, <3>2, <1>3, <1>5 DEF Fills, PlacesAre
  <2>5. \A a, b \in J : Q[a] = Q[b] => a = b
    BY <2>4, <1>3 DEF Fills
  <2>6. DOMAIN k = DOMAIN h \cup {Q[a] : a \in J}
    <3>1. {Q[a] : a \in J} = {Ptr(G[m], i) : i \in I}
      BY <2>4
    <3> QED
      BY <3>1, <1>3 DEF Fills
  <2> QED
    BY <2>1, <2>2, <2>3, <2>4, <2>5, <2>6 DEF Filled
<1>8. Owned(Q, DOMAIN k)
  BY <1>7, FilledOwned DEF Good, P
<1> QED
  BY <1>2, <1>8 DEF Good, Keeps, Q, G

-----------------------------------------------------------------------------
(* Calls on a string field, and on a userinfo.                             *)

\* Field f and heap h become g and k: the field keeps its string, or had none
\* and gets a new one.
FieldKept(f, h, g, k) ==
    /\ g \in StringField /\ HeapOK(k)
    /\ \/ g.ptr = f.ptr /\ DOMAIN k = DOMAIN h
       \/ /\ f.ptr = Empty /\ g.ptr \in Strs \ DOMAIN h
          /\ DOMAIN k = DOMAIN h \cup {g.ptr}

\* A field in the heap h that MutableString can be called on.
FieldOK(f, h) == f \in StringField /\ HeapOK(h) /\ (f.ptr # Empty => f.ptr \in DOMAIN h)
HasNew(f, h)  == f.ptr = Empty => Strs \ DOMAIN h # {}

LEMMA HeapFacts ==
    ASSUME NEW h, HeapOK(h)
    PROVE  /\ \A p : Content(h, p) \in Nat \/ (p # Empty /\ p \notin DOMAIN h)
           /\ \A p : HeapOK(Delete(h, p)) /\ DOMAIN Delete(h, p) = DOMAIN h \ {p}
           /\ Strs \ DOMAIN h # {} => New(h) \in Strs \ DOMAIN h
           /\ \A p \in Strs, v \in Nat :
                HeapOK(Stored(h, p, v)) /\ DOMAIN Stored(h, p, v) = DOMAIN h \cup {p}
           /\ \A S : HeapOK(Emptied(h, S)) /\ DOMAIN Emptied(h, S) = DOMAIN h
<1>1. \A p : Content(h, p) \in Nat \/ (p # Empty /\ p \notin DOMAIN h)
  BY DEF HeapOK, Content
<1>2. \A p : HeapOK(Delete(h, p)) /\ DOMAIN Delete(h, p) = DOMAIN h \ {p}
  BY DEF HeapOK, Delete
<1>3. Strs \ DOMAIN h # {} => New(h) \in Strs \ DOMAIN h
  BY DEF New
<1>4. ASSUME NEW p \in Strs, NEW v \in Nat
      PROVE  HeapOK(Stored(h, p, v)) /\ DOMAIN Stored(h, p, v) = DOMAIN h \cup {p}
  BY DEF HeapOK, Stored
<1>5. \A S : HeapOK(Emptied(h, S)) /\ DOMAIN Emptied(h, S) = DOMAIN h
  BY DEF HeapOK, Emptied
<1> QED
  BY <1>1, <1>2, <1>3, <1>4, <1>5

LEMMA MutableStringKept ==
    ASSUME NEW f, NEW h, FieldOK(f, h), HasNew(f, h)
    PROVE  LET r == MutableString(f, h)
           IN  /\ FieldKept(f, h, r.f, r.h) /\ FieldOK(r.f, r.h)
               /\ r.f.ptr \in Strs
<1> DEFINE p == IF f.ptr = Empty THEN New(h) ELSE f.ptr
           k == IF f.ptr = Empty THEN Stored(h, p, 0) ELSE h
           r == MutableString(f, h)
<1>1. r.f = [has |-> TRUE, ptr |-> p] /\ r.h = k
  BY DEF MutableString
<1>2. CASE f.ptr = Empty
  <2>1. p \in Strs \ DOMAIN h /\ k = Stored(h, p, 0)
    BY <1>2, HeapFacts DEF FieldOK, HasNew
  <2>2. HeapOK(k) /\ DOMAIN k = DOMAIN h \cup {p}
    BY <2>1, HeapFacts DEF FieldOK
  <2>3. p # Empty
    BY <2>1 DEF Strs, Empty
  <2> HIDE DEF p, k, r
  <2>4. r.f.ptr = p /\ r.f \in StringField
    BY <1>1, <2>1 DEF StringField
  <2>5. FieldKept(f, h, r.f, r.h) /\ FieldOK(r.f, r.h) /\ r.f.ptr \in Strs
    BY <1>1, <1>2, <2>1, <2>2, <2>3, <2>4 DEF FieldKept, FieldOK
  <2> QED
    BY <2>5 DEF r
<1>3. CASE f.ptr # Empty
  <2>1. p = f.ptr /\ k = h /\ p \in Strs
    BY <1>3 DEF FieldOK, StringField
  <2> HIDE DEF p, k, r
  <2>2. r.f.ptr = p /\ r.f \in StringField
    BY <1>1, <2>1 DEF StringField
  <2>3. FieldKept(f, h, r.f, r.h) /\ FieldOK(r.f, r.h) /\ r.f.ptr \in Strs
    BY <1>1, <1>3, <2>1, <2>2 DEF FieldKept, FieldOK
  <2> QED
    BY <2>3 DEF r
<1> QED
  BY <1>2, <1>3

LEMMA SetStringKept ==
    ASSUME NEW f, NEW h, FieldOK(f, h), HasNew(f, h), NEW v \in Nat
    PROVE  LET r == SetString(f, h, v) IN FieldKept(f, h, r.f, r.h)
<1> DEFINE q == MutableString(f, h)
           r == SetString(f, h, v)
<1>1. FieldKept(f, h, q.f, q.h) /\ FieldOK(q.f, q.h) /\ q.f.ptr \in Strs
  BY MutableStringKept
<1>2. r.f = q.f /\ r.h = Stored(q.h, q.f.ptr, v)
  BY DEF SetString
<1>3. q.f.ptr # Empty
  BY <1>1 DEF Strs, Empty
<1> HIDE DEF q, r
<1>4. HeapOK(r.h) /\ DOMAIN r.h = DOMAIN q.h
  <2>1. HeapOK(q.h) /\ q.f.ptr \in DOMAIN q.h
    BY <1>1, <1>3 DEF FieldOK
  <2>2. HeapOK(r.h) /\ DOMAIN r.h = DOMAIN q.h \cup {q.f.ptr}
    <3>1. /\ HeapOK(Stored(q.h, q.f.ptr, v))
          /\ DOMAIN Stored(q.h, q.f.ptr, v) = DOMAIN q.h \cup {q.f.ptr}
      <4>1. q.f.ptr \in Strs
        BY <1>1
      <4>2. \A p \in Strs, w \in Nat : /\ HeapOK(Stored(q.h, p, w))
                                       /\ DOMAIN Stored(q.h, p, w) = DOMAIN q.h \cup {p}
        BY <2>1, HeapFacts
      <4> QED
        BY <4>1, <4>2
    <3> QED
      BY <1>2, <3>1
  <2> QED
    BY <2>1, <2>2
<1>5. FieldKept(f, h, r.f, r.h)
  BY <1>1, <1>2, <1>4 DEF FieldKept
<1> QED
  BY <1>5 DEF r

LEMMA ClearStringKept ==
    ASSUME NEW f, NEW h, FieldOK(f, h)
    PROVE  LET r == ClearString(f, h) IN FieldKept(f, h, r.f, r.h) /\ r.f.ptr = f.ptr
<1> DEFINE r == ClearString(f, h)
<1>1. r.f = [f EXCEPT !.has = FALSE] /\ r.h = Emptied(h, {f.ptr})
  BY DEF ClearString
<1>2. r.f \in StringField /\ r.f.ptr = f.ptr
  BY <1>1 DEF FieldOK, StringField
<1>3. HeapOK(r.h) /\ DOMAIN r.h = DOMAIN h
  BY <1>1, HeapFacts DEF FieldOK
<1> QED
  BY <1>2, <1>3 DEF FieldKept

\* The same for the username of a userinfo.
UserKept(u, h, x, k) == x \in UserType /\ FieldKept(u.username, h, x.username, k)

LEMMA UserClearKept ==
    ASSUME NEW u \in UserType, NEW h, FieldOK(u.username, h)
    PROVE  LET r == UserClear(u, h)
           IN  /\ UserKept(u, h, r.x, r.h) /\ r.x.username.ptr = u.username.ptr
               /\ DOMAIN r.h = DOMAIN h
<1> DEFINE r == UserClear(u, h)
<1>1. /\ r.x = [userid   |-> [has |-> FALSE,
                              val |-> IF u.userid.has \/ u.username.has
                                      THEN 0 ELSE u.userid.val],
                username |-> [u.username EXCEPT !.has = FALSE],
                unknown  |-> <<>>]
      /\ r.h = IF u.username.has THEN ClearString(u.username, h).h ELSE h
  BY DEF UserClear
<1>2. u.userid \in [has : BOOLEAN, val : Nat] /\ u.username \in StringField
  BY DEF UserType
<1>3. [u.username EXCEPT !.has = FALSE] \in StringField
      /\ [u.username EXCEPT !.has = FALSE].ptr = u.username.ptr
  BY <1>2 DEF StringField
<1>4. <<>> \in Seq(Unknowns)
  BY EmptySeq
<1>5. (IF u.userid.has \/ u.username.has THEN 0 ELSE u.userid.val) \in Nat
  BY <1>2
<1>6. r.x \in UserType /\ r.x.username = [u.username EXCEPT !.has = FALSE]
  BY <1>1, <1>3, <1>4, <1>5 DEF UserType
<1>7. HeapOK(r.h) /\ DOMAIN r.h = DOMAIN h
  <2>1. CASE u.username.has
    <3>1. r.h = Emptied(h, {u.username.ptr})
      BY <1>1, <2>1 DEF ClearString
    <3> QED
      BY <3>1, HeapFacts DEF FieldOK
  <2>2. CASE ~u.username.has
    BY <1>1, <2>2 DEF FieldOK
  <2> QED
    BY <2>1, <2>2
<1> HIDE DEF r
<1>8. r.x.username \in StringField /\ r.x.username.ptr = u.username.ptr
  BY <1>3, <1>6
<1>9. UserKept(u, h, r.x, r.h)
  BY <1>6, <1>7, <1>8 DEF UserKept, FieldKept
<1> QED
  BY <1>7, <1>8, <1>9 DEF r

LEMMA UserMergedType ==
    ASSUME NEW u \in UserType, NEW v \in UserType, NEW p \in Strs \cup {Empty}
    PROVE  /\ UserMerged(u, v, p) \in UserType
           /\ UserMerged(u, v, p).username =
                IF v.username.has THEN [has |-> TRUE, ptr |-> p] ELSE u.username
<1>1. /\ u.userid \in [has : BOOLEAN, val : Nat] /\ u.username \in StringField
      /\ v.userid \in [has : BOOLEAN, val : Nat] /\ v.username \in StringField
      /\ u.unknown \in Seq(Unknowns) /\ v.unknown \in Seq(Unknowns)
  BY DEF UserType
<1>2. MergeField(u.userid, v.userid) \in [has : BOOLEAN, val : Nat]
  BY <1>1 DEF MergeField
<1>3. u.unknown \o v.unknown \in Seq(Unknowns)
  BY <1>1, ConcatProperties
<1>4. (IF v.username.has THEN [has |-> TRUE, ptr |-> p] ELSE u.username) \in StringField
  BY <1>1 DEF StringField
<1> QED
  BY <1>2, <1>3, <1>4 DEF UserMerged, UserType

LEMMA UserMergeFromKept ==
    ASSUME NEW u \in UserType, NEW h, NEW v \in UserType,
           FieldOK(u.username, h), FieldOK(v.username, h),
           v.username.has => HasNew(u.username, h)
    PROVE  LET r == UserMergeFrom(u, h, v) IN UserKept(u, h, r.x, r.h)
<1> DEFINE s == IF v.username.has
                THEN SetString(u.username, h, Content(h, v.username.ptr))
                ELSE [f |-> u.username, h |-> h]
           r == UserMergeFrom(u, h, v)
<1>1. r.x = UserMerged(u, v, s.f.ptr) /\ r.h = s.h
  BY DEF UserMergeFrom
<1>2. u.username \in StringField /\ v.username \in StringField
  BY DEF UserType
<1>3. Content(h, v.username.ptr) \in Nat
  BY HeapFacts DEF FieldOK
<1>4. FieldKept(u.username, h, s.f, s.h)
  <2>1. CASE v.username.has
    <3>1. s = SetString(u.username, h, Content(h, v.username.ptr))
      BY <2>1
    <3>2. HasNew(u.username, h)
      BY <2>1
    <3> HIDE DEF s
    <3> QED
      BY <1>3, <3>1, <3>2, SetStringKept
  <2>2. CASE ~v.username.has
    <3>1. s.f = u.username /\ s.h = h
      BY <2>2
    <3> HIDE DEF s
    <3> QED
      BY <1>2, <3>1 DEF FieldKept, FieldOK
  <2> QED
    BY <2>1, <2>2
<1>5. ~v.username.has => s.f = u.username
  OBVIOUS
<1> HIDE DEF s, r
<1>6. s.f.ptr \in Strs \cup {Empty} /\ s.f \in StringField
  BY <1>4 DEF FieldKept, StringField
<1>7. r.x \in UserType /\ r.x.username =
        IF v.username.has THEN [has |-> TRUE, ptr |-> s.f.ptr] ELSE u.username
  <2>1. /\ UserMerged(u, v, s.f.ptr) \in UserType
        /\ UserMerged(u, v, s.f.ptr).username =
             IF v.username.has THEN [has |-> TRUE, ptr |-> s.f.ptr] ELSE u.username
    BY <1>6, UserMergedType
  <2> QED
    BY <1>1, <2>1
<1>8. r.x.username \in StringField /\ r.x.username.ptr = s.f.ptr
  BY <1>2, <1>5, <1>6, <1>7 DEF StringField
<1>9. UserKept(u, h, r.x, r.h)
  BY <1>1, <1>4, <1>7, <1>8 DEF UserKept, FieldKept
<1> QED
  BY <1>9 DEF r

-----------------------------------------------------------------------------
(* Calls on a message.                                                     *)

IsList(s, n, S) == s \in [1 .. n -> S]

LEMMA ListOf ==
    ASSUME NEW S, NEW n \in Nat, NEW s, IsList(s, n, S)
    PROVE  s \in Seq(S) /\ Len(s) = n
<1>1. s \in Seq(S)
  BY SeqDef DEF IsList
<1> QED
  <2>1. Len(s) \in Nat /\ DOMAIN s = 1 .. Len(s)
    BY <1>1, LenProperties
  <2>2. DOMAIN s = 1 .. n
    BY DEF IsList
  <2>3. n = Len(s)
    <3>1. Len(s) # 0 => Len(s) \in 1 .. n
      BY <2>1, <2>2
    <3>2. n # 0 => n \in 1 .. Len(s)
      BY <2>1, <2>2
    <3>3. Len(s) <= n
      BY <2>1, <3>1
    <3>4. n <= Len(s)
      BY <2>1, <3>2
    <3>5. Len(s) \in Nat
      BY <2>1
    <3> QED
      BY <3>3, <3>4, <3>5
  <2> QED
    BY <1>1, <2>3

\* The slots and the strings of f stay, and slots without strings are added.
SlotsStay(f, h, g, k) ==
    /\ FocusOK(g) /\ HeapOK(k) /\ DOMAIN k = DOMAIN h
    /\ Len(f.ui) <= Len(g.ui)
    /\ \A i \in SlotsOf(g) : Ptr(g, i) = IF i \in SlotsOf(f) THEN Ptr(f, i) ELSE Empty

LEMMA SlotsStayKeeps ==
    ASSUME NEW f, NEW h, NEW g, NEW k, FocusOK(f), SlotsStay(f, h, g, k)
    PROVE  Keeps(f, h, g, k)
<1>1. Len(f.ui) \in Nat /\ Len(g.ui) \in Nat
  BY FocusFacts DEF SlotsStay
<1>2. SlotsOf(f) \subseteq SlotsOf(g)
  BY <1>1 DEF SlotsOf, SlotsStay
<1>3. Fills(f, g, DOMAIN h, DOMAIN k, {})
  BY <1>2 DEF Fills, SlotsStay
<1> QED
  BY <1>3 DEF Keeps, SlotsStay

\* One slot changes, as FieldKept says.
LEMMA SlotKeeps ==
    ASSUME NEW f, NEW h, NEW g, NEW k, NEW i \in SlotsOf(f),
           FocusOK(f), FocusOK(g), HeapOK(k), Len(g.ui) = Len(f.ui),
           \A j \in SlotsOf(f) \ {i} : Ptr(g, j) = Ptr(f, j),
           \/ Ptr(g, i) = Ptr(f, i) /\ DOMAIN k = DOMAIN h
           \/ /\ Ptr(f, i) = Empty /\ Ptr(g, i) \in Strs \ DOMAIN h
              /\ DOMAIN k = DOMAIN h \cup {Ptr(g, i)}
    PROVE  Keeps(f, h, g, k)
<1>1. SlotsOf(g) = SlotsOf(f)
  BY DEF SlotsOf
<1>2. CASE Ptr(g, i) = Ptr(f, i) /\ DOMAIN k = DOMAIN h
  BY <1>1, <1>2, SlotsStayKeeps, FocusFacts DEF SlotsStay
<1>3. CASE /\ Ptr(f, i) = Empty /\ Ptr(g, i) \in Strs \ DOMAIN h
           /\ DOMAIN k = DOMAIN h \cup {Ptr(g, i)}
  <2>1. Ptr(g, i) # Empty
    BY <1>3 DEF Strs, Empty
  <2>2. Fills(f, g, DOMAIN h, DOMAIN k, {i})
    BY <1>1, <1>3, <2>1 DEF Fills
  <2> QED
    BY <2>2 DEF Keeps
<1> QED
  BY <1>2, <1>3

WithMsgtype(f, s, w) == [msgtype |-> s, ui |-> f.ui, n |-> f.n, unknown |-> w]

LEMMA MsgtypeKeeps ==
    ASSUME NEW f, NEW h, NEW s, NEW w \in Seq(Unknowns), NEW k,
           FocusOK(f), FieldKept(f.msgtype, h, s, k)
    PROVE  Keeps(f, h, WithMsgtype(f, s, w), k)
<1> DEFINE g == WithMsgtype(f, s, w)
<1>1. /\ g.msgtype = s /\ g.ui = f.ui /\ g.n = f.n
      /\ s \in StringField /\ g \in FocusType
  BY FocusFacts DEF WithMsgtype, FocusType, FieldKept
<1>2. FocusOK(g) /\ HeapOK(k)
  BY <1>1 DEF FocusOK, FieldKept
<1> HIDE DEF g
<1>3. 0 \in SlotsOf(f) /\ Ptr(g, 0) = s.ptr /\ Ptr(f, 0) = f.msgtype.ptr
  BY <1>1, FocusFacts DEF SlotsOf, Ptr
<1>4. \A j \in SlotsOf(f) \ {0} : Ptr(g, j) = Ptr(f, j)
  BY <1>1 DEF Ptr
<1>5. \/ Ptr(g, 0) = Ptr(f, 0) /\ DOMAIN k = DOMAIN h
      \/ /\ Ptr(f, 0) = Empty /\ Ptr(g, 0) \in Strs \ DOMAIN h
         /\ DOMAIN k = DOMAIN h \cup {Ptr(g, 0)}
  BY <1>3 DEF FieldKept
<1>6. Keeps(f, h, g, k)
  BY <1>1, <1>2, <1>3, <1>4, <1>5, SlotKeeps
<1> QED
  BY <1>6 DEF g

LEMMA KeepsTwice ==
    ASSUME NEW f, NEW h, NEW x, NEW k, NEW g, NEW l,
           Keeps(f, h, x, k), Keeps(x, k, g, l)
    PROVE  Keeps(f, h, g, l)
<1>1. PICK I : Fills(f, x, DOMAIN h, DOMAIN k, I)
  BY DEF Keeps
<1>2. PICK J : Fills(x, g, DOMAIN k, DOMAIN l, J)
  BY DEF Keeps
<1>3. ASSUME NEW i \in I
      PROVE  /\ i \in SlotsOf(x) /\ i \notin J /\ i \in SlotsOf(g) /\ Ptr(g, i) = Ptr(x, i)
             /\ Ptr(x, i) # Empty /\ Ptr(x, i) \notin DOMAIN h /\ Ptr(x, i) \in DOMAIN k
  BY <1>1, <1>2 DEF Fills
<1>4. Fills(f, g, DOMAIN h, DOMAIN l, I \cup J)
  <2>1. SlotsOf(f) \subseteq SlotsOf(g) /\ I \cup J \subseteq SlotsOf(g)
    BY <1>1, <1>2 DEF Fills
  <2>2. ASSUME NEW i \in SlotsOf(g) \ (I \cup J)
        PROVE  Ptr(g, i) = IF i \in SlotsOf(f) THEN Ptr(f, i) ELSE Empty
    BY <1>1, <1>2 DEF Fills
  <2>3. ASSUME NEW i \in I \cup J
        PROVE  /\ i \in SlotsOf(f) => Ptr(f, i) = Empty
               /\ Ptr(g, i) # Empty /\ Ptr(g, i) \notin DOMAIN h
    <3>1. CASE i \in I
      BY <1>1, <1>3, <3>1 DEF Fills
    <3>2. CASE i \notin I
      BY <1>1, <1>2, <3>2 DEF Fills
    <3> QED
      BY <3>1, <3>2
  <2>4. ASSUME NEW i \in I \cup J, NEW j \in I \cup J, Ptr(g, i) = Ptr(g, j)
        PROVE  i = j
    BY <1>1, <1>2, <1>3, <2>4 DEF Fills
  <2>5. DOMAIN l = DOMAIN h \cup {Ptr(g, i) : i \in I \cup J}
    <3>1. {Ptr(x, i) : i \in I} = {Ptr(g, i) : i \in I}
      BY <1>3
    <3> QED
      BY <1>1, <1>2, <3>1 DEF Fills
  <2> QED
    BY <2>1, <2>2, <2>3, <2>4, <2>5 DEF Fills
<1> QED
  BY <1>4 DEF Keeps

LEMMA UserChanged ==
    ASSUME NEW f, NEW i \in 1 .. Len(f.ui), NEW x \in UserType, FocusOK(f),
           NEW g, g = [f EXCEPT !.ui[i] = x]
    PROVE  /\ FocusOK(g) /\ Len(g.ui) = Len(f.ui)
           /\ i \in SlotsOf(f) /\ Ptr(f, i) = f.ui[i].username.ptr
           /\ Ptr(g, i) = x.username.ptr
           /\ \A j \in SlotsOf(f) \ {i} : Ptr(g, j) = Ptr(f, j)
           /\ g.ui[i] = x /\ \A j \in 1 .. Len(f.ui) \ {i} : g.ui[j] = f.ui[j]
           /\ g.n = f.n /\ g.msgtype = f.msgtype /\ g.unknown = f.unknown
<1>1. /\ f.ui \in Seq(UserType) /\ Len(f.ui) \in Nat /\ i \in DOMAIN f.ui
      /\ DOMAIN f.ui = 1 .. Len(f.ui)
  BY FocusFacts
<1>2. g.ui = [f.ui EXCEPT ![i] = x]
  BY DEF FocusOK, FocusType
<1>3. g.ui \in Seq(UserType) /\ Len(g.ui) = Len(f.ui)
  BY <1>1, <1>2, ExceptSeq
<1>4. /\ g.msgtype = f.msgtype /\ g.n = f.n /\ g.unknown = f.unknown
      /\ g = [msgtype |-> g.msgtype, ui |-> g.ui, n |-> g.n, unknown |-> g.unknown]
  <2>1. f = [msgtype |-> f.msgtype, ui |-> f.ui, n |-> f.n, unknown |-> f.unknown]
    BY FocusFacts
  <2>2. g = [msgtype |-> f.msgtype, ui |-> [f.ui EXCEPT ![i] = x], n |-> f.n,
             unknown |-> f.unknown]
    BY <2>1
  <2> QED
    BY <2>2
<1>5. FocusOK(g)
  BY <1>3, <1>4 DEF FocusOK, FocusType
<1>6. g.ui[i] = x /\ \A j \in DOMAIN f.ui \ {i} : g.ui[j] = f.ui[j]
  BY <1>1, <1>2
<1>7. i \in SlotsOf(f) /\ i # 0
  BY <1>1 DEF SlotsOf
<1>8. \A j \in SlotsOf(f) \ {i} : Ptr(g, j) = Ptr(f, j)
  BY <1>1, <1>4, <1>6 DEF SlotsOf, Ptr
<1> QED
  BY <1>1, <1>3, <1>4, <1>5, <1>6, <1>7, <1>8 DEF Ptr

LEMMA UserKeeps ==
    ASSUME NEW f, NEW h, NEW i \in 1 .. Len(f.ui), NEW x, NEW k,
           FocusOK(f), UserKept(f.ui[i], h, x, k)
    PROVE  Keeps(f, h, [f EXCEPT !.ui[i] = x], k)
<1> DEFINE g == [f EXCEPT !.ui[i] = x]
<1>1. x \in UserType /\ HeapOK(k)
  BY DEF UserKept, FieldKept
<1>2. /\ FocusOK(g) /\ Len(g.ui) = Len(f.ui)
      /\ i \in SlotsOf(f) /\ Ptr(f, i) = f.ui[i].username.ptr
      /\ Ptr(g, i) = x.username.ptr
      /\ \A j \in SlotsOf(f) \ {i} : Ptr(g, j) = Ptr(f, j)
  <2>1. g = [f EXCEPT !.ui[i] = x]
    OBVIOUS
  <2> HIDE DEF g
  <2> QED
    BY <1>1, <2>1, UserChanged
<1> HIDE DEF g
<1>3. \/ Ptr(g, i) = Ptr(f, i) /\ DOMAIN k = DOMAIN h
      \/ /\ Ptr(f, i) = Empty /\ Ptr(g, i) \in Strs \ DOMAIN h
         /\ DOMAIN k = DOMAIN h \cup {Ptr(g, i)}
  BY <1>2 DEF UserKept, FieldKept
<1>4. Keeps(f, h, g, k)
  BY <1>1, <1>2, <1>3, SlotKeeps
<1> QED
  BY <1>4 DEF g

\* A message whose strings are on the heap h.
Readable(f, h) ==
    /\ FocusOK(f) /\ HeapOK(h)
    /\ \A i \in SlotsOf(f) : Ptr(f, i) # Empty => Ptr(f, i) \in DOMAIN h

LEMMA ReadableFields ==
    ASSUME NEW f, NEW h, Readable(f, h)
    PROVE  /\ FieldOK(f.msgtype, h)
           /\ \A i \in 1 .. Len(f.ui) : FieldOK(f.ui[i].username, h)
<1>1. /\ f.msgtype \in StringField /\ Len(f.ui) \in Nat
      /\ \A i \in 1 .. Len(f.ui) : f.ui[i].username \in StringField
  BY FocusFacts DEF Readable
<1>2. 0 \in SlotsOf(f) /\ Ptr(f, 0) = f.msgtype.ptr
  BY <1>1 DEF SlotsOf, Ptr
<1>3. ASSUME NEW i \in 1 .. Len(f.ui)
      PROVE  i \in SlotsOf(f) /\ Ptr(f, i) = f.ui[i].username.ptr
  BY <1>1 DEF SlotsOf, Ptr
<1> QED
  BY <1>1, <1>2, <1>3 DEF Readable, FieldOK

\* The elements s, l in all, are those of f with their strings, and more
\* without.
StringsStay(f, s, l) ==
    /\ IsList(s, l, UserType) /\ Len(f.ui) <= l
    /\ \A i \in 1 .. Len(f.ui) : s[i].username.ptr = f.ui[i].username.ptr
    /\ \A i \in 1 .. l : i > Len(f.ui) => s[i].username.ptr = Empty

WithElements(f, s, n) ==
    [msgtype |-> f.msgtype, ui |-> s, n |-> n, unknown |-> f.unknown]

LEMMA ElementsStay ==
    ASSUME NEW f, NEW h, NEW s, NEW l \in Nat, NEW n \in Nat, NEW k,
           FocusOK(f), HeapOK(k), DOMAIN k = DOMAIN h,
           StringsStay(f, s, l), n <= l
    PROVE  LET g == WithElements(f, s, n)
           IN  SlotsStay(f, h, g, k) /\ Len(g.ui) = l /\ g.n = n
<1> DEFINE g == WithElements(f, s, n)
<1>1. s \in Seq(UserType) /\ Len(s) = l
  <2>1. IsList(s, l, UserType)
    BY DEF StringsStay
  <2> QED
    BY <2>1, ListOf
<1>4. /\ g = [msgtype |-> f.msgtype, ui |-> s, n |-> n, unknown |-> f.unknown]
      /\ g.msgtype = f.msgtype /\ g.ui = s /\ g.n = n /\ g.unknown = f.unknown
  BY DEF WithElements
<1> HIDE DEF g
<1>5. f.msgtype \in StringField /\ f.unknown \in Seq(Unknowns) /\ Len(f.ui) \in Nat
  BY FocusFacts
<1>6. g \in FocusType
  BY <1>1, <1>4, <1>5 DEF FocusType
<1>7. FocusOK(g)
  BY <1>1, <1>4, <1>6 DEF FocusOK
<1>8. ASSUME NEW i \in SlotsOf(g)
      PROVE  Ptr(g, i) = IF i \in SlotsOf(f) THEN Ptr(f, i) ELSE Empty
  <2>1. CASE i = 0
    BY <1>4, <1>5, <2>1 DEF SlotsOf, Ptr
  <2>2. CASE i # 0
    <3>1. i \in 1 .. l /\ Ptr(g, i) = s[i].username.ptr
      BY <1>1, <1>4, <1>8, <2>2 DEF SlotsOf, Ptr
    <3>2. CASE i <= Len(f.ui)
      BY <1>5, <2>2, <3>1, <3>2 DEF SlotsOf, Ptr, StringsStay
    <3>3. CASE i > Len(f.ui)
      BY <1>5, <3>1, <3>3 DEF SlotsOf, StringsStay
    <3> QED
      BY <1>5, <3>1, <3>2, <3>3
  <2> QED
    BY <2>1, <2>2
<1> QED
  BY <1>1, <1>4, <1>7, <1>8 DEF SlotsStay, StringsStay, g

LEMMA NewUserFacts ==
    /\ NewUser \in UserType /\ NewUser.username.ptr = Empty
    /\ FocusOK(NewFocus) /\ Len(NewFocus.ui) = 0
    /\ SlotsOf(NewFocus) = {0} /\ Ptr(NewFocus, 0) = Empty
<1>1. <<>> \in Seq(Unknowns) /\ <<>> \in Seq(UserType) /\ Len(<<>>) = 0
  BY EmptySeq
<1>2. NoString \in StringField /\ NoString.ptr = Empty
  BY DEF NoString, StringField
<1>3. Unset \in [has : BOOLEAN, val : Nat]
  BY DEF Unset
<1>4. NewUser \in UserType /\ NewUser.username.ptr = Empty
  BY <1>1, <1>2, <1>3 DEF NewUser, UserType
<1>5. NewFocus \in FocusType /\ NewFocus.ui = <<>> /\ NewFocus.n = 0
      /\ NewFocus.msgtype = NoString
  BY <1>1, <1>2 DEF NewFocus, FocusType
<1>6. SlotsOf(NewFocus) = {0}
  BY <1>1, <1>5 DEF SlotsOf
<1> QED
  BY <1>1, <1>2, <1>4, <1>5, <1>6 DEF FocusOK, Ptr

LEMMA ClearElementsStay ==
    ASSUME NEW f, NEW h, Readable(f, h)
    PROVE  LET r == ClearElements(f, h)
           IN  SlotsStay(f, h, r.x, r.h) /\ Len(r.x.ui) = Len(f.ui) /\ r.x.n = 0
<1> DEFINE s == [i \in DOMAIN f.ui |->
                    IF i <= f.n THEN UserClear(f.ui[i], h).x ELSE f.ui[i]]
           S == {f.ui[i].username.ptr : i \in {j \in 1 .. f.n : f.ui[j].username.has}}
           r == ClearElements(f, h)
<1>1. r.x = WithElements(f, s, 0) /\ r.h = Emptied(h, S)
  <2>1. f = [msgtype |-> f.msgtype, ui |-> f.ui, n |-> f.n, unknown |-> f.unknown]
    BY FocusFacts DEF Readable
  <2>2. r.x = [f EXCEPT !.n = 0, !.ui = s] /\ r.h = Emptied(h, S)
    BY DEF ClearElements
  <2> HIDE DEF s, S, r
  <2> QED
    BY <2>1, <2>2 DEF WithElements
<1>2. /\ Len(f.ui) \in Nat /\ DOMAIN f.ui = 1 .. Len(f.ui) /\ FocusOK(f)
      /\ \A i \in 1 .. Len(f.ui) : f.ui[i] \in UserType
  BY FocusFacts DEF Readable
<1>3. ASSUME NEW i \in 1 .. Len(f.ui)
      PROVE  s[i] \in UserType /\ s[i].username.ptr = f.ui[i].username.ptr
  <2>1. FieldOK(f.ui[i].username, h)
    BY ReadableFields
  <2>2. /\ UserClear(f.ui[i], h).x \in UserType
        /\ UserClear(f.ui[i], h).x.username.ptr = f.ui[i].username.ptr
    BY <1>2, <2>1, UserClearKept DEF UserKept
  <2>3. s[i] = IF i <= f.n THEN UserClear(f.ui[i], h).x ELSE f.ui[i]
    BY <1>2
  <2> HIDE DEF s
  <2> QED
    BY <1>2, <2>2, <2>3
<1>4. HeapOK(r.h) /\ DOMAIN r.h = DOMAIN h
  BY <1>1, HeapFacts DEF Readable
<1>5. DOMAIN s = 1 .. Len(f.ui) /\ s = [i \in DOMAIN s |-> s[i]]
  BY <1>2
<1> HIDE DEF s, S, r
<1>6. IsList(s, Len(f.ui), UserType)
  BY <1>3, <1>5 DEF IsList
<1>7. SlotsStay(f, h, r.x, r.h) /\ Len(r.x.ui) = Len(f.ui) /\ r.x.n = 0
  <2>1. StringsStay(f, s, Len(f.ui))
    BY <1>2, <1>3, <1>6 DEF StringsStay
  <2> QED
    <3>1. 0 \in Nat /\ 0 <= Len(f.ui)
      BY <1>2
    <3> QED
      BY <1>1, <1>2, <1>4, <2>1, <3>1, ElementsStay
<1> QED
  BY <1>7 DEF r

LEMMA AddElementsStay ==
    ASSUME NEW f, NEW h, NEW k \in Nat, Readable(f, h)
    PROVE  LET a == AddElements(f, k)
           IN  /\ SlotsStay(f, h, a, h) /\ a.n = f.n + k /\ f.n + k <= Len(a.ui)
               /\ a.msgtype = f.msgtype /\ a.unknown = f.unknown
<1> DEFINE l == IF Len(f.ui) <= f.n + k THEN f.n + k ELSE Len(f.ui)
           s == [i \in DOMAIN f.ui \cup 1 .. f.n + k |->
                    IF i \in DOMAIN f.ui THEN f.ui[i] ELSE NewUser]
           a == AddElements(f, k)
<1>1. a = WithElements(f, s, f.n + k)
  <2>1. f = [msgtype |-> f.msgtype, ui |-> f.ui, n |-> f.n, unknown |-> f.unknown]
    BY FocusFacts DEF Readable
  <2>2. a = [f EXCEPT !.n = f.n + k, !.ui = s]
    BY DEF AddElements
  <2> HIDE DEF s, a
  <2> QED
    BY <2>1, <2>2 DEF WithElements
<1>2. /\ Len(f.ui) \in Nat /\ f.n \in Nat /\ DOMAIN f.ui = 1 .. Len(f.ui) /\ FocusOK(f)
      /\ HeapOK(h) /\ \A i \in 1 .. Len(f.ui) : f.ui[i] \in UserType
  BY FocusFacts DEF Readable
<1>3. l \in Nat /\ Len(f.ui) <= l /\ f.n + k <= l /\ f.n + k \in Nat
  BY <1>2
<1>4. DOMAIN f.ui \cup 1 .. f.n + k = 1 .. l
  BY <1>2
<1>5. DOMAIN s = 1 .. l /\ s = [i \in DOMAIN s |-> s[i]]
      /\ \A i \in 1 .. l : s[i] = IF i \in 1 .. Len(f.ui) THEN f.ui[i] ELSE NewUser
  BY <1>2, <1>4
<1> HIDE DEF l, s, a
<1>6. IsList(s, l, UserType)
  BY <1>2, <1>5, NewUserFacts DEF IsList
<1>7. /\ \A i \in 1 .. Len(f.ui) : s[i].username.ptr = f.ui[i].username.ptr
      /\ \A i \in 1 .. l : i > Len(f.ui) => s[i].username.ptr = Empty
  BY <1>2, <1>3, <1>5, NewUserFacts
<1>8. SlotsStay(f, h, a, h) /\ Len(a.ui) = l /\ a.n = f.n + k
  <2>1. StringsStay(f, s, l)
    BY <1>3, <1>6, <1>7 DEF StringsStay
  <2> DEFINE n == f.n + k
  <2>2. a = WithElements(f, s, n) /\ n \in Nat /\ n <= l
    BY <1>1, <1>3
  <2> HIDE DEF n
  <2>3. SlotsStay(f, h, a, h) /\ Len(a.ui) = l /\ a.n = n
    <3>1. FocusOK(f) /\ HeapOK(h) /\ l \in Nat
      BY <1>2, <1>3
    <3> QED
      BY <2>1, <2>2, <3>1, ElementsStay
  <2> QED
    BY <2>3 DEF n
<1>9. a.msgtype = f.msgtype /\ a.unknown = f.unknown
  <2>1. f = [msgtype |-> f.msgtype, ui |-> f.ui, n |-> f.n, unknown |-> f.unknown]
    BY <1>2, FocusFacts
  <2> QED
    BY <1>1, <2>1 DEF WithElements
<1>10. f.n + k <= Len(a.ui)
  BY <1>3, <1>8
<1> QED
  BY <1>8, <1>9, <1>10 DEF a

LEMMA FocusClearStay ==
    ASSUME NEW f, NEW h, Readable(f, h)
    PROVE  LET c == FocusClear(f, h)
           IN  SlotsStay(f, h, c.x, c.h) /\ Len(c.x.ui) = Len(f.ui) /\ c.x.n = 0
<1> DEFINE r == ClearElements(f, h)
           c == FocusClear(f, h)
<1>1. SlotsStay(f, h, r.x, r.h) /\ Len(r.x.ui) = Len(f.ui) /\ r.x.n = 0
  BY ClearElementsStay
<1> DEFINE s == [f.msgtype EXCEPT !.has = FALSE]
<1>2. /\ c.x = [r.x EXCEPT !.msgtype = s, !.unknown = <<>>]
      /\ c.h = IF f.msgtype.has THEN Emptied(r.h, {f.msgtype.ptr}) ELSE r.h
  BY DEF FocusClear, ClearString
<1> HIDE DEF r, c
<1>3. FocusOK(r.x) /\ f.msgtype \in StringField /\ Len(f.ui) \in Nat
      /\ r.x.ui \in Seq(UserType)
  BY <1>1, FocusFacts DEF SlotsStay, Readable
<1>4. c.x = [msgtype |-> s, ui |-> r.x.ui, n |-> r.x.n, unknown |-> <<>>]
  <2>1. r.x = [msgtype |-> r.x.msgtype, ui |-> r.x.ui, n |-> r.x.n,
               unknown |-> r.x.unknown]
    BY <1>3, FocusFacts
  <2> HIDE DEF s
  <2> QED
    BY <1>2, <2>1
<1>5. s \in StringField /\ s.ptr = f.msgtype.ptr
  BY <1>3 DEF StringField
<1> HIDE DEF s
<1>6. c.x.msgtype = s /\ c.x.ui = r.x.ui /\ c.x.n = 0
  BY <1>1, <1>4
<1>7. c.x \in FocusType
  <2>1. <<>> \in Seq(Unknowns)
    BY EmptySeq
  <2> QED
    BY <1>1, <1>3, <1>4, <1>5, <2>1 DEF FocusType
<1>8. FocusOK(c.x)
  BY <1>1, <1>3, <1>6, <1>7 DEF FocusOK
<1>9. HeapOK(c.h) /\ DOMAIN c.h = DOMAIN h
  BY <1>1, <1>2, HeapFacts DEF SlotsStay
<1>10. ASSUME NEW i \in SlotsOf(c.x)
       PROVE  Ptr(c.x, i) = IF i \in SlotsOf(f) THEN Ptr(f, i) ELSE Empty
  <2>1. i \in SlotsOf(r.x)
    BY <1>6, <1>10 DEF SlotsOf
  <2>2. CASE i = 0
    BY <1>3, <1>5, <1>6, <2>2 DEF Ptr, SlotsOf
  <2>3. CASE i # 0
    <3>1. Ptr(c.x, i) = Ptr(r.x, i)
      BY <1>6, <2>3 DEF Ptr
    <3> QED
      BY <1>1, <2>1, <3>1 DEF SlotsStay
  <2> QED
    BY <2>2, <2>3
<1>11. SlotsStay(f, h, c.x, c.h) /\ Len(c.x.ui) = Len(f.ui)
  BY <1>1, <1>3, <1>6, <1>8, <1>9, <1>10 DEF SlotsStay
<1> QED
  BY <1>6, <1>11 DEF c

LEMMA StrsFinite ==
    ASSUME NEW D
    PROVE  IsFiniteSet(Strs \ D) /\ Cardinality(Strs \ D) \in Nat
<1>1. MaxStrings \in Nat
  BY ObjectAssumption
<1>2. IsFiniteSet(Strs)
  BY <1>1, FS_Interval DEF Strs
<1>3. IsFiniteSet(Strs \ D)
  BY <1>2, FS_Difference
<1> QED
  BY <1>3, FS_CardinalityType

LEMMA NewStringsFacts ==
    ASSUME NEW h, NEW S, IsFiniteSet(S), Cardinality(S) <= Cardinality(Strs \ DOMAIN h)
    PROVE  LET new == NewStrings(h, S)
           IN  /\ new \in Injection(S, Strs \ DOMAIN h)
               /\ Cardinality(Strs \ (DOMAIN h \cup Range(new)))
                     = Cardinality(Strs \ DOMAIN h) - Cardinality(S)
<1> DEFINE T   == Strs \ DOMAIN h
           new == NewStrings(h, S)
<1>1. IsFiniteSet(T) /\ Cardinality(T) \in Nat /\ Cardinality(S) \in Nat
  BY StrsFinite, FS_CardinalityType
<1>2. ExistsInjection(S, T)
  <2>1. ExistsBijection(1 .. Cardinality(S), S) /\ ExistsBijection(1 .. Cardinality(T), T)
    BY <1>1, FS_CardinalityType
  <2>2. ExistsInjection(S, 1 .. Cardinality(S)) /\ ExistsInjection(1 .. Cardinality(T), T)
    <3>1. ExistsBijection(S, 1 .. Cardinality(S))
      BY <2>1, Fun_ExistsBijSymmetric
    <3> QED
      BY <2>1, <3>1 DEF ExistsBijection, ExistsInjection, Bijection
  <2>3. ExistsInjection(1 .. Cardinality(S), 1 .. Cardinality(T))
    BY <1>1, Fun_NatInjLeq
  <2> HIDE DEF T
  <2>4. ExistsInjection(S, 1 .. Cardinality(T))
    BY <2>2, <2>3, Fun_ExistsInjTransitive
  <2> QED
    BY <2>2, <2>4, Fun_ExistsInjTransitive
<1>3. new \in Injection(S, T)
  <2>1. \E g \in Injection(S, T) : TRUE
    BY <1>2 DEF ExistsInjection
  <2> QED
    BY <2>1 DEF NewStrings
<1> HIDE DEF new
<1>4. Range(new) \subseteq T
  BY <1>3 DEF Injection, Range
<1>5. Cardinality(Range(new)) = Cardinality(S)
  <2>1. new \in Bijection(S, Range(new))
    BY <1>3, Fun_InjectionProperties DEF Bijection, Injection, Surjection, Range
  <2>2. ExistsBijection(S, Range(new))
    BY <2>1 DEF ExistsBijection
  <2> QED
    BY <2>2, FS_Bijection
<1>6. Cardinality(T \ Range(new)) = Cardinality(T) - Cardinality(T \cap Range(new))
  BY <1>1, FS_Difference
<1>7. T \cap Range(new) = Range(new) /\ T \ Range(new) = Strs \ (DOMAIN h \cup Range(new))
  BY <1>4
<1>8. Cardinality(Strs \ (DOMAIN h \cup Range(new))) = Cardinality(T) - Cardinality(S)
  BY <1>5, <1>6, <1>7
<1> QED
  BY <1>3, <1>8 DEF new

\* The elements of a message that have a username.
WithUsername(f) == {k \in 1 .. f.n : f.ui[k].username.has}

LEMMA MergeElementsKeeps ==
    ASSUME NEW f, NEW h, NEW from, Readable(f, h), Readable(from, h),
           Cardinality(WithUsername(from)) <= Cardinality(Strs \ DOMAIN h)
    PROVE  LET r == MergeElements(f, h, from)
           IN  /\ Keeps(f, h, r.x, r.h)
               /\ r.x.msgtype = f.msgtype /\ r.x.unknown = f.unknown
               /\ Cardinality(Strs \ DOMAIN r.h)
                    >= Cardinality(Strs \ DOMAIN h) - Cardinality(WithUsername(from))
<1> DEFINE a     == AddElements(f, from.n)
           given == {k \in 1 .. from.n : from.ui[k].username.has}
           S     == {k \in given : a.ui[f.n + k].username.ptr = Empty}
           new   == NewStrings(h, S)
           ptr   == [k \in 1 .. from.n |->
                       IF k \in DOMAIN new THEN new[k] ELSE a.ui[f.n + k].username.ptr]
           t     == [i \in DOMAIN a.ui |->
                       IF i \in f.n + 1 .. a.n
                       THEN UserMerged(a.ui[i], from.ui[i - f.n], ptr[i - f.n])
                       ELSE a.ui[i]]
           hh    == [p \in DOMAIN h \cup Range(new) |->
                       LET ks == {k \in given : ptr[k] = p}
                       IN  IF ks = {} THEN h[p]
                           ELSE Content(h, from.ui[CHOOSE k \in ks : TRUE].username.ptr)]
           r     == MergeElements(f, h, from)
<1>1. r.x = [a EXCEPT !.ui = t] /\ r.h = hh
  BY DEF MergeElements
<1>2. /\ f.n \in Nat /\ Len(f.ui) \in Nat /\ from.n \in Nat /\ Len(from.ui) \in Nat
      /\ from.n <= Len(from.ui) /\ HeapOK(h) /\ FocusOK(f)
      /\ \A k \in 1 .. from.n : from.ui[k] \in UserType /\ FieldOK(from.ui[k].username, h)
  BY FocusFacts, ReadableFields DEF Readable
<1>3. /\ SlotsStay(f, h, a, h) /\ a.n = f.n + from.n /\ f.n + from.n <= Len(a.ui)
      /\ a.msgtype = f.msgtype /\ a.unknown = f.unknown
  BY <1>2, AddElementsStay
<1> HIDE DEF a
<1>4. /\ FocusOK(a) /\ Len(a.ui) \in Nat /\ DOMAIN a.ui = 1 .. Len(a.ui)
      /\ a = [msgtype |-> a.msgtype, ui |-> a.ui, n |-> a.n, unknown |-> a.unknown]
      /\ \A i \in 1 .. Len(a.ui) :
            /\ a.ui[i] \in UserType
            /\ a.ui[i].username.ptr \in Strs \cup {Empty}
  BY <1>3, FocusFacts DEF SlotsStay, StringField
<1>5. /\ new \in Injection(S, Strs \ DOMAIN h)
      /\ Cardinality(Strs \ (DOMAIN h \cup Range(new)))
            >= Cardinality(Strs \ DOMAIN h) - Cardinality(WithUsername(from))
  <2>1. IsFiniteSet(1 .. from.n)
    <3>1. 1 \in Int /\ from.n \in Int
      BY <1>2
    <3> QED
      BY <3>1, FS_Interval
  <2>2. WithUsername(from) \in SUBSET (1 .. from.n) /\ S \in SUBSET WithUsername(from)
    BY DEF WithUsername
  <2> HIDE DEF S
  <2>3. IsFiniteSet(WithUsername(from))
    BY <2>1, <2>2, FS_Subset
  <2>4. IsFiniteSet(S) /\ Cardinality(S) <= Cardinality(WithUsername(from))
    BY <2>2, <2>3, FS_Subset
  <2>5. /\ Cardinality(S) \in Nat /\ Cardinality(WithUsername(from)) \in Nat
        /\ Cardinality(Strs \ DOMAIN h) \in Nat
    BY <2>3, <2>4, FS_CardinalityType, StrsFinite
  <2>6. Cardinality(S) <= Cardinality(Strs \ DOMAIN h)
    BY <2>4, <2>5
  <2>7. /\ new \in Injection(S, Strs \ DOMAIN h)
        /\ Cardinality(Strs \ (DOMAIN h \cup Range(new)))
              = Cardinality(Strs \ DOMAIN h) - Cardinality(S)
    BY <2>4, <2>6, NewStringsFacts
  <2> HIDE DEF new
  <2> QED
    BY <2>4, <2>5, <2>7
<1> HIDE DEF new
<1>6. /\ new \in [S -> Strs \ DOMAIN h] /\ DOMAIN new = S
      /\ \A k, j \in S : new[k] = new[j] => k = j
      /\ Range(new) = {new[k] : k \in S}
  BY <1>5 DEF Injection, IsInjective, Range
<1>7. ASSUME NEW k \in 1 .. from.n
      PROVE  /\ f.n + k \in 1 .. Len(a.ui)
             /\ ptr[k] = IF k \in S THEN new[k] ELSE a.ui[f.n + k].username.ptr
             /\ ptr[k] \in Strs \cup {Empty}
  <2>1. f.n + k \in 1 .. Len(a.ui)
    BY <1>2, <1>3, <1>4
  <2>2. ptr[k] = IF k \in S THEN new[k] ELSE a.ui[f.n + k].username.ptr
    BY <1>6
  <2> HIDE DEF ptr, S
  <2> QED
    BY <1>4, <1>6, <2>1, <2>2
<1>8. /\ given \subseteq 1 .. from.n /\ S \subseteq given
      /\ \A k \in S : a.ui[f.n + k].username.ptr = Empty
      /\ \A k \in given \ S : a.ui[f.n + k].username.ptr # Empty
      /\ \A k \in 1 .. from.n : k \in given <=> from.ui[k].username.has
  OBVIOUS
<1>9. HeapOK(hh) /\ DOMAIN hh = DOMAIN h \cup Range(new)
  <2>1. ASSUME NEW p \in DOMAIN h \cup Range(new) PROVE hh[p] \in Nat
    <3> DEFINE ks == {k \in given : ptr[k] = p}
    <3>1. hh[p] = IF ks = {} THEN h[p]
                  ELSE Content(h, from.ui[CHOOSE k \in ks : TRUE].username.ptr)
      BY <2>1
    <3>2. CASE ks = {}
      <4>1. p \in DOMAIN h
        <5>1. ASSUME p \in Range(new) PROVE FALSE
          <6>1. PICK k \in S : new[k] = p
            <7> HIDE DEF S
            <7> QED
              BY <1>6, <5>1
          <6>2. k \in given /\ k \in 1 .. from.n
            BY <1>8
          <6>3. ptr[k] = p
            BY <1>7, <6>1, <6>2
          <6> QED
            BY <3>2, <6>2, <6>3
        <5> QED
          BY <2>1, <5>1
      <4>2. h[p] \in Nat
        BY <1>2, <4>1 DEF HeapOK
      <4> HIDE DEF hh, ks
      <4> QED
        BY <3>1, <3>2, <4>2
    <3>3. CASE ks # {}
      <4> DEFINE k == CHOOSE j \in ks : TRUE
      <4>1. k \in ks
        BY <3>3
      <4>2. k \in 1 .. from.n
        BY <1>8, <4>1
      <4>3. hh[p] = Content(h, from.ui[k].username.ptr)
        BY <3>1, <3>3
      <4> HIDE DEF hh, ks, k
      <4>4. FieldOK(from.ui[k].username, h)
        BY <1>2, <4>2
      <4>5. Content(h, from.ui[k].username.ptr) \in Nat
        BY <1>2, <4>4, HeapFacts DEF FieldOK
      <4> QED
        BY <4>3, <4>5
    <3> QED
      BY <3>2, <3>3
  <2>2. DOMAIN hh = DOMAIN h \cup Range(new) /\ hh = [p \in DOMAIN hh |-> hh[p]]
    <3> HIDE DEF ptr, given
    <3> QED
      OBVIOUS
  <2>3. DOMAIN h \cup Range(new) \subseteq Strs
    BY <1>2, <1>6 DEF HeapOK
  <2> HIDE DEF hh
  <2> QED
    BY <2>1, <2>2, <2>3 DEF HeapOK
<1> HIDE DEF hh
<1>10. ASSUME NEW i \in 1 .. Len(a.ui)
       PROVE  /\ t[i] \in UserType
              /\ t[i].username.ptr = IF i - f.n \in S THEN new[i - f.n]
                                     ELSE a.ui[i].username.ptr
  <2>1. t[i] = IF i \in f.n + 1 .. a.n
               THEN UserMerged(a.ui[i], from.ui[i - f.n], ptr[i - f.n])
               ELSE a.ui[i]
    BY <1>4
  <2>2. CASE i \in f.n + 1 .. a.n
    <3> DEFINE k == i - f.n
    <3>1. k \in 1 .. from.n /\ f.n + k = i
      BY <1>2, <1>3, <2>2
    <3>2. t[i] = UserMerged(a.ui[i], from.ui[k], ptr[k])
      BY <2>1, <2>2
    <3> HIDE DEF k, t
    <3>3. a.ui[i] \in UserType /\ from.ui[k] \in UserType
      BY <1>2, <1>4, <3>1
    <3>4. ptr[k] \in Strs \cup {Empty}
      BY <1>7, <3>1
    <3> HIDE DEF ptr, S
    <3>5. /\ t[i] \in UserType
          /\ t[i].username = IF from.ui[k].username.has
                             THEN [has |-> TRUE, ptr |-> ptr[k]] ELSE a.ui[i].username
      <4> DEFINE u == a.ui[i]
                 v == from.ui[k]
                 p == ptr[k]
      <4>1. /\ t[i] = UserMerged(u, v, p)
            /\ u \in UserType /\ v \in UserType /\ p \in Strs \cup {Empty}
        BY <3>2, <3>3, <3>4
      <4> HIDE DEF u, v, p
      <4>2. /\ UserMerged(u, v, p) \in UserType
            /\ UserMerged(u, v, p).username =
                 IF v.username.has THEN [has |-> TRUE, ptr |-> p] ELSE u.username
        BY <4>1, UserMergedType
      <4> QED
        BY <4>1, <4>2 DEF u, v, p
    <3>6. CASE from.ui[k].username.has
      <4>1. t[i].username.ptr = ptr[k]
        BY <3>5, <3>6
      <4>2. ptr[k] = IF k \in S THEN new[k] ELSE a.ui[i].username.ptr
        BY <1>7, <3>1
      <4> HIDE DEF S, ptr
      <4> QED
        BY <3>5, <4>1, <4>2 DEF k
    <3>7. CASE ~from.ui[k].username.has
      <4>1. k \notin S
        BY <1>8, <3>1, <3>7
      <4> HIDE DEF S, ptr
      <4> QED
        BY <3>5, <3>7, <4>1 DEF k
    <3> QED
      BY <3>6, <3>7
  <2>3. CASE i \notin f.n + 1 .. a.n
    <3>1. i - f.n \notin 1 .. from.n
      BY <1>2, <1>3, <1>4, <2>3
    <3>2. i - f.n \notin S
      BY <1>8, <3>1
    <3> HIDE DEF S, t
    <3> QED
      BY <1>4, <2>1, <2>3, <3>2
  <2> QED
    BY <2>2, <2>3
<1>11. IsList(t, Len(a.ui), UserType)
  <2>1. DOMAIN t = 1 .. Len(a.ui) /\ t = [i \in DOMAIN t |-> t[i]]
    BY <1>4
  <2> HIDE DEF t
  <2> QED
    BY <1>10, <2>1 DEF IsList
<1> HIDE DEF t, ptr, S, given
<1>12. t \in Seq(UserType) /\ Len(t) = Len(a.ui)
  BY <1>4, <1>11, ListOf
<1> DEFINE g == r.x
<1>13. /\ g = [msgtype |-> a.msgtype, ui |-> t, n |-> a.n, unknown |-> a.unknown]
       /\ g.msgtype = a.msgtype /\ g.ui = t /\ g.n = a.n /\ g.unknown = a.unknown
  BY <1>1, <1>4
<1> HIDE DEF g
<1>14. FocusOK(g)
  <2>1. a.msgtype \in StringField /\ a.n \in Nat /\ a.unknown \in Seq(Unknowns)
    BY <1>4, FocusFacts
  <2>2. g \in FocusType
    BY <1>12, <1>13, <2>1 DEF FocusType
  <2> QED
    BY <1>4, <1>12, <1>13, <2>2 DEF FocusOK
<1>15. SlotsOf(g) = SlotsOf(a) /\ SlotsOf(f) \subseteq SlotsOf(a)
  BY <1>2, <1>3, <1>4, <1>12, <1>13 DEF SlotsOf, SlotsStay
<1>16. ASSUME NEW i \in SlotsOf(a)
       PROVE  Ptr(g, i) = IF i - f.n \in S THEN new[i - f.n] ELSE Ptr(a, i)
  <2>1. CASE i = 0
    <3>1. i - f.n \notin S
      BY <1>2, <1>8, <2>1
    <3> QED
      BY <1>13, <2>1, <3>1 DEF Ptr
  <2>2. CASE i # 0
    <3>1. i \in 1 .. Len(a.ui)
      BY <1>4, <1>16, <2>2 DEF SlotsOf
    <3> QED
      BY <1>10, <1>13, <2>2, <3>1 DEF Ptr
  <2> QED
    BY <2>1, <2>2
<1> DEFINE I == {f.n + k : k \in S}
<1>17. ASSUME NEW k \in S
       PROVE  /\ f.n + k \in SlotsOf(a) /\ Ptr(g, f.n + k) = new[k]
              /\ Ptr(a, f.n + k) = Empty
  <2>1. k \in 1 .. from.n
    BY <1>8
  <2>2. f.n + k \in 1 .. Len(a.ui) /\ f.n + k # 0 /\ (f.n + k) - f.n = k
    BY <1>2, <1>7, <2>1
  <2>3. f.n + k \in SlotsOf(a)
    BY <1>4, <2>2 DEF SlotsOf
  <2>4. Ptr(g, f.n + k) = new[k]
    BY <1>16, <2>2, <2>3
  <2> QED
    BY <1>8, <2>2, <2>3, <2>4 DEF Ptr
<1>18. Fills(f, g, DOMAIN h, DOMAIN hh, I)
  <2>1. I \subseteq SlotsOf(g)
    BY <1>15, <1>17
  <2>2. ASSUME NEW i \in SlotsOf(g) \ I
        PROVE  Ptr(g, i) = IF i \in SlotsOf(f) THEN Ptr(f, i) ELSE Empty
    <3>1. i - f.n \notin S
      <4>1. i \in Nat
        BY <1>4, <1>15 DEF SlotsOf
      <4>2. f.n + (i - f.n) = i
        BY <1>2, <4>1
      <4> QED
        BY <2>2, <4>2
    <3> QED
      BY <1>3, <1>15, <1>16, <3>1 DEF SlotsStay
  <2>3. ASSUME NEW i \in I
        PROVE  /\ i \in SlotsOf(f) => Ptr(f, i) = Empty
               /\ Ptr(g, i) # Empty /\ Ptr(g, i) \notin DOMAIN h
    <3>1. PICK k \in S : i = f.n + k
      BY <2>3
    <3>2. Ptr(g, i) = new[k] /\ Ptr(a, i) = Empty /\ i \in SlotsOf(a)
      BY <1>17, <3>1
    <3>3. new[k] \in Strs /\ new[k] \notin DOMAIN h /\ new[k] # Empty
      BY <1>6 DEF Strs, Empty
    <3> QED
      BY <1>3, <3>2, <3>3 DEF SlotsStay
  <2>4. ASSUME NEW i \in I, NEW j \in I, Ptr(g, i) = Ptr(g, j) PROVE i = j
    BY <1>6, <1>17, <2>4
  <2>5. DOMAIN hh = DOMAIN h \cup {Ptr(g, i) : i \in I}
    <3>1. {Ptr(g, i) : i \in I} = {new[k] : k \in S}
      BY <1>17
    <3> QED
      BY <1>6, <1>9, <3>1
  <2> QED
    BY <1>15, <2>1, <2>2, <2>3, <2>4, <2>5 DEF Fills
<1>19. Keeps(f, h, g, hh)
  BY <1>9, <1>14, <1>18 DEF Keeps
<1>20. Cardinality(Strs \ DOMAIN hh)
          >= Cardinality(Strs \ DOMAIN h) - Cardinality(WithUsername(from))
  BY <1>5, <1>9
<1> QED
  BY <1>1, <1>3, <1>13, <1>19, <1>20 DEF g

LEMMA KeepsFacts ==
    ASSUME NEW f, NEW h, NEW g, NEW k, Keeps(f, h, g, k)
    PROVE  FocusOK(g) /\ HeapOK(k) /\ DOMAIN h \subseteq DOMAIN k
BY DEF Keeps, Fills

\* Room for the strings that merging from into a message may allocate.
RoomFor(from, h) ==
    Cardinality(Strs \ DOMAIN h) >= (IF from.msgtype.has THEN 1 ELSE 0)
                                    + Cardinality(WithUsername(from))

LEMMA WithUsernameFinite ==
    ASSUME NEW f, FocusOK(f)
    PROVE  Cardinality(WithUsername(f)) \in Nat
<1>1. 1 \in Int /\ f.n \in Int
  BY FocusFacts
<1>2. IsFiniteSet(1 .. f.n)
  BY <1>1, FS_Interval
<1>3. WithUsername(f) \in SUBSET (1 .. f.n)
  BY DEF WithUsername
<1> QED
  BY <1>2, <1>3, FS_Subset, FS_CardinalityType

LEMMA FocusMergeFromKeeps ==
    ASSUME NEW f, NEW h, NEW from, Readable(f, h), Readable(from, h), RoomFor(from, h)
    PROVE  LET r == FocusMergeFrom(f, h, from) IN Keeps(f, h, r.x, r.h)
<1> DEFINE c == MergeElements(f, h, from)
           v == Content(c.h, from.msgtype.ptr)
           s == IF from.msgtype.has THEN SetString(c.x.msgtype, c.h, v)
                ELSE [f |-> c.x.msgtype, h |-> c.h]
           w == c.x.unknown \o from.unknown
           r == FocusMergeFrom(f, h, from)
<1>1. r.x = [c.x EXCEPT !.msgtype = s.f, !.unknown = w] /\ r.h = s.h
  BY DEF FocusMergeFrom
<1>2. /\ Cardinality(WithUsername(from)) \in Nat /\ Cardinality(Strs \ DOMAIN h) \in Nat
      /\ FieldOK(from.msgtype, h) /\ FieldOK(f.msgtype, h)
      /\ f.unknown \in Seq(Unknowns) /\ from.unknown \in Seq(Unknowns)
  BY WithUsernameFinite, StrsFinite, ReadableFields, FocusFacts DEF Readable
<1>3. Cardinality(WithUsername(from)) <= Cardinality(Strs \ DOMAIN h)
  BY <1>2 DEF RoomFor
<1>4. /\ Keeps(f, h, c.x, c.h)
      /\ c.x.msgtype = f.msgtype /\ c.x.unknown = f.unknown
      /\ Cardinality(Strs \ DOMAIN c.h)
            >= Cardinality(Strs \ DOMAIN h) - Cardinality(WithUsername(from))
  BY <1>3, MergeElementsKeeps
<1> HIDE DEF c
<1>5. FocusOK(c.x) /\ HeapOK(c.h) /\ DOMAIN h \subseteq DOMAIN c.h
  BY <1>4, KeepsFacts
<1>6. FieldOK(c.x.msgtype, c.h) /\ FieldOK(from.msgtype, c.h)
  BY <1>2, <1>4, <1>5 DEF FieldOK
<1>7. FieldKept(c.x.msgtype, c.h, s.f, s.h)
  <2>1. CASE from.msgtype.has
    <3>1. Cardinality(Strs \ DOMAIN c.h) \in Nat /\ IsFiniteSet(Strs \ DOMAIN c.h)
      BY StrsFinite
    <3>2. Cardinality(Strs \ DOMAIN c.h) # 0
      BY <1>2, <1>4, <2>1, <3>1 DEF RoomFor
    <3>3. HasNew(c.x.msgtype, c.h)
      BY <3>1, <3>2, FS_EmptySet DEF HasNew
    <3>4. v \in Nat
      BY <1>6, HeapFacts DEF FieldOK
    <3> HIDE DEF v
    <3>5. s = SetString(c.x.msgtype, c.h, v)
      BY <2>1
    <3> HIDE DEF s
    <3> QED
      BY <1>6, <3>3, <3>4, <3>5, SetStringKept
  <2>2. CASE ~from.msgtype.has
    <3>1. s.f = c.x.msgtype /\ s.h = c.h
      BY <2>2
    <3> HIDE DEF s
    <3> QED
      BY <1>5, <1>6, <3>1 DEF FieldKept, FieldOK
  <2> QED
    BY <2>1, <2>2
<1>8. w \in Seq(Unknowns)
  BY <1>2, <1>4, ConcatProperties
<1> HIDE DEF s, w, v
<1>9. r.x = WithMsgtype(c.x, s.f, w)
  <2>1. c.x = [msgtype |-> c.x.msgtype, ui |-> c.x.ui, n |-> c.x.n,
               unknown |-> c.x.unknown]
    BY <1>5, FocusFacts
  <2> QED
    BY <1>1, <2>1 DEF WithMsgtype
<1> HIDE DEF r
<1>10. Keeps(c.x, c.h, r.x, r.h)
  <2>1. Keeps(c.x, c.h, WithMsgtype(c.x, s.f, w), s.h)
    BY <1>5, <1>7, <1>8, MsgtypeKeeps
  <2> QED
    BY <1>1, <1>9, <2>1
<1>11. Keeps(f, h, r.x, r.h)
  BY <1>4, <1>10, KeepsTwice
<1> QED
  BY <1>11 DEF r

LEMMA KeepsReadable ==
    ASSUME NEW f, NEW h, NEW g, NEW k, Readable(f, h), SlotsStay(f, h, g, k)
    PROVE  Readable(g, k)
BY DEF Readable, SlotsStay

LEMMA CopyKeeps ==
    ASSUME NEW f, NEW h, NEW from, Readable(f, h), Readable(from, h), RoomFor(from, h)
    PROVE  LET c == FocusClear(f, h)
               r == FocusMergeFrom(c.x, c.h, from)
           IN  Keeps(f, h, r.x, r.h)
<1> DEFINE c == FocusClear(f, h)
           r == FocusMergeFrom(c.x, c.h, from)
<1>1. SlotsStay(f, h, c.x, c.h)
  BY FocusClearStay
<1> HIDE DEF c
<1>2. Readable(c.x, c.h) /\ Keeps(f, h, c.x, c.h)
  BY <1>1, KeepsReadable, SlotsStayKeeps DEF Readable
<1>3. Readable(from, c.h) /\ RoomFor(from, c.h)
  BY <1>1 DEF SlotsStay, Readable, RoomFor
<1>4. Keeps(c.x, c.h, r.x, r.h)
  BY <1>2, <1>3, FocusMergeFromKeeps
<1> HIDE DEF r
<1>5. Keeps(f, h, r.x, r.h)
  BY <1>2, <1>4, KeepsTwice
<1> QED
  BY <1>5 DEF r, c

-----------------------------------------------------------------------------
(* Steps of the calls, in terms of places.                                 *)

LEMMA SwappedOwned ==
    ASSUME NEW P, NEW Q, NEW D, NEW p \in DOMAIN P, NEW q \in DOMAIN P, Owned(P, D),
           DOMAIN Q = DOMAIN P, Q[p] = P[q], Q[q] = P[p],
           \A a \in DOMAIN P \ {p, q} : Q[a] = P[a]
    PROVE  Owned(Q, D)
<1> DEFINE s == [a \in DOMAIN P |-> IF a = p THEN q ELSE IF a = q THEN p ELSE a]
<1>1. s \in Bijection(DOMAIN Q, DOMAIN P)
  <2>1. s \in [DOMAIN P -> DOMAIN P] /\ \A a \in DOMAIN P : s[s[a]] = a
    OBVIOUS
  <2> HIDE DEF s
  <2> QED
    BY <2>1 DEF Bijection, Injection, Surjection, IsInjective
<1>2. \A a \in DOMAIN Q : Q[a] = P[s[a]]
  OBVIOUS
<1> HIDE DEF s
<1> QED
  BY <1>1, <1>2, MovedOwned DEF Moved

LEMMA GoodFacts ==
    ASSUME NEW F, NEW hd, NEW h, Good(F, hd, h)
    PROVE  /\ F = [m \in Focuses |-> F[m]] /\ HeapOK(h) /\ hd \in Strs \cup {Empty}
           /\ \A m \in Focuses : FocusOK(F[m]) /\ Readable(F[m], h)
           /\ LensOK(F)
           /\ hd # Empty => hd \in DOMAIN h
<1>1. LensOK(F) /\ \A m \in Focuses : FocusOK(F[m])
  BY FocusFacts DEF Good, LensOK
<1> DEFINE P == Held(F, hd)
<1> HIDE DEF P
<1>2. PlacesAre(P, F, hd) /\ Owned(P, DOMAIN h)
  BY <1>1, HeldAt DEF Good, P
<1>3. ASSUME NEW m \in Focuses PROVE Readable(F[m], h)
  <2>1. ASSUME NEW i \in SlotsOf(F[m]), Ptr(F[m], i) # Empty
        PROVE  Ptr(F[m], i) \in DOMAIN h
    <3>1. DOMAIN P = Places(F) /\ <<m, i>> \in Places(F) /\ P[<<m, i>>] = Ptr(F[m], i)
      BY <1>2 DEF PlacesAre
    <3> QED
      BY <1>2, <2>1, <3>1 DEF Owned
  <2> QED
    BY <1>1, <2>1 DEF Readable, Good
<1>4. hd # Empty => hd \in DOMAIN h
  BY <1>2 DEF Owned, PlacesAre
<1> QED
  BY <1>1, <1>3, <1>4 DEF Good

\* The hand gets a new string.
LEMMA HandFilled ==
    ASSUME NEW F, NEW h, NEW p \in Strs \ DOMAIN h, NEW k,
           Good(F, Empty, h), HeapOK(k), DOMAIN k = DOMAIN h \cup {p}
    PROVE  Good(F, p, k)
<1>1. LensOK(F)
  BY GoodFacts
<1> DEFINE P == Held(F, Empty)
           Q == Held(F, p)
<1>2. PlacesAre(P, F, Empty) /\ PlacesAre(Q, F, p)
  BY <1>1, HeldAt
<1>3. p # Empty
  BY DEF Strs, Empty
<1>4. Owned(P, DOMAIN h)
  BY DEF Good
<1> HIDE DEF P, Q
<1>5. Filled(P, Q, DOMAIN h, DOMAIN k, {Hand})
  BY <1>2, <1>3 DEF Filled, PlacesAre
<1>6. Owned(Q, DOMAIN k)
  BY <1>4, <1>5, FilledOwned
<1> QED
  BY <1>6 DEF Good, Q

\* What the hand holds is deleted.
LEMMA HandDropped ==
    ASSUME NEW F, NEW hd, NEW h, Good(F, hd, h)
    PROVE  Good(F, Empty, Delete(h, hd))
<1>1. LensOK(F)
  BY GoodFacts
<1> DEFINE P == Held(F, hd)
           Q == Held(F, Empty)
           k == Delete(h, hd)
<1>2. PlacesAre(P, F, hd) /\ PlacesAre(Q, F, Empty)
  BY <1>1, HeldAt
<1>3. HeapOK(k) /\ DOMAIN k = DOMAIN h \ {hd}
  BY HeapFacts DEF Good
<1>4. Owned(P, DOMAIN h)
  BY DEF Good
<1> HIDE DEF P, Q, k
<1>5. Dropped(P, Q, DOMAIN h, DOMAIN k, {Hand})
  BY <1>2, <1>3 DEF Dropped, PlacesAre
<1>6. Owned(Q, DOMAIN k)
  BY <1>4, <1>5, DroppedOwned
<1>7. Good(F, Empty, k)
  BY <1>3, <1>6 DEF Good, Q
<1> QED
  BY <1>7 DEF k

\* Message f becomes g: slot i, and it only, points to p.
SlotBecomes(f, g, i, p) ==
    /\ FocusOK(g) /\ Len(g.ui) = Len(f.ui) /\ Ptr(g, i) = p
    /\ \A j \in SlotsOf(f) \ {i} : Ptr(g, j) = Ptr(f, j)

\* A slot gets what the hand holds, and the hand what the slot did.
LEMMA SlotExchanged ==
    ASSUME NEW F, NEW hd, NEW h, NEW m \in Focuses, NEW i \in SlotsOf(F[m]), NEW g,
           Good(F, hd, h), SlotBecomes(F[m], g, i, hd)
    PROVE  Good([F EXCEPT ![m] = g], Ptr(F[m], i), h)
<1> DEFINE G == [F EXCEPT ![m] = g]
           e == Ptr(F[m], i)
           P == Held(F, hd)
           Q == Held(G, e)
<1>1. G[m] = g /\ \A n \in Focuses \ {m} : G[n] = F[n]
  BY DEF Good
<1>2. G = [n \in Focuses |-> G[n]] /\ \A n \in Focuses : FocusOK(G[n])
  BY <1>1 DEF Good, SlotBecomes
<1>3. LensOK(F) /\ LensOK(G)
  BY <1>2, FocusFacts DEF Good, LensOK
<1>4. e \in Strs \cup {Empty}
  BY FocusFacts DEF Good
<1> HIDE DEF G, e, P, Q
<1>5. \A n \in Focuses : SlotsOf(G[n]) = SlotsOf(F[n])
  BY <1>1 DEF SlotsOf, SlotBecomes
<1>6. Places(G) = Places(F)
  BY <1>5 DEF Places
<1>7. PlacesAre(P, F, hd)
  BY <1>3, HeldAt DEF P
<1>8. PlacesAre(Q, G, e)
  BY <1>3, HeldAt DEF Q
<1>9. P[<<m, i>>] = e /\ Q[<<m, i>>] = hd /\ <<m, i>> \in Places(F)
  BY <1>1, <1>5, <1>7, <1>8 DEF e, SlotBecomes, PlacesAre
<1>10. ASSUME NEW a \in DOMAIN P \ {Hand, <<m, i>>} PROVE Q[a] = P[a]
  <2>1. /\ a = <<a[1], a[2]>> /\ a[1] \in Focuses /\ a[2] \in SlotsOf(F[a[1]])
        /\ P[a] = Ptr(F[a[1]], a[2]) /\ Q[a] = Ptr(G[a[1]], a[2])
    BY <1>6, <1>7, <1>8, <1>10 DEF PlacesAre
  <2>2. CASE a[1] = m
    BY <1>1, <1>10, <2>1, <2>2 DEF SlotBecomes
  <2>3. CASE a[1] # m
    BY <1>1, <2>1, <2>3
  <2> QED
    BY <2>2, <2>3
<1>11. Owned(P, DOMAIN h)
  BY DEF Good, P
<1>12. Owned(Q, DOMAIN h)
  <2>1. /\ Hand \in DOMAIN P /\ <<m, i>> \in DOMAIN P /\ DOMAIN Q = DOMAIN P
        /\ Q[Hand] = P[<<m, i>>] /\ Q[<<m, i>>] = P[Hand]
    BY <1>6, <1>7, <1>8, <1>9 DEF PlacesAre
  <2> QED
    BY <1>10, <1>11, <2>1, SwappedOwned
<1>13. Good(G, e, h)
  BY <1>2, <1>4, <1>12 DEF Good, Q
<1> QED
  BY <1>13 DEF G, e

\* A message is destroyed, with its strings.
LEMMA MessageDropped ==
    ASSUME NEW F, NEW hd, NEW h, NEW m \in Focuses, NEW k, Good(F, hd, h), HeapOK(k),
           DOMAIN k = DOMAIN h \ {Ptr(F[m], i) : i \in SlotsOf(F[m])}
    PROVE  Good([F EXCEPT ![m] = NewFocus], hd, k)
<1> DEFINE G == [F EXCEPT ![m] = NewFocus]
           P == Held(F, hd)
           Q == Held(G, hd)
           J == {<<m, i>> : i \in SlotsOf(F[m])}
<1>1. G[m] = NewFocus /\ \A n \in Focuses \ {m} : G[n] = F[n]
  BY DEF Good
<1>2. G = [n \in Focuses |-> G[n]] /\ \A n \in Focuses : FocusOK(G[n])
  BY <1>1, NewUserFacts DEF Good
<1>3. LensOK(F)
  BY GoodFacts
<1>4. LensOK(G)
  BY <1>2, FocusFacts DEF LensOK
<1> HIDE DEF G, P, Q
<1>5. PlacesAre(P, F, hd)
  BY <1>3, HeldAt DEF P
<1>6. PlacesAre(Q, G, hd)
  BY <1>4, HeldAt DEF Q
<1>7. Dropped(P, Q, DOMAIN h, DOMAIN k, J)
  <2>1. ASSUME NEW a \in DOMAIN P \ J PROVE a \in DOMAIN Q /\ Q[a] = P[a]
    <3>1. CASE a = Hand
      BY <1>5, <1>6, <3>1 DEF PlacesAre
    <3>2. CASE a # Hand
      <4>1. /\ a = <<a[1], a[2]>> /\ a[1] \in Focuses /\ a[2] \in SlotsOf(F[a[1]])
            /\ P[a] = Ptr(F[a[1]], a[2])
        BY <1>5, <2>1, <3>2 DEF PlacesAre
      <4>2. a[1] # m
        BY <2>1, <4>1
      <4> QED
        BY <1>1, <1>6, <4>1, <4>2 DEF PlacesAre
    <3> QED
      BY <3>1, <3>2
  <2>2. ASSUME NEW a \in DOMAIN Q
        PROVE  Q[a] = Empty \/ (a \in DOMAIN P \ J /\ Q[a] = P[a])
    <3>1. CASE a = Hand
      BY <1>5, <1>6, <3>1 DEF PlacesAre
    <3>2. CASE a # Hand
      <4>1. /\ a = <<a[1], a[2]>> /\ a[1] \in Focuses /\ a[2] \in SlotsOf(G[a[1]])
            /\ Q[a] = Ptr(G[a[1]], a[2])
        BY <1>6, <2>2, <3>2 DEF PlacesAre
      <4>2. CASE a[1] = m
        BY <1>1, <4>1, <4>2, NewUserFacts
      <4>3. CASE a[1] # m
        <5>1. G[a[1]] = F[a[1]]
          BY <1>1, <4>1, <4>3
        <5>2. a \in DOMAIN P /\ P[a] = Q[a]
          BY <1>5, <4>1, <5>1 DEF PlacesAre
        <5>3. a \notin J
          BY <4>1, <4>3
        <5> QED
          BY <5>2, <5>3
      <4> QED
        BY <4>2, <4>3
    <3> QED
      BY <3>1, <3>2
  <2>3. J \subseteq DOMAIN P
    BY <1>5 DEF PlacesAre
  <2>4. {P[a] : a \in J} = {Ptr(F[m], i) : i \in SlotsOf(F[m])}
    <3>1. \A i \in SlotsOf(F[m]) : P[<<m, i>>] = Ptr(F[m], i)
      BY <1>5 DEF PlacesAre
    <3> QED
      BY <3>1
  <2> HIDE DEF J
  <2> QED
    BY <2>1, <2>2, <2>3, <2>4 DEF Dropped
<1> HIDE DEF J
<1>8. Owned(P, DOMAIN h)
  BY DEF Good, P
<1>9. Owned(Q, DOMAIN k)
  BY <1>7, <1>8, DroppedOwned
<1>10. Good(G, hd, k)
  BY <1>2, <1>9 DEF Good, Q
<1> QED
  BY <1>10 DEF G

\* Two messages are swapped.
LEMMA MessagesSwapped ==
    ASSUME NEW F, NEW hd, NEW h, NEW m \in Focuses, NEW o \in Focuses, m # o,
           Good(F, hd, h)
    PROVE  Good([F EXCEPT ![m] = F[o], ![o] = F[m]], hd, h)
<1> DEFINE G    == [F EXCEPT ![m] = F[o], ![o] = F[m]]
           P    == Held(F, hd)
           Q    == Held(G, hd)
           w[n \in Focuses] == IF n = m THEN o ELSE IF n = o THEN m ELSE n
           s    == [a \in Places(G) |-> IF a = Hand THEN Hand ELSE <<w[a[1]], a[2]>>]
<1>1. /\ w \in [Focuses -> Focuses] /\ \A n \in Focuses : w[w[n]] = n
      /\ G = [n \in Focuses |-> G[n]] /\ \A n \in Focuses : G[n] = F[w[n]]
  BY DEF Good
<1>2. \A n \in Focuses : FocusOK(G[n])
  BY <1>1 DEF Good
<1>3. LensOK(F)
  BY GoodFacts
<1>4. LensOK(G)
  BY <1>2, FocusFacts DEF LensOK
<1> HIDE DEF G, P, Q, w
<1>5. PlacesAre(P, F, hd)
  BY <1>3, HeldAt DEF P
<1>6. PlacesAre(Q, G, hd)
  BY <1>4, HeldAt DEF Q
<1>7. ASSUME NEW a \in DOMAIN Q
      PROVE  /\ s[a] \in DOMAIN P /\ Q[a] = P[s[a]]
             /\ a = IF s[a] = Hand THEN Hand ELSE <<w[s[a][1]], s[a][2]>>
  <2>1. CASE a = Hand
    <3>1. s[a] = Hand
      BY <1>6, <2>1 DEF PlacesAre
    <3> HIDE DEF s
    <3> QED
      BY <1>5, <1>6, <2>1, <3>1 DEF PlacesAre
  <2>2. CASE a # Hand
    <3>1. /\ a = <<a[1], a[2]>> /\ a[1] \in Focuses /\ a[2] \in SlotsOf(G[a[1]])
          /\ Q[a] = Ptr(G[a[1]], a[2])
      BY <1>6, <1>7, <2>2 DEF PlacesAre
    <3>2. w[a[1]] \in Focuses /\ G[a[1]] = F[w[a[1]]] /\ w[w[a[1]]] = a[1]
      BY <1>1, <3>1
    <3>3. s[a] = <<w[a[1]], a[2]>>
      BY <1>6, <1>7, <2>2 DEF PlacesAre
    <3> HIDE DEF s
    <3>4. s[a] \in DOMAIN P /\ s[a] # Hand /\ P[s[a]] = Ptr(F[w[a[1]]], a[2])
      BY <1>5, <3>1, <3>2, <3>3 DEF PlacesAre
    <3>5. s[a][1] = w[a[1]] /\ s[a][2] = a[2]
      BY <3>3
    <3> QED
      BY <3>1, <3>2, <3>4, <3>5
  <2> QED
    BY <2>1, <2>2
<1>8. ASSUME NEW b \in DOMAIN P PROVE \E a \in DOMAIN Q : s[a] = b
  <2>1. CASE b = Hand
    BY <1>6, <2>1 DEF PlacesAre
  <2>2. CASE b # Hand
    <3>1. b = <<b[1], b[2]>> /\ b[1] \in Focuses /\ b[2] \in SlotsOf(F[b[1]])
      BY <1>5, <1>8, <2>2 DEF PlacesAre
    <3>2. w[b[1]] \in Focuses /\ G[w[b[1]]] = F[b[1]] /\ w[w[b[1]]] = b[1]
      BY <1>1, <3>1
    <3> DEFINE a == <<w[b[1]], b[2]>>
    <3>3. a \in DOMAIN Q /\ a # Hand /\ a[1] = w[b[1]] /\ a[2] = b[2]
      BY <1>6, <3>1, <3>2 DEF PlacesAre
    <3> HIDE DEF a
    <3>4. s[a] = <<w[a[1]], a[2]>>
      BY <1>6, <3>3 DEF PlacesAre
    <3> HIDE DEF s
    <3> QED
      BY <3>1, <3>2, <3>3, <3>4
  <2> QED
    BY <2>1, <2>2
<1>9. s \in [DOMAIN Q -> DOMAIN P]
  <2>1. DOMAIN s = DOMAIN Q /\ s = [a \in DOMAIN s |-> s[a]]
    BY <1>6 DEF PlacesAre
  <2> HIDE DEF s
  <2> QED
    BY <1>7, <2>1
<1> HIDE DEF s
<1>10. \A a, b \in DOMAIN Q : s[a] = s[b] => a = b
  BY <1>7
<1>11. Moved(P, Q, s)
  BY <1>7, <1>8, <1>9, <1>10
     DEF Moved, Bijection, Injection, Surjection, IsInjective
<1>12. Owned(P, DOMAIN h)
  BY DEF Good, P
<1>13. Owned(Q, DOMAIN h)
  BY <1>11, <1>12, MovedOwned
<1>14. Good(G, hd, h)
  BY <1>1, <1>2, <1>13 DEF Good, Q
<1> QED
  BY <1>14 DEF G

\* Two elements, of one message or of two, are swapped.
LEMMA UsersSwapped ==
    ASSUME NEW F, NEW hd, NEW h, NEW m \in Focuses, NEW o \in Focuses,
           NEW i \in 1 .. Len(F[m].ui), NEW j \in 1 .. Len(F[o].ui), m # o \/ i # j,
           Good(F, hd, h)
    PROVE  Good([F EXCEPT ![m].ui[i] = F[o].ui[j], ![o].ui[j] = F[m].ui[i]], hd, h)
<1> DEFINE x == F[m].ui[i]
           y == F[o].ui[j]
           g == [F[m] EXCEPT !.ui[i] = y]
           E == [F EXCEPT ![m] = g]
           k == [E[o] EXCEPT !.ui[j] = x]
           G == [E EXCEPT ![o] = k]
           P == Held(F, hd)
           Q == Held(G, hd)
<1>1. G = [F EXCEPT ![m].ui[i] = F[o].ui[j], ![o].ui[j] = F[m].ui[i]]
  OBVIOUS
<1>2. /\ F = [n \in Focuses |-> F[n]] /\ LensOK(F)
      /\ \A n \in Focuses : FocusOK(F[n])
  BY GoodFacts
<1>3. x \in UserType /\ y \in UserType
  BY <1>2, FocusFacts
<1> HIDE DEF x, y
<1>4. E[m] = g /\ (\A n \in Focuses \ {m} : E[n] = F[n]) /\ DOMAIN E = Focuses
  BY <1>2
<1>5. /\ FocusOK(g) /\ Len(g.ui) = Len(F[m].ui)
      /\ i \in SlotsOf(F[m]) /\ Ptr(F[m], i) = x.username.ptr
      /\ Ptr(g, i) = y.username.ptr
      /\ \A l \in SlotsOf(F[m]) \ {i} : Ptr(g, l) = Ptr(F[m], l)
  <2>1. g = [F[m] EXCEPT !.ui[i] = y] /\ FocusOK(F[m])
    BY <1>2
  <2> HIDE DEF g
  <2> QED
    BY <1>3, <2>1, UserChanged DEF x
<1> HIDE DEF g, E
<1>6. j \in 1 .. Len(E[o].ui) /\ FocusOK(E[o]) /\ Len(E[o].ui) = Len(F[o].ui)
  BY <1>2, <1>4, <1>5
<1>7. /\ FocusOK(k) /\ Len(k.ui) = Len(E[o].ui)
      /\ j \in SlotsOf(E[o]) /\ Ptr(k, j) = x.username.ptr
      /\ \A l \in SlotsOf(E[o]) \ {j} : Ptr(k, l) = Ptr(E[o], l)
  <2>1. k = [E[o] EXCEPT !.ui[j] = x]
    OBVIOUS
  <2> HIDE DEF k
  <2> QED
    BY <1>3, <1>6, <2>1, UserChanged
<1>8. j \in SlotsOf(F[o]) /\ Ptr(F[o], j) = y.username.ptr
  <2>1. Len(F[o].ui) \in Nat
    BY <1>2 DEF LensOK
  <2> QED
    BY <2>1 DEF SlotsOf, Ptr, y
<1> HIDE DEF k
<1>9. /\ G[o] = k /\ (\A n \in Focuses \ {o} : G[n] = E[n])
      /\ G = [n \in Focuses |-> G[n]]
  BY <1>4
<1> HIDE DEF G
<1>10. \A n \in Focuses : FocusOK(G[n]) /\ Len(G[n].ui) = Len(F[n].ui)
  BY <1>2, <1>4, <1>5, <1>6, <1>7, <1>9
<1>11. /\ LensOK(G)
       /\ \A n \in Focuses : SlotsOf(G[n]) = SlotsOf(F[n]) /\ SlotsOf(E[n]) = SlotsOf(F[n])
  BY <1>2, <1>4, <1>5, <1>10 DEF LensOK, SlotsOf
<1>12. Places(G) = Places(F)
  BY <1>11 DEF Places
<1>13. PlacesAre(P, F, hd) /\ PlacesAre(Q, G, hd)
  BY <1>2, <1>11, HeldAt
<1> HIDE DEF P, Q
<1>14. /\ P[<<m, i>>] = x.username.ptr /\ P[<<o, j>>] = y.username.ptr
       /\ <<m, i>> \in DOMAIN P /\ <<o, j>> \in DOMAIN P
  BY <1>5, <1>8, <1>13 DEF PlacesAre
<1>15. Q[<<o, j>>] = x.username.ptr
  BY <1>7, <1>8, <1>9, <1>11, <1>13 DEF PlacesAre
<1>16. Q[<<m, i>>] = y.username.ptr
  <2>1. Q[<<m, i>>] = Ptr(G[m], i)
    BY <1>5, <1>11, <1>13 DEF PlacesAre
  <2>2. CASE m = o
    BY <1>4, <1>5, <1>7, <1>9, <1>11, <2>1, <2>2
  <2>3. CASE m # o
    BY <1>4, <1>5, <1>9, <2>1, <2>3
  <2> QED
    BY <2>2, <2>3
<1>17. ASSUME NEW a \in DOMAIN P \ {<<m, i>>, <<o, j>>} PROVE Q[a] = P[a]
  <2>1. CASE a = Hand
    BY <1>13, <2>1 DEF PlacesAre
  <2>2. CASE a # Hand
    <3>1. /\ a = <<a[1], a[2]>> /\ a[1] \in Focuses /\ a[2] \in SlotsOf(F[a[1]])
          /\ P[a] = Ptr(F[a[1]], a[2]) /\ Q[a] = Ptr(G[a[1]], a[2])
      BY <1>12, <1>13, <1>17, <2>2 DEF PlacesAre
    <3>2. Ptr(E[a[1]], a[2]) = Ptr(F[a[1]], a[2])
      BY <1>4, <1>5, <1>17, <3>1
    <3>3. Ptr(G[a[1]], a[2]) = Ptr(E[a[1]], a[2])
      BY <1>7, <1>9, <1>11, <1>17, <3>1
    <3> QED
      BY <3>1, <3>2, <3>3
  <2> QED
    BY <2>1, <2>2
<1>18. Owned(P, DOMAIN h)
  BY DEF Good, P
<1>19. Owned(Q, DOMAIN h)
  <2>1. DOMAIN Q = DOMAIN P
    BY <1>12, <1>13 DEF PlacesAre
  <2> QED
    BY <1>14, <1>15, <1>16, <1>17, <1>18, <2>1, SwappedOwned
<1>20. Good(G, hd, h)
  BY <1>9, <1>10, <1>19 DEF Good, Q
<1> QED
  BY <1>1, <1>20

-----------------------------------------------------------------------------
(* The calls keep the invariant.                                           *)

LEMMA FocusStep ==
    ASSUME NEW m \in Focuses, NEW r, ObjectInv, FocusBecomes(m, r), hand' = hand,
           Keeps(focus[m], heap, r.x, r.h)
    PROVE  ObjectInv'
<1>1. Good([focus EXCEPT ![m] = r.x], hand, r.h)
  BY KeepsGood DEF ObjectInv
<1> QED
  BY <1>1 DEF ObjectInv, FocusBecomes

LEMMA MsgtypeStep ==
    ASSUME NEW m \in Focuses, NEW r, ObjectInv, MsgtypeBecomes(m, r), hand' = hand,
           FieldKept(focus[m].msgtype, heap, r.f, r.h)
    PROVE  ObjectInv'
<1> DEFINE f == focus[m]
           x == WithMsgtype(f, r.f, f.unknown)
<1>1. FocusOK(f) /\ f.unknown \in Seq(Unknowns)
      /\ f = [msgtype |-> f.msgtype, ui |-> f.ui, n |-> f.n, unknown |-> f.unknown]
  BY GoodFacts, FocusFacts DEF ObjectInv
<1>2. x = [f EXCEPT !.msgtype = r.f]
  BY <1>1 DEF WithMsgtype
<1>3. Keeps(f, heap, x, r.h)
  BY <1>1, MsgtypeKeeps
<1>4. focus' = [focus EXCEPT ![m] = x] /\ heap' = r.h
  <2>1. focus' = [focus EXCEPT ![m] = [f EXCEPT !.msgtype = r.f]] /\ heap' = r.h
    BY DEF MsgtypeBecomes
  <2> HIDE DEF f, x
  <2> QED
    BY <1>2, <2>1
<1> HIDE DEF x
<1>5. Good([focus EXCEPT ![m] = x], hand, r.h)
  BY <1>3, KeepsGood DEF ObjectInv
<1> QED
  BY <1>4, <1>5 DEF ObjectInv

LEMMA ElementFacts ==
    ASSUME NEW a \in Elements, ObjectInv
    PROVE  /\ a = <<a[1], a[2]>> /\ a[1] \in Focuses /\ a[2] \in 1 .. Len(focus[a[1]].ui)
           /\ FocusOK(focus[a[1]]) /\ Readable(focus[a[1]], heap)
           /\ ElementAt(a) = focus[a[1]].ui[a[2]] /\ ElementAt(a) \in UserType
           /\ FieldOK(ElementAt(a).username, heap)
<1>1. a = <<a[1], a[2]>> /\ a[1] \in Focuses /\ a[2] \in 1 .. focus[a[1]].n
  BY DEF Elements
<1>2. FocusOK(focus[a[1]]) /\ Readable(focus[a[1]], heap)
  BY <1>1, GoodFacts DEF ObjectInv
<1>3. a[2] \in 1 .. Len(focus[a[1]].ui)
  <2>1. /\ focus[a[1]].n \in Nat /\ Len(focus[a[1]].ui) \in Nat
        /\ focus[a[1]].n <= Len(focus[a[1]].ui)
    BY <1>2, FocusFacts
  <2> QED
    BY <1>1, <2>1
<1>4. focus[a[1]].ui[a[2]] \in UserType /\ FieldOK(focus[a[1]].ui[a[2]].username, heap)
  BY <1>2, <1>3, FocusFacts, ReadableFields
<1> QED
  BY <1>1, <1>2, <1>3, <1>4 DEF ElementAt

LEMMA UserStep ==
    ASSUME NEW a \in Elements, NEW r, ObjectInv, UserBecomes(a, r), hand' = hand,
           UserKept(ElementAt(a), heap, r.x, r.h)
    PROVE  ObjectInv'
<1> DEFINE m == a[1]
           i == a[2]
           f == focus[m]
           x == [f EXCEPT !.ui[i] = r.x]
<1>1. m \in Focuses /\ FocusOK(f) /\ i \in 1 .. Len(f.ui) /\ ElementAt(a) = f.ui[i]
  BY ElementFacts
<1>2. focus' = [focus EXCEPT ![m] = x] /\ heap' = r.h
  BY DEF UserBecomes
<1> HIDE DEF m, i
<1>3. Keeps(f, heap, x, r.h)
  BY <1>1, UserKeeps
<1> HIDE DEF f, x
<1>4. Good([focus EXCEPT ![m] = x], hand, r.h)
  BY <1>1, <1>3, KeepsGood DEF ObjectInv, f
<1> QED
  BY <1>2, <1>4 DEF ObjectInv

LEMMA UsernameStep ==
    ASSUME NEW a \in Elements, NEW r, ObjectInv, UsernameBecomes(a, r), hand' = hand,
           FieldKept(ElementAt(a).username, heap, r.f, r.h)
    PROVE  ObjectInv'
<1> DEFINE u == ElementAt(a)
           s == [x |-> [u EXCEPT !.username = r.f], h |-> r.h]
<1>1. u \in UserType
  BY ElementFacts
<1>2. UserBecomes(a, s)
  BY DEF UserBecomes, UsernameBecomes, ElementAt
<1>3. /\ s.x \in UserType /\ s.x.username = r.f /\ s.h = r.h
  <2> HIDE DEF u
  <2> QED
    BY <1>1 DEF UserType, FieldKept
<1>4. UserKept(u, heap, s.x, s.h)
  BY <1>3 DEF UserKept
<1> HIDE DEF s
<1> QED
  BY <1>2, <1>4, UserStep

LEMMA RoomNew ==
    /\ Room(1) => Strs \ DOMAIN heap # {}
    /\ \A f : HasRoom(f) => HasNew(f, heap)
<1>1. IsFiniteSet(Strs \ DOMAIN heap) /\ Cardinality(Strs \ DOMAIN heap) \in Nat
  BY StrsFinite
<1>2. Cardinality(Strs \ DOMAIN heap) >= 1 => Strs \ DOMAIN heap # {}
  BY <1>1, FS_EmptySet
<1> QED
  BY <1>2 DEF Room, HasRoom, HasNew

\* A string field gets what the hand holds.
LEMMA MsgtypeExchanged ==
    ASSUME NEW m \in Focuses, NEW s \in StringField, s.ptr = hand, ObjectInv
    PROVE  Good([focus EXCEPT ![m].msgtype = s], focus[m].msgtype.ptr, heap)
<1> DEFINE f == focus[m]
           g == WithMsgtype(f, s, f.unknown)
<1>1. /\ FocusOK(f) /\ f.unknown \in Seq(Unknowns) /\ Len(f.ui) \in Nat
      /\ f = [msgtype |-> f.msgtype, ui |-> f.ui, n |-> f.n, unknown |-> f.unknown]
      /\ f.ui \in Seq(UserType) /\ f.n \in Nat /\ f.n <= Len(f.ui)
  BY GoodFacts, FocusFacts DEF ObjectInv
<1>2. [focus EXCEPT ![m].msgtype = s] = [focus EXCEPT ![m] = g]
  <2>1. [focus EXCEPT ![m].msgtype = s] = [focus EXCEPT ![m] = [f EXCEPT !.msgtype = s]]
    OBVIOUS
  <2>2. [f EXCEPT !.msgtype = s] = g
    BY <1>1 DEF WithMsgtype
  <2> HIDE DEF f, g
  <2> QED
    BY <2>1, <2>2
<1>3. SlotBecomes(f, g, 0, hand) /\ 0 \in SlotsOf(f) /\ Ptr(f, 0) = f.msgtype.ptr
  <2>1. g.msgtype = s /\ g.ui = f.ui /\ g.n = f.n /\ g \in FocusType
    BY <1>1 DEF WithMsgtype, FocusType
  <2> HIDE DEF f, g
  <2> QED
    BY <1>1, <2>1 DEF SlotBecomes, FocusOK, Ptr, SlotsOf
<1> HIDE DEF g
<1>4. Good([focus EXCEPT ![m] = g], Ptr(f, 0), heap)
  BY <1>3, SlotExchanged DEF ObjectInv
<1> QED
  BY <1>2, <1>3, <1>4

LEMMA UsernameExchanged ==
    ASSUME NEW a \in Elements, NEW s \in StringField, s.ptr = hand, ObjectInv
    PROVE  Good([focus EXCEPT ![a[1]].ui[a[2]].username = s],
                ElementAt(a).username.ptr, heap)
<1> DEFINE m == a[1]
           i == a[2]
           f == focus[m]
           x == [f.ui[i] EXCEPT !.username = s]
           g == [f EXCEPT !.ui[i] = x]
<1>1. /\ m \in Focuses /\ FocusOK(f) /\ i \in 1 .. Len(f.ui)
      /\ f.ui[i] \in UserType /\ ElementAt(a) = f.ui[i]
  BY ElementFacts
<1>2. [focus EXCEPT ![a[1]].ui[a[2]].username = s] = [focus EXCEPT ![m] = g]
  OBVIOUS
<1> HIDE DEF m, i
<1>3. x \in UserType /\ x.username = s
  <2> DEFINE u == f.ui[i]
  <2>1. u \in UserType
    BY <1>1
  <2> HIDE DEF u
  <2>2. [u EXCEPT !.username = s] \in UserType /\ [u EXCEPT !.username = s].username = s
    BY <2>1 DEF UserType
  <2> QED
    BY <2>2 DEF u
<1> HIDE DEF x
<1>4. /\ SlotBecomes(f, g, i, hand) /\ i \in SlotsOf(f)
      /\ Ptr(f, i) = ElementAt(a).username.ptr
  <2>1. g = [f EXCEPT !.ui[i] = x]
    OBVIOUS
  <2> HIDE DEF f, g
  <2> QED
    BY <1>1, <1>3, <2>1, UserChanged DEF SlotBecomes
<1> HIDE DEF g
<1>5. Good([focus EXCEPT ![m] = g], Ptr(f, i), heap)
  BY <1>1, <1>4, SlotExchanged DEF ObjectInv
<1> QED
  BY <1>2, <1>4, <1>5

LEMMA StringCallsKeep ==
    ASSUME ObjectInv, StringCalls
    PROVE  ObjectInv'
<1>1. HeapOK(heap) /\ hand \in Strs \cup {Empty} /\ Values \subseteq Nat
  BY ObjectAssumption DEF ObjectInv, Good
<1>2. NoString \in StringField /\ NoString.ptr = Empty
  BY DEF NoString, StringField
<1>3. ASSUME NEW v \in Values, NewOwnString(v) PROVE ObjectInv'
  <2>1. hand' \in Strs \ DOMAIN heap
    BY <1>1, <1>3, RoomNew, HeapFacts DEF NewOwnString
  <2>2. HeapOK(heap') /\ DOMAIN heap' = DOMAIN heap \cup {hand'}
    <3>1. heap' = Stored(heap, hand', v) /\ v \in Nat /\ hand' \in Strs
      BY <1>1, <1>3, <2>1 DEF NewOwnString
    <3> QED
      BY <1>1, <3>1 DEF HeapOK, Stored
  <2>3. Good(focus, Empty, heap) /\ focus' = focus
    BY <1>3 DEF NewOwnString, ObjectInv
  <2>4. Good(focus, hand', heap')
    BY <2>1, <2>2, <2>3, HandFilled
  <2> QED
    BY <2>3, <2>4 DEF ObjectInv
<1>4. CASE DeleteOwnString
  <2>1. Good(focus, Empty, Delete(heap, hand))
    BY HandDropped DEF ObjectInv
  <2> QED
    BY <1>4, <2>1 DEF DeleteOwnString, ObjectInv
<1>5. ASSUME NEW m \in Focuses
      PROVE  FieldOK(focus[m].msgtype, heap) /\ focus[m].msgtype \in StringField
  BY GoodFacts, ReadableFields DEF ObjectInv, FieldOK
<1>6. ASSUME NEW m \in Focuses, NEW v \in Values, set_msgtype(m, v) PROVE ObjectInv'
  BY <1>1, <1>5, <1>6, RoomNew, SetStringKept, MsgtypeStep DEF set_msgtype
<1>7. ASSUME NEW m \in Focuses, mutable_msgtype(m) PROVE ObjectInv'
  BY <1>5, <1>7, RoomNew, MutableStringKept, MsgtypeStep DEF mutable_msgtype
<1>8. ASSUME NEW m \in Focuses, clear_msgtype(m) PROVE ObjectInv'
  BY <1>5, <1>8, ClearStringKept, MsgtypeStep DEF clear_msgtype
<1>9. ASSUME NEW m \in Focuses, release_msgtype(m) PROVE ObjectInv'
  <2>1. Good([focus EXCEPT ![m].msgtype = NoString], focus[m].msgtype.ptr, heap)
    BY <1>2, <1>9, MsgtypeExchanged DEF release_msgtype
  <2> QED
    BY <1>9, <2>1 DEF release_msgtype, MsgtypeBecomes, ReleaseString, ObjectInv
<1>10. ASSUME NEW m \in Focuses, set_allocated_msgtype(m) PROVE ObjectInv'
  <2> DEFINE s == IF hand = Empty THEN NoString ELSE [has |-> TRUE, ptr |-> hand]
             e == focus[m].msgtype.ptr
  <2>1. s \in StringField /\ s.ptr = hand
    BY <1>1, <1>2 DEF StringField
  <2>2. /\ focus' = [focus EXCEPT ![m].msgtype = s] /\ heap' = Delete(heap, e)
        /\ hand' = Empty
    BY <1>10 DEF set_allocated_msgtype, MsgtypeBecomes, SetAllocatedString
  <2> HIDE DEF s
  <2>3. Good([focus EXCEPT ![m].msgtype = s], e, heap)
    BY <2>1, MsgtypeExchanged
  <2>4. Good([focus EXCEPT ![m].msgtype = s], Empty, Delete(heap, e))
    BY <2>3, HandDropped
  <2> QED
    BY <2>2, <2>4 DEF ObjectInv
<1>11. ASSUME NEW a \in Elements, NEW v \in Values, set_username(a, v) PROVE ObjectInv'
  BY <1>1, <1>11, ElementFacts, RoomNew, SetStringKept, UsernameStep DEF set_username
<1>12. ASSUME NEW a \in Elements, mutable_username(a) PROVE ObjectInv'
  BY <1>12, ElementFacts, RoomNew, MutableStringKept, UsernameStep DEF mutable_username
<1>13. ASSUME NEW a \in Elements, clear_username(a) PROVE ObjectInv'
  BY <1>13, ElementFacts, ClearStringKept, UsernameStep DEF clear_username
<1>14. ASSUME NEW a \in Elements, release_username(a) PROVE ObjectInv'
  <2>1. Good([focus EXCEPT ![a[1]].ui[a[2]].username = NoString],
             ElementAt(a).username.ptr, heap)
    BY <1>2, <1>14, UsernameExchanged DEF release_username
  <2> QED
    BY <1>14, <2>1 DEF release_username, UsernameBecomes, ReleaseString, ObjectInv
<1>15. ASSUME NEW a \in Elements, set_allocated_username(a) PROVE ObjectInv'
  <2> DEFINE s == IF hand = Empty THEN NoString ELSE [has |-> TRUE, ptr |-> hand]
             e == ElementAt(a).username.ptr
  <2>1. s \in StringField /\ s.ptr = hand
    BY <1>1, <1>2 DEF StringField
  <2>2. /\ focus' = [focus EXCEPT ![a[1]].ui[a[2]].username = s]
        /\ heap' = Delete(heap, e) /\ hand' = Empty
    BY <1>15 DEF set_allocated_username, UsernameBecomes, SetAllocatedString
  <2> HIDE DEF s, e
  <2>3. Good([focus EXCEPT ![a[1]].ui[a[2]].username = s], e, heap)
    BY <2>1, UsernameExchanged DEF e
  <2>4. Good([focus EXCEPT ![a[1]].ui[a[2]].username = s], Empty, Delete(heap, e))
    BY <2>3, HandDropped
  <2> QED
    BY <2>2, <2>4 DEF ObjectInv
<1> QED
  BY <1>3, <1>4, <1>6, <1>7, <1>8, <1>9, <1>10, <1>11, <1>12, <1>13, <1>14, <1>15
     DEF StringCalls

LEMMA FocusCallsKeep ==
    ASSUME ObjectInv, FocusCalls
    PROVE  ObjectInv'
<1>1. ASSUME NEW m \in Focuses
      PROVE  /\ Readable(focus[m], heap) /\ FocusOK(focus[m]) /\ HeapOK(heap)
             /\ focus[m] = [msgtype |-> focus[m].msgtype, ui |-> focus[m].ui,
                            n |-> focus[m].n, unknown |-> focus[m].unknown]
             /\ focus[m].unknown \in Seq(Unknowns)
  BY GoodFacts, FocusFacts DEF ObjectInv
<1>2. ASSUME NEW m \in Focuses, add_ui(m) PROVE ObjectInv'
  <2> DEFINE r == [x |-> AddElements(focus[m], 1), h |-> heap]
  <2>1. SlotsStay(focus[m], heap, r.x, r.h)
    BY <1>1, AddElementsStay
  <2>2. FocusBecomes(m, r) /\ hand' = hand
    BY <1>2 DEF add_ui, FocusBecomes
  <2> HIDE DEF r
  <2> QED
    BY <1>1, <2>1, <2>2, SlotsStayKeeps, FocusStep
<1>3. ASSUME NEW m \in Focuses, clear_ui(m) PROVE ObjectInv'
  <2> DEFINE r == ClearElements(focus[m], heap)
  <2>1. SlotsStay(focus[m], heap, r.x, r.h)
    BY <1>1, ClearElementsStay
  <2>2. FocusBecomes(m, r) /\ hand' = hand
    BY <1>3 DEF clear_ui
  <2> HIDE DEF r
  <2> QED
    BY <1>1, <2>1, <2>2, SlotsStayKeeps, FocusStep
<1>4. ASSUME NEW m \in Focuses, Clear(m) PROVE ObjectInv'
  <2> DEFINE r == FocusClear(focus[m], heap)
  <2>1. SlotsStay(focus[m], heap, r.x, r.h)
    BY <1>1, FocusClearStay
  <2>2. FocusBecomes(m, r) /\ hand' = hand
    BY <1>4 DEF Clear
  <2> HIDE DEF r
  <2> QED
    BY <1>1, <2>1, <2>2, SlotsStayKeeps, FocusStep
<1>5. ASSUME NEW m \in Focuses, Destroy(m) PROVE ObjectInv'
  <2>1. OwnedBy(m) = {Ptr(focus[m], i) : i \in SlotsOf(focus[m])}
    <3>1. Len(focus[m].ui) \in Nat /\ DOMAIN focus[m].ui = 1 .. Len(focus[m].ui)
      BY <1>1, FocusFacts
    <3>2. ASSUME NEW i \in SlotsOf(focus[m]) PROVE Ptr(focus[m], i) \in OwnedBy(m)
      BY <3>1 DEF SlotsOf, Ptr, OwnedBy
    <3>3. 0 \in SlotsOf(focus[m]) /\ Ptr(focus[m], 0) = focus[m].msgtype.ptr
      BY <3>1 DEF SlotsOf, Ptr
    <3>4. ASSUME NEW i \in DOMAIN focus[m].ui
          PROVE  i \in SlotsOf(focus[m]) /\ Ptr(focus[m], i) = focus[m].ui[i].username.ptr
      BY <3>1 DEF SlotsOf, Ptr
    <3> QED
      BY <3>2, <3>3, <3>4 DEF OwnedBy
  <2>2. HeapOK(heap') /\ DOMAIN heap' = DOMAIN heap \ OwnedBy(m)
    BY <1>1, <1>5 DEF Destroy, HeapOK
  <2>3. Good([focus EXCEPT ![m] = NewFocus], hand, heap')
    BY <2>1, <2>2, MessageDropped DEF ObjectInv
  <2> QED
    BY <1>5, <2>3 DEF Destroy, ObjectInv
<1>6. ASSUME NEW m \in Focuses, KeepUnknown(m) PROVE ObjectInv'
  <2> DEFINE f == focus[m]
             w == Append(f.unknown, Varint(3, 1))
             r == [x |-> WithMsgtype(f, f.msgtype, w), h |-> heap]
  <2>1. w \in Seq(Unknowns)
    <3>1. Varint(3, 1) \in Unknowns
      BY DEF Unknowns
    <3> HIDE DEF Unknowns
    <3> QED
      BY <1>1, <3>1, AppendProperties
  <2>2. focus' = [focus EXCEPT ![m] = [f EXCEPT !.unknown = w]]
        /\ heap' = heap /\ hand' = hand
    BY <1>6 DEF KeepUnknown
  <2> HIDE DEF w
  <2>3. [f EXCEPT !.unknown = w] = WithMsgtype(f, f.msgtype, w)
    <3>1. f = [msgtype |-> f.msgtype, ui |-> f.ui, n |-> f.n, unknown |-> f.unknown]
      BY <1>1, FocusFacts
    <3> HIDE DEF f
    <3>2. [f EXCEPT !.unknown = w]
             = [msgtype |-> f.msgtype, ui |-> f.ui, n |-> f.n, unknown |-> w]
      BY <3>1
    <3> QED
      BY <3>2 DEF WithMsgtype
  <2>4. FieldKept(f.msgtype, heap, f.msgtype, heap)
    BY <1>1, FocusFacts DEF FieldKept
  <2>5. Keeps(f, heap, r.x, r.h)
    BY <1>1, <2>1, <2>4, MsgtypeKeeps
  <2>6. FocusBecomes(m, r)
    BY <2>2, <2>3 DEF FocusBecomes
  <2> HIDE DEF r
  <2> QED
    BY <2>2, <2>5, <2>6, FocusStep
<1>7. ASSUME NEW n \in Focuses, Room(FocusStrings(n)) PROVE RoomFor(focus[n], heap)
  BY <1>7 DEF Room, FocusStrings, RoomFor, WithUsername
<1>8. ASSUME NEW m \in Focuses, NEW n \in Focuses, MergeFrom(m, n) PROVE ObjectInv'
  <2> DEFINE r == FocusMergeFrom(focus[m], heap, focus[n])
  <2>1. Keeps(focus[m], heap, r.x, r.h)
    BY <1>1, <1>7, <1>8, FocusMergeFromKeeps DEF MergeFrom, MergeFits
  <2>2. FocusBecomes(m, r) /\ hand' = hand
    BY <1>8 DEF MergeFrom
  <2> HIDE DEF r
  <2> QED
    BY <2>1, <2>2, FocusStep
<1>9. ASSUME NEW m \in Focuses, NEW n \in Focuses, CopyFrom(m, n) PROVE ObjectInv'
  <2> DEFINE c == FocusClear(focus[m], heap)
             r == FocusMergeFrom(c.x, c.h, focus[n])
  <2>1. Keeps(focus[m], heap, r.x, r.h)
    BY <1>1, <1>7, <1>9, CopyKeeps DEF CopyFrom
  <2>2. FocusBecomes(m, r) /\ hand' = hand
    BY <1>9 DEF CopyFrom
  <2> HIDE DEF r
  <2> QED
    BY <2>1, <2>2, FocusStep
<1>10. ASSUME NEW m \in Focuses, NEW n \in Focuses, Swap(m, n) PROVE ObjectInv'
  <2>1. Good([focus EXCEPT ![m] = focus[n], ![n] = focus[m]], hand, heap)
    BY <1>10, MessagesSwapped DEF Swap, ObjectInv
  <2> QED
    BY <1>10, <2>1 DEF Swap, ObjectInv
<1> QED
  BY <1>2, <1>3, <1>4, <1>5, <1>6, <1>8, <1>9, <1>10 DEF FocusCalls

LEMMA UserCallsKeep ==
    ASSUME ObjectInv, UserCalls
    PROVE  ObjectInv'
<1>1. ASSUME NEW a \in Elements
      PROVE  LET u == ElementAt(a)
             IN  /\ u \in UserType /\ FieldOK(u.username, heap) /\ u.unknown \in Seq(Unknowns)
                 /\ u = [userid |-> u.userid, username |-> u.username, unknown |-> u.unknown]
                 /\ FieldKept(u.username, heap, u.username, heap)
  <2> DEFINE u == ElementAt(a)
  <2>1. u \in UserType /\ FieldOK(u.username, heap)
    BY ElementFacts
  <2> HIDE DEF u
  <2>2. /\ u \in UserType /\ FieldOK(u.username, heap) /\ u.unknown \in Seq(Unknowns)
        /\ u = [userid |-> u.userid, username |-> u.username, unknown |-> u.unknown]
        /\ FieldKept(u.username, heap, u.username, heap)
    BY <2>1 DEF UserType, FieldOK, FieldKept
  <2> QED
    BY <2>2 DEF u
<1>2. ASSUME NEW a \in Elements, NEW d \in [has : BOOLEAN, val : Nat],
             focus' = [focus EXCEPT ![a[1]].ui[a[2]].userid = d],
             heap' = heap, hand' = hand
      PROVE  ObjectInv'
  <2> DEFINE u == ElementAt(a)
             r == [x |-> [u EXCEPT !.userid = d], h |-> heap]
  <2>1. UserBecomes(a, r)
    BY <1>2 DEF UserBecomes, ElementAt
  <2>2. /\ u \in UserType /\ FieldKept(u.username, heap, u.username, heap)
    BY <1>1
  <2>3. UserKept(u, heap, r.x, r.h)
    <3> HIDE DEF u
    <3>1. [u EXCEPT !.userid = d] \in UserType
          /\ [u EXCEPT !.userid = d].username = u.username
      BY <2>2 DEF UserType
    <3> QED
      BY <2>2, <3>1 DEF UserKept
  <2> HIDE DEF r
  <2> QED
    BY <1>2, <2>1, <2>3, UserStep
<1>3. ASSUME NEW a \in Elements, NEW v \in Values, set_userid(a, v) PROVE ObjectInv'
  <2>1. Given(v) \in [has : BOOLEAN, val : Nat]
    BY ObjectAssumption DEF Given
  <2> QED
    BY <1>2, <1>3, <2>1 DEF set_userid
<1>4. ASSUME NEW a \in Elements, clear_userid(a) PROVE ObjectInv'
  <2>1. Unset \in [has : BOOLEAN, val : Nat]
    BY DEF Unset
  <2> QED
    BY <1>2, <1>4, <2>1 DEF clear_userid
<1>5. ASSUME NEW a \in Elements, UserCleared(a) PROVE ObjectInv'
  <2> DEFINE r == UserClear(ElementAt(a), heap)
  <2>1. UserKept(ElementAt(a), heap, r.x, r.h)
    BY <1>1, UserClearKept
  <2>2. UserBecomes(a, r) /\ hand' = hand
    BY <1>5 DEF UserCleared
  <2> HIDE DEF r
  <2> QED
    BY <2>1, <2>2, UserStep
<1>6. ASSUME NEW a \in Elements, UserKeepUnknown(a) PROVE ObjectInv'
  <2> DEFINE u == ElementAt(a)
             w == Append(u.unknown, Varint(3, 1))
             r == [x |-> [u EXCEPT !.unknown = w], h |-> heap]
  <2>1. /\ u \in UserType /\ FieldKept(u.username, heap, u.username, heap)
        /\ u.unknown \in Seq(Unknowns)
    BY <1>1
  <2>2. UserBecomes(a, r) /\ hand' = hand
    BY <1>6 DEF UserBecomes, ElementAt, UserKeepUnknown
  <2>3. w \in Seq(Unknowns)
    <3>1. Varint(3, 1) \in Unknowns
      BY DEF Unknowns
    <3> HIDE DEF Unknowns, u
    <3> QED
      BY <2>1, <3>1, AppendProperties
  <2>4. UserKept(u, heap, r.x, r.h)
    <3> HIDE DEF u, w
    <3>1. [u EXCEPT !.unknown = w] \in UserType
          /\ [u EXCEPT !.unknown = w].username = u.username
      BY <2>1, <2>3 DEF UserType
    <3> QED
      BY <2>1, <3>1 DEF UserKept
  <2> HIDE DEF r
  <2> QED
    BY <2>2, <2>4, UserStep
<1>7. ASSUME NEW a \in Elements, NEW b \in Elements, Room(UserStrings(ElementAt(b))),
             ElementAt(b).username.has
      PROVE  Strs \ DOMAIN heap # {}
  BY <1>7, RoomNew DEF UserStrings
<1>8. ASSUME NEW a \in Elements, NEW b \in Elements, UserMergedFrom(a, b) PROVE ObjectInv'
  <2> DEFINE r == UserMergeFrom(ElementAt(a), heap, ElementAt(b))
  <2>1. ElementAt(b).username.has => HasNew(ElementAt(a).username, heap)
    BY <1>7, <1>8 DEF UserMergedFrom, HasNew
  <2>2. UserKept(ElementAt(a), heap, r.x, r.h)
    BY <1>1, <2>1, UserMergeFromKept
  <2>3. UserBecomes(a, r) /\ hand' = hand
    BY <1>8 DEF UserMergedFrom
  <2> HIDE DEF r
  <2> QED
    BY <2>2, <2>3, UserStep
<1>9. ASSUME NEW a \in Elements, NEW b \in Elements, UserCopied(a, b) PROVE ObjectInv'
  <2> DEFINE u == ElementAt(a)
             v == ElementAt(b)
             c == UserClear(u, heap)
             r == UserMergeFrom(c.x, c.h, v)
  <2>1. /\ u \in UserType /\ FieldOK(u.username, heap)
        /\ v \in UserType /\ FieldOK(v.username, heap)
    BY <1>1
  <2>2. UserBecomes(a, r) /\ hand' = hand
    BY <1>9 DEF UserCopied
  <2>3. v.username.has => Strs \ DOMAIN heap # {}
    BY <1>7, <1>9 DEF UserCopied
  <2>4. /\ UserKept(u, heap, c.x, c.h) /\ c.x.username.ptr = u.username.ptr
        /\ DOMAIN c.h = DOMAIN heap
    BY <2>1, UserClearKept
  <2> HIDE DEF c, u, v
  <2>5. /\ c.x \in UserType /\ FieldOK(c.x.username, c.h) /\ FieldOK(v.username, c.h)
    BY <2>1, <2>4 DEF UserKept, FieldKept, FieldOK
  <2>6. v.username.has => HasNew(c.x.username, c.h)
    BY <2>3, <2>4 DEF HasNew
  <2>7. UserKept(c.x, c.h, r.x, r.h)
    BY <2>1, <2>5, <2>6, UserMergeFromKept
  <2> HIDE DEF r
  <2>8. UserKept(u, heap, r.x, r.h)
    BY <2>4, <2>7 DEF UserKept, FieldKept
  <2> QED
    BY <2>2, <2>8, UserStep DEF u
<1>10. ASSUME NEW a \in Elements, NEW b \in Elements, UserSwapped(a, b) PROVE ObjectInv'
  <2>1. /\ a = <<a[1], a[2]>> /\ a[1] \in Focuses /\ a[2] \in 1 .. Len(focus[a[1]].ui)
        /\ b = <<b[1], b[2]>> /\ b[1] \in Focuses /\ b[2] \in 1 .. Len(focus[b[1]].ui)
    BY ElementFacts
  <2>2. a[1] # b[1] \/ a[2] # b[2]
    BY <1>10, <2>1 DEF UserSwapped
  <2>3. Good([focus EXCEPT ![a[1]].ui[a[2]] = focus[b[1]].ui[b[2]],
                           ![b[1]].ui[b[2]] = focus[a[1]].ui[a[2]]], hand, heap)
    BY <2>1, <2>2, UsersSwapped DEF ObjectInv
  <2> QED
    BY <1>10, <2>3 DEF UserSwapped, ElementAt, ObjectInv
<1> QED
  BY <1>3, <1>4, <1>5, <1>6, <1>8, <1>9, <1>10 DEF UserCalls

-----------------------------------------------------------------------------
(* Every string has one owner.                                             *)

LEMMA ObjectInvInit ==
    ASSUME ObjectInit
    PROVE  ObjectInv
<1> DEFINE P == Held(focus, hand)
<1>1. focus = [m \in Focuses |-> focus[m]] /\ \A m \in Focuses : focus[m] = NewFocus
  BY DEF ObjectInit
<1>2. \A m \in Focuses : FocusOK(focus[m])
  BY <1>1, NewUserFacts
<1>3. HeapOK(heap) /\ DOMAIN heap = {} /\ hand = Empty
  <2>1. DOMAIN heap = {} /\ heap = [p \in {} |-> heap[p]]
    BY DEF ObjectInit
  <2> QED
    BY <2>1 DEF ObjectInit, HeapOK
<1>4. LensOK(focus)
  BY <1>2, FocusFacts DEF LensOK
<1>5. PlacesAre(P, focus, hand)
  BY <1>4, HeldAt
<1> HIDE DEF P
<1>6. ASSUME NEW a \in DOMAIN P PROVE P[a] = Empty
  <2>1. CASE a = Hand
    BY <1>3, <1>5, <2>1 DEF PlacesAre
  <2>2. CASE a # Hand
    BY <1>1, <1>5, <1>6, <2>2, NewUserFacts DEF PlacesAre
  <2> QED
    BY <2>1, <2>2
<1>7. Owned(P, DOMAIN heap)
  BY <1>3, <1>6 DEF Owned
<1> QED
  BY <1>1, <1>2, <1>3, <1>7 DEF ObjectInv, Good, P

LEMMA ObjectInvNext ==
    ASSUME ObjectInv, [ObjectNext]_objectVars
    PROVE  ObjectInv'
<1>1. CASE UNCHANGED objectVars
  BY <1>1 DEF objectVars, ObjectInv
<1> QED
  BY <1>1, StringCallsKeep, FocusCallsKeep, UserCallsKeep DEF ObjectNext

\* What owns what a place points to: a place is the hand, a msgtype or a
\* username.
Owner(a) == IF a = Hand THEN <<"hand">>
            ELSE IF a[2] = 0 THEN <<"msgtype", a[1]>> ELSE <<"username", a[1], a[2]>>

LEMMA OwnersArePlaces ==
    ASSUME ObjectInv, NEW p \in Strs
    PROVE  Owners(p) = {Owner(a) : a \in {b \in Places(focus) : Held(focus, hand)[b] = p}}
<1> DEFINE P == Held(focus, hand)
           A == {b \in Places(focus) : P[b] = p}
<1>1. LensOK(focus) /\ \A m \in Focuses : FocusOK(focus[m])
  BY GoodFacts DEF ObjectInv
<1>2. PlacesAre(P, focus, hand)
  BY <1>1, HeldAt
<1> HIDE DEF P
<1>3. ASSUME NEW m \in Focuses
      PROVE  /\ Len(focus[m].ui) \in Nat /\ DOMAIN focus[m].ui = 1 .. Len(focus[m].ui)
             /\ 0 \in SlotsOf(focus[m])
             /\ \A i \in DOMAIN focus[m].ui : i \in SlotsOf(focus[m]) /\ i # 0
             /\ \A i \in SlotsOf(focus[m]) : i = 0 \/ i \in DOMAIN focus[m].ui
  BY <1>1, FocusFacts DEF SlotsOf
<1>4. ASSUME NEW a \in A PROVE Owner(a) \in Owners(p)
  <2>1. CASE a = Hand
    BY <1>2, <2>1 DEF PlacesAre, Owner, Owners
  <2>2. CASE a # Hand
    <3>1. /\ a[1] \in Focuses /\ a[2] \in SlotsOf(focus[a[1]]) /\ Ptr(focus[a[1]], a[2]) = p
      BY <1>2, <2>2 DEF PlacesAre
    <3>2. CASE a[2] = 0
      BY <2>2, <3>1, <3>2 DEF Ptr, Owner, Owners
    <3>3. CASE a[2] # 0
      <4>1. /\ a[2] \in {j \in DOMAIN focus[a[1]].ui : focus[a[1]].ui[j].username.ptr = p}
            /\ Owner(a) = <<"username", a[1], a[2]>>
        BY <1>3, <2>2, <3>1, <3>3 DEF Ptr, Owner
      <4> QED
        BY <3>1, <4>1 DEF Owners
    <3> QED
      BY <3>2, <3>3
  <2> QED
    BY <2>1, <2>2
<1>5. ASSUME NEW w \in Owners(p) PROVE \E a \in A : w = Owner(a)
  <2>1. \/ hand = p /\ w = <<"hand">>
        \/ \E m \in Focuses : focus[m].msgtype.ptr = p /\ w = <<"msgtype", m>>
        \/ \E m \in Focuses : \E i \in DOMAIN focus[m].ui :
              focus[m].ui[i].username.ptr = p /\ w = <<"username", m, i>>
    BY DEF Owners
  <2>2. CASE hand = p /\ w = <<"hand">>
    <3>1. Hand \in A /\ Owner(Hand) = w
      BY <1>2, <2>2 DEF PlacesAre, Owner
    <3> QED
      BY <3>1
  <2>3. ASSUME NEW m \in Focuses, focus[m].msgtype.ptr = p, w = <<"msgtype", m>>
        PROVE  \E a \in A : w = Owner(a)
    <3>1. <<m, 0>> \in A /\ <<m, 0>> # Hand
      BY <1>2, <1>3, <2>3 DEF PlacesAre, Ptr
    <3>2. Owner(<<m, 0>>) = w
      BY <2>3, <3>1 DEF Owner
    <3> QED
      BY <3>1, <3>2
  <2>4. ASSUME NEW m \in Focuses, NEW i \in DOMAIN focus[m].ui,
               focus[m].ui[i].username.ptr = p, w = <<"username", m, i>>
        PROVE  \E a \in A : w = Owner(a)
    <3>1. <<m, i>> \in A /\ <<m, i>> # Hand /\ i # 0
      BY <1>2, <1>3, <2>4 DEF PlacesAre, Ptr
    <3>2. Owner(<<m, i>>) = w
      BY <2>4, <3>1 DEF Owner
    <3> QED
      BY <3>1, <3>2
  <2> QED
    BY <2>1, <2>2, <2>3, <2>4
<1> HIDE DEF A
<1>6. Owners(p) = {Owner(a) : a \in A}
  BY <1>4, <1>5
<1> QED
  BY <1>6 DEF A, P

LEMMA InvMeansOwnedOnce ==
    ASSUME ObjectInv
    PROVE  StringsOwnedOnce
<1> DEFINE P == Held(focus, hand)
<1>1. PlacesAre(P, focus, hand) /\ Owned(P, DOMAIN heap)
  BY GoodFacts, HeldAt DEF ObjectInv, Good
<1> SUFFICES ASSUME NEW p \in Strs
             PROVE  Cardinality(Owners(p)) = IF p \in DOMAIN heap THEN 1 ELSE 0
  BY DEF StringsOwnedOnce
<1> DEFINE A == {b \in Places(focus) : P[b] = p}
<1>2. Owners(p) = {Owner(a) : a \in A}
  BY OwnersArePlaces
<1>3. p # Empty
  BY DEF Strs, Empty
<1> HIDE DEF P
<1>4. CASE p \in DOMAIN heap
  <2>1. PICK a \in A : TRUE
    BY <1>1, <1>4 DEF Owned, PlacesAre
  <2>2. \A b \in A : b = a
    BY <1>1, <1>3, <2>1 DEF Owned, PlacesAre
  <2> HIDE DEF A
  <2>3. Owners(p) = {Owner(a)}
    BY <1>2, <2>1, <2>2
  <2> QED
    BY <1>4, <2>3, FS_Singleton
<1>5. CASE p \notin DOMAIN heap
  <2>1. A = {}
    BY <1>1, <1>3, <1>5 DEF Owned, PlacesAre
  <2> HIDE DEF A
  <2>2. Owners(p) = {}
    BY <1>2, <2>1
  <2> QED
    BY <1>5, <2>2, FS_EmptySet
<1> QED
  BY <1>4, <1>5

\* Whatever calls a caller makes on messages of the generated classes, each
\* string on the heap is owned by one field or by the caller, so that
\* SharedDtor, set_allocated_...() and the caller delete it once in all, and no
\* field points to a string that is deleted: StringsOwnedOnce.
THEOREM StringsSafe == ObjectSpec => []StringsOwnedOnce
<1>1. ObjectSpec => []ObjectInv
  BY ObjectInvInit, ObjectInvNext, PTL DEF ObjectSpec
<1> QED
  BY <1>1, InvMeansOwnedOnce, PTL

-----------------------------------------------------------------------------
(* What the objects read as: see Value of MessageObject.                   *)

FieldView(h, s) == [has |-> s.has, val |-> Content(h, s.ptr)]

ViewOfUser(h, u) ==
    [userid |-> u.userid, username |-> FieldView(h, u.username), unknown |-> u.unknown]

ViewOf(h, f) ==
    [msgtype |-> FieldView(h, f.msgtype),
     ui      |-> [i \in 1 .. f.n |-> ViewOfUser(h, f.ui[i])],
     unknown |-> f.unknown]

\* A field that is set has a string of its own; one that is not reads as empty.
Clean(h, s) == IF s.has THEN s.ptr # Empty ELSE Content(h, s.ptr) = 0

CleanUser(h, u) == Clean(h, u.username) /\ (u.userid.has \/ u.userid = Unset)

\* The cleared elements of a message read as new ones.
CleanFocus(h, f) ==
    /\ Clean(h, f.msgtype)
    /\ \A i \in 1 .. Len(f.ui) :
         /\ CleanUser(h, f.ui[i])
         /\ i > f.n => ViewOfUser(h, f.ui[i]) = NoUser

\* The strings p that are not in S stay, with their contents.
StayBut(h, k, S) == \A p \in DOMAIN h \ S : p \in DOMAIN k /\ k[p] = h[p]

\* String p reads the same in both heaps.
Same(h, k, p) == Content(k, p) = Content(h, p)

\* A string that stays reads the same.
LEMMA StaySame ==
    ASSUME NEW h, NEW k, NEW S, StayBut(h, k, S), NEW p, p # Empty => p \in DOMAIN h \ S
    PROVE  Same(h, k, p)
  BY DEF StayBut, Same, Content

\* A field whose string reads the same does too.
LEMMA SameField ==
    ASSUME NEW h, NEW k, NEW s, Same(h, k, s.ptr)
    PROVE  FieldView(k, s) = FieldView(h, s) /\ (Clean(h, s) => Clean(k, s))
  BY DEF FieldView, Clean, Same

\* What a field of a message that keeps ReadInv reads as.
LEMMA CleanView ==
    ASSUME NEW h, NEW s, Clean(h, s)
    PROVE  /\ ~s.has /\ s.has \in BOOLEAN => FieldView(h, s) = Unset
           /\ s.has /\ s.has \in BOOLEAN => FieldView(h, s) = Given(Content(h, s.ptr))
<1>1. CASE s.has = FALSE
  BY <1>1 DEF Clean, FieldView, Unset
<1>2. CASE s.has = TRUE
  BY <1>2 DEF Clean, FieldView, Given
<1> QED
  BY <1>1, <1>2

-----------------------------------------------------------------------------
(* Calls on a string field.                                                *)

\* mutable_...() keeps what the string reads as, and may make a new one.
LEMMA MutableReads ==
    ASSUME NEW f, NEW h, FieldOK(f, h), HasNew(f, h), Clean(h, f)
    PROVE  LET r == MutableString(f, h)
           IN  /\ FieldView(r.h, r.f) = Given(Content(h, f.ptr)) /\ Clean(r.h, r.f)
               /\ StayBut(h, r.h, {}) /\ r.f.ptr \in DOMAIN r.h
               /\ r.f.ptr = f.ptr \/ r.f.ptr \notin DOMAIN h
<1> DEFINE p == IF f.ptr = Empty THEN New(h) ELSE f.ptr
           k == IF f.ptr = Empty THEN Stored(h, p, 0) ELSE h
           r == MutableString(f, h)
<1>1. r.f = [has |-> TRUE, ptr |-> p] /\ r.h = k
  BY DEF MutableString
<1>2. CASE f.ptr = Empty
  <2>1. p \in Strs \ DOMAIN h /\ k = Stored(h, p, 0)
    BY <1>2, HeapFacts DEF FieldOK, HasNew
  <2>2. p # Empty
    BY <2>1 DEF Strs, Empty
  <2>3. DOMAIN k = DOMAIN h \cup {p} /\ k[p] = 0 /\ \A q \in DOMAIN h : k[q] = h[q]
    BY <2>1 DEF Stored
  <2> HIDE DEF p, k, r
  <2>4. r.f.has = TRUE /\ r.f.ptr = p
    BY <1>1
  <2>5. Content(h, f.ptr) = 0 /\ Content(k, p) = 0
    BY <1>2, <2>2, <2>3 DEF Content
  <2>6. FieldView(r.h, r.f) = Given(Content(h, f.ptr)) /\ Clean(r.h, r.f)
    BY <1>1, <2>2, <2>4, <2>5 DEF FieldView, Given, Clean
  <2>7. StayBut(h, r.h, {}) /\ r.f.ptr \in DOMAIN r.h /\ r.f.ptr \notin DOMAIN h
    BY <1>1, <2>1, <2>3, <2>4 DEF StayBut
  <2> QED
    BY <2>6, <2>7 DEF r
<1>3. CASE f.ptr # Empty
  <2>1. p = f.ptr /\ k = h /\ p \in DOMAIN h
    BY <1>3 DEF FieldOK
  <2> HIDE DEF p, k, r
  <2>2. r.f.has = TRUE /\ r.f.ptr = f.ptr /\ r.h = h
    BY <1>1, <2>1
  <2>3. FieldView(r.h, r.f) = Given(Content(h, f.ptr)) /\ Clean(r.h, r.f)
    BY <1>3, <2>2 DEF FieldView, Given, Clean
  <2>4. StayBut(h, r.h, {}) /\ r.f.ptr \in DOMAIN r.h
    BY <2>1, <2>2 DEF StayBut
  <2> QED
    BY <2>2, <2>3, <2>4 DEF r
<1> QED
  BY <1>2, <1>3

\* set_...() makes the field read as the value, and changes its string only.
LEMMA SetReads ==
    ASSUME NEW f, NEW h, FieldOK(f, h), HasNew(f, h), Clean(h, f), NEW v \in Nat
    PROVE  LET r == SetString(f, h, v)
           IN  /\ FieldView(r.h, r.f) = Given(v) /\ Clean(r.h, r.f)
               /\ StayBut(h, r.h, {f.ptr})
<1> DEFINE q == MutableString(f, h)
           r == SetString(f, h, v)
<1>1. /\ Clean(q.h, q.f) /\ FieldView(q.h, q.f) = Given(Content(h, f.ptr))
      /\ StayBut(h, q.h, {}) /\ q.f.ptr \in DOMAIN q.h
      /\ q.f.ptr = f.ptr \/ q.f.ptr \notin DOMAIN h
  BY MutableReads
<1>2. r.f = q.f /\ r.h = Stored(q.h, q.f.ptr, v)
  BY DEF SetString
<1>3. q.f.has = TRUE /\ q.f.ptr # Empty
  BY <1>1 DEF FieldView, Given, Clean
<1> HIDE DEF q, r
<1>4. r.h[q.f.ptr] = v /\ q.f.ptr \in DOMAIN r.h
      /\ \A p \in DOMAIN q.h \ {q.f.ptr} : p \in DOMAIN r.h /\ r.h[p] = q.h[p]
  BY <1>2 DEF Stored
<1>5. FieldView(r.h, r.f) = Given(v) /\ Clean(r.h, r.f)
  BY <1>2, <1>3, <1>4 DEF FieldView, Given, Clean, Content
<1>6. StayBut(h, r.h, {f.ptr})
  BY <1>1, <1>4 DEF StayBut
<1> QED
  BY <1>5, <1>6 DEF r

\* clear_...() makes the field read as one that is not set.
LEMMA ClearReads ==
    ASSUME NEW f, NEW h, FieldOK(f, h)
    PROVE  LET r == ClearString(f, h)
           IN  /\ FieldView(r.h, r.f) = Unset /\ Clean(r.h, r.f)
               /\ StayBut(h, r.h, {f.ptr})
<1> DEFINE r == ClearString(f, h)
<1>1. r.f = [f EXCEPT !.has = FALSE] /\ r.h = Emptied(h, {f.ptr})
  BY DEF ClearString
<1>2. f = [has |-> f.has, ptr |-> f.ptr]
  BY DEF FieldOK, StringField
<1> HIDE DEF r
<1>3. r.f.has = FALSE /\ r.f.ptr = f.ptr
  BY <1>1, <1>2
<1>4. Content(r.h, f.ptr) = 0
  BY <1>1 DEF Content, Emptied, FieldOK
<1>5. FieldView(r.h, r.f) = Unset /\ Clean(r.h, r.f)
  BY <1>3, <1>4 DEF FieldView, Unset, Clean
<1>6. StayBut(h, r.h, {f.ptr})
  BY <1>1 DEF StayBut, Emptied
<1> QED
  BY <1>5, <1>6 DEF r

-----------------------------------------------------------------------------
(* Calls on a userinfo.                                                    *)

\* userinfo::Clear makes the userinfo read as a new one.
LEMMA UserClearReads ==
    ASSUME NEW u \in UserType, NEW h, FieldOK(u.username, h), CleanUser(h, u)
    PROVE  LET r == UserClear(u, h)
           IN  /\ ViewOfUser(r.h, r.x) = NoUser /\ CleanUser(r.h, r.x)
               /\ StayBut(h, r.h, {u.username.ptr})
<1> DEFINE r == UserClear(u, h)
           k == IF u.username.has THEN ClearString(u.username, h).h ELSE h
           w == IF u.userid.has \/ u.username.has THEN 0 ELSE u.userid.val
<1>1. /\ r.x.userid = [has |-> FALSE, val |-> w]
      /\ r.x.username = [u.username EXCEPT !.has = FALSE]
      /\ r.x.unknown = <<>> /\ r.h = k
  BY DEF UserClear
<1>2. w = 0
  BY DEF CleanUser, Unset
<1>3. r.x.userid = Unset
  BY <1>1, <1>2 DEF Unset
<1>4. /\ r.x.username = ClearString(u.username, h).f
      /\ r.x.username.has = FALSE /\ r.x.username.ptr = u.username.ptr
  <2>1. u.username = [has |-> u.username.has, ptr |-> u.username.ptr]
    BY DEF FieldOK, StringField
  <2> HIDE DEF r
  <2> QED
    BY <1>1, <2>1 DEF ClearString
<1>5. FieldView(k, r.x.username) = Unset /\ Clean(k, r.x.username)
      /\ StayBut(h, k, {u.username.ptr})
  <2> HIDE DEF r
  <2>1. CASE u.username.has
    BY <1>4, <2>1, ClearReads
  <2>2. CASE ~u.username.has
    <3>1. k = h /\ Content(h, u.username.ptr) = 0
      BY <2>2 DEF CleanUser, Clean
    <3> HIDE DEF k
    <3> QED
      BY <1>4, <3>1 DEF FieldView, Unset, Clean, StayBut
  <2> QED
    BY <2>1, <2>2
<1> HIDE DEF r, k, w
<1>6. ViewOfUser(r.h, r.x) = NoUser /\ CleanUser(r.h, r.x)
  BY <1>1, <1>3, <1>5 DEF ViewOfUser, NoUser, CleanUser
<1> QED
  BY <1>1, <1>5, <1>6 DEF r

\* What userinfo u reads as after v is merged into it and its string p reads
\* as that of v.
LEMMA UserMergedReads ==
    ASSUME NEW u, NEW v, NEW h, NEW k, NEW p,
           CleanUser(h, u), CleanUser(h, v),
           u \in UserType, v \in UserType,
           v.username.has => p # Empty /\ Content(k, p) = Content(h, v.username.ptr),
           ~v.username.has => Same(h, k, u.username.ptr)
    PROVE  LET x == UserMerged(u, v, p)
           IN  /\ ViewOfUser(k, x) = MergeUser(ViewOfUser(h, u), ViewOfUser(h, v))
               /\ CleanUser(k, x)
<1> DEFINE x == UserMerged(u, v, p)
<1>1. /\ x.userid = MergeField(u.userid, v.userid)
      /\ x.username = IF v.username.has THEN [has |-> TRUE, ptr |-> p] ELSE u.username
      /\ x.unknown = u.unknown \o v.unknown
  BY DEF UserMerged
<1> HIDE DEF x
<1>2. v.username.has \in BOOLEAN
  BY DEF UserType, StringField
<1>3. /\ FieldView(k, x.username) = MergeField(FieldView(h, u.username), FieldView(h, v.username))
      /\ Clean(k, x.username)
  <2>1. FieldView(h, v.username).has = v.username.has
    BY DEF FieldView
  <2>2. CASE v.username.has = TRUE
    <3>1. x.username.has = TRUE /\ x.username.ptr = p /\ p # Empty
          /\ Content(k, p) = Content(h, v.username.ptr)
      BY <1>1, <2>2
    <3> QED
      BY <2>1, <2>2, <3>1 DEF FieldView, MergeField, Clean
  <2>3. CASE v.username.has = FALSE
    <3>1. x.username = u.username /\ Same(h, k, u.username.ptr)
      BY <1>1, <2>3
    <3>2. FieldView(k, u.username) = FieldView(h, u.username) /\ Clean(k, u.username)
      BY <3>1, SameField DEF CleanUser
    <3> QED
      BY <2>1, <2>3, <3>1, <3>2 DEF MergeField
  <2> QED
    BY <1>2, <2>2, <2>3
<1>4. x.userid.has \/ x.userid = Unset
  BY <1>1 DEF MergeField, CleanUser
<1>5. ViewOfUser(k, x) = MergeUser(ViewOfUser(h, u), ViewOfUser(h, v))
  BY <1>1, <1>3 DEF ViewOfUser, MergeUser
<1> QED
  BY <1>3, <1>4, <1>5 DEF CleanUser, x

\* userinfo::MergeFrom merges what the two read as.
LEMMA UserMergeFromReads ==
    ASSUME NEW u \in UserType, NEW h, NEW v \in UserType,
           FieldOK(u.username, h), FieldOK(v.username, h),
           v.username.has => HasNew(u.username, h), CleanUser(h, u), CleanUser(h, v)
    PROVE  LET r == UserMergeFrom(u, h, v)
           IN  /\ ViewOfUser(r.h, r.x) = MergeUser(ViewOfUser(h, u), ViewOfUser(h, v))
               /\ CleanUser(r.h, r.x)
               /\ StayBut(h, r.h, {u.username.ptr})
<1> DEFINE c == Content(h, v.username.ptr)
           q == IF v.username.has THEN SetString(u.username, h, c)
                ELSE [f |-> u.username, h |-> h]
           r == UserMergeFrom(u, h, v)
<1>1. r.x = UserMerged(u, v, q.f.ptr) /\ r.h = q.h
  BY DEF UserMergeFrom
<1>2. c \in Nat
  BY HeapFacts DEF FieldOK
<1>3. /\ v.username.has => q.f.ptr # Empty /\ Content(q.h, q.f.ptr) = c
      /\ ~v.username.has => q.h = h
      /\ StayBut(h, q.h, {u.username.ptr})
  <2>1. CASE v.username.has
    <3>1. q = SetString(u.username, h, c)
      BY <2>1
    <3>2. Clean(h, u.username)
      BY DEF CleanUser
    <3> HIDE DEF q, c
    <3>3. FieldView(q.h, q.f) = Given(c) /\ Clean(q.h, q.f) /\ StayBut(h, q.h, {u.username.ptr})
      BY <1>2, <2>1, <3>1, <3>2, SetReads
    <3> QED
      BY <2>1, <3>3 DEF FieldView, Given, Clean
  <2>2. CASE ~v.username.has
    <3>1. q.h = h
      BY <2>2
    <3> HIDE DEF q
    <3> QED
      BY <2>2, <3>1 DEF StayBut
  <2> QED
    BY <2>1, <2>2
<1> HIDE DEF q, r
<1>4. ~v.username.has => Same(h, q.h, u.username.ptr)
  BY <1>3 DEF Same
<1>5. /\ ViewOfUser(q.h, r.x) = MergeUser(ViewOfUser(h, u), ViewOfUser(h, v))
      /\ CleanUser(q.h, r.x)
  <2>1. v.username.has => q.f.ptr # Empty /\ Content(q.h, q.f.ptr) = Content(h, v.username.ptr)
    BY <1>3
  <2>2. /\ ViewOfUser(q.h, UserMerged(u, v, q.f.ptr))
             = MergeUser(ViewOfUser(h, u), ViewOfUser(h, v))
        /\ CleanUser(q.h, UserMerged(u, v, q.f.ptr))
    BY <1>4, <2>1, UserMergedReads
  <2> QED
    BY <1>1, <2>2
<1> QED
  BY <1>1, <1>3, <1>5 DEF r

-----------------------------------------------------------------------------
(* Calls on a message.                                                     *)

\* No two slots of a message point to one string.
Distinct(f) ==
    \A i, j \in SlotsOf(f) : Ptr(f, i) # Empty /\ Ptr(f, i) = Ptr(f, j) => i = j

StringsOf(f) == {Ptr(f, i) : i \in SlotsOf(f)}

\* A message as ReadableFields has it, with what its calls keep.
Sound(f, h) == Readable(f, h) /\ Distinct(f) /\ CleanFocus(h, f)

ViewsOf(h, f) == [i \in 1 .. f.n |-> ViewOfUser(h, f.ui[i])]

Listed(s, n) == s = [i \in 1 .. n |-> s[i]]

\* A list by its elements, with one more, and two lists after one another.
LEMMA AppendList ==
    ASSUME NEW n \in Nat, NEW s, NEW x, NEW t, Listed(s, n), Listed(t, n + 1),
           \A i \in 1 .. n : t[i] = s[i], t[n + 1] = x
    PROVE  Append(s, x) = t
<1> DEFINE S == {s[i] : i \in 1 .. n} \cup {x}
<1>1. IsList(s, n, S)
  <2>1. \A i \in 1 .. n : s[i] \in S
    OBVIOUS
  <2> HIDE DEF S
  <2> QED
    BY <2>1 DEF IsList, Listed
<1>2. IsList(t, n + 1, S)
  <2>1. ASSUME NEW i \in 1 .. n + 1 PROVE t[i] \in S
    <3>1. i \in 1 .. n \/ i = n + 1
      OBVIOUS
    <3> QED
      BY <3>1
  <2> HIDE DEF S
  <2> QED
    BY <2>1 DEF IsList, Listed
<1>3. x \in S /\ n + 1 \in Nat
  OBVIOUS
<1> HIDE DEF S
<1>4. s \in Seq(S) /\ Len(s) = n /\ t \in Seq(S) /\ Len(t) = n + 1
  BY <1>1, <1>2, <1>3, ListOf
<1>5. /\ Append(s, x) \in Seq(S) /\ Len(Append(s, x)) = n + 1
      /\ \A i \in 1 .. n : Append(s, x)[i] = s[i]
      /\ Append(s, x)[n + 1] = x
  BY <1>3, <1>4, AppendProperties
<1>6. ASSUME NEW i \in 1 .. n + 1 PROVE Append(s, x)[i] = t[i]
  <2>1. i \in 1 .. n \/ i = n + 1
    OBVIOUS
  <2> QED
    BY <1>5, <2>1
<1> QED
  BY <1>4, <1>5, <1>6, SeqEqual

\* s is n long and t is m long: r is one after the other.
LEMMA ConcatList ==
    ASSUME NEW n \in Nat, NEW m \in Nat, NEW s, NEW t, NEW r,
           Listed(s, n), Listed(t, m), Listed(r, n + m),
           \A i \in 1 .. n : r[i] = s[i],
           \A i \in 1 .. m : r[n + i] = t[i]
    PROVE  s \o t = r
<1> DEFINE S == {s[i] : i \in 1 .. n} \cup {t[i] : i \in 1 .. m}
<1>1. IsList(s, n, S) /\ IsList(t, m, S)
  <2>1. (\A i \in 1 .. n : s[i] \in S) /\ (\A i \in 1 .. m : t[i] \in S)
    OBVIOUS
  <2> HIDE DEF S
  <2> QED
    BY <2>1 DEF IsList, Listed
<1>2. ASSUME NEW i \in 1 .. n + m
      PROVE  r[i] = IF i <= n THEN s[i] ELSE t[i - n]
  <2>1. CASE i <= n
    <3>1. i \in 1 .. n
      BY <2>1
    <3> QED
      BY <2>1, <3>1
  <2>2. CASE i > n
    <3>1. i - n \in 1 .. m /\ n + (i - n) = i /\ ~(i <= n)
      BY <2>2
    <3> QED
      BY <3>1
  <2> QED
    BY <2>1, <2>2
<1>3. IsList(r, n + m, S)
  <2>1. ASSUME NEW i \in 1 .. n + m PROVE r[i] \in S
    <3>1. CASE i <= n
      <4>1. i \in 1 .. n
        BY <3>1
      <4> QED
        BY <1>2, <3>1, <4>1
    <3>2. CASE ~(i <= n)
      <4>1. i - n \in 1 .. m
        BY <3>2
      <4> QED
        BY <1>2, <3>2, <4>1
    <3> QED
      BY <3>1, <3>2
  <2> HIDE DEF S
  <2> QED
    BY <2>1 DEF IsList, Listed
<1>4. n + m \in Nat
  OBVIOUS
<1> HIDE DEF S
<1>5. /\ s \in Seq(S) /\ Len(s) = n /\ t \in Seq(S) /\ Len(t) = m
      /\ r \in Seq(S) /\ Len(r) = n + m
  BY <1>1, <1>3, <1>4, ListOf
<1>6. /\ s \o t \in Seq(S) /\ Len(s \o t) = n + m
      /\ \A i \in 1 .. n + m : (s \o t)[i] = IF i <= n THEN s[i] ELSE t[i - n]
  BY <1>5, ConcatProperties
<1>7. \A i \in 1 .. n + m : (s \o t)[i] = r[i]
  BY <1>2, <1>6
<1> QED
  BY <1>5, <1>6, <1>7, SeqEqual

\* The usernames of a message read the same in both heaps.
LEMMA ElementsSame ==
    ASSUME NEW f, NEW h, NEW k, FocusOK(f), CleanFocus(h, f),
           \A i \in 1 .. Len(f.ui) : Same(h, k, f.ui[i].username.ptr)
    PROVE  /\ \A i \in 1 .. Len(f.ui) :
                /\ ViewOfUser(k, f.ui[i]) = ViewOfUser(h, f.ui[i])
                /\ CleanUser(k, f.ui[i])
                /\ i > f.n => ViewOfUser(k, f.ui[i]) = NoUser
           /\ ViewsOf(k, f) = ViewsOf(h, f)
<1>1. ASSUME NEW i \in 1 .. Len(f.ui)
      PROVE  /\ ViewOfUser(k, f.ui[i]) = ViewOfUser(h, f.ui[i])
             /\ CleanUser(k, f.ui[i])
  <2>1. /\ FieldView(k, f.ui[i].username) = FieldView(h, f.ui[i].username)
        /\ Clean(h, f.ui[i].username) => Clean(k, f.ui[i].username)
    BY SameField
  <2> QED
    BY <2>1 DEF ViewOfUser, CleanFocus, CleanUser
<1>2. \A i \in 1 .. f.n : i \in 1 .. Len(f.ui)
  BY FocusFacts
<1> QED
  BY <1>1, <1>2 DEF CleanFocus, ViewsOf

\* Slot 0 is the msgtype, slot i the i-th element.
LEMMA SlotOfElement ==
    ASSUME NEW f, FocusOK(f)
    PROVE  /\ 0 \in SlotsOf(f) /\ Ptr(f, 0) = f.msgtype.ptr
           /\ \A i \in 1 .. Len(f.ui) :
                i \in SlotsOf(f) /\ i # 0 /\ Ptr(f, i) = f.ui[i].username.ptr
           /\ \A i \in SlotsOf(f) : i = 0 \/ i \in 1 .. Len(f.ui)
<1>1. Len(f.ui) \in Nat
  BY FocusFacts
<1> QED
  BY <1>1 DEF SlotsOf, Ptr

\* Clearing the elements leaves them reading as new ones.
LEMMA ClearElementsReads ==
    ASSUME NEW f, NEW h, Sound(f, h)
    PROVE  LET r == ClearElements(f, h)
           IN  /\ ViewOf(r.h, r.x) = [msgtype |-> FieldView(h, f.msgtype), ui |-> <<>>,
                                       unknown |-> f.unknown]
               /\ CleanFocus(r.h, r.x) /\ StayBut(h, r.h, StringsOf(f))
               /\ r.x.msgtype = f.msgtype
<1> DEFINE s == [i \in DOMAIN f.ui |->
                    IF i <= f.n THEN UserClear(f.ui[i], h).x ELSE f.ui[i]]
           S == {f.ui[i].username.ptr : i \in {j \in 1 .. f.n : f.ui[j].username.has}}
           r == ClearElements(f, h)
<1>1. r.x = WithElements(f, s, 0) /\ r.h = Emptied(h, S)
  <2>1. f = [msgtype |-> f.msgtype, ui |-> f.ui, n |-> f.n, unknown |-> f.unknown]
    BY FocusFacts DEF Sound, Readable
  <2>2. r.x = [f EXCEPT !.n = 0, !.ui = s] /\ r.h = Emptied(h, S)
    BY DEF ClearElements
  <2> HIDE DEF s, S, r
  <2> QED
    BY <2>1, <2>2 DEF WithElements
<1>2. /\ Len(f.ui) \in Nat /\ DOMAIN f.ui = 1 .. Len(f.ui) /\ FocusOK(f) /\ f.n \in Nat
      /\ f.n <= Len(f.ui)
      /\ \A i \in 1 .. Len(f.ui) : f.ui[i] \in UserType /\ FieldOK(f.ui[i].username, h)
  BY FocusFacts, ReadableFields DEF Sound, Readable
<1>3. SlotsStay(f, h, r.x, r.h) /\ Len(r.x.ui) = Len(f.ui)
  BY ClearElementsStay DEF Sound
<1>4. \A p : Content(h, p) = 0 => Content(r.h, p) = 0 \/ (p # Empty /\ p \notin DOMAIN h)
  BY <1>1 DEF Content, Emptied
<1>5. ASSUME NEW i \in 1 .. Len(f.ui)
      PROVE  ViewOfUser(r.h, s[i]) = NoUser /\ CleanUser(r.h, s[i])
  <2> DEFINE u == f.ui[i]
             p == u.username.ptr
             c == UserClear(u, h)
  <2>1. CleanUser(h, u) /\ (i > f.n => ViewOfUser(h, u) = NoUser)
    BY DEF Sound, CleanFocus
  <2>2. u \in UserType /\ FieldOK(u.username, h)
    BY <1>2
  <2>3. p # Empty => p \in DOMAIN h
    BY <2>2 DEF FieldOK
  <2>4. CASE i <= f.n
    <3>1. /\ ViewOfUser(c.h, c.x) = NoUser /\ CleanUser(c.h, c.x)
          /\ c.x.username = [u.username EXCEPT !.has = FALSE]
      <4>1. c.x.username = [u.username EXCEPT !.has = FALSE]
        BY DEF UserClear
      <4> HIDE DEF u, c
      <4> QED
        BY <2>1, <2>2, <4>1, UserClearReads DEF c
    <3>2. u.username = [has |-> u.username.has, ptr |-> p]
      BY <2>2 DEF FieldOK, StringField
    <3>3. s[i] = c.x
      BY <1>2, <2>4
    <3>4. Content(r.h, p) = 0
      <4>1. CASE u.username.has
        <5>1. p \in S
          BY <2>4, <4>1
        <5> HIDE DEF S, p, r
        <5> QED
          BY <1>1, <2>3, <5>1 DEF Content, Emptied
      <4>2. CASE ~u.username.has
        <5>1. Content(h, p) = 0
          BY <2>1, <4>2 DEF CleanUser, Clean
        <5> HIDE DEF p, r
        <5> QED
          BY <1>4, <2>3, <5>1
      <4> QED
        BY <4>1, <4>2
    <3> HIDE DEF u, c, s, r, p, S
    <3>5. c.x.username.has = FALSE /\ c.x.username.ptr = p
      BY <3>1, <3>2
    <3>6. FieldView(r.h, c.x.username) = Unset /\ Clean(r.h, c.x.username)
      BY <3>4, <3>5 DEF FieldView, Unset, Clean
    <3>7. c.x.userid = Unset /\ c.x.unknown = <<>>
      BY <3>1 DEF ViewOfUser, NoUser
    <3> QED
      BY <3>3, <3>6, <3>7 DEF ViewOfUser, NoUser, CleanUser
  <2>5. CASE ~(i <= f.n)
    <3>1. s[i] = u /\ i > f.n
      BY <1>2, <2>5
    <3> HIDE DEF u, c, s, r, S
    <3>2. u.username.has = FALSE /\ Content(h, p) = 0 /\ u.userid = Unset /\ u.unknown = <<>>
      BY <2>1, <3>1 DEF ViewOfUser, NoUser, FieldView, Unset
    <3>3. Content(r.h, p) = 0
      BY <1>4, <2>3, <3>2
    <3>4. FieldView(r.h, u.username) = Unset /\ Clean(r.h, u.username)
      BY <3>2, <3>3 DEF FieldView, Unset, Clean
    <3> QED
      BY <3>1, <3>2, <3>4 DEF ViewOfUser, NoUser, CleanUser
  <2> QED
    BY <2>4, <2>5
<1>6. S \subseteq StringsOf(f) /\ (f.msgtype.ptr # Empty => f.msgtype.ptr \notin S)
  <2>1. ASSUME NEW i \in 1 .. f.n
        PROVE  i \in SlotsOf(f) /\ i # 0 /\ Ptr(f, i) = f.ui[i].username.ptr
    BY <1>2, SlotOfElement
  <2>2. 0 \in SlotsOf(f) /\ Ptr(f, 0) = f.msgtype.ptr /\ Distinct(f)
    BY <1>2, SlotOfElement DEF Sound
  <2> QED
    BY <2>1, <2>2 DEF StringsOf, Distinct
<1> HIDE DEF s, S
<1>7. StayBut(h, r.h, StringsOf(f))
  BY <1>1, <1>6 DEF StayBut, Emptied
<1>8. Same(h, r.h, f.msgtype.ptr)
  <2>1. f.msgtype.ptr # Empty => f.msgtype.ptr \in DOMAIN h
    BY ReadableFields DEF Sound, FieldOK
  <2> QED
    BY <1>1, <1>6, <2>1 DEF Same, Content, Emptied
<1>9. /\ r.x.msgtype = f.msgtype /\ r.x.ui = s /\ r.x.n = 0 /\ r.x.unknown = f.unknown
  BY <1>1 DEF WithElements
<1> HIDE DEF r
<1>10. FieldView(r.h, f.msgtype) = FieldView(h, f.msgtype) /\ Clean(r.h, f.msgtype)
  BY <1>8, SameField DEF Sound, CleanFocus
<1>11. CleanFocus(r.h, r.x)
  BY <1>3, <1>5, <1>9, <1>10 DEF CleanFocus
<1>12. ViewOf(r.h, r.x) = [msgtype |-> FieldView(h, f.msgtype), ui |-> <<>>,
                           unknown |-> f.unknown]
  <2>1. [i \in 1 .. r.x.n |-> ViewOfUser(r.h, r.x.ui[i])] = <<>>
    <3>1. 1 .. r.x.n = {}
      BY <1>9
    <3> QED
      BY <3>1
  <2> QED
    BY <1>9, <1>10, <2>1 DEF ViewOf
<1> QED
  BY <1>7, <1>9, <1>11, <1>12 DEF r

\* focustm::Clear makes the message read as a new one.
LEMMA FocusClearReads ==
    ASSUME NEW f, NEW h, Sound(f, h)
    PROVE  LET c == FocusClear(f, h)
           IN  /\ ViewOf(c.h, c.x) = NoFocus
               /\ CleanFocus(c.h, c.x) /\ StayBut(h, c.h, StringsOf(f))
<1> DEFINE r == ClearElements(f, h)
           c == FocusClear(f, h)
           s == [f.msgtype EXCEPT !.has = FALSE]
<1>1. SlotsStay(f, h, r.x, r.h)
  BY ClearElementsStay DEF Sound
<1>2. /\ CleanFocus(r.h, r.x) /\ StayBut(h, r.h, StringsOf(f)) /\ r.x.msgtype = f.msgtype
      /\ ViewOf(r.h, r.x) = [msgtype |-> FieldView(h, f.msgtype), ui |-> <<>>,
                             unknown |-> f.unknown]
  BY ClearElementsReads
<1>3. /\ c.x = [r.x EXCEPT !.msgtype = s, !.unknown = <<>>]
      /\ c.h = IF f.msgtype.has THEN Emptied(r.h, {f.msgtype.ptr}) ELSE r.h
      /\ s = [f.msgtype EXCEPT !.has = FALSE]
  BY DEF FocusClear, ClearString
<1> HIDE DEF r, c, s
<1>4. /\ FocusOK(r.x) /\ HeapOK(r.h) /\ DOMAIN r.h = DOMAIN h
      /\ f.msgtype = [has |-> f.msgtype.has, ptr |-> f.msgtype.ptr]
      /\ FieldOK(f.msgtype, h)
  BY <1>1, ReadableFields DEF SlotsStay, Sound, FieldOK, StringField
<1>5. s.has = FALSE /\ s.ptr = f.msgtype.ptr
  BY <1>3, <1>4
<1>6. c.x = WithMsgtype(r.x, s, <<>>)
  <2>1. r.x = [msgtype |-> r.x.msgtype, ui |-> r.x.ui, n |-> r.x.n, unknown |-> r.x.unknown]
    BY <1>4, FocusFacts
  <2> QED
    BY <1>3, <2>1 DEF WithMsgtype
<1>7. c.x.msgtype = s /\ c.x.ui = r.x.ui /\ c.x.n = r.x.n /\ c.x.unknown = <<>>
  BY <1>6 DEF WithMsgtype
<1>8. Content(c.h, f.msgtype.ptr) = 0
  <2>1. CASE f.msgtype.has
    BY <1>3, <1>4, <2>1 DEF Content, Emptied, FieldOK
  <2>2. CASE ~f.msgtype.has
    BY <1>2, <1>3, <2>2 DEF CleanFocus, Clean
  <2> QED
    BY <2>1, <2>2
<1>9. FieldView(c.h, s) = Unset /\ Clean(c.h, s)
  BY <1>5, <1>8 DEF FieldView, Unset, Clean
<1>10. ASSUME NEW i \in 1 .. Len(r.x.ui)
       PROVE  Same(r.h, c.h, r.x.ui[i].username.ptr)
  <2>1. /\ i \in SlotsOf(f) /\ i # 0 /\ Ptr(r.x, i) = r.x.ui[i].username.ptr
        /\ Ptr(r.x, i) = Ptr(f, i)
    <3>1. i \in SlotsOf(r.x) /\ i # 0 /\ Ptr(r.x, i) = r.x.ui[i].username.ptr
      BY <1>4, SlotOfElement
    <3>2. i \in SlotsOf(f)
      <4>1. Len(r.x.ui) = Len(f.ui)
        BY ClearElementsStay DEF Sound, r
      <4> QED
        BY <3>1, <4>1 DEF SlotsOf
    <3> QED
      BY <1>1, <3>1, <3>2 DEF SlotsStay
  <2>2. 0 \in SlotsOf(f) /\ Ptr(f, 0) = f.msgtype.ptr
    BY SlotOfElement DEF Sound, Readable
  <2>3. Ptr(f, i) # Empty => Ptr(f, i) # f.msgtype.ptr /\ Ptr(f, i) \in DOMAIN r.h
    BY <1>4, <2>1, <2>2 DEF Sound, Distinct, Readable
  <2> QED
    BY <1>3, <2>1, <2>3 DEF Same, Content, Emptied
<1>11. /\ \A i \in 1 .. Len(r.x.ui) :
            /\ CleanUser(c.h, r.x.ui[i])
            /\ i > r.x.n => ViewOfUser(c.h, r.x.ui[i]) = NoUser
       /\ ViewsOf(c.h, r.x) = ViewsOf(r.h, r.x)
  BY <1>2, <1>4, <1>10, ElementsSame
<1>12. CleanFocus(c.h, c.x)
  BY <1>7, <1>9, <1>11 DEF CleanFocus
<1>13. ViewOf(c.h, c.x) = NoFocus
  <2>1. ViewOf(r.h, r.x).ui = <<>>
    BY <1>2
  <2>2. ViewsOf(r.h, r.x) = <<>>
    BY <2>1 DEF ViewsOf, ViewOf
  <2>3. ViewsOf(c.h, c.x) = <<>>
    BY <1>7, <1>11, <2>2 DEF ViewsOf
  <2> QED
    BY <1>7, <1>9, <2>3 DEF ViewOf, ViewsOf, NoFocus
<1>14. StayBut(h, c.h, StringsOf(f))
  <2>1. f.msgtype.ptr \in StringsOf(f)
    <3>1. 0 \in SlotsOf(f) /\ Ptr(f, 0) = f.msgtype.ptr
      BY SlotOfElement DEF Sound, Readable
    <3> QED
      BY <3>1 DEF StringsOf
  <2> QED
    BY <1>2, <1>3, <2>1 DEF StayBut, Emptied
<1> QED
  BY <1>12, <1>13, <1>14 DEF c

\* The elements that RepeatedPtrField::Add takes or makes read as new ones.
LEMMA AddElementsReads ==
    ASSUME NEW f, NEW h, NEW k \in Nat, Sound(f, h)
    PROVE  LET a == AddElements(f, k)
           IN  /\ Readable(a, h) /\ Distinct(a)
               /\ \A i \in 1 .. Len(a.ui) :
                    /\ CleanUser(h, a.ui[i])
                    /\ i > f.n => ViewOfUser(h, a.ui[i]) = NoUser
               /\ \A i \in 1 .. f.n : a.ui[i] = f.ui[i]
<1> DEFINE s == [i \in DOMAIN f.ui \cup 1 .. f.n + k |->
                    IF i \in DOMAIN f.ui THEN f.ui[i] ELSE NewUser]
           a == AddElements(f, k)
<1>1. a.ui = s
  <2>1. f = [msgtype |-> f.msgtype, ui |-> f.ui, n |-> f.n, unknown |-> f.unknown]
    BY FocusFacts DEF Sound, Readable
  <2>2. a = [f EXCEPT !.n = f.n + k, !.ui = s]
    BY DEF AddElements
  <2> HIDE DEF s, a
  <2> QED
    BY <2>1, <2>2
<1>2. /\ Len(f.ui) \in Nat /\ f.n \in Nat /\ DOMAIN f.ui = 1 .. Len(f.ui) /\ FocusOK(f)
      /\ f.n <= Len(f.ui) /\ HeapOK(h)
  BY FocusFacts DEF Sound, Readable
<1>3. SlotsStay(f, h, a, h)
  BY AddElementsStay DEF Sound
<1>4. Readable(a, h)
  BY <1>3, KeepsReadable DEF Sound
<1>5. Distinct(a)
  BY <1>3 DEF SlotsStay, Sound, Distinct
<1>6. Len(a.ui) \in Nat /\ DOMAIN a.ui = 1 .. Len(a.ui)
  BY <1>4, FocusFacts DEF Readable
<1>7. ASSUME NEW i \in 1 .. Len(a.ui)
      PROVE  a.ui[i] = IF i \in 1 .. Len(f.ui) THEN f.ui[i] ELSE NewUser
  BY <1>1, <1>2, <1>6
<1> HIDE DEF a, s
<1>8. CleanUser(h, NewUser) /\ ViewOfUser(h, NewUser) = NoUser
  BY DEF NewUser, NoString, CleanUser, Clean, Content, Empty, ViewOfUser, FieldView,
         NoUser, Unset
<1>9. ASSUME NEW i \in 1 .. Len(a.ui)
      PROVE  /\ CleanUser(h, a.ui[i])
             /\ i > f.n => ViewOfUser(h, a.ui[i]) = NoUser
  BY <1>7, <1>8 DEF Sound, CleanFocus
<1>10. ASSUME NEW i \in 1 .. f.n PROVE a.ui[i] = f.ui[i]
  <2>1. i \in 1 .. Len(f.ui) /\ i \in 1 .. Len(a.ui)
    BY <1>2, <1>3, <1>6 DEF SlotsStay
  <2> QED
    BY <1>7, <2>1
<1> QED
  BY <1>4, <1>5, <1>9, <1>10 DEF a

\* add_ui() appends one that reads as new, even when it is used again.
LEMMA AddOneReads ==
    ASSUME NEW f, NEW h, Sound(f, h)
    PROVE  LET a == AddElements(f, 1)
           IN  /\ ViewOf(h, a) = [msgtype |-> FieldView(h, f.msgtype),
                                  ui |-> Append(ViewsOf(h, f), NoUser),
                                  unknown |-> f.unknown]
               /\ CleanFocus(h, a)
<1> DEFINE a == AddElements(f, 1)
<1>1. /\ \A i \in 1 .. Len(a.ui) :
            /\ CleanUser(h, a.ui[i])
            /\ i > f.n => ViewOfUser(h, a.ui[i]) = NoUser
      /\ \A i \in 1 .. f.n : a.ui[i] = f.ui[i]
  <2>1. 1 \in Nat
    OBVIOUS
  <2>2. \A i \in 1 .. f.n : a.ui[i] = f.ui[i]
    BY <2>1, AddElementsReads
  <2>3. \A i \in 1 .. Len(a.ui) :
            /\ CleanUser(h, a.ui[i])
            /\ i > f.n => ViewOfUser(h, a.ui[i]) = NoUser
    BY <2>1, AddElementsReads
  <2> QED
    BY <2>2, <2>3
<1>2. a.n = f.n + 1 /\ a.msgtype = f.msgtype /\ a.unknown = f.unknown /\ f.n + 1 <= Len(a.ui)
  BY AddElementsStay DEF Sound
<1>3. FocusOK(a) /\ f.n \in Nat /\ Len(a.ui) \in Nat
  <2>1. FocusOK(a)
    BY AddElementsStay DEF Sound, SlotsStay
  <2> QED
    BY <2>1, FocusFacts DEF Sound, Readable
<1> HIDE DEF a
<1>4. Append(ViewsOf(h, f), NoUser) = ViewsOf(h, a)
  <2> DEFINE n == f.n
             s == ViewsOf(h, f)
             t == ViewsOf(h, a)
  <2>1. n \in Nat /\ Listed(s, n) /\ Listed(t, n + 1)
    BY <1>2, <1>3 DEF ViewsOf, Listed
  <2>2. \A i \in 1 .. n : t[i] = s[i]
    BY <1>1, <1>2, <1>3 DEF ViewsOf
  <2>3. t[n + 1] = NoUser
    <3>1. n + 1 \in 1 .. Len(a.ui) /\ n + 1 > f.n /\ n + 1 \in 1 .. a.n
      BY <1>2, <1>3
    <3> QED
      BY <1>1, <3>1 DEF ViewsOf
  <2> HIDE DEF n, s, t
  <2>4. Append(s, NoUser) = t
    BY <2>1, <2>2, <2>3, AppendList
  <2> QED
    BY <2>4 DEF s, t
<1>5. ViewOf(h, a) = [msgtype |-> FieldView(h, f.msgtype), ui |-> ViewsOf(h, a),
                      unknown |-> f.unknown]
  BY <1>2 DEF ViewOf, ViewsOf
<1>6. CleanFocus(h, a)
  <2>1. \A i \in 1 .. Len(a.ui) : i > a.n => i > f.n
    BY <1>2, <1>3
  <2> QED
    BY <1>1, <1>2, <2>1 DEF CleanFocus, Sound
<1> QED
  BY <1>4, <1>5, <1>6 DEF a

\* Merging into an element that was added makes it read as what is merged.
LEMMA MergeNoUser ==
    ASSUME NEW v \in UserType, NEW h, CleanUser(h, v)
    PROVE  MergeUser(NoUser, ViewOfUser(h, v)) = ViewOfUser(h, v)
<1>1. MergeField(Unset, v.userid) = v.userid
  BY DEF MergeField, CleanUser
<1>2. MergeField(Unset, FieldView(h, v.username)) = FieldView(h, v.username)
  <2>1. v.username.has \in BOOLEAN
    BY DEF UserType, StringField
  <2>2. CASE v.username.has
    BY <2>2 DEF MergeField, FieldView
  <2>3. CASE ~v.username.has
    BY <2>1, <2>3, CleanView DEF MergeField, CleanUser, FieldView
  <2> QED
    BY <2>2, <2>3
<1>3. <<>> \o v.unknown = v.unknown
  <2>1. v.unknown \in Seq(Unknowns)
    BY DEF UserType
  <2> QED
    BY <2>1, ConcatEmptySeq
<1> QED
  BY <1>1, <1>2, <1>3 DEF MergeUser, NoUser, ViewOfUser

\* Merging into an empty message makes it read as what is merged.
LEMMA MergeNoFocus ==
    ASSUME NEW f, NEW h, Sound(f, h)
    PROVE  MergeFocus(NoFocus, ViewOf(h, f)) = ViewOf(h, f)
<1>1. FocusOK(f)
  BY DEF Sound, Readable
<1>2. MergeField(Unset, FieldView(h, f.msgtype)) = FieldView(h, f.msgtype)
  <2>1. f.msgtype.has \in BOOLEAN
    BY <1>1, FocusFacts DEF StringField
  <2>2. CASE f.msgtype.has
    BY <2>2 DEF MergeField, FieldView
  <2>3. CASE ~f.msgtype.has
    BY <2>1, <2>3, CleanView DEF MergeField, Sound, CleanFocus, FieldView
  <2> QED
    BY <2>2, <2>3
<1>3. <<>> \o f.unknown = f.unknown
  BY <1>1, FocusFacts, ConcatEmptySeq
<1>4. <<>> \o ViewsOf(h, f) = ViewsOf(h, f)
  <2> DEFINE S == {ViewsOf(h, f)[i] : i \in 1 .. f.n}
             s == ViewsOf(h, f)
  <2>1. IsList(s, f.n, S)
    BY DEF IsList, ViewsOf
  <2>2. f.n \in Nat
    BY <1>1, FocusFacts
  <2> HIDE DEF S, s
  <2>3. <<>> \o s = s
    BY <2>1, <2>2, ListOf, ConcatEmptySeq
  <2> QED
    BY <2>3 DEF s
<1> QED
  BY <1>2, <1>3, <1>4 DEF MergeFocus, NoFocus, ViewOf, ViewsOf

\* RepeatedPtrField::MergeFrom appends what the elements read as.
LEMMA MergeElementsReads ==
    ASSUME NEW f, NEW h, NEW from, Sound(f, h), Sound(from, h),
           Cardinality(WithUsername(from)) <= Cardinality(Strs \ DOMAIN h)
    PROVE  LET r == MergeElements(f, h, from)
           IN  /\ ViewOf(r.h, r.x) = [msgtype |-> FieldView(h, f.msgtype),
                                      ui |-> ViewsOf(h, f) \o ViewsOf(h, from),
                                      unknown |-> f.unknown]
               /\ CleanFocus(r.h, r.x) /\ StayBut(h, r.h, StringsOf(f))
<1> DEFINE a     == AddElements(f, from.n)
           given == {k \in 1 .. from.n : from.ui[k].username.has}
           S     == {k \in given : a.ui[f.n + k].username.ptr = Empty}
           new   == NewStrings(h, S)
           ptr   == [k \in 1 .. from.n |->
                       IF k \in DOMAIN new THEN new[k] ELSE a.ui[f.n + k].username.ptr]
           t     == [i \in DOMAIN a.ui |->
                       IF i \in f.n + 1 .. a.n
                       THEN UserMerged(a.ui[i], from.ui[i - f.n], ptr[i - f.n])
                       ELSE a.ui[i]]
           hh    == [p \in DOMAIN h \cup Range(new) |->
                       LET ks == {k \in given : ptr[k] = p}
                       IN  IF ks = {} THEN h[p]
                           ELSE Content(h, from.ui[CHOOSE k \in ks : TRUE].username.ptr)]
           r     == MergeElements(f, h, from)
<1>1. r.x = [a EXCEPT !.ui = t] /\ r.h = hh
  BY DEF MergeElements
<1>2. /\ f.n \in Nat /\ Len(f.ui) \in Nat /\ from.n \in Nat /\ Len(from.ui) \in Nat
      /\ from.n <= Len(from.ui) /\ f.n <= Len(f.ui) /\ HeapOK(h) /\ FocusOK(f)
      /\ FocusOK(from) /\ Readable(f, h) /\ Readable(from, h)
      /\ \A k \in 1 .. from.n :
            /\ from.ui[k] \in UserType /\ FieldOK(from.ui[k].username, h)
            /\ CleanUser(h, from.ui[k])
  <2>1. Readable(f, h) /\ Readable(from, h) /\ CleanFocus(h, from)
    BY DEF Sound
  <2>2. FocusOK(f) /\ FocusOK(from) /\ HeapOK(h)
    BY <2>1 DEF Readable
  <2>3. /\ f.n \in Nat /\ Len(f.ui) \in Nat /\ f.n <= Len(f.ui)
        /\ from.n \in Nat /\ Len(from.ui) \in Nat /\ from.n <= Len(from.ui)
    BY <2>2, FocusFacts
  <2>4. ASSUME NEW k \in 1 .. from.n
        PROVE  /\ from.ui[k] \in UserType /\ FieldOK(from.ui[k].username, h)
               /\ CleanUser(h, from.ui[k])
    <3>1. k \in 1 .. Len(from.ui)
      BY <2>3
    <3>2. from.ui[k] \in UserType
      BY <2>2, <3>1, FocusFacts
    <3>3. FieldOK(from.ui[k].username, h)
      BY <2>1, <3>1, ReadableFields
    <3>4. CleanUser(h, from.ui[k])
      BY <2>1, <3>1 DEF CleanFocus
    <3> QED
      BY <3>2, <3>3, <3>4
  <2> QED
    BY <2>1, <2>2, <2>3, <2>4
<1>3. /\ SlotsStay(f, h, a, h) /\ a.n = f.n + from.n /\ f.n + from.n <= Len(a.ui)
      /\ a.msgtype = f.msgtype /\ a.unknown = f.unknown
  BY <1>2, AddElementsStay
<1>4. /\ Readable(a, h) /\ Distinct(a)
      /\ \A i \in 1 .. Len(a.ui) :
            /\ CleanUser(h, a.ui[i])
            /\ i > f.n => ViewOfUser(h, a.ui[i]) = NoUser
      /\ \A i \in 1 .. f.n : a.ui[i] = f.ui[i]
  BY <1>2, AddElementsReads
<1> HIDE DEF a
<1>5. /\ FocusOK(a) /\ Len(a.ui) \in Nat /\ DOMAIN a.ui = 1 .. Len(a.ui)
      /\ a = [msgtype |-> a.msgtype, ui |-> a.ui, n |-> a.n, unknown |-> a.unknown]
      /\ \A i \in 1 .. Len(a.ui) : a.ui[i] \in UserType
  BY <1>4, FocusFacts DEF Readable
<1>6. new \in Injection(S, Strs \ DOMAIN h)
  <2>1. 1 \in Int /\ from.n \in Int
    BY <1>2
  <2>2. WithUsername(from) \in SUBSET (1 .. from.n) /\ S \in SUBSET WithUsername(from)
    BY DEF WithUsername
  <2> HIDE DEF S
  <2>3. IsFiniteSet(WithUsername(from))
    BY <2>1, <2>2, FS_Interval, FS_Subset
  <2>4. IsFiniteSet(S) /\ Cardinality(S) <= Cardinality(WithUsername(from))
    BY <2>2, <2>3, FS_Subset
  <2>5. /\ Cardinality(S) \in Nat /\ Cardinality(WithUsername(from)) \in Nat
        /\ Cardinality(Strs \ DOMAIN h) \in Nat
    BY <2>3, <2>4, FS_CardinalityType, StrsFinite
  <2>6. Cardinality(S) <= Cardinality(Strs \ DOMAIN h)
    BY <2>4, <2>5
  <2> QED
    BY <2>4, <2>6, NewStringsFacts
<1> HIDE DEF new
<1>7. /\ new \in [S -> Strs \ DOMAIN h] /\ DOMAIN new = S
      /\ \A k, j \in S : new[k] = new[j] => k = j
      /\ Range(new) = {new[k] : k \in S}
  BY <1>6 DEF Injection, IsInjective, Range
<1>8. /\ given \subseteq 1 .. from.n /\ S \subseteq given
      /\ \A k \in S : a.ui[f.n + k].username.ptr = Empty
      /\ \A k \in given \ S : a.ui[f.n + k].username.ptr # Empty
      /\ \A k \in 1 .. from.n : k \in given <=> from.ui[k].username.has
  OBVIOUS
<1>9. ASSUME NEW k \in 1 .. from.n
      PROVE  /\ f.n + k \in 1 .. Len(a.ui) /\ f.n + k \in f.n + 1 .. a.n
             /\ f.n + k \in SlotsOf(a) /\ (f.n + k) - f.n = k /\ f.n + k > f.n
             /\ a.ui[f.n + k].username.ptr = Ptr(a, f.n + k)
             /\ ptr[k] = IF k \in S THEN new[k] ELSE Ptr(a, f.n + k)
  <2>1. f.n + k \in 1 .. Len(a.ui) /\ f.n + k \in f.n + 1 .. a.n
        /\ (f.n + k) - f.n = k /\ f.n + k > f.n
    BY <1>2, <1>3, <1>5
  <2>2. f.n + k \in SlotsOf(a) /\ a.ui[f.n + k].username.ptr = Ptr(a, f.n + k)
    BY <1>5, <2>1, SlotOfElement
  <2>3. ptr[k] = IF k \in S THEN new[k] ELSE a.ui[f.n + k].username.ptr
    BY <1>7
  <2> HIDE DEF ptr, S, given
  <2> QED
    BY <2>1, <2>2, <2>3
<1> DEFINE Read(k) == Content(h, from.ui[k].username.ptr)
<1>10. /\ DOMAIN hh = DOMAIN h \cup Range(new)
       /\ \A p \in DOMAIN hh :
            hh[p] = LET ks == {k \in given : ptr[k] = p}
                    IN  IF ks = {} THEN h[p] ELSE Read(CHOOSE k \in ks : TRUE)
  <2> HIDE DEF ptr, given
  <2> QED
    OBVIOUS
<1>11. /\ DOMAIN t = 1 .. Len(a.ui)
       /\ \A i \in 1 .. Len(a.ui) :
            t[i] = IF i \in f.n + 1 .. a.n
                   THEN UserMerged(a.ui[i], from.ui[i - f.n], ptr[i - f.n])
                   ELSE a.ui[i]
  <2> HIDE DEF ptr
  <2> QED
    BY <1>5
<1> HIDE DEF S, given, ptr, t, hh, Read
\* The strings written are different, and are f's own or new.
<1>12. ASSUME NEW k \in given
       PROVE  /\ ptr[k] # Empty /\ ptr[k] \in DOMAIN hh
              /\ k \notin S => ptr[k] \in StringsOf(f) /\ ptr[k] \in DOMAIN h
              /\ k \in S => ptr[k] \notin DOMAIN h
  <2>1. k \in 1 .. from.n
    BY <1>8
  <2>2. CASE k \in S
    <3>1. ptr[k] = new[k] /\ new[k] \in Strs \ DOMAIN h
      BY <1>7, <1>9, <2>1, <2>2
    <3>2. ptr[k] # Empty
      BY <3>1 DEF Strs, Empty
    <3>3. ptr[k] \in DOMAIN hh
      BY <1>7, <1>10, <2>2, <3>1
    <3> QED
      BY <2>2, <3>1, <3>2, <3>3
  <2>3. CASE k \notin S
    <3>1. /\ ptr[k] = Ptr(a, f.n + k) /\ f.n + k \in SlotsOf(a) /\ Ptr(a, f.n + k) # Empty
      BY <1>8, <1>9, <2>1, <2>3
    <3>2. f.n + k \in SlotsOf(f) /\ Ptr(a, f.n + k) = Ptr(f, f.n + k)
      BY <1>3, <3>1 DEF SlotsStay
    <3>3. ptr[k] \in DOMAIN h
      BY <1>2, <3>1, <3>2 DEF Readable
    <3> QED
      BY <1>10, <2>3, <3>1, <3>2, <3>3 DEF StringsOf
  <2> QED
    BY <2>2, <2>3
<1>13. ASSUME NEW k \in given, NEW j \in given, ptr[k] = ptr[j] PROVE k = j
  <2>1. k \in 1 .. from.n /\ j \in 1 .. from.n
    BY <1>8
  <2>2. CASE k \in S /\ j \in S
    BY <1>7, <1>9, <1>13, <2>1, <2>2
  <2>3. CASE k \notin S /\ j \notin S
    <3>1. f.n + k = f.n + j
      BY <1>4, <1>9, <1>12, <1>13, <2>1, <2>3 DEF Distinct
    <3> QED
      BY <1>2, <2>1, <3>1
  <2> QED
    BY <1>12, <1>13, <2>2, <2>3
<1>14. ASSUME NEW k \in given PROVE Content(hh, ptr[k]) = Read(k)
  <2> DEFINE ks == {j \in given : ptr[j] = ptr[k]}
  <2>1. ks = {k}
    BY <1>13
  <2>2. (CHOOSE j \in ks : TRUE) = k
    BY <2>1
  <2>3. hh[ptr[k]] = IF ks = {} THEN h[ptr[k]] ELSE Read(CHOOSE j \in ks : TRUE)
    BY <1>10, <1>12
  <2> HIDE DEF ks
  <2>4. hh[ptr[k]] = Read(k)
    BY <2>1, <2>2, <2>3
  <2> QED
    BY <1>12, <2>4 DEF Content
<1>15. ASSUME NEW p \in DOMAIN h, \A k \in given : ptr[k] # p
       PROVE  p \in DOMAIN hh /\ hh[p] = h[p]
  <2>1. {k \in given : ptr[k] = p} = {}
    BY <1>15
  <2> QED
    BY <1>10, <2>1
<1>16. StayBut(h, hh, StringsOf(f))
  <2>1. \A k \in given : ptr[k] \in StringsOf(f) \/ ptr[k] \notin DOMAIN h
    BY <1>12
  <2> QED
    BY <1>15, <2>1 DEF StayBut
<1>17. ASSUME NEW i \in SlotsOf(a), \A k \in given : i # f.n + k
       PROVE  Same(h, hh, Ptr(a, i))
  <2>1. CASE Ptr(a, i) = Empty
    BY <2>1 DEF Same, Content
  <2>2. CASE Ptr(a, i) # Empty
    <3>1. Ptr(a, i) \in DOMAIN h
      BY <1>4, <2>2 DEF Readable
    <3>2. ASSUME NEW k \in given PROVE ptr[k] # Ptr(a, i)
      <4>1. CASE k \in S
        BY <1>12, <3>1, <4>1
      <4>2. CASE k \notin S
        <5>1. ptr[k] = Ptr(a, f.n + k) /\ f.n + k \in SlotsOf(a) /\ i # f.n + k
          BY <1>8, <1>9, <1>17, <4>2
        <5> QED
          BY <1>4, <2>2, <5>1 DEF Distinct
      <4> QED
        BY <4>1, <4>2
    <3>3. hh[Ptr(a, i)] = h[Ptr(a, i)]
      BY <1>15, <3>1, <3>2
    <3> QED
      BY <2>2, <3>3 DEF Same, Content
  <2> QED
    BY <2>1, <2>2
\* The elements that are merged into, and the others.
<1>18. ASSUME NEW k \in 1 .. from.n
       PROVE  /\ CleanUser(hh, t[f.n + k])
              /\ ViewOfUser(hh, t[f.n + k]) = ViewOfUser(h, from.ui[k])
  <2> DEFINE u == a.ui[f.n + k]
             v == from.ui[k]
             p == ptr[k]
  <2>1. /\ t[f.n + k] = UserMerged(u, v, p)
    BY <1>9, <1>11
  <2>2. /\ u \in UserType /\ v \in UserType /\ CleanUser(h, u) /\ CleanUser(h, v)
        /\ ViewOfUser(h, u) = NoUser
    BY <1>2, <1>4, <1>5, <1>9
  <2>3. v.username.has => p # Empty /\ Content(hh, p) = Content(h, v.username.ptr)
    BY <1>8, <1>12, <1>14 DEF Read
  <2>4. ~v.username.has => Same(h, hh, u.username.ptr)
    <3>1. ASSUME ~v.username.has, NEW j \in given PROVE f.n + k # f.n + j
      <4>1. k # j /\ j \in 1 .. from.n
        BY <1>8, <3>1
      <4> QED
        BY <1>2, <4>1
    <3> QED
      BY <1>9, <1>17, <3>1
  <2> HIDE DEF u, v, p
  <2>5. /\ ViewOfUser(hh, UserMerged(u, v, p)) = MergeUser(ViewOfUser(h, u), ViewOfUser(h, v))
        /\ CleanUser(hh, UserMerged(u, v, p))
    BY <2>2, <2>3, <2>4, UserMergedReads
  <2>6. MergeUser(NoUser, ViewOfUser(h, v)) = ViewOfUser(h, v)
    BY <2>2, MergeNoUser
  <2> QED
    BY <2>1, <2>2, <2>5, <2>6 DEF v
<1>19. ASSUME NEW i \in 1 .. Len(a.ui), i \notin f.n + 1 .. a.n
       PROVE  /\ t[i] = a.ui[i] /\ CleanUser(hh, t[i])
              /\ ViewOfUser(hh, t[i]) = ViewOfUser(h, a.ui[i])
  <2>1. t[i] = a.ui[i]
    BY <1>11, <1>19
  <2>2. Same(h, hh, a.ui[i].username.ptr)
    <3>1. i \in SlotsOf(a) /\ Ptr(a, i) = a.ui[i].username.ptr
      BY <1>5, SlotOfElement
    <3>2. \A k \in given : i # f.n + k
      BY <1>8, <1>9, <1>19
    <3> QED
      BY <1>17, <3>1, <3>2
  <2>3. /\ FieldView(hh, a.ui[i].username) = FieldView(h, a.ui[i].username)
        /\ Clean(h, a.ui[i].username) => Clean(hh, a.ui[i].username)
    BY <2>2, SameField
  <2>4. CleanUser(h, a.ui[i])
    BY <1>4
  <2> QED
    BY <2>1, <2>3, <2>4 DEF ViewOfUser, CleanUser
<1>20. ASSUME NEW i \in f.n + 1 .. a.n
       PROVE  i - f.n \in 1 .. from.n /\ f.n + (i - f.n) = i
  BY <1>2, <1>3
<1> DEFINE g == r.x
<1>21. /\ g.msgtype = f.msgtype /\ g.ui = t /\ g.n = f.n + from.n /\ g.unknown = f.unknown
  BY <1>1, <1>3, <1>5
<1> HIDE DEF g
<1>22. Len(t) = Len(a.ui)
  <2>1. FocusOK(g) /\ g.ui = t
    BY <1>21, MergeElementsKeeps, KeepsFacts DEF g, Sound
  <2>2. DOMAIN t = 1 .. Len(t) /\ Len(t) \in Nat
    BY <2>1, FocusFacts
  <2> QED
    BY <1>5, <1>11, <2>2
<1>23. Same(h, hh, f.msgtype.ptr)
  <2>1. 0 \in SlotsOf(a) /\ Ptr(a, 0) = f.msgtype.ptr
    BY <1>3, <1>5, SlotOfElement
  <2>2. \A k \in given : 0 # f.n + k
    BY <1>2, <1>8
  <2> QED
    BY <1>17, <2>1, <2>2
<1>24. FieldView(hh, f.msgtype) = FieldView(h, f.msgtype) /\ Clean(hh, f.msgtype)
  BY <1>23, SameField DEF Sound, CleanFocus
<1>25. ASSUME NEW i \in 1 .. Len(g.ui)
       PROVE  CleanUser(hh, g.ui[i]) /\ (i > g.n => ViewOfUser(hh, g.ui[i]) = NoUser)
  <2>1. i \in 1 .. Len(a.ui) /\ g.ui[i] = t[i]
    BY <1>21, <1>22
  <2>2. CASE i \in f.n + 1 .. a.n
    <3>1. CleanUser(hh, t[i])
      BY <1>18, <1>20, <2>2
    <3>2. ~(i > g.n)
      BY <1>2, <1>3, <1>21, <2>2
    <3> QED
      BY <2>1, <3>1, <3>2
  <2>3. CASE i \notin f.n + 1 .. a.n
    <3>1. CleanUser(hh, t[i]) /\ ViewOfUser(hh, t[i]) = ViewOfUser(h, a.ui[i])
      BY <1>19, <2>1, <2>3
    <3>2. i > g.n => i > f.n
      BY <1>2, <1>21
    <3> QED
      BY <1>4, <2>1, <3>1, <3>2
  <2> QED
    BY <2>2, <2>3
<1>26. CleanFocus(hh, g)
  BY <1>21, <1>24, <1>25 DEF CleanFocus
<1>27. ViewsOf(h, f) \o ViewsOf(h, from) = ViewsOf(hh, g)
  <2> DEFINE n == f.n
             m == from.n
             s == ViewsOf(h, f)
             q == ViewsOf(h, from)
             w == ViewsOf(hh, g)
  <2>1. n \in Nat /\ m \in Nat /\ Listed(s, n) /\ Listed(q, m) /\ Listed(w, n + m)
    BY <1>2, <1>21 DEF ViewsOf, Listed
  <2>2. ASSUME NEW i \in 1 .. n PROVE w[i] = s[i]
    <3>1. i \in 1 .. Len(a.ui) /\ i \notin f.n + 1 .. a.n /\ i \in 1 .. f.n + from.n
      BY <1>2, <1>3, <1>5
    <3>2. w[i] = ViewOfUser(hh, t[i])
      BY <1>21, <3>1 DEF ViewsOf
    <3> HIDE DEF w
    <3> QED
      BY <1>4, <1>19, <3>1, <3>2 DEF ViewsOf
  <2>3. ASSUME NEW i \in 1 .. m PROVE w[n + i] = q[i]
    <3>1. n + i \in 1 .. f.n + from.n
      BY <1>2
    <3>2. w[n + i] = ViewOfUser(hh, t[n + i])
      BY <1>21, <3>1 DEF ViewsOf
    <3> HIDE DEF w
    <3> QED
      BY <1>18, <3>2 DEF ViewsOf
  <2> HIDE DEF n, m, s, q, w
  <2>4. s \o q = w
    BY <2>1, <2>2, <2>3, ConcatList
  <2> QED
    BY <2>4 DEF s, q, w
<1>28. ViewOf(hh, g) = [msgtype |-> FieldView(h, f.msgtype), ui |-> ViewsOf(hh, g),
                        unknown |-> f.unknown]
  BY <1>21, <1>24 DEF ViewOf, ViewsOf
<1> QED
  BY <1>1, <1>16, <1>26, <1>27, <1>28 DEF g

\* What Keeps says of a message and a heap leaves its strings distinct.
LEMMA KeepsDistinct ==
    ASSUME NEW f, NEW h, NEW g, NEW k, Readable(f, h), Distinct(f), Keeps(f, h, g, k)
    PROVE  Readable(g, k) /\ Distinct(g)
<1>1. PICK I : Fills(f, g, DOMAIN h, DOMAIN k, I)
  BY DEF Keeps
<1>2. ASSUME NEW i \in SlotsOf(g), Ptr(g, i) # Empty
      PROVE  \/ i \in I /\ Ptr(g, i) \notin DOMAIN h /\ Ptr(g, i) \in DOMAIN k
             \/ /\ i \notin I /\ i \in SlotsOf(f) /\ Ptr(g, i) = Ptr(f, i)
                /\ Ptr(g, i) \in DOMAIN h /\ Ptr(g, i) \in DOMAIN k
  BY <1>1, <1>2 DEF Fills, Readable
<1>3. Readable(g, k)
  BY <1>2 DEF Readable, Keeps
<1>4. Distinct(g)
  <2>1. ASSUME NEW i \in SlotsOf(g), NEW j \in SlotsOf(g), Ptr(g, i) # Empty,
               Ptr(g, i) = Ptr(g, j)
        PROVE  i = j
    BY <1>1, <1>2, <2>1 DEF Fills, Distinct
  <2> QED
    BY <2>1 DEF Distinct
<1> QED
  BY <1>3, <1>4

\* A message has none of the strings S.
Avoids(g, S) == \A i \in SlotsOf(g) : Ptr(g, i) # Empty => Ptr(g, i) \notin S

\* What a message reads as when strings change that it does not have.
LEMMA AvoidsReads ==
    ASSUME NEW g, NEW S, NEW h, NEW k, Sound(g, h), Avoids(g, S), HeapOK(k),
           StayBut(h, k, S)
    PROVE  /\ ViewOf(k, g) = ViewOf(h, g) /\ Sound(g, k)
           /\ \A i \in SlotsOf(g) : Same(h, k, Ptr(g, i))
<1>1. ASSUME NEW i \in SlotsOf(g)
      PROVE  Same(h, k, Ptr(g, i)) /\ (Ptr(g, i) # Empty => Ptr(g, i) \in DOMAIN k)
  <2>1. Ptr(g, i) # Empty => Ptr(g, i) \in DOMAIN h \ S
    BY DEF Sound, Readable, Avoids
  <2>2. Same(h, k, Ptr(g, i))
    BY <2>1, StaySame
  <2> QED
    BY <2>1, <2>2 DEF StayBut
<1>2. FocusOK(g) /\ CleanFocus(h, g)
  BY DEF Sound, Readable
<1>3. Same(h, k, g.msgtype.ptr)
      /\ \A i \in 1 .. Len(g.ui) : Same(h, k, g.ui[i].username.ptr)
  BY <1>1, <1>2, SlotOfElement
<1>4. FieldView(k, g.msgtype) = FieldView(h, g.msgtype) /\ Clean(k, g.msgtype)
  BY <1>2, <1>3, SameField DEF CleanFocus
<1>5. /\ \A i \in 1 .. Len(g.ui) :
            /\ CleanUser(k, g.ui[i])
            /\ i > g.n => ViewOfUser(k, g.ui[i]) = NoUser
      /\ ViewsOf(k, g) = ViewsOf(h, g)
  BY <1>2, <1>3, ElementsSame
<1>6. ViewOf(k, g) = ViewOf(h, g)
  BY <1>4, <1>5 DEF ViewOf, ViewsOf
<1>7. Sound(g, k)
  BY <1>1, <1>4, <1>5 DEF Sound, Readable, CleanFocus
<1> QED
  BY <1>1, <1>6, <1>7

\* A message whose msgtype is written or merged, and its unknown fields.
LEMMA MsgtypeReads ==
    ASSUME NEW f, NEW h, NEW s, NEW w, NEW k, Sound(f, h), Clean(k, s),
           StayBut(h, k, {f.msgtype.ptr})
    PROVE  LET g == WithMsgtype(f, s, w)
           IN  /\ ViewOf(k, g) = [msgtype |-> FieldView(k, s), ui |-> ViewsOf(h, f),
                                  unknown |-> w]
               /\ CleanFocus(k, g)
<1> DEFINE g == WithMsgtype(f, s, w)
<1>1. g.msgtype = s /\ g.ui = f.ui /\ g.n = f.n /\ g.unknown = w
  BY DEF WithMsgtype
<1> HIDE DEF g
<1>2. ASSUME NEW i \in 1 .. Len(f.ui) PROVE Same(h, k, f.ui[i].username.ptr)
  <2>1. /\ 0 \in SlotsOf(f) /\ i \in SlotsOf(f) /\ i # 0 /\ Ptr(f, 0) = f.msgtype.ptr
        /\ Ptr(f, i) = f.ui[i].username.ptr
    BY SlotOfElement DEF Sound, Readable
  <2>2. Ptr(f, i) # Empty => Ptr(f, i) \in DOMAIN h \ {f.msgtype.ptr}
    BY <2>1 DEF Sound, Readable, Distinct
  <2> QED
    BY <2>1, <2>2, StaySame
<1>3. /\ \A i \in 1 .. Len(f.ui) :
            /\ CleanUser(k, f.ui[i])
            /\ i > f.n => ViewOfUser(k, f.ui[i]) = NoUser
      /\ ViewsOf(k, f) = ViewsOf(h, f)
  BY <1>2, ElementsSame DEF Sound, Readable
<1>4. ViewOf(k, g) = [msgtype |-> FieldView(k, s), ui |-> ViewsOf(h, f), unknown |-> w]
  BY <1>1, <1>3 DEF ViewOf, ViewsOf
<1>5. CleanFocus(k, g)
  BY <1>1, <1>3 DEF CleanFocus
<1> QED
  BY <1>4, <1>5 DEF g

\* focustm::MergeFrom merges what the two read as.
LEMMA FocusMergeFromReads ==
    ASSUME NEW f, NEW h, NEW from, Sound(f, h), Sound(from, h), Avoids(from, StringsOf(f)),
           RoomFor(from, h)
    PROVE  LET r == FocusMergeFrom(f, h, from)
           IN  /\ ViewOf(r.h, r.x) = MergeFocus(ViewOf(h, f), ViewOf(h, from))
               /\ CleanFocus(r.h, r.x) /\ StayBut(h, r.h, StringsOf(f))
<1> DEFINE c == MergeElements(f, h, from)
           v == Content(c.h, from.msgtype.ptr)
           s == IF from.msgtype.has THEN SetString(c.x.msgtype, c.h, v)
                ELSE [f |-> c.x.msgtype, h |-> c.h]
           w == c.x.unknown \o from.unknown
           r == FocusMergeFrom(f, h, from)
<1>1. r.x = [c.x EXCEPT !.msgtype = s.f, !.unknown = w] /\ r.h = s.h
  BY DEF FocusMergeFrom
<1>2. /\ Cardinality(WithUsername(from)) \in Nat /\ Cardinality(Strs \ DOMAIN h) \in Nat
      /\ FieldOK(from.msgtype, h) /\ FieldOK(f.msgtype, h)
      /\ Readable(f, h) /\ Readable(from, h) /\ FocusOK(f) /\ FocusOK(from)
  BY WithUsernameFinite, StrsFinite, ReadableFields DEF Sound, Readable
<1>3. Cardinality(WithUsername(from)) <= Cardinality(Strs \ DOMAIN h)
  <2>1. (IF from.msgtype.has THEN 1 ELSE 0) \in Nat
    OBVIOUS
  <2> QED
    BY <1>2, <2>1 DEF RoomFor
<1>4. /\ Keeps(f, h, c.x, c.h)
      /\ c.x.msgtype = f.msgtype /\ c.x.unknown = f.unknown
      /\ Cardinality(Strs \ DOMAIN c.h)
            >= Cardinality(Strs \ DOMAIN h) - Cardinality(WithUsername(from))
  BY <1>2, <1>3, MergeElementsKeeps
<1>5. /\ ViewOf(c.h, c.x) = [msgtype |-> FieldView(h, f.msgtype),
                             ui |-> ViewsOf(h, f) \o ViewsOf(h, from),
                             unknown |-> f.unknown]
      /\ CleanFocus(c.h, c.x) /\ StayBut(h, c.h, StringsOf(f))
  BY <1>3, MergeElementsReads
<1> HIDE DEF c
<1>6. /\ FocusOK(c.x) /\ HeapOK(c.h) /\ DOMAIN h \subseteq DOMAIN c.h
      /\ Readable(c.x, c.h) /\ Distinct(c.x)
  BY <1>2, <1>4, KeepsFacts, KeepsDistinct DEF Sound
<1>7. Sound(c.x, c.h)
  BY <1>5, <1>6 DEF Sound
<1>8. FieldOK(c.x.msgtype, c.h) /\ Clean(c.h, c.x.msgtype)
  BY <1>6, <1>7, ReadableFields DEF Sound, CleanFocus
<1>9. v = Content(h, from.msgtype.ptr)
  <2>1. 0 \in SlotsOf(from) /\ Ptr(from, 0) = from.msgtype.ptr
    BY <1>2, SlotOfElement
  <2>2. Same(h, c.h, Ptr(from, 0))
    BY <1>5, <1>6, <2>1, AvoidsReads
  <2> QED
    BY <2>1, <2>2 DEF Same
<1>10. v \in Nat
  <2>1. Content(h, from.msgtype.ptr) \in Nat
    BY <1>2, HeapFacts DEF FieldOK
  <2> QED
    BY <1>9, <2>1
<1> HIDE DEF v
<1>11. /\ FieldView(s.h, s.f) = MergeField(FieldView(h, f.msgtype), FieldView(h, from.msgtype))
       /\ Clean(s.h, s.f) /\ StayBut(c.h, s.h, {c.x.msgtype.ptr})
  <2>1. FieldView(h, from.msgtype).has = from.msgtype.has
        /\ FieldView(h, from.msgtype) = [has |-> from.msgtype.has, val |-> v]
    BY <1>9 DEF FieldView
  <2>2. from.msgtype.has \in BOOLEAN
    BY <1>2 DEF FieldOK, StringField
  <2>3. CASE from.msgtype.has = TRUE
    <3>1. Cardinality(Strs \ DOMAIN c.h) \in Nat /\ IsFiniteSet(Strs \ DOMAIN c.h)
      BY StrsFinite
    <3>2. Cardinality(Strs \ DOMAIN c.h) # 0
      BY <1>2, <1>4, <2>3, <3>1 DEF RoomFor
    <3>3. HasNew(c.x.msgtype, c.h)
      BY <3>1, <3>2, FS_EmptySet DEF HasNew
    <3>4. s = SetString(c.x.msgtype, c.h, v)
      BY <2>3
    <3> HIDE DEF s
    <3>5. /\ FieldView(s.h, s.f) = Given(v) /\ Clean(s.h, s.f)
          /\ StayBut(c.h, s.h, {c.x.msgtype.ptr})
      BY <1>8, <1>10, <3>3, <3>4, SetReads
    <3> QED
      BY <2>1, <2>3, <3>5 DEF MergeField, Given
  <2>4. CASE from.msgtype.has = FALSE
    <3>1. s.f = f.msgtype /\ s.h = c.h
      BY <1>4, <2>4
    <3> HIDE DEF s
    <3>2. FieldView(c.h, f.msgtype) = FieldView(h, f.msgtype)
      <4>1. ViewOf(c.h, c.x).msgtype = FieldView(h, f.msgtype)
        BY <1>5
      <4> QED
        BY <1>4, <4>1 DEF ViewOf
    <3> QED
      BY <1>4, <1>8, <2>1, <2>4, <3>1, <3>2 DEF MergeField, StayBut
  <2> QED
    BY <2>2, <2>3, <2>4
<1> HIDE DEF s, w
<1>12. r.x = WithMsgtype(c.x, s.f, w)
  <2>1. c.x = [msgtype |-> c.x.msgtype, ui |-> c.x.ui, n |-> c.x.n,
               unknown |-> c.x.unknown]
    BY <1>6, FocusFacts
  <2> QED
    BY <1>1, <2>1 DEF WithMsgtype
<1> HIDE DEF r
<1>13. /\ ViewOf(r.h, r.x) = [msgtype |-> FieldView(s.h, s.f), ui |-> ViewsOf(c.h, c.x),
                              unknown |-> w]
       /\ CleanFocus(r.h, r.x)
  BY <1>1, <1>7, <1>11, <1>12, MsgtypeReads
<1>14. ViewsOf(c.h, c.x) = ViewsOf(h, f) \o ViewsOf(h, from)
  <2>1. ViewOf(c.h, c.x).ui = ViewsOf(h, f) \o ViewsOf(h, from)
    BY <1>5
  <2> QED
    BY <2>1 DEF ViewOf, ViewsOf
<1>15. ViewOf(r.h, r.x) = MergeFocus(ViewOf(h, f), ViewOf(h, from))
  <2>1. w = f.unknown \o from.unknown
    BY <1>4 DEF w
  <2> QED
    BY <1>11, <1>13, <1>14, <2>1 DEF MergeFocus, ViewOf, ViewsOf
<1>16. StayBut(h, r.h, StringsOf(f))
  <2>1. f.msgtype.ptr \in StringsOf(f)
    <3>1. 0 \in SlotsOf(f) /\ Ptr(f, 0) = f.msgtype.ptr
      BY <1>2, SlotOfElement
    <3> QED
      BY <3>1 DEF StringsOf
  <2> QED
    BY <1>1, <1>4, <1>5, <1>11, <2>1 DEF StayBut
<1> QED
  BY <1>13, <1>15, <1>16 DEF r

\* CopyFrom, which clears first, makes the message read as the other one.
LEMMA CopyReads ==
    ASSUME NEW f, NEW h, NEW from, Sound(f, h), Sound(from, h), Avoids(from, StringsOf(f)),
           RoomFor(from, h)
    PROVE  LET c == FocusClear(f, h)
               r == FocusMergeFrom(c.x, c.h, from)
           IN  /\ ViewOf(r.h, r.x) = ViewOf(h, from)
               /\ CleanFocus(r.h, r.x) /\ StayBut(h, r.h, StringsOf(f))
<1> DEFINE c == FocusClear(f, h)
           r == FocusMergeFrom(c.x, c.h, from)
<1>1. SlotsStay(f, h, c.x, c.h) /\ Len(c.x.ui) = Len(f.ui)
  BY FocusClearStay DEF Sound
<1>2. ViewOf(c.h, c.x) = NoFocus /\ CleanFocus(c.h, c.x) /\ StayBut(h, c.h, StringsOf(f))
  BY FocusClearReads
<1> HIDE DEF c
<1>3. SlotsOf(c.x) = SlotsOf(f) /\ \A i \in SlotsOf(f) : Ptr(c.x, i) = Ptr(f, i)
  BY <1>1 DEF SlotsStay, SlotsOf
<1>4. Sound(c.x, c.h)
  BY <1>1, <1>2, <1>3, KeepsReadable DEF Sound, Distinct
<1>5. StringsOf(c.x) = StringsOf(f)
  BY <1>3 DEF StringsOf
<1>6. Sound(from, c.h) /\ ViewOf(c.h, from) = ViewOf(h, from) /\ RoomFor(from, c.h)
  BY <1>1, <1>2, AvoidsReads DEF SlotsStay, RoomFor
<1>7. /\ ViewOf(r.h, r.x) = MergeFocus(ViewOf(c.h, c.x), ViewOf(c.h, from))
      /\ CleanFocus(r.h, r.x) /\ StayBut(c.h, r.h, StringsOf(c.x))
  BY <1>4, <1>5, <1>6, FocusMergeFromReads
<1> HIDE DEF r
<1>8. ViewOf(r.h, r.x) = ViewOf(h, from)
  BY <1>2, <1>6, <1>7, MergeNoFocus
<1>9. StayBut(h, r.h, StringsOf(f))
  BY <1>1, <1>2, <1>5, <1>7 DEF StayBut, SlotsStay
<1> QED
  BY <1>7, <1>8, <1>9 DEF r, c

-----------------------------------------------------------------------------
(* The objects as values.                                                  *)

ReadInv == ObjectInv /\ \A m \in Focuses : CleanFocus(heap, focus[m])

ViewsAre(V, F, h) == V = [m \in Focuses |-> ViewOf(h, F[m])]
OwnIs(W, hd, h)   == W = IF hd = Empty THEN <<>> ELSE <<h[hd]>>

\* The values and the string of the caller, by the objects, now and next.
LEMMA ViewsNow ==
    /\ ViewsAre(Views, focus, heap) /\ ViewsAre(Views', focus', heap')
    /\ OwnIs(Own, hand, heap) /\ OwnIs(Own', hand', heap')
  BY DEF ViewsAre, OwnIs, Views, Own, FocusView, UserView, StringView, ViewOf,
         ViewOfUser, FieldView

\* Under ObjectInv no two slots, and not the hand, share a string.
LEMMA GoodApart ==
    ASSUME NEW F, NEW hd, NEW h, Good(F, hd, h), NEW m \in Focuses
    PROVE  /\ Distinct(F[m]) /\ (hd # Empty => hd \notin StringsOf(F[m]))
           /\ \A n \in Focuses \ {m} : Avoids(F[n], StringsOf(F[m]))
<1> DEFINE P == Held(F, hd)
<1> HIDE DEF P
<1>1. PlacesAre(P, F, hd) /\ Owned(P, DOMAIN h)
  BY GoodFacts, HeldAt DEF Good, P
<1>2. ASSUME NEW n \in Focuses, NEW i \in SlotsOf(F[m]), NEW j \in SlotsOf(F[n]),
             Ptr(F[n], j) # Empty, Ptr(F[m], i) = Ptr(F[n], j)
      PROVE  <<m, i>> = <<n, j>>
  <2>1. /\ <<m, i>> \in DOMAIN P /\ P[<<m, i>>] = Ptr(F[m], i)
        /\ <<n, j>> \in DOMAIN P /\ P[<<n, j>>] = Ptr(F[n], j)
    BY <1>1 DEF PlacesAre
  <2> QED
    BY <1>1, <1>2, <2>1 DEF Owned
<1>3. Distinct(F[m])
  BY <1>2 DEF Distinct
<1>4. \A n \in Focuses \ {m} : Avoids(F[n], StringsOf(F[m]))
  BY <1>2 DEF Avoids, StringsOf
<1>5. ASSUME hd # Empty, NEW i \in SlotsOf(F[m]) PROVE Ptr(F[m], i) # hd
  <2>1. /\ <<m, i>> \in DOMAIN P /\ P[<<m, i>>] = Ptr(F[m], i) /\ <<m, i>> # Hand
        /\ Hand \in DOMAIN P /\ P[Hand] = hd
    BY <1>1 DEF PlacesAre
  <2> QED
    BY <1>1, <1>5, <2>1 DEF Owned
<1> QED
  BY <1>3, <1>4, <1>5 DEF StringsOf

\* What ReadInv says of each message.
LEMMA ReadFacts ==
    ASSUME ReadInv
    PROVE  /\ HeapOK(heap) /\ focus = [m \in Focuses |-> focus[m]]
           /\ hand # Empty => hand \in DOMAIN heap
           /\ \A m \in Focuses :
                /\ Sound(focus[m], heap) /\ FocusOK(focus[m])
                /\ hand # Empty => hand \notin StringsOf(focus[m])
                /\ \A n \in Focuses \ {m} : Avoids(focus[n], StringsOf(focus[m]))
<1>1. Good(focus, hand, heap)
  BY DEF ReadInv, ObjectInv
<1>2. /\ HeapOK(heap) /\ focus = [m \in Focuses |-> focus[m]]
      /\ hand # Empty => hand \in DOMAIN heap
      /\ \A m \in Focuses : Readable(focus[m], heap)
  BY <1>1, GoodFacts
<1>3. ASSUME NEW m \in Focuses
      PROVE  /\ Sound(focus[m], heap) /\ FocusOK(focus[m])
             /\ hand # Empty => hand \notin StringsOf(focus[m])
             /\ \A n \in Focuses \ {m} : Avoids(focus[n], StringsOf(focus[m]))
  BY <1>1, <1>2, GoodApart DEF ReadInv, Sound, Readable
<1> QED
  BY <1>2, <1>3

\* A step on message m: the others, and the caller's string, stay what they
\* read as.
LEMMA MessageReads ==
    ASSUME ReadInv, ObjectInv', NEW m \in Focuses, NEW g, NEW k,
           focus' = [focus EXCEPT ![m] = g], heap' = k,
           StayBut(heap, k, StringsOf(focus[m])), CleanFocus(k, g)
    PROVE  /\ ReadInv' /\ Views' = [Views EXCEPT ![m] = ViewOf(k, g)]
           /\ hand' = hand => Own' = Own
<1>1. /\ \A n \in Focuses : Sound(focus[n], heap)
      /\ \A n \in Focuses \ {m} : Avoids(focus[n], StringsOf(focus[m]))
      /\ focus = [n \in Focuses |-> focus[n]]
  BY ReadFacts
<1>2. HeapOK(k)
  BY DEF ObjectInv, Good
<1>3. focus'[m] = g /\ \A n \in Focuses \ {m} : focus'[n] = focus[n]
  BY <1>1
<1>4. ASSUME NEW n \in Focuses \ {m}
      PROVE  ViewOf(k, focus[n]) = ViewOf(heap, focus[n]) /\ CleanFocus(k, focus[n])
  BY <1>1, <1>2, <1>4, AvoidsReads DEF Sound
<1>5. \A n \in Focuses : CleanFocus(heap', focus'[n])
  BY <1>3, <1>4
<1>6. Views' = [Views EXCEPT ![m] = ViewOf(k, g)]
  <2>1. ViewsAre(Views, focus, heap) /\ ViewsAre(Views', focus', k)
    BY ViewsNow
  <2> QED
    BY <1>3, <1>4, <2>1 DEF ViewsAre
<1>7. hand' = hand => Own' = Own
  <2>1. OwnIs(Own, hand, heap) /\ OwnIs(Own', hand', k)
    BY ViewsNow
  <2>2. hand # Empty => hand \in DOMAIN heap \ StringsOf(focus[m])
    BY ReadFacts
  <2> QED
    BY <2>1, <2>2 DEF OwnIs, StayBut
<1> QED
  BY <1>5, <1>6, <1>7 DEF ReadInv

\* A step on strings that no message has.
LEMMA OwnReads ==
    ASSUME ReadInv, ObjectInv', focus' = focus, NEW S,
           \A m \in Focuses : Avoids(focus[m], S), StayBut(heap, heap', S)
    PROVE  ReadInv' /\ Views' = Views
<1> DEFINE k == heap'
<1>1. HeapOK(k) /\ \A n \in Focuses : Sound(focus[n], heap)
  BY ReadFacts DEF ObjectInv, Good
<1>2. StayBut(heap, k, S) /\ k = heap'
  OBVIOUS
<1> HIDE DEF k
<1>3. ASSUME NEW n \in Focuses
      PROVE  ViewOf(k, focus[n]) = ViewOf(heap, focus[n]) /\ CleanFocus(k, focus[n])
  BY <1>1, <1>2, AvoidsReads DEF Sound
<1>4. Views' = Views
  <2>1. ViewsAre(Views, focus, heap) /\ ViewsAre(Views', focus, k)
    BY <1>2, ViewsNow
  <2> QED
    BY <1>3, <2>1 DEF ViewsAre
<1> QED
  BY <1>2, <1>3, <1>4 DEF ReadInv

\* Updates of a message's value.
LEMMA ValueUpdates ==
    ASSUME NEW a, NEW b, NEW c, NEW x, NEW i,
           NEW v, v = [msgtype |-> a, ui |-> b, unknown |-> c]
    PROVE  /\ [v EXCEPT !.msgtype = x] = [msgtype |-> x, ui |-> b, unknown |-> c]
           /\ [v EXCEPT !.ui = x] = [msgtype |-> a, ui |-> x, unknown |-> c]
           /\ [v EXCEPT !.unknown = x] = [msgtype |-> a, ui |-> b, unknown |-> x]
  OBVIOUS

\* Updates of a userinfo's value.
LEMMA UserUpdates ==
    ASSUME NEW a, NEW b, NEW c, NEW x,
           NEW v, v = [userid |-> a, username |-> b, unknown |-> c]
    PROVE  /\ [v EXCEPT !.userid = x] = [userid |-> x, username |-> b, unknown |-> c]
           /\ [v EXCEPT !.username = x] = [userid |-> a, username |-> x, unknown |-> c]
           /\ [v EXCEPT !.unknown = x] = [userid |-> a, username |-> b, unknown |-> x]
  OBVIOUS

\* The value of a message and of its fields.
LEMMA ViewsAt ==
    ASSUME NEW m \in Focuses
    PROVE  /\ Views[m] = ViewOf(heap, focus[m])
           /\ Views[m] = [msgtype |-> FieldView(heap, focus[m].msgtype),
                          ui      |-> ViewsOf(heap, focus[m]),
                          unknown |-> focus[m].unknown]
           /\ Views[m].msgtype = FieldView(heap, focus[m].msgtype)
           /\ Views[m].ui = ViewsOf(heap, focus[m]) /\ Views[m].unknown = focus[m].unknown
<1>1. Views[m] = ViewOf(heap, focus[m])
  BY ViewsNow DEF ViewsAre
<1>2. Views[m] = [msgtype |-> FieldView(heap, focus[m].msgtype),
                  ui      |-> ViewsOf(heap, focus[m]),
                  unknown |-> focus[m].unknown]
  BY <1>1 DEF ViewOf, ViewsOf
<1> QED
  BY <1>1, <1>2

\* A step on the msgtype, and on the unknown fields, of message m.
LEMMA MsgtypeStepReads ==
    ASSUME ReadInv, ObjectInv', NEW m \in Focuses, NEW s, NEW k,
           focus' = [focus EXCEPT ![m].msgtype = s], heap' = k,
           StayBut(heap, k, {focus[m].msgtype.ptr}), Clean(k, s)
    PROVE  /\ ReadInv'
           /\ Views' = [Views EXCEPT ![m] = [Views[m] EXCEPT !.msgtype = FieldView(k, s)]]
           /\ hand' = hand => Own' = Own
<1> DEFINE f == focus[m]
           g == WithMsgtype(f, s, f.unknown)
<1>1. Sound(f, heap) /\ FocusOK(f)
      /\ f = [msgtype |-> f.msgtype, ui |-> f.ui, n |-> f.n, unknown |-> f.unknown]
  BY ReadFacts, FocusFacts
<1>2. focus' = [focus EXCEPT ![m] = g]
  <2>1. focus' = [focus EXCEPT ![m] = [f EXCEPT !.msgtype = s]]
    OBVIOUS
  <2>2. [f EXCEPT !.msgtype = s] = g
    BY <1>1 DEF WithMsgtype
  <2> HIDE DEF f, g
  <2> QED
    BY <2>1, <2>2
<1>3. /\ ViewOf(k, g) = [msgtype |-> FieldView(k, s), ui |-> ViewsOf(heap, f),
                         unknown |-> f.unknown]
      /\ CleanFocus(k, g)
  BY <1>1, MsgtypeReads
<1>4. StayBut(heap, k, StringsOf(f))
  <2>1. f.msgtype.ptr \in StringsOf(f)
    <3>1. 0 \in SlotsOf(f) /\ Ptr(f, 0) = f.msgtype.ptr
      BY <1>1, SlotOfElement
    <3> QED
      BY <3>1 DEF StringsOf
  <2> QED
    BY <2>1 DEF StayBut
<1>5. [Views[m] EXCEPT !.msgtype = FieldView(k, s)] = ViewOf(k, g)
  <2>1. Views[m] = [msgtype |-> FieldView(heap, f.msgtype), ui |-> ViewsOf(heap, f),
                    unknown |-> f.unknown]
    BY ViewsAt
  <2>2. [Views[m] EXCEPT !.msgtype = FieldView(k, s)]
          = [msgtype |-> FieldView(k, s), ui |-> ViewsOf(heap, f), unknown |-> f.unknown]
    BY <2>1, ValueUpdates
  <2> QED
    BY <1>3, <2>2
<1> HIDE DEF f, g
<1>6. /\ ReadInv' /\ Views' = [Views EXCEPT ![m] = ViewOf(k, g)]
      /\ hand' = hand => Own' = Own
  BY <1>2, <1>3, <1>4, MessageReads DEF f
<1> QED
  BY <1>5, <1>6

\* The strings of a message other than that of its i-th element read the same.
OthersSame(f, h, k, i) ==
    /\ Same(h, k, f.msgtype.ptr)
    /\ \A j \in 1 .. Len(f.ui) \ {i} : Same(h, k, f.ui[j].username.ptr)

\* An element of a message becomes x.
LEMMA ElementReads ==
    ASSUME NEW f, NEW h, NEW k, NEW i \in 1 .. f.n, NEW x \in UserType,
           FocusOK(f), CleanFocus(h, f), CleanUser(k, x), OthersSame(f, h, k, i),
           NEW g, g = [f EXCEPT !.ui[i] = x]
    PROVE  /\ FocusOK(g) /\ CleanFocus(k, g) /\ g.n = f.n
           /\ ViewOf(k, g) = [ViewOf(h, f) EXCEPT !.ui[i] = ViewOfUser(k, x)]
<1>1. /\ Len(f.ui) \in Nat /\ f.n \in Nat /\ f.n <= Len(f.ui) /\ i \in 1 .. Len(f.ui)
      /\ f.n \in Nat /\ i <= f.n
  BY FocusFacts
<1>2. /\ FocusOK(g) /\ Len(g.ui) = Len(f.ui)
      /\ g.ui[i] = x /\ \A j \in 1 .. Len(f.ui) \ {i} : g.ui[j] = f.ui[j]
      /\ g.n = f.n /\ g.msgtype = f.msgtype /\ g.unknown = f.unknown
  BY <1>1, UserChanged
<1>3. FieldView(k, f.msgtype) = FieldView(h, f.msgtype) /\ Clean(k, f.msgtype)
  BY SameField DEF CleanFocus, OthersSame
<1>4. ASSUME NEW j \in 1 .. Len(f.ui) \ {i}
      PROVE  /\ ViewOfUser(k, g.ui[j]) = ViewOfUser(h, f.ui[j]) /\ CleanUser(k, g.ui[j])
             /\ j > f.n => ViewOfUser(k, g.ui[j]) = NoUser
  <2>1. /\ FieldView(k, f.ui[j].username) = FieldView(h, f.ui[j].username)
        /\ Clean(h, f.ui[j].username) => Clean(k, f.ui[j].username)
    BY SameField DEF OthersSame
  <2>2. CleanUser(h, f.ui[j]) /\ (j > f.n => ViewOfUser(h, f.ui[j]) = NoUser)
    BY DEF CleanFocus
  <2> QED
    BY <1>2, <2>1, <2>2 DEF ViewOfUser, CleanUser
<1>5. CleanFocus(k, g)
  <2>1. ~(i > f.n)
    BY <1>1
  <2> QED
    BY <1>2, <1>3, <1>4, <2>1 DEF CleanFocus
<1>6. ViewsOf(k, g) = [ViewsOf(h, f) EXCEPT ![i] = ViewOfUser(k, x)]
  <2> DEFINE s == ViewsOf(h, f)
             t == ViewsOf(k, g)
             e == ViewOfUser(k, x)
  <2>1. Listed(s, f.n) /\ Listed(t, f.n)
    BY <1>2 DEF ViewsOf, Listed
  <2>2. t[i] = e
    BY <1>2 DEF ViewsOf
  <2>3. ASSUME NEW j \in 1 .. f.n, j # i PROVE t[j] = s[j]
    <3>1. j \in 1 .. Len(f.ui) \ {i}
      BY <1>1, <2>3
    <3>2. t[j] = ViewOfUser(k, g.ui[j]) /\ s[j] = ViewOfUser(h, f.ui[j])
      BY <1>2, <2>3 DEF ViewsOf
    <3> QED
      BY <1>4, <3>1, <3>2
  <2> HIDE DEF s, t, e
  <2>4. t = [s EXCEPT ![i] = e]
    BY <2>1, <2>2, <2>3 DEF Listed
  <2> QED
    BY <2>4 DEF s, t, e
<1>7. ViewOf(k, g) = [ViewOf(h, f) EXCEPT !.ui[i] = ViewOfUser(k, x)]
  <2> DEFINE w == [ViewsOf(h, f) EXCEPT ![i] = ViewOfUser(k, x)]
             v == ViewOf(h, f)
  <2>1. v = [msgtype |-> FieldView(h, f.msgtype), ui |-> ViewsOf(h, f),
             unknown |-> f.unknown]
    BY DEF ViewOf, ViewsOf
  <2>2. ViewOf(k, g) = [msgtype |-> FieldView(h, f.msgtype), ui |-> w,
                        unknown |-> f.unknown]
    BY <1>2, <1>3, <1>6 DEF ViewOf, ViewsOf
  <2>3. [v EXCEPT !.ui[i] = ViewOfUser(k, x)] = [v EXCEPT !.ui = w]
    <3>1. v.ui = ViewsOf(h, f)
      BY <2>1
    <3> HIDE DEF v
    <3> QED
      BY <3>1
  <2> HIDE DEF v, w
  <2>4. [v EXCEPT !.ui = w] = [msgtype |-> FieldView(h, f.msgtype), ui |-> w,
                               unknown |-> f.unknown]
    BY <2>1, ValueUpdates
  <2> QED
    BY <2>2, <2>3, <2>4 DEF v
<1> QED
  BY <1>2, <1>5, <1>7

\* A current element, and where Value has it.
LEMMA ElementIs ==
    ASSUME NEW a \in Elements, ReadInv
    PROVE  /\ a[1] \in Focuses /\ a[2] \in 1 .. focus[a[1]].n
           /\ a[2] \in 1 .. Len(focus[a[1]].ui)
           /\ ElementAt(a) = focus[a[1]].ui[a[2]] /\ ElementAt(a) \in UserType
           /\ FieldOK(ElementAt(a).username, heap) /\ CleanUser(heap, ElementAt(a))
           /\ ElementAt(a).username.ptr \in StringsOf(focus[a[1]])
           /\ a \in Value!Users /\ Value!UserAt(a) = ViewOfUser(heap, ElementAt(a))
<1>1. a = <<a[1], a[2]>> /\ a[1] \in Focuses /\ a[2] \in 1 .. focus[a[1]].n
  BY DEF Elements
<1>2. /\ a[2] \in 1 .. Len(focus[a[1]].ui)
      /\ ElementAt(a) = focus[a[1]].ui[a[2]] /\ ElementAt(a) \in UserType
      /\ FieldOK(ElementAt(a).username, heap)
  BY ElementFacts DEF ReadInv
<1>3. CleanUser(heap, ElementAt(a))
  BY <1>1, <1>2 DEF ReadInv, CleanFocus
<1>4. ElementAt(a).username.ptr \in StringsOf(focus[a[1]])
  <2>1. FocusOK(focus[a[1]])
    BY <1>1, ReadFacts
  <2> QED
    BY <1>2, <2>1, SlotOfElement DEF StringsOf
<1>5. Views[a[1]].ui = ViewsOf(heap, focus[a[1]])
  BY <1>1, ViewsAt
<1>6. DOMAIN Views[a[1]].ui = 1 .. focus[a[1]].n
  BY <1>5 DEF ViewsOf
<1>7. a \in Value!Users
  <2>1. a \in {a[1]} \X DOMAIN Views[a[1]].ui
    BY <1>1, <1>6
  <2> QED
    BY <1>1, <2>1 DEF Value!Users
<1>8. Value!UserAt(a) = ViewOfUser(heap, ElementAt(a))
  BY <1>1, <1>2, <1>5 DEF Value!UserAt, ViewsOf
<1> QED
  BY <1>1, <1>2, <1>3, <1>4, <1>7, <1>8

\* A step on a userinfo.
LEMMA UserStepReads ==
    ASSUME ReadInv, ObjectInv', NEW a \in Elements, NEW r, UserBecomes(a, r),
           r.x \in UserType, CleanUser(r.h, r.x),
           StayBut(heap, r.h, {ElementAt(a).username.ptr})
    PROVE  /\ ReadInv'
           /\ Views' = [Views EXCEPT ![a[1]] =
                          [Views[a[1]] EXCEPT !.ui[a[2]] = ViewOfUser(r.h, r.x)]]
           /\ hand' = hand => Own' = Own
<1> DEFINE m == a[1]
           i == a[2]
           f == focus[m]
           x == r.x
           k == r.h
           g == [f EXCEPT !.ui[i] = x]
<1>1. /\ m \in Focuses /\ i \in 1 .. f.n /\ i \in 1 .. Len(f.ui)
      /\ ElementAt(a) = f.ui[i] /\ ElementAt(a).username.ptr \in StringsOf(f)
  BY ElementIs
<1>2. focus' = [focus EXCEPT ![m] = g] /\ heap' = k
  BY DEF UserBecomes
<1>3. g = [f EXCEPT !.ui[i] = x] /\ x \in UserType /\ CleanUser(k, x)
      /\ StayBut(heap, k, {f.ui[i].username.ptr})
  BY <1>1
<1>4. Sound(f, heap) /\ FocusOK(f)
  BY <1>1, ReadFacts
<1> HIDE DEF m, i, f, x, k, g
<1>5. ASSUME NEW j \in SlotsOf(f), j # i PROVE Same(heap, k, Ptr(f, j))
  <2>1. i \in SlotsOf(f) /\ Ptr(f, i) = f.ui[i].username.ptr
    BY <1>1, <1>4, SlotOfElement
  <2>2. Ptr(f, j) # Empty => Ptr(f, j) \in DOMAIN heap \ {f.ui[i].username.ptr}
    BY <1>4, <1>5, <2>1 DEF Sound, Readable, Distinct
  <2> QED
    BY <1>3, <2>2, StaySame
<1>6. OthersSame(f, heap, k, i)
  <2>1. 0 \in SlotsOf(f) /\ Ptr(f, 0) = f.msgtype.ptr /\ i # 0
    BY <1>1, <1>4, SlotOfElement
  <2> QED
    BY <1>4, <1>5, <2>1, SlotOfElement DEF OthersSame
<1>7. CleanFocus(heap, f)
  BY <1>4 DEF Sound
<1>8. /\ CleanFocus(k, g)
      /\ ViewOf(k, g) = [ViewOf(heap, f) EXCEPT !.ui[i] = ViewOfUser(k, x)]
  BY <1>1, <1>3, <1>4, <1>6, <1>7, ElementReads
<1>9. StayBut(heap, k, StringsOf(f))
  BY <1>1, <1>3 DEF StayBut
<1>10. /\ ReadInv' /\ Views' = [Views EXCEPT ![m] = ViewOf(k, g)]
       /\ hand' = hand => Own' = Own
  BY <1>1, <1>2, <1>8, <1>9, MessageReads DEF f
<1>11. Views[m] = ViewOf(heap, f)
  BY <1>1, ViewsAt DEF f
<1>12. Views' = [Views EXCEPT ![m] = [Views[m] EXCEPT !.ui[i] = ViewOfUser(k, x)]]
  BY <1>8, <1>10, <1>11
<1> QED
  BY <1>10, <1>12 DEF m, i, k, x

\* A step on the username of a userinfo.
LEMMA UsernameStepReads ==
    ASSUME ReadInv, ObjectInv', NEW a \in Elements, NEW s \in StringField, NEW k,
           focus' = [focus EXCEPT ![a[1]].ui[a[2]].username = s], heap' = k,
           Clean(k, s), StayBut(heap, k, {ElementAt(a).username.ptr})
    PROVE  /\ ReadInv'
           /\ Views' = [Views EXCEPT ![a[1]] =
                          [Views[a[1]] EXCEPT !.ui[a[2]] =
                             [Value!UserAt(a) EXCEPT !.username = FieldView(k, s)]]]
           /\ hand' = hand => Own' = Own
<1> DEFINE u == ElementAt(a)
           x == [u EXCEPT !.username = s]
           r == [x |-> x, h |-> k]
<1>1. u \in UserType /\ CleanUser(heap, u) /\ Value!UserAt(a) = ViewOfUser(heap, u)
  BY ElementIs
<1>2. UserBecomes(a, r)
  BY DEF UserBecomes, ElementAt
<1> HIDE DEF u
<1>3. /\ x \in UserType /\ x.username = s /\ x.userid = u.userid /\ x.unknown = u.unknown
  BY <1>1 DEF UserType
<1>4. r.x = x /\ r.h = k
  OBVIOUS
<1> HIDE DEF x, r
<1>5. CleanUser(k, x)
  BY <1>1, <1>3 DEF CleanUser
<1>6. /\ ReadInv'
      /\ Views' = [Views EXCEPT ![a[1]] =
                     [Views[a[1]] EXCEPT !.ui[a[2]] = ViewOfUser(k, x)]]
      /\ hand' = hand => Own' = Own
  BY <1>2, <1>3, <1>4, <1>5, UserStepReads DEF u
<1>7. [Value!UserAt(a) EXCEPT !.username = FieldView(k, s)] = ViewOfUser(k, x)
  <2> DEFINE v == Value!UserAt(a)
  <2>1. v = [userid |-> u.userid, username |-> FieldView(heap, u.username),
             unknown |-> u.unknown]
    BY <1>1 DEF ViewOfUser
  <2> HIDE DEF v
  <2>2. [v EXCEPT !.username = FieldView(k, s)]
          = [userid |-> u.userid, username |-> FieldView(k, s), unknown |-> u.unknown]
    BY <2>1, UserUpdates
  <2> QED
    BY <1>3, <2>2 DEF ViewOfUser, v
<1> QED
  BY <1>6, <1>7

-----------------------------------------------------------------------------
(* Every step is one of Value.                                             *)

\* Value has the same data as MessageObject: both extend MessageData.
LEMMA ValueData ==
    /\ Value!Unset = Unset /\ Value!NoUser = NoUser /\ Value!NoFocus = NoFocus
    /\ Value!Varint(3, 1) = Varint(3, 1)
    /\ \A v : Value!Given(v) = Given(v)
    /\ \A a, b : Value!MergeUser(a, b) = MergeUser(a, b)
    /\ \A a, b : Value!MergeFocus(a, b) = MergeFocus(a, b)
    /\ Unset \in Value!Fields /\ \A v \in Values \cup {0} : Given(v) \in Value!Fields
<1>1. Value!Unset = Unset /\ \A v : Value!Given(v) = Given(v)
  BY DEF Value!Unset, Unset, Value!Given, Given
<1>2. Value!NoUser = NoUser /\ Value!NoFocus = NoFocus
  BY <1>1 DEF Value!NoUser, NoUser, Value!NoFocus, NoFocus
<1>3. Value!Varint(3, 1) = Varint(3, 1)
  BY DEF Value!Varint, Varint
<1>4. \A a, b : Value!MergeField(a, b) = MergeField(a, b)
  BY DEF Value!MergeField, MergeField
<1>5. \A a, b : Value!MergeUser(a, b) = MergeUser(a, b)
  BY <1>4 DEF Value!MergeUser, MergeUser
<1>6. \A a, b : Value!MergeFocus(a, b) = MergeFocus(a, b)
  BY <1>4 DEF Value!MergeFocus, MergeFocus
<1>7. Unset \in Value!Fields /\ \A v \in Values \cup {0} : Given(v) \in Value!Fields
  BY <1>1 DEF Value!Fields
<1> QED
  BY <1>1, <1>2, <1>3, <1>5, <1>6, <1>7

ValueStep == Value!Next \/ (Views' = Views /\ Own' = Own)

MsgtypeReadsAs(m, F) == Views' = [Views EXCEPT ![m] = [Views[m] EXCEPT !.msgtype = F]]

UserReadsAs(a, u) ==
    Views' = [Views EXCEPT ![a[1]] = [Views[a[1]] EXCEPT !.ui[a[2]] = u]]

UsernameReadsAs(a, F) == UserReadsAs(a, [Value!UserAt(a) EXCEPT !.username = F])

\* A step that writes a field of Value.
LEMMA MsgtypeWritten ==
    ASSUME NEW m \in Focuses, NEW F \in Value!Fields, MsgtypeReadsAs(m, F), Own' = Own
    PROVE  ValueStep
<1>1. Value!WriteField(m)
  BY DEF Value!WriteField, Value!Becomes, MsgtypeReadsAs
<1> QED
  BY <1>1 DEF Value!Next, ValueStep

\* The same for the fields of a userinfo.
LEMMA UserWritten ==
    ASSUME ReadInv, NEW a \in Elements, NEW F \in Value!Fields, Own' = Own,
           \/ UserReadsAs(a, [Value!UserAt(a) EXCEPT !.userid = F])
           \/ UsernameReadsAs(a, F)
    PROVE  ValueStep
<1>1. a \in Value!Users /\ a[1] \in Focuses
  BY ElementIs
<1>2. Value!WriteField(a[1])
  BY <1>1 DEF Value!WriteField, Value!UserBecomes, Value!Becomes, UserReadsAs, UsernameReadsAs
<1> QED
  BY <1>1, <1>2 DEF Value!Next, ValueStep

\* A string field that a setter has written.
LEMMA SetIsValue ==
    ASSUME ReadInv, ObjectInv', NEW m \in Focuses, NEW v \in Values, set_msgtype(m, v)
    PROVE  ReadInv' /\ ValueStep
<1> DEFINE f == focus[m].msgtype
           r == SetString(f, heap, v)
<1>1. FieldOK(f, heap) /\ Clean(heap, f) /\ v \in Nat
  BY ReadFacts, ReadableFields, ObjectAssumption DEF Sound, CleanFocus
<1>2. HasNew(f, heap) /\ hand' = hand
      /\ focus' = [focus EXCEPT ![m].msgtype = r.f] /\ heap' = r.h
  BY RoomNew DEF set_msgtype, MsgtypeBecomes
<1> HIDE DEF f
<1>3. FieldView(r.h, r.f) = Given(v) /\ Clean(r.h, r.f) /\ StayBut(heap, r.h, {f.ptr})
  BY <1>1, <1>2, SetReads
<1> HIDE DEF r
<1>4. ReadInv' /\ MsgtypeReadsAs(m, FieldView(r.h, r.f)) /\ Own' = Own
  BY <1>2, <1>3, MsgtypeStepReads DEF f, MsgtypeReadsAs
<1> QED
  BY <1>3, <1>4, MsgtypeWritten, ValueData

\* When the field was set already mutable_...() changes no value.
LEMMA MutableIsValue ==
    ASSUME ReadInv, ObjectInv', NEW m \in Focuses, mutable_msgtype(m)
    PROVE  ReadInv' /\ ValueStep
<1> DEFINE f == focus[m].msgtype
           r == MutableString(f, heap)
           F == FieldView(r.h, r.f)
<1>1. FieldOK(f, heap) /\ Clean(heap, f)
  BY ReadFacts, ReadableFields DEF Sound, CleanFocus
<1>2. HasNew(f, heap) /\ hand' = hand
      /\ focus' = [focus EXCEPT ![m].msgtype = r.f] /\ heap' = r.h
  BY RoomNew DEF mutable_msgtype, MsgtypeBecomes
<1> HIDE DEF f
<1>3. F = Given(Content(heap, f.ptr)) /\ Clean(r.h, r.f) /\ StayBut(heap, r.h, {f.ptr})
  <2>1. StayBut(heap, r.h, {})
    BY <1>1, <1>2, MutableReads
  <2> QED
    BY <1>1, <1>2, <2>1, MutableReads DEF StayBut
<1> HIDE DEF r
<1>4. ReadInv' /\ MsgtypeReadsAs(m, F) /\ Own' = Own
  BY <1>2, <1>3, MsgtypeStepReads DEF f, MsgtypeReadsAs
<1>5. CASE f.has
  <2>1. f.has = TRUE
    BY <1>1, <1>5 DEF FieldOK, StringField
  <2>2. Views[m].msgtype = F
    BY <1>3, <2>1, ViewsAt DEF FieldView, Given, f
  <2>3. Views' = Views
    <3>1. Views[m] = [msgtype |-> Views[m].msgtype, ui |-> Views[m].ui,
                      unknown |-> Views[m].unknown]
      BY ViewsAt
    <3>2. [Views[m] EXCEPT !.msgtype = F] = Views[m]
      BY <2>2, <3>1, ValueUpdates
    <3>3. Views = [n \in Focuses |-> Views[n]]
      BY DEF Views
    <3> QED
      BY <1>4, <3>2, <3>3 DEF MsgtypeReadsAs
  <2> QED
    BY <1>4, <2>3 DEF ValueStep
<1>6. CASE ~f.has
  <2>1. F = Given(0)
    BY <1>1, <1>3, <1>6 DEF Clean
  <2> QED
    BY <1>4, <2>1, MsgtypeWritten, ValueData
<1> QED
  BY <1>5, <1>6

\* A string field that was cleared.
LEMMA ClearIsValue ==
    ASSUME ReadInv, ObjectInv', NEW m \in Focuses, clear_msgtype(m)
    PROVE  ReadInv' /\ ValueStep
<1> DEFINE f == focus[m].msgtype
           r == ClearString(f, heap)
<1>1. FieldOK(f, heap)
  BY ReadFacts, ReadableFields DEF Sound
<1>2. hand' = hand /\ focus' = [focus EXCEPT ![m].msgtype = r.f] /\ heap' = r.h
  BY DEF clear_msgtype, MsgtypeBecomes
<1> HIDE DEF f
<1>3. FieldView(r.h, r.f) = Unset /\ Clean(r.h, r.f) /\ StayBut(heap, r.h, {f.ptr})
  BY <1>1, ClearReads
<1> HIDE DEF r
<1>4. ReadInv' /\ MsgtypeReadsAs(m, FieldView(r.h, r.f)) /\ Own' = Own
  BY <1>2, <1>3, MsgtypeStepReads DEF f, MsgtypeReadsAs
<1> QED
  BY <1>3, <1>4, MsgtypeWritten, ValueData

\* The caller gets the string of a field, or NULL: the string of a field that
\* is not set reads as empty.
LEMMA HandedOver ==
    ASSUME ReadInv, NEW f, FieldOK(f, heap), Clean(heap, f), hand = Empty,
           hand' = f.ptr, heap' = heap
    PROVE  Own = <<>> /\ Value!Handed(FieldView(heap, f))
<1>1. OwnIs(Own, hand, heap) /\ OwnIs(Own', f.ptr, heap)
  BY ViewsNow
<1>2. Own = <<>> /\ Own' = IF f.ptr = Empty THEN <<>> ELSE <<heap[f.ptr]>>
  BY <1>1 DEF OwnIs
<1>3. FieldView(heap, f).has = f.has /\ FieldView(heap, f).val = Content(heap, f.ptr)
  BY DEF FieldView
<1>4. CASE f.has
  BY <1>2, <1>3, <1>4 DEF Clean, Content, Value!Handed
<1>5. CASE ~f.has
  BY <1>2, <1>3, <1>5 DEF Clean, Content, Value!Handed
<1> QED
  BY <1>2, <1>4, <1>5

\* A field without a string, and a heap that does not change.
LEMMA NoStringReads ==
    /\ NoString \in StringField /\ \A h : FieldView(h, NoString) = Unset /\ Clean(h, NoString)
    /\ \A h, S : StayBut(h, h, S)
  BY DEF NoString, StringField, FieldView, Unset, Clean, Content, StayBut

\* A string field whose string the caller took.
LEMMA ReleaseIsValue ==
    ASSUME ReadInv, ObjectInv', NEW m \in Focuses, release_msgtype(m)
    PROVE  ReadInv' /\ ValueStep
<1> DEFINE f == focus[m].msgtype
<1>1. FieldOK(f, heap) /\ Clean(heap, f)
  BY ReadFacts, ReadableFields DEF Sound, CleanFocus
<1>2. /\ hand = Empty /\ hand' = f.ptr /\ heap' = heap
      /\ focus' = [focus EXCEPT ![m].msgtype = NoString]
  BY DEF release_msgtype, MsgtypeBecomes, ReleaseString
<1>3. ReadInv' /\ MsgtypeReadsAs(m, FieldView(heap, NoString))
  BY <1>2, NoStringReads, MsgtypeStepReads DEF MsgtypeReadsAs
<1>4. Own = <<>> /\ Value!Handed(Views[m].msgtype)
  <2>1. Views[m].msgtype = FieldView(heap, f)
    BY ViewsAt
  <2> QED
    BY <1>1, <1>2, <2>1, HandedOver
<1>5. MsgtypeReadsAs(m, Value!Unset)
  BY <1>3, NoStringReads, ValueData
<1>6. Value!Release(m)
  BY <1>4, <1>5 DEF Value!Release, MsgtypeReadsAs
<1> QED
  BY <1>3, <1>6 DEF Value!Next, ValueStep

\* The field takes the string of the caller, and deletes its own.
LEMMA TakenOver ==
    ASSUME ReadInv, NEW m \in Focuses, NEW f, f.ptr \in StringsOf(focus[m])
    PROVE  LET r == SetAllocatedString(f, heap, hand)
           IN  /\ r.f \in StringField /\ Clean(r.h, r.f)
               /\ StayBut(heap, r.h, {f.ptr})
               /\ FieldView(r.h, r.f) = IF Own = <<>> THEN Unset ELSE Given(Own[1])
<1> DEFINE r == SetAllocatedString(f, heap, hand)
<1>1. /\ r.f = (IF hand = Empty THEN NoString ELSE [has |-> TRUE, ptr |-> hand])
      /\ r.h = Delete(heap, f.ptr)
  BY DEF SetAllocatedString
<1>2. hand \in Strs \cup {Empty} /\ (hand # Empty => hand \in DOMAIN heap /\ hand # f.ptr)
  BY ReadFacts DEF ReadInv, ObjectInv, Good
<1>3. Own = IF hand = Empty THEN <<>> ELSE <<heap[hand]>>
  BY ViewsNow DEF OwnIs
<1> HIDE DEF r
<1>4. StayBut(heap, r.h, {f.ptr})
  BY <1>1 DEF StayBut, Delete
<1>5. CASE hand = Empty
  BY <1>1, <1>3, <1>4, <1>5, NoStringReads DEF r
<1>6. CASE hand # Empty
  <2>1. r.f.has = TRUE /\ r.f.ptr = hand /\ r.f \in StringField
    BY <1>1, <1>2, <1>6 DEF StringField
  <2>2. Content(r.h, hand) = heap[hand]
    BY <1>1, <1>2, <1>6 DEF Content, Delete
  <2>3. Own = <<heap[hand]>> /\ Own # <<>> /\ Own[1] = heap[hand]
    BY <1>3, <1>6
  <2>4. Clean(r.h, r.f) /\ FieldView(r.h, r.f) = Given(Own[1])
    BY <1>6, <2>1, <2>2, <2>3 DEF Clean, FieldView, Given
  <2> QED
    BY <1>4, <2>1, <2>3, <2>4 DEF r
<1> QED
  BY <1>5, <1>6

\* A string field that the caller gave a string to.
LEMMA SetAllocatedIsValue ==
    ASSUME ReadInv, ObjectInv', NEW m \in Focuses, set_allocated_msgtype(m)
    PROVE  ReadInv' /\ ValueStep
<1> DEFINE f == focus[m].msgtype
           r == SetAllocatedString(f, heap, hand)
           F == IF Own = <<>> THEN Value!Unset ELSE Value!Given(Own[1])
<1>1. f.ptr \in StringsOf(focus[m])
  BY ReadFacts, SlotOfElement DEF StringsOf
<1>2. focus' = [focus EXCEPT ![m].msgtype = r.f] /\ heap' = r.h /\ hand' = Empty
  BY DEF set_allocated_msgtype, MsgtypeBecomes
<1> HIDE DEF f
<1>3. /\ Clean(r.h, r.f) /\ StayBut(heap, r.h, {f.ptr})
      /\ FieldView(r.h, r.f) = F
  BY <1>1, TakenOver, ValueData
<1> HIDE DEF r
<1>4. ReadInv' /\ MsgtypeReadsAs(m, FieldView(r.h, r.f))
  BY <1>2, <1>3, MsgtypeStepReads DEF f, MsgtypeReadsAs
<1>5. Own' = <<>>
  BY <1>2, ViewsNow DEF OwnIs
<1>6. Value!SetAllocated(m)
  BY <1>3, <1>4, <1>5 DEF Value!SetAllocated, MsgtypeReadsAs
<1> QED
  BY <1>4, <1>6 DEF Value!Next, ValueStep

\* A userinfo that is written as it was.
LEMMA UserStays ==
    ASSUME ReadInv, NEW a \in Elements, UserReadsAs(a, Value!UserAt(a))
    PROVE  Views' = Views
<1> DEFINE m == a[1]
           i == a[2]
           b == Views[m].ui
<1>1. m \in Focuses /\ i \in 1 .. focus[m].n
  BY ElementIs
<1>2. Views' = [Views EXCEPT ![m] = [Views[m] EXCEPT !.ui[i] = b[i]]]
  BY DEF UserReadsAs, Value!UserAt
<1>3. Views[m] = [msgtype |-> Views[m].msgtype, ui |-> b, unknown |-> Views[m].unknown]
      /\ b = ViewsOf(heap, focus[m])
  BY <1>1, ViewsAt
<1> HIDE DEF m, i
<1>4. [b EXCEPT ![i] = b[i]] = b
  <2> HIDE DEF b
  <2> QED
    BY <1>3 DEF ViewsOf
<1>5. [Views[m] EXCEPT !.ui[i] = b[i]] = [Views[m] EXCEPT !.ui = [b EXCEPT ![i] = b[i]]]
  OBVIOUS
<1> HIDE DEF b
<1>6. [Views[m] EXCEPT !.ui = b] = Views[m]
  BY <1>3, ValueUpdates
<1>7. Views = [n \in Focuses |-> Views[n]]
  BY DEF Views
<1> QED
  BY <1>2, <1>4, <1>5, <1>6, <1>7

\* The same for a username.
LEMMA SetUsernameIsValue ==
    ASSUME ReadInv, ObjectInv', NEW a \in Elements, NEW v \in Values, set_username(a, v)
    PROVE  ReadInv' /\ ValueStep
<1> DEFINE f == ElementAt(a).username
           r == SetString(f, heap, v)
<1>1. FieldOK(f, heap) /\ Clean(heap, f) /\ v \in Nat
  BY ElementIs, ObjectAssumption DEF CleanUser
<1>2. /\ HasNew(f, heap) /\ hand' = hand
      /\ focus' = [focus EXCEPT ![a[1]].ui[a[2]].username = r.f] /\ heap' = r.h
  BY RoomNew DEF set_username, UsernameBecomes
<1> HIDE DEF f
<1>3. /\ FieldView(r.h, r.f) = Given(v) /\ Clean(r.h, r.f) /\ StayBut(heap, r.h, {f.ptr})
      /\ r.f \in StringField
  BY <1>1, <1>2, SetReads, SetStringKept DEF FieldKept
<1> HIDE DEF r
<1>4. ReadInv' /\ UsernameReadsAs(a, FieldView(r.h, r.f)) /\ Own' = Own
  BY <1>2, <1>3, UsernameStepReads DEF f, UsernameReadsAs, UserReadsAs
<1> QED
  BY <1>3, <1>4, UserWritten, ValueData

LEMMA MutableUsernameIsValue ==
    ASSUME ReadInv, ObjectInv', NEW a \in Elements, mutable_username(a)
    PROVE  ReadInv' /\ ValueStep
<1> DEFINE f == ElementAt(a).username
           r == MutableString(f, heap)
           F == FieldView(r.h, r.f)
<1>1. FieldOK(f, heap) /\ Clean(heap, f)
  BY ElementIs DEF CleanUser
<1>2. /\ HasNew(f, heap) /\ hand' = hand
      /\ focus' = [focus EXCEPT ![a[1]].ui[a[2]].username = r.f] /\ heap' = r.h
  BY RoomNew DEF mutable_username, UsernameBecomes
<1> HIDE DEF f
<1>3. /\ F = Given(Content(heap, f.ptr)) /\ Clean(r.h, r.f) /\ StayBut(heap, r.h, {f.ptr})
      /\ r.f \in StringField
  <2>1. StayBut(heap, r.h, {})
    BY <1>1, <1>2, MutableReads
  <2> QED
    BY <1>1, <1>2, <2>1, MutableReads, MutableStringKept DEF StayBut, FieldKept
<1> HIDE DEF r
<1>4. ReadInv' /\ UsernameReadsAs(a, F) /\ Own' = Own
  BY <1>2, <1>3, UsernameStepReads DEF f, UsernameReadsAs, UserReadsAs
<1>5. CASE f.has
  <2>1. f.has = TRUE
    BY <1>1, <1>5 DEF FieldOK, StringField
  <2>2. Value!UserAt(a) = [userid |-> ElementAt(a).userid, username |-> F,
                           unknown |-> ElementAt(a).unknown]
    <3>1. Value!UserAt(a) = ViewOfUser(heap, ElementAt(a))
      BY ElementIs
    <3> QED
      BY <1>3, <2>1, <3>1 DEF ViewOfUser, FieldView, Given, f
  <2>3. [Value!UserAt(a) EXCEPT !.username = F] = Value!UserAt(a)
    BY <2>2, UserUpdates
  <2>4. Views' = Views
    BY <1>4, <2>3, UserStays DEF UsernameReadsAs
  <2> QED
    BY <1>4, <2>4 DEF ValueStep
<1>6. CASE ~f.has
  <2>1. F = Given(0)
    BY <1>1, <1>3, <1>6 DEF Clean
  <2> QED
    BY <1>4, <2>1, UserWritten, ValueData
<1> QED
  BY <1>5, <1>6

LEMMA ClearUsernameIsValue ==
    ASSUME ReadInv, ObjectInv', NEW a \in Elements, clear_username(a)
    PROVE  ReadInv' /\ ValueStep
<1> DEFINE f == ElementAt(a).username
           r == ClearString(f, heap)
<1>1. FieldOK(f, heap)
  BY ElementIs
<1>2. /\ hand' = hand
      /\ focus' = [focus EXCEPT ![a[1]].ui[a[2]].username = r.f] /\ heap' = r.h
  BY DEF clear_username, UsernameBecomes
<1> HIDE DEF f
<1>3. /\ FieldView(r.h, r.f) = Unset /\ Clean(r.h, r.f) /\ StayBut(heap, r.h, {f.ptr})
      /\ r.f \in StringField
  BY <1>1, ClearReads, ClearStringKept DEF FieldKept
<1> HIDE DEF r
<1>4. ReadInv' /\ UsernameReadsAs(a, FieldView(r.h, r.f)) /\ Own' = Own
  BY <1>2, <1>3, UsernameStepReads DEF f, UsernameReadsAs, UserReadsAs
<1> QED
  BY <1>3, <1>4, UserWritten, ValueData

\* The username of userinfo a, as Value writes it.
LEMMA UsernameOf ==
    ASSUME ReadInv, NEW a \in Elements, NEW F, UsernameReadsAs(a, F)
    PROVE  /\ a[1] \in Focuses /\ a[2] \in DOMAIN Views[a[1]].ui
           /\ Views[a[1]].ui[a[2]].username = FieldView(heap, ElementAt(a).username)
           /\ Views' = [Views EXCEPT ![a[1]].ui[a[2]].username = F]
<1>1. a[1] \in Focuses /\ a[2] \in 1 .. focus[a[1]].n
      /\ Value!UserAt(a) = ViewOfUser(heap, ElementAt(a))
  BY ElementIs
<1>2. a[2] \in DOMAIN Views[a[1]].ui
  BY <1>1, ViewsAt DEF ViewsOf
<1>3. Views[a[1]].ui[a[2]].username = FieldView(heap, ElementAt(a).username)
  BY <1>1 DEF Value!UserAt, ViewOfUser
<1>4. Views' = [Views EXCEPT ![a[1]].ui[a[2]].username = F]
  BY DEF UsernameReadsAs, UserReadsAs, Value!UserAt
<1> QED
  BY <1>1, <1>2, <1>3, <1>4

LEMMA ReleaseUsernameIsValue ==
    ASSUME ReadInv, ObjectInv', NEW a \in Elements, release_username(a)
    PROVE  ReadInv' /\ ValueStep
<1> DEFINE f == ElementAt(a).username
<1>1. FieldOK(f, heap) /\ Clean(heap, f) /\ a[1] \in Focuses
  BY ElementIs DEF CleanUser
<1>2. /\ hand = Empty /\ hand' = f.ptr /\ heap' = heap
      /\ focus' = [focus EXCEPT ![a[1]].ui[a[2]].username = NoString]
  BY DEF release_username, UsernameBecomes, ReleaseString
<1>3. ReadInv' /\ UsernameReadsAs(a, FieldView(heap, NoString))
  BY <1>2, NoStringReads, UsernameStepReads DEF UsernameReadsAs, UserReadsAs
<1>4. UsernameReadsAs(a, Value!Unset)
  BY <1>3, NoStringReads, ValueData
<1>5. Own = <<>> /\ Value!Handed(FieldView(heap, f))
  BY <1>1, <1>2, HandedOver
<1> HIDE DEF f
<1>6. Value!Release(a[1])
  <2>1. /\ a[2] \in DOMAIN Views[a[1]].ui
        /\ Views[a[1]].ui[a[2]].username = FieldView(heap, f)
        /\ Views' = [Views EXCEPT ![a[1]].ui[a[2]].username = Value!Unset]
    BY <1>4, UsernameOf DEF f
  <2> QED
    BY <1>5, <2>1 DEF Value!Release
<1> QED
  BY <1>1, <1>3, <1>6 DEF Value!Next, ValueStep

LEMMA SetAllocatedUsernameIsValue ==
    ASSUME ReadInv, ObjectInv', NEW a \in Elements, set_allocated_username(a)
    PROVE  ReadInv' /\ ValueStep
<1> DEFINE f == ElementAt(a).username
           r == SetAllocatedString(f, heap, hand)
           F == IF Own = <<>> THEN Value!Unset ELSE Value!Given(Own[1])
<1>1. a[1] \in Focuses /\ f.ptr \in StringsOf(focus[a[1]])
  BY ElementIs
<1>2. /\ focus' = [focus EXCEPT ![a[1]].ui[a[2]].username = r.f]
      /\ heap' = r.h /\ hand' = Empty
  BY DEF set_allocated_username, UsernameBecomes
<1> HIDE DEF f
<1>3. /\ r.f \in StringField /\ Clean(r.h, r.f) /\ StayBut(heap, r.h, {f.ptr})
      /\ FieldView(r.h, r.f) = F
  BY <1>1, TakenOver, ValueData
<1> HIDE DEF r, F
<1>4. ReadInv' /\ UsernameReadsAs(a, FieldView(r.h, r.f))
  BY <1>2, <1>3, UsernameStepReads DEF f, UsernameReadsAs, UserReadsAs
<1>5. Own' = <<>>
  BY <1>2, ViewsNow DEF OwnIs
<1>6. Value!SetAllocated(a[1])
  <2>1. /\ a[2] \in DOMAIN Views[a[1]].ui
        /\ Views' = [Views EXCEPT ![a[1]].ui[a[2]].username = F]
    BY <1>3, <1>4, UsernameOf
  <2> QED
    BY <1>5, <2>1 DEF Value!SetAllocated, F
<1> QED
  BY <1>1, <1>4, <1>6 DEF Value!Next, ValueStep

-----------------------------------------------------------------------------
(* Strings of the caller's own.                                            *)

LEMMA NewStringIsValue ==
    ASSUME ReadInv, ObjectInv', NEW v \in Values, NewOwnString(v)
    PROVE  ReadInv' /\ ValueStep
<1>1. HeapOK(heap) /\ \A m \in Focuses : Sound(focus[m], heap)
  BY ReadFacts
<1>2. hand = Empty /\ focus' = focus /\ hand' = New(heap) /\ heap' = Stored(heap, hand', v)
  BY DEF NewOwnString
<1>3. hand' \in Strs \ DOMAIN heap
  BY <1>1, <1>2, RoomNew, HeapFacts DEF NewOwnString
<1>4. hand' # Empty /\ heap'[hand'] = v /\ StayBut(heap, heap', {})
  <2>1. hand' # Empty
    BY <1>3 DEF Strs, Empty
  <2> QED
    BY <1>2, <1>3, <2>1 DEF Stored, StayBut
<1>5. ReadInv' /\ Views' = Views
  <2>1. \A m \in Focuses : Avoids(focus[m], {})
    BY DEF Avoids
  <2> QED
    BY <1>2, <1>4, <2>1, OwnReads
<1>6. Own = <<>> /\ Own' = <<v>>
  BY <1>2, <1>4, ViewsNow DEF OwnIs
<1>7. Value!OwnString
  BY <1>5, <1>6 DEF Value!OwnString
<1> QED
  BY <1>5, <1>7 DEF Value!Next, ValueStep

LEMMA DeleteStringIsValue ==
    ASSUME ReadInv, ObjectInv', DeleteOwnString
    PROVE  ReadInv' /\ ValueStep
<1>1. /\ hand # Empty /\ focus' = focus /\ heap' = Delete(heap, hand) /\ hand' = Empty
  BY DEF DeleteOwnString
<1>2. StayBut(heap, heap', {hand})
  BY <1>1 DEF Delete, StayBut
<1>3. \A m \in Focuses : Avoids(focus[m], {hand})
  BY <1>1, ReadFacts DEF Avoids, StringsOf
<1>4. ReadInv' /\ Views' = Views
  BY <1>1, <1>2, <1>3, OwnReads
<1>5. Own # <<>> /\ Own' = <<>>
  <2>1. Own = <<heap[hand]>> /\ Own' = <<>>
    BY <1>1, ViewsNow DEF OwnIs
  <2> QED
    BY <2>1
<1>6. Value!OwnString
  BY <1>4, <1>5 DEF Value!OwnString
<1> QED
  BY <1>4, <1>6 DEF Value!Next, ValueStep

-----------------------------------------------------------------------------
(* Calls on whole messages.                                                *)

\* A call on message m that changes strings of m only.
LEMMA FocusReads ==
    ASSUME ReadInv, ObjectInv', NEW m \in Focuses, NEW r, FocusBecomes(m, r), hand' = hand,
           StayBut(heap, r.h, StringsOf(focus[m])), CleanFocus(r.h, r.x)
    PROVE  ReadInv' /\ Value!Becomes(m, ViewOf(r.h, r.x))
<1>1. focus' = [focus EXCEPT ![m] = r.x] /\ heap' = r.h
  BY DEF FocusBecomes
<1>2. /\ ReadInv' /\ Views' = [Views EXCEPT ![m] = ViewOf(r.h, r.x)]
      /\ Own' = Own
  BY <1>1, MessageReads
<1> QED
  BY <1>2 DEF Value!Becomes

LEMMA AddIsValue ==
    ASSUME ReadInv, ObjectInv', NEW m \in Focuses, add_ui(m)
    PROVE  ReadInv' /\ ValueStep
<1> DEFINE r == [x |-> AddElements(focus[m], 1), h |-> heap]
<1>1. r.x = AddElements(focus[m], 1) /\ r.h = heap /\ FocusBecomes(m, r) /\ hand' = hand
  BY DEF add_ui, FocusBecomes
<1> HIDE DEF r
<1>2. Sound(focus[m], heap)
  BY ReadFacts
<1>3. /\ ViewOf(r.h, r.x) = [msgtype |-> Views[m].msgtype,
                             ui |-> Append(Views[m].ui, NoUser),
                             unknown |-> Views[m].unknown]
      /\ CleanFocus(r.h, r.x)
  <2>1. /\ ViewOf(r.h, r.x) = [msgtype |-> FieldView(heap, focus[m].msgtype),
                               ui |-> Append(ViewsOf(heap, focus[m]), NoUser),
                               unknown |-> focus[m].unknown]
        /\ CleanFocus(r.h, r.x)
    BY <1>1, <1>2, AddOneReads
  <2>2. /\ Views[m].msgtype = FieldView(heap, focus[m].msgtype)
        /\ Views[m].ui = ViewsOf(heap, focus[m]) /\ Views[m].unknown = focus[m].unknown
    BY ViewsAt
  <2> QED
    BY <2>1, <2>2
<1>4. StayBut(heap, r.h, StringsOf(focus[m]))
  BY <1>1, NoStringReads
<1>5. ReadInv' /\ Value!Becomes(m, ViewOf(r.h, r.x))
  BY <1>1, <1>3, <1>4, FocusReads
<1>6. [Views[m] EXCEPT !.ui = Append(@, Value!NoUser)] = ViewOf(r.h, r.x)
  <2> DEFINE w == Append(Views[m].ui, NoUser)
  <2>1. Views[m] = [msgtype |-> Views[m].msgtype, ui |-> Views[m].ui,
                    unknown |-> Views[m].unknown]
    BY ViewsAt
  <2>2. [Views[m] EXCEPT !.ui = Append(@, Value!NoUser)] = [Views[m] EXCEPT !.ui = w]
    BY ValueData
  <2> HIDE DEF w
  <2>3. [Views[m] EXCEPT !.ui = w] = [msgtype |-> Views[m].msgtype, ui |-> w,
                                      unknown |-> Views[m].unknown]
    BY <2>1, ValueUpdates
  <2> QED
    BY <1>3, <2>2, <2>3 DEF w
<1>7. Value!WholeMessage(m)
  BY <1>5, <1>6 DEF Value!WholeMessage
<1> QED
  BY <1>5, <1>7 DEF Value!Next, ValueStep

LEMMA ClearUiIsValue ==
    ASSUME ReadInv, ObjectInv', NEW m \in Focuses, clear_ui(m)
    PROVE  ReadInv' /\ ValueStep
<1> DEFINE r == ClearElements(focus[m], heap)
<1>1. FocusBecomes(m, r) /\ hand' = hand
  BY DEF clear_ui
<1>2. Sound(focus[m], heap)
  BY ReadFacts
<1>3. /\ ViewOf(r.h, r.x) = [msgtype |-> Views[m].msgtype, ui |-> <<>>,
                             unknown |-> Views[m].unknown]
      /\ CleanFocus(r.h, r.x) /\ StayBut(heap, r.h, StringsOf(focus[m]))
  <2>1. /\ ViewOf(r.h, r.x) = [msgtype |-> FieldView(heap, focus[m].msgtype),
                               ui |-> <<>>, unknown |-> focus[m].unknown]
        /\ CleanFocus(r.h, r.x) /\ StayBut(heap, r.h, StringsOf(focus[m]))
    BY <1>2, ClearElementsReads
  <2>2. /\ Views[m].msgtype = FieldView(heap, focus[m].msgtype)
        /\ Views[m].unknown = focus[m].unknown
    BY ViewsAt
  <2> QED
    BY <2>1, <2>2
<1> HIDE DEF r
<1>4. ReadInv' /\ Value!Becomes(m, ViewOf(r.h, r.x))
  BY <1>1, <1>3, FocusReads
<1>5. [Views[m] EXCEPT !.ui = <<>>] = ViewOf(r.h, r.x)
  <2>1. Views[m] = [msgtype |-> Views[m].msgtype, ui |-> Views[m].ui,
                    unknown |-> Views[m].unknown]
    BY ViewsAt
  <2> QED
    BY <1>3, <2>1, ValueUpdates
<1>6. Value!WholeMessage(m)
  BY <1>4, <1>5 DEF Value!WholeMessage
<1> QED
  BY <1>4, <1>6 DEF Value!Next, ValueStep

LEMMA ClearMessageIsValue ==
    ASSUME ReadInv, ObjectInv', NEW m \in Focuses, Clear(m)
    PROVE  ReadInv' /\ ValueStep
<1> DEFINE r == FocusClear(focus[m], heap)
<1>1. FocusBecomes(m, r) /\ hand' = hand
  BY DEF Clear
<1>2. Sound(focus[m], heap)
  BY ReadFacts
<1>3. /\ ViewOf(r.h, r.x) = NoFocus
      /\ CleanFocus(r.h, r.x) /\ StayBut(heap, r.h, StringsOf(focus[m]))
  BY <1>2, FocusClearReads
<1> HIDE DEF r
<1>4. ReadInv' /\ Value!Becomes(m, ViewOf(r.h, r.x))
  BY <1>1, <1>3, FocusReads
<1>5. Value!WholeMessage(m)
  BY <1>3, <1>4, ValueData DEF Value!WholeMessage
<1> QED
  BY <1>4, <1>5 DEF Value!Next, ValueStep

LEMMA DestroyIsValue ==
    ASSUME ReadInv, ObjectInv', NEW m \in Focuses, Destroy(m)
    PROVE  ReadInv' /\ ValueStep
<1> DEFINE S == OwnedBy(m)
           r == [x |-> NewFocus, h |-> [p \in DOMAIN heap \ S |-> heap[p]]]
<1>1. /\ r.x = NewFocus /\ r.h = [p \in DOMAIN heap \ S |-> heap[p]]
      /\ FocusBecomes(m, r) /\ hand' = hand
  BY DEF Destroy, FocusBecomes
<1> HIDE DEF r, S
<1>2. Sound(focus[m], heap) /\ FocusOK(focus[m])
  BY ReadFacts
<1>3. S \subseteq StringsOf(focus[m])
  <2>1. DOMAIN focus[m].ui = 1 .. Len(focus[m].ui)
    BY <1>2, FocusFacts
  <2> QED
    BY <1>2, <2>1, SlotOfElement DEF S, OwnedBy, StringsOf
<1>4. StayBut(heap, r.h, StringsOf(focus[m]))
  BY <1>1, <1>3 DEF StayBut
<1>5. ViewOf(r.h, r.x) = NoFocus /\ CleanFocus(r.h, r.x)
  <2>1. /\ r.x.msgtype = NoString /\ r.x.ui = <<>> /\ r.x.n = 0 /\ r.x.unknown = <<>>
        /\ Len(r.x.ui) = 0
    BY <1>1 DEF NewFocus
  <2>2. FieldView(r.h, NoString) = Unset /\ Clean(r.h, NoString)
    BY NoStringReads
  <2>3. [i \in 1 .. 0 |-> ViewOfUser(r.h, r.x.ui[i])] = <<>>
    <3>1. 1 .. 0 = {}
      OBVIOUS
    <3> QED
      BY <3>1
  <2> QED
    BY <2>1, <2>2, <2>3 DEF ViewOf, CleanFocus, NoFocus
<1>6. ReadInv' /\ Value!Becomes(m, ViewOf(r.h, r.x))
  BY <1>1, <1>4, <1>5, FocusReads
<1>7. Value!WholeMessage(m)
  BY <1>5, <1>6, ValueData DEF Value!WholeMessage
<1> QED
  BY <1>6, <1>7 DEF Value!Next, ValueStep

LEMMA KeepUnknownIsValue ==
    ASSUME ReadInv, ObjectInv', NEW m \in Focuses, KeepUnknown(m)
    PROVE  ReadInv' /\ ValueStep
<1> DEFINE f == focus[m]
           w == Append(f.unknown, Varint(3, 1))
           r == [x |-> WithMsgtype(f, f.msgtype, w), h |-> heap]
<1>1. /\ focus' = [focus EXCEPT ![m] = [f EXCEPT !.unknown = w]]
      /\ heap' = heap /\ hand' = hand
  BY DEF KeepUnknown
<1>2. Sound(f, heap) /\ FocusOK(f)
  BY ReadFacts
<1>3. Clean(heap, f.msgtype)
  BY <1>2 DEF Sound, CleanFocus
<1> HIDE DEF w
<1>4. [f EXCEPT !.unknown = w] = WithMsgtype(f, f.msgtype, w)
  <2>1. f = [msgtype |-> f.msgtype, ui |-> f.ui, n |-> f.n, unknown |-> f.unknown]
    BY <1>2, FocusFacts
  <2> HIDE DEF f
  <2>2. [f EXCEPT !.unknown = w]
           = [msgtype |-> f.msgtype, ui |-> f.ui, n |-> f.n, unknown |-> w]
    BY <2>1
  <2> QED
    BY <2>2 DEF WithMsgtype
<1>5. FocusBecomes(m, r) /\ r.h = heap /\ r.x = WithMsgtype(f, f.msgtype, w)
  BY <1>1, <1>4 DEF FocusBecomes
<1> HIDE DEF r
<1>6. /\ ViewOf(r.h, r.x) = [msgtype |-> FieldView(heap, f.msgtype),
                             ui |-> ViewsOf(heap, f), unknown |-> w]
      /\ CleanFocus(r.h, r.x)
  <2>1. StayBut(heap, heap, {f.msgtype.ptr})
    BY NoStringReads
  <2> QED
    BY <1>2, <1>3, <1>5, <2>1, MsgtypeReads
<1>7. StayBut(heap, r.h, StringsOf(f))
  BY <1>5, NoStringReads
<1>8. ReadInv' /\ Value!Becomes(m, ViewOf(r.h, r.x))
  BY <1>1, <1>5, <1>6, <1>7, FocusReads
<1>9. [Views[m] EXCEPT !.unknown = Append(@, Value!Varint(3, 1))] = ViewOf(r.h, r.x)
  <2>1. Views[m] = [msgtype |-> FieldView(heap, f.msgtype), ui |-> ViewsOf(heap, f),
                    unknown |-> f.unknown]
    BY ViewsAt
  <2>2. [Views[m] EXCEPT !.unknown = Append(@, Value!Varint(3, 1))]
          = [Views[m] EXCEPT !.unknown = w]
    <3>1. Views[m].unknown = f.unknown
      BY ViewsAt
    <3> QED
      BY <3>1, ValueData DEF w
  <2> QED
    BY <1>6, <2>1, <2>2, ValueUpdates
<1>10. Value!KeepUnknown(m, Value!Varint(3, 1))
  BY <1>8, <1>9 DEF Value!KeepUnknown
<1> QED
  BY <1>8, <1>10 DEF Value!Next, ValueStep

\* Two messages of which one is merged into the other.
LEMMA MergeFacts ==
    ASSUME ReadInv, NEW m \in Focuses, NEW n \in Focuses, m # n, Room(FocusStrings(n))
    PROVE  /\ Sound(focus[m], heap) /\ Sound(focus[n], heap)
           /\ Avoids(focus[n], StringsOf(focus[m])) /\ RoomFor(focus[n], heap)
           /\ Views[m] = ViewOf(heap, focus[m]) /\ Views[n] = ViewOf(heap, focus[n])
<1>1. RoomFor(focus[n], heap)
  BY DEF Room, FocusStrings, RoomFor, WithUsername
<1> QED
  BY <1>1, ReadFacts, ViewsAt

LEMMA MergeIsValue ==
    ASSUME ReadInv, ObjectInv', NEW m \in Focuses, NEW n \in Focuses, MergeFrom(m, n)
    PROVE  ReadInv' /\ ValueStep
<1> DEFINE r == FocusMergeFrom(focus[m], heap, focus[n])
<1>1. FocusBecomes(m, r) /\ hand' = hand /\ m # n /\ Room(FocusStrings(n))
  BY DEF MergeFrom, MergeFits
<1>2. /\ ViewOf(r.h, r.x) = MergeFocus(Views[m], Views[n])
      /\ CleanFocus(r.h, r.x) /\ StayBut(heap, r.h, StringsOf(focus[m]))
  <2> HIDE DEF r
  <2>1. /\ Sound(focus[m], heap) /\ Sound(focus[n], heap)
        /\ Avoids(focus[n], StringsOf(focus[m])) /\ RoomFor(focus[n], heap)
        /\ Views[m] = ViewOf(heap, focus[m]) /\ Views[n] = ViewOf(heap, focus[n])
    BY <1>1, MergeFacts
  <2> QED
    BY <2>1, FocusMergeFromReads DEF r
<1> HIDE DEF r
<1>3. ReadInv' /\ Value!Becomes(m, ViewOf(r.h, r.x))
  BY <1>1, <1>2, FocusReads
<1>4. Value!WholeMessage(m)
  BY <1>1, <1>2, <1>3, ValueData DEF Value!WholeMessage
<1> QED
  BY <1>3, <1>4 DEF Value!Next, ValueStep

LEMMA CopyIsValue ==
    ASSUME ReadInv, ObjectInv', NEW m \in Focuses, NEW n \in Focuses, CopyFrom(m, n)
    PROVE  ReadInv' /\ ValueStep
<1> DEFINE c == FocusClear(focus[m], heap)
           r == FocusMergeFrom(c.x, c.h, focus[n])
<1>1. FocusBecomes(m, r) /\ hand' = hand /\ m # n /\ Room(FocusStrings(n))
  BY DEF CopyFrom
<1>2. /\ ViewOf(r.h, r.x) = Views[n]
      /\ CleanFocus(r.h, r.x) /\ StayBut(heap, r.h, StringsOf(focus[m]))
  <2> HIDE DEF r
  <2>1. /\ Sound(focus[m], heap) /\ Sound(focus[n], heap)
        /\ Avoids(focus[n], StringsOf(focus[m])) /\ RoomFor(focus[n], heap)
        /\ Views[n] = ViewOf(heap, focus[n])
    BY <1>1, MergeFacts
  <2> QED
    BY <2>1, CopyReads DEF r
<1> HIDE DEF r
<1>3. ReadInv' /\ Value!Becomes(m, ViewOf(r.h, r.x))
  BY <1>1, <1>2, FocusReads
<1>4. Value!WholeMessage(m)
  BY <1>1, <1>2, <1>3 DEF Value!WholeMessage
<1> QED
  BY <1>3, <1>4 DEF Value!Next, ValueStep

LEMMA SwapIsValue ==
    ASSUME ReadInv, ObjectInv', NEW m \in Focuses, NEW n \in Focuses, Swap(m, n)
    PROVE  ReadInv' /\ ValueStep
<1>1. /\ m # n /\ focus' = [focus EXCEPT ![m] = focus[n], ![n] = focus[m]]
      /\ heap' = heap /\ hand' = hand
  BY DEF Swap
<1>2. focus = [k \in Focuses |-> focus[k]]
  BY ReadFacts
<1>3. /\ focus'[m] = focus[n] /\ focus'[n] = focus[m]
      /\ \A k \in Focuses \ {m, n} : focus'[k] = focus[k]
  BY <1>1, <1>2
<1>4. ReadInv'
  BY <1>1, <1>3 DEF ReadInv
<1>5. Views' = [Views EXCEPT ![m] = Views[n], ![n] = Views[m]]
  <2>1. /\ ViewsAre(Views, focus, heap) /\ ViewsAre(Views', focus', heap)
    BY <1>1, ViewsNow
  <2> DEFINE V == Views
             W == Views'
  <2>2. /\ V = [k \in Focuses |-> V[k]] /\ W = [k \in Focuses |-> W[k]]
        /\ \A k \in Focuses : V[k] = ViewOf(heap, focus[k]) /\ W[k] = ViewOf(heap, focus'[k])
    <3> HIDE DEF V, W
    <3> QED
      BY <2>1 DEF ViewsAre, V, W
  <2> HIDE DEF V, W
  <2>3. W[m] = V[n] /\ W[n] = V[m] /\ \A k \in Focuses \ {m, n} : W[k] = V[k]
    BY <1>3, <2>2
  <2>4. W = [V EXCEPT ![m] = V[n], ![n] = V[m]]
    BY <1>1, <2>2, <2>3
  <2> QED
    BY <2>4 DEF V, W
<1>6. Own' = Own
  BY <1>1, ViewsNow DEF OwnIs
<1>7. Value!WholeMessage(m)
  BY <1>1, <1>5, <1>6 DEF Value!WholeMessage
<1> QED
  BY <1>4, <1>7 DEF Value!Next, ValueStep

-----------------------------------------------------------------------------
(* Calls on a userinfo.                                                    *)

\* The same on userinfo a.
LEMMA UserReads ==
    ASSUME ReadInv, ObjectInv', NEW a \in Elements, NEW r, UserBecomes(a, r), hand' = hand,
           r.x \in UserType, CleanUser(r.h, r.x),
           StayBut(heap, r.h, {ElementAt(a).username.ptr})
    PROVE  ReadInv' /\ Value!UserBecomes(a, ViewOfUser(r.h, r.x))
<1>1. /\ ReadInv' /\ Own' = Own
      /\ Views' = [Views EXCEPT ![a[1]] =
                     [Views[a[1]] EXCEPT !.ui[a[2]] = ViewOfUser(r.h, r.x)]]
  BY UserStepReads
<1> QED
  BY <1>1 DEF Value!UserBecomes, Value!Becomes

\* What Value has at userinfo a.
LEMMA UserIs ==
    ASSUME ReadInv, NEW a \in Elements
    PROVE  LET u == ElementAt(a)
           IN  /\ u \in UserType /\ u.unknown \in Seq(Unknowns)
               /\ FieldOK(u.username, heap) /\ CleanUser(heap, u)
               /\ u = [userid |-> u.userid, username |-> u.username, unknown |-> u.unknown]
               /\ Value!UserAt(a) = ViewOfUser(heap, u)
               /\ Value!UserAt(a) = [userid |-> u.userid,
                                     username |-> FieldView(heap, u.username),
                                     unknown |-> u.unknown]
<1> DEFINE u == ElementAt(a)
<1>1. /\ u \in UserType /\ FieldOK(u.username, heap) /\ CleanUser(heap, u)
      /\ Value!UserAt(a) = ViewOfUser(heap, u)
  BY ElementIs
<1> HIDE DEF u
<1>2. /\ u.unknown \in Seq(Unknowns)
      /\ u = [userid |-> u.userid, username |-> u.username, unknown |-> u.unknown]
  BY <1>1 DEF UserType
<1>3. Value!UserAt(a) = [userid |-> u.userid, username |-> FieldView(heap, u.username),
                         unknown |-> u.unknown]
  BY <1>1 DEF ViewOfUser
<1> QED
  BY <1>1, <1>2, <1>3 DEF u

\* set_userid and clear_userid.
LEMMA UseridIsValue ==
    ASSUME ReadInv, ObjectInv', NEW a \in Elements, NEW d,
           d = Unset \/ \E v \in Values : d = Given(v),
           focus' = [focus EXCEPT ![a[1]].ui[a[2]].userid = d],
           heap' = heap, hand' = hand
    PROVE  ReadInv' /\ ValueStep
<1> DEFINE u == ElementAt(a)
           x == [u EXCEPT !.userid = d]
           r == [x |-> x, h |-> heap]
<1>1. /\ u \in UserType /\ CleanUser(heap, u)
      /\ Value!UserAt(a) = [userid |-> u.userid, username |-> FieldView(heap, u.username),
                            unknown |-> u.unknown]
  BY UserIs
<1>2. UserBecomes(a, r) /\ r.h = heap /\ r.x = x
  BY DEF UserBecomes, ElementAt
<1> HIDE DEF u
<1>3. d \in [has : BOOLEAN, val : Nat] /\ (d.has \/ d = Unset) /\ d \in Value!Fields
  <2>1. Values \subseteq Nat
    BY ObjectAssumption
  <2>2. d \in Value!Fields
    BY ValueData
  <2>3. CASE d = Unset
    <3>1. d.has = FALSE /\ d \in [has : BOOLEAN, val : Nat]
      BY <2>3 DEF Unset
    <3> QED
      BY <2>2, <2>3, <3>1
  <2>4. ASSUME NEW v \in Values, d = Given(v)
        PROVE  d \in [has : BOOLEAN, val : Nat] /\ d.has
    BY <2>1, <2>4 DEF Given
  <2> QED
    BY <2>2, <2>3, <2>4
<1>4. x \in UserType /\ x.userid = d /\ x.username = u.username /\ x.unknown = u.unknown
  BY <1>1, <1>3 DEF UserType
<1> HIDE DEF x, r
<1>5. CleanUser(heap, x)
  BY <1>1, <1>3, <1>4 DEF CleanUser
<1>6. StayBut(heap, r.h, {u.username.ptr})
  BY <1>2, NoStringReads
<1>7. ReadInv' /\ Value!UserBecomes(a, ViewOfUser(r.h, r.x))
  BY <1>2, <1>4, <1>5, <1>6, UserReads DEF u
<1>8. ViewOfUser(r.h, r.x) = [Value!UserAt(a) EXCEPT !.userid = d]
  <2>1. [Value!UserAt(a) EXCEPT !.userid = d]
          = [userid |-> d, username |-> FieldView(heap, u.username), unknown |-> u.unknown]
    BY <1>1, UserUpdates
  <2> QED
    BY <1>2, <1>4, <2>1 DEF ViewOfUser
<1>9. UserReadsAs(a, [Value!UserAt(a) EXCEPT !.userid = d]) /\ Own' = Own
  BY <1>7, <1>8 DEF Value!UserBecomes, Value!Becomes, UserReadsAs
<1> QED
  BY <1>3, <1>7, <1>9, UserWritten

LEMMA ClearUserIsValue ==
    ASSUME ReadInv, ObjectInv', NEW a \in Elements, UserCleared(a)
    PROVE  ReadInv' /\ ValueStep
<1> DEFINE u == ElementAt(a)
           r == UserClear(u, heap)
<1>1. UserBecomes(a, r) /\ hand' = hand
  BY DEF UserCleared
<1>2. u \in UserType /\ FieldOK(u.username, heap) /\ CleanUser(heap, u)
  BY UserIs
<1> HIDE DEF u
<1>3. /\ ViewOfUser(r.h, r.x) = NoUser /\ CleanUser(r.h, r.x) /\ r.x \in UserType
      /\ StayBut(heap, r.h, {u.username.ptr})
  BY <1>2, UserClearReads, UserClearKept DEF UserKept
<1> HIDE DEF r
<1>4. ReadInv' /\ Value!UserBecomes(a, Value!NoUser)
  <2>1. ReadInv' /\ Value!UserBecomes(a, ViewOfUser(r.h, r.x))
    BY <1>1, <1>3, UserReads DEF u
  <2> QED
    BY <1>3, <2>1, ValueData
<1>5. a \in Value!Users
  BY ElementIs
<1>6. Value!WholeUser
  BY <1>4, <1>5 DEF Value!WholeUser
<1> QED
  BY <1>4, <1>6 DEF Value!Next, ValueStep

LEMMA UserKeepUnknownIsValue ==
    ASSUME ReadInv, ObjectInv', NEW a \in Elements, UserKeepUnknown(a)
    PROVE  ReadInv' /\ ValueStep
<1> DEFINE u == ElementAt(a)
           w == Append(u.unknown, Varint(3, 1))
           x == [u EXCEPT !.unknown = w]
           r == [x |-> x, h |-> heap]
<1>1. UserBecomes(a, r) /\ r.h = heap /\ r.x = x /\ hand' = hand
  BY DEF UserBecomes, ElementAt, UserKeepUnknown
<1>2. /\ u \in UserType /\ CleanUser(heap, u) /\ u.unknown \in Seq(Unknowns)
      /\ Value!UserAt(a) = [userid |-> u.userid, username |-> FieldView(heap, u.username),
                            unknown |-> u.unknown]
  BY UserIs
<1> HIDE DEF u
<1>3. w \in Seq(Unknowns)
  <2>1. Varint(3, 1) \in Unknowns
    BY DEF Unknowns
  <2> HIDE DEF Unknowns
  <2> QED
    BY <1>2, <2>1, AppendProperties
<1>4. [Value!UserAt(a) EXCEPT !.unknown = Append(@, Value!Varint(3, 1))]
        = [Value!UserAt(a) EXCEPT !.unknown = w]
  <2>1. Value!UserAt(a).unknown = u.unknown
    BY <1>2
  <2> QED
    BY <2>1, ValueData
<1> HIDE DEF w
<1>5. x \in UserType /\ x.userid = u.userid /\ x.username = u.username /\ x.unknown = w
  BY <1>2, <1>3 DEF UserType
<1> HIDE DEF x, r
<1>6. CleanUser(heap, x)
  BY <1>2, <1>5 DEF CleanUser
<1>7. StayBut(heap, r.h, {u.username.ptr})
  BY <1>1, NoStringReads
<1>8. ReadInv' /\ Value!UserBecomes(a, ViewOfUser(r.h, r.x))
  BY <1>1, <1>5, <1>6, <1>7, UserReads DEF u
<1>9. ViewOfUser(r.h, r.x) = [Value!UserAt(a) EXCEPT !.unknown = Append(@, Value!Varint(3, 1))]
  <2>1. [Value!UserAt(a) EXCEPT !.unknown = w]
          = [userid |-> u.userid, username |-> FieldView(heap, u.username), unknown |-> w]
    BY <1>2, UserUpdates
  <2> QED
    BY <1>1, <1>4, <1>5, <2>1 DEF ViewOfUser
<1>10. a \in Value!Users /\ a[1] \in Focuses
  BY ElementIs
<1>11. Value!KeepUnknown(a[1], Value!Varint(3, 1))
  BY <1>8, <1>9, <1>10 DEF Value!KeepUnknown
<1> QED
  BY <1>8, <1>10, <1>11 DEF Value!Next, ValueStep

\* Userinfo b, of the same message or of another one, does not have a's string.
LEMMA OtherUser ==
    ASSUME ReadInv, NEW a \in Elements, NEW b \in Elements, a # b
    PROVE  LET p == ElementAt(b).username.ptr
           IN  p # Empty => p \in DOMAIN heap \ {ElementAt(a).username.ptr}
<1> DEFINE p == ElementAt(b).username.ptr
<1>1. /\ a[1] \in Focuses /\ a[2] \in 1 .. Len(focus[a[1]].ui)
      /\ ElementAt(a) = focus[a[1]].ui[a[2]]
      /\ b[1] \in Focuses /\ b[2] \in 1 .. Len(focus[b[1]].ui)
      /\ ElementAt(b) = focus[b[1]].ui[b[2]] /\ FieldOK(ElementAt(b).username, heap)
      /\ ElementAt(a).username.ptr \in StringsOf(focus[a[1]])
  BY ElementIs
<1>2. a = <<a[1], a[2]>> /\ b = <<b[1], b[2]>>
  BY DEF Elements
<1>3. /\ FocusOK(focus[a[1]]) /\ FocusOK(focus[b[1]])
      /\ Distinct(focus[a[1]])
      /\ b[1] # a[1] => Avoids(focus[b[1]], StringsOf(focus[a[1]]))
  BY <1>1, ReadFacts DEF Sound
<1>4. /\ a[2] \in SlotsOf(focus[a[1]]) /\ Ptr(focus[a[1]], a[2]) = ElementAt(a).username.ptr
      /\ b[2] \in SlotsOf(focus[b[1]]) /\ Ptr(focus[b[1]], b[2]) = p
  BY <1>1, <1>3, SlotOfElement
<1>5. p # Empty => p \in DOMAIN heap
  BY <1>1 DEF FieldOK
<1>6. p # Empty => p # ElementAt(a).username.ptr
  <2>1. CASE a[1] = b[1]
    <3>1. a[2] # b[2]
      BY <1>2, <2>1
    <3> QED
      BY <1>3, <1>4, <2>1, <3>1 DEF Distinct
  <2>2. CASE a[1] # b[1]
    BY <1>1, <1>3, <1>4, <2>2 DEF Avoids
  <2> QED
    BY <2>1, <2>2
<1> QED
  BY <1>5, <1>6

\* Room for the string of the userinfo that is merged.
LEMMA RoomUser ==
    ASSUME NEW b, Room(UserStrings(ElementAt(b))), ElementAt(b).username.has
    PROVE  Strs \ DOMAIN heap # {}
  BY RoomNew DEF UserStrings

LEMMA MergeUserIsValue ==
    ASSUME ReadInv, ObjectInv', NEW a \in Elements, NEW b \in Elements,
           UserMergedFrom(a, b)
    PROVE  ReadInv' /\ ValueStep
<1> DEFINE u == ElementAt(a)
           v == ElementAt(b)
           r == UserMergeFrom(u, heap, v)
<1>1. UserBecomes(a, r) /\ hand' = hand /\ a # b /\ (v.username.has => HasNew(u.username, heap))
  BY RoomUser DEF UserMergedFrom, HasNew
<1>2. /\ u \in UserType /\ FieldOK(u.username, heap) /\ CleanUser(heap, u)
      /\ v \in UserType /\ FieldOK(v.username, heap) /\ CleanUser(heap, v)
      /\ Value!UserAt(a) = ViewOfUser(heap, u) /\ Value!UserAt(b) = ViewOfUser(heap, v)
  BY UserIs
<1> HIDE DEF u, v
<1>3. /\ ViewOfUser(r.h, r.x) = MergeUser(Value!UserAt(a), Value!UserAt(b))
      /\ CleanUser(r.h, r.x) /\ StayBut(heap, r.h, {u.username.ptr}) /\ r.x \in UserType
  <2>1. /\ ViewOfUser(r.h, r.x) = MergeUser(ViewOfUser(heap, u), ViewOfUser(heap, v))
        /\ CleanUser(r.h, r.x) /\ StayBut(heap, r.h, {u.username.ptr})
    BY <1>1, <1>2, UserMergeFromReads
  <2>2. r.x \in UserType
    BY <1>1, <1>2, UserMergeFromKept DEF UserKept
  <2> QED
    BY <1>2, <2>1, <2>2
<1> HIDE DEF r
<1>4. ReadInv' /\ Value!UserBecomes(a, ViewOfUser(r.h, r.x))
  BY <1>1, <1>3, UserReads DEF u
<1>5. a \in Value!Users /\ b \in Value!Users \ {a}
  BY <1>1, ElementIs
<1>6. Value!WholeUser
  BY <1>3, <1>4, <1>5, ValueData DEF Value!WholeUser
<1> QED
  BY <1>4, <1>6 DEF Value!Next, ValueStep

LEMMA CopyUserIsValue ==
    ASSUME ReadInv, ObjectInv', NEW a \in Elements, NEW b \in Elements, UserCopied(a, b)
    PROVE  ReadInv' /\ ValueStep
<1> DEFINE u == ElementAt(a)
           v == ElementAt(b)
           c == UserClear(u, heap)
           r == UserMergeFrom(c.x, c.h, v)
<1>1. UserBecomes(a, r) /\ hand' = hand /\ a # b /\ (v.username.has => Strs \ DOMAIN heap # {})
  BY RoomUser DEF UserCopied
<1>2. /\ u \in UserType /\ FieldOK(u.username, heap) /\ CleanUser(heap, u)
      /\ v \in UserType /\ FieldOK(v.username, heap) /\ CleanUser(heap, v)
      /\ Value!UserAt(b) = ViewOfUser(heap, v)
  BY UserIs
<1>3. v.username.ptr # Empty => v.username.ptr \in DOMAIN heap \ {u.username.ptr}
  BY <1>1, OtherUser
<1> HIDE DEF u, v
<1>4. /\ UserKept(u, heap, c.x, c.h) /\ c.x.username.ptr = u.username.ptr
      /\ DOMAIN c.h = DOMAIN heap
      /\ ViewOfUser(c.h, c.x) = NoUser /\ CleanUser(c.h, c.x)
      /\ StayBut(heap, c.h, {u.username.ptr})
  BY <1>2, UserClearKept, UserClearReads
<1> HIDE DEF c
<1>5. /\ c.x \in UserType /\ FieldOK(c.x.username, c.h) /\ FieldOK(v.username, c.h)
      /\ (v.username.has => HasNew(c.x.username, c.h))
  BY <1>1, <1>2, <1>4 DEF UserKept, FieldKept, FieldOK, HasNew
<1>6. ViewOfUser(c.h, v) = ViewOfUser(heap, v) /\ CleanUser(c.h, v)
  <2>1. Same(heap, c.h, v.username.ptr)
    BY <1>3, <1>4, StaySame
  <2>2. /\ FieldView(c.h, v.username) = FieldView(heap, v.username)
        /\ Clean(heap, v.username) => Clean(c.h, v.username)
    BY <2>1, SameField
  <2> QED
    BY <1>2, <2>2 DEF ViewOfUser, CleanUser
<1>7. /\ ViewOfUser(r.h, r.x) = MergeUser(NoUser, ViewOfUser(c.h, v))
      /\ CleanUser(r.h, r.x) /\ StayBut(c.h, r.h, {c.x.username.ptr})
      /\ r.x \in UserType
  BY <1>2, <1>4, <1>5, <1>6, UserMergeFromReads, UserMergeFromKept DEF UserKept
<1> HIDE DEF r
<1>8. ViewOfUser(r.h, r.x) = Value!UserAt(b)
  BY <1>2, <1>6, <1>7, MergeNoUser
<1>9. StayBut(heap, r.h, {u.username.ptr})
  BY <1>4, <1>7 DEF StayBut
<1>10. ReadInv' /\ Value!UserBecomes(a, ViewOfUser(r.h, r.x))
  BY <1>1, <1>7, <1>9, UserReads DEF u
<1>11. a \in Value!Users /\ b \in Value!Users \ {a}
  BY <1>1, ElementIs
<1>12. Value!WholeUser
  BY <1>8, <1>10, <1>11 DEF Value!WholeUser
<1> QED
  BY <1>10, <1>12 DEF Value!Next, ValueStep

\* Element i of message m becomes x.
Put(F, m, i, x) == [F EXCEPT ![m].ui[i] = x]

ReadableAll(F, h) ==
    F = [n \in Focuses |-> F[n]] /\ \A n \in Focuses : FocusOK(F[n]) /\ CleanFocus(h, F[n])

\* Objects that have an element replaced, and what they read as.
LEMMA ElementPut ==
    ASSUME NEW F, NEW h, NEW V, ViewsAre(V, F, h), ReadableAll(F, h),
           NEW m \in Focuses, NEW i \in 1 .. F[m].n, NEW x \in UserType, CleanUser(h, x)
    PROVE  /\ ViewsAre(Put(V, m, i, ViewOfUser(h, x)), Put(F, m, i, x), h)
           /\ ReadableAll(Put(F, m, i, x), h)
           /\ \A n \in Focuses : Put(F, m, i, x)[n].n = F[n].n
<1> DEFINE f == F[m]
           g == [f EXCEPT !.ui[i] = x]
           e == ViewOfUser(h, x)
           G == Put(F, m, i, x)
<1>1. /\ G = [F EXCEPT ![m] = g] /\ g = [f EXCEPT !.ui[i] = x]
      /\ F = [n \in Focuses |-> F[n]]
  BY DEF Put, ReadableAll
<1>2. /\ i \in 1 .. f.n
      /\ \A n \in Focuses : FocusOK(F[n]) /\ CleanFocus(h, F[n])
  BY DEF ReadableAll
<1> HIDE DEF f, g, G
<1>3. OthersSame(f, h, h, i)
  BY DEF OthersSame, Same
<1>4. /\ FocusOK(g) /\ CleanFocus(h, g) /\ g.n = f.n
      /\ ViewOf(h, g) = [ViewOf(h, f) EXCEPT !.ui[i] = e]
  <2>1. FocusOK(f) /\ CleanFocus(h, f)
    BY <1>2 DEF f
  <2> QED
    BY <1>1, <1>2, <1>3, <2>1, ElementReads
<1>5. G[m] = g /\ (\A n \in Focuses \ {m} : G[n] = F[n]) /\ G = [n \in Focuses |-> G[n]]
  BY <1>1
<1>6. \A n \in Focuses : FocusOK(G[n]) /\ CleanFocus(h, G[n]) /\ G[n].n = F[n].n
  BY <1>2, <1>4, <1>5 DEF f
<1>7. Put(V, m, i, e) = [V EXCEPT ![m] = ViewOf(h, g)]
  <2>1. V[m] = ViewOf(h, f)
    BY DEF ViewsAre, f
  <2>2. Put(V, m, i, e) = [V EXCEPT ![m] = [V[m] EXCEPT !.ui[i] = e]]
    BY DEF Put
  <2> QED
    BY <1>4, <2>1, <2>2
<1> HIDE DEF e
<1>8. ViewsAre([V EXCEPT ![m] = ViewOf(h, g)], G, h)
  BY <1>5 DEF ViewsAre
<1> QED
  BY <1>5, <1>6, <1>7, <1>8 DEF e, G, ReadableAll

LEMMA SwapUserIsValue ==
    ASSUME ReadInv, ObjectInv', NEW a \in Elements, NEW b \in Elements, UserSwapped(a, b)
    PROVE  ReadInv' /\ ValueStep
<1> DEFINE u == ElementAt(a)
           v == ElementAt(b)
           m == a[1]
           i == a[2]
           n == b[1]
           j == b[2]
           E == Put(focus, m, i, v)
           G == Put(E, n, j, u)
           V == Put(Views, m, i, ViewOfUser(heap, v))
           W == Put(V, n, j, ViewOfUser(heap, u))
<1>1. a # b /\ focus' = G /\ heap' = heap /\ hand' = hand
  BY DEF UserSwapped, Put
<1>2. /\ m \in Focuses /\ i \in 1 .. focus[m].n /\ n \in Focuses /\ j \in 1 .. focus[n].n
      /\ a \in Value!Users /\ b \in Value!Users
  BY ElementIs
<1>3. /\ u \in UserType /\ CleanUser(heap, u) /\ v \in UserType /\ CleanUser(heap, v)
      /\ Value!UserAt(a) = ViewOfUser(heap, u) /\ Value!UserAt(b) = ViewOfUser(heap, v)
  BY UserIs
<1>4. W = [Views EXCEPT ![a[1]].ui[a[2]] = Value!UserAt(b),
                        ![b[1]].ui[b[2]] = Value!UserAt(a)]
  BY <1>3 DEF Put
<1>5. ViewsAre(Views, focus, heap) /\ ReadableAll(focus, heap)
  BY ViewsNow, ReadFacts DEF ReadInv, ReadableAll
<1>6. /\ E = Put(focus, m, i, v) /\ G = Put(E, n, j, u)
      /\ V = Put(Views, m, i, ViewOfUser(heap, v))
      /\ W = Put(V, n, j, ViewOfUser(heap, u))
  OBVIOUS
<1> HIDE DEF u, v, m, i, n, j, E, G, V, W
<1>7. /\ ViewsAre(V, E, heap) /\ ReadableAll(E, heap)
      /\ \A k \in Focuses : E[k].n = focus[k].n
  BY <1>2, <1>3, <1>5, <1>6, ElementPut
<1>8. ViewsAre(W, G, heap) /\ ReadableAll(G, heap)
  <2>1. j \in 1 .. E[n].n
    BY <1>2, <1>7
  <2> QED
    BY <1>2, <1>3, <1>6, <1>7, <2>1, ElementPut
<1>9. ReadInv'
  BY <1>1, <1>8 DEF ReadInv, ReadableAll
<1>10. Views' = W
  <2>1. ViewsAre(Views', G, heap)
    BY <1>1, ViewsNow
  <2> QED
    BY <1>8, <2>1 DEF ViewsAre
<1>11. Own' = Own
  BY <1>1, ViewsNow DEF OwnIs
<1>12. Value!WholeUser
  BY <1>1, <1>2, <1>4, <1>10, <1>11 DEF Value!WholeUser
<1> QED
  BY <1>9, <1>12 DEF Value!Next, ValueStep

-----------------------------------------------------------------------------
(* Every sequence of calls does to the objects what it would do to values. *)

LEMMA StringCallsAreValue ==
    ASSUME ReadInv, ObjectInv', StringCalls
    PROVE  ReadInv' /\ ValueStep
  BY NewStringIsValue, DeleteStringIsValue, SetIsValue, MutableIsValue, ClearIsValue,
     ReleaseIsValue, SetAllocatedIsValue, SetUsernameIsValue, MutableUsernameIsValue,
     ClearUsernameIsValue, ReleaseUsernameIsValue, SetAllocatedUsernameIsValue
     DEF StringCalls

LEMMA FocusCallsAreValue ==
    ASSUME ReadInv, ObjectInv', FocusCalls
    PROVE  ReadInv' /\ ValueStep
  BY AddIsValue, ClearUiIsValue, ClearMessageIsValue, DestroyIsValue,
     KeepUnknownIsValue, MergeIsValue, CopyIsValue, SwapIsValue DEF FocusCalls

LEMMA UserCallsAreValue ==
    ASSUME ReadInv, ObjectInv', UserCalls
    PROVE  ReadInv' /\ ValueStep
<1>1. ASSUME NEW a \in Elements, NEW v \in Values, set_userid(a, v)
      PROVE  ReadInv' /\ ValueStep
  <2>1. /\ focus' = [focus EXCEPT ![a[1]].ui[a[2]].userid = Given(v)]
        /\ heap' = heap /\ hand' = hand
    BY <1>1 DEF set_userid
  <2> QED
    BY <2>1, UseridIsValue
<1>2. ASSUME NEW a \in Elements, clear_userid(a)
      PROVE  ReadInv' /\ ValueStep
  <2>1. /\ focus' = [focus EXCEPT ![a[1]].ui[a[2]].userid = Unset]
        /\ heap' = heap /\ hand' = hand
    BY <1>2 DEF clear_userid
  <2> QED
    BY <2>1, UseridIsValue
<1> QED
  BY <1>1, <1>2, ClearUserIsValue, UserKeepUnknownIsValue, MergeUserIsValue,
     CopyUserIsValue, SwapUserIsValue DEF UserCalls

LEMMA ReadInvInit ==
    ASSUME ObjectInit
    PROVE  ReadInv /\ Value!Init
<1>1. ObjectInv
  BY ObjectInvInit
<1>2. focus = [m \in Focuses |-> NewFocus] /\ hand = Empty
  BY DEF ObjectInit
<1>3. ViewOf(heap, NewFocus) = NoFocus /\ CleanFocus(heap, NewFocus)
  <2>1. /\ NewFocus.msgtype = NoString /\ NewFocus.ui = <<>> /\ NewFocus.n = 0
        /\ NewFocus.unknown = <<>> /\ Len(NewFocus.ui) = 0
    BY DEF NewFocus
  <2>2. FieldView(heap, NoString) = Unset /\ Clean(heap, NoString)
    BY NoStringReads
  <2>3. [i \in 1 .. 0 |-> ViewOfUser(heap, NewFocus.ui[i])] = <<>>
    <3>1. 1 .. 0 = {}
      OBVIOUS
    <3> QED
      BY <3>1
  <2> QED
    BY <2>1, <2>2, <2>3 DEF ViewOf, CleanFocus, NoFocus
<1>4. ReadInv
  BY <1>1, <1>2, <1>3 DEF ReadInv
<1>5. Views = [m \in Focuses |-> NoFocus]
  <2>1. ViewsAre(Views, focus, heap)
    BY ViewsNow
  <2> QED
    BY <1>2, <1>3, <2>1 DEF ViewsAre
<1>6. Own = <<>>
  BY <1>2, ViewsNow DEF OwnIs
<1> QED
  BY <1>4, <1>5, <1>6, ValueData DEF Value!Init

\* The messages of message.pb.h are values to their caller (MessageValue): a
\* call on one changes that one only, in one of the ways that calls on values
\* may, and a new element reads as empty, although strings and elements are
\* used again.
THEOREM MessagesAreValues == ObjectSpec => ObjectsAreValues
<1>1. ObjectInit => ReadInv /\ Value!Init
  BY ReadInvInit
<1>2. ReadInv /\ [ObjectNext]_objectVars => ReadInv' /\ [Value!Next]_<<Views, Own>>
  <2> SUFFICES ASSUME ReadInv, [ObjectNext]_objectVars
               PROVE  ReadInv' /\ [Value!Next]_<<Views, Own>>
    OBVIOUS
  <2>1. ObjectInv'
    BY ObjectInvNext DEF ReadInv
  <2>2. CASE ObjectNext
    BY <2>1, <2>2, StringCallsAreValue, FocusCallsAreValue, UserCallsAreValue
       DEF ObjectNext, ValueStep
  <2>3. CASE UNCHANGED objectVars
    <3>1. focus' = focus /\ heap' = heap /\ hand' = hand
      BY <2>3 DEF objectVars
    <3>2. ReadInv'
      BY <2>1, <3>1 DEF ReadInv
    <3>3. Views' = Views /\ Own' = Own
      BY <3>1, ViewsNow DEF ViewsAre, OwnIs
    <3> QED
      BY <3>2, <3>3
  <2> QED
    BY <2>2, <2>3
<1> QED
  BY <1>1, <1>2, PTL DEF ObjectSpec, ObjectsAreValues, Value!Spec

-----------------------------------------------------------------------------
(* The bounds on what messages hold.  Cleared elements have no unknown     *)
(* fields (CleanFocus), so elements that are used again do not add any.    *)

UnknownsFit(s, l) == \A i \in 1 .. l : Len(s[i].unknown) <= MaxUnknown
Fits(f)   == Len(f.ui) <= MaxElements /\ UnknownsFit(f.ui, Len(f.ui))
Fitting(F) == \A m \in Focuses : Fits(F[m])

\* The elements that are not current have no unknown fields.
LEMMA SpareUnknown ==
    ASSUME NEW f, NEW h, CleanFocus(h, f), NEW i \in 1 .. Len(f.ui), i > f.n
    PROVE  f.ui[i].unknown = <<>>
<1>1. ViewOfUser(h, f.ui[i]) = NoUser
  BY DEF CleanFocus
<1> QED
  BY <1>1 DEF ViewOfUser, NoUser

LEMMA ClearFits ==
    ASSUME NEW f, NEW h, Readable(f, h), Fits(f)
    PROVE  Fits(ClearElements(f, h).x) /\ Fits(FocusClear(f, h).x)
<1> DEFINE s == [i \in DOMAIN f.ui |->
                    IF i <= f.n THEN UserClear(f.ui[i], h).x ELSE f.ui[i]]
           r == ClearElements(f, h)
           c == FocusClear(f, h)
<1>1. f = [msgtype |-> f.msgtype, ui |-> f.ui, n |-> f.n, unknown |-> f.unknown]
      /\ DOMAIN f.ui = 1 .. Len(f.ui) /\ Len(f.ui) \in Nat
  BY FocusFacts DEF Readable
<1>2. r.x.ui = s
  <2>1. r.x = [f EXCEPT !.n = 0, !.ui = s]
    BY DEF ClearElements
  <2> HIDE DEF s, r
  <2>2. r.x = [msgtype |-> f.msgtype, ui |-> s, n |-> 0, unknown |-> f.unknown]
    BY <1>1, <2>1
  <2> QED
    BY <2>2
<1>3. c.x.ui = s
  <2> DEFINE t == ClearString(f.msgtype, r.h).f
  <2>1. c.x = [r.x EXCEPT !.msgtype = t, !.unknown = <<>>]
    BY DEF FocusClear
  <2>2. FocusOK(r.x)
    BY ClearElementsStay DEF SlotsStay
  <2> HIDE DEF c, t, r, s
  <2>3. r.x = [msgtype |-> r.x.msgtype, ui |-> r.x.ui, n |-> r.x.n,
               unknown |-> r.x.unknown]
    BY <2>2, FocusFacts
  <2>4. c.x = [msgtype |-> t, ui |-> r.x.ui, n |-> r.x.n, unknown |-> <<>>]
    BY <2>1, <2>3
  <2> QED
    BY <1>2, <2>4
<1>4. Len(r.x.ui) = Len(f.ui) /\ Len(c.x.ui) = Len(f.ui)
  BY ClearElementsStay, FocusClearStay
<1>5. ASSUME NEW i \in 1 .. Len(f.ui) PROVE Len(s[i].unknown) <= MaxUnknown
  <2>1. s[i] = IF i <= f.n THEN UserClear(f.ui[i], h).x ELSE f.ui[i]
    BY <1>1
  <2>2. UserClear(f.ui[i], h).x.unknown = <<>>
    BY DEF UserClear
  <2>3. Len(<<>>) <= MaxUnknown
    BY ObjectAssumption
  <2> HIDE DEF s
  <2> QED
    BY <2>1, <2>2, <2>3 DEF Fits, UnknownsFit
<1> HIDE DEF r, c, s
<1> QED
  BY <1>2, <1>3, <1>4, <1>5 DEF Fits, UnknownsFit, r, c

\* The elements after k have been added to f.
LEMMA AddFits ==
    ASSUME NEW f, NEW h, NEW k \in Nat, Readable(f, h), CleanFocus(h, f), Fits(f),
           f.n + k <= MaxElements
    PROVE  LET a == AddElements(f, k)
           IN  /\ Fits(a) /\ FocusOK(a)
               /\ \A i \in 1 .. Len(a.ui) : i > f.n => a.ui[i].unknown = <<>>
<1> DEFINE s == [i \in DOMAIN f.ui \cup 1 .. f.n + k |->
                    IF i \in DOMAIN f.ui THEN f.ui[i] ELSE NewUser]
           a == AddElements(f, k)
<1>1. /\ f = [msgtype |-> f.msgtype, ui |-> f.ui, n |-> f.n, unknown |-> f.unknown]
      /\ DOMAIN f.ui = 1 .. Len(f.ui) /\ Len(f.ui) \in Nat /\ f.n \in Nat
  BY FocusFacts DEF Readable
<1>2. a.ui = s
  <2>1. a = [f EXCEPT !.n = f.n + k, !.ui = s]
    BY DEF AddElements
  <2> HIDE DEF s, a
  <2>2. a = [msgtype |-> f.msgtype, ui |-> s, n |-> f.n + k, unknown |-> f.unknown]
    BY <1>1, <2>1
  <2> QED
    BY <2>2
<1>3. FocusOK(a)
  BY AddElementsStay DEF SlotsStay
<1> HIDE DEF a
<1>4. DOMAIN a.ui = 1 .. Len(a.ui) /\ Len(a.ui) \in Nat
  BY <1>3, FocusFacts
<1>5. ASSUME NEW i \in 1 .. Len(a.ui)
      PROVE  /\ i \in 1 .. Len(f.ui) \/ i \in 1 .. f.n + k
             /\ a.ui[i] = IF i \in 1 .. Len(f.ui) THEN f.ui[i] ELSE NewUser
  BY <1>1, <1>2, <1>4
<1> HIDE DEF s
<1>6. Len(a.ui) <= MaxElements
  <2>1. Len(a.ui) = 0 \/ Len(a.ui) \in 1 .. Len(a.ui)
    BY <1>4
  <2> QED
    BY <1>1, <1>4, <1>5, <2>1, ObjectAssumption DEF Fits
<1>7. NewUser.unknown = <<>> /\ Len(<<>>) <= MaxUnknown
  BY ObjectAssumption DEF NewUser
<1>8. ASSUME NEW i \in 1 .. Len(a.ui)
      PROVE  Len(a.ui[i].unknown) <= MaxUnknown /\ (i > f.n => a.ui[i].unknown = <<>>)
  <2>1. CASE i \in 1 .. Len(f.ui)
    BY <1>5, <2>1, SpareUnknown DEF Fits, UnknownsFit
  <2>2. CASE i \notin 1 .. Len(f.ui)
    BY <1>5, <1>7, <2>2
  <2> QED
    BY <2>1, <2>2
<1> QED
  BY <1>3, <1>6, <1>8 DEF Fits, UnknownsFit, a

LEMMA MergedFits ==
    ASSUME NEW f, NEW h, NEW from, Readable(f, h), Readable(from, h), CleanFocus(h, f),
           Fits(f), Fits(from), f.n + from.n <= MaxElements, RoomFor(from, h)
    PROVE  Fits(FocusMergeFrom(f, h, from).x)
<1> DEFINE a == AddElements(f, from.n)
           c == MergeElements(f, h, from)
           given == {k \in 1 .. from.n : from.ui[k].username.has}
           new   == NewStrings(h, {k \in given : a.ui[f.n + k].username.ptr = Empty})
           ptr   == [k \in 1 .. from.n |->
                       IF k \in DOMAIN new THEN new[k] ELSE a.ui[f.n + k].username.ptr]
           t     == [i \in DOMAIN a.ui |->
                       IF i \in f.n + 1 .. a.n
                       THEN UserMerged(a.ui[i], from.ui[i - f.n], ptr[i - f.n])
                       ELSE a.ui[i]]
           r     == FocusMergeFrom(f, h, from)
<1>1. c.x = [a EXCEPT !.ui = t]
  BY DEF MergeElements
<1> HIDE DEF ptr
<1>2. /\ f.n \in Nat /\ from.n \in Nat /\ Len(from.ui) \in Nat /\ from.n <= Len(from.ui)
      /\ \A k \in 1 .. from.n : from.ui[k].unknown \in Seq(Unknowns)
  <2>1. /\ f.n \in Nat /\ from.n \in Nat /\ Len(from.ui) \in Nat /\ from.n <= Len(from.ui)
        /\ \A k \in 1 .. Len(from.ui) : from.ui[k] \in UserType
    BY FocusFacts DEF Readable
  <2>2. \A x \in UserType : x.unknown \in Seq(Unknowns)
    BY DEF UserType
  <2> QED
    BY <2>1, <2>2
<1>3. /\ Fits(a) /\ FocusOK(a)
      /\ \A i \in 1 .. Len(a.ui) : i > f.n => a.ui[i].unknown = <<>>
  BY <1>2, AddFits
<1>4. a.n = f.n + from.n
  BY <1>2, AddElementsStay
<1> HIDE DEF a
<1>5. /\ DOMAIN a.ui = 1 .. Len(a.ui) /\ Len(a.ui) \in Nat
      /\ a = [msgtype |-> a.msgtype, ui |-> a.ui, n |-> a.n, unknown |-> a.unknown]
  BY <1>3, FocusFacts
<1>6. ASSUME NEW i \in 1 .. Len(a.ui) PROVE Len(t[i].unknown) <= MaxUnknown
  <2>1. CASE i \in f.n + 1 .. a.n
    <3>1. t[i] = UserMerged(a.ui[i], from.ui[i - f.n], ptr[i - f.n])
      BY <1>5, <2>1
    <3> HIDE DEF t
    <3>2. t[i].unknown = a.ui[i].unknown \o from.ui[i - f.n].unknown
      <4> DEFINE u == a.ui[i]
                 v == from.ui[i - f.n]
                 p == ptr[i - f.n]
      <4>1. UserMerged(u, v, p).unknown = u.unknown \o v.unknown
        <5> HIDE DEF u, v, p
        <5> QED
          BY DEF UserMerged
      <4> QED
        BY <3>1, <4>1
    <3>3. i - f.n \in 1 .. from.n /\ i - f.n \in 1 .. Len(from.ui) /\ i > f.n
      BY <1>2, <1>4, <2>1
    <3>4. a.ui[i].unknown = <<>> /\ from.ui[i - f.n].unknown \in Seq(Unknowns)
      BY <1>2, <1>3, <3>3
    <3>5. t[i].unknown = from.ui[i - f.n].unknown
      BY <3>2, <3>4
    <3> QED
      BY <3>3, <3>5 DEF Fits, UnknownsFit
  <2>2. CASE i \notin f.n + 1 .. a.n
    <3>1. t[i] = a.ui[i]
      BY <1>5, <2>2
    <3> HIDE DEF t
    <3> QED
      BY <1>3, <3>1 DEF Fits, UnknownsFit
  <2> QED
    BY <2>1, <2>2
<1>7. DOMAIN t = 1 .. Len(a.ui)
  BY <1>5
<1> HIDE DEF t
<1>8. c.x.ui = t
  <2> HIDE DEF c
  <2>1. c.x = [msgtype |-> a.msgtype, ui |-> t, n |-> a.n, unknown |-> a.unknown]
    BY <1>1, <1>5
  <2> QED
    BY <2>1
<1>9. FocusOK(c.x)
  <2>1. Cardinality(WithUsername(from)) <= Cardinality(Strs \ DOMAIN h)
    <3>1. Cardinality(WithUsername(from)) \in Nat /\ Cardinality(Strs \ DOMAIN h) \in Nat
      BY WithUsernameFinite, StrsFinite DEF Readable
    <3> QED
      BY <3>1 DEF RoomFor
  <2>2. Keeps(f, h, c.x, c.h)
    BY <2>1, MergeElementsKeeps
  <2> HIDE DEF c
  <2> QED
    BY <2>2, KeepsFacts
<1>10. r.x.ui = c.x.ui
  <2> DEFINE v == Content(c.h, from.msgtype.ptr)
             s == IF from.msgtype.has THEN SetString(c.x.msgtype, c.h, v)
                  ELSE [f |-> c.x.msgtype, h |-> c.h]
             w == c.x.unknown \o from.unknown
  <2>1. r.x = [c.x EXCEPT !.msgtype = s.f, !.unknown = w]
    BY DEF FocusMergeFrom
  <2> HIDE DEF r, s, w, c
  <2>2. c.x = [msgtype |-> c.x.msgtype, ui |-> c.x.ui, n |-> c.x.n,
               unknown |-> c.x.unknown]
    BY <1>9, FocusFacts
  <2>3. r.x = [msgtype |-> s.f, ui |-> c.x.ui, n |-> c.x.n, unknown |-> w]
    BY <2>1, <2>2
  <2> QED
    BY <2>3
<1>11. Len(t) = Len(a.ui)
  <2> HIDE DEF c
  <2>1. t = c.x.ui /\ DOMAIN t = 1 .. Len(t) /\ Len(t) \in Nat
    BY <1>8, <1>9, FocusFacts
  <2> QED
    BY <1>5, <1>7, <2>1
<1> HIDE DEF c, r
<1> QED
  BY <1>3, <1>6, <1>8, <1>10, <1>11 DEF Fits, UnknownsFit, r

\* A userinfo that has room is put in the place of another.
LEMMA PutFits ==
    ASSUME NEW F, F = [n \in Focuses |-> F[n]], \A n \in Focuses : FocusOK(F[n]),
           Fitting(F), NEW m \in Focuses, NEW i \in 1 .. Len(F[m].ui), NEW x \in UserType,
           Len(x.unknown) <= MaxUnknown
    PROVE  LET G == Put(F, m, i, x)
           IN  /\ G = [n \in Focuses |-> G[n]] /\ \A n \in Focuses : FocusOK(G[n])
               /\ Fitting(G) /\ \A n \in Focuses : Len(G[n].ui) = Len(F[n].ui)
<1> DEFINE f == F[m]
           g == [f EXCEPT !.ui[i] = x]
           G == Put(F, m, i, x)
<1>1. G = [F EXCEPT ![m] = g]
  BY DEF Put
<1> HIDE DEF G
<1>2. FocusOK(f) /\ Fits(f) /\ Len(f.ui) \in Nat
  BY FocusFacts DEF Fitting
<1> HIDE DEF f
<1>3. /\ FocusOK(g) /\ Len(g.ui) = Len(f.ui)
      /\ g.ui[i] = x /\ \A j \in 1 .. Len(f.ui) \ {i} : g.ui[j] = f.ui[j]
  <2>1. i \in 1 .. Len(f.ui)
    BY DEF f
  <2> HIDE DEF g
  <2> QED
    BY <1>2, <2>1, UserChanged DEF g
<1> HIDE DEF g
<1>4. Fits(g)
  BY <1>2, <1>3 DEF Fits, UnknownsFit
<1>5. /\ G = [n \in Focuses |-> G[n]] /\ G[m] = g
      /\ \A n \in Focuses \ {m} : G[n] = F[n]
  BY <1>1
<1> QED
  BY <1>3, <1>4, <1>5 DEF Fitting, f, G

FitsInv == ReadInv /\ Fitting(focus)

\* The steps: on a userinfo, on msgtype, on a message.
LEMMA UserFits ==
    ASSUME FitsInv, ObjectInv', NEW a \in Elements, NEW x,
           focus' = Put(focus, a[1], a[2], x), Len(x.unknown) <= MaxUnknown
    PROVE  Fitting(focus')
<1> DEFINE m == a[1]
           i == a[2]
           f == focus[m]
<1>1. /\ m \in Focuses /\ i \in 1 .. Len(f.ui) /\ focus = [n \in Focuses |-> focus[n]]
      /\ \A n \in Focuses : FocusOK(focus[n])
  BY ElementIs, ReadFacts DEF FitsInv
<1>2. FocusOK(focus'[m]) /\ FocusOK(f)
  BY <1>1 DEF ObjectInv, Good
<1>3. /\ DOMAIN f.ui = 1 .. Len(f.ui)
      /\ f = [msgtype |-> f.msgtype, ui |-> f.ui, n |-> f.n, unknown |-> f.unknown]
  BY <1>2, FocusFacts
<1> HIDE DEF i
<1>4. focus'[m].ui = [f.ui EXCEPT ![i] = x]
  <2>1. focus'[m] = [f EXCEPT !.ui[i] = x]
    BY <1>1 DEF Put, i
  <2> HIDE DEF f, m
  <2> QED
    BY <1>3, <2>1
<1>5. focus'[m].ui[i] = x /\ i \in DOMAIN focus'[m].ui
  BY <1>1, <1>3, <1>4
<1> HIDE DEF f, m
<1>6. x \in UserType
  BY <1>2, <1>5, FocusFacts
<1>7. i \in 1 .. Len(focus[m].ui) /\ focus' = Put(focus, m, i, x)
  BY <1>1 DEF f, m, i
<1> QED
  BY <1>1, <1>6, <1>7, PutFits DEF FitsInv

LEMMA UserBecomesFits ==
    ASSUME FitsInv, ObjectInv', NEW a \in Elements, NEW r, UserBecomes(a, r),
           Len(r.x.unknown) <= MaxUnknown
    PROVE  Fitting(focus')
<1>1. focus' = Put(focus, a[1], a[2], r.x)
  BY DEF UserBecomes, Put
<1> QED
  BY <1>1, UserFits

LEMMA UserHas ==
    ASSUME FitsInv, NEW a \in Elements
    PROVE  LET u == ElementAt(a)
           IN  /\ u = [userid |-> u.userid, username |-> u.username, unknown |-> u.unknown]
               /\ u.unknown \in Seq(Unknowns) /\ Len(u.unknown) <= MaxUnknown
<1> DEFINE u == ElementAt(a)
<1>1. /\ a[1] \in Focuses /\ a[2] \in 1 .. Len(focus[a[1]].ui) /\ u \in UserType
      /\ u = focus[a[1]].ui[a[2]]
  BY ElementIs DEF FitsInv
<1> HIDE DEF u
<1>2. /\ u = [userid |-> u.userid, username |-> u.username, unknown |-> u.unknown]
      /\ u.unknown \in Seq(Unknowns)
  BY <1>1 DEF UserType
<1>3. Len(u.unknown) <= MaxUnknown
  BY <1>1 DEF FitsInv, Fitting, Fits, UnknownsFit
<1> QED
  BY <1>2, <1>3 DEF u

LEMMA UsernameFits ==
    ASSUME FitsInv, ObjectInv', NEW a \in Elements, NEW r, UsernameBecomes(a, r)
    PROVE  Fitting(focus')
<1> DEFINE u == ElementAt(a)
           x == [u EXCEPT !.username = r.f]
<1>1. focus' = Put(focus, a[1], a[2], x)
  BY DEF UsernameBecomes, Put, ElementAt
<1>2. /\ u = [userid |-> u.userid, username |-> u.username, unknown |-> u.unknown]
      /\ Len(u.unknown) <= MaxUnknown
  BY UserHas
<1> HIDE DEF u
<1>3. x = [userid |-> u.userid, username |-> r.f, unknown |-> u.unknown]
  BY <1>2, UserUpdates
<1> HIDE DEF x
<1>4. Len(x.unknown) <= MaxUnknown
  BY <1>2, <1>3
<1> QED
  BY <1>1, <1>4, UserFits

LEMMA UseridFits ==
    ASSUME FitsInv, ObjectInv', NEW a \in Elements, NEW d,
           focus' = [focus EXCEPT ![a[1]].ui[a[2]].userid = d]
    PROVE  Fitting(focus')
<1> DEFINE u == ElementAt(a)
           x == [u EXCEPT !.userid = d]
<1>1. focus' = Put(focus, a[1], a[2], x)
  BY DEF Put, ElementAt
<1>2. /\ u = [userid |-> u.userid, username |-> u.username, unknown |-> u.unknown]
      /\ Len(u.unknown) <= MaxUnknown
  BY UserHas
<1> HIDE DEF u
<1>3. x = [userid |-> d, username |-> u.username, unknown |-> u.unknown]
  BY <1>2, UserUpdates
<1> HIDE DEF x
<1>4. Len(x.unknown) <= MaxUnknown
  BY <1>2, <1>3
<1> QED
  BY <1>1, <1>4, UserFits

LEMMA FocusFits ==
    ASSUME FitsInv, NEW m \in Focuses, NEW x, focus' = [focus EXCEPT ![m] = x], Fits(x)
    PROVE  Fitting(focus')
<1>1. focus = [n \in Focuses |-> focus[n]]
  BY ReadFacts DEF FitsInv
<1>2. \A n \in Focuses : focus'[n] = IF n = m THEN x ELSE focus[n]
  BY <1>1
<1> QED
  BY <1>2 DEF FitsInv, Fitting

LEMMA FocusIs ==
    ASSUME FitsInv, NEW m \in Focuses
    PROVE  LET f == focus[m]
           IN  /\ f = [msgtype |-> f.msgtype, ui |-> f.ui, n |-> f.n, unknown |-> f.unknown]
               /\ f.n \in Nat /\ Len(f.ui) \in Nat /\ f.n <= Len(f.ui) /\ Fits(f)
               /\ Readable(f, heap) /\ CleanFocus(heap, f) /\ Sound(f, heap)
<1>1. FocusOK(focus[m]) /\ Sound(focus[m], heap) /\ Fits(focus[m])
  BY ReadFacts DEF FitsInv, Fitting
<1> QED
  BY <1>1, FocusFacts DEF Sound

LEMMA MsgtypeFits ==
    ASSUME FitsInv, NEW m \in Focuses, NEW r, MsgtypeBecomes(m, r)
    PROVE  Fitting(focus')
<1> DEFINE f == focus[m]
           x == [f EXCEPT !.msgtype = r.f]
<1>1. focus' = [focus EXCEPT ![m] = x]
  BY DEF MsgtypeBecomes
<1>2. /\ f = [msgtype |-> f.msgtype, ui |-> f.ui, n |-> f.n, unknown |-> f.unknown]
      /\ Fits(f)
  BY FocusIs
<1> HIDE DEF f
<1>3. x.ui = f.ui
  BY <1>2
<1> HIDE DEF x
<1>4. Fits(x)
  BY <1>2, <1>3 DEF Fits
<1> QED
  BY <1>1, <1>4, FocusFits

-----------------------------------------------------------------------------
(* Every call keeps the bounds.                                            *)

LEMMA StringCallsFit ==
    ASSUME FitsInv, ObjectInv', StringCalls
    PROVE  Fitting(focus')
<1>1. ASSUME focus' = focus PROVE Fitting(focus')
  BY <1>1 DEF FitsInv
<1>2. (\E v \in Values : NewOwnString(v)) \/ DeleteOwnString => focus' = focus
  BY DEF NewOwnString, DeleteOwnString
<1>3. ASSUME NEW m \in Focuses,
             \/ \E v \in Values : set_msgtype(m, v)
             \/ mutable_msgtype(m) \/ clear_msgtype(m)
             \/ release_msgtype(m) \/ set_allocated_msgtype(m)
      PROVE  \E r : MsgtypeBecomes(m, r)
  BY <1>3 DEF set_msgtype, mutable_msgtype, clear_msgtype, release_msgtype,
              set_allocated_msgtype
<1>4. ASSUME NEW a \in Elements,
             \/ \E v \in Values : set_username(a, v)
             \/ mutable_username(a) \/ clear_username(a)
             \/ release_username(a) \/ set_allocated_username(a)
      PROVE  \E r : UsernameBecomes(a, r)
  BY <1>4 DEF set_username, mutable_username, clear_username, release_username,
              set_allocated_username
<1> QED
  BY <1>1, <1>2, <1>3, <1>4, MsgtypeFits, UsernameFits DEF StringCalls

LEMMA FocusCallsFit ==
    ASSUME FitsInv, FocusCalls
    PROVE  Fitting(focus')
<1>1. ASSUME NEW m \in Focuses, add_ui(m) PROVE Fitting(focus')
  <2> DEFINE f == focus[m]
  <2>1. focus' = [focus EXCEPT ![m] = AddElements(f, 1)] /\ f.n < MaxElements
    BY <1>1 DEF add_ui
  <2>2. Readable(f, heap) /\ CleanFocus(heap, f) /\ Fits(f) /\ f.n \in Nat
    BY FocusIs
  <2>3. f.n + 1 <= MaxElements /\ 1 \in Nat
    BY <2>1, <2>2, ObjectAssumption
  <2> HIDE DEF f
  <2>4. Fits(AddElements(f, 1))
    BY <2>2, <2>3, AddFits
  <2> QED
    BY <2>1, <2>4, FocusFits
<1>2. ASSUME NEW m \in Focuses, clear_ui(m) \/ Clear(m) PROVE Fitting(focus')
  <2>1. \/ focus' = [focus EXCEPT ![m] = ClearElements(focus[m], heap).x]
        \/ focus' = [focus EXCEPT ![m] = FocusClear(focus[m], heap).x]
    BY <1>2 DEF clear_ui, Clear, FocusBecomes
  <2>2. Fits(ClearElements(focus[m], heap).x) /\ Fits(FocusClear(focus[m], heap).x)
    BY FocusIs, ClearFits
  <2> QED
    BY <2>1, <2>2, FocusFits
<1>3. ASSUME NEW m \in Focuses, Destroy(m) PROVE Fitting(focus')
  <2>1. focus' = [focus EXCEPT ![m] = NewFocus]
    BY <1>3 DEF Destroy
  <2>2. NewFocus.ui = <<>> /\ Len(<<>>) = 0
    BY DEF NewFocus
  <2>3. Fits(NewFocus)
    BY <2>2, ObjectAssumption DEF Fits, UnknownsFit
  <2> QED
    BY <2>1, <2>3, FocusFits
<1>4. ASSUME NEW m \in Focuses, KeepUnknown(m) PROVE Fitting(focus')
  <2> DEFINE f == focus[m]
             w == Append(f.unknown, Varint(3, 1))
             x == [f EXCEPT !.unknown = w]
  <2>1. focus' = [focus EXCEPT ![m] = x]
    BY <1>4 DEF KeepUnknown
  <2>2. /\ f = [msgtype |-> f.msgtype, ui |-> f.ui, n |-> f.n, unknown |-> f.unknown]
        /\ Fits(f)
    BY FocusIs
  <2> HIDE DEF f, w
  <2>3. x.ui = f.ui
    BY <2>2
  <2> HIDE DEF x
  <2>4. Fits(x)
    BY <2>2, <2>3 DEF Fits
  <2> QED
    BY <2>1, <2>4, FocusFits
<1>5. ASSUME NEW m \in Focuses, NEW n \in Focuses, MergeFrom(m, n) PROVE Fitting(focus')
  <2> DEFINE x == FocusMergeFrom(focus[m], heap, focus[n]).x
  <2>1. /\ focus' = [focus EXCEPT ![m] = x] /\ m # n /\ Room(FocusStrings(n))
        /\ focus[m].n + focus[n].n <= MaxElements
    BY <1>5 DEF MergeFrom, MergeFits, FocusBecomes
  <2>2. RoomFor(focus[n], heap)
    BY <2>1, MergeFacts DEF FitsInv
  <2>3. Fits(x)
    BY <2>1, <2>2, FocusIs, MergedFits
  <2> HIDE DEF x
  <2> QED
    BY <2>1, <2>3, FocusFits
<1>6. ASSUME NEW m \in Focuses, NEW n \in Focuses, CopyFrom(m, n) PROVE Fitting(focus')
  <2> DEFINE c == FocusClear(focus[m], heap)
             x == FocusMergeFrom(c.x, c.h, focus[n]).x
  <2>1. /\ focus' = [focus EXCEPT ![m] = x] /\ m # n /\ Room(FocusStrings(n))
    BY <1>6 DEF CopyFrom, FocusBecomes
  <2>2. RoomFor(focus[n], heap)
    BY <2>1, MergeFacts DEF FitsInv
  <2>3. /\ SlotsStay(focus[m], heap, c.x, c.h) /\ c.x.n = 0
        /\ CleanFocus(c.h, c.x) /\ Fits(c.x)
    BY FocusIs, FocusClearStay, FocusClearReads, ClearFits
  <2>4. /\ Readable(focus[m], heap) /\ Readable(focus[n], heap) /\ Fits(focus[n])
        /\ focus[n].n \in Nat /\ Len(focus[n].ui) \in Nat /\ focus[n].n <= Len(focus[n].ui)
    BY FocusIs
  <2> HIDE DEF c
  <2>5. Readable(c.x, c.h) /\ Readable(focus[n], c.h) /\ RoomFor(focus[n], c.h)
    BY <2>2, <2>3, <2>4, KeepsReadable DEF SlotsStay, Readable, RoomFor
  <2>6. c.x.n + focus[n].n <= MaxElements
    BY <2>3, <2>4, ObjectAssumption DEF Fits
  <2>7. Fits(x)
    BY <2>3, <2>4, <2>5, <2>6, MergedFits
  <2> HIDE DEF x
  <2> QED
    BY <2>1, <2>7, FocusFits
<1>7. ASSUME NEW m \in Focuses, NEW n \in Focuses, Swap(m, n) PROVE Fitting(focus')
  <2>1. focus' = [focus EXCEPT ![m] = focus[n], ![n] = focus[m]]
    BY <1>7 DEF Swap
  <2>2. focus = [k \in Focuses |-> focus[k]]
    BY ReadFacts DEF FitsInv
  <2>3. \A k \in Focuses : \E l \in Focuses : focus'[k] = focus[l]
    BY <2>1, <2>2
  <2> QED
    BY <2>3 DEF FitsInv, Fitting
<1> QED
  BY <1>1, <1>2, <1>3, <1>4, <1>5, <1>6, <1>7 DEF FocusCalls

LEMMA UserCallsFit ==
    ASSUME FitsInv, ObjectInv', UserCalls
    PROVE  Fitting(focus')
<1>1. ASSUME NEW a \in Elements, clear_userid(a) \/ \E v \in Values : set_userid(a, v)
      PROVE  Fitting(focus')
  <2>1. \E d : focus' = [focus EXCEPT ![a[1]].ui[a[2]].userid = d]
    BY <1>1 DEF clear_userid, set_userid
  <2> QED
    BY <2>1, UseridFits
<1>2. ASSUME NEW a \in Elements, UserCleared(a) PROVE Fitting(focus')
  <2> DEFINE r == UserClear(ElementAt(a), heap)
  <2>1. UserBecomes(a, r)
    BY <1>2 DEF UserCleared
  <2>2. r.x.unknown = <<>>
    BY DEF UserClear
  <2> HIDE DEF r
  <2>3. Len(r.x.unknown) <= MaxUnknown
    BY <2>2, ObjectAssumption
  <2> QED
    BY <2>1, <2>3, UserBecomesFits
<1>3. ASSUME NEW a \in Elements, UserKeepUnknown(a) PROVE Fitting(focus')
  <2> DEFINE u == ElementAt(a)
             w == Append(u.unknown, Varint(3, 1))
             x == [u EXCEPT !.unknown = w]
  <2>1. focus' = Put(focus, a[1], a[2], x) /\ Len(u.unknown) < MaxUnknown
    BY <1>3 DEF UserKeepUnknown, Put, ElementAt
  <2>2. /\ u = [userid |-> u.userid, username |-> u.username, unknown |-> u.unknown]
        /\ u.unknown \in Seq(Unknowns)
    BY UserHas
  <2> HIDE DEF u
  <2>3. Len(w) <= MaxUnknown
    <3>1. Len(w) = Len(u.unknown) + 1 /\ Len(u.unknown) \in Nat
      BY <2>2
    <3> QED
      BY <2>1, <3>1, ObjectAssumption
  <2> HIDE DEF w
  <2>4. x = [userid |-> u.userid, username |-> u.username, unknown |-> w]
    BY <2>2, UserUpdates
  <2> HIDE DEF x
  <2>5. Len(x.unknown) <= MaxUnknown
    BY <2>3, <2>4
  <2> QED
    BY <2>1, <2>5, UserFits
<1>4. \A u, h, v : UserMergeFrom(u, h, v).x.unknown = u.unknown \o v.unknown
  BY DEF UserMergeFrom, UserMerged
<1>5. ASSUME NEW a \in Elements, NEW b \in Elements, UserMergedFrom(a, b)
      PROVE  Fitting(focus')
  <2> DEFINE u == ElementAt(a)
             v == ElementAt(b)
             r == UserMergeFrom(u, heap, v)
  <2>1. UserBecomes(a, r) /\ Len(u.unknown) + Len(v.unknown) <= MaxUnknown
    BY <1>5 DEF UserMergedFrom
  <2>2. u.unknown \in Seq(Unknowns) /\ v.unknown \in Seq(Unknowns)
    BY UserHas
  <2> HIDE DEF u, v
  <2>3. r.x.unknown = u.unknown \o v.unknown
    BY <1>4
  <2> HIDE DEF r
  <2>4. Len(r.x.unknown) <= MaxUnknown
    BY <2>1, <2>2, <2>3, ConcatProperties
  <2> QED
    BY <2>1, <2>4, UserBecomesFits
<1>6. ASSUME NEW a \in Elements, NEW b \in Elements, UserCopied(a, b)
      PROVE  Fitting(focus')
  <2> DEFINE v == ElementAt(b)
             c == UserClear(ElementAt(a), heap)
             r == UserMergeFrom(c.x, c.h, v)
  <2>1. UserBecomes(a, r)
    BY <1>6 DEF UserCopied
  <2>2. v.unknown \in Seq(Unknowns) /\ Len(v.unknown) <= MaxUnknown
    BY UserHas
  <2>3. c.x.unknown = <<>>
    BY DEF UserClear
  <2> HIDE DEF c, v
  <2>4. r.x.unknown = c.x.unknown \o v.unknown
    BY <1>4
  <2> HIDE DEF r
  <2>5. r.x.unknown = v.unknown
    BY <2>2, <2>3, <2>4
  <2> QED
    BY <2>1, <2>2, <2>5, UserBecomesFits
<1>7. ASSUME NEW a \in Elements, NEW b \in Elements, UserSwapped(a, b)
      PROVE  Fitting(focus')
  <2> DEFINE u == ElementAt(a)
             v == ElementAt(b)
             m == a[1]
             i == a[2]
             n == b[1]
             j == b[2]
             E == Put(focus, m, i, v)
  <2>1. focus' = Put(E, n, j, u)
    BY <1>7 DEF UserSwapped, Put
  <2>2. /\ m \in Focuses /\ i \in 1 .. Len(focus[m].ui) /\ u \in UserType
        /\ n \in Focuses /\ j \in 1 .. Len(focus[n].ui) /\ v \in UserType
    BY ElementIs DEF FitsInv
  <2>3. Len(u.unknown) <= MaxUnknown /\ Len(v.unknown) <= MaxUnknown
    BY UserHas
  <2>4. /\ focus = [k \in Focuses |-> focus[k]] /\ \A k \in Focuses : FocusOK(focus[k])
        /\ Fitting(focus)
    BY ReadFacts DEF FitsInv
  <2> HIDE DEF u, v, m, i, n, j
  <2>5. /\ E = [k \in Focuses |-> E[k]] /\ \A k \in Focuses : FocusOK(E[k])
        /\ Fitting(E) /\ \A k \in Focuses : Len(E[k].ui) = Len(focus[k].ui)
    <3>1. E = Put(focus, m, i, v)
      OBVIOUS
    <3> HIDE DEF E
    <3> QED
      BY <2>2, <2>3, <2>4, <3>1, PutFits
  <2> HIDE DEF E
  <2>6. j \in 1 .. Len(E[n].ui)
    BY <2>2, <2>5
  <2> QED
    BY <2>1, <2>2, <2>3, <2>5, <2>6, PutFits
<1> QED
  BY <1>1, <1>2, <1>3, <1>5, <1>6, <1>7 DEF UserCalls

LEMMA FitsInvNext == FitsInv /\ [ObjectNext]_objectVars => FitsInv'
<1> SUFFICES ASSUME FitsInv, [ObjectNext]_objectVars PROVE FitsInv'
  OBVIOUS
<1>1. ReadInv /\ ObjectInv'
  BY ObjectInvNext DEF FitsInv, ReadInv
<1>2. CASE ObjectNext
  <2>1. ReadInv'
    BY <1>1, <1>2, StringCallsAreValue, FocusCallsAreValue, UserCallsAreValue
       DEF ObjectNext
  <2>2. Fitting(focus')
    BY <1>1, <1>2, StringCallsFit, FocusCallsFit, UserCallsFit DEF ObjectNext
  <2> QED
    BY <2>1, <2>2 DEF FitsInv, Fitting
<1>3. CASE UNCHANGED objectVars
  <2>1. focus' = focus /\ heap' = heap
    BY <1>3 DEF objectVars
  <2> QED
    BY <1>1, <2>1 DEF FitsInv, ReadInv, Fitting
<1> QED
  BY <1>2, <1>3

LEMMA FitsInvInit == ObjectInit => FitsInv
<1> SUFFICES ASSUME ObjectInit PROVE FitsInv
  OBVIOUS
<1>1. ReadInv
  BY ReadInvInit
<1>2. \A m \in Focuses : focus[m] = NewFocus
  BY DEF ObjectInit
<1>3. NewFocus.ui = <<>> /\ Len(<<>>) = 0
  BY DEF NewFocus
<1> QED
  BY <1>1, <1>2, <1>3, ObjectAssumption DEF FitsInv, Fitting, Fits, UnknownsFit

LEMMA FitsInvMeans == FitsInv => ObjectTypeOK
<1> SUFFICES ASSUME FitsInv PROVE ObjectTypeOK
  OBVIOUS
<1>1. /\ DOMAIN heap \subseteq Strs /\ \A p \in DOMAIN heap : heap[p] \in Nat
      /\ hand \in Strs \cup {Empty}
  BY DEF FitsInv, ReadInv, ObjectInv, Good, HeapOK
<1>2. ASSUME NEW m \in Focuses
      PROVE  /\ focus[m].msgtype \in StringField
             /\ focus[m].n \in 0 .. Len(focus[m].ui)
             /\ Len(focus[m].ui) <= MaxElements
             /\ \A i \in DOMAIN focus[m].ui : UserTypeOK(focus[m].ui[i])
  <2>1. FocusOK(focus[m]) /\ Fits(focus[m])
    BY ReadFacts DEF FitsInv, Fitting
  <2>2. /\ focus[m].msgtype \in StringField /\ focus[m].n \in 0 .. Len(focus[m].ui)
        /\ DOMAIN focus[m].ui = 1 .. Len(focus[m].ui)
        /\ \A i \in 1 .. Len(focus[m].ui) : focus[m].ui[i] \in UserType
    BY <2>1, FocusFacts
  <2>3. ASSUME NEW i \in 1 .. Len(focus[m].ui) PROVE UserTypeOK(focus[m].ui[i])
    <3> DEFINE u == focus[m].ui[i]
    <3>1. u \in UserType /\ Len(u.unknown) <= MaxUnknown
      BY <2>1, <2>2 DEF Fits, UnknownsFit
    <3> HIDE DEF u
    <3>2. UserTypeOK(u)
      BY <3>1 DEF UserTypeOK, UserType
    <3> QED
      BY <3>2 DEF u
  <2> QED
    BY <2>1, <2>2, <2>3 DEF Fits
<1> QED
  BY <1>1, <1>2 DEF ObjectTypeOK

\* ObjectTypeOK: the objects have their types and the bounds of the calls hold,
\* for the cleared elements too, which are used again.
THEOREM ObjectTypesSafe == ObjectSpec => []ObjectTypeOK
  BY FitsInvInit, FitsInvNext, FitsInvMeans, PTL DEF ObjectSpec

=============================================================================
