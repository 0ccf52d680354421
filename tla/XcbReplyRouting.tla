--------------------------- MODULE XcbReplyRouting --------------------------
(***************************************************************************)
(* Where responses go, for any number of requests and responses: none is   *)
(* lost or in two places, each is with the request it answers, and those   *)
(* of one request stay in order.                                           *)
(***************************************************************************)
EXTENDS XcbReplyProofs, FiniteSetTheorems

-----------------------------------------------------------------------------
(* Lists of responses                                                      *)

Elems(s) == {s[j] : j \in DOMAIN s}
Increasing(s) == \A i, j \in 1 .. Len(s) : i < j => s[i] < s[j]

\* A reply linked in at the tail of a list (read_packet) is added to it.
LEMMA ElemsAppend ==
    ASSUME NEW S, NEW s \in Seq(S), NEW x \in S
    PROVE  Elems(Append(s, x)) = Elems(s) \cup {x}
<1> DEFINE a == Append(s, x)
<1>1. /\ a \in Seq(S) /\ Len(a) = Len(s) + 1 /\ Len(s) \in Nat
      /\ \A i \in 1 .. Len(s) : a[i] = s[i]
      /\ a[Len(s) + 1] = x
  BY AppendProperties, LenProperties
<1>2. DOMAIN a = 1 .. Len(s) + 1 /\ DOMAIN s = 1 .. Len(s)
  BY <1>1, LenProperties
<1> HIDE DEF a
<1>3. \A y : y \in Elems(a) <=> y \in Elems(s) \/ y = x
  BY <1>1, <1>2 DEF Elems
<1> QED
  BY <1>3 DEF a

\* A list in order stays so when a later response is appended.
LEMMA IncreasingAppend ==
    ASSUME NEW s \in Seq(Nat), NEW x \in Nat, Increasing(s), \A y \in Elems(s) : y < x
    PROVE  Increasing(Append(s, x))
<1> DEFINE a == Append(s, x)
<1>1. /\ Len(a) = Len(s) + 1 /\ Len(s) \in Nat
      /\ \A i \in 1 .. Len(s) : a[i] = s[i]
      /\ a[Len(s) + 1] = x
  BY AppendProperties, LenProperties
<1>2. \A i \in 1 .. Len(s) : s[i] < x
  BY DEF Elems
<1> HIDE DEF a
<1>3. Increasing(a)
  BY <1>1, <1>2 DEF Increasing
<1> QED
  BY <1>3 DEF a

\* Taking the first element of a list in order leaves the later ones.
LEMMA TakeFirst ==
    ASSUME NEW s \in Seq(Nat), s # <<>>, Increasing(s)
    PROVE  /\ Head(s) \in Elems(s) /\ Elems(s) \subseteq Nat
           /\ Elems(Tail(s)) = Elems(s) \ {Head(s)}
           /\ Increasing(Tail(s))
           /\ \A y \in Elems(Tail(s)) : Head(s) < y
<1> DEFINE t == Tail(s)
<1>1. /\ t \in Seq(Nat) /\ Len(t) = Len(s) - 1 /\ Len(s) \in Nat \ {0}
      /\ \A i \in 1 .. Len(t) : t[i] = s[i + 1]
      /\ Head(s) = s[1]
  BY HeadTailProperties, EmptySeq
<1>2. DOMAIN t = 1 .. Len(t) /\ DOMAIN s = 1 .. Len(s)
  BY <1>1, LenProperties
<1>3. \A i \in 1 .. Len(s) : s[i] \in Nat
  BY ElementOfSeq
<1> HIDE DEF t
<1>4. \A i \in 2 .. Len(s) : i - 1 \in 1 .. Len(t) /\ t[i - 1] = s[i] /\ s[1] < s[i]
  <2> TAKE i \in 2 .. Len(s)
  <2>1. i - 1 \in 1 .. Len(t) /\ (i - 1) + 1 = i
    BY <1>1
  <2>2. t[i - 1] = s[(i - 1) + 1]
    BY <1>1, <2>1
  <2>3. 1 \in 1 .. Len(s) /\ i \in 1 .. Len(s) /\ 1 < i
    BY <1>1
  <2>4. s[1] < s[i]
    BY <2>3 DEF Increasing
  <2> QED
    BY <2>1, <2>2, <2>4
<1>5. Head(s) \in Elems(s) /\ Elems(s) \subseteq Nat
  <2>1. 1 \in DOMAIN s
    BY <1>1, <1>2
  <2>2. s[1] \in Elems(s)
    BY <2>1 DEF Elems
  <2>3. \A y \in Elems(s) : y \in Nat
    BY <1>2, <1>3 DEF Elems
  <2> QED
    BY <1>1, <2>2, <2>3
<1>6. \A y \in Elems(t) : y \in Elems(s) /\ Head(s) < y
  <2> TAKE y \in Elems(t)
  <2>1. PICK i \in 1 .. Len(t) : y = t[i]
    BY <1>2 DEF Elems
  <2>2. i + 1 \in 2 .. Len(s) /\ y = s[i + 1]
    BY <1>1, <2>1
  <2>3. s[1] < s[i + 1]
    BY <1>4, <2>2
  <2>4. i + 1 \in DOMAIN s
    BY <1>1, <1>2, <2>2
  <2>5. y \in Elems(s)
    BY <2>2, <2>4 DEF Elems
  <2> QED
    BY <1>1, <2>2, <2>3, <2>5
<1>7. \A y \in Elems(s) : y # Head(s) => y \in Elems(t)
  <2> TAKE y \in Elems(s)
  <2>1. PICK i \in 1 .. Len(s) : y = s[i]
    BY <1>2 DEF Elems
  <2>2. CASE i = 1
    BY <1>1, <2>1, <2>2
  <2>3. CASE i # 1
    <3>1. i - 1 \in 1 .. Len(t) /\ t[i - 1] = y
      BY <1>4, <2>1, <2>3
    <3> QED
      BY <1>2, <3>1 DEF Elems
  <2> QED
    BY <2>2, <2>3
<1>8. Increasing(t)
  <2> SUFFICES ASSUME NEW i \in 1 .. Len(t), NEW j \in 1 .. Len(t), i < j
               PROVE  t[i] < t[j]
    BY DEF Increasing
  <2>1. i + 1 \in 1 .. Len(s) /\ j + 1 \in 1 .. Len(s) /\ i + 1 < j + 1
    BY <1>1
  <2>2. s[i + 1] < s[j + 1]
    BY <2>1 DEF Increasing
  <2> QED
    BY <1>1, <2>2
<1>9. Elems(t) = Elems(s) \ {Head(s)}
  <2>1. Head(s) \notin Elems(t)
    BY <1>5, <1>6
  <2> QED
    BY <1>6, <1>7, <2>1
<1> QED
  BY <1>5, <1>6, <1>8, <1>9 DEF t

\* All but the first element, as take_from_map counts them.
LEMMA RestOf ==
    ASSUME NEW s \in Seq(Nat), s # <<>>
    PROVE  {s[j] : j \in 2 .. Len(s)} = Elems(Tail(s))
<1> DEFINE t == Tail(s)
<1>1. /\ t \in Seq(Nat) /\ Len(t) = Len(s) - 1 /\ Len(s) \in Nat \ {0}
      /\ \A i \in 1 .. Len(t) : t[i] = s[i + 1]
  BY HeadTailProperties, EmptySeq
<1>2. DOMAIN t = 1 .. Len(t)
  BY <1>1, LenProperties
<1> HIDE DEF t
<1>3. \A j \in 2 .. Len(s) : j - 1 \in 1 .. Len(t) /\ t[j - 1] = s[j]
  <2> TAKE j \in 2 .. Len(s)
  <2>1. j - 1 \in 1 .. Len(t) /\ (j - 1) + 1 = j
    BY <1>1
  <2> QED
    BY <1>1, <2>1
<1>4. \A i \in 1 .. Len(t) : i + 1 \in 2 .. Len(s) /\ t[i] = s[i + 1]
  BY <1>1
<1>5. \A y \in {s[j] : j \in 2 .. Len(s)} : y \in Elems(t)
  BY <1>2, <1>3 DEF Elems
<1>6. \A y \in Elems(t) : y \in {s[j] : j \in 2 .. Len(s)}
  BY <1>2, <1>4 DEF Elems
<1> QED
  BY <1>5, <1>6 DEF t
-----------------------------------------------------------------------------
(* The reply map and the event queue                                       *)

\* Taking the element at position i out of a list.
LEMMA RemoveAt ==
    ASSUME NEW S, NEW s \in Seq(S), NEW i \in 1 .. Len(s)
    PROVE  LET r == SubSeq(s, 1, i - 1) \o SubSeq(s, i + 1, Len(s))
           IN  /\ r \in Seq(S) /\ Len(r) = Len(s) - 1
               /\ \A j \in 1 .. Len(r) : r[j] = s[IF j < i THEN j ELSE j + 1]
<1> DEFINE a == SubSeq(s, 1, i - 1)
           b == SubSeq(s, i + 1, Len(s))
           r == a \o b
<1>1. Len(s) \in Nat /\ \A j \in 1 .. Len(s) : s[j] \in S
  BY LenProperties, ElementOfSeq
<1>2. /\ a \in Seq(S) /\ Len(a) = i - 1
      /\ \A j \in 1 .. i - 1 : a[j] = s[j]
  <2>1. /\ 1 \in Int /\ i - 1 \in Int /\ \A j \in 1 .. i - 1 : s[j] \in S
    BY <1>1
  <2>2. /\ a \in Seq(S) /\ Len(a) = IF 1 <= i - 1 THEN (i - 1) - 1 + 1 ELSE 0
        /\ \A j \in 1 .. (i - 1) - 1 + 1 : a[j] = s[1 + j - 1]
    BY <2>1, SubSeqProperties
  <2> HIDE DEF a
  <2> QED
    BY <2>2
<1>3. /\ b \in Seq(S) /\ Len(b) = Len(s) - i
      /\ \A j \in 1 .. Len(s) - i : b[j] = s[i + j]
  <2>1. /\ i + 1 \in Int /\ Len(s) \in Int /\ \A j \in i + 1 .. Len(s) : s[j] \in S
    BY <1>1
  <2>2. /\ b \in Seq(S) /\ Len(b) = IF i + 1 <= Len(s) THEN Len(s) - (i + 1) + 1 ELSE 0
        /\ \A j \in 1 .. Len(s) - (i + 1) + 1 : b[j] = s[(i + 1) + j - 1]
    BY <2>1, SubSeqProperties
  <2> HIDE DEF b
  <2>3. \A j \in 1 .. Len(s) - i : (i + 1) + j - 1 = i + j /\ j \in 1 .. Len(s) - (i + 1) + 1
    BY <1>1
  <2>4. \A j \in 1 .. Len(s) - i : b[j] = s[i + j]
    BY <2>2, <2>3
  <2> QED
    BY <1>1, <2>2, <2>4
<1> HIDE DEF a, b
<1>4. /\ r \in Seq(S) /\ Len(r) = Len(a) + Len(b)
      /\ \A j \in 1 .. Len(a) + Len(b) : r[j] = IF j <= Len(a) THEN a[j] ELSE b[j - Len(a)]
  BY <1>2, <1>3, ConcatProperties
<1> HIDE DEF r
<1>5. Len(r) = Len(s) - 1
  BY <1>1, <1>2, <1>3, <1>4
<1>6. ASSUME NEW j \in 1 .. Len(r) PROVE r[j] = s[IF j < i THEN j ELSE j + 1]
  <2>1. CASE j < i
    BY <1>1, <1>2, <1>4, <1>5, <2>1
  <2>2. CASE ~(j < i)
    <3>1. j - Len(a) \in 1 .. Len(s) - i /\ i + (j - Len(a)) = j + 1
      BY <1>1, <1>2, <1>5, <2>2
    <3>2. r[j] = b[j - Len(a)]
      BY <1>1, <1>2, <1>3, <1>4, <1>5, <2>2
    <3> QED
      BY <1>3, <2>2, <3>1, <3>2
  <2> QED
    BY <2>1, <2>2
<1> QED
  BY <1>4, <1>5, <1>6 DEF r, a, b

\* The responses in the reply map, and those returned by poll_for_reply.
MapIds(reps) == UNION {Elems(reps[i].data) : i \in DOMAIN reps}
AllTaken(tk) == UNION {Elems(tk[n]) : n \in DOMAIN tk}

\* No two entries of the map hold the same response.
MapDisjoint(reps) ==
    \A i, j \in DOMAIN reps :
        i # j => Elems(reps[i].data) \cap Elems(reps[j].data) = {}

\* No two entries of the map have the same key.
KeysDistinct(reps) == \A i, j \in DOMAIN reps : i # j => reps[i].key # reps[j].key

\* _xcb_map_put adds its list to the map.
LEMMA MapPut ==
    ASSUME NEW reps \in Seq(MapEntry), NEW e \in MapEntry
    PROVE  /\ MapIds(Append(reps, e)) = MapIds(reps) \cup Elems(e.data)
           /\ MapDisjoint(reps) /\ Elems(e.data) \cap MapIds(reps) = {}
              => MapDisjoint(Append(reps, e))
           /\ KeysDistinct(reps) /\ (\A i \in DOMAIN reps : reps[i].key # e.key)
              => KeysDistinct(Append(reps, e))
           /\ \A j \in DOMAIN Append(reps, e) :
                 \/ Append(reps, e)[j] = e
                 \/ \E k \in DOMAIN reps : Append(reps, e)[j] = reps[k]
<1> DEFINE a == Append(reps, e)
<1>1. /\ a \in Seq(MapEntry) /\ Len(a) = Len(reps) + 1 /\ Len(reps) \in Nat
      /\ \A i \in 1 .. Len(reps) : a[i] = reps[i]
      /\ a[Len(reps) + 1] = e
  BY AppendProperties, LenProperties
<1>2. DOMAIN a = 1 .. Len(reps) + 1 /\ DOMAIN reps = 1 .. Len(reps)
  BY <1>1, LenProperties
<1> HIDE DEF a
<1>3. \A y : y \in MapIds(a) <=> y \in MapIds(reps) \/ y \in Elems(e.data)
  BY <1>1, <1>2 DEF MapIds
<1>4. ASSUME MapDisjoint(reps), Elems(e.data) \cap MapIds(reps) = {} PROVE MapDisjoint(a)
  <2>1. \A i \in 1 .. Len(reps) : Elems(e.data) \cap Elems(a[i].data) = {}
    BY <1>1, <1>2, <1>4 DEF MapIds
  <2> SUFFICES ASSUME NEW i \in 1 .. Len(reps) + 1, NEW j \in 1 .. Len(reps) + 1, i # j
               PROVE  Elems(a[i].data) \cap Elems(a[j].data) = {}
    BY <1>2 DEF MapDisjoint
  <2>2. CASE i = Len(reps) + 1
    BY <1>1, <2>1, <2>2
  <2>3. CASE j = Len(reps) + 1
    BY <1>1, <2>1, <2>3
  <2>4. CASE i \in 1 .. Len(reps) /\ j \in 1 .. Len(reps)
    BY <1>1, <1>2, <1>4, <2>4 DEF MapDisjoint
  <2> QED
    BY <1>1, <2>2, <2>3, <2>4
<1>5. ASSUME KeysDistinct(reps), \A i \in DOMAIN reps : reps[i].key # e.key
      PROVE  KeysDistinct(a)
  BY <1>1, <1>2, <1>5 DEF KeysDistinct
<1>6. \A j \in DOMAIN a : a[j] = e \/ \E k \in DOMAIN reps : a[j] = reps[k]
  BY <1>1, <1>2
<1> QED
  BY <1>3, <1>4, <1>5, <1>6 DEF a

\* _xcb_map_remove takes one list from it.
LEMMA MapTake ==
    ASSUME NEW reps \in Seq(MapEntry), NEW i \in 1 .. Len(reps), MapDisjoint(reps)
    PROVE  LET r == SubSeq(reps, 1, i - 1) \o SubSeq(reps, i + 1, Len(reps))
           IN  /\ r \in Seq(MapEntry)
               /\ MapIds(r) = MapIds(reps) \ Elems(reps[i].data)
               /\ MapDisjoint(r)
               /\ Elems(reps[i].data) \subseteq MapIds(reps)
               /\ KeysDistinct(reps) =>
                    /\ KeysDistinct(r)
                    /\ \A j \in DOMAIN r : r[j].key # reps[i].key
               /\ \A j \in DOMAIN r : \E k \in DOMAIN reps : r[j] = reps[k]
<1> DEFINE r == SubSeq(reps, 1, i - 1) \o SubSeq(reps, i + 1, Len(reps))
<1>1. /\ r \in Seq(MapEntry) /\ Len(r) = Len(reps) - 1
      /\ \A j \in 1 .. Len(r) : r[j] = reps[IF j < i THEN j ELSE j + 1]
  BY RemoveAt
<1>2. /\ DOMAIN r = 1 .. Len(r) /\ DOMAIN reps = 1 .. Len(reps)
      /\ Len(r) \in Nat /\ Len(reps) \in Nat
  BY <1>1, LenProperties
<1> HIDE DEF r
<1>3. \A j \in 1 .. Len(reps) : j # i => \E k \in 1 .. Len(r) : r[k] = reps[j]
  <2> SUFFICES ASSUME NEW j \in 1 .. Len(reps), j # i PROVE \E k \in 1 .. Len(r) : r[k] = reps[j]
    OBVIOUS
  <2>1. CASE j < i
    BY <1>1, <1>2, <2>1
  <2>2. CASE j > i
    <3>1. j - 1 \in 1 .. Len(r) /\ ~(j - 1 < i) /\ (j - 1) + 1 = j
      BY <1>1, <1>2, <2>2
    <3> QED
      BY <1>1, <3>1
  <2> QED
    BY <2>1, <2>2
<1>4. \A k \in 1 .. Len(r) : \E j \in 1 .. Len(reps) : j # i /\ r[k] = reps[j]
  BY <1>1, <1>2
<1>5. Elems(reps[i].data) \subseteq MapIds(reps)
  BY <1>2 DEF MapIds
<1>6. \A y : y \in MapIds(r) <=> y \in MapIds(reps) /\ y \notin Elems(reps[i].data)
  <2>1. ASSUME NEW y \in MapIds(r) PROVE y \in MapIds(reps) /\ y \notin Elems(reps[i].data)
    <3>1. PICK k \in 1 .. Len(r) : y \in Elems(r[k].data)
      BY <1>2, <2>1 DEF MapIds
    <3>2. PICK j \in 1 .. Len(reps) : j # i /\ r[k] = reps[j]
      BY <1>4
    <3>3. y \in Elems(reps[j].data)
      BY <3>1, <3>2
    <3>4. Elems(reps[i].data) \cap Elems(reps[j].data) = {}
      BY <1>2, <3>2 DEF MapDisjoint
    <3>5. y \notin Elems(reps[i].data)
      BY <3>3, <3>4
    <3>6. y \in MapIds(reps)
      BY <1>2, <3>3 DEF MapIds
    <3> QED
      BY <3>5, <3>6
  <2>2. ASSUME NEW y \in MapIds(reps), y \notin Elems(reps[i].data) PROVE y \in MapIds(r)
    <3>1. PICK j \in 1 .. Len(reps) : y \in Elems(reps[j].data)
      BY <1>2 DEF MapIds
    <3>2. PICK k \in 1 .. Len(r) : r[k] = reps[j]
      BY <1>3, <2>2, <3>1
    <3>3. y \in Elems(r[k].data)
      BY <3>1, <3>2
    <3> QED
      BY <1>2, <3>3 DEF MapIds
  <2> QED
    BY <2>1, <2>2
<1>7. MapDisjoint(r)
  <2> SUFFICES ASSUME NEW j \in 1 .. Len(r), NEW k \in 1 .. Len(r), j # k
               PROVE  Elems(r[j].data) \cap Elems(r[k].data) = {}
    BY <1>2 DEF MapDisjoint
  <2> DEFINE J == IF j < i THEN j ELSE j + 1
             K == IF k < i THEN k ELSE k + 1
  <2>1. J \in 1 .. Len(reps) /\ K \in 1 .. Len(reps) /\ J # K
    BY <1>1, <1>2
  <2>2. r[j] = reps[J] /\ r[k] = reps[K]
    BY <1>1
  <2> HIDE DEF J, K
  <2> QED
    BY <1>2, <2>1, <2>2 DEF MapDisjoint
<1>8. ASSUME KeysDistinct(reps)
      PROVE  KeysDistinct(r) /\ \A j \in DOMAIN r : r[j].key # reps[i].key
  <2>1. \A j \in DOMAIN r : r[j].key # reps[i].key
    BY <1>2, <1>4, <1>8 DEF KeysDistinct
  <2>2. KeysDistinct(r)
    <3> SUFFICES ASSUME NEW j \in 1 .. Len(r), NEW k \in 1 .. Len(r), j # k
                 PROVE  r[j].key # r[k].key
      BY <1>2 DEF KeysDistinct
    <3> DEFINE J == IF j < i THEN j ELSE j + 1
               K == IF k < i THEN k ELSE k + 1
    <3>1. J \in 1 .. Len(reps) /\ K \in 1 .. Len(reps) /\ J # K
      BY <1>1, <1>2
    <3>2. r[j] = reps[J] /\ r[k] = reps[K]
      BY <1>1
    <3> HIDE DEF J, K
    <3> QED
      BY <1>2, <1>8, <3>1, <3>2 DEF KeysDistinct
  <2> QED
    BY <2>1, <2>2
<1>9. \A j \in DOMAIN r : \E k \in DOMAIN reps : r[j] = reps[k]
  BY <1>2, <1>4
<1> QED
  BY <1>1, <1>5, <1>6, <1>7, <1>8, <1>9 DEF r

\* An entry of the event queue, and events queued in the order in which they
\* were read.
Event == [id : Ids, full_sequence : Nat]
InQueueOrder(evs) == \A i, j \in 1 .. Len(evs) : i < j => evs[i].id < evs[j].id

\* An event linked in at the tail of the queue, or handed to the application.
LEMMA QueuePut ==
    ASSUME NEW evs \in Seq(Event), NEW e \in Event
    PROVE  /\ Queued(Append(evs, e)) = Queued(evs) \cup {e.id}
           /\ InQueueOrder(evs) /\ (\A y \in Queued(evs) : y < e.id)
              => InQueueOrder(Append(evs, e))
<1> DEFINE a == Append(evs, e)
<1>1. /\ a \in Seq(Event) /\ Len(a) = Len(evs) + 1 /\ Len(evs) \in Nat
      /\ \A i \in 1 .. Len(evs) : a[i] = evs[i]
      /\ a[Len(evs) + 1] = e
  BY AppendProperties, LenProperties
<1>2. DOMAIN a = 1 .. Len(evs) + 1 /\ DOMAIN evs = 1 .. Len(evs)
  BY <1>1, LenProperties
<1> HIDE DEF a
<1>3. \A y : y \in Queued(a) <=> y \in Queued(evs) \/ y = e.id
  BY <1>1, <1>2 DEF Queued
<1>4. ASSUME InQueueOrder(evs), \A y \in Queued(evs) : y < e.id PROVE InQueueOrder(a)
  <2>1. \A i \in 1 .. Len(evs) : evs[i].id < e.id
    BY <1>2, <1>4 DEF Queued
  <2> QED
    BY <1>1, <1>4, <2>1 DEF InQueueOrder
<1> QED
  BY <1>3, <1>4 DEF a

\* The event at the head of the queue is taken out of it.
LEMMA QueueTake ==
    ASSUME NEW evs \in Seq(Event), evs # <<>>, InQueueOrder(evs)
    PROVE  /\ Head(evs) \in Event /\ Head(evs).id \in Queued(evs)
           /\ Queued(Tail(evs)) = Queued(evs) \ {Head(evs).id}
           /\ InQueueOrder(Tail(evs))
<1> DEFINE t == Tail(evs)
<1>1. /\ t \in Seq(Event) /\ Len(t) = Len(evs) - 1 /\ Len(evs) \in Nat \ {0}
      /\ \A i \in 1 .. Len(t) : t[i] = evs[i + 1]
      /\ Head(evs) = evs[1] /\ Head(evs) \in Event
  BY HeadTailProperties, EmptySeq
<1>2. DOMAIN t = 1 .. Len(t) /\ DOMAIN evs = 1 .. Len(evs)
  BY <1>1, LenProperties
<1>3. \A i \in 1 .. Len(evs) : evs[i].id \in Nat
  <2>1. \A i \in 1 .. Len(evs) : evs[i] \in Event
    BY ElementOfSeq
  <2> QED
    BY <2>1, ReplyAssumption DEF Event, Ids
<1> HIDE DEF t
<1>4. \A i \in 2 .. Len(evs) : i - 1 \in 1 .. Len(t) /\ t[i - 1] = evs[i] /\ evs[1].id < evs[i].id
  <2> TAKE i \in 2 .. Len(evs)
  <2>1. i - 1 \in 1 .. Len(t) /\ (i - 1) + 1 = i
    BY <1>1
  <2>2. t[i - 1] = evs[(i - 1) + 1]
    BY <1>1, <2>1
  <2>3. 1 \in 1 .. Len(evs) /\ i \in 1 .. Len(evs) /\ 1 < i
    BY <1>1
  <2>4. evs[1].id < evs[i].id
    BY <2>3 DEF InQueueOrder
  <2> QED
    BY <2>1, <2>2, <2>4
<1>5. Head(evs).id \in Queued(evs)
  <2>1. 1 \in DOMAIN evs
    BY <1>1, <1>2
  <2> QED
    BY <1>1, <2>1 DEF Queued
<1>6. ASSUME NEW y \in Queued(t) PROVE y \in Queued(evs) /\ y # Head(evs).id
  <2>1. PICK i \in 1 .. Len(t) : y = t[i].id
    BY <1>2 DEF Queued
  <2>2. i + 1 \in 2 .. Len(evs) /\ y = evs[i + 1].id /\ i + 1 \in DOMAIN evs
    BY <1>1, <1>2, <2>1
  <2>3. evs[1].id < evs[i + 1].id /\ evs[1].id \in Nat
    BY <1>1, <1>3, <1>4, <2>2
  <2>4. y \in Queued(evs)
    BY <2>2 DEF Queued
  <2>5. y # evs[1].id
    BY <2>2, <2>3
  <2> QED
    BY <1>1, <2>4, <2>5
<1>7. ASSUME NEW y \in Queued(evs), y # Head(evs).id PROVE y \in Queued(t)
  <2>1. PICK i \in 1 .. Len(evs) : y = evs[i].id
    BY <1>2 DEF Queued
  <2>2. i # 1
    BY <1>1, <1>7, <2>1
  <2>3. i - 1 \in 1 .. Len(t) /\ t[i - 1].id = y
    BY <1>4, <2>1, <2>2
  <2> QED
    BY <1>2, <2>3 DEF Queued
<1>8. InQueueOrder(t)
  <2> SUFFICES ASSUME NEW i \in 1 .. Len(t), NEW j \in 1 .. Len(t), i < j
               PROVE  t[i].id < t[j].id
    BY DEF InQueueOrder
  <2>1. i + 1 \in 1 .. Len(evs) /\ j + 1 \in 1 .. Len(evs) /\ i + 1 < j + 1
    BY <1>1
  <2>2. evs[i + 1].id < evs[j + 1].id
    BY <2>1 DEF InQueueOrder
  <2> QED
    BY <1>1, <2>2
<1> QED
  BY <1>1, <1>5, <1>6, <1>7, <1>8 DEF t

\* A response returned for request n is one more that was returned.
LEMMA TakenAdd ==
    ASSUME NEW tk \in [1 .. MaxRequest -> Seq(Ids)], NEW n \in 1 .. MaxRequest, NEW x \in Ids
    PROVE  LET new == [tk EXCEPT ![n] = Append(@, x)]
           IN  /\ \A k \in 1 .. MaxRequest :
                     Elems(new[k]) = Elems(tk[k]) \cup (IF k = n THEN {x} ELSE {})
               /\ AllTaken(new) = AllTaken(tk) \cup {x}
<1> DEFINE new == [tk EXCEPT ![n] = Append(@, x)]
<1>1. /\ DOMAIN new = 1 .. MaxRequest /\ DOMAIN tk = 1 .. MaxRequest
      /\ \A k \in 1 .. MaxRequest : new[k] = IF k = n THEN Append(tk[n], x) ELSE tk[k]
  OBVIOUS
<1>2. Elems(Append(tk[n], x)) = Elems(tk[n]) \cup {x}
  BY ElemsAppend
<1> HIDE DEF new
<1>3. \A k \in 1 .. MaxRequest : Elems(new[k]) = Elems(tk[k]) \cup (IF k = n THEN {x} ELSE {})
  BY <1>1, <1>2
<1>4. \A y : y \in AllTaken(new) <=> y \in AllTaken(tk) \/ y = x
  BY <1>1, <1>3 DEF AllTaken
<1> QED
  BY <1>3, <1>4 DEF new
-----------------------------------------------------------------------------
(* The places a response can be in                                         *)

\* Seven sets that share no element and make up S.
Apart(S, m, c, e, t, d, x, l) ==
    /\ S = m \cup c \cup e \cup t \cup d \cup x \cup l
    /\ \A i \in S :
         /\ i \in m => i \notin c \cup e \cup t \cup d \cup x \cup l
         /\ i \in c => i \notin e \cup t \cup d \cup x \cup l
         /\ i \in e => i \notin t \cup d \cup x \cup l
         /\ i \in t => i \notin d \cup x \cup l
         /\ i \in d => i \notin x \cup l
         /\ i \in x => i \notin l

\* Each list is in the order of arrival, nothing has been returned for a
\* request that was not issued, and the places share no response.
StoreOrdered ==
    /\ Increasing(current_reply)
    /\ \A i \in DOMAIN replies : Increasing(replies[i].data)
    /\ MapDisjoint(replies)
    /\ InQueueOrder(events)
    /\ \A n \in out_request + 1 .. MaxRequest : taken[n] = <<>>

StorePlaces ==
    Apart(1 .. nread, MapIds(replies), Elems(current_reply), Queued(events),
          AllTaken(taken), Queued(delivered), dropped, lost)

\* The inductive invariant behind NothingLost.
StoreInv == TypeOK /\ StoreOrdered /\ StorePlaces
-----------------------------------------------------------------------------
(* What the actions do to the places                                       *)

storevars == <<current_reply, replies, events, taken, delivered, dropped, lost, nread>>

\* A step that only issues requests or lets the server answer.
Quiet ==
    /\ UNCHANGED <<storevars, request_read, nulls>>
    /\ out_request <= out_request'
    /\ Len(log) <= Len(log') /\ \A i \in 1 .. Len(log) : log'[i] = log[i]

\* The beginning of read_packet: the list being read stays (c is the list
\* and l the lost responses then), or goes to the map or is lost when the
\* request number changes.
PutAway(c, l) ==
    \/ /\ UNCHANGED <<request_read, replies>> /\ c = current_reply /\ l = lost
    \/ /\ request_read' > request_read /\ c = <<>>
       /\ \/ current_reply = <<>> /\ UNCHANGED replies /\ l = lost
          \/ /\ current_reply # <<>> /\ l = lost
             /\ replies' = Append(replies, [key |-> Cookie(request_read),
                                            data |-> current_reply])
          \/ /\ "nomap" \in Faults /\ current_reply # <<>>
             /\ UNCHANGED replies /\ l = lost \cup Elems(current_reply)

\* Its end: the response goes to one place, or is not read at all.
PutNew(c, l, id) ==
    \/ /\ nread' = nread /\ current_reply' = c /\ lost' = l /\ UNCHANGED <<events, dropped>>
    \/ /\ nread' = id /\ lost' = l /\ UNCHANGED <<events, dropped>>
       /\ current_reply' = Append(c, id) /\ log[id].type \in {"reply", "error"}
    \/ /\ nread' = id /\ current_reply' = c /\ lost' = l /\ UNCHANGED dropped
       /\ events' = Append(events, [id |-> id, full_sequence |-> Cookie(request_read')])
    \/ /\ nread' = id /\ current_reply' = c /\ lost' = l /\ UNCHANGED events
       /\ dropped' = dropped \cup {id}
    \/ /\ nread' = id /\ current_reply' = c /\ UNCHANGED <<events, dropped>>
       /\ lost' = l \cup {id}

ReadEffect ==
    /\ nread + 1 \in 1 .. Len(log) /\ nread + 1 \in Ids
    /\ UNCHANGED <<taken, delivered, nulls, out_request, log>>
    /\ \E c \in {current_reply, <<>>}, l \in {lost, lost \cup Elems(current_reply)} :
          PutAway(c, l) /\ PutNew(c, l, nread + 1)

\* read_packet is these two parts.
LEMMA ReadDoes ==
    ASSUME TypeOK, NEW outcome \in ReadOutcomes, NEW stored \in MapOk,
           read_packet(outcome, stored)
    PROVE  ReadEffect
<1> DEFINE id == nread + 1
           p == log[id]
           read == next_read(p)
           moved == read # request_read
           c == IF moved THEN <<>> ELSE current_reply
           l == IF stored THEN lost ELSE lost \cup Elems(current_reply)
           entry == [key |-> Cookie(request_read), data |-> current_reply]
           event == [id |-> id, full_sequence |-> Cookie(request_read')]
<1>1. id \in Ids /\ id \in 1 .. Len(log)
  <2>1. Len(log) \in Nat /\ nread \in 0 .. Len(log) /\ Len(log) <= MaxPacket
    BY LenProperties DEF TypeOK
  <2>2. nread < Len(log)
    BY DEF read_packet
  <2> QED
    BY <2>1, <2>2, ReplyAssumption DEF Ids
<1>2. UNCHANGED <<taken, delivered, nulls, out_request, log>>
  BY DEF read_packet, outvars
<1>3. stored \in BOOLEAN /\ outcome \in {"ok", "nobuf", "nolist", "broken"}
  BY DEF MapOk, ReadOutcomes
<1>4. request_read' = read /\ read >= request_read /\ request_read \in Nat /\ read \in Nat
  <2>1. request_read' = read
    BY DEF read_packet
  <2>2. p \in [type : PacketType, of : Nat]
    <3> HIDE DEF id
    <3> QED
      BY <1>1, ElementOfSeq DEF TypeOK
  <2>3. p.of \in Nat /\ request_read \in Nat
    BY <2>2 DEF TypeOK
  <2> HIDE DEF p
  <2>4. /\ WidenSequence(request_read, p.of % Seq16) \in Nat
        /\ WidenSequence(request_read, p.of % Seq16) >= request_read
    BY <2>3, WidenType
  <2> QED
    BY <2>1, <2>3, <2>4 DEF next_read
<1>5. /\ ~stored => moved /\ current_reply # <<>>
      /\ replies' = IF moved /\ current_reply # <<>> /\ stored
                    THEN Append(replies, entry) ELSE replies
  BY DEF read_packet, put_current
<1>6. \/ outcome \in {"nobuf", "broken"} /\ nread' = nread /\ current_reply' = c /\ lost' = l
           /\ UNCHANGED <<events, dropped>>
      \/ /\ nread' = id /\ lost' = l /\ UNCHANGED <<events, dropped>>
         /\ current_reply' = Append(c, id) /\ p.type \in {"reply", "error"}
      \/ /\ nread' = id /\ current_reply' = c /\ lost' = l /\ UNCHANGED dropped
         /\ events' = Append(events, event)
      \/ /\ nread' = id /\ current_reply' = c /\ lost' = l /\ UNCHANGED events
         /\ dropped' = dropped \cup {id}
      \/ /\ nread' = id /\ current_reply' = c /\ UNCHANGED <<events, dropped>>
         /\ lost' = l \cup {id}
  BY <1>3 DEF read_packet, to_reply_list, append_reply, Elems
<1>7. PutNew(c, l, id)
  BY <1>6, Zenon DEF PutNew
<1>8. PutAway(c, l)
  <2>1. CASE ~moved
    BY <1>3, <1>4, <1>5, <2>1 DEF PutAway
  <2>2. CASE moved
    <3>1. request_read' > request_read /\ c = <<>>
      BY <1>4, <2>2
    <3>2. CASE stored /\ current_reply = <<>>
      BY <1>5, <3>1, <3>2 DEF PutAway
    <3>3. CASE stored /\ current_reply # <<>>
      BY <1>5, <2>2, <3>1, <3>3 DEF PutAway
    <3>4. CASE ~stored
      BY <1>5, <3>1, <3>4 DEF PutAway, MapOk
    <3> QED
      BY <1>3, <3>2, <3>3, <3>4
  <2> QED
    BY <2>1, <2>2
<1>9. c \in {current_reply, <<>>} /\ l \in {lost, lost \cup Elems(current_reply)}
  OBVIOUS
<1> HIDE DEF c, l
<1> QED
  BY <1>1, <1>2, <1>7, <1>8, <1>9 DEF ReadEffect

\* poll_for_reply finds nothing, or takes the first response from the list
\* being read or from a list in the map, of which the rest is put back or
\* lost.
PollEffect(n) ==
    \/ UNCHANGED <<current_reply, replies, taken, lost>> /\ nulls' = nulls \cup {n}
    \/ /\ UNCHANGED <<replies, lost, nulls>>
       /\ Diff32(Cookie(n), request_read) = 0 /\ current_reply # <<>>
       /\ taken' = [taken EXCEPT ![n] = Append(@, Head(current_reply))]
       /\ current_reply' = Tail(current_reply)
    \/ \E i \in 1 .. Len(replies) :
         /\ UNCHANGED <<current_reply, nulls>>
         /\ replies[i].key = Cookie(n)
         /\ replies[i].data \in Seq(Ids) /\ replies[i].data # <<>>
         /\ taken' = [taken EXCEPT ![n] = Append(@, Head(replies[i].data))]
         /\ \/ replies' = map_removed(i) /\ lost' = lost /\ Tail(replies[i].data) = <<>>
            \/ /\ "nomap" \in Faults
               /\ replies' = map_removed(i) /\ lost' = lost \cup Elems(Tail(replies[i].data))
            \/ /\ lost' = lost /\ Tail(replies[i].data) # <<>>
               /\ replies' = Append(map_removed(i),
                               [key |-> Cookie(n), data |-> Tail(replies[i].data)])

LEMMA PollDoes ==
    ASSUME TypeOK, NEW n \in 1 .. out_request, NEW stored \in MapOk,
           xcb_poll_for_reply(n, stored)
    PROVE  /\ n \in 1 .. MaxRequest
           /\ UNCHANGED <<out_request, request_read, log, nread, events, delivered, dropped>>
           /\ PollEffect(n)
<1>1. /\ UNCHANGED <<out_request, request_read, log, nread, events, delivered, dropped>>
      /\ poll_for_reply(n, stored)
  BY DEF xcb_poll_for_reply, outvars, seqvars, netvars, readvars
<1>2. n \in 1 .. MaxRequest
  BY ReplyAssumption DEF TypeOK
<1>3. stored \in BOOLEAN
  BY DEF MapOk
<1>4. CASE found_nothing(n)
  BY <1>1, <1>2, <1>4 DEF found_nothing, PollEffect
<1>5. CASE Diff32(Cookie(n), request_read) = 0 /\ current_reply # <<>> /\ take_current(n)
  BY <1>1, <1>2, <1>5 DEF take_current, PollEffect
<1>6. CASE InMap(Cookie(n)) /\ take_from_map(n, Cookie(n), stored)
  <2> DEFINE key == Cookie(n)
             i == MapIndex(key)
             list == replies[i].data
             rest == [key |-> key, data |-> Tail(list)]
  <2>1. /\ i \in 1 .. Len(replies) /\ replies[i].key = key
        /\ list \in Seq(Ids) /\ list # <<>>
    BY <1>6, MapIndexType
  <2>2. /\ ~stored => Len(list) > 1
        /\ taken' = [taken EXCEPT ![n] = Append(@, Head(list))]
        /\ replies' = IF Len(list) > 1 /\ stored THEN Append(map_removed(i), rest)
                      ELSE map_removed(i)
        /\ lost' = IF stored THEN lost ELSE lost \cup {list[j] : j \in 2 .. Len(list)}
        /\ UNCHANGED <<current_reply, nulls>>
    BY <1>6 DEF take_from_map
  <2>3. {list[j] : j \in 2 .. Len(list)} = Elems(Tail(list))
    <3>1. \A j \in Ids : j \in Nat
      BY ReplyAssumption DEF Ids
    <3>2. list \in Seq(Nat)
      <4> HIDE DEF list
      <4> QED
        BY <2>1, <3>1
    <3> HIDE DEF list
    <3> QED
      BY <2>1, <3>2, RestOf
  <2>4. Len(list) > 1 <=> Tail(list) # <<>>
    <3> HIDE DEF list
    <3>1. Tail(list) \in Seq(Ids) /\ Len(Tail(list)) = Len(list) - 1 /\ Len(list) \in Nat
      BY <2>1, HeadTailProperties, LenProperties
    <3>2. Tail(list) = <<>> <=> Len(Tail(list)) = 0
      BY <3>1, EmptySeq
    <3>3. Len(list) \in Nat \ {0}
      BY <2>1, EmptySeq
    <3> QED
      BY <3>1, <3>2, <3>3
  <2> HIDE DEF i, key
  <2>5. \/ replies' = map_removed(i) /\ lost' = lost /\ Tail(list) = <<>>
        \/ /\ "nomap" \in Faults
           /\ replies' = map_removed(i) /\ lost' = lost \cup Elems(Tail(list))
        \/ lost' = lost /\ Tail(list) # <<>> /\ replies' = Append(map_removed(i), rest)
    BY <1>3, <2>2, <2>3, <2>4 DEF MapOk
  <2> QED
    BY <1>1, <1>2, <2>1, <2>2, <2>5 DEF PollEffect, key
<1> QED
  BY <1>1, <1>2, <1>4, <1>5, <1>6, Zenon DEF poll_for_reply

\* discard_reply frees a list of the map, or the list being read, or
\* nothing.
DiscardEffect(n) ==
    \/ UNCHANGED <<current_reply, replies, dropped>>
    \/ /\ UNCHANGED replies /\ current_reply' = <<>>
       /\ Diff32(Cookie(n), request_read) = 0
       /\ dropped' = dropped \cup Elems(current_reply)
    \/ \E i \in 1 .. Len(replies) :
         /\ replies[i].key = Cookie(n)
         /\ UNCHANGED current_reply /\ replies' = map_removed(i)
         /\ dropped' = dropped \cup Elems(replies[i].data)

LEMMA DiscardDoes ==
    ASSUME TypeOK, NEW n \in 1 .. out_request, NEW ok \in MemOk, xcb_discard_reply(n, ok)
    PROVE  /\ UNCHANGED <<out_request, request_read, log, nread, events, taken,
                          delivered, lost, nulls>>
           /\ DiscardEffect(n)
<1>1. /\ UNCHANGED <<out_request, request_read, log, nread, events, taken,
                     delivered, lost, nulls>>
      /\ discard_reply(n, ok)
  BY DEF xcb_discard_reply, outvars, seqvars, netvars, readvars
<1>2. CASE /\ InMap(Cookie(n))
           /\ replies' = map_removed(MapIndex(Cookie(n)))
           /\ dropped' = dropped \cup {replies[MapIndex(Cookie(n))].data[j] :
                              j \in DOMAIN replies[MapIndex(Cookie(n))].data}
           /\ UNCHANGED <<current_reply, pending_replies>>
  <2> DEFINE i == MapIndex(Cookie(n))
  <2>1. i \in 1 .. Len(replies) /\ replies[i].key = Cookie(n)
    BY <1>2, MapIndexType
  <2>2. /\ UNCHANGED current_reply /\ replies' = map_removed(i)
        /\ dropped' = dropped \cup Elems(replies[i].data)
    BY <1>2 DEF Elems
  <2> HIDE DEF i
  <2> QED
    BY <1>1, <2>1, <2>2 DEF DiscardEffect
<1>3. CASE UNCHANGED <<replies, dropped, current_reply, pending_replies>>
  BY <1>1, <1>3 DEF DiscardEffect
<1>4. CASE /\ Diff32(Cookie(n), request_read) = 0
           /\ dropped' = dropped \cup {current_reply[j] : j \in DOMAIN current_reply}
           /\ current_reply' = <<>> /\ UNCHANGED replies
  BY <1>1, <1>4 DEF DiscardEffect, Elems
<1>5. CASE UNCHANGED <<current_reply, replies, dropped>>
  BY <1>1, <1>5 DEF DiscardEffect
<1> QED
  BY <1>1, <1>2, <1>3, <1>4, <1>5, Zenon DEF discard_reply

\* Every other step is quiet or hands an event to the application.
LEMMA StepKinds ==
    ASSUME TypeOK, TypeOK', [Next]_vars
    PROVE  \/ Quiet
           \/ \E outcome \in ReadOutcomes, stored \in MapOk : read_packet(outcome, stored)
           \/ \E n \in 1 .. out_request, stored \in MapOk : xcb_poll_for_reply(n, stored)
           \/ \E n \in 1 .. out_request, ok \in MemOk : xcb_discard_reply(n, ok)
           \/ get_event
<1> DEFINE P == [type : PacketType, of : Nat]
<1>1. /\ log \in Seq(P) /\ log' \in Seq(P) /\ Len(log) \in Nat
      /\ reqs \in Seq(Request) /\ reqs' \in Seq(Request)
      /\ Len(reqs) = out_request /\ Len(reqs') = out_request' /\ out_request \in Nat
  <2>1. log \in Seq(P) /\ log' \in Seq(P) /\ reqs \in Seq(Request) /\ reqs' \in Seq(Request)
    BY DEF TypeOK
  <2> QED
    BY <2>1, LenProperties DEF TypeOK
<1> HIDE DEF P
<1>2. \A ps \in Seq(P) : /\ Len(log) <= Len(log \o ps)
                         /\ \A i \in 1 .. Len(log) : (log \o ps)[i] = log[i]
  <2> TAKE ps \in Seq(P)
  <2>1. /\ Len(log \o ps) = Len(log) + Len(ps) /\ Len(ps) \in Nat
        /\ \A i \in 1 .. Len(log) + Len(ps) :
              (log \o ps)[i] = IF i <= Len(log) THEN log[i] ELSE ps[i - Len(log)]
    BY <1>1, ConcatProperties, LenProperties
  <2> QED
    BY <1>1, <2>1
<1>3. UNCHANGED log => Len(log) <= Len(log') /\ \A i \in 1 .. Len(log) : log'[i] = log[i]
  BY <1>1
<1>4. ASSUME NEW req \in Shapes, xcb_send_request(req) PROVE Quiet
  <2>1. /\ UNCHANGED <<storevars, request_read, nulls, log>>
        /\ out_request' \in {out_request + 1, out_request + 2}
    BY <1>4 DEF xcb_send_request, storevars, readvars, ghosts
  <2>2. out_request <= out_request'
    BY <1>1, <2>1
  <2> QED
    BY <1>3, <2>1, <2>2 DEF Quiet
<1>5. ASSUME NEW batch \in Batches, xcb_writev(batch) PROVE Quiet
  <2>1. /\ UNCHANGED <<storevars, request_read, nulls, log>>
        /\ out_request' = out_request + Len(batch)
    BY <1>5 DEF xcb_writev, storevars, readvars, ghosts, seqvars, listvars
  <2>2. Len(batch) \in Nat
    BY ReplyAssumption, LenProperties
  <2>3. out_request <= out_request'
    BY <1>1, <2>1, <2>2
  <2> QED
    BY <1>3, <2>1, <2>3 DEF Quiet
<1>6. ASSUME NEW flags \in OwnerFlags, xcb_take_socket(flags) PROVE Quiet
  <2>1. UNCHANGED <<storevars, request_read, nulls, log, out_request>>
    BY <1>6 DEF xcb_take_socket, storevars, readvars, seqvars, netvars
  <2> QED
    BY <1>1, <1>3, <2>1 DEF Quiet
<1>7. ASSUME send_refused \/ take_socket_failed \/ UNCHANGED vars PROVE Quiet
  <2>1. UNCHANGED <<storevars, request_read, nulls, log, out_request>>
    BY <1>7 DEF send_refused, take_socket_failed, vars, storevars, outvars, readvars, seqvars, listvars,
                netvars, ghosts
  <2> QED
    BY <1>1, <1>3, <2>1 DEF Quiet
<1>8. ASSUME NEW ps \in Seq(P), ServerStep(ps) PROVE Quiet
  <2>1. /\ UNCHANGED <<storevars, request_read, nulls, out_request>>
        /\ log' = log \o ps
    BY <1>8 DEF ServerStep, storevars, outvars, seqvars, listvars, readvars, ghosts
  <2> QED
    BY <1>1, <1>2, <2>1 DEF Quiet
<1>9. ASSUME serve \/ more_replies \/ send_event PROVE Quiet
  <2>1. served \in Nat
    BY DEF TypeOK
  <2>2. \A type \in PacketType, n \in {served, served + 1} : <<Packet(type, n)>> \in Seq(P)
    <3> SUFFICES ASSUME NEW type \in PacketType, NEW n \in {served, served + 1}
                 PROVE  <<Packet(type, n)>> \in Seq(P)
      OBVIOUS
    <3>1. Packet(type, n) \in P
      BY <2>1 DEF Packet, P
    <3> QED
      BY <3>1
  <2>3. <<>> \in Seq(P)
    OBVIOUS
  <2>4. CASE serve
    <3>1. \/ ServerStep(<<>>) \/ ServerStep(<<Packet("reply", served + 1)>>)
          \/ ServerStep(<<Packet("error", served + 1)>>)
      BY <2>4 DEF serve
    <3> QED
      BY <1>8, <2>2, <2>3, <3>1 DEF PacketType
  <2>5. CASE more_replies \/ send_event
    <3>1. PICK type \in PacketType : ServerStep(<<Packet(type, served)>>)
      BY <2>5, ReplyAssumption DEF more_replies, send_event, PacketType
    <3> QED
      BY <1>8, <2>2, <3>1
  <2> QED
    BY <1>9, <2>4, <2>5
<1> QED
  BY <1>4, <1>5, <1>6, <1>7, <1>9 DEF Next
-----------------------------------------------------------------------------
(* No response is lost or in two places                                    *)

\* Identifiers of responses are numbers, and the ids of all places were read.
LEMMA PlacesRead ==
    ASSUME StoreInv
    PROVE  /\ Ids \subseteq Nat /\ nread \in Nat
           /\ current_reply \in Seq(Nat)
           /\ \A i \in 1 .. Len(replies) :
                /\ replies[i] \in MapEntry
                /\ replies[i].data \in Seq(Ids) /\ replies[i].data \in Seq(Nat)
                /\ replies[i].data # <<>>
           /\ Elems(current_reply) \subseteq 1 .. nread
           /\ MapIds(replies) \subseteq 1 .. nread
           /\ Queued(events) \subseteq 1 .. nread
           /\ AllTaken(taken) \subseteq 1 .. nread
           /\ nread + 1 \notin 1 .. nread
           /\ \A y \in 1 .. nread : y < nread + 1
<1>1. Ids \subseteq Nat
  BY ReplyAssumption DEF Ids
<1>2. \A s \in Seq(Ids) : s \in Seq(Nat)
  <2> TAKE s \in Seq(Ids)
  <2>1. Len(s) \in Nat /\ s \in [1 .. Len(s) -> Ids]
    BY LenProperties
  <2>2. s \in [1 .. Len(s) -> Nat]
    BY <1>1, <2>1
  <2> QED
    BY <2>1, <2>2
<1>3. current_reply \in Seq(Ids) /\ replies \in Seq(MapEntry) /\ nread \in 0 .. Len(log)
  BY DEF StoreInv, TypeOK
<1>4. Len(log) \in Nat
  BY LenProperties DEF StoreInv, TypeOK
<1>5. ASSUME NEW i \in 1 .. Len(replies)
      PROVE  /\ replies[i] \in MapEntry
             /\ replies[i].data \in Seq(Ids) /\ replies[i].data # <<>>
  <2>1. replies[i] \in MapEntry
    BY <1>3, ElementOfSeq
  <2> QED
    BY <2>1 DEF MapEntry
<1>6. /\ Elems(current_reply) \subseteq 1 .. nread /\ MapIds(replies) \subseteq 1 .. nread
      /\ Queued(events) \subseteq 1 .. nread /\ AllTaken(taken) \subseteq 1 .. nread
  BY DEF StoreInv, StorePlaces, Apart
<1>7. nread \in Nat
  BY <1>3, <1>4
<1>8. nread + 1 \notin 1 .. nread /\ \A y \in 1 .. nread : y < nread + 1
  BY <1>7
<1> QED
  BY <1>1, <1>2, <1>3, <1>5, <1>6, <1>7, <1>8

LEMMA StoreInit == Init => StoreInv
<1> SUFFICES ASSUME Init PROVE StoreInv
  OBVIOUS
<1>1. TypeOK
  BY TypeInit
<1>2. Elems(<<>>) = {} /\ MapIds(<<>>) = {} /\ Queued(<<>>) = {}
  BY DEF Elems, MapIds, Queued
<1>3. AllTaken(taken) = {}
  BY <1>2 DEF Init, AllTaken
<1>4. StoreOrdered
  BY ReplyAssumption DEF Init, StoreOrdered, Increasing, MapDisjoint, InQueueOrder
<1>5. StorePlaces
  <2>1. /\ 1 .. nread = {} /\ MapIds(replies) = {} /\ Elems(current_reply) = {}
        /\ Queued(events) = {} /\ Queued(delivered) = {} /\ dropped = {} /\ lost = {}
    BY <1>2 DEF Init
  <2>2. Apart({}, {}, {}, {}, {}, {}, {}, {})
    BY DEF Apart
  <2> QED
    BY <1>3, <2>1, <2>2 DEF StorePlaces
<1> QED
  BY <1>1, <1>4, <1>5 DEF StoreInv

LEMMA StoreQuiet ==
    ASSUME StoreInv, TypeOK', Quiet
    PROVE  StoreInv'
<1>1. /\ UNCHANGED <<current_reply, replies, events, taken, delivered, dropped, lost, nread>>
      /\ out_request <= out_request'
  BY DEF Quiet, storevars
<1>2. StorePlaces'
  BY <1>1 DEF StoreInv, StorePlaces
<1>3. \A n \in out_request' + 1 .. MaxRequest : n \in out_request + 1 .. MaxRequest
  <2>1. out_request \in 0 .. MaxRequest /\ out_request' \in 0 .. MaxRequest /\ MaxRequest \in Nat
    BY ReplyAssumption DEF StoreInv, TypeOK
  <2>2. \A a, b \in Nat : a <= b => \A n \in b + 1 .. MaxRequest : n \in a + 1 .. MaxRequest
    BY <2>1
  <2>3. out_request \in Nat /\ out_request' \in Nat /\ out_request <= out_request'
    BY <1>1, <2>1
  <2> QED
    BY <2>2, <2>3
<1>4. StoreOrdered'
  BY <1>1, <1>3 DEF StoreInv, StoreOrdered
<1> QED
  BY <1>2, <1>4 DEF StoreInv

\* read_packet moves the list being read as a whole and puts the response
\* in one place.
LEMMA StoreRead ==
    ASSUME StoreInv, TypeOK', ReadEffect
    PROVE  StoreInv'
<1> DEFINE id == nread + 1
<1>1. PICK c \in {current_reply, <<>>}, l \in {lost, lost \cup Elems(current_reply)} :
         PutAway(c, l) /\ PutNew(c, l, id)
  BY DEF ReadEffect
<1>2. /\ UNCHANGED <<taken, delivered, out_request>> /\ id \in Ids
  BY DEF ReadEffect
<1>3. Elems(<<>>) = {} /\ Increasing(<<>>)
  BY DEF Elems, Increasing
<1>4. /\ Increasing(c) /\ c \in Seq(Nat)
      /\ \A i \in DOMAIN replies' : Increasing(replies'[i].data)
      /\ MapDisjoint(replies')
      /\ Apart(1 .. nread, MapIds(replies'), Elems(c), Queued(events), AllTaken(taken),
               Queued(delivered), dropped, l)
  <2>0. /\ Increasing(current_reply) /\ current_reply \in Seq(Nat) /\ <<>> \in Seq(Nat)
        /\ \A i \in DOMAIN replies : Increasing(replies[i].data)
        /\ MapDisjoint(replies)
        /\ Apart(1 .. nread, MapIds(replies), Elems(current_reply), Queued(events),
                 AllTaken(taken), Queued(delivered), dropped, lost)
    BY PlacesRead DEF StoreInv, StoreOrdered, StorePlaces
  <2>1. CASE UNCHANGED replies /\ c = current_reply /\ l = lost
    BY <2>0, <2>1
  <2>2. CASE c = <<>> /\ current_reply = <<>> /\ UNCHANGED replies /\ l = lost
    BY <2>0, <2>2
  <2>3. CASE c = <<>> /\ UNCHANGED replies /\ l = lost \cup Elems(current_reply)
    <3>1. Apart(1 .. nread, MapIds(replies), {}, Queued(events), AllTaken(taken),
                Queued(delivered), dropped, lost \cup Elems(current_reply))
      BY <2>0 DEF Apart
    <3> QED
      BY <1>3, <2>0, <2>3, <3>1
  <2>4. CASE /\ c = <<>> /\ current_reply # <<>> /\ l = lost
             /\ replies' = Append(replies, [key |-> Cookie(request_read),
                                            data |-> current_reply])
    <3> DEFINE e == [key |-> Cookie(request_read), data |-> current_reply]
    <3>1. e \in MapEntry /\ e.data = current_reply
      BY <2>4, CookieType DEF MapEntry, StoreInv, TypeOK
    <3>2. replies \in Seq(MapEntry)
      BY DEF StoreInv, TypeOK
    <3>3. Elems(current_reply) \cap MapIds(replies) = {}
      BY <2>0 DEF Apart
    <3> HIDE DEF e
    <3>4. /\ MapIds(Append(replies, e)) = MapIds(replies) \cup Elems(e.data)
          /\ MapDisjoint(Append(replies, e))
      BY <2>0, <3>1, <3>2, <3>3, MapPut
    <3>5. replies' = Append(replies, e)
      BY <2>4 DEF e
    <3>6. \A i \in DOMAIN Append(replies, e) : Increasing(Append(replies, e)[i].data)
      <4>1. /\ DOMAIN Append(replies, e) = 1 .. Len(replies) + 1 /\ Len(replies) \in Nat
            /\ DOMAIN replies = 1 .. Len(replies)
            /\ \A i \in 1 .. Len(replies) : Append(replies, e)[i] = replies[i]
            /\ Append(replies, e)[Len(replies) + 1] = e
        BY <3>1, <3>2, AppendProperties, LenProperties
      <4> QED
        BY <2>0, <3>1, <4>1
    <3>7. Apart(1 .. nread, MapIds(replies) \cup Elems(current_reply), {}, Queued(events),
                AllTaken(taken), Queued(delivered), dropped, lost)
      BY <2>0 DEF Apart
    <3>8. MapIds(replies') = MapIds(replies) \cup Elems(current_reply)
      BY <3>1, <3>4, <3>5
    <3>9. MapDisjoint(replies')
      BY <3>4, <3>5
    <3>10. \A i \in DOMAIN replies' : Increasing(replies'[i].data)
      BY <3>5, <3>6
    <3>11. Elems(c) = {} /\ Increasing(c) /\ c \in Seq(Nat) /\ l = lost
      BY <1>3, <2>0, <2>4
    <3> QED
      BY <3>7, <3>8, <3>9, <3>10, <3>11
  <2> QED
    BY <1>1, <2>1, <2>2, <2>3, <2>4 DEF PutAway
<1>5. /\ nread \in Nat /\ id \in Nat /\ id \notin 1 .. nread
      /\ 1 .. id = (1 .. nread) \cup {id}
      /\ \A y \in 1 .. nread : y < id
  BY PlacesRead
<1>6. /\ Elems(c) \subseteq 1 .. nread /\ Queued(events) \subseteq 1 .. nread
  BY <1>4 DEF Apart
<1>7. /\ Increasing(current_reply') /\ InQueueOrder(events')
      /\ Apart(1 .. nread', MapIds(replies'), Elems(current_reply'), Queued(events'),
               AllTaken(taken), Queued(delivered), dropped', lost')
  <2>0. InQueueOrder(events) /\ events \in Seq(Event)
    BY DEF StoreInv, StoreOrdered, TypeOK, Event
  <2> HIDE DEF id
  <2>1. CASE nread' = nread /\ current_reply' = c /\ lost' = l /\ UNCHANGED <<events, dropped>>
    BY <1>4, <2>0, <2>1
  <2>2. CASE nread' = id /\ lost' = l /\ UNCHANGED <<events, dropped>> /\ current_reply' = Append(c, id)
    <3>1. Elems(Append(c, id)) = Elems(c) \cup {id}
      BY <1>4, <1>5, ElemsAppend
    <3>2. Increasing(Append(c, id))
      BY <1>4, <1>5, <1>6, IncreasingAppend
    <3>3. Apart((1 .. nread) \cup {id}, MapIds(replies'), Elems(c) \cup {id}, Queued(events),
                AllTaken(taken), Queued(delivered), dropped, l)
      BY <1>4, <1>5 DEF Apart
    <3> QED
      BY <1>5, <2>0, <2>2, <3>1, <3>2, <3>3
  <2>3. CASE /\ nread' = id /\ current_reply' = c /\ lost' = l /\ UNCHANGED dropped
             /\ events' = Append(events, [id |-> id, full_sequence |-> Cookie(request_read')])
    <3> DEFINE e == [id |-> id, full_sequence |-> Cookie(request_read')]
    <3>1. e \in Event /\ e.id = id
      <4>1. Cookie(request_read') \in Nat
        BY CookieType DEF TypeOK
      <4> QED
        BY <1>2, <4>1 DEF Event, id
    <3> HIDE DEF e
    <3>2. Queued(Append(events, e)) = Queued(events) \cup {id} /\ InQueueOrder(Append(events, e))
      BY <1>5, <1>6, <2>0, <3>1, QueuePut
    <3>3. Apart((1 .. nread) \cup {id}, MapIds(replies'), Elems(c), Queued(events) \cup {id},
                AllTaken(taken), Queued(delivered), dropped, l)
      BY <1>4, <1>5 DEF Apart
    <3>4. events' = Append(events, e)
      BY <2>3 DEF e
    <3> QED
      BY <1>4, <1>5, <2>3, <3>2, <3>3, <3>4
  <2>4. CASE /\ nread' = id /\ current_reply' = c /\ lost' = l /\ UNCHANGED events
             /\ dropped' = dropped \cup {id}
    <3>1. Apart((1 .. nread) \cup {id}, MapIds(replies'), Elems(c), Queued(events),
                AllTaken(taken), Queued(delivered), dropped \cup {id}, l)
      BY <1>4, <1>5 DEF Apart
    <3> QED
      BY <1>4, <1>5, <2>0, <2>4, <3>1
  <2>5. CASE /\ nread' = id /\ current_reply' = c /\ UNCHANGED <<events, dropped>>
             /\ lost' = l \cup {id}
    <3>1. Apart((1 .. nread) \cup {id}, MapIds(replies'), Elems(c), Queued(events),
                AllTaken(taken), Queued(delivered), dropped, l \cup {id})
      BY <1>4, <1>5 DEF Apart
    <3> QED
      BY <1>4, <1>5, <2>0, <2>5, <3>1
  <2> QED
    BY <1>1, <2>1, <2>2, <2>3, <2>4, <2>5 DEF PutNew
<1>8. StorePlaces'
  BY <1>2, <1>7 DEF StorePlaces
<1>9. StoreOrdered'
  BY <1>2, <1>4, <1>7 DEF StoreInv, StoreOrdered
<1> QED
  BY <1>8, <1>9 DEF StoreInv

\* poll_for_reply returns one response and keeps the others in order.
LEMMA StorePoll ==
    ASSUME StoreInv, TypeOK', NEW n \in 1 .. out_request, NEW stored \in MapOk,
           xcb_poll_for_reply(n, stored)
    PROVE  StoreInv'
<1>1. /\ n \in 1 .. MaxRequest
      /\ UNCHANGED <<out_request, request_read, log, nread, events, delivered, dropped>>
      /\ PollEffect(n)
  BY PollDoes DEF StoreInv
<1>2. /\ Increasing(current_reply) /\ current_reply \in Seq(Nat) /\ current_reply \in Seq(Ids)
      /\ \A i \in DOMAIN replies : Increasing(replies[i].data)
      /\ MapDisjoint(replies) /\ replies \in Seq(MapEntry)
      /\ taken \in [1 .. MaxRequest -> Seq(Ids)]
      /\ \A m \in out_request + 1 .. MaxRequest : taken[m] = <<>>
      /\ Apart(1 .. nread, MapIds(replies), Elems(current_reply), Queued(events),
               AllTaken(taken), Queued(delivered), dropped, lost)
  BY PlacesRead DEF StoreInv, StoreOrdered, StorePlaces, TypeOK
<1>3. \A x : \A m \in out_request + 1 .. MaxRequest :
         [taken EXCEPT ![n] = Append(@, x)][m] = <<>>
  <2>1. \A m \in out_request + 1 .. MaxRequest : m # n /\ m \in 1 .. MaxRequest
    BY <1>1, ReplyAssumption DEF StoreInv, TypeOK
  <2> QED
    BY <1>2, <2>1
<1>4. /\ Increasing(current_reply') /\ MapDisjoint(replies')
      /\ \A i \in DOMAIN replies' : Increasing(replies'[i].data)
      /\ \A m \in out_request + 1 .. MaxRequest : taken'[m] = <<>>
      /\ Apart(1 .. nread, MapIds(replies'), Elems(current_reply'), Queued(events),
               AllTaken(taken'), Queued(delivered), dropped, lost')
  <2>1. CASE UNCHANGED <<current_reply, replies, taken, lost>>
    BY <1>2, <2>1
  <2>2. CASE /\ UNCHANGED <<replies, lost>> /\ current_reply # <<>>
             /\ taken' = [taken EXCEPT ![n] = Append(@, Head(current_reply))]
             /\ current_reply' = Tail(current_reply)
    <3> DEFINE x == Head(current_reply)
    <3>1. /\ x \in Elems(current_reply) /\ Increasing(Tail(current_reply))
          /\ Elems(Tail(current_reply)) = Elems(current_reply) \ {x}
      BY <1>2, <2>2, TakeFirst
    <3>2. x \in Ids
      BY <1>2, <2>2, HeadTailProperties
    <3> HIDE DEF x
    <3>3. taken' = [taken EXCEPT ![n] = Append(@, x)]
      BY <2>2 DEF x
    <3>4. AllTaken(taken') = AllTaken(taken) \cup {x}
      BY <1>1, <1>2, <3>2, <3>3, TakenAdd
    <3>5. Apart(1 .. nread, MapIds(replies), Elems(current_reply) \ {x}, Queued(events),
                AllTaken(taken) \cup {x}, Queued(delivered), dropped, lost)
      BY <1>2, <3>1 DEF Apart
    <3>6. /\ replies' = replies /\ lost' = lost
          /\ Elems(current_reply') = Elems(current_reply) \ {x} /\ Increasing(current_reply')
      BY <2>2, <3>1
    <3> QED
      BY <1>2, <1>3, <3>3, <3>4, <3>5, <3>6
  <2>3. ASSUME NEW i \in 1 .. Len(replies),
               UNCHANGED current_reply,
               replies[i].data \in Seq(Ids) /\ replies[i].data # <<>>,
               taken' = [taken EXCEPT ![n] = Append(@, Head(replies[i].data))],
               \/ replies' = map_removed(i) /\ lost' = lost /\ Tail(replies[i].data) = <<>>
               \/ replies' = map_removed(i) /\ lost' = lost \cup Elems(Tail(replies[i].data))
               \/ /\ lost' = lost /\ Tail(replies[i].data) # <<>>
                  /\ replies' = Append(map_removed(i),
                                  [key |-> Cookie(n), data |-> Tail(replies[i].data)])
        PROVE  <1>4!:
    <3> DEFINE list == replies[i].data
               x == Head(list)
               r == map_removed(i)
               rest == [key |-> Cookie(n), data |-> Tail(list)]
    <3>1. list \in Seq(Nat) /\ list \in Seq(Ids) /\ Increasing(list)
      <4>1. i \in DOMAIN replies
        BY <1>2, LenProperties
      <4> QED
        BY <1>2, <4>1, PlacesRead
    <3>2. /\ x \in Elems(list) /\ Increasing(Tail(list))
          /\ Elems(Tail(list)) = Elems(list) \ {x}
      BY <2>3, <3>1, TakeFirst
    <3>3. x \in Ids /\ Tail(list) \in Seq(Ids)
      BY <2>3, HeadTailProperties
    <3>4. /\ r \in Seq(MapEntry) /\ MapIds(r) = MapIds(replies) \ Elems(list)
          /\ MapDisjoint(r) /\ Elems(list) \subseteq MapIds(replies)
          /\ \A j \in DOMAIN r : \E k \in DOMAIN replies : r[j] = replies[k]
      BY <1>2, MapTake DEF map_removed
    <3>5. rest.data = Tail(list) /\ (Tail(list) # <<>> => rest \in MapEntry)
      <4>1. Cookie(n) \in Nat
        BY CookieType
      <4> QED
        BY <3>3, <4>1 DEF MapEntry
    <3> HIDE DEF list, x, r, rest
    <3>6. taken' = [taken EXCEPT ![n] = Append(@, x)]
      BY <2>3 DEF x, list
    <3>7. AllTaken(taken') = AllTaken(taken) \cup {x}
      BY <1>1, <1>2, <3>3, <3>6, TakenAdd
    <3>8. \A m \in out_request + 1 .. MaxRequest : taken'[m] = <<>>
      BY <1>3, <3>6
    <3>9. \A j \in DOMAIN r : Increasing(r[j].data)
      BY <1>2, <3>4
    <3>10. CASE replies' = r /\ lost' = lost /\ Tail(list) = <<>>
      <4>1. Elems(Tail(list)) = {}
        BY <3>10 DEF Elems
      <4>2. Elems(list) = {x}
        BY <3>2, <4>1
      <4>3. Apart(1 .. nread, MapIds(replies) \ {x}, Elems(current_reply), Queued(events),
                  AllTaken(taken) \cup {x}, Queued(delivered), dropped, lost)
        BY <1>2, <3>2, <3>4 DEF Apart
      <4> QED
        BY <1>2, <2>3, <3>4, <3>7, <3>8, <3>9, <3>10, <4>2, <4>3
    <3>11. CASE replies' = r /\ lost' = lost \cup Elems(Tail(list))
      <4>1. Apart(1 .. nread, MapIds(replies) \ Elems(list), Elems(current_reply), Queued(events),
                  AllTaken(taken) \cup {x}, Queued(delivered), dropped,
                  lost \cup (Elems(list) \ {x}))
        BY <1>2, <3>2, <3>4 DEF Apart
      <4> QED
        BY <1>2, <2>3, <3>2, <3>4, <3>7, <3>8, <3>9, <3>11, <4>1
    <3>12. CASE lost' = lost /\ Tail(list) # <<>> /\ replies' = Append(r, rest)
      <4>1. Elems(rest.data) \cap MapIds(r) = {}
        BY <3>2, <3>4, <3>5
      <4>2. /\ MapIds(Append(r, rest)) = MapIds(r) \cup Elems(rest.data)
            /\ MapDisjoint(Append(r, rest))
            /\ \A j \in DOMAIN Append(r, rest) :
                 \/ Append(r, rest)[j] = rest
                 \/ \E k \in DOMAIN r : Append(r, rest)[j] = r[k]
        BY <3>4, <3>5, <3>12, <4>1, MapPut
      <4>3. MapIds(Append(r, rest)) = MapIds(replies) \ {x}
        BY <3>2, <3>4, <3>5, <4>2
      <4>4. \A j \in DOMAIN Append(r, rest) : Increasing(Append(r, rest)[j].data)
        BY <3>2, <3>5, <3>9, <4>2
      <4>5. Apart(1 .. nread, MapIds(replies) \ {x}, Elems(current_reply), Queued(events),
                  AllTaken(taken) \cup {x}, Queued(delivered), dropped, lost)
        BY <1>2, <3>2, <3>4 DEF Apart
      <4>6. /\ MapIds(replies') = MapIds(replies) \ {x} /\ MapDisjoint(replies')
            /\ \A j \in DOMAIN replies' : Increasing(replies'[j].data)
        BY <3>12, <4>2, <4>3, <4>4
      <4> QED
        BY <1>2, <2>3, <3>7, <3>8, <3>12, <4>5, <4>6
    <3> QED
      BY <2>3, <3>10, <3>11, <3>12 DEF list, r, rest
  <2> QED
    BY <1>1, <2>1, <2>2, <2>3 DEF PollEffect
<1>5. StorePlaces'
  BY <1>1, <1>4 DEF StorePlaces
<1>6. StoreOrdered'
  BY <1>1, <1>4 DEF StoreInv, StoreOrdered
<1> QED
  BY <1>5, <1>6 DEF StoreInv

\* discard_reply frees whole lists.
LEMMA StoreDiscard ==
    ASSUME StoreInv, TypeOK', NEW n \in 1 .. out_request, NEW ok \in MemOk,
           xcb_discard_reply(n, ok)
    PROVE  StoreInv'
<1>1. /\ UNCHANGED <<out_request, request_read, log, nread, events, taken,
                     delivered, lost, nulls>>
      /\ DiscardEffect(n)
  BY DiscardDoes DEF StoreInv
<1>2. /\ Increasing(current_reply)
      /\ \A i \in DOMAIN replies : Increasing(replies[i].data)
      /\ MapDisjoint(replies) /\ replies \in Seq(MapEntry)
      /\ Apart(1 .. nread, MapIds(replies), Elems(current_reply), Queued(events),
               AllTaken(taken), Queued(delivered), dropped, lost)
  BY DEF StoreInv, StoreOrdered, StorePlaces, TypeOK
<1>3. /\ Increasing(current_reply') /\ MapDisjoint(replies')
      /\ \A i \in DOMAIN replies' : Increasing(replies'[i].data)
      /\ Apart(1 .. nread, MapIds(replies'), Elems(current_reply'), Queued(events),
               AllTaken(taken), Queued(delivered), dropped', lost)
  <2>1. CASE UNCHANGED <<current_reply, replies, dropped>>
    BY <1>2, <2>1
  <2>2. CASE /\ UNCHANGED replies /\ current_reply' = <<>>
             /\ dropped' = dropped \cup Elems(current_reply)
    <3>1. Elems(<<>>) = {} /\ Increasing(<<>>)
      BY DEF Elems, Increasing
    <3>2. Apart(1 .. nread, MapIds(replies), {}, Queued(events), AllTaken(taken),
                Queued(delivered), dropped \cup Elems(current_reply), lost)
      BY <1>2 DEF Apart
    <3> QED
      BY <1>2, <2>2, <3>1, <3>2
  <2>3. ASSUME NEW i \in 1 .. Len(replies), UNCHANGED current_reply, replies' = map_removed(i),
               dropped' = dropped \cup Elems(replies[i].data)
        PROVE  <1>3!:
    <3> DEFINE r == map_removed(i)
               E == Elems(replies[i].data)
    <3>1. /\ MapIds(r) = MapIds(replies) \ E /\ MapDisjoint(r) /\ E \subseteq MapIds(replies)
          /\ \A j \in DOMAIN r : \E k \in DOMAIN replies : r[j] = replies[k]
      BY <1>2, MapTake DEF map_removed
    <3> HIDE DEF r, E
    <3>2. Apart(1 .. nread, MapIds(replies) \ E, Elems(current_reply), Queued(events),
                AllTaken(taken), Queued(delivered), dropped \cup E, lost)
      BY <1>2, <3>1 DEF Apart
    <3>3. \A j \in DOMAIN r : Increasing(r[j].data)
      BY <1>2, <3>1
    <3>4. replies' = r /\ dropped' = dropped \cup E
      BY <2>3 DEF r, E
    <3> QED
      BY <1>2, <2>3, <3>1, <3>2, <3>3, <3>4
  <2> QED
    BY <1>1, <2>1, <2>2, <2>3 DEF DiscardEffect
<1>4. StorePlaces'
  BY <1>1, <1>3 DEF StorePlaces
<1>5. StoreOrdered'
  BY <1>1, <1>3 DEF StoreInv, StoreOrdered
<1> QED
  BY <1>4, <1>5 DEF StoreInv

\* get_event hands the first event out.
LEMMA StoreEvent ==
    ASSUME StoreInv, TypeOK', get_event
    PROVE  StoreInv'
<1>1. /\ events # <<>> /\ delivered' = Append(delivered, Head(events))
      /\ events' = Tail(events)
      /\ UNCHANGED <<out_request, current_reply, replies, nread, taken, dropped, lost>>
  BY DEF get_event, outvars, readvars
<1>2. events \in Seq(Event) /\ delivered \in Seq(Event) /\ InQueueOrder(events)
  BY DEF StoreInv, StoreOrdered, TypeOK, Event
<1>3. /\ Head(events) \in Event /\ Head(events).id \in Queued(events)
      /\ Queued(Tail(events)) = Queued(events) \ {Head(events).id}
      /\ InQueueOrder(Tail(events))
  BY <1>1, <1>2, QueueTake
<1>4. Queued(Append(delivered, Head(events))) = Queued(delivered) \cup {Head(events).id}
  BY <1>2, <1>3, QueuePut
<1>5. Apart(1 .. nread, MapIds(replies), Elems(current_reply), Queued(events) \ {Head(events).id},
            AllTaken(taken), Queued(delivered) \cup {Head(events).id}, dropped, lost)
  BY <1>3 DEF StoreInv, StorePlaces, Apart
<1>6. StorePlaces'
  BY <1>1, <1>3, <1>4, <1>5 DEF StorePlaces
<1>7. StoreOrdered'
  BY <1>1, <1>3 DEF StoreInv, StoreOrdered
<1> QED
  BY <1>6, <1>7 DEF StoreInv

LEMMA StoreStep == StoreInv /\ [Next]_vars => StoreInv'
<1> SUFFICES ASSUME StoreInv, [Next]_vars PROVE StoreInv'
  OBVIOUS
<1>1. TypeOK /\ TypeOK'
  BY TypeStep DEF StoreInv
<1>2. CASE \E outcome \in ReadOutcomes, stored \in MapOk : read_packet(outcome, stored)
  BY <1>1, <1>2, ReadDoes, StoreRead
<1> QED
  BY <1>1, <1>2, StepKinds, StoreQuiet, StorePoll, StoreDiscard, StoreEvent

\* The places by name.
PlaceOf(m, c, e, t, d, x, l) ==
    [p \in {"map", "current", "events", "taken", "delivered", "dropped", "lost"} |->
       CASE p = "map" -> m
         [] p = "current" -> c
         [] p = "events" -> e
         [] p = "taken" -> t
         [] p = "delivered" -> d
         [] p = "dropped" -> x
         [] p = "lost" -> l]

\* The names of the places response i is in.
PlacesOf(i, m, c, e, t, d, x, l) ==
    {p \in DOMAIN PlaceOf(m, c, e, t, d, x, l) : i \in PlaceOf(m, c, e, t, d, x, l)[p]}

\* Each element of seven sets that are apart is in exactly one.
LEMMA ApartOne ==
    ASSUME NEW S, NEW m, NEW c, NEW e, NEW t, NEW d, NEW x, NEW l,
           Apart(S, m, c, e, t, d, x, l), NEW i \in S
    PROVE  Cardinality(PlacesOf(i, m, c, e, t, d, x, l)) = 1
<1> DEFINE P == {"map", "current", "events", "taken", "delivered", "dropped", "lost"}
           places == PlaceOf(m, c, e, t, d, x, l)
           T == {p \in DOMAIN places : i \in places[p]}
<1>1. /\ DOMAIN places = P
      /\ places["map"] = m /\ places["current"] = c /\ places["events"] = e
      /\ places["taken"] = t /\ places["delivered"] = d /\ places["dropped"] = x
      /\ places["lost"] = l
  BY DEF PlaceOf
<1> HIDE DEF places
<1>2. PICK q \in P : \A p \in P : i \in places[p] <=> p = q
  BY <1>1 DEF Apart
<1>3. T = {q}
  BY <1>1, <1>2
<1>4. Cardinality({q}) = 1
  BY FS_Singleton
<1> QED
  BY <1>3, <1>4 DEF places, PlacesOf

\* Every response that was read is in exactly one place, in every behaviour,
\* handoffs, discards, failures and wrapped numbers included: read_packet,
\* poll_for_reply, discard_reply and get_event neither lose a response nor
\* hand one out twice.
THEOREM NothingIsLost == Spec => []NothingLost
<1>1. Init => StoreInv
  BY StoreInit
<1>2. StoreInv /\ [Next]_vars => StoreInv'
  BY StoreStep
<1>3. StoreInv => NothingLost
  <2> SUFFICES ASSUME StoreInv PROVE NothingLost
    OBVIOUS
  <2>1. /\ taken \in [1 .. MaxRequest -> Seq(Ids)] /\ out_request \in 0 .. MaxRequest
        /\ MaxRequest \in Nat
    BY ReplyAssumption DEF StoreInv, TypeOK
  <2>2. UNION {Taken(n) : n \in 1 .. out_request} = AllTaken(taken)
    <3>1. \A n \in 1 .. out_request : n \in 1 .. MaxRequest /\ Taken(n) = Elems(taken[n])
      BY <2>1 DEF Taken, Elems
    <3>2. \A n \in 1 .. MaxRequest : n \notin 1 .. out_request => Elems(taken[n]) = {}
      <4> SUFFICES ASSUME NEW n \in 1 .. MaxRequest, n \notin 1 .. out_request
                   PROVE  Elems(taken[n]) = {}
        OBVIOUS
      <4>1. n \in out_request + 1 .. MaxRequest
        BY <2>1
      <4>2. taken[n] = <<>>
        BY <4>1 DEF StoreInv, StoreOrdered
      <4> QED
        BY <4>2 DEF Elems
    <3> QED
      BY <2>1, <3>1, <3>2 DEF AllTaken
  <2> DEFINE m == UNION {{replies[i].data[j] : j \in DOMAIN replies[i].data} :
                            i \in DOMAIN replies}
             c == {current_reply[j] : j \in DOMAIN current_reply}
             t == UNION {Taken(n) : n \in 1 .. out_request}
             places(i) == PlacesOf(i, m, c, Queued(events), t, Queued(delivered), dropped, lost)
  <2>3. Apart(1 .. nread, m, c, Queued(events), t, Queued(delivered), dropped, lost)
    BY <2>2 DEF StoreInv, StorePlaces, MapIds, Elems
  <2>4. ASSUME NEW i \in 1 .. nread PROVE Cardinality(places(i)) = 1
    <3> HIDE DEF m, c, t
    <3> QED
      BY <2>3, ApartOne
  <2> QED
    BY <2>4, Zenon DEF NothingLost, PlacesOf, PlaceOf
<1> QED
  BY <1>1, <1>2, <1>3, PTL DEF Spec
-----------------------------------------------------------------------------
(* The owners of responses                                                 *)

\* A list is stored with the request its responses answer: the list being
\* read with request_read, each list of the map with its key.
StoredRight ==
    /\ \A y \in Elems(current_reply) : log[y].of = request_read
    /\ \A i \in DOMAIN replies :
         /\ replies[i].key < request_read
         /\ \A y \in Elems(replies[i].data) : log[y].of = replies[i].key
    /\ KeysDistinct(replies)

\* What has been returned for a request answers it, came in order, and
\* before all that is still stored for it.
TakenRight ==
    \A n \in 1 .. MaxRequest :
        /\ Increasing(taken[n])
        /\ \A y \in Elems(taken[n]) :
             /\ log[y].of = n
             /\ \A z \in MapIds(replies) \cup Elems(current_reply) :
                  log[z].of = n => y < z

\* Events carry the number of the request they followed.
Numbered(evs) ==
    \A i \in 1 .. Len(evs) :
        log[evs[i].id].type # "keymap" => evs[i].full_sequence = log[evs[i].id].of

\* The inductive invariant behind RoutedToOwner and RepliesInOrder.
RouteInv ==
    /\ SeqInv /\ StoreInv
    /\ StoredRight /\ TakenRight /\ Numbered(events) /\ Numbered(delivered)

\* Cookies of a connection with fewer requests than a cookie has values.
LEMMA CookieSame ==
    ASSUME MaxRequest < Seq32, NEW n \in 0 .. MaxRequest
    PROVE  Cookie(n) = n
  BY ReplyAssumption, WidthAssumption DEF Cookie

LEMMA SameCookie ==
    ASSUME MaxRequest < Seq32, NEW n \in 0 .. MaxRequest, NEW m \in 0 .. MaxRequest,
           Diff32(Cookie(n), m) = 0
    PROVE  n = m
<1>1. n % Seq32 = n /\ m % Seq32 = m /\ n < Seq32 /\ m < Seq32
  BY ReplyAssumption, WidthAssumption
<1>2. Cookie(n) = n
  BY <1>1 DEF Cookie
<1>3. Seq32 \in Nat /\ Seq32 \div 2 \in Nat
  BY WidthAssumption
<1>4. /\ Int32(n) = IF n < Seq32 \div 2 THEN n ELSE n - Seq32
      /\ Int32(m) = IF m < Seq32 \div 2 THEN m ELSE m - Seq32
  BY <1>1 DEF Int32
<1>5. Int32(n) - Int32(m) = 0
  BY <1>2 DEF Diff32
<1> QED
  BY <1>1, <1>3, <1>4, <1>5

\* Numbers stay within the bound on requests.
LEMMA ReadBounded ==
    ASSUME SeqInv, TypeOK
    PROVE  request_read \in 0 .. MaxRequest /\ out_request \in 0 .. MaxRequest
  BY ReplyAssumption DEF SeqInv, SeqType, WindowInv, LogOrdered, TypeOK

\* read_packet reads the number of the request that is answered.
LEMMA ReadNumber ==
    ASSUME SeqInv', NEW outcome \in ReadOutcomes, NEW stored \in MapOk,
           read_packet(outcome, stored)
    PROVE  log[nread + 1].type # "keymap" => request_read' = log[nread + 1].of
<1>1. actual_read' = IF log[nread + 1].type = "keymap" THEN actual_read
                     ELSE log[nread + 1].of
  BY DEF read_packet
<1>2. request_read' = actual_read'
  BY DEF SeqInv, WindowInv, SequenceExact
<1> QED
  BY <1>1, <1>2

\* Every id in a place is that of a response the server has sent.
LEMMA PlacesSent ==
    ASSUME StoreInv
    PROVE  /\ 1 .. nread \subseteq 1 .. Len(log)
           /\ \A i \in 1 .. Len(events) : events[i].id \in 1 .. nread
           /\ \A i \in 1 .. Len(delivered) : delivered[i].id \in 1 .. nread
           /\ \A n \in 1 .. MaxRequest : Elems(taken[n]) \subseteq 1 .. nread
           /\ \A i \in 1 .. Len(replies) : Elems(replies[i].data) \subseteq MapIds(replies)
           /\ DOMAIN replies = 1 .. Len(replies)
<1>1. /\ nread \in 0 .. Len(log) /\ log \in Seq([type : PacketType, of : Nat])
      /\ events \in Seq(Event) /\ delivered \in Seq(Event)
      /\ taken \in [1 .. MaxRequest -> Seq(Ids)] /\ replies \in Seq(MapEntry)
  BY DEF StoreInv, TypeOK, Event
<1>2. /\ DOMAIN events = 1 .. Len(events) /\ DOMAIN delivered = 1 .. Len(delivered)
      /\ DOMAIN replies = 1 .. Len(replies) /\ Len(log) \in Nat
  BY <1>1, LenProperties
<1>3. Queued(events) \subseteq 1 .. nread /\ Queued(delivered) \subseteq 1 .. nread
  BY DEF StoreInv, StorePlaces, Apart
<1>4. AllTaken(taken) \subseteq 1 .. nread
  BY DEF StoreInv, StorePlaces, Apart
<1>5. 1 .. nread \subseteq 1 .. Len(log)
  BY <1>1, <1>2
<1>6. \A n \in 1 .. MaxRequest : Elems(taken[n]) \subseteq AllTaken(taken)
  BY <1>1 DEF AllTaken
<1>7. \A i \in 1 .. Len(replies) : Elems(replies[i].data) \subseteq MapIds(replies)
  BY <1>2 DEF MapIds
<1>8. /\ \A i \in 1 .. Len(events) : events[i].id \in Queued(events)
      /\ \A i \in 1 .. Len(delivered) : delivered[i].id \in Queued(delivered)
  BY <1>2 DEF Queued
<1> QED
  BY <1>2, <1>3, <1>4, <1>5, <1>6, <1>7, <1>8

\* The responses of a step that changes no place are as before.
LEMMA RouteQuiet ==
    ASSUME RouteInv, SeqInv', StoreInv', Quiet
    PROVE  RouteInv'
<1>1. /\ UNCHANGED <<current_reply, replies, events, taken, delivered, request_read>>
      /\ \A i \in 1 .. Len(log) : log'[i] = log[i]
  BY DEF Quiet, storevars
<1>2. /\ 1 .. nread \subseteq 1 .. Len(log)
      /\ \A i \in 1 .. Len(events) : events[i].id \in 1 .. nread
      /\ \A i \in 1 .. Len(delivered) : delivered[i].id \in 1 .. nread
      /\ \A n \in 1 .. MaxRequest : Elems(taken[n]) \subseteq 1 .. nread
      /\ \A i \in 1 .. Len(replies) : Elems(replies[i].data) \subseteq MapIds(replies)
      /\ DOMAIN replies = 1 .. Len(replies)
      /\ MapIds(replies) \subseteq 1 .. nread /\ Elems(current_reply) \subseteq 1 .. nread
  BY PlacesSent, PlacesRead DEF RouteInv
<1>3. \A i \in 1 .. nread : log'[i] = log[i]
  BY <1>1, <1>2
<1>4. StoredRight'
  <2>1. \A y \in Elems(current_reply) : log'[y].of = request_read
    BY <1>2, <1>3 DEF RouteInv, StoredRight
  <2>2. \A i \in DOMAIN replies : \A y \in Elems(replies[i].data) : log'[y].of = replies[i].key
    BY <1>2, <1>3 DEF RouteInv, StoredRight
  <2> QED
    BY <1>1, <2>1, <2>2 DEF RouteInv, StoredRight
<1>5. TakenRight'
  <2> SUFFICES ASSUME NEW n \in 1 .. MaxRequest, NEW y \in Elems(taken[n])
               PROVE  /\ log'[y].of = n
                      /\ \A z \in MapIds(replies) \cup Elems(current_reply) :
                            log'[z].of = n => y < z
    BY <1>1 DEF RouteInv, TakenRight
  <2>1. y \in 1 .. nread
    BY <1>2
  <2> QED
    BY <1>2, <1>3, <2>1 DEF RouteInv, TakenRight
<1>6. Numbered(events)' /\ Numbered(delivered)'
  BY <1>1, <1>2, <1>3 DEF RouteInv, Numbered
<1> QED
  BY <1>4, <1>5, <1>6 DEF RouteInv

LEMMA RouteInit == Init => RouteInv
<1> SUFFICES ASSUME Init PROVE RouteInv
  OBVIOUS
<1>1. SeqInv /\ StoreInv
  BY SeqInit, StoreInit
<1>2. Elems(<<>>) = {} /\ Increasing(<<>>)
  BY DEF Elems, Increasing
<1>3. StoredRight
  BY <1>2 DEF Init, StoredRight, KeysDistinct
<1>4. TakenRight
  BY <1>2 DEF Init, TakenRight
<1>5. Numbered(events) /\ Numbered(delivered)
  BY DEF Init, Numbered
<1> QED
  BY <1>1, <1>3, <1>4, <1>5 DEF RouteInv

\* read_packet: the list put away has the number read before, and the new
\* response has the number just read.
LEMMA RouteRead ==
    ASSUME RouteInv, SeqInv', StoreInv', MaxRequest < Seq32, ReadEffect,
           log[nread + 1].type # "keymap" => request_read' = log[nread + 1].of
    PROVE  RouteInv'
<1> DEFINE id == nread + 1
<1>1. PICK c \in {current_reply, <<>>}, l \in {lost, lost \cup Elems(current_reply)} :
         PutAway(c, l) /\ PutNew(c, l, id)
  BY DEF ReadEffect
<1>2. UNCHANGED <<taken, delivered, log>> /\ id \in Ids
  BY DEF ReadEffect
<1>3. /\ request_read \in 0 .. MaxRequest /\ request_read' \in 0 .. MaxRequest
      /\ Cookie(request_read) = request_read /\ Cookie(request_read') = request_read'
  <2>1. request_read \in 0 .. MaxRequest
    BY ReadBounded DEF RouteInv, StoreInv
  <2>2. request_read' \in 0 .. MaxRequest
    BY ReplyAssumption DEF SeqInv, SeqType, WindowInv, LogOrdered, StoreInv, TypeOK
  <2> QED
    BY <2>1, <2>2, CookieSame
<1>4. /\ nread \in Nat /\ id \in Nat /\ \A y \in 1 .. nread : y < id
      /\ current_reply \in Seq(Nat)
      /\ MapIds(replies) \subseteq 1 .. nread /\ Elems(current_reply) \subseteq 1 .. nread
      /\ \A n \in 1 .. MaxRequest : Elems(taken[n]) \subseteq 1 .. nread
      /\ replies \in Seq(MapEntry) /\ current_reply \in Seq(Ids)
  <2>1. replies \in Seq(MapEntry) /\ current_reply \in Seq(Ids) /\ StoreInv
    BY DEF RouteInv, StoreInv, TypeOK
  <2>2. nread \in Nat /\ nread + 1 \in Nat
    BY <2>1, PlacesRead
  <2> QED
    BY <2>1, <2>2, PlacesRead, PlacesSent
<1>5. /\ \A y \in Elems(current_reply) : log[y].of = request_read
      /\ \A i \in DOMAIN replies :
           /\ replies[i].key < request_read /\ replies[i].key \in Nat
           /\ \A y \in Elems(replies[i].data) : log[y].of = replies[i].key
      /\ KeysDistinct(replies)
  <2>1. \A i \in DOMAIN replies : replies[i].key \in Nat
    <3>1. \A i \in DOMAIN replies : replies[i] \in MapEntry
      BY <1>4, ElementOfSeq, LenProperties
    <3> QED
      BY <3>1 DEF MapEntry
  <2> QED
    BY <2>1 DEF RouteInv, StoredRight
<1>6. /\ Elems(<<>>) = {} /\ <<>> \in Seq(Nat)
  BY DEF Elems
<1>7. /\ c \in Seq(Nat) /\ \A y \in Elems(c) : log[y].of = request_read'
      /\ \A i \in DOMAIN replies' :
           /\ replies'[i].key < request_read'
           /\ \A y \in Elems(replies'[i].data) : log[y].of = replies'[i].key
      /\ KeysDistinct(replies')
      /\ MapIds(replies') \cup Elems(c) \subseteq MapIds(replies) \cup Elems(current_reply)
  <2>1. CASE UNCHANGED <<request_read, replies>> /\ c = current_reply
    BY <1>4, <1>5, <2>1
  <2>2. CASE request_read' > request_read /\ c = <<>> /\ UNCHANGED replies
    <3>1. \A i \in DOMAIN replies : replies[i].key < request_read'
      BY <1>3, <1>5, <2>2
    <3> QED
      BY <1>5, <1>6, <2>2, <3>1
  <2>3. CASE /\ request_read' > request_read /\ c = <<>> /\ current_reply # <<>>
             /\ replies' = Append(replies, [key |-> Cookie(request_read),
                                            data |-> current_reply])
    <3> DEFINE e == [key |-> Cookie(request_read), data |-> current_reply]
    <3>1. e \in MapEntry /\ e.data = current_reply /\ e.key = request_read
      BY <1>3, <1>4, <2>3 DEF MapEntry
    <3> HIDE DEF e
    <3>2. \A i \in DOMAIN replies : replies[i].key # e.key
      BY <1>3, <1>5, <3>1
    <3>3. /\ MapIds(Append(replies, e)) = MapIds(replies) \cup Elems(e.data)
          /\ KeysDistinct(Append(replies, e))
          /\ \A j \in DOMAIN Append(replies, e) :
                 \/ Append(replies, e)[j] = e
                 \/ \E k \in DOMAIN replies : Append(replies, e)[j] = replies[k]
      BY <1>4, <1>5, <3>1, <3>2, MapPut
    <3>4. replies' = Append(replies, e)
      BY <2>3 DEF e
    <3>5. ASSUME NEW i \in DOMAIN replies'
          PROVE  /\ replies'[i].key < request_read'
                 /\ \A y \in Elems(replies'[i].data) : log[y].of = replies'[i].key
      <4>1. CASE replies'[i] = e
        BY <1>3, <1>5, <2>3, <3>1, <4>1
      <4>2. CASE \E k \in DOMAIN replies : replies'[i] = replies[k]
        <5>1. PICK k \in DOMAIN replies : replies'[i] = replies[k]
          BY <4>2
        <5>2. replies[k].key < request_read'
          BY <1>3, <1>5, <2>3
        <5> QED
          BY <1>5, <5>1, <5>2
      <4> QED
        BY <3>3, <3>4, <4>1, <4>2
    <3> QED
      BY <1>6, <2>3, <3>1, <3>3, <3>4, <3>5
  <2> QED
    BY <1>1, <2>1, <2>2, <2>3 DEF PutAway
<1>8. /\ \A y \in Elems(current_reply') : log[y].of = request_read'
      /\ Elems(current_reply') \subseteq Elems(c) \cup {id}
  <2>1. CASE current_reply' = c
    BY <1>7, <2>1
  <2>2. CASE current_reply' = Append(c, id) /\ log[id].type \in {"reply", "error"}
    <3>1. Elems(Append(c, id)) = Elems(c) \cup {id}
      BY <1>4, <1>7, ElemsAppend
    <3>2. log[id].of = request_read'
      BY <2>2
    <3> QED
      BY <1>7, <2>2, <3>1, <3>2
  <2> QED
    BY <1>1, <2>1, <2>2 DEF PutNew
<1>9. StoredRight'
  BY <1>2, <1>7, <1>8 DEF StoredRight
<1>10. TakenRight'
  <2> SUFFICES ASSUME NEW n \in 1 .. MaxRequest, NEW y \in Elems(taken[n]),
                      NEW z \in MapIds(replies') \cup Elems(current_reply'), log[z].of = n
               PROVE  y < z
    BY <1>2 DEF RouteInv, TakenRight
  <2>1. z \in MapIds(replies) \cup Elems(current_reply) \/ z = id
    BY <1>7, <1>8
  <2>2. CASE z = id
    BY <1>4, <2>2
  <2> QED
    BY <2>1, <2>2 DEF RouteInv, TakenRight
<1>11. Numbered(delivered)'
  BY <1>2 DEF RouteInv, Numbered
<1>12. Numbered(events)'
  <2>1. CASE events' = events
    BY <1>2, <2>1 DEF RouteInv, Numbered
  <2>2. CASE events' = Append(events, [id |-> id, full_sequence |-> Cookie(request_read')])
    <3> DEFINE e == [id |-> id, full_sequence |-> Cookie(request_read')]
    <3>1. e \in Event /\ e.id = id /\ e.full_sequence = request_read'
      BY <1>2, <1>3 DEF Event
    <3>2. events \in Seq(Event)
      BY DEF RouteInv, StoreInv, TypeOK, Event
    <3>3. log[e.id].type # "keymap" => e.full_sequence = log[e.id].of
      BY <3>1
    <3> HIDE DEF e
    <3>4. /\ Len(Append(events, e)) = Len(events) + 1 /\ Len(events) \in Nat
          /\ \A i \in 1 .. Len(events) : Append(events, e)[i] = events[i]
          /\ Append(events, e)[Len(events) + 1] = e
      BY <3>1, <3>2, AppendProperties, LenProperties
    <3>5. events' = Append(events, e)
      BY <2>2 DEF e
    <3> SUFFICES ASSUME NEW i \in 1 .. Len(events'), log[events'[i].id].type # "keymap"
                 PROVE  events'[i].full_sequence = log[events'[i].id].of
      BY <1>2 DEF Numbered
    <3>6. CASE i = Len(events) + 1
      BY <3>3, <3>4, <3>5, <3>6
    <3>7. CASE i \in 1 .. Len(events)
      BY <3>4, <3>5, <3>7 DEF RouteInv, Numbered
    <3> QED
      BY <3>4, <3>5, <3>6, <3>7
  <2> QED
    BY <1>1, <2>1, <2>2 DEF PutNew
<1> QED
  BY <1>9, <1>10, <1>11, <1>12 DEF RouteInv

\* A response returned for request n is the first of those stored for it.
LEMMA RouteTaken ==
    ASSUME RouteInv, NEW n \in 1 .. MaxRequest,
           NEW x \in MapIds(replies) \cup Elems(current_reply), log[x].of = n, x \in Ids,
           log' = log, taken' = [taken EXCEPT ![n] = Append(@, x)],
           MapIds(replies') \cup Elems(current_reply')
              \subseteq (MapIds(replies) \cup Elems(current_reply)) \ {x},
           \A z \in MapIds(replies') \cup Elems(current_reply') : log[z].of = n => x < z
    PROVE  TakenRight'
<1>1. taken \in [1 .. MaxRequest -> Seq(Ids)] /\ Ids \subseteq Nat
  BY PlacesRead DEF RouteInv, StoreInv, TypeOK
<1>2. taken'[n] = Append(taken[n], x) /\ \A m \in 1 .. MaxRequest : m # n => taken'[m] = taken[m]
  BY <1>1
<1>3. \A m \in 1 .. MaxRequest : Elems(taken'[m]) = Elems(taken[m]) \cup (IF m = n THEN {x} ELSE {})
  BY <1>1, TakenAdd
<1>4. taken[n] \in Seq(Nat)
  <2>1. taken[n] \in Seq(Ids)
    BY <1>1
  <2>2. Len(taken[n]) \in Nat /\ taken[n] \in [1 .. Len(taken[n]) -> Ids]
    BY <2>1, LenProperties
  <2>3. taken[n] \in [1 .. Len(taken[n]) -> Nat]
    BY <1>1, <2>2
  <2> QED
    BY <2>2, <2>3
<1>5. Increasing(taken'[n])
  <2>1. \A y \in Elems(taken[n]) : y < x
    BY DEF RouteInv, TakenRight
  <2>2. Increasing(taken[n])
    BY DEF RouteInv, TakenRight
  <2> QED
    BY <1>1, <1>2, <1>4, <2>1, <2>2, IncreasingAppend
<1> SUFFICES ASSUME NEW m \in 1 .. MaxRequest
             PROVE  /\ Increasing(taken'[m])
                    /\ \A y \in Elems(taken'[m]) :
                         /\ log[y].of = m
                         /\ \A z \in MapIds(replies') \cup Elems(current_reply') :
                               log[z].of = m => y < z
  BY DEF TakenRight
<1>6. Increasing(taken'[m])
  BY <1>2, <1>5 DEF RouteInv, TakenRight
<1>7. ASSUME NEW y \in Elems(taken'[m])
      PROVE  /\ log[y].of = m
             /\ \A z \in MapIds(replies') \cup Elems(current_reply') : log[z].of = m => y < z
  <2>1. CASE y \in Elems(taken[m])
    BY <2>1 DEF RouteInv, TakenRight
  <2>2. CASE m = n /\ y = x
    BY <2>2
  <2> QED
    BY <1>3, <1>7, <2>1, <2>2
<1> QED
  BY <1>6, <1>7

\* poll_for_reply returns a response to the request it is asked about.
LEMMA RoutePoll ==
    ASSUME RouteInv, SeqInv', StoreInv', MaxRequest < Seq32,
           NEW n \in 1 .. out_request, NEW stored \in MapOk, xcb_poll_for_reply(n, stored)
    PROVE  RouteInv'
<1>1. /\ n \in 1 .. MaxRequest
      /\ UNCHANGED <<out_request, request_read, log, nread, events, delivered, dropped>>
      /\ PollEffect(n)
  BY PollDoes DEF RouteInv, StoreInv
<1>2. Numbered(events)' /\ Numbered(delivered)'
  BY <1>1 DEF RouteInv, Numbered
<1>3. /\ current_reply \in Seq(Nat) /\ current_reply \in Seq(Ids) /\ Increasing(current_reply)
      /\ replies \in Seq(MapEntry) /\ DOMAIN replies = 1 .. Len(replies)
      /\ \A i \in DOMAIN replies : Increasing(replies[i].data)
      /\ MapDisjoint(replies)
      /\ MapIds(replies) \cap Elems(current_reply) = {}
  <2>1. StoreInv
    BY DEF RouteInv
  <2>2. replies \in Seq(MapEntry) /\ current_reply \in Seq(Ids)
    BY <2>1 DEF StoreInv, TypeOK
  <2>3. MapIds(replies) \cap Elems(current_reply) = {}
    BY <2>1 DEF StoreInv, StorePlaces, Apart
  <2> QED
    BY <2>1, <2>2, <2>3, PlacesRead, PlacesSent DEF StoreInv, StoreOrdered
<1>4. /\ \A y \in Elems(current_reply) : log[y].of = request_read
      /\ \A i \in DOMAIN replies :
           /\ replies[i].key < request_read
           /\ \A y \in Elems(replies[i].data) : log[y].of = replies[i].key
      /\ KeysDistinct(replies)
  BY DEF RouteInv, StoredRight
<1>5. Cookie(n) = n
  BY <1>1, CookieSame
<1>6. StoredRight' /\ TakenRight'
  <2>1. CASE UNCHANGED <<current_reply, replies, taken>>
    BY <1>1, <2>1 DEF RouteInv, StoredRight, TakenRight
  <2>2. CASE /\ UNCHANGED replies
             /\ Diff32(Cookie(n), request_read) = 0 /\ current_reply # <<>>
             /\ taken' = [taken EXCEPT ![n] = Append(@, Head(current_reply))]
             /\ current_reply' = Tail(current_reply)
    <3> DEFINE x == Head(current_reply)
    <3>1. /\ x \in Elems(current_reply) /\ Elems(current_reply') = Elems(current_reply) \ {x}
          /\ \A y \in Elems(current_reply') : x < y
      BY <1>3, <2>2, TakeFirst
    <3>2. x \in Ids
      BY <1>3, <2>2, HeadTailProperties
    <3>3. n = request_read
      BY <1>1, <2>2, SameCookie, ReadBounded DEF RouteInv, StoreInv
    <3> HIDE DEF x
    <3>4. StoredRight'
      BY <1>1, <1>4, <2>2, <3>1 DEF StoredRight
    <3>5. log[x].of = n
      BY <1>4, <3>1, <3>3
    <3>6. ASSUME NEW z \in MapIds(replies), log[z].of = n PROVE FALSE
      <4>1. PICK i \in DOMAIN replies : z \in Elems(replies[i].data)
        BY <3>6 DEF MapIds
      <4>2. replies[i].key < request_read /\ replies[i].key = n /\ request_read \in Nat
        BY <1>4, <3>6, <4>1 DEF RouteInv, SeqInv, SeqType
      <4> QED
        BY <3>3, <4>2
    <3>7. taken' = [taken EXCEPT ![n] = Append(@, x)]
      BY <2>2 DEF x
    <3>8. x \notin MapIds(replies)
      BY <1>3, <3>1
    <3>9. /\ MapIds(replies') \cup Elems(current_reply')
               \subseteq (MapIds(replies) \cup Elems(current_reply)) \ {x}
          /\ \A z \in MapIds(replies') \cup Elems(current_reply') : log[z].of = n => x < z
      BY <2>2, <3>1, <3>6, <3>8
    <3>10. TakenRight'
      BY <1>1, <3>1, <3>2, <3>5, <3>7, <3>9, RouteTaken
    <3> QED
      BY <3>4, <3>10
  <2>3. ASSUME NEW i \in 1 .. Len(replies),
               UNCHANGED current_reply, replies[i].key = Cookie(n),
               replies[i].data \in Seq(Ids) /\ replies[i].data # <<>>,
               taken' = [taken EXCEPT ![n] = Append(@, Head(replies[i].data))],
               \/ replies' = map_removed(i)
               \/ /\ Tail(replies[i].data) # <<>>
                  /\ replies' = Append(map_removed(i),
                                  [key |-> Cookie(n), data |-> Tail(replies[i].data)])
        PROVE  StoredRight' /\ TakenRight'
    <3> DEFINE list == replies[i].data
               x == Head(list)
               r == map_removed(i)
               rest == [key |-> Cookie(n), data |-> Tail(list)]
    <3>1. list \in Seq(Nat) /\ list \in Seq(Ids) /\ Increasing(list) /\ i \in DOMAIN replies
      BY <1>3, PlacesRead DEF RouteInv
    <3>2. /\ x \in Elems(list) /\ Elems(Tail(list)) = Elems(list) \ {x}
          /\ \A y \in Elems(Tail(list)) : x < y
      BY <2>3, <3>1, TakeFirst
    <3>3. x \in Ids /\ Tail(list) \in Seq(Ids)
      BY <2>3, HeadTailProperties
    <3>4. /\ r \in Seq(MapEntry) /\ MapIds(r) = MapIds(replies) \ Elems(list)
          /\ Elems(list) \subseteq MapIds(replies)
          /\ KeysDistinct(r) /\ \A j \in DOMAIN r : r[j].key # replies[i].key
          /\ \A j \in DOMAIN r : \E k \in DOMAIN replies : r[j] = replies[k]
      BY <1>3, <1>4, MapTake DEF map_removed
    <3>5. rest.data = Tail(list) /\ rest.key = n /\ (Tail(list) # <<>> => rest \in MapEntry)
      BY <1>5, <3>3 DEF MapEntry
    <3>6. (\A y \in Elems(list) : log[y].of = n) /\ n < request_read
      BY <1>4, <1>5, <2>3, <3>1
    <3> HIDE DEF list, x, r, rest
    <3>7. taken' = [taken EXCEPT ![n] = Append(@, x)]
      BY <2>3 DEF x, list
    <3>8. replies' = r \/ (Tail(list) # <<>> /\ replies' = Append(r, rest))
      BY <2>3 DEF r, rest, list
    <3>9. ASSUME NEW z \in MapIds(r) \cup Elems(current_reply), log[z].of = n PROVE FALSE
      <4>1. CASE z \in Elems(current_reply)
        <5>1. log[z].of = request_read
          BY <1>4, <4>1
        <5>2. request_read \in Nat
          BY DEF RouteInv, SeqInv, SeqType
        <5> QED
          BY <3>6, <3>9, <5>1, <5>2
      <4>2. CASE z \in MapIds(r)
        <5>1. PICK j \in DOMAIN r : z \in Elems(r[j].data)
          BY <4>2 DEF MapIds
        <5>2. PICK k \in DOMAIN replies : r[j] = replies[k]
          BY <3>4
        <5>3. r[j].key = n
          BY <1>4, <3>9, <5>1, <5>2
        <5> QED
          BY <1>5, <2>3, <3>4, <5>3
      <4> QED
        BY <3>9, <4>1, <4>2
    <3>10. /\ MapIds(replies') \subseteq MapIds(r) \cup Elems(Tail(list))
           /\ KeysDistinct(replies')
           /\ \A j \in DOMAIN replies' :
                replies'[j] = rest \/ \E k \in DOMAIN replies : replies'[j] = replies[k]
      <4>1. CASE replies' = r
        BY <3>4, <4>1
      <4>2. CASE Tail(list) # <<>> /\ replies' = Append(r, rest)
        <5>1. \A j \in DOMAIN r : r[j].key # rest.key
          BY <1>5, <2>3, <3>4, <3>5
        <5>2. /\ MapIds(Append(r, rest)) = MapIds(r) \cup Elems(rest.data)
              /\ KeysDistinct(Append(r, rest))
              /\ \A j \in DOMAIN Append(r, rest) :
                   \/ Append(r, rest)[j] = rest
                   \/ \E k \in DOMAIN r : Append(r, rest)[j] = r[k]
          BY <3>4, <3>5, <4>2, <5>1, MapPut
        <5>3. \A j \in DOMAIN replies' :
                replies'[j] = rest \/ \E k \in DOMAIN replies : replies'[j] = replies[k]
          BY <3>4, <4>2, <5>2
        <5>4. MapIds(replies') \subseteq MapIds(r) \cup Elems(Tail(list)) /\ KeysDistinct(replies')
          BY <3>5, <4>2, <5>2
        <5> QED
          BY <5>3, <5>4
      <4> QED
        BY <3>8, <4>1, <4>2
    <3>11. StoredRight'
      <4>1. ASSUME NEW j \in DOMAIN replies'
            PROVE  /\ replies'[j].key < request_read
                   /\ \A y \in Elems(replies'[j].data) : log[y].of = replies'[j].key
        <5>1. CASE replies'[j] = rest
          BY <3>2, <3>5, <3>6, <5>1
        <5>2. CASE \E k \in DOMAIN replies : replies'[j] = replies[k]
          BY <1>4, <5>2
        <5> QED
          BY <3>10, <5>1, <5>2
      <4>2. request_read' = request_read /\ log' = log /\ current_reply' = current_reply
        BY <1>1, <2>3
      <4> QED
        BY <1>4, <3>10, <4>1, <4>2 DEF StoredRight
    <3>12. x \notin Elems(current_reply)
      BY <1>3, <3>2, <3>4
    <3>13. /\ MapIds(replies') \cup Elems(current_reply')
                \subseteq (MapIds(replies) \cup Elems(current_reply)) \ {x}
           /\ \A z \in MapIds(replies') \cup Elems(current_reply') : log[z].of = n => x < z
      <4>1. current_reply' = current_reply
        BY <2>3
      <4> QED
        BY <3>2, <3>4, <3>9, <3>10, <3>12, <4>1
    <3>14. log[x].of = n /\ x \in MapIds(replies)
      BY <3>2, <3>4, <3>6
    <3>15. TakenRight'
      BY <1>1, <3>3, <3>7, <3>13, <3>14, RouteTaken
    <3> QED
      BY <3>11, <3>15
  <2> QED
    BY <1>1, <2>1, <2>2, <2>3 DEF PollEffect
<1> QED
  BY <1>2, <1>6 DEF RouteInv

\* discard_reply only takes lists away.
LEMMA RouteDiscard ==
    ASSUME RouteInv, SeqInv', StoreInv',
           NEW n \in 1 .. out_request, NEW ok \in MemOk, xcb_discard_reply(n, ok)
    PROVE  RouteInv'
<1>1. /\ UNCHANGED <<out_request, request_read, log, nread, events, taken, delivered>>
      /\ DiscardEffect(n)
  BY DiscardDoes DEF RouteInv, StoreInv
<1>2. Numbered(events)' /\ Numbered(delivered)'
  BY <1>1 DEF RouteInv, Numbered
<1>3. /\ \A y \in Elems(current_reply) : log[y].of = request_read
      /\ \A i \in DOMAIN replies :
           /\ replies[i].key < request_read
           /\ \A y \in Elems(replies[i].data) : log[y].of = replies[i].key
      /\ KeysDistinct(replies)
  BY DEF RouteInv, StoredRight
<1>4. /\ KeysDistinct(replies')
      /\ \A j \in DOMAIN replies' : \E k \in DOMAIN replies : replies'[j] = replies[k]
      /\ MapIds(replies') \subseteq MapIds(replies)
      /\ Elems(current_reply') \subseteq Elems(current_reply)
  <2>1. CASE UNCHANGED <<current_reply, replies>>
    BY <1>3, <2>1
  <2>2. CASE UNCHANGED replies /\ current_reply' = <<>>
    <3>1. Elems(<<>>) = {}
      BY DEF Elems
    <3> QED
      BY <1>3, <2>2, <3>1
  <2>3. ASSUME NEW i \in 1 .. Len(replies), UNCHANGED current_reply, replies' = map_removed(i)
        PROVE  <1>4!:
    <3>1. replies \in Seq(MapEntry) /\ MapDisjoint(replies)
      BY DEF RouteInv, StoreInv, StoreOrdered, TypeOK
    <3> DEFINE r == map_removed(i)
    <3>2. /\ MapIds(r) = MapIds(replies) \ Elems(replies[i].data) /\ KeysDistinct(r)
          /\ \A j \in DOMAIN r : \E k \in DOMAIN replies : r[j] = replies[k]
      BY <1>3, <3>1, MapTake DEF map_removed
    <3> HIDE DEF r
    <3>3. replies' = r
      BY <2>3 DEF r
    <3> QED
      BY <2>3, <3>2, <3>3
  <2> QED
    BY <1>1, <2>1, <2>2, <2>3 DEF DiscardEffect
<1>5. StoredRight'
  <2>1. request_read' = request_read /\ log' = log
    BY <1>1
  <2> QED
    BY <1>3, <1>4, <2>1 DEF StoredRight
<1>6. TakenRight'
  <2>1. taken' = taken /\ log' = log
    BY <1>1
  <2> QED
    BY <1>4, <2>1 DEF RouteInv, TakenRight
<1> QED
  BY <1>2, <1>5, <1>6 DEF RouteInv

\* get_event hands an event out as it was queued.
LEMMA RouteEvent ==
    ASSUME RouteInv, SeqInv', StoreInv', get_event
    PROVE  RouteInv'
<1>1. /\ events # <<>> /\ delivered' = Append(delivered, Head(events))
      /\ events' = Tail(events)
      /\ UNCHANGED <<current_reply, replies, taken, log, request_read>>
  BY DEF get_event, seqvars, netvars
<1>2. events \in Seq(Event) /\ delivered \in Seq(Event)
  BY DEF RouteInv, StoreInv, TypeOK, Event
<1>3. /\ Head(events) \in Event /\ Head(events) = events[1]
      /\ Len(Tail(events)) = Len(events) - 1 /\ Len(events) \in Nat \ {0}
      /\ \A i \in 1 .. Len(Tail(events)) : Tail(events)[i] = events[i + 1]
  BY <1>1, <1>2, HeadTailProperties, EmptySeq
<1>4. /\ Len(delivered') = Len(delivered) + 1 /\ Len(delivered) \in Nat
      /\ \A i \in 1 .. Len(delivered) : delivered'[i] = delivered[i]
      /\ delivered'[Len(delivered) + 1] = Head(events)
  BY <1>1, <1>2, <1>3, AppendProperties, LenProperties
<1>5. Numbered(events)'
  <2> SUFFICES ASSUME NEW i \in 1 .. Len(events'), log[events'[i].id].type # "keymap"
               PROVE  events'[i].full_sequence = log[events'[i].id].of
    BY <1>1 DEF Numbered
  <2>1. i + 1 \in 1 .. Len(events) /\ events'[i] = events[i + 1]
    BY <1>1, <1>3
  <2> QED
    BY <2>1 DEF RouteInv, Numbered
<1>6. Numbered(delivered)'
  <2> SUFFICES ASSUME NEW i \in 1 .. Len(delivered'), log[delivered'[i].id].type # "keymap"
               PROVE  delivered'[i].full_sequence = log[delivered'[i].id].of
    BY <1>1 DEF Numbered
  <2>1. CASE i = Len(delivered) + 1
    <3>1. delivered'[i] = events[1] /\ 1 \in 1 .. Len(events)
      BY <1>3, <1>4, <2>1
    <3> QED
      BY <3>1 DEF RouteInv, Numbered
  <2>2. CASE i \in 1 .. Len(delivered)
    BY <1>4, <2>2 DEF RouteInv, Numbered
  <2> QED
    BY <1>4, <2>1, <2>2
<1>7. StoredRight' /\ TakenRight'
  BY <1>1 DEF RouteInv, StoredRight, TakenRight
<1> QED
  BY <1>5, <1>6, <1>7 DEF RouteInv

LEMMA RouteStep ==
    ASSUME OwnerContract = "expected", MaxRequest < Seq32, RouteInv, [Next]_vars
    PROVE  RouteInv'
<1>1. SeqInv' /\ StoreInv' /\ TypeOK /\ TypeOK'
  BY SeqStep, StoreStep, TypeStep DEF RouteInv, StoreInv
<1>2. CASE \E outcome \in ReadOutcomes, stored \in MapOk : read_packet(outcome, stored)
  BY <1>1, <1>2, ReadDoes, ReadNumber, RouteRead
<1> QED
  BY <1>1, <1>2, StepKinds, RouteQuiet, RoutePoll, RouteDiscard, RouteEvent

\* The responses stored in reps under the key n, and the list ids if c holds.
KeyIds(reps, n) ==
    UNION {Elems(reps[i].data) : i \in {k \in DOMAIN reps : reps[k].key = n}}

IdsIf(c, ids) == IF c THEN Elems(ids) ELSE {}

\* What is stored and returned for a request of a connection that has issued
\* no more requests than cookies tell apart.
LEMMA StoredIs ==
    ASSUME RouteInv, MaxRequest < Seq32, NEW n \in 1 .. out_request
    PROVE  /\ n \in 1 .. MaxRequest /\ Taken(n) = Elems(taken[n])
           /\ Stored(n) \subseteq MapIds(replies) \cup Elems(current_reply)
           /\ \A y \in Stored(n) : log[y].of = n
           /\ \A y \in MapIds(replies) \cup Elems(current_reply) : log[y].of = n => y \in Stored(n)
<1>1. n \in 1 .. MaxRequest
  BY ReplyAssumption DEF RouteInv, StoreInv, TypeOK
<1>2. Cookie(n) = n
  BY <1>1, CookieSame
<1>3. \A y : y \in Stored(n) <=>
         \/ \E i \in DOMAIN replies : replies[i].key = n /\ y \in Elems(replies[i].data)
         \/ n = request_read /\ y \in Elems(current_reply)
  <2>1. Stored(n) = KeyIds(replies, n) \cup IdsIf(n = request_read, current_reply)
    BY <1>2, Zenon DEF Stored, KeyIds, IdsIf, Elems
  <2>2. \A y : y \in KeyIds(replies, n) <=>
           \E i \in DOMAIN replies : replies[i].key = n /\ y \in Elems(replies[i].data)
    BY DEF KeyIds
  <2>3. \A y : y \in IdsIf(n = request_read, current_reply)
                 <=> n = request_read /\ y \in Elems(current_reply)
    BY DEF IdsIf
  <2> QED
    BY <2>1, <2>2, <2>3
<1>4. \A y : y \in MapIds(replies) <=> \E i \in DOMAIN replies : y \in Elems(replies[i].data)
  BY DEF MapIds
<1>5. Taken(n) = Elems(taken[n])
  BY DEF Taken, Elems
<1>6. Stored(n) \subseteq MapIds(replies) \cup Elems(current_reply)
  BY <1>3, <1>4
<1>7. \A y \in Stored(n) : log[y].of = n
  BY <1>3 DEF RouteInv, StoredRight
<1>8. \A y \in MapIds(replies) \cup Elems(current_reply) : log[y].of = n => y \in Stored(n)
  BY <1>3, <1>4 DEF RouteInv, StoredRight
<1> QED
  BY <1>1, <1>5, <1>6, <1>7, <1>8

\* Whatever poll_for_reply hands out or can hand out for a request answers
\* that request, and events carry the number of the request they followed,
\* on every connection that lives for fewer requests than there are cookies.
\* Lists that nobody collects stay in the reply map under their cookie, so
\* that beyond that number two requests share one.
THEOREM ResponsesReachOwner ==
    ASSUME OwnerContract = "expected", MaxRequest < Seq32
    PROVE  Spec => []RoutedToOwner
<1>1. Init => RouteInv
  BY RouteInit
<1>2. RouteInv /\ [Next]_vars => RouteInv'
  BY RouteStep
<1>3. RouteInv => RoutedToOwner
  <2> SUFFICES ASSUME RouteInv PROVE RoutedToOwner
    OBVIOUS
  <2>1. ASSUME NEW n \in 1 .. out_request PROVE \A i \in Taken(n) \cup Stored(n) : log[i].of = n
    BY <2>1, StoredIs DEF RouteInv, TakenRight
  <2>2. events \in Seq(Event) /\ delivered \in Seq(Event)
    BY DEF RouteInv, StoreInv, TypeOK, Event
  <2>3. DOMAIN events = 1 .. Len(events) /\ DOMAIN delivered = 1 .. Len(delivered)
    BY <2>2, LenProperties
  <2>4. ASSUME NEW i \in 1 .. Len(log)
        PROVE  log[i].type # "keymap" => Cookie(log[i].of) = log[i].of
    <3>1. log[i].of \in Nat
      BY LogElement DEF RouteInv
    <3>2. log[i].of <= served /\ served \in Nat /\ served <= out_request
      BY DEF RouteInv, SeqInv, SeqType, WindowInv, LogOrdered
    <3>3. out_request \in 0 .. MaxRequest /\ MaxRequest \in Nat
      BY ReplyAssumption DEF RouteInv, StoreInv, TypeOK
    <3>4. log[i].of \in 0 .. MaxRequest
      BY <3>1, <3>2, <3>3
    <3> QED
      BY <3>4, CookieSame
  <2>5. /\ \A i \in 1 .. Len(events) : events[i].id \in 1 .. Len(log)
        /\ \A i \in 1 .. Len(delivered) : delivered[i].id \in 1 .. Len(log)
    BY PlacesSent DEF RouteInv
  <2>6. \A e \in {events[i] : i \in DOMAIN events} \cup {delivered[i] : i \in DOMAIN delivered} :
           log[e.id].type # "keymap" => e.full_sequence = Cookie(log[e.id].of)
    <3>1. \A i \in 1 .. Len(events) : log[events[i].id].type # "keymap" =>
             events[i].full_sequence = Cookie(log[events[i].id].of)
      BY <2>4, <2>5 DEF RouteInv, Numbered
    <3>2. \A i \in 1 .. Len(delivered) : log[delivered[i].id].type # "keymap" =>
             delivered[i].full_sequence = Cookie(log[delivered[i].id].of)
      BY <2>4, <2>5 DEF RouteInv, Numbered
    <3> QED
      BY <2>3, <3>1, <3>2
  <2> QED
    BY <2>1, <2>6 DEF RoutedToOwner
<1> QED
  BY <1>1, <1>2, <1>3, PTL DEF Spec

\* The replies to one request are returned in the order the server sent them,
\* those that went through the reply map included.
THEOREM RepliesStayInOrder ==
    ASSUME OwnerContract = "expected", MaxRequest < Seq32
    PROVE  Spec => []RepliesInOrder
<1>1. Init => RouteInv
  BY RouteInit
<1>2. RouteInv /\ [Next]_vars => RouteInv'
  BY RouteStep
<1>3. RouteInv => RepliesInOrder
  <2> SUFFICES ASSUME RouteInv, NEW n \in 1 .. out_request
               PROVE  /\ \A i, j \in DOMAIN taken[n] : i < j => taken[n][i] < taken[n][j]
                      /\ \A i \in Taken(n), j \in Stored(n) : i < j
    BY DEF RepliesInOrder
  <2>1. n \in 1 .. MaxRequest
    BY StoredIs
  <2>2. DOMAIN taken[n] = 1 .. Len(taken[n])
    BY <2>1, LenProperties DEF RouteInv, StoreInv, TypeOK
  <2>3. Increasing(taken[n])
    BY <2>1 DEF RouteInv, TakenRight
  <2>4. \A i \in Taken(n), j \in Stored(n) : i < j
    BY <2>1, StoredIs DEF RouteInv, TakenRight
  <2> QED
    BY <2>2, <2>3, <2>4 DEF Increasing
<1> QED
  BY <1>1, <1>2, <1>3, PTL DEF Spec
=============================================================================
