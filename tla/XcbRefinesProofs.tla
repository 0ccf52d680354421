-------------------------- MODULE XcbRefinesProofs --------------------------
(***************************************************************************)
(* XcbReply implements XcbAnswers for any number of requests, responses    *)
(* and socket handoffs: the reply map, the list of the current replies and *)
(* the list of pending replies come to one inbox for every request.        *)
(***************************************************************************)
EXTENDS XcbReplyResponses, XcbRefines

-----------------------------------------------------------------------------
(* The inboxes, as a function of the reply map, the current list and the   *)
(* request being read                                                      *)

FirstAt(reps, key) ==
    CHOOSE i \in DOMAIN reps :
        /\ reps[i].key = key
        /\ \A j \in 1 .. i - 1 : reps[j].key # key

Box(n, reps, cur, read) ==
    IF n = read THEN cur
    ELSE IF \E i \in DOMAIN reps : reps[i].key = n
         THEN reps[FirstAt(reps, n)].data
         ELSE <<>>

Boxes(reps, cur, read) == [n \in 1 .. MaxRequest |-> Box(n, reps, cur, read)]

\* Inboxes with another list for request n, and without those in `forgotten`.
SetBox(boxes, n, b) == [boxes EXCEPT ![n] = b]
Without(boxes, forgotten) ==
    [n \in 1 .. MaxRequest |-> IF n \in forgotten THEN <<>> ELSE boxes[n]]

\* The map has list b for request n.
HasList(reps, n, b) == \E i \in DOMAIN reps : reps[i].key = n /\ reps[i].data = b

\* The refinement mapping in these terms.
LEMMA InboxIs ==
    ASSUME MaxRequest < Seq32
    PROVE  /\ Inbox = Boxes(replies, current_reply, request_read)
           /\ Inbox' = Boxes(replies', current_reply', request_read')
<1>1. \A n \in 1 .. MaxRequest : Cookie(n) = n
  <2> TAKE n \in 1 .. MaxRequest
  <2>1. n \in 0 .. MaxRequest
    BY ReplyAssumption
  <2> QED
    BY <2>1, CookieSame
<1>2. ASSUME NEW key
      PROVE  /\ MapIndex(key) = FirstAt(replies, key)
             /\ InMap(key) <=> \E i \in DOMAIN replies : replies[i].key = key
  BY Zenon DEF MapIndex, FirstAt, InMap
<1>3. ASSUME NEW n \in 1 .. MaxRequest
      PROVE  Waiting(n) = Box(n, replies, current_reply, request_read)
  BY <1>1, <1>2 DEF Waiting, Box
<1>4. ASSUME NEW n \in 1 .. MaxRequest
      PROVE  Waiting(n)' = Box(n, replies', current_reply', request_read')
  <2>1. Cookie(n) = n
    BY <1>1
  <2>2. /\ MapIndex(n)' = FirstAt(replies', n)
        /\ InMap(n)' <=> \E i \in DOMAIN replies' : replies'[i].key = n
    BY Zenon DEF MapIndex, FirstAt, InMap
  <2> QED
    BY <2>1, <2>2 DEF Waiting, Box
<1> QED
  BY <1>3, <1>4 DEF Inbox, Boxes

\* What is in the inbox of a request that is not being read.
LEMMA BoxIs ==
    ASSUME NEW reps \in Seq(MapEntry), KeysDistinct(reps), NEW cur, NEW read, NEW n, n # read
    PROVE  /\ \A b : HasList(reps, n, b) => Box(n, reps, cur, read) = b
           /\ (\A b : ~HasList(reps, n, b)) => Box(n, reps, cur, read) = <<>>
<1>1. DOMAIN reps = 1 .. Len(reps) /\ Len(reps) \in Nat
  BY LenProperties
<1>2. ASSUME NEW b, HasList(reps, n, b) PROVE Box(n, reps, cur, read) = b
  <2>1. PICK i \in DOMAIN reps : reps[i].key = n /\ reps[i].data = b
    BY <1>2 DEF HasList
  <2>2. \A j \in 1 .. i - 1 : j \in DOMAIN reps /\ j # i
    BY <1>1
  <2>3. \A j \in 1 .. i - 1 : reps[j].key # n
    BY <2>1, <2>2 DEF KeysDistinct
  <2> DEFINE k == FirstAt(reps, n)
  <2>4. k \in DOMAIN reps /\ reps[k].key = n
    BY <2>1, <2>3 DEF FirstAt
  <2>5. k = i
    BY <2>1, <2>4 DEF KeysDistinct
  <2>6. Box(n, reps, cur, read) = reps[k].data
    BY <2>1 DEF Box
  <2> HIDE DEF k
  <2> QED
    BY <2>1, <2>5, <2>6
<1>3. ASSUME \A b : ~HasList(reps, n, b) PROVE Box(n, reps, cur, read) = <<>>
  <2>1. ~\E i \in DOMAIN reps : reps[i].key = n
    BY <1>3 DEF HasList
  <2> QED
    BY <2>1 DEF Box
<1> QED
  BY <1>2, <1>3

\* Two maps with the same list for a request give it the same inbox.
LEMMA BoxSame ==
    ASSUME NEW reps \in Seq(MapEntry), KeysDistinct(reps),
           NEW reps2 \in Seq(MapEntry), KeysDistinct(reps2),
           NEW cur, NEW read, NEW cur2, NEW read2, NEW n, n # read, n # read2,
           \A b : HasList(reps, n, b) <=> HasList(reps2, n, b)
    PROVE  Box(n, reps2, cur2, read2) = Box(n, reps, cur, read)
<1>1. CASE \E b : HasList(reps, n, b)
  <2>1. PICK b : HasList(reps, n, b)
    BY <1>1
  <2>2. HasList(reps2, n, b)
    BY <2>1
  <2>3. Box(n, reps, cur, read) = b
    BY <2>1, BoxIs
  <2>4. Box(n, reps2, cur2, read2) = b
    BY <2>2, BoxIs
  <2> QED
    BY <2>3, <2>4
<1>2. CASE \A b : ~HasList(reps, n, b)
  <2>1. \A b : ~HasList(reps2, n, b)
    BY <1>2
  <2>2. Box(n, reps, cur, read) = <<>>
    BY <1>2, BoxIs
  <2>3. Box(n, reps2, cur2, read2) = <<>>
    BY <2>1, BoxIs
  <2> QED
    BY <2>2, <2>3
<1> QED
  BY <1>1, <1>2

\* _xcb_map_put, and _xcb_map_remove.
LEMMA ListPut ==
    ASSUME NEW reps \in Seq(MapEntry), NEW e \in MapEntry, NEW n, NEW b
    PROVE  HasList(Append(reps, e), n, b) <=> HasList(reps, n, b) \/ (e.key = n /\ e.data = b)
<1> DEFINE a == Append(reps, e)
<1>1. /\ a \in Seq(MapEntry) /\ Len(a) = Len(reps) + 1 /\ Len(reps) \in Nat
      /\ \A i \in 1 .. Len(reps) : a[i] = reps[i]
      /\ a[Len(reps) + 1] = e
  BY AppendProperties, LenProperties
<1>2. DOMAIN a = 1 .. Len(reps) + 1 /\ DOMAIN reps = 1 .. Len(reps)
  BY <1>1, LenProperties
<1> HIDE DEF a
<1>3. HasList(a, n, b) => HasList(reps, n, b) \/ (e.key = n /\ e.data = b)
  BY <1>1, <1>2 DEF HasList
<1>4. HasList(reps, n, b) => HasList(a, n, b)
  BY <1>1, <1>2 DEF HasList
<1>5. e.key = n /\ e.data = b => HasList(a, n, b)
  <2>1. Len(reps) + 1 \in DOMAIN a
    BY <1>1, <1>2
  <2> QED
    BY <1>1, <2>1 DEF HasList
<1> QED
  BY <1>3, <1>4, <1>5 DEF a

LEMMA ListRemoved ==
    ASSUME NEW reps \in Seq(MapEntry), KeysDistinct(reps), NEW i \in 1 .. Len(reps), NEW n, NEW b
    PROVE  HasList(SubSeq(reps, 1, i - 1) \o SubSeq(reps, i + 1, Len(reps)), n, b)
              <=> HasList(reps, n, b) /\ n # reps[i].key
<1> DEFINE r == SubSeq(reps, 1, i - 1) \o SubSeq(reps, i + 1, Len(reps))
<1>1. /\ r \in Seq(MapEntry) /\ Len(r) = Len(reps) - 1
      /\ \A j \in 1 .. Len(r) : r[j] = reps[IF j < i THEN j ELSE j + 1]
  BY RemoveAt
<1>2. /\ DOMAIN r = 1 .. Len(r) /\ DOMAIN reps = 1 .. Len(reps)
      /\ Len(r) \in Nat /\ Len(reps) \in Nat
  BY <1>1, LenProperties
<1> HIDE DEF r
<1>3. ASSUME HasList(r, n, b) PROVE HasList(reps, n, b) /\ n # reps[i].key
  <2>1. PICK j \in 1 .. Len(r) : r[j].key = n /\ r[j].data = b
    BY <1>2, <1>3 DEF HasList
  <2>2. PICK k \in 1 .. Len(reps) : k # i /\ r[j] = reps[k]
    BY <1>1, <1>2
  <2>3. HasList(reps, n, b)
    BY <1>2, <2>1, <2>2 DEF HasList
  <2>4. reps[k].key # reps[i].key
    BY <1>2, <2>2 DEF KeysDistinct
  <2> QED
    BY <2>1, <2>2, <2>3, <2>4
<1>4. ASSUME HasList(reps, n, b), n # reps[i].key PROVE HasList(r, n, b)
  <2>1. PICK j \in 1 .. Len(reps) : reps[j].key = n /\ reps[j].data = b
    BY <1>2, <1>4 DEF HasList
  <2>2. j < i \/ j > i
    BY <1>2, <1>4, <2>1
  <2>3. CASE j < i
    <3>1. j \in 1 .. Len(r) /\ r[j] = reps[j]
      BY <1>1, <1>2, <2>3
    <3> QED
      BY <1>2, <2>1, <3>1 DEF HasList
  <2>4. CASE j > i
    <3>1. j - 1 \in 1 .. Len(r) /\ ~(j - 1 < i) /\ (j - 1) + 1 = j
      BY <1>1, <1>2, <2>4
    <3>2. r[j - 1] = reps[j]
      BY <1>1, <3>1
    <3> QED
      BY <1>2, <2>1, <3>1, <3>2 DEF HasList
  <2> QED
    BY <2>2, <2>3, <2>4
<1> QED
  BY <1>3, <1>4 DEF r

\* The list of the current replies goes to the map, is empty, or is lost.
LEMMA BoxesPutAway ==
    ASSUME NEW reps \in Seq(MapEntry), KeysDistinct(reps), NEW cur \in Seq(Ids),
           NEW read \in Nat, NEW read2 \in Nat, read < read2,
           \A i \in DOMAIN reps : reps[i].key < read
    PROVE  /\ cur # <<>> => Boxes(Append(reps, [key |-> read, data |-> cur]), <<>>, read2)
                              = Boxes(reps, cur, read)
           /\ cur = <<>> => Boxes(reps, <<>>, read2) = Boxes(reps, cur, read)
           /\ Boxes(reps, <<>>, read2) = Without(Boxes(reps, cur, read), {read})
<1>1. ASSUME NEW b, NEW n, n = read \/ n = read2 PROVE ~HasList(reps, n, b)
  <2> SUFFICES ASSUME NEW i \in DOMAIN reps, reps[i].key = n PROVE FALSE
    BY DEF HasList
  <2>1. reps[i] \in MapEntry
    BY ElementOfSeq, LenProperties
  <2>2. reps[i].key \in Nat /\ reps[i].key < read
    BY <2>1 DEF MapEntry
  <2> QED
    BY <1>1, <2>2
<1>2. Box(read2, reps, cur, read) = <<>>
  BY <1>1, BoxIs
<1>3. ASSUME NEW n \in 1 .. MaxRequest
      PROVE  Box(n, reps, <<>>, read2) = IF n = read THEN <<>> ELSE Box(n, reps, cur, read)
  <2>1. CASE n = read2
    BY <1>2, <2>1 DEF Box
  <2>2. CASE n = read
    <3>1. Box(read, reps, <<>>, read2) = <<>>
      BY <1>1, BoxIs
    <3> QED
      BY <2>2, <3>1
  <2>3. CASE n # read /\ n # read2
    BY <2>3, BoxSame
  <2> QED
    BY <2>1, <2>2, <2>3
<1>4. Boxes(reps, <<>>, read2) = Without(Boxes(reps, cur, read), {read})
  BY <1>3 DEF Boxes, Without
<1>5. cur = <<>> => Boxes(reps, <<>>, read2) = Boxes(reps, cur, read)
  <2>1. ASSUME cur = <<>>, NEW n \in 1 .. MaxRequest
        PROVE  Box(n, reps, <<>>, read2) = Box(n, reps, cur, read)
    <3>1. n = read => Box(n, reps, cur, read) = cur
      BY DEF Box
    <3> QED
      BY <1>3, <2>1, <3>1
  <2> QED
    BY <2>1 DEF Boxes
<1>6. ASSUME cur # <<>>
      PROVE  Boxes(Append(reps, [key |-> read, data |-> cur]), <<>>, read2) = Boxes(reps, cur, read)
  <2> DEFINE e == [key |-> read, data |-> cur]
             a == Append(reps, e)
  <2>1. e \in MapEntry /\ e.key = read /\ e.data = cur
    BY <1>6 DEF MapEntry
  <2>2. \A i \in DOMAIN reps : reps[i].key # e.key
    <3> SUFFICES ASSUME NEW i \in DOMAIN reps PROVE reps[i].key # read
      OBVIOUS
    <3>1. HasList(reps, reps[i].key, reps[i].data)
      BY DEF HasList
    <3> QED
      BY <1>1, <3>1
  <2> HIDE DEF e
  <2>3. a \in Seq(MapEntry) /\ KeysDistinct(a)
    BY <2>1, <2>2, MapPut, AppendProperties
  <2>4. \A n, b : HasList(a, n, b) <=> HasList(reps, n, b) \/ (n = read /\ b = cur)
    BY <2>1, ListPut
  <2> HIDE DEF a
  <2>5. ASSUME NEW n \in 1 .. MaxRequest
        PROVE  Box(n, a, <<>>, read2) = Box(n, reps, cur, read)
    <3>1. CASE n = read2
      BY <1>2, <3>1 DEF Box
    <3>2. CASE n = read
      <4>1. HasList(a, read, cur) /\ read # read2
        BY <2>4
      <4>2. Box(read, a, <<>>, read2) = cur
        BY <2>3, <4>1, BoxIs
      <4>3. Box(read, reps, cur, read) = cur
        BY DEF Box
      <4> QED
        BY <3>2, <4>2, <4>3
    <3>3. CASE n # read /\ n # read2
      <4>1. \A b : HasList(reps, n, b) <=> HasList(a, n, b)
        BY <2>4, <3>3
      <4> QED
        BY <2>3, <3>3, <4>1, BoxSame
    <3> QED
      BY <3>1, <3>2, <3>3
  <2>6. Boxes(a, <<>>, read2) = Boxes(reps, cur, read)
    BY <2>5 DEF Boxes
  <2> QED
    BY <2>6 DEF a, e
<1> QED
  BY <1>4, <1>5, <1>6

\* The list of the current replies is the inbox of the request being read.
LEMMA BoxesCurrent ==
    ASSUME NEW reps, NEW cur, NEW cur2, NEW read \in 1 .. MaxRequest
    PROVE  /\ Boxes(reps, cur2, read) = SetBox(Boxes(reps, cur, read), read, cur2)
           /\ Boxes(reps, cur, read)[read] = cur
<1>1. \A n \in 1 .. MaxRequest :
         Box(n, reps, cur2, read) = IF n = read THEN cur2 ELSE Box(n, reps, cur, read)
  BY DEF Box
<1>2. Box(read, reps, cur, read) = cur
  BY DEF Box
<1> QED
  BY <1>1, <1>2 DEF Boxes, SetBox

\* Taking a list out of the map empties an inbox, and putting list d back
\* leaves d there.
LEMMA BoxesTake ==
    ASSUME NEW reps \in Seq(MapEntry), KeysDistinct(reps), MapDisjoint(reps),
           NEW i \in 1 .. Len(reps), NEW cur, NEW read, reps[i].key # read,
           NEW k \in 1 .. MaxRequest, reps[i].key = k
    PROVE  LET r == SubSeq(reps, 1, i - 1) \o SubSeq(reps, i + 1, Len(reps))
               boxes == Boxes(reps, cur, read)
           IN  /\ boxes[k] = reps[i].data
               /\ Boxes(r, cur, read) = SetBox(boxes, k, <<>>)
               /\ \A d \in Seq(Ids) :
                    d # <<>> => Boxes(Append(r, [key |-> k, data |-> d]), cur, read)
                                  = SetBox(boxes, k, d)
<1> DEFINE r == SubSeq(reps, 1, i - 1) \o SubSeq(reps, i + 1, Len(reps))
<1>1. r \in Seq(MapEntry) /\ KeysDistinct(r) /\ \A j \in DOMAIN r : r[j].key # k
  <2>1. r \in Seq(MapEntry)
    BY MapTake
  <2>2. KeysDistinct(r) /\ \A j \in DOMAIN r : r[j].key # reps[i].key
    BY MapTake
  <2> QED
    BY <2>1, <2>2
<1>2. \A n, b : HasList(r, n, b) <=> HasList(reps, n, b) /\ n # k
  BY ListRemoved
<1> HIDE DEF r
<1>3. Box(k, reps, cur, read) = reps[i].data
  <2>1. HasList(reps, k, reps[i].data)
    BY LenProperties DEF HasList
  <2> QED
    BY <2>1, BoxIs
<1>4. ASSUME NEW n \in 1 .. MaxRequest
      PROVE  Box(n, r, cur, read) = IF n = k THEN <<>> ELSE Box(n, reps, cur, read)
  <2>1. CASE n = read
    BY <2>1 DEF Box
  <2>2. CASE n = k
    <3>1. \A b : ~HasList(r, k, b)
      BY <1>2
    <3>2. Box(k, r, cur, read) = <<>>
      BY <1>1, <3>1, BoxIs
    <3> QED
      BY <2>2, <3>2
  <2>3. CASE n # read /\ n # k
    <3>1. \A b : HasList(reps, n, b) <=> HasList(r, n, b)
      BY <1>2, <2>3
    <3>2. Box(n, r, cur, read) = Box(n, reps, cur, read)
      BY <1>1, <2>3, <3>1, BoxSame
    <3> QED
      BY <2>3, <3>2
  <2> QED
    BY <2>1, <2>2, <2>3
<1> DEFINE e(d) == [key |-> k, data |-> d]
           a(d) == Append(r, e(d))
<1>5. ASSUME NEW d \in Seq(Ids), d # <<>>, NEW n \in 1 .. MaxRequest
      PROVE  Box(n, a(d), cur, read) = IF n = k THEN d ELSE Box(n, reps, cur, read)
  <2>1. e(d) \in MapEntry /\ e(d).key = k /\ e(d).data = d
    BY <1>5 DEF MapEntry
  <2> HIDE DEF e
  <2>2. a(d) \in Seq(MapEntry) /\ KeysDistinct(a(d))
    BY <1>1, <2>1, MapPut, AppendProperties
  <2>3. \A m, b : HasList(a(d), m, b) <=> HasList(r, m, b) \/ (m = k /\ b = d)
    BY <1>1, <2>1, ListPut
  <2> HIDE DEF a
  <2>4. CASE n = read
    BY <2>4 DEF Box
  <2>5. CASE n = k
    <3>1. HasList(a(d), k, d) /\ k # read
      BY <2>3
    <3>2. Box(k, a(d), cur, read) = d
      BY <2>2, <3>1, BoxIs
    <3> QED
      BY <2>5, <3>2
  <2>6. CASE n # read /\ n # k
    <3>1. \A b : HasList(reps, n, b) <=> HasList(a(d), n, b)
      BY <1>2, <2>3, <2>6
    <3>2. Box(n, a(d), cur, read) = Box(n, reps, cur, read)
      BY <2>2, <2>6, <3>1, BoxSame
    <3> QED
      BY <2>6, <3>2
  <2> QED
    BY <2>4, <2>5, <2>6
<1>6. Boxes(reps, cur, read)[k] = reps[i].data
  BY <1>3 DEF Boxes
<1>7. Boxes(r, cur, read) = SetBox(Boxes(reps, cur, read), k, <<>>)
  BY <1>4 DEF Boxes, SetBox
<1>8. \A d \in Seq(Ids) : d # <<>> => Boxes(a(d), cur, read) = SetBox(Boxes(reps, cur, read), k, d)
  <2> HIDE DEF a
  <2> QED
    BY <1>5 DEF Boxes, SetBox
<1> QED
  BY <1>6, <1>7, <1>8 DEF r
-----------------------------------------------------------------------------
(* Sequences                                                               *)

\* A sequence that is only added to.
LEMMA PrefixIs ==
    ASSUME NEW S, NEW s \in Seq(S), NEW t \in Seq(S), Len(s) <= Len(t),
           \A i \in 1 .. Len(s) : t[i] = s[i]
    PROVE  Answers!IsPrefix(s, t)
<1>1. Len(s) \in Nat /\ Len(t) \in Nat
  BY LenProperties
<1>2. \A i \in 1 .. Len(s) : s[i] \in S /\ t[i] \in S
  BY <1>1, ElementOfSeq
<1>3. /\ SubSeq(s, 1, Len(s)) \in Seq(S) /\ Len(SubSeq(s, 1, Len(s))) = Len(s)
      /\ \A i \in 1 .. Len(s) : SubSeq(s, 1, Len(s))[i] = s[i]
  <2>1. /\ SubSeq(s, 1, Len(s)) \in Seq(S)
        /\ Len(SubSeq(s, 1, Len(s))) = IF 1 <= Len(s) THEN Len(s) - 1 + 1 ELSE 0
        /\ \A i \in 1 .. Len(s) - 1 + 1 : SubSeq(s, 1, Len(s))[i] = s[1 + i - 1]
    BY <1>1, <1>2, SubSeqProperties
  <2> QED
    BY <1>1, <2>1
<1>4. /\ SubSeq(t, 1, Len(s)) \in Seq(S) /\ Len(SubSeq(t, 1, Len(s))) = Len(s)
      /\ \A i \in 1 .. Len(s) : SubSeq(t, 1, Len(s))[i] = t[i]
  <2>1. /\ SubSeq(t, 1, Len(s)) \in Seq(S)
        /\ Len(SubSeq(t, 1, Len(s))) = IF 1 <= Len(s) THEN Len(s) - 1 + 1 ELSE 0
        /\ \A i \in 1 .. Len(s) - 1 + 1 : SubSeq(t, 1, Len(s))[i] = t[1 + i - 1]
    BY <1>1, <1>2, SubSeqProperties
  <2> QED
    BY <1>1, <2>1
<1>5. SubSeq(s, 1, Len(s)) = SubSeq(t, 1, Len(s))
  BY <1>3, <1>4, SeqEqual
<1> QED
  BY <1>5 DEF Answers!IsPrefix

\* The responses of a queue that an event is added to or taken from.
LEMMA IdsPut ==
    ASSUME NEW evs \in Seq(Event), NEW e \in Event
    PROVE  IdsOf(Append(evs, e)) = Append(IdsOf(evs), e.id)
<1> DEFINE a == Append(evs, e)
           b == Append(IdsOf(evs), e.id)
<1>1. /\ a \in Seq(Event) /\ Len(a) = Len(evs) + 1 /\ a[Len(evs) + 1] = e /\ Len(evs) \in Nat
      /\ \A i \in 1 .. Len(evs) : a[i] = evs[i]
  BY AppendProperties, LenProperties
<1>2. DOMAIN a = 1 .. Len(evs) + 1 /\ DOMAIN evs = 1 .. Len(evs)
  BY <1>1, LenProperties
<1>3. e.id \in Ids /\ \A i \in 1 .. Len(evs) : evs[i].id \in Ids
  <2>1. \A i \in 1 .. Len(evs) : evs[i] \in Event
    BY ElementOfSeq
  <2> QED
    BY <2>1 DEF Event
<1>4. /\ IdsOf(evs) \in Seq(Ids) /\ Len(IdsOf(evs)) = Len(evs)
      /\ \A i \in 1 .. Len(evs) : IdsOf(evs)[i] = evs[i].id
  <2>1. IdsOf(evs) = [i \in 1 .. Len(evs) |-> evs[i].id]
    BY <1>2 DEF IdsOf
  <2>2. [i \in 1 .. Len(evs) |-> evs[i].id] \in Seq(Ids)
    BY <1>1, <1>3, IsASeq
  <2> QED
    BY <1>1, <2>1, <2>2, LenProperties
<1>5. /\ b \in Seq(Ids) /\ Len(b) = Len(evs) + 1 /\ b[Len(evs) + 1] = e.id
      /\ \A i \in 1 .. Len(evs) : b[i] = evs[i].id
  BY <1>3, <1>4, AppendProperties
<1>6. DOMAIN b = 1 .. Len(evs) + 1 /\ b = [i \in 1 .. Len(evs) + 1 |-> b[i]]
  BY <1>5, LenProperties
<1> HIDE DEF a, b
<1>7. \A i \in 1 .. Len(evs) + 1 : a[i].id = b[i]
  BY <1>1, <1>5
<1>8. IdsOf(a) = [i \in 1 .. Len(evs) + 1 |-> a[i].id]
  BY <1>2 DEF IdsOf
<1> QED
  BY <1>6, <1>7, <1>8 DEF a, b

LEMMA IdsTake ==
    ASSUME NEW evs \in Seq(Event), evs # <<>>
    PROVE  /\ IdsOf(evs) # <<>> /\ Head(IdsOf(evs)) = Head(evs).id
           /\ IdsOf(Tail(evs)) = Tail(IdsOf(evs))
<1> DEFINE s == IdsOf(evs)
<1>1. /\ Len(evs) \in Nat \ {0} /\ Tail(evs) \in Seq(Event) /\ Len(Tail(evs)) = Len(evs) - 1
      /\ \A i \in 1 .. Len(Tail(evs)) : Tail(evs)[i] = evs[i + 1]
      /\ Head(evs) = evs[1]
  BY EmptySeq, HeadTailProperties
<1>2. /\ DOMAIN evs = 1 .. Len(evs) /\ DOMAIN Tail(evs) = 1 .. Len(evs) - 1
      /\ \A i \in 1 .. Len(evs) : evs[i].id \in Ids
  <2>1. \A i \in 1 .. Len(evs) : evs[i] \in Event
    BY ElementOfSeq
  <2>2. \A i \in 1 .. Len(evs) : evs[i].id \in Ids
    BY <2>1 DEF Event
  <2> QED
    BY <1>1, <2>2, LenProperties
<1>3. s = [i \in 1 .. Len(evs) |-> evs[i].id]
  BY <1>2 DEF IdsOf
<1>4. s \in Seq(Ids) /\ Len(s) = Len(evs) /\ \A i \in 1 .. Len(evs) : s[i] = evs[i].id
  <2>1. [i \in 1 .. Len(evs) |-> evs[i].id] \in Seq(Ids)
    BY <1>1, <1>2, IsASeq
  <2> HIDE DEF s
  <2> QED
    BY <1>1, <1>3, <2>1, LenProperties
<1> HIDE DEF s
<1>5. s # <<>>
  BY <1>1, <1>4, EmptySeq
<1>6. /\ Tail(s) \in Seq(Ids) /\ Len(Tail(s)) = Len(evs) - 1 /\ Head(s) = s[1]
      /\ \A i \in 1 .. Len(evs) - 1 : Tail(s)[i] = s[i + 1]
  BY <1>4, <1>5, HeadTailProperties
<1>7. Tail(s) = [i \in 1 .. Len(evs) - 1 |-> Tail(s)[i]]
  BY <1>6, LenProperties
<1>8. \A i \in 1 .. Len(evs) - 1 : Tail(evs)[i].id = Tail(s)[i]
  <2> TAKE i \in 1 .. Len(evs) - 1
  <2>1. i + 1 \in 1 .. Len(evs)
    BY <1>1
  <2> QED
    BY <1>1, <1>4, <1>6, <2>1
<1>9. IdsOf(Tail(evs)) = [i \in 1 .. Len(evs) - 1 |-> Tail(evs)[i].id]
  BY <1>2 DEF IdsOf
<1>10. Head(s) = Head(evs).id
  BY <1>1, <1>4, <1>6
<1> QED
  BY <1>5, <1>7, <1>8, <1>9, <1>10 DEF s
-----------------------------------------------------------------------------
(* The steps                                                               *)

\* The initial states map to initial states.
LEMMA RefinesInit ==
    ASSUME MaxRequest < Seq32, Init
    PROVE  Answers!Init
<1>1. Inbox = Boxes(<<>>, <<>>, 0)
  BY InboxIs DEF Init
<1>2. Inbox = [n \in 1 .. MaxRequest |-> <<>>]
  BY <1>1 DEF Boxes, Box
<1>3. IdsOf(<<>>) = <<>>
  BY DEF IdsOf
<1> QED
  BY <1>2, <1>3 DEF Init, Answers!Init

\* What every step below needs of the invariant.
LEMMA RefineTypes ==
    ASSUME ResponseInv, ResponseInv', NoWrap
    PROVE  /\ MaxRequest < Seq32 /\ TypeOK /\ TypeOK' /\ StoreInv /\ RouteInv /\ RouteInv'
           /\ SeqInv /\ SeqInv' /\ PendInv /\ PendInv' /\ StorePlaces /\ StorePlaces'
           /\ LogSound /\ LogSound' /\ PlacedRight /\ PlacedRight'
<1>1. MaxRequest < Seq32
  BY ReplyAssumption, WidthAssumption DEF NoWrap
<1> QED
  BY <1>1 DEF ResponseInv, PendInv, RouteInv, StoreInv

\* xcb_send_request, xcb_take_socket and xcb_writev issue requests.
LEMMA RefinesIssue ==
    ASSUME MaxRequest < Seq32, TypeOK, TypeOK', [Next]_vars,
           \/ \E req \in Shapes : xcb_send_request(req)
           \/ send_refused \/ take_socket_failed
           \/ \E flags \in OwnerFlags : xcb_take_socket(flags)
           \/ \E batch \in Batches : xcb_writev(batch)
    PROVE  Answers!Issue
<1>1. /\ ~has_error /\ edges \subseteq edges'
      /\ UNCHANGED <<discards, served, log, nread, taken, nulls, delivered, dropped, lost,
                     events, current_reply, replies, request_read>>
  <2>1. CASE \E req \in Shapes : xcb_send_request(req)
    BY <2>1 DEF xcb_send_request, readvars, ghosts
  <2>2. CASE send_refused
    BY <2>2 DEF send_refused, seqvars, listvars, netvars, readvars, ghosts
  <2>3. CASE \E flags \in OwnerFlags : xcb_take_socket(flags)
    BY <2>3 DEF xcb_take_socket, seqvars, netvars, readvars
  <2>4. CASE \E batch \in Batches : xcb_writev(batch)
    BY <2>4 DEF xcb_writev, seqvars, listvars, readvars, ghosts
  <2>5. CASE take_socket_failed
    BY <2>5 DEF take_socket_failed, seqvars, readvars, ghosts
  <2> QED
    BY <2>1, <2>2, <2>3, <2>4, <2>5
<1>2. Answers!IsPrefix(reqs, reqs')
  <2>1. reqs \in Seq(Request) /\ reqs' \in Seq(Request)
    BY DEF TypeOK
  <2>2. Len(reqs) <= Len(reqs') /\ \A n \in 1 .. Len(reqs) : reqs'[n] = reqs[n]
    BY OnlyAdded
  <2> QED
    BY <2>1, <2>2, PrefixIs
<1>3. Inbox' = Inbox /\ IdsOf(events)' = IdsOf(events) /\ IdsOf(delivered)' = IdsOf(delivered)
  BY <1>1, InboxIs
<1>4. has_error' \in BOOLEAN
  BY DEF TypeOK
<1> QED
  BY <1>1, <1>2, <1>3, <1>4 DEF Answers!Issue, Answers!MayFail, Answers!server, Answers!given

\* The server adds responses to the request it works on.
LEMMA RefinesRespond ==
    ASSUME MaxRequest < Seq32, TypeOK, TypeOK', SeqInv, LogSound,
           serve \/ more_replies \/ send_event
    PROVE  Answers!Respond
<1> DEFINE P == [type : PacketType, of : Nat]
<1>1. /\ log \in Seq(P) /\ log' \in Seq(P) /\ Len(log) \in Nat /\ DOMAIN log = 1 .. Len(log)
      /\ served \in Nat /\ out_request \in Nat /\ Len(reqs) = out_request
  <2>1. /\ log \in Seq(P) /\ log' \in Seq(P) /\ Len(reqs) = out_request
        /\ served \in 0 .. out_request /\ out_request \in 0 .. MaxRequest
    BY DEF TypeOK
  <2> QED
    BY <2>1, LenProperties
<1>2. PICK ps : ServerStep(ps)
  BY DEF serve, more_replies, send_event
<1>3. /\ UNCHANGED <<reqs, discards, edges, nread, taken, nulls, delivered, dropped, lost, has_error,
                     events, current_reply, replies, request_read>>
  BY <1>2 DEF ServerStep, seqvars, listvars, readvars, ghosts
<1>4. Inbox' = Inbox /\ IdsOf(events)' = IdsOf(events) /\ IdsOf(delivered)' = IdsOf(delivered)
  BY <1>3, InboxIs
<1>5. ASSUME NEW t \in PacketType, log' = log \o <<Packet(t, served')>>, served' \in Nat,
             t \in {"reply", "error"} => ~Answers!Over(served')
      PROVE  /\ Len(log') = Len(log) + 1 /\ Answers!IsPrefix(log, log')
             /\ Answers!Last(log').of = served'
             /\ Answers!Last(log').type \in {"reply", "error"} => ~Answers!Over(served')
  <2> DEFINE p == Packet(t, served')
  <2>1. p \in P /\ p.type = t /\ p.of = served'
    BY <1>5 DEF Packet
  <2> HIDE DEF p
  <2>2. <<p>> \in Seq(P) /\ Len(<<p>>) = 1 /\ <<p>>[1] = p
    BY <2>1
  <2>3. /\ Len(log') = Len(log) + 1
        /\ \A i \in 1 .. Len(log) + 1 : log'[i] = IF i <= Len(log) THEN log[i] ELSE <<p>>[i - Len(log)]
    BY <1>1, <1>5, <2>2, ConcatProperties DEF p
  <2>4. log'[Len(log) + 1] = p /\ \A i \in 1 .. Len(log) : log'[i] = log[i]
    <3>1. /\ Len(log) + 1 \in 1 .. Len(log) + 1 /\ ~(Len(log) + 1 <= Len(log))
          /\ (Len(log) + 1) - Len(log) = 1
          /\ \A i \in 1 .. Len(log) : i \in 1 .. Len(log) + 1 /\ i <= Len(log)
      BY <1>1
    <3>2. log'[Len(log) + 1] = <<p>>[(Len(log) + 1) - Len(log)]
      BY <2>3, <3>1
    <3> QED
      BY <2>2, <2>3, <3>1, <3>2
  <2>5. Answers!IsPrefix(log, log')
    BY <1>1, <2>3, <2>4, PrefixIs
  <2>6. Answers!Last(log') = p
    BY <2>3, <2>4 DEF Answers!Last
  <2> QED
    BY <1>5, <2>1, <2>3, <2>5, <2>6
<1> DEFINE Answered ==
             \/ UNCHANGED log
             \/ /\ Len(log') = Len(log) + 1 /\ Answers!IsPrefix(log, log')
                /\ Answers!Last(log').of = served'
                /\ Answers!Last(log').type \in {"reply", "error"} => ~Answers!Over(served')
<1>6. CASE serve
  <2>1. served' = served + 1 /\ served < out_request
    BY <1>6 DEF serve
  <2>2. ~Answers!Over(served')
    <3>1. \A i \in 1 .. Len(log) : log[i].of \in Nat /\ log[i].of <= served
      <4>1. \A i \in 1 .. Len(log) : log[i] \in P
        BY <1>1, ElementOfSeq
      <4> QED
        BY <4>1 DEF SeqInv, WindowInv, LogOrdered
    <3>2. \A i \in 1 .. Len(log) : log[i] # [type |-> "error", of |-> served']
      BY <1>1, <2>1, <3>1
    <3> QED
      BY <1>1, <2>1, <3>2 DEF Answers!Over
  <2>3. \/ log' = log \o <<>> \/ log' = log \o <<Packet("reply", served')>>
        \/ log' = log \o <<Packet("error", served')>>
    BY <1>6, <2>1 DEF serve, ServerStep
  <2>4. log \o <<>> = log
    BY <1>1
  <2>5. Answered
    <3>1. served' \in Nat /\ "reply" \in PacketType /\ "error" \in PacketType
      BY <1>1, <2>1 DEF PacketType
    <3>2. CASE log' = log \o <<>>
      BY <2>4, <3>2
    <3>3. CASE log' = log \o <<Packet("reply", served')>>
      BY <1>5, <2>2, <3>1, <3>3
    <3>4. CASE log' = log \o <<Packet("error", served')>>
      BY <1>5, <2>2, <3>1, <3>4
    <3> QED
      BY <2>3, <3>2, <3>3, <3>4
  <2> HIDE DEF Answered
  <2>6. served' \in {served, served + 1} /\ served' <= Len(reqs)
    BY <1>1, <2>1
  <2> QED
    BY <1>3, <1>4, <2>5, <2>6 DEF Answered, Answers!Respond, Answers!asked, Answers!given
<1>7. CASE more_replies
  <2>1. served' = served /\ log' = log \o <<Packet("reply", served')>>
    BY <1>7 DEF more_replies, ServerStep
  <2>2. PICK i \in DOMAIN log : log[i] = Packet("reply", served)
    BY <1>7 DEF more_replies
  <2>3. log[i].type = "reply" /\ log[i].of = served
    BY <2>2 DEF Packet
  <2>4. ~Answers!Over(served')
    <3>1. ASSUME NEW j \in DOMAIN log, log[j] = [type |-> "error", of |-> served'] PROVE FALSE
      <4>1. log[j].type = "error" /\ log[j].of = served
        BY <2>1, <3>1
      <4>2. j = i
        BY <1>1, <2>3, <4>1 DEF LogSound
      <4> QED
        BY <2>3, <4>1, <4>2
    <3> QED
      BY <1>1, <2>1, <3>1 DEF Answers!Over
  <2>5. Answered
    BY <1>1, <1>5, <2>1, <2>4 DEF PacketType
  <2> HIDE DEF Answered
  <2>6. served' \in {served, served + 1} /\ served' <= Len(reqs)
    BY <1>1, <2>1 DEF TypeOK
  <2> QED
    BY <1>3, <1>4, <2>5, <2>6 DEF Answered, Answers!Respond, Answers!asked, Answers!given
<1>8. CASE send_event
  <2>1. served' = served
    BY <1>8 DEF send_event
  <2>2. PICK t \in EventTypes : log' = log \o <<Packet(t, served')>>
    BY <1>8, <2>1 DEF send_event, ServerStep
  <2>3. t \in PacketType /\ t \notin {"reply", "error"}
    BY ReplyAssumption DEF PacketType
  <2>4. Answered
    BY <1>1, <1>5, <2>1, <2>2, <2>3
  <2> HIDE DEF Answered
  <2>5. served' \in {served, served + 1} /\ served' <= Len(reqs)
    BY <1>1, <2>1 DEF TypeOK
  <2> QED
    BY <1>3, <1>4, <2>4, <2>5 DEF Answered, Answers!Respond, Answers!asked, Answers!given
<1> QED
  BY <1>6, <1>7, <1>8

\* get_event hands out the first event.
LEMMA RefinesGetEvent ==
    ASSUME MaxRequest < Seq32, TypeOK, TypeOK', get_event
    PROVE  Answers!GetEvent
<1>1. /\ events # <<>> /\ events' = Tail(events) /\ delivered' = Append(delivered, Head(events))
      /\ UNCHANGED <<reqs, discards, edges, served, log, nread, taken, nulls, dropped, lost,
                     has_error, current_reply, replies, request_read>>
  BY DEF get_event, seqvars, netvars, readvars
<1>2. events \in Seq(Event) /\ delivered \in Seq(Event)
  BY DEF TypeOK, Event
<1>3. Head(events) \in Event
  BY <1>1, <1>2, HeadTailProperties
<1>4. IdsOf(events) # <<>> /\ IdsOf(events)' = Tail(IdsOf(events))
  BY <1>1, <1>2, IdsTake
<1>5. IdsOf(delivered)' = Append(IdsOf(delivered), Head(IdsOf(events)))
  <2>1. Head(IdsOf(events)) = Head(events).id
    BY <1>1, <1>2, IdsTake
  <2>2. IdsOf(Append(delivered, Head(events))) = Append(IdsOf(delivered), Head(events).id)
    BY <1>2, <1>3, IdsPut
  <2> QED
    BY <1>1, <2>1, <2>2
<1>6. Inbox' = Inbox
  BY <1>1, InboxIs
<1> QED
  BY <1>1, <1>4, <1>5, <1>6 DEF Answers!GetEvent, Answers!asked, Answers!server

\* The inbox of a request that has no list in the map, and of one that is to
\* be read later.
LEMMA EmptyBox ==
    ASSUME RouteInv, NEW n \in 1 .. MaxRequest, n # request_read,
           n > request_read \/ \A i \in DOMAIN replies : replies[i].key # n
    PROVE  Boxes(replies, current_reply, request_read)[n] = <<>>
<1>1. replies \in Seq(MapEntry) /\ KeysDistinct(replies) /\ request_read \in Nat
  BY DEF RouteInv, StoreInv, TypeOK, StoredRight
<1>2. \A i \in DOMAIN replies : replies[i].key # n
  <2> SUFFICES ASSUME n > request_read, NEW i \in DOMAIN replies PROVE replies[i].key # n
    OBVIOUS
  <2>1. replies[i] \in MapEntry /\ replies[i].key < request_read
    BY <1>1, ElementOfSeq, LenProperties DEF RouteInv, StoredRight
  <2>2. replies[i].key \in Nat
    BY <2>1 DEF MapEntry
  <2> QED
    BY <1>1, <2>1, <2>2
<1>3. \A b : ~HasList(replies, n, b)
  BY <1>2 DEF HasList
<1>4. Box(n, replies, current_reply, request_read) = <<>>
  BY <1>1, <1>3, BoxIs
<1> QED
  BY <1>4 DEF Boxes

\* poll_for_reply takes from the inbox, or says that it is empty for good.
LEMMA RefinesPoll ==
    ASSUME NoWrap, ResponseInv, NEW n \in 1 .. out_request, NEW stored \in MapOk,
           xcb_poll_for_reply(n, stored)
    PROVE  Answers!Take(n) \/ Answers!SayNothing(n) \/ UNCHANGED Answers!vars
<1> DEFINE boxes == Boxes(replies, current_reply, request_read)
<1>0. /\ MaxRequest < Seq32 /\ TypeOK /\ RouteInv /\ SeqInv /\ PendInv /\ StorePlaces /\ PlacedRight
  BY ReplyAssumption, WidthAssumption DEF NoWrap, ResponseInv, PendInv, RouteInv, StoreInv
<1>1. /\ n \in 1 .. MaxRequest /\ PollEffect(n)
      /\ UNCHANGED <<reqs, discards, edges, served, log, nread, dropped, has_error, events,
                     delivered, request_read>>
  <2>1. n \in 1 .. MaxRequest /\ PollEffect(n)
    BY <1>0, PollDoes
  <2> QED
    BY <2>1 DEF xcb_poll_for_reply, seqvars, netvars, readvars
<1>2. /\ Inbox = boxes /\ Inbox' = Boxes(replies', current_reply', request_read)
      /\ IdsOf(events)' = IdsOf(events) /\ IdsOf(delivered)' = IdsOf(delivered)
  BY <1>0, <1>1, InboxIs
<1>3. /\ replies \in Seq(MapEntry) /\ KeysDistinct(replies) /\ MapDisjoint(replies)
      /\ current_reply \in Seq(Ids) /\ request_read \in 0 .. MaxRequest /\ Cookie(n) = n
      /\ Diff32(Cookie(n), request_read) = n - request_read /\ n \in Nat
  <2>1. n \in 0 .. MaxRequest /\ request_read \in 0 .. MaxRequest
    BY <1>0, <1>1, ReadBounded, ReplyAssumption
  <2>2. Cookie(n) = n /\ Diff32(n, request_read) = n - request_read
    BY <2>1, DiffSame
  <2> QED
    BY <1>0, <2>1, <2>2 DEF RouteInv, StoreInv, StoreOrdered, TypeOK, StoredRight
<1> HIDE DEF boxes
<1>4. CASE UNCHANGED <<current_reply, replies, taken, lost>> /\ nulls' = nulls \cup {n}
  <2>1. Inbox' = Inbox
    BY <1>2, <1>4 DEF boxes
  <2>2. CASE UNCHANGED nulls
    BY <1>1, <1>2, <1>4, <2>1, <2>2 DEF Answers!vars
  <2>3. CASE NothingFor(n)
    <3>1. ~has_error =>
             /\ Inbox[n] = <<>> /\ Answers!Over(n)
             /\ \A i \in nread + 1 .. Len(log) : ~(log[i].of = n /\ Answers!IsAnswer(log[i]))
      <4> SUFFICES ASSUME ~has_error
                   PROVE  /\ Inbox[n] = <<>> /\ Answers!Over(n)
                          /\ \A i \in nread + 1 .. Len(log) :
                               ~(log[i].of = n /\ Answers!IsAnswer(log[i]))
        OBVIOUS
      <4>1. Final(n, log, reqs, served, taken, dropped \cup lost)
        BY <1>0, <2>3, NothingIsFinal
      <4>2. /\ Len(log) \in Nat /\ nread \in 0 .. Len(log) /\ DOMAIN log = 1 .. Len(log)
            /\ taken \in [1 .. MaxRequest -> Seq(Ids)]
        BY <1>0, LenProperties DEF TypeOK
      <4>3. Answers!Over(n)
        BY <4>1, <4>2 DEF Final, Packet, Answers!Over
      <4>4. Inbox[n] = <<>>
        <5>1. CASE n = request_read
          <6>1. current_reply = <<>>
            BY <1>3, <2>3, <5>1 DEF NothingFor
          <6> QED
            BY <1>1, <1>2, <5>1, <6>1, BoxesCurrent DEF boxes
        <5>2. CASE n # request_read
          <6>1. \A i \in DOMAIN replies : replies[i].key # n
            BY <2>3, <5>2 DEF NothingFor
          <6> QED
            BY <1>0, <1>1, <1>2, <5>2, <6>1, EmptyBox DEF boxes
        <5> QED
          BY <5>1, <5>2
      <4>5. ASSUME NEW i \in nread + 1 .. Len(log), log[i].of = n, Answers!IsAnswer(log[i])
            PROVE  FALSE
        <5>1. i \in 1 .. Len(log) /\ i \notin 1 .. nread
          BY <4>2
        <5>2. AnswerTo(log[i], n, reqs)
          BY <4>5 DEF AnswerTo, Answers!IsAnswer
        <5>3. i \in Elems(taken[n]) \cup (dropped \cup lost)
          BY <4>1, <5>1, <5>2 DEF Final
        <5>4. Elems(taken[n]) \subseteq AllTaken(taken)
          BY <1>1, <4>2 DEF AllTaken
        <5> QED
          BY <1>0, <5>1, <5>3, <5>4 DEF StorePlaces, Apart
      <4> QED
        BY <4>3, <4>4, <4>5
    <3> QED
      BY <1>1, <1>2, <1>4, <2>1, <3>1 DEF Answers!SayNothing, Answers!asked, Answers!server
  <2> QED
    BY <1>0, <2>2, <2>3, PollSaysNothing
<1>5. CASE /\ UNCHANGED <<replies, lost, nulls>>
           /\ Diff32(Cookie(n), request_read) = 0 /\ current_reply # <<>>
           /\ taken' = [taken EXCEPT ![n] = Append(@, Head(current_reply))]
           /\ current_reply' = Tail(current_reply)
  <2>1. n = request_read
    BY <1>3, <1>5
  <2>2. boxes[n] = current_reply
    BY <1>1, <2>1, BoxesCurrent DEF boxes
  <2>3. Inbox' = SetBox(boxes, n, Tail(current_reply))
    <3>1. Boxes(replies, Tail(current_reply), n)
            = SetBox(Boxes(replies, current_reply, n), n, Tail(current_reply))
      BY <1>1, BoxesCurrent
    <3> QED
      BY <1>2, <1>5, <2>1, <3>1 DEF boxes
  <2>4. Answers!Take(n)
    BY <1>1, <1>2, <1>5, <2>2, <2>3 DEF SetBox, Answers!Take, Answers!asked, Answers!server
  <2> QED
    BY <2>4
<1>6. ASSUME NEW i \in 1 .. Len(replies),
             UNCHANGED <<current_reply, nulls>>, replies[i].key = Cookie(n),
             replies[i].data \in Seq(Ids), replies[i].data # <<>>,
             taken' = [taken EXCEPT ![n] = Append(@, Head(replies[i].data))],
             \/ replies' = map_removed(i) /\ lost' = lost /\ Tail(replies[i].data) = <<>>
             \/ /\ "nomap" \in Faults
                /\ replies' = map_removed(i) /\ lost' = lost \cup Elems(Tail(replies[i].data))
             \/ /\ lost' = lost /\ Tail(replies[i].data) # <<>>
                /\ replies' = Append(map_removed(i),
                                [key |-> Cookie(n), data |-> Tail(replies[i].data)])
      PROVE  Answers!Take(n)
  <2> DEFINE list == replies[i].data
             rest == Tail(list)
  <2>1. n # request_read
    <3>1. replies[i].key < request_read
      BY <1>0, <1>3, LenProperties DEF RouteInv, StoredRight
    <3> QED
      BY <1>3, <1>6, <3>1
  <2>2. rest \in Seq(Ids)
    BY <1>6, HeadTailProperties
  <2>3. /\ boxes[n] = list
        /\ Boxes(map_removed(i), current_reply, request_read) = SetBox(boxes, n, <<>>)
        /\ rest # <<>> => Boxes(Append(map_removed(i), [key |-> n, data |-> rest]),
                                current_reply, request_read)
                            = SetBox(boxes, n, rest)
    <3> DEFINE r == SubSeq(replies, 1, i - 1) \o SubSeq(replies, i + 1, Len(replies))
    <3> HIDE DEF rest
    <3>1. replies[i].key = n /\ replies[i].key # request_read
      BY <1>3, <1>6, <2>1
    <3>2. Boxes(replies, current_reply, request_read)[n] = replies[i].data
      BY <1>1, <1>3, <2>2, <3>1, BoxesTake
    <3>3. Boxes(r, current_reply, request_read)
            = SetBox(Boxes(replies, current_reply, request_read), n, <<>>)
      BY <1>1, <1>3, <2>2, <3>1, BoxesTake
    <3>4. rest # <<>> => Boxes(Append(r, [key |-> n, data |-> rest]), current_reply, request_read)
            = SetBox(Boxes(replies, current_reply, request_read), n, rest)
      <4>1. \A d \in Seq(Ids) :
              d # <<>> => Boxes(Append(r, [key |-> n, data |-> d]), current_reply, request_read)
                            = SetBox(Boxes(replies, current_reply, request_read), n, d)
        BY <1>1, <1>3, <3>1, BoxesTake
      <4> QED
        BY <2>2, <4>1
    <3>5. map_removed(i) = r
      BY DEF map_removed
    <3> HIDE DEF r
    <3> QED
      BY <3>2, <3>3, <3>4, <3>5 DEF boxes
  <2>4. Answers!ToSet(rest) = Elems(rest)
    BY DEF Answers!ToSet, Elems
  <2>5. /\ Inbox[n] # <<>>
        /\ taken' = [taken EXCEPT ![n] = Append(@, Head(Inbox[n]))]
        /\ Inbox = boxes /\ Inbox[n] = list
    BY <1>2, <1>6, <2>3
  <2>6. \/ Inbox' = [Inbox EXCEPT ![n] = Tail(@)] /\ UNCHANGED lost
        \/ /\ "nomap" \in Faults /\ Inbox' = [Inbox EXCEPT ![n] = <<>>]
           /\ lost' = lost \cup Answers!ToSet(Tail(Inbox[n]))
    <3>1. CASE replies' = map_removed(i) /\ lost' = lost /\ rest = <<>>
      <4>1. Inbox' = SetBox(boxes, n, rest)
        BY <1>2, <1>6, <2>3, <3>1
      <4> QED
        BY <2>5, <3>1, <4>1 DEF SetBox
    <3>2. CASE "nomap" \in Faults /\ replies' = map_removed(i) /\ lost' = lost \cup Elems(rest)
      <4>1. Inbox' = SetBox(boxes, n, <<>>)
        BY <1>2, <1>6, <2>3, <3>2
      <4> QED
        BY <2>4, <2>5, <3>2, <4>1 DEF SetBox
    <3>3. CASE /\ lost' = lost /\ rest # <<>>
               /\ replies' = Append(map_removed(i), [key |-> Cookie(n), data |-> rest])
      <4>1. Inbox' = SetBox(boxes, n, rest)
        BY <1>2, <1>3, <1>6, <2>3, <3>3
      <4> QED
        BY <2>5, <3>3, <4>1 DEF SetBox
    <3> QED
      BY <1>6, <3>1, <3>2, <3>3
  <2> QED
    BY <1>1, <1>2, <1>6, <2>5, <2>6 DEF Answers!Take, Answers!asked, Answers!server
<1> QED
  BY <1>1, <1>4, <1>5, <1>6 DEF PollEffect

\* discard_reply empties the inbox.
LEMMA RefinesDiscard ==
    ASSUME NoWrap, ResponseInv, TypeOK', NEW n \in 1 .. out_request, NEW ok \in MemOk,
           xcb_discard_reply(n, ok)
    PROVE  Answers!Discard(n)
<1> DEFINE boxes == Boxes(replies, current_reply, request_read)
<1>0. /\ MaxRequest < Seq32 /\ TypeOK /\ RouteInv /\ SeqInv
  BY ReplyAssumption, WidthAssumption DEF NoWrap, ResponseInv, PendInv, RouteInv, StoreInv
<1>1. /\ discard_reply(n, ok) /\ discards' = discards \cup {n} /\ has_error' \in BOOLEAN
      /\ UNCHANGED <<reqs, edges, served, log, nread, taken, nulls, lost, events, delivered,
                     request_read>>
  BY DEF xcb_discard_reply, seqvars, netvars, readvars, TypeOK
<1>2. /\ Inbox = boxes /\ Inbox' = Boxes(replies', current_reply', request_read)
      /\ IdsOf(events)' = IdsOf(events) /\ IdsOf(delivered)' = IdsOf(delivered)
  BY <1>0, <1>1, InboxIs
<1>3. /\ replies \in Seq(MapEntry) /\ KeysDistinct(replies) /\ MapDisjoint(replies)
      /\ request_read \in Nat /\ Cookie(n) = n /\ n \in Nat /\ n \in 1 .. MaxRequest
      /\ Diff32(Cookie(n), request_read) = n - request_read
  <2>1. n \in 0 .. MaxRequest /\ request_read \in 0 .. MaxRequest /\ n \in 1 .. MaxRequest
    BY <1>0, <1>1, ReadBounded, ReplyAssumption
  <2>2. Cookie(n) = n /\ Diff32(n, request_read) = n - request_read
    BY <2>1, DiffSame
  <2> QED
    BY <1>0, <2>1, <2>2 DEF RouteInv, StoreInv, StoreOrdered, TypeOK, StoredRight
<1> SUFFICES /\ Inbox' = [Inbox EXCEPT ![n] = <<>>]
             /\ dropped' = dropped \cup Answers!ToSet(Inbox[n])
  BY <1>1, <1>2 DEF Answers!Discard, Answers!MayFail, Answers!server, Answers!given
<1>4. DOMAIN boxes = 1 .. MaxRequest
  BY DEF Boxes
<1> HIDE DEF boxes
<1>5. CASE UNCHANGED <<replies, current_reply, dropped>> /\ boxes[n] = <<>>
  <2>1. Inbox' = boxes
    BY <1>2, <1>5 DEF boxes
  <2>2. [boxes EXCEPT ![n] = <<>>] = boxes
    <3>1. boxes = [k \in 1 .. MaxRequest |-> boxes[k]]
      BY <1>4 DEF boxes, Boxes
    <3> QED
      BY <1>3, <1>5, <3>1
  <2>3. Answers!ToSet(<<>>) = {}
    BY DEF Answers!ToSet
  <2> QED
    BY <1>2, <1>5, <2>1, <2>2, <2>3
<1>6. CASE n < request_read /\ ~InMap(n) /\ UNCHANGED <<replies, current_reply, dropped>>
  <2>1. n # request_read /\ \A i \in DOMAIN replies : replies[i].key # n
    BY <1>3, <1>6 DEF InMap
  <2>2. boxes[n] = <<>>
    BY <1>0, <1>3, <2>1, EmptyBox DEF boxes
  <2> QED
    BY <1>5, <1>6, <2>2
<1>7. CASE /\ n < request_read /\ InMap(n)
           /\ replies' = map_removed(MapIndex(n)) /\ UNCHANGED current_reply
           /\ dropped' = dropped \cup {replies[MapIndex(n)].data[j] :
                                         j \in DOMAIN replies[MapIndex(n)].data}
  <2> DEFINE i == MapIndex(n)
             r == SubSeq(replies, 1, i - 1) \o SubSeq(replies, i + 1, Len(replies))
  <2>1. i \in 1 .. Len(replies) /\ replies[i].key = n
    BY <1>0, <1>7, MapIndexType
  <2>2. replies' = r /\ dropped' = dropped \cup Answers!ToSet(replies[i].data)
    BY <1>7 DEF map_removed, Answers!ToSet
  <2>3. replies[i].key # request_read
    BY <1>3, <1>7, <2>1
  <2> HIDE DEF i
  <2>4. Boxes(replies, current_reply, request_read)[n] = replies[i].data
    BY <1>3, <2>1, <2>3, BoxesTake
  <2>5. Boxes(r, current_reply, request_read)
          = SetBox(Boxes(replies, current_reply, request_read), n, <<>>)
    BY <1>3, <2>1, <2>3, BoxesTake
  <2> HIDE DEF r
  <2>6. Inbox' = SetBox(boxes, n, <<>>) /\ Inbox[n] = replies[i].data
    BY <1>2, <1>7, <2>2, <2>4, <2>5 DEF boxes
  <2> QED
    BY <1>2, <2>2, <2>6 DEF SetBox
<1>8. CASE /\ n = request_read /\ current_reply' = <<>> /\ UNCHANGED replies
           /\ dropped' = dropped \cup {current_reply[j] : j \in DOMAIN current_reply}
  <2>1. Boxes(replies, current_reply, n)[n] = current_reply
    BY <1>3, BoxesCurrent
  <2>2. Boxes(replies, <<>>, n) = SetBox(Boxes(replies, current_reply, n), n, <<>>)
    BY <1>3, BoxesCurrent
  <2>3. Inbox' = SetBox(boxes, n, <<>>) /\ Inbox[n] = current_reply
    BY <1>2, <1>8, <2>1, <2>2 DEF boxes
  <2>4. dropped' = dropped \cup Answers!ToSet(Inbox[n])
    BY <1>8, <2>3 DEF Answers!ToSet
  <2> QED
    BY <1>2, <2>3, <2>4 DEF SetBox
<1>9. CASE /\ n > request_read \/ (n = request_read /\ current_reply = <<>>)
           /\ UNCHANGED <<current_reply, replies, dropped>>
  <2>1. CASE n > request_read
    <3>1. n # request_read
      BY <1>3, <2>1
    <3>2. boxes[n] = <<>>
      BY <1>0, <1>3, <2>1, <3>1, EmptyBox DEF boxes
    <3> QED
      BY <1>5, <1>9, <3>2
  <2>2. CASE n = request_read /\ current_reply = <<>>
    <3>1. Boxes(replies, current_reply, n)[n] = current_reply
      BY <1>3, BoxesCurrent
    <3> QED
      BY <1>5, <1>9, <2>2, <3>1 DEF boxes
  <2> QED
    BY <1>9, <2>1, <2>2
<1>10. \/ /\ Diff32(Cookie(n), request_read) < 0 /\ UNCHANGED current_reply
          /\ \/ ~InMap(Cookie(n)) /\ UNCHANGED <<replies, dropped>>
             \/ /\ InMap(Cookie(n)) /\ replies' = map_removed(MapIndex(Cookie(n)))
                /\ dropped' = dropped \cup {replies[MapIndex(Cookie(n))].data[j] :
                                             j \in DOMAIN replies[MapIndex(Cookie(n))].data}
       \/ /\ Diff32(Cookie(n), request_read) = 0 /\ current_reply' = <<>> /\ UNCHANGED replies
          /\ dropped' = dropped \cup {current_reply[j] : j \in DOMAIN current_reply}
       \/ /\ \/ Diff32(Cookie(n), request_read) > 0
             \/ Diff32(Cookie(n), request_read) = 0 /\ current_reply = <<>>
          /\ UNCHANGED <<current_reply, replies, dropped>>
  BY <1>1, Zenon DEF discard_reply
<1>11. \/ n < request_read /\ ~InMap(n) /\ UNCHANGED <<replies, current_reply, dropped>>
       \/ /\ n < request_read /\ InMap(n)
          /\ replies' = map_removed(MapIndex(n)) /\ UNCHANGED current_reply
          /\ dropped' = dropped \cup {replies[MapIndex(n)].data[j] :
                                        j \in DOMAIN replies[MapIndex(n)].data}
       \/ /\ n = request_read /\ current_reply' = <<>> /\ UNCHANGED replies
          /\ dropped' = dropped \cup {current_reply[j] : j \in DOMAIN current_reply}
       \/ /\ n > request_read \/ (n = request_read /\ current_reply = <<>>)
          /\ UNCHANGED <<current_reply, replies, dropped>>
  <2>1. /\ Diff32(Cookie(n), request_read) < 0 => n < request_read
        /\ Diff32(Cookie(n), request_read) = 0 => n = request_read
        /\ Diff32(Cookie(n), request_read) > 0 => n > request_read
    BY <1>3
  <2> QED
    BY <1>3, <1>10, <2>1
<1> QED
  BY <1>6, <1>7, <1>8, <1>9, <1>11

\* The places of responses are right for the one that is read, too.
LEMMA ArrivesRight ==
    ASSUME NoWrap, Careful, ResponseInv, ResponseInv', NEW outcome \in ReadOutcomes,
           NEW stored \in MapOk, read_packet(outcome, stored)
    PROVE  /\ nread + 1 \in Elems(current_reply') =>
                 has_error' \/ "inbox" \in Answers!Places(nread + 1)
           /\ nread + 1 \in Queued(events') =>
                 has_error' \/ "queue" \in Answers!Places(nread + 1)
           /\ nread + 1 \in dropped' => "dropped" \in Answers!Places(nread + 1)
           /\ nread + 1 \in lost' => has_error'
           /\ nread' = nread => has_error'
<1> DEFINE id == nread + 1
           p == log[id]
           d == IF p.type = "keymap" THEN pending_replies
                ELSE drop_finished(pending_replies, completed_before(request_read'))
           matched == p.type \in {"reply", "error"} /\ head_matches(d, request_read')
           discard == matched /\ "DISCARD_REPLY" \in Head(d).flags
<1>0. /\ TypeOK /\ TypeOK' /\ PendInv /\ SeqInv' /\ StorePlaces /\ PlacedRight'
  BY RefineTypes
<1>1. ReadCases(d) /\ UNCHANGED <<reqs, log, edges, discards>>
  BY <1>0, ReadParts
<1>2. nread \in Nat /\ id \notin 1 .. nread
  <2>1. nread \in Nat
    BY <1>0, ReadMoves
  <2> QED
    BY <2>1
<1>3. id \notin Queued(events) /\ id \notin lost /\ id \notin Elems(current_reply)
  BY <1>0, <1>2 DEF StorePlaces, Apart
<1> HIDE DEF d, id
<1>4. \/ nread' = nread /\ has_error' /\ UNCHANGED <<events, dropped>>
      \/ nread' = id /\ id \in lost' /\ has_error' /\ UNCHANGED <<events, dropped>>
      \/ nread' = id /\ UNCHANGED <<events, dropped>>
      \/ nread' = id /\ ~discard /\ UNCHANGED dropped
      \/ nread' = id /\ UNCHANGED events
  BY <1>1, Zenon DEF ReadCases, id
<1>5. ~has_error' => ~has_error
  BY <1>0, ReadMoves
<1>6. ASSUME id \in Elems(current_reply'), ~has_error' PROVE "inbox" \in Answers!Places(id)
  <2>1. id \in StoredIds'
    BY <1>6 DEF StoredIds
  <2>2. \/ log'[id].type = "reply"
        \/ /\ log'[id].type = "error"
           /\ log'[id].of \in edges' \/ "CHECKED" \in reqs'[log'[id].of].flags
    BY <1>0, <2>1 DEF PlacedRight, RepliesAndChecked
  <2>3. ~ToDiscard(log'[id].of, reqs', discards')
    BY <1>0, <1>6, <2>1 DEF PlacedRight, NoneToDiscard
  <2>4. /\ p.type = "reply" \/ (p.type = "error" /\ (p.of \in edges \/ "CHECKED" \in reqs[p.of].flags))
        /\ ~ToDiscard(p.of, reqs, discards)
    BY <1>1, <2>2, <2>3
  <2> QED
    BY <2>4 DEF Answers!Places, Answers!Unwanted, Answers!IsAnswer, ToDiscard
<1>7. ASSUME id \in Queued(events'), ~has_error' PROVE "queue" \in Answers!Places(id)
  <2>1. id \in EventIds'
    BY <1>7 DEF EventIds
  <2>2. log'[id].type # "reply" /\ (log'[id].type = "error" => "CHECKED" \notin reqs'[log'[id].of].flags)
    BY <1>0, <1>7, <2>1 DEF PlacedRight, NoReplies, NoCheckedErrors
  <2>3. p.type # "reply" /\ (p.type = "error" => "CHECKED" \notin reqs[p.of].flags)
    BY <1>1, <2>2
  <2>4. p.type = "error" => ~ToDiscard(p.of, reqs, discards)
    <3> SUFFICES ASSUME p.type = "error", ToDiscard(p.of, reqs, discards) PROVE FALSE
      OBVIOUS
    <3>1. events' # events
      BY <1>3, <1>7
    <3>2. ~discard
      BY <1>4, <1>7, <3>1
    <3>3. request_read' = p.of /\ HeadFound(d, p.of, reqs, discards)
      <4>1. p.type \in {"reply", "error"}
        OBVIOUS
      <4> QED
        BY <1>0, <1>5, <1>7, <4>1, HeadTells DEF d, id
    <3>4. Needs(p.of, reqs, discards)
      BY DEF Needs, ToDiscard
    <3>5. head_matches(d, request_read') /\ "DISCARD_REPLY" \in Head(d).flags
      BY <3>3, <3>4 DEF HeadFound, Serves
    <3> QED
      BY <3>2, <3>5
  <2> QED
    BY <2>3, <2>4 DEF Answers!Places, Answers!Unwanted, Answers!IsAnswer, ToDiscard
<1>8. ASSUME id \in dropped' PROVE "dropped" \in Answers!Places(id)
  <2>1. log'[id].type \in {"reply", "error"} /\ ToDiscard(log'[id].of, reqs', discards')
    BY <1>0, <1>8 DEF PlacedRight, Responses, AllToDiscard
  <2>2. p.type \in {"reply", "error"} /\ ToDiscard(p.of, reqs, discards)
    BY <1>1, <2>1
  <2> QED
    BY <2>2 DEF Answers!Places, Answers!Unwanted, ToDiscard
<1>9. /\ lost' = lost \cup (IF stored THEN {} ELSE {current_reply[i] : i \in DOMAIN current_reply})
                     \cup (IF outcome = "nolist" THEN {id} ELSE {})
      /\ has_error' = (has_error \/ outcome # "ok")
  BY DEF read_packet, id
<1>10. id \in lost' => has_error'
  BY <1>3, <1>9 DEF Elems
<1>11. nread' = nread => has_error'
  <2>1. nread' = (IF outcome \in {"ok", "nolist"} THEN id ELSE nread)
    BY DEF read_packet, id
  <2>2. id # nread
    BY <1>2 DEF id
  <2> QED
    BY <1>9, <2>1, <2>2
<1> QED
  BY <1>6, <1>7, <1>8, <1>10, <1>11 DEF id

\* What happens to the inboxes when read_packet starts on a response.
LEMMA PutAwayBoxes ==
    ASSUME NoWrap, ResponseInv, NEW c, NEW l, PutAway(c, l), request_read' \in Nat
    PROVE  LET boxes == Boxes(replies, current_reply, request_read)
           IN  \E forgotten \in Answers!Forgettable :
                  /\ Boxes(replies', c, request_read') = Without(boxes, forgotten)
                  /\ l = lost \cup UNION {Answers!ToSet(boxes[n]) : n \in forgotten}
<1> DEFINE boxes == Boxes(replies, current_reply, request_read)
<1>0. MaxRequest < Seq32 /\ RouteInv /\ SeqInv /\ TypeOK /\ LogSound /\ PlacedRight /\ StorePlaces
  BY ReplyAssumption, WidthAssumption DEF NoWrap, ResponseInv, PendInv, RouteInv, StoreInv
<1>1. /\ replies \in Seq(MapEntry) /\ KeysDistinct(replies) /\ current_reply \in Seq(Ids)
      /\ request_read \in Nat /\ request_read \in 0 .. MaxRequest
      /\ \A i \in DOMAIN replies : replies[i].key < request_read
  BY <1>0, ReadBounded DEF RouteInv, TypeOK, StoredRight
<1>2. /\ Without(boxes, {}) = boxes
      /\ lost \cup UNION {Answers!ToSet(boxes[n]) : n \in {}} = lost
      /\ {} \in Answers!Forgettable
  BY DEF Without, Boxes, Answers!Forgettable
<1> HIDE DEF boxes
<1>3. ASSUME Boxes(replies', c, request_read') = boxes, l = lost
      PROVE  \E forgotten \in Answers!Forgettable :
                  /\ Boxes(replies', c, request_read') = Without(boxes, forgotten)
                  /\ l = lost \cup UNION {Answers!ToSet(boxes[n]) : n \in forgotten}
  BY <1>2, <1>3
<1>4. CASE UNCHANGED <<request_read, replies>> /\ c = current_reply /\ l = lost
  <2>1. Boxes(replies', c, request_read') = boxes
    BY <1>4 DEF boxes
  <2> QED
    BY <1>3, <1>4, <2>1 DEF boxes
<1>5. CASE /\ request_read' > request_read /\ c = <<>>
           /\ current_reply = <<>> /\ UNCHANGED replies /\ l = lost
  <2>1. Boxes(replies, <<>>, request_read') = Boxes(replies, current_reply, request_read)
    BY <1>1, <1>5, BoxesPutAway
  <2> QED
    BY <1>3, <1>5, <2>1 DEF boxes
<1>6. CASE /\ request_read' > request_read /\ c = <<>>
           /\ current_reply # <<>> /\ l = lost
           /\ replies' = Append(replies, [key |-> Cookie(request_read), data |-> current_reply])
  <2>1. Cookie(request_read) = request_read
    BY <1>0, <1>1, CookieSame
  <2>2. Boxes(Append(replies, [key |-> request_read, data |-> current_reply]), <<>>, request_read')
          = Boxes(replies, current_reply, request_read)
    BY <1>1, <1>6, BoxesPutAway
  <2> QED
    BY <1>3, <1>6, <2>1, <2>2 DEF boxes
<1>7. CASE /\ request_read' > request_read /\ c = <<>>
           /\ "nomap" \in Faults /\ current_reply # <<>>
           /\ UNCHANGED replies /\ l = lost \cup Elems(current_reply)
  <2>1. Boxes(replies, <<>>, request_read')
          = Without(Boxes(replies, current_reply, request_read), {request_read})
    BY <1>1, <1>7, BoxesPutAway
  <2>2. request_read \in 1 .. MaxRequest
    <3>1. current_reply[1] \in Elems(current_reply)
      <4>1. Len(current_reply) \in Nat \ {0} /\ DOMAIN current_reply = 1 .. Len(current_reply)
        BY <1>1, <1>7, EmptySeq, LenProperties
      <4> QED
        BY <4>1 DEF Elems
    <3>2. current_reply[1] \in 1 .. nread /\ log[current_reply[1]].of = request_read
      BY <1>0, <3>1 DEF StorePlaces, Apart, RouteInv, StoredRight
    <3>3. log[current_reply[1]].type \in {"reply", "error"}
      BY <1>0, <3>1 DEF PlacedRight, RepliesAndChecked, StoredIds
    <3>4. current_reply[1] \in 1 .. Len(log)
      BY <1>0, <3>2, LenProperties DEF TypeOK
    <3>5. request_read > 0
      BY <1>0, <3>2, <3>3, <3>4 DEF LogSound
    <3> QED
      BY <1>1, <3>5, ReplyAssumption
  <2>3. {request_read} \in Answers!Forgettable
    BY <1>7, <2>2 DEF Answers!Forgettable
  <2>4. boxes[request_read] = current_reply
    BY <2>2, BoxesCurrent DEF boxes
  <2>5. UNION {Answers!ToSet(boxes[n]) : n \in {request_read}} = Elems(current_reply)
    <3>1. Answers!ToSet(current_reply) = Elems(current_reply)
      BY DEF Answers!ToSet, Elems
    <3> QED
      BY <2>4, <3>1
  <2>6. Boxes(replies', c, request_read') = Without(boxes, {request_read})
    BY <1>7, <2>1 DEF boxes
  <2>7. l = lost \cup UNION {Answers!ToSet(boxes[n]) : n \in {request_read}}
    BY <1>7, <2>5
  <2> QED
    BY <2>3, <2>6, <2>7 DEF boxes
<1> QED
  BY <1>4, <1>5, <1>6, <1>7 DEF PutAway, boxes

\* read_packet sorts a response, or fails to.
LEMMA RefinesRead ==
    ASSUME NoWrap, Careful, ResponseInv, ResponseInv', NEW outcome \in ReadOutcomes,
           NEW stored \in MapOk, read_packet(outcome, stored)
    PROVE  \E forgotten \in Answers!Forgettable :
              Answers!Arrive(forgotten) \/ Answers!Fail(forgotten)
<1> DEFINE id == nread + 1
           boxes == Boxes(replies, current_reply, request_read)
<1>0. /\ MaxRequest < Seq32 /\ TypeOK /\ TypeOK' /\ PendInv /\ SeqInv' /\ StorePlaces
      /\ LogSound /\ SeqInv
  BY RefineTypes
<1>1. /\ UNCHANGED <<reqs, discards, edges, served, log, taken, nulls, delivered>>
      /\ has_error' \in BOOLEAN
  BY <1>0 DEF read_packet, TypeOK
<1>2. id \in 1 .. Len(log) /\ id \in Ids /\ nread \in Nat /\ id <= Len(log) /\ id # nread
  <2>1. id \in 1 .. Len(log) /\ id \in Ids
    BY <1>0, ReadDoes DEF ReadEffect
  <2>2. nread \in Nat /\ Len(log) \in Nat
    BY <1>0, LenProperties DEF TypeOK
  <2> QED
    BY <2>1, <2>2
<1>3. PICK c \in {current_reply, <<>>}, l \in {lost, lost \cup Elems(current_reply)} :
         PutAway(c, l) /\ PutNew(c, l, id)
  BY <1>0, ReadDoes DEF ReadEffect
<1>4. request_read' \in Nat
  BY <1>0 DEF TypeOK
<1>5. PICK forgotten \in Answers!Forgettable :
         /\ Boxes(replies', c, request_read') = Without(boxes, forgotten)
         /\ l = lost \cup UNION {Answers!ToSet(boxes[n]) : n \in forgotten}
  BY <1>3, <1>4, PutAwayBoxes
<1>6. /\ Inbox = boxes /\ Inbox' = Boxes(replies', current_reply', request_read')
      /\ IdsOf(delivered)' = IdsOf(delivered)
  BY <1>0, <1>1, InboxIs
<1> DEFINE left == [n \in 1 .. MaxRequest |-> IF n \in forgotten THEN <<>> ELSE Inbox[n]]
           gone == UNION {Answers!ToSet(Inbox[n]) : n \in forgotten}
<1>7. Boxes(replies', c, request_read') = left /\ l = lost \cup gone
  BY <1>5, <1>6 DEF Without
<1>8. /\ id \in Elems(current_reply') => has_error' \/ "inbox" \in Answers!Places(id)
      /\ id \in Queued(events') => has_error' \/ "queue" \in Answers!Places(id)
      /\ id \in dropped' => "dropped" \in Answers!Places(id)
      /\ id \in lost' => has_error'
      /\ nread' = nread => has_error'
  BY ArrivesRight
<1> HIDE DEF boxes, left, gone, id
<1>9. ASSUME nread' = id,
             NEW place \in Answers!Places(id) \cup (IF has_error' THEN Answers!Failure(id) ELSE {}),
             Inbox' = IF place = "inbox" THEN Answers!Put(left, log[id].of, id) ELSE left,
             IdsOf(events)' = IF place = "queue" THEN Append(IdsOf(events), id) ELSE IdsOf(events),
             dropped' = IF place = "dropped" THEN dropped \cup {id} ELSE dropped,
             lost' = (lost \cup gone) \cup (IF place = "lost" THEN {id} ELSE {})
      PROVE  Answers!Arrive(forgotten)
  BY <1>1, <1>2, <1>6, <1>9 DEF Answers!Arrive, Answers!MayFail, Answers!asked, Answers!server,
     Answers!given, left, gone, id
<1>10. CASE /\ nread' = nread /\ current_reply' = c /\ lost' = l /\ UNCHANGED <<events, dropped>>
  <2>1. has_error' /\ Inbox' = left /\ lost' = lost \cup gone /\ IdsOf(events)' = IdsOf(events)
    BY <1>6, <1>7, <1>8, <1>10
  <2>2. Answers!Fail(forgotten)
    BY <1>1, <1>6, <1>10, <2>1 DEF Answers!Fail, Answers!asked, Answers!server, Answers!given,
       left, gone
  <2> QED
    BY <2>2
<1>11. CASE /\ nread' = id /\ lost' = l /\ UNCHANGED <<events, dropped>>
            /\ current_reply' = Append(c, id) /\ log[id].type \in {"reply", "error"}
  <2>1. c \in Seq(Ids)
    <3>1. current_reply \in Seq(Ids) /\ <<>> \in Seq(Ids)
      BY <1>0, EmptySeq DEF TypeOK
    <3> QED
      BY <3>1
  <2>2. id \in Elems(current_reply')
    BY <1>2, <1>11, <2>1, ElemsAppend
  <2>3. "inbox" \in Answers!Places(id) \cup (IF has_error' THEN Answers!Failure(id) ELSE {})
    BY <1>8, <1>11, <2>2 DEF Answers!Failure
  <2>4. request_read' = log[id].of /\ request_read' \in 1 .. MaxRequest
    <3>1. request_read' = log[id].of
      BY <1>0, <1>11, ReadNumber DEF id
    <3>2. request_read' \in 0 .. MaxRequest
      <4>1. log[id].of <= served
        BY <1>0, <1>2 DEF SeqInv, WindowInv, LogOrdered
      <4>2. served \in 0 .. out_request /\ out_request \in 0 .. MaxRequest
        BY <1>0 DEF TypeOK
      <4> QED
        BY <1>4, <3>1, <4>1, <4>2, ReplyAssumption
    <3>3. log[id].of > 0
      BY <1>0, <1>2, <1>11 DEF LogSound
    <3> QED
      BY <3>1, <3>2, <3>3
  <2>5. Boxes(replies', Append(c, id), request_read')
          = SetBox(Boxes(replies', c, request_read'), request_read', Append(c, id))
    BY <2>4, BoxesCurrent
  <2>6. left[request_read'] = c
    <3>1. Boxes(replies', c, request_read')[request_read'] = c
      BY <2>4, BoxesCurrent
    <3> QED
      BY <1>7, <3>1
  <2>7. Inbox' = Answers!Put(left, log[id].of, id)
    BY <1>6, <1>7, <1>11, <2>4, <2>5, <2>6 DEF SetBox, Answers!Put
  <2>8. IdsOf(events)' = IdsOf(events) /\ lost' = (lost \cup gone) \cup {}
    BY <1>7, <1>11
  <2>9. Answers!Arrive(forgotten)
    BY <1>9, <1>11, <2>3, <2>7, <2>8
  <2> QED
    BY <2>9
<1>12. CASE /\ nread' = id /\ current_reply' = c /\ lost' = l /\ UNCHANGED dropped
            /\ events' = Append(events, [id |-> id, full_sequence |-> Cookie(request_read')])
  <2> DEFINE e == [id |-> id, full_sequence |-> Cookie(request_read')]
  <2>1. events \in Seq(Event) /\ e \in Event /\ e.id = id
    <3>1. Cookie(request_read') \in Nat
      BY <1>4, CookieType
    <3> QED
      BY <1>0, <1>2, <3>1 DEF TypeOK, Event
  <2> HIDE DEF e
  <2>2. events' = Append(events, e)
    BY <1>12 DEF e
  <2>3. IdsOf(events)' = Append(IdsOf(events), id)
    BY <2>1, <2>2, IdsPut
  <2>4. id \in Queued(events')
    BY <2>1, <2>2, QueuePut
  <2>5. "queue" \in Answers!Places(id) \cup (IF has_error' THEN Answers!Failure(id) ELSE {})
    BY <1>8, <2>4 DEF Answers!Failure
  <2>6. Inbox' = left /\ lost' = (lost \cup gone) \cup {}
    BY <1>6, <1>7, <1>12
  <2>7. Answers!Arrive(forgotten)
    BY <1>9, <1>12, <2>3, <2>5, <2>6
  <2> QED
    BY <2>7
<1>13. CASE /\ nread' = id /\ current_reply' = c /\ lost' = l /\ UNCHANGED events
            /\ dropped' = dropped \cup {id}
  <2>1. "dropped" \in Answers!Places(id)
    BY <1>8, <1>13
  <2>2. /\ Inbox' = left /\ lost' = (lost \cup gone) \cup {} /\ IdsOf(events)' = IdsOf(events)
    BY <1>6, <1>7, <1>13
  <2>3. Answers!Arrive(forgotten)
    BY <1>9, <1>13, <2>1, <2>2
  <2> QED
    BY <2>3
<1>14. CASE /\ nread' = id /\ current_reply' = c /\ UNCHANGED <<events, dropped>>
            /\ lost' = l \cup {id}
  <2>1. has_error'
    BY <1>8, <1>14
  <2>2. "lost" \in Answers!Places(id) \cup (IF has_error' THEN Answers!Failure(id) ELSE {})
    BY <2>1 DEF Answers!Failure
  <2>3. /\ Inbox' = left /\ lost' = (lost \cup gone) \cup {id} /\ IdsOf(events)' = IdsOf(events)
    BY <1>6, <1>7, <1>14
  <2>4. Answers!Arrive(forgotten)
    BY <1>9, <1>14, <2>2, <2>3
  <2> QED
    BY <2>4
<1> QED
  BY <1>3, <1>10, <1>11, <1>12, <1>13, <1>14 DEF PutNew

\* Every step of XcbReply is one of XcbAnswers or changes nothing there.
LEMMA RefinesStep ==
    ASSUME NoWrap, Careful, ResponseInv, ResponseInv', [Next]_vars
    PROVE  [Answers!Next /\ (has_error => has_error')]_(Answers!vars)
<1>0. /\ MaxRequest < Seq32 /\ TypeOK /\ TypeOK' /\ SeqInv /\ LogSound /\ out_request \in 0 .. MaxRequest
  BY RefineTypes DEF TypeOK
<1>1. has_error => has_error'
  BY <1>0, OnlyAdded
<1>2. CASE \/ \E req \in Shapes : xcb_send_request(req)
           \/ send_refused \/ take_socket_failed
           \/ \E flags \in OwnerFlags : xcb_take_socket(flags)
           \/ \E batch \in Batches : xcb_writev(batch)
  BY <1>0, <1>1, <1>2, RefinesIssue DEF Answers!Next
<1>3. CASE \E outcome \in ReadOutcomes, stored \in MapOk : read_packet(outcome, stored)
  BY <1>1, <1>3, RefinesRead DEF Answers!Next
<1>4. CASE \E n \in 1 .. out_request, stored \in MapOk : xcb_poll_for_reply(n, stored)
  <2>1. PICK n \in 1 .. out_request, stored \in MapOk : xcb_poll_for_reply(n, stored)
    BY <1>4
  <2>2. n \in 1 .. MaxRequest
    BY <1>0, ReplyAssumption
  <2> QED
    BY <1>1, <2>1, <2>2, RefinesPoll DEF Answers!Next
<1>5. CASE \E n \in 1 .. out_request, ok \in MemOk : xcb_discard_reply(n, ok)
  <2>1. PICK n \in 1 .. out_request, ok \in MemOk : xcb_discard_reply(n, ok)
    BY <1>5
  <2>2. n \in 1 .. MaxRequest
    BY <1>0, ReplyAssumption
  <2> QED
    BY <1>0, <1>1, <2>1, <2>2, RefinesDiscard DEF Answers!Next
<1>6. CASE get_event
  BY <1>0, <1>1, <1>6, RefinesGetEvent DEF Answers!Next
<1>7. CASE serve \/ more_replies \/ send_event
  BY <1>0, <1>1, <1>7, RefinesRespond DEF Answers!Next
<1>8. CASE UNCHANGED vars
  <2>1. /\ UNCHANGED <<reqs, discards, edges, served, log, nread, taken, nulls, delivered, dropped,
                       lost, has_error, events, current_reply, replies, request_read>>
    BY <1>8 DEF vars, seqvars, listvars, netvars, readvars, ghosts
  <2>2. Inbox' = Inbox /\ IdsOf(events)' = IdsOf(events) /\ IdsOf(delivered)' = IdsOf(delivered)
    BY <1>0, <2>1, InboxIs
  <2> QED
    BY <2>1, <2>2 DEF Answers!vars
<1> QED
  BY <1>2, <1>3, <1>4, <1>5, <1>6, <1>7, <1>8 DEF Next

\* XCB sorts responses by 16-bit numbers, keeps them in a map under 32-bit
\* cookies and remembers in a list of pending replies what each request asked
\* for (xcb_in.c): for the application this is one inbox for every request and
\* one queue of events.  NoWrap and Careful say what that takes.
THEOREM RepliesRefineAnswers ==
    ASSUME OwnerContract = "expected", NoWrap, Careful
    PROVE  Spec => Implements
<1>1. Init => ResponseInv
  BY ResponseInit
<1>2. ResponseInv /\ [Next]_vars => ResponseInv'
  BY ResponseStep
<1>3. Init => Answers!Init
  <2>1. MaxRequest < Seq32
    BY ReplyAssumption, WidthAssumption DEF NoWrap
  <2> QED
    BY <2>1, RefinesInit
<1>4. ResponseInv /\ ResponseInv' /\ [Next]_vars
        => [Answers!Next /\ (has_error => has_error')]_(Answers!vars)
  BY RefinesStep
<1> QED
  BY <1>1, <1>2, <1>3, <1>4, PTL DEF Spec, Implements, Answers!Spec
=============================================================================
