--------------------------- MODULE XcbReplyProofs ---------------------------
(***************************************************************************)
(* For every width of the sequence numbers and every number of requests:   *)
(* read_packet recovers the request number of each response exactly, and   *)
(* the type invariant holds.  The latter says in particular that           *)
(* request_completed, which is computed as request_read - 1, never goes    *)
(* below 0, and that the list operations of xcb_in.c stay in their lists.  *)
(***************************************************************************)
EXTENDS XcbReply, SequenceTheorems, WellFoundedInduction, TLAPS

-----------------------------------------------------------------------------
(* Widening a 16-bit number                                                *)

\* A number is its window plus its low bits.
LEMMA DivMod ==
    ASSUME NEW x \in Nat
    PROVE  /\ x = (x \div Seq16) * Seq16 + (x % Seq16)
           /\ x % Seq16 \in 0 .. Seq16 - 1
           /\ x \div Seq16 \in Nat
  BY WidthAssumption, Z3

\* Numbers less than a window apart lie in the same window or in adjacent
\* ones.
LEMMA NextWindow ==
    ASSUME NEW q \in Nat, NEW k \in Nat, NEW u \in 0 .. Seq16 - 1, NEW v \in 0 .. Seq16 - 1,
           q * Seq16 + u <= k * Seq16 + v,
           k * Seq16 + v < q * Seq16 + u + Seq16
    PROVE  k = q \/ k = q + 1
<1>1. CASE k < q
  <2>1. (q - k) \in Nat /\ q - k >= 1
    BY <1>1
  <2>2. (q - k) * Seq16 >= Seq16
    BY <2>1, WidthAssumption
  <2>3. (q - k) * Seq16 = q * Seq16 - k * Seq16
    BY WidthAssumption
  <2> QED
    BY <2>2, <2>3, WidthAssumption
<1>2. CASE k > q + 1
  <2>1. (k - q) \in Nat /\ k - q >= 2
    BY <1>2
  <2>2. (k - q) * Seq16 >= 2 * Seq16
    BY <2>1, WidthAssumption
  <2>3. (k - q) * Seq16 = k * Seq16 - q * Seq16
    BY WidthAssumption
  <2> QED
    BY <2>2, <2>3, WidthAssumption
<1> QED
  BY <1>1, <1>2

\* read_packet finds the number of a response that lies less than a window
\* after the one read before it.
LEMMA WidenExact ==
    ASSUME NEW l \in Nat, NEW s \in Nat, l <= s, s < l + Seq16
    PROVE  WidenSequence(l, s % Seq16) = s
<1> DEFINE q == l \div Seq16
           u == l % Seq16
           k == s \div Seq16
           v == s % Seq16
<1>1. l = q * Seq16 + u /\ u \in 0 .. Seq16 - 1 /\ q \in Nat
  BY DivMod
<1>2. s = k * Seq16 + v /\ v \in 0 .. Seq16 - 1 /\ k \in Nat
  BY DivMod
<1> HIDE DEF q, u, k, v
<1>3. k = q \/ k = q + 1
  BY <1>1, <1>2, NextWindow
<1>4. WidenSequence(l, v) = IF q * Seq16 + v < l THEN q * Seq16 + v + Seq16
                            ELSE q * Seq16 + v
  BY DEF WidenSequence, q
<1>5. CASE k = q
  BY <1>1, <1>2, <1>4, <1>5, WidthAssumption DEF v
<1>6. CASE k = q + 1
  <2>1. k * Seq16 = q * Seq16 + Seq16
    BY <1>6, <1>1, WidthAssumption
  <2>2. q * Seq16 \in Nat
    BY <1>1, WidthAssumption
  <2>3. q * Seq16 + v < l
    BY <1>1, <1>2, <2>1, <2>2, WidthAssumption
  <2>4. WidenSequence(l, v) = s
    BY <1>4, <1>2, <2>1, <2>2, <2>3, WidthAssumption
  <2> QED
    BY <2>4 DEF v
<1> QED
  BY <1>3, <1>5, <1>6
-----------------------------------------------------------------------------
(* The window of requests without a response                               *)

\* The part of TypeOK that is about numbers, requests and responses.
SeqType ==
    /\ out_request \in Nat /\ request_expected \in Nat /\ request_read \in Nat
    /\ owner_flags \in SUBSET Flag
    /\ reqs \in Seq(Request) /\ Len(reqs) = out_request
    /\ served \in 0 .. out_request
    /\ log \in Seq([type : PacketType, of : Nat])
    /\ nread \in 0 .. Len(log)
    /\ actual_read \in Nat

SeqInv == SeqType /\ WindowInv

\* Steps that leave what SeqInv is about alone.
LEMMA SeqUnchanged ==
    ASSUME SeqInv,
           UNCHANGED <<out_request, request_expected, request_read, owner_flags,
                       reqs, served, log, nread, actual_read>>
    PROVE  SeqInv'
  BY DEF SeqInv, SeqType, WindowInv, LogOrdered, ExpectedSafe, NoLongSilence,
         SequenceExact, Anchors

\* Responses carry a number.
LEMMA LogElement ==
    ASSUME SeqInv, NEW i \in 1 .. Len(log)
    PROVE  log[i].of \in Nat
<1>1. log[i] \in [type : PacketType, of : Nat]
  BY ElementOfSeq DEF SeqInv, SeqType
<1> QED
  BY <1>1

\* The connection starts with an empty window.
LEMMA SeqInit == Init => SeqInv
<1> SUFFICES ASSUME Init PROVE SeqInv
  OBVIOUS
<1>1. SeqType
  BY DEF Init, SeqType
<1>2. request_read \in Anchors
  BY DEF Anchors
<1>3. LogOrdered /\ SequenceExact
  BY DEF Init, LogOrdered, SequenceExact
<1>4. ExpectedSafe
  BY <1>2, WidthAssumption DEF Init, ExpectedSafe
<1>5. NoLongSilence
  BY <1>2, WidthAssumption DEF Init, NoLongSilence
<1> QED
  BY <1>1, <1>3, <1>4, <1>5 DEF SeqInv, WindowInv

\* Requests are added behind those there are: what was an anchor stays one,
\* and a new request that has a reply becomes one.
LEMMA MoreRequests ==
    ASSUME SeqInv, NEW rs \in Seq(Request),
           reqs' = reqs \o rs, out_request' = out_request + Len(rs),
           UNCHANGED <<request_read, served, log, nread>>
    PROVE  /\ reqs' \in Seq(Request) /\ Len(reqs') = out_request'
           /\ out_request' \in Nat /\ served' \in 0 .. out_request'
           /\ Anchors \subseteq Anchors'
           /\ \A i \in 1 .. Len(rs) : ~rs[i].isvoid => out_request + i \in Anchors'
<1> USE DEF SeqInv, SeqType
<1>1. Len(rs) \in Nat
  OBVIOUS
<1>c. /\ reqs' \in Seq(Request)
      /\ Len(reqs') = Len(reqs) + Len(rs)
      /\ \A i \in 1 .. Len(reqs) + Len(rs) :
            reqs'[i] = IF i <= Len(reqs) THEN reqs[i] ELSE rs[i - Len(reqs)]
  <2> HIDE DEF SeqInv, SeqType
  <2> QED
    BY ConcatProperties DEF SeqInv, SeqType
<1>2. reqs' \in Seq(Request) /\ Len(reqs') = out_request'
  BY <1>c
<1>3. \A i \in 1 .. out_request : reqs'[i] = reqs[i]
  BY <1>1, <1>c
<1>4. \A i \in 1 .. Len(rs) : reqs'[out_request + i] = rs[i]
  BY <1>1, <1>c
<1>5. Anchors \subseteq Anchors'
  BY <1>1, <1>3 DEF Anchors
<1>6. \A i \in 1 .. Len(rs) : ~rs[i].isvoid => out_request + i \in Anchors'
  BY <1>1, <1>4 DEF Anchors
<1> QED
  BY <1>1, <1>2, <1>5, <1>6

\* xcb_send_request keeps the window open: a void request that would fill it
\* is preceded by a sync request.
LEMMA SendSafe ==
    ASSUME SeqInv, NEW req \in Shapes, xcb_send_request(req)
    PROVE  SeqInv'
<1> DEFINE sync == needs_sync(req.isvoid, out_request + 1)
           rs == IF sync THEN <<SyncRequest, req>> ELSE <<req>>
           request == IF sync THEN out_request + 2 ELSE out_request + 1
<1>1. req \in Request /\ SyncRequest \in Request
  BY ReplyAssumption DEF SyncRequest, Request, Flag
<1>2. rs \in Seq(Request) /\ Len(rs) = IF sync THEN 2 ELSE 1
  BY <1>1
<1>3. /\ reqs' = reqs \o rs
      /\ out_request' = request
      /\ request_expected' = IF ~req.isvoid THEN request
                             ELSE IF sync THEN request - 1 ELSE request_expected
      /\ owner_flags' = {}
      /\ UNCHANGED <<request_read, served, log, nread, actual_read>>
  BY DEF xcb_send_request, readvars
<1>4. out_request' = out_request + Len(rs)
  BY <1>2, <1>3 DEF SeqInv, SeqType
<1>5. /\ reqs' \in Seq(Request) /\ Len(reqs') = out_request'
      /\ out_request' \in Nat /\ served' \in 0 .. out_request'
      /\ Anchors \subseteq Anchors'
      /\ \A i \in 1 .. Len(rs) : ~rs[i].isvoid => out_request + i \in Anchors'
  <2> HIDE DEF rs
  <2> QED
    BY <1>2, <1>3, <1>4, MoreRequests
<1>6. SeqType'
  BY <1>3, <1>5 DEF SeqInv, SeqType, Flag
<1>7. LogOrdered' /\ SequenceExact'
  BY <1>3 DEF SeqInv, WindowInv, LogOrdered, SequenceExact
<1>8. sync => out_request + 1 \in Anchors'
  BY <1>2, <1>5 DEF SyncRequest
<1>9. ~req.isvoid => request \in Anchors'
  <2> SUFFICES ASSUME ~req.isvoid PROVE request \in Anchors'
    OBVIOUS
  <2>1. ~sync
    BY DEF needs_sync
  <2> QED
    BY <1>2, <1>5, <2>1
<1>10. request_expected' \in Anchors'
  BY <1>3, <1>5, <1>8, <1>9 DEF SeqInv, SeqType, WindowInv, ExpectedSafe
<1>11. ExpectedSafe'
  BY <1>3, <1>10, WidthAssumption
     DEF SeqInv, SeqType, WindowInv, ExpectedSafe, needs_sync
<1>12. NoLongSilence'
  <2> SUFFICES ASSUME NEW r \in request_read .. request
               PROVE  \E a \in Anchors' : a <= r /\ r <= a + Seq16 - 2
    BY <1>3 DEF NoLongSilence
  <2>1. CASE r <= out_request
    <3>1. r \in request_read .. out_request
      BY <2>1 DEF SeqInv, SeqType
    <3>2. \E a \in Anchors : a <= r /\ r <= a + Seq16 - 2
      BY <3>1 DEF SeqInv, WindowInv, NoLongSilence
    <3> QED
      BY <3>2, <1>5
  <2>2. CASE r > out_request
    <3>1. CASE sync
      BY <2>2, <3>1, <1>8, WidthAssumption DEF SeqInv, SeqType
    <3>2. CASE ~sync
      BY <2>2, <3>2, <1>3, <1>10, <1>11, WidthAssumption
         DEF SeqInv, SeqType, ExpectedSafe
    <3> QED
      BY <3>1, <3>2
  <2> QED
    BY <2>1, <2>2 DEF SeqInv, SeqType
<1> QED
  BY <1>6, <1>7, <1>11, <1>12 DEF SeqInv, WindowInv

\* A socket owner that keeps within the window XCB counts keeps it open.
LEMMA WritevSafe ==
    ASSUME SeqInv, OwnerContract = "expected", NEW batch \in Batches, xcb_writev(batch)
    PROVE  SeqInv'
<1> DEFINE rs == [i \in 1 .. Len(batch) |->
                    [isvoid |-> batch[i], flags |-> owner_flags,
                     workaround |-> "NONE", source |-> "owner"]]
<1>1. batch \in Seq(BOOLEAN) /\ Len(batch) \in Nat
  BY ReplyAssumption
<1>2. rs \in Seq(Request) /\ Len(rs) = Len(batch)
  <2>1. \A i \in 1 .. Len(batch) : rs[i] \in Request
    BY <1>1 DEF SeqInv, SeqType, Request
  <2> QED
    BY <1>1, <2>1, IsASeq
<1>3. /\ reqs' = reqs \o rs
      /\ out_request' = out_request + Len(rs)
      /\ Len(reqs \o rs) <= request_expected + Seq16 - 2
      /\ UNCHANGED <<owner_flags, request_expected, request_read, served, log,
                     nread, actual_read>>
  BY <1>2 DEF xcb_writev, Keeps, readvars, seqvars
<1>4. /\ reqs' \in Seq(Request) /\ Len(reqs') = out_request'
      /\ out_request' \in Nat /\ served' \in 0 .. out_request'
      /\ Anchors \subseteq Anchors'
  <2> HIDE DEF rs
  <2> QED
    BY <1>2, <1>3, MoreRequests
<1> HIDE DEF rs
<1>5. SeqType'
  BY <1>3, <1>4 DEF SeqInv, SeqType
<1>6. LogOrdered' /\ SequenceExact'
  BY <1>3 DEF SeqInv, WindowInv, LogOrdered, SequenceExact
<1>7. ExpectedSafe'
  BY <1>2, <1>1, <1>3, <1>4 DEF SeqInv, SeqType, WindowInv, ExpectedSafe
<1>8. NoLongSilence'
  <2> SUFFICES ASSUME NEW r \in request_read .. out_request'
               PROVE  \E a \in Anchors' : a <= r /\ r <= a + Seq16 - 2
    BY <1>3 DEF NoLongSilence
  <2>1. CASE r <= out_request
    <3>1. r \in request_read .. out_request
      BY <2>1 DEF SeqInv, SeqType
    <3>2. \E a \in Anchors : a <= r /\ r <= a + Seq16 - 2
      BY <3>1 DEF SeqInv, WindowInv, NoLongSilence
    <3> QED
      BY <3>2, <1>4
  <2>2. CASE r > out_request
    BY <2>2, <1>3, <1>4, <1>7, WidthAssumption
       DEF SeqInv, SeqType, WindowInv, ExpectedSafe
  <2> QED
    BY <2>1, <2>2, <1>4 DEF SeqInv, SeqType
<1> QED
  BY <1>5, <1>6, <1>7, <1>8 DEF SeqInv, WindowInv

\* The server appends responses to the request it works on; a request that
\* has a reply is not passed over.
LEMMA ServerSafe ==
    ASSUME SeqInv, NEW ps \in Seq([type : PacketType, of : Nat]),
           log' = log \o ps,
           served' \in {served, served + 1}, served' <= out_request,
           \A i \in 1 .. Len(ps) : ps[i].of = served',
           served' # served /\ ~reqs[served'].isvoid =>
               \E i \in 1 .. Len(ps) : ps[i].type # "keymap",
           UNCHANGED <<out_request, request_expected, request_read, owner_flags,
                       reqs, nread, actual_read>>
    PROVE  SeqInv'
<1>1. /\ log' \in Seq([type : PacketType, of : Nat])
      /\ Len(log') = Len(log) + Len(ps)
      /\ \A i \in 1 .. Len(log) + Len(ps) :
            log'[i] = IF i <= Len(log) THEN log[i] ELSE ps[i - Len(log)]
  BY ConcatProperties DEF SeqInv, SeqType
<1>2. /\ Len(log) \in Nat /\ Len(ps) \in Nat
      /\ \A i \in 1 .. Len(log) : log'[i] = log[i]
      /\ \A i \in 1 .. Len(ps) : log'[Len(log) + i] = ps[i]
      /\ \A i \in Len(log) + 1 .. Len(log') : log'[i].of = served'
  <2>1. Len(log) \in Nat /\ Len(ps) \in Nat
    BY DEF SeqInv, SeqType
  <2>2. \A i \in 1 .. Len(log) : log'[i] = log[i]
    BY <1>1, <2>1
  <2>3. \A i \in 1 .. Len(ps) : log'[Len(log) + i] = ps[i]
    BY <1>1, <2>1
  <2>4. \A i \in Len(log) + 1 .. Len(log') :
            i - Len(log) \in 1 .. Len(ps) /\ log'[i] = ps[i - Len(log)]
    BY <1>1, <2>1
  <2> QED
    BY <2>1, <2>2, <2>3, <2>4
<1>3. SeqType'
  BY <1>1, <1>2 DEF SeqInv, SeqType
<1>4. served \in Nat /\ served' \in Nat /\ served <= served'
  BY DEF SeqInv, SeqType
<1>5. LogOrdered'
  <2>1. \A i \in 1 .. Len(log') : log'[i].of <= served'
    <3> SUFFICES ASSUME NEW i \in 1 .. Len(log') PROVE log'[i].of <= served'
      OBVIOUS
    <3>1. CASE i <= Len(log)
      <4>1. i \in 1 .. Len(log) /\ log'[i] = log[i]
        BY <3>1, <1>1, <1>2
      <4>2. log[i].of \in Nat /\ log[i].of <= served
        BY <4>1, LogElement DEF SeqInv, WindowInv, LogOrdered
      <4> QED
        BY <4>1, <4>2, <1>4
    <3>2. CASE i > Len(log)
      <4>1. i \in Len(log) + 1 .. Len(log')
        BY <3>2, <1>1, <1>2
      <4> QED
        BY <4>1, <1>2, <1>4
    <3> QED
      BY <3>1, <3>2, <1>2
  <2>2. \A i, j \in 1 .. Len(log') : i <= j => log'[i].of <= log'[j].of
    <3> SUFFICES ASSUME NEW i \in 1 .. Len(log'), NEW j \in 1 .. Len(log'), i <= j
                 PROVE  log'[i].of <= log'[j].of
      OBVIOUS
    <3>1. CASE j <= Len(log)
      <4>1. i \in 1 .. Len(log) /\ j \in 1 .. Len(log)
        BY <3>1, <1>1, <1>2
      <4>2. log'[i] = log[i] /\ log'[j] = log[j]
        BY <4>1, <1>2
      <4>3. log[i].of <= log[j].of
        BY <4>1 DEF SeqInv, WindowInv, LogOrdered
      <4> QED
        BY <4>2, <4>3
    <3>2. CASE j > Len(log)
      <4>1. j \in Len(log) + 1 .. Len(log')
        BY <3>2, <1>1, <1>2
      <4>2. log'[j].of = served'
        BY <4>1, <1>2
      <4> QED
        BY <4>2, <2>1
    <3> QED
      BY <3>1, <3>2, <1>1, <1>2
  <2>3. request_read' <= served'
    BY <1>4 DEF SeqInv, SeqType, WindowInv, LogOrdered
  <2>4. \A i \in nread' + 1 .. Len(log') :
            log'[i].type # "keymap" => request_read' <= log'[i].of
    <3> SUFFICES ASSUME NEW i \in nread + 1 .. Len(log'), log'[i].type # "keymap"
                 PROVE  request_read <= log'[i].of
      OBVIOUS
    <3>1. CASE i <= Len(log)
      BY <3>1, <1>1, <1>2 DEF SeqInv, SeqType, WindowInv, LogOrdered
    <3>2. CASE i > Len(log)
      <4>1. i \in Len(log) + 1 .. Len(log')
        BY <3>2, <1>1, <1>2 DEF SeqInv, SeqType
      <4>2. log'[i].of = served'
        BY <4>1, <1>2
      <4> QED
        BY <4>2, <2>3
    <3> QED
      BY <3>1, <3>2, <1>1, <1>2 DEF SeqInv, SeqType
  <2> QED
    BY <2>1, <2>2, <2>3, <2>4 DEF LogOrdered
<1>6. Anchors \subseteq Anchors'
  <2> SUFFICES ASSUME NEW a \in Anchors PROVE a \in Anchors'
    OBVIOUS
  <2>1. CASE a = request_read
    BY <2>1 DEF Anchors
  <2>2. CASE \E i \in nread + 1 .. Len(log) : log[i].type # "keymap" /\ a = log[i].of
    <3>1. PICK i \in nread + 1 .. Len(log) : log[i].type # "keymap" /\ a = log[i].of
      BY <2>2
    <3>2. i \in nread' + 1 .. Len(log') /\ log'[i] = log[i]
      BY <1>1, <1>2 DEF SeqInv, SeqType
    <3> QED
      BY <3>1, <3>2 DEF Anchors
  <2>3. CASE a \in served + 1 .. out_request /\ ~reqs[a].isvoid
    <3>1. CASE a = served'
      <4>1. PICK i \in 1 .. Len(ps) : ps[i].type # "keymap"
        BY <2>3, <3>1, <1>4
      <4>2. /\ Len(log) + i \in nread' + 1 .. Len(log')
            /\ log'[Len(log) + i] = ps[i]
        BY <1>1, <1>2 DEF SeqInv, SeqType
      <4> QED
        BY <3>1, <4>1, <4>2 DEF Anchors
    <3>2. CASE a # served'
      BY <2>3, <3>2, <1>4 DEF Anchors, SeqInv, SeqType
    <3> QED
      BY <3>1, <3>2
  <2> QED
    BY <2>1, <2>2, <2>3 DEF Anchors
<1>7. ExpectedSafe' /\ NoLongSilence' /\ SequenceExact'
  BY <1>6 DEF SeqInv, WindowInv, ExpectedSafe, NoLongSilence, SequenceExact
<1> QED
  BY <1>3, <1>5, <1>7 DEF SeqInv, WindowInv

\* The next response lies within the window: the numbers between the response
\* read last and this one are those of void requests without a response.
LEMMA NextResponseInWindow ==
    ASSUME SeqInv, nread < Len(log), log[nread + 1].type # "keymap"
    PROVE  LET s == log[nread + 1].of
           IN  s \in Nat /\ request_read <= s /\ s <= served /\ s < request_read + Seq16
<1> DEFINE s == log[nread + 1].of
<1>1. nread + 1 \in 1 .. Len(log) /\ nread \in Nat /\ Len(log) \in Nat
  BY DEF SeqInv, SeqType
<1>2. s \in Nat /\ request_read <= s /\ s <= served
  <2>1. nread + 1 \in nread + 1 .. Len(log)
    BY <1>1
  <2> QED
    BY <1>1, <2>1, LogElement DEF SeqInv, WindowInv, LogOrdered
<1>3. \A i \in nread + 1 .. Len(log) : s <= log[i].of
  BY <1>1 DEF SeqInv, WindowInv, LogOrdered
<1>4. s < request_read + Seq16
  <2>1. CASE s = request_read
    BY <2>1, WidthAssumption DEF SeqInv, SeqType
  <2>2. CASE s # request_read
    <3>1. s - 1 \in request_read .. out_request
      BY <2>2, <1>2 DEF SeqInv, SeqType
    <3>2. PICK a \in Anchors : a <= s - 1 /\ s - 1 <= a + Seq16 - 2
      BY <3>1 DEF SeqInv, WindowInv, NoLongSilence
    <3>3. a = request_read
      <4>1. ~ s <= a
        BY <3>2, <1>2 DEF Anchors, SeqInv, SeqType
      <4>2. a \notin served + 1 .. out_request
        BY <4>1, <1>2 DEF SeqInv, SeqType
      <4> QED
        BY <3>2, <4>1, <4>2, <1>3 DEF Anchors
    <3> QED
      BY <3>2, <3>3, <1>2, WidthAssumption DEF SeqInv, SeqType
  <2> QED
    BY <2>1, <2>2
<1> QED
  BY <1>2, <1>4

\* What is unread and not the next response stays unread.
LEMMA Unread ==
    ASSUME NEW n \in Nat, NEW m \in {n, n + 1}, NEW l \in Nat,
           NEW i \in n + 1 .. l, i # n + 1
    PROVE  i \in m + 1 .. l
  OBVIOUS

\* read_packet: the number is widened exactly and the window moves with it.
LEMMA ReadSafe ==
    ASSUME SeqInv, NEW outcome \in ReadOutcomes, NEW stored \in MapOk,
           read_packet(outcome, stored)
    PROVE  SeqInv'
<1> DEFINE p == log[nread + 1]
<1>1. /\ nread < Len(log)
      /\ request_read' = next_read(p)
      /\ actual_read' = IF p.type = "keymap" THEN actual_read ELSE p.of
      /\ request_expected' = IF next_read(p) > request_expected THEN next_read(p)
                             ELSE request_expected
      /\ nread' \in {nread, nread + 1}
      /\ UNCHANGED <<out_request, owner_flags, reqs, served, log>>
  BY DEF read_packet, outvars
<1>2. /\ nread \in Nat /\ nread' \in Nat /\ Len(log) \in Nat
      /\ nread' <= Len(log) /\ nread + 1 \in 1 .. Len(log)
  BY <1>1 DEF SeqInv, SeqType
<1>3. CASE p.type = "keymap"
  <2>1. UNCHANGED <<request_read, request_expected, actual_read>>
    BY <1>1, <1>3 DEF next_read, SeqInv, SeqType, WindowInv, ExpectedSafe
  <2>2. SeqType'
    BY <1>1, <1>2, <2>1 DEF SeqInv, SeqType
  <2>3. \A i \in nread + 1 .. Len(log) : log[i].type # "keymap" => i \in nread' + 1 .. Len(log)
    BY <1>1, <1>2, <1>3
  <2>4. Anchors \subseteq Anchors'
    BY <1>1, <2>1, <2>3 DEF Anchors
  <2>5. LogOrdered'
    <3>1. nread' + 1 .. Len(log) \subseteq nread + 1 .. Len(log)
      BY <1>1, <1>2
    <3> QED
      BY <1>1, <2>1, <3>1 DEF SeqInv, WindowInv, LogOrdered
  <2>6. ExpectedSafe' /\ NoLongSilence' /\ SequenceExact'
    BY <1>1, <2>1, <2>4
       DEF SeqInv, WindowInv, ExpectedSafe, NoLongSilence, SequenceExact
  <2> QED
    BY <2>2, <2>5, <2>6 DEF SeqInv, WindowInv
<1>4. CASE p.type # "keymap"
  <2>1. /\ p.of \in Nat /\ request_read <= p.of /\ p.of <= served
        /\ p.of < request_read + Seq16
    BY <1>1, <1>4, NextResponseInWindow
  <2>2. next_read(p) = p.of
    <3>1. WidenSequence(request_read, p.of % Seq16) = p.of
      BY <2>1, WidenExact DEF SeqInv, SeqType
    <3> QED
      BY <3>1, <1>4 DEF next_read
  <2>3. SequenceExact'
    BY <1>1, <1>4, <2>2 DEF SequenceExact
  <2>4. SeqType'
    BY <1>1, <1>2, <1>4, <2>1, <2>2 DEF SeqInv, SeqType
  <2>5. LogOrdered'
    <3>1. \A i \in nread' + 1 .. Len(log) : p.of <= log[i].of
      BY <1>1, <1>2 DEF SeqInv, WindowInv, LogOrdered
    <3> QED
      BY <3>1, <1>1, <2>1, <2>2 DEF SeqInv, WindowInv, LogOrdered
  <2>6. p.of \in Anchors'
    BY <1>1, <2>2 DEF Anchors
  <2>7. \A a \in Anchors : a # request_read => a \in Anchors'
    <3> SUFFICES ASSUME NEW a \in Anchors, a # request_read, a # p.of
                 PROVE  a \in Anchors'
      BY <2>6
    <3>1. CASE a \in served + 1 .. out_request /\ ~reqs[a].isvoid
      BY <3>1, <1>1 DEF Anchors
    <3>2. CASE \E i \in nread + 1 .. Len(log) : log[i].type # "keymap" /\ a = log[i].of
      <4>1. PICK i \in nread + 1 .. Len(log) : log[i].type # "keymap" /\ a = log[i].of
        BY <3>2
      <4>2. i # nread + 1
        BY <4>1
      <4>3. i \in nread' + 1 .. Len(log)
        BY <4>2, <1>1, <1>2, Unread
      <4> QED
        BY <4>1, <4>3, <1>1 DEF Anchors
    <3> QED
      BY <3>1, <3>2 DEF Anchors
  <2>8. ExpectedSafe'
    <3>1. CASE p.of >= request_expected
      <4>1. /\ request_expected' = p.of /\ out_request' = out_request
            /\ request_read' = p.of
        BY <3>1, <1>1, <2>1, <2>2 DEF SeqInv, SeqType
      <4>2. out_request <= request_expected + Seq16 - 2 /\ request_expected \in Nat
        BY DEF SeqInv, SeqType, WindowInv, ExpectedSafe
      <4>3. out_request \in Nat /\ served \in Nat /\ served <= out_request /\ Seq16 \in Nat
        BY WidthAssumption DEF SeqInv, SeqType
      <4>4. out_request <= p.of + Seq16 - 2
        BY <4>2, <4>3, <3>1, <2>1
      <4>5. p.of <= p.of /\ p.of <= out_request
        BY <4>3, <2>1
      <4> QED
        BY <4>1, <4>4, <4>5, <2>6 DEF ExpectedSafe
    <3>2. CASE p.of < request_expected
      BY <3>2, <1>1, <2>1, <2>2, <2>7
         DEF SeqInv, SeqType, WindowInv, ExpectedSafe
    <3> QED
      BY <3>1, <3>2, <2>1 DEF SeqInv, SeqType
  <2>9. NoLongSilence'
    <3> SUFFICES ASSUME NEW r \in p.of .. out_request
                 PROVE  \E a \in Anchors' : a <= r /\ r <= a + Seq16 - 2
      BY <1>1, <2>2 DEF NoLongSilence
    <3>1. r \in request_read .. out_request
      BY <2>1 DEF SeqInv, SeqType
    <3>2. PICK a \in Anchors : a <= r /\ r <= a + Seq16 - 2
      BY <3>1 DEF SeqInv, WindowInv, NoLongSilence
    <3>3. CASE a = request_read
      BY <3>2, <3>3, <2>1, <2>6, WidthAssumption DEF SeqInv, SeqType
    <3>4. CASE a # request_read
      BY <3>2, <3>4, <2>7
    <3> QED
      BY <3>3, <3>4
  <2> QED
    BY <2>3, <2>4, <2>5, <2>8, <2>9 DEF SeqInv, WindowInv
<1> QED
  BY <1>3, <1>4

\* Every step keeps the window open.
LEMMA SeqStep ==
    ASSUME SeqInv, OwnerContract = "expected", [Next]_vars
    PROVE  SeqInv'
<1>1. CASE \E req \in Shapes : xcb_send_request(req)
  BY <1>1, SendSafe
<1>2. CASE send_refused
  BY <1>2, SeqUnchanged DEF send_refused, outvars, seqvars, netvars, readvars
<1>3. CASE \E flags \in OwnerFlags : xcb_take_socket(flags)
  <2>1. PICK flags \in OwnerFlags : xcb_take_socket(flags)
    BY <1>3
  <2>2. /\ owner_flags' = flags
        /\ UNCHANGED <<out_request, request_expected, request_read, reqs, served,
                       log, nread, actual_read>>
    BY <2>1 DEF xcb_take_socket, seqvars, netvars, readvars
  <2>3. flags \in SUBSET Flag
    BY <2>1, ReplyAssumption
  <2> QED
    BY <2>2, <2>3 DEF SeqInv, SeqType, WindowInv, LogOrdered, ExpectedSafe,
                      NoLongSilence, SequenceExact, Anchors
<1>4. CASE \E batch \in Batches : xcb_writev(batch)
  BY <1>4, WritevSafe
<1>5. CASE \E outcome \in ReadOutcomes, stored \in MapOk : read_packet(outcome, stored)
  BY <1>5, ReadSafe
<1>6. CASE \E n \in 1 .. out_request, stored \in MapOk : xcb_poll_for_reply(n, stored)
  BY <1>6, SeqUnchanged DEF xcb_poll_for_reply, outvars, seqvars, netvars, readvars
<1>7. CASE \E n \in 1 .. out_request, ok \in MemOk : xcb_discard_reply(n, ok)
  BY <1>7, SeqUnchanged DEF xcb_discard_reply, outvars, seqvars, netvars, readvars
<1>8. CASE get_event
  BY <1>8, SeqUnchanged DEF get_event, outvars, seqvars, netvars, readvars
<1>9. CASE serve
  <2> DEFINE P == [type : PacketType, of : Nat]
  <2>1. PICK ps \in {<<>>, <<Packet("reply", served + 1)>>, <<Packet("error", served + 1)>>} :
           /\ ServerStep(ps)
           /\ ~reqs[served + 1].isvoid => ps # <<>>
    BY <1>9 DEF serve
  <2>2. served' = served + 1 /\ served' <= out_request /\ served \in Nat
    BY <1>9 DEF serve, SeqInv, SeqType
  <2>3. /\ ps \in Seq(P)
        /\ \A i \in 1 .. Len(ps) : ps[i].of = served' /\ ps[i].type # "keymap"
        /\ ps # <<>> => 1 \in 1 .. Len(ps)
    <3>1. CASE ps = <<>>
      BY <3>1
    <3>2. CASE \E type \in {"reply", "error"} : ps = <<Packet(type, served + 1)>>
      <4>1. PICK type \in {"reply", "error"} : ps = <<Packet(type, served + 1)>>
        BY <3>2
      <4>2. Packet(type, served + 1) \in P
        BY <2>2 DEF Packet, PacketType
      <4>3. Len(ps) = 1 /\ ps[1] = Packet(type, served + 1) /\ ps \in Seq(P)
        BY <4>1, <4>2
      <4> QED
        BY <4>3, <2>2 DEF Packet
    <3> QED
      BY <3>1, <3>2, <2>1
  <2>4. /\ log' = log \o ps
        /\ UNCHANGED <<out_request, request_expected, request_read, owner_flags,
                       reqs, nread, actual_read>>
    BY <2>1 DEF ServerStep, outvars, seqvars, readvars
  <2> QED
    BY <2>1, <2>2, <2>3, <2>4, ServerSafe
<1>10. CASE more_replies \/ send_event
  <2> DEFINE P == [type : PacketType, of : Nat]
  <2>1. PICK type \in PacketType : ServerStep(<<Packet(type, served)>>)
    BY <1>10, ReplyAssumption DEF more_replies, send_event, PacketType
  <2>2. served' = served /\ served \in Nat /\ served <= out_request
    BY <1>10 DEF more_replies, send_event, SeqInv, SeqType
  <2>3. /\ <<Packet(type, served)>> \in Seq(P)
        /\ \A i \in 1 .. Len(<<Packet(type, served)>>) :
              <<Packet(type, served)>>[i].of = served'
    BY <2>1, <2>2 DEF Packet
  <2>4. /\ log' = log \o <<Packet(type, served)>>
        /\ UNCHANGED <<out_request, request_expected, request_read, owner_flags,
                       reqs, nread, actual_read>>
    BY <2>1 DEF ServerStep, outvars, seqvars, readvars
  <2> QED
    BY <2>2, <2>3, <2>4, ServerSafe
<1>11. CASE UNCHANGED vars
  BY <1>11, SeqUnchanged DEF vars, outvars, seqvars, netvars, readvars
<1>12. CASE take_socket_failed
  <2>1. /\ owner_flags' = {}
        /\ UNCHANGED <<out_request, request_expected, request_read, reqs, served,
                       log, nread, actual_read>>
    BY <1>12 DEF take_socket_failed, seqvars, readvars
  <2> QED
    BY <2>1 DEF SeqInv, SeqType, WindowInv, LogOrdered, ExpectedSafe,
                NoLongSilence, SequenceExact, Anchors
<1> QED
  BY <1>1, <1>2, <1>3, <1>4, <1>5, <1>6, <1>7, <1>8, <1>9, <1>10, <1>11, <1>12 DEF Next

\* The 16-bit sequence number of every response is widened to the number of
\* the request it answers, for all widths and any number of requests, if
\* socket owners keep within the window that XCB counts.
THEOREM SequenceNumbersExact ==
    ASSUME OwnerContract = "expected"
    PROVE  Spec => []SequenceExact
<1>1. Init => SeqInv
  BY SeqInit
<1>2. SeqInv /\ [Next]_vars => SeqInv'
  BY SeqStep
<1>3. SeqInv => SequenceExact
  BY DEF SeqInv, WindowInv
<1> QED
  BY <1>1, <1>2, <1>3, PTL DEF Spec

\* No 64k requests pass without a response, and the request XCB counts from
\* is always one that will be answered.
THEOREM WindowKept ==
    ASSUME OwnerContract = "expected"
    PROVE  Spec => []WindowInv
<1>1. Init => SeqInv
  BY SeqInit
<1>2. SeqInv /\ [Next]_vars => SeqInv'
  BY SeqStep
<1>3. SeqInv => WindowInv
  BY DEF SeqInv
<1> QED
  BY <1>1, <1>2, <1>3, PTL DEF Spec
-----------------------------------------------------------------------------
(* Types                                                                   *)

\* A set of numbers that is not empty has a least element.
LEMMA LeastExists ==
    ASSUME NEW T \in SUBSET Nat, T # {}
    PROVE  \E x \in T : \A y \in T : x <= y
<1> DEFINE R == OpToRel(<, Nat)
<1>1. IsWellFoundedOn(R, Nat)
  BY NatLessThanWellFounded
<1>2. \A x, y \in Nat : y < x => <<y, x>> \in R
  BY DEF OpToRel
<1> HIDE DEF R
<1>3. PICK x \in T : \A y \in T : ~ (<<y, x>> \in R)
  BY <1>1, WFMin
<1>4. \A y \in T : ~(y < x)
  BY <1>2, <1>3
<1>5. \A y \in T : x <= y
  BY <1>4
<1> QED
  BY <1>5

-----------------------------------------------------------------------------
(* The list of pending replies                                             *)

\* _xcb_in_expect_reply appends an entry to the list of pending replies.
LEMMA ExpectType ==
    ASSUME NEW pends \in Seq(Pending), NEW request \in Nat,
           NEW workaround \in Workaround, NEW flags \in SUBSET Flag
    PROVE  expect_reply(pends, request, workaround, flags) \in Seq(Pending)
<1> DEFINE pend == [first_request |-> request, last_request |-> request,
                    workaround |-> workaround, flags |-> flags]
<1>1. pend \in Pending
  BY DEF Pending
<1> HIDE DEF pend
<1>2. Append(pends, pend) \in Seq(Pending)
  BY <1>1, AppendProperties
<1> QED
  BY <1>2 DEF expect_reply, pend

\* Replacing one element of a sequence by a value of the same type.
LEMMA UpdateType ==
    ASSUME NEW pends \in Seq(Pending), NEW i \in 1 .. Len(pends), NEW pend \in Pending
    PROVE  [pends EXCEPT ![i] = pend] \in Seq(Pending)
  BY ExceptSeq

\* _xcb_in_replies_done leaves a list of pending replies.
LEMMA DoneType ==
    ASSUME NEW pends \in Seq(Pending), NEW request \in Nat
    PROVE  replies_done(pends, request) \in Seq(Pending)
<1>1. CASE pends = <<>>
  BY <1>1 DEF replies_done
<1>2. CASE pends # <<>>
  <2> DEFINE n == Len(pends)
             new == [pends[n] EXCEPT !.last_request = request, !.workaround = "NONE"]
  <2>1. n \in 1 .. Len(pends) /\ pends[n] \in Pending
    BY <1>2
  <2>2. new \in Pending
    BY <2>1 DEF Pending, Workaround
  <2>3. [pends EXCEPT ![n] = new] \in Seq(Pending)
    <3> HIDE DEF n, new
    <3> QED
      BY <2>1, <2>2, UpdateType DEF n
  <2>4. replies_done(pends, request) \in {pends, [pends EXCEPT ![n] = new]}
    BY <2>1 DEF replies_done
  <2> QED
    BY <2>3, <2>4
<1> QED
  BY <1>1, <1>2

\* Marking an entry for discard (discard_reply) leaves a list of pending replies.
LEMMA MarkType ==
    ASSUME NEW pends \in Seq(Pending), NEW i \in 1 .. Len(pends)
    PROVE  mark_discard(pends, i) \in Seq(Pending)
<1> DEFINE new == [pends[i] EXCEPT !.flags = @ \cup {"DISCARD_REPLY"}]
<1>1. pends[i] \in Pending
  OBVIOUS
<1>2. new \in Pending
  BY <1>1 DEF Pending, Flag
<1>3. mark_discard(pends, i) = [pends EXCEPT ![i] = new]
  BY DEF mark_discard
<1> QED
  BY <1>2, <1>3, UpdateType

\* A piece of a sequence is a sequence over the same set.
LEMMA SliceType ==
    ASSUME NEW S, NEW seq \in Seq(S), NEW i \in 1 .. Len(seq) + 1, NEW j \in 0 .. Len(seq)
    PROVE  SubSeq(seq, i, j) \in Seq(S)
<1>1. \A k \in i .. j : seq[k] \in S
  BY ElementOfSeq
<1> QED
  BY <1>1, SubSeqProperties

\* read_packet's pruning of finished entries leaves a list of pending replies.
LEMMA DropType ==
    ASSUME NEW pends \in Seq(Pending), NEW completed \in Nat
    PROVE  drop_finished(pends, completed) \in Seq(Pending)
<1> DEFINE kept == {i \in 1 .. Len(pends) : ~Finished(pends[i], completed)}
           first == CHOOSE i \in kept : \A j \in kept : i <= j
<1>1. CASE kept = {}
  BY <1>1 DEF drop_finished
<1>2. CASE kept # {}
  <2>1. kept \in SUBSET Nat
    OBVIOUS
  <2>2. \E i \in kept : \A j \in kept : i <= j
    <3> HIDE DEF kept
    <3> QED
      BY <1>2, <2>1, LeastExists
  <2>3. first \in kept
    <3> HIDE DEF kept
    <3> QED
      BY <2>2
  <2>4. first \in 1 .. Len(pends) + 1 /\ Len(pends) \in 0 .. Len(pends)
    <3> HIDE DEF first
    <3> QED
      BY <2>3
  <2>5. SubSeq(pends, first, Len(pends)) \in Seq(Pending)
    <3> HIDE DEF first
    <3> QED
      BY <2>4, SliceType
  <2> QED
    BY <1>2, <2>5 DEF drop_finished
<1> QED
  BY <1>1, <1>2

\* insert_pending_discard, at any position of the list, leaves a list of pending
\* replies.
LEMMA InsertType ==
    ASSUME NEW pends \in Seq(Pending), NEW i \in 1 .. Len(pends) + 1, NEW seq \in Nat
    PROVE  insert_pending_discard(pends, i, seq) \in Seq(Pending)
<1> DEFINE pend == [first_request |-> seq, last_request |-> seq,
                    workaround |-> "NONE", flags |-> {"DISCARD_REPLY"}]
<1>1. pend \in Pending
  BY DEF Pending, Workaround, Flag
<1> HIDE DEF pend
<1>2. SubSeq(pends, 1, i - 1) \in Seq(Pending)
  BY SliceType
<1>3. SubSeq(pends, i, Len(pends)) \in Seq(Pending)
  BY SliceType
<1>4. <<pend>> \in Seq(Pending)
  BY <1>1
<1>5. SubSeq(pends, 1, i - 1) \o <<pend>> \in Seq(Pending)
  BY <1>2, <1>4, ConcatProperties
<1>6. (SubSeq(pends, 1, i - 1) \o <<pend>>) \o SubSeq(pends, i, Len(pends)) \in Seq(Pending)
  BY <1>3, <1>5, ConcatProperties
<1> QED
  BY <1>6 DEF insert_pending_discard, pend
-----------------------------------------------------------------------------
(* Numbers                                                                 *)

\* A cookie is a number below 2^32.
LEMMA CookieType ==
    ASSUME NEW n \in Nat
    PROVE  Cookie(n) \in Nat /\ Cookie(n) < Seq32
  BY WidthAssumption DEF Cookie

\* The number read never goes back.
LEMMA WidenType ==
    ASSUME NEW l \in Nat, NEW s \in Nat
    PROVE  WidenSequence(l, s % Seq16) \in Nat /\ WidenSequence(l, s % Seq16) >= l
<1> DEFINE q == l \div Seq16
           v == s % Seq16
<1>1. q \in Nat /\ l < q * Seq16 + Seq16 /\ v \in Nat
  BY WidthAssumption
<1> HIDE DEF q, v
<1>2. q * Seq16 \in Nat
  BY <1>1, WidthAssumption
<1>3. WidenSequence(l, v) = IF q * Seq16 + v < l THEN q * Seq16 + v + Seq16
                            ELSE q * Seq16 + v
  BY DEF WidenSequence, q
<1>4. WidenSequence(l, v) \in Nat /\ WidenSequence(l, v) >= l
  BY <1>1, <1>2, <1>3, WidthAssumption
<1> QED
  BY <1>4 DEF v

\* The cookie of a request widens to a request number.
LEMMA WidenCookieType ==
    ASSUME NEW request \in Nat, NEW n \in 0 .. request
    PROVE  WidenCookie(request, Cookie(n)) \in Nat
<1> DEFINE q == request \div Seq32
           v == n % Seq32
<1>1. q \in Nat /\ v \in Nat /\ v <= n
  BY WidthAssumption
<1>2. WidenCookie(request, v) = IF q * Seq32 + v > request THEN q * Seq32 + v - Seq32
                                ELSE q * Seq32 + v
  <2> HIDE DEF q, v
  <2> QED
    BY <1>1, WidthAssumption DEF WidenCookie, q
<1> HIDE DEF q, v
<1>3. CASE q = 0
  BY <1>1, <1>2, <1>3, WidthAssumption DEF Cookie, v
<1>4. CASE q >= 1
  <2>1. q * Seq32 \in Nat /\ q * Seq32 >= Seq32
    BY <1>1, <1>4, WidthAssumption
  <2> QED
    BY <1>1, <1>2, <2>1, WidthAssumption DEF Cookie, v
<1> QED
  BY <1>1, <1>3, <1>4

-----------------------------------------------------------------------------
(* The reply map                                                           *)

\* _xcb_map_remove finds an entry of the map when there is one.
LEMMA MapIndexType ==
    ASSUME TypeOK, NEW key, InMap(key)
    PROVE  /\ MapIndex(key) \in 1 .. Len(replies)
           /\ replies[MapIndex(key)].key = key
           /\ replies[MapIndex(key)].data \in Seq(Ids)
           /\ replies[MapIndex(key)].data # <<>>
<1> DEFINE T == {i \in 1 .. Len(replies) : replies[i].key = key}
<1>1. T \in SUBSET Nat /\ T # {}
  <2>1. DOMAIN replies = 1 .. Len(replies)
    BY DEF TypeOK
  <2> QED
    BY <2>1 DEF InMap
<1>2. PICK i \in T : \A j \in T : i <= j
  <2> HIDE DEF T
  <2> QED
    BY <1>1, LeastExists
<1>3. i \in DOMAIN replies /\ replies[i].key = key
  BY <1>2 DEF TypeOK
<1>4. \A j \in 1 .. i - 1 : replies[j].key # key
  <2> SUFFICES ASSUME NEW j \in 1 .. i - 1, replies[j].key = key PROVE FALSE
    OBVIOUS
  <2>1. j \in T /\ j < i
    BY <1>2
  <2> QED
    BY <1>2, <2>1
<1>5. MapIndex(key) \in DOMAIN replies /\ replies[MapIndex(key)].key = key
  BY <1>3, <1>4 DEF MapIndex
<1>6. MapIndex(key) \in 1 .. Len(replies)
  BY <1>5 DEF TypeOK
<1>7. replies[MapIndex(key)] \in MapEntry
  BY <1>6, ElementOfSeq DEF TypeOK
<1> QED
  BY <1>5, <1>6, <1>7 DEF MapEntry

\* Taking an entry out of the reply map (_xcb_map_remove) leaves a map.
LEMMA MapRemovedType ==
    ASSUME TypeOK, NEW i \in 1 .. Len(replies)
    PROVE  map_removed(i) \in Seq(MapEntry)
<1>1. replies \in Seq(MapEntry)
  BY DEF TypeOK
<1>2. /\ i \in 1 .. Len(replies) + 1 /\ i - 1 \in 0 .. Len(replies)
      /\ 1 \in 1 .. Len(replies) + 1
      /\ i + 1 \in 1 .. Len(replies) + 1 /\ Len(replies) \in 0 .. Len(replies)
  BY <1>1
<1>3. SubSeq(replies, 1, i - 1) \in Seq(MapEntry)
  BY <1>1, <1>2, SliceType
<1>4. SubSeq(replies, i + 1, Len(replies)) \in Seq(MapEntry)
  BY <1>1, <1>2, SliceType
<1> QED
  BY <1>3, <1>4, ConcatProperties DEF map_removed
-----------------------------------------------------------------------------
(* The actions                                                             *)

\* A fresh connection (_xcb_in_init, _xcb_out_init) satisfies the type invariant.
LEMMA TypeInit == Init => TypeOK
<1> SUFFICES ASSUME Init PROVE TypeOK
  OBVIOUS
<1>1. taken \in [1 .. MaxRequest -> Seq(Ids)]
  BY DEF Init
<1>2. /\ current_reply \in Seq(Ids) /\ replies \in Seq(MapEntry)
      /\ events \in Seq([id : Ids, full_sequence : Nat])
      /\ delivered \in Seq([id : Ids, full_sequence : Nat])
      /\ pending_replies \in Seq(Pending) /\ reqs \in Seq(Request) /\ Len(reqs) = out_request
      /\ log \in Seq([type : PacketType, of : Nat]) /\ Len(log) = 0
  BY DEF Init
<1>3. /\ out_request \in 0 .. MaxRequest /\ served \in 0 .. out_request
      /\ nread \in 0 .. Len(log) /\ Len(log) <= MaxPacket
  BY <1>2, ReplyAssumption DEF Init
<1> QED
  BY <1>1, <1>2, <1>3 DEF Init, TypeOK

\* The entries for the old and the new owner when the socket changes hands.
LEMMA BackType ==
    ASSUME TypeOK
    PROVE  (IF owned THEN replies_done(pending_replies, out_request)
            ELSE pending_replies) \in Seq(Pending)
  BY DoneType DEF TypeOK

\* xcb_send_request keeps the type invariant.
LEMMA SendType ==
    ASSUME TypeOK, NEW req \in Shapes, xcb_send_request(req)
    PROVE  TypeOK'
<1> DEFINE back == IF owned THEN replies_done(pending_replies, out_request)
                   ELSE pending_replies
           sync == needs_sync(req.isvoid, out_request + 1)
           rs == IF sync THEN <<SyncRequest, req>> ELSE <<req>>
           request == IF sync THEN out_request + 2 ELSE out_request + 1
<1>1. req \in Request /\ SyncRequest \in Request
  BY ReplyAssumption DEF SyncRequest, Request, Flag
<1>2. rs \in Seq(Request) /\ Len(rs) = IF sync THEN 2 ELSE 1
  BY <1>1
<1>3. request \in Nat /\ request - 1 \in Nat /\ request = out_request + Len(rs)
  BY <1>2 DEF TypeOK
<1>4. reqs' \in Seq(Request) /\ Len(reqs') = request
  <2>1. reqs' = reqs \o rs
    BY DEF xcb_send_request
  <2> HIDE DEF rs, request
  <2> QED
    BY <2>1, <1>2, <1>3, ConcatProperties DEF TypeOK
<1>5. back \in Seq(Pending)
  BY BackType
<1>6. pending_replies' \in Seq(Pending) /\ has_error' \in BOOLEAN /\ link' \in {"up", "down", "dead"}
  <2> DEFINE both(p) == expect_reply(p, request, req.workaround, req.flags)
             first == expect_reply(back, request - 1, "NONE", {"DISCARD_REPLY"})
  <2>1. /\ pending_replies' \in {back, first, both(back), both(first)}
        /\ has_error' \in BOOLEAN
        /\ link' \in {link, "down"}
    BY Zenon DEF xcb_send_request
  <2>2. first \in Seq(Pending)
    BY <1>3, <1>5, ExpectType DEF Workaround, Flag
  <2>3. req.workaround \in Workaround /\ req.flags \in SUBSET Flag
    BY <1>1 DEF Request, Workaround
  <2>4. both(back) \in Seq(Pending) /\ both(first) \in Seq(Pending)
    <3> HIDE DEF first, back, request
    <3> QED
      BY <1>3, <1>5, <2>2, <2>3, ExpectType
  <2> HIDE DEF first, back, both
  <2> QED
    BY <2>1, <2>2, <2>4, <1>5 DEF TypeOK
<1>7. /\ out_request' = request /\ request <= MaxRequest
      /\ owned' = FALSE /\ owner_flags' = {}
      /\ request_expected' \in {request, request - 1, request_expected}
      /\ UNCHANGED <<request_read, request_completed, current_reply, replies, events,
                     served, log, nread, actual_read, misframed, taken, delivered,
                     dropped, lost, nulls, discards, edges>>
  BY DEF xcb_send_request, readvars, ghosts
<1>8. /\ out_request' \in 0 .. MaxRequest /\ served' \in 0 .. out_request'
      /\ request_expected' \in Nat
  BY <1>3, <1>7, ReplyAssumption DEF TypeOK
<1> HIDE DEF request
<1> QED
  BY <1>4, <1>6, <1>7, <1>8 DEF TypeOK

\* xcb_take_socket keeps the type invariant.
LEMMA TakeSocketType ==
    ASSUME TypeOK, NEW flags \in OwnerFlags, xcb_take_socket(flags)
    PROVE  TypeOK'
<1> DEFINE back == IF owned THEN replies_done(pending_replies, out_request)
                   ELSE pending_replies
           with == expect_reply(back, out_request,
                                "EXTERNAL_SOCKET_OWNER", flags)
<1>1. back \in Seq(Pending) /\ flags \in SUBSET Flag
  BY BackType, ReplyAssumption
<1>2. with \in Seq(Pending)
  <2> HIDE DEF back
  <2> QED
    BY <1>1, ExpectType DEF TypeOK, Workaround
<1>3. /\ pending_replies' \in {back, with} /\ has_error' \in BOOLEAN
  BY Zenon DEF xcb_take_socket
<1>4. edges' \subseteq Nat
  BY DEF xcb_take_socket, TypeOK
<1>5. /\ owned' = TRUE /\ owner_flags' = flags
      /\ UNCHANGED <<out_request, request_expected, request_read, request_completed,
                     current_reply, replies, events, reqs, served, log, link, nread,
                     actual_read, misframed, taken, delivered, dropped, lost, nulls,
                     discards>>
  BY DEF xcb_take_socket, seqvars, netvars, readvars
<1> HIDE DEF back, with
<1> QED
  BY <1>1, <1>2, <1>3, <1>4, <1>5 DEF TypeOK

\* So it does if it cannot write.
LEMMA TakeFailedType ==
    ASSUME TypeOK, take_socket_failed
    PROVE  TypeOK'
<1> DEFINE back == IF owned THEN replies_done(pending_replies, out_request)
                   ELSE pending_replies
<1>1. back \in Seq(Pending)
  BY BackType
<1>2. /\ pending_replies' = back /\ has_error' = TRUE /\ link' = "down"
      /\ owned' = FALSE /\ owner_flags' = {}
      /\ UNCHANGED <<out_request, request_expected, request_read, request_completed,
                     current_reply, replies, events, reqs, served, log, nread,
                     actual_read, misframed, taken, delivered, dropped, lost, nulls,
                     discards, edges>>
  BY DEF take_socket_failed, seqvars, readvars, ghosts
<1> HIDE DEF back
<1> QED
  BY <1>1, <1>2 DEF TypeOK

\* xcb_writev keeps the type invariant.
LEMMA WritevType ==
    ASSUME TypeOK, NEW batch \in Batches, xcb_writev(batch)
    PROVE  TypeOK'
<1> DEFINE rs == [i \in 1 .. Len(batch) |->
                    [isvoid |-> batch[i], flags |-> owner_flags,
                     workaround |-> "NONE", source |-> "owner"]]
<1>1. batch \in Seq(BOOLEAN) /\ Len(batch) \in Nat
  BY ReplyAssumption
<1>2. rs \in Seq(Request) /\ Len(rs) = Len(batch)
  <2>1. \A i \in 1 .. Len(batch) : rs[i] \in Request
    BY <1>1 DEF TypeOK, Request
  <2> QED
    BY <1>1, <2>1, IsASeq
<1>3. /\ reqs' = reqs \o rs /\ Len(reqs \o rs) <= MaxRequest
      /\ out_request' = out_request + Len(batch)
      /\ has_error' \in BOOLEAN /\ link' \in {link, "down"}
      /\ UNCHANGED <<owned, owner_flags, request_expected, request_read,
                     request_completed, current_reply, replies, events,
                     pending_replies, served, log, nread, actual_read, misframed,
                     taken, delivered, dropped, lost, nulls, discards, edges>>
  BY DEF xcb_writev, seqvars, listvars, readvars, ghosts
<1> HIDE DEF rs
<1>4. reqs' \in Seq(Request) /\ Len(reqs') = out_request'
  BY <1>2, <1>3, ConcatProperties DEF TypeOK
<1>5. out_request' \in 0 .. MaxRequest /\ served' \in 0 .. out_request'
  BY <1>1, <1>3, <1>4, ReplyAssumption DEF TypeOK
<1> QED
  BY <1>3, <1>4, <1>5 DEF TypeOK

\* read_packet keeps the type invariant, whatever becomes of the packet.
LEMMA ReadType ==
    ASSUME TypeOK, NEW outcome \in ReadOutcomes, NEW stored \in MapOk,
           read_packet(outcome, stored)
    PROVE  TypeOK'
<1> DEFINE id == nread + 1
           p == log[id]
           read == next_read(p)
           moved == read # request_read
           pends == IF p.type = "keymap" THEN pending_replies
                    ELSE drop_finished(pending_replies, completed_before(read))
           current == IF moved THEN <<>> ELSE current_reply
           entry == [key |-> Cookie(request_read), data |-> current_reply]
           event == [id |-> id, full_sequence |-> Cookie(read)]
<1>1. /\ nread < Len(log)
      /\ request_read' = read
      /\ actual_read' \in {actual_read, p.of}
      /\ request_expected' \in {read, request_expected}
      /\ request_completed' \in {read, completed_before(read)}
      /\ pending_replies' = pends
      /\ replies' \in {replies} \cup (IF current_reply # <<>> THEN {Append(replies, entry)} ELSE {})
      /\ misframed' \in BOOLEAN
      /\ nread' \in {id, nread}
      /\ dropped' \in {dropped, dropped \cup {id}}
      /\ current_reply' \in {current, Append(current, id)}
      /\ events' \in {events, Append(events, event)}
      /\ lost' \subseteq lost \cup {id} \cup {current_reply[i] : i \in DOMAIN current_reply}
      /\ has_error' \in BOOLEAN
      /\ link' \in {link, "dead"}
      /\ UNCHANGED <<out_request, owned, owner_flags, reqs, served, log, taken,
                     delivered, nulls, discards, edges>>
  BY DEF read_packet, put_current, completed_after, append_reply, outvars
<1>2. id \in Ids /\ nread \in Nat /\ Len(log) \in Nat /\ id \in 1 .. Len(log)
  <2>1. log \in Seq([type : PacketType, of : Nat]) /\ Len(log) <= MaxPacket /\ nread \in 0 .. Len(log)
    BY DEF TypeOK
  <2>2. Len(log) \in Nat
    BY <2>1, LenProperties
  <2>3. MaxPacket \in Nat
    BY ReplyAssumption
  <2>4. nread < Len(log)
    BY <1>1
  <2> QED
    BY <2>1, <2>2, <2>3, <2>4 DEF Ids
<1>3. p \in [type : PacketType, of : Nat]
  <2> HIDE DEF id
  <2> QED
    BY <1>2, ElementOfSeq DEF TypeOK
<1>4. p.of \in Nat
  <2> HIDE DEF p
  <2> QED
    BY <1>3
<1> HIDE DEF p, id
<1>5. read \in Nat /\ read >= request_read
  <2>1. request_read \in Nat
    BY DEF TypeOK
  <2>2. /\ WidenSequence(request_read, p.of % Seq16) \in Nat
        /\ WidenSequence(request_read, p.of % Seq16) >= request_read
    BY <1>4, <2>1, WidenType
  <2> QED
    BY <2>1, <2>2 DEF next_read
<1> HIDE DEF read
<1>6. completed_before(read) \in Nat
  BY <1>5 DEF completed_before, TypeOK
<1>7. pends \in Seq(Pending)
  BY <1>6, DropType DEF TypeOK
<1>8. current \in Seq(Ids) /\ Append(current, id) \in Seq(Ids)
  <2>1. current \in Seq(Ids)
    BY DEF TypeOK
  <2> HIDE DEF current
  <2> QED
    BY <2>1, <1>2, AppendProperties
<1>9. event \in [id : Ids, full_sequence : Nat]
  BY <1>2, <1>5, CookieType
<1>10. events' \in Seq([id : Ids, full_sequence : Nat])
  <2> HIDE DEF event
  <2>1. events \in Seq([id : Ids, full_sequence : Nat])
    BY DEF TypeOK
  <2>2. Append(events, event) \in Seq([id : Ids, full_sequence : Nat])
    BY <1>9, <2>1, AppendProperties
  <2>3. events' \in {events, Append(events, event)}
    BY <1>1
  <2> QED
    BY <2>1, <2>2, <2>3
<1>11. replies' \in Seq(MapEntry)
  <2>1. CASE current_reply = <<>>
    BY <1>1, <2>1 DEF TypeOK
  <2>2. CASE current_reply # <<>>
    <3>1. entry \in MapEntry
      BY <2>2, CookieType DEF MapEntry, TypeOK
    <3> HIDE DEF entry
    <3>2. Append(replies, entry) \in Seq(MapEntry)
      BY <3>1, AppendProperties DEF TypeOK
    <3> QED
      BY <1>1, <3>2 DEF TypeOK
  <2> QED
    BY <2>1, <2>2
<1>12. lost' \subseteq Ids
  <2>1. \A i \in DOMAIN current_reply : current_reply[i] \in Ids
    BY DEF TypeOK
  <2> QED
    BY <2>1, <1>1, <1>2 DEF TypeOK
<1>13. /\ nread' \in 0 .. Len(log) /\ dropped' \subseteq Ids
       /\ request_completed' \in Nat /\ request_expected' \in Nat /\ request_read' \in Nat
       /\ actual_read' \in Nat /\ link' \in {"up", "down", "dead"}
  <2>1. /\ nread \in Nat /\ nread <= Len(log) /\ dropped \subseteq Ids
        /\ request_expected \in Nat /\ actual_read \in Nat /\ link \in {"up", "down", "dead"}
    BY <1>2 DEF TypeOK
  <2>2. /\ nread' \in {id, nread} /\ dropped' \in {dropped, dropped \cup {id}}
        /\ request_completed' \in {read, completed_before(read)}
        /\ request_expected' \in {read, request_expected} /\ request_read' = read
        /\ actual_read' \in {actual_read, p.of} /\ link' \in {link, "dead"}
    BY <1>1
  <2> QED
    BY <2>1, <2>2, <1>2, <1>4, <1>5, <1>6
<1> HIDE DEF pends, current
<1> QED
  BY <1>1, <1>7, <1>8, <1>10, <1>11, <1>12, <1>13 DEF TypeOK

\* poll_for_reply keeps the type invariant.
LEMMA PollType ==
    ASSUME TypeOK, NEW n \in 1 .. out_request, NEW stored \in MapOk,
           xcb_poll_for_reply(n, stored)
    PROVE  TypeOK'
<1>1. /\ UNCHANGED <<has_error, out_request, owned, owner_flags, request_expected,
                     request_read, request_completed, events, pending_replies, reqs,
                     served, log, link, nread, actual_read, misframed, delivered,
                     dropped, discards, edges>>
      /\ poll_for_reply(n, stored)
  BY DEF xcb_poll_for_reply, outvars, seqvars, netvars, readvars
<1>2. n \in 1 .. MaxRequest
  <2>1. out_request \in 0 .. MaxRequest /\ MaxRequest \in Nat
    BY ReplyAssumption DEF TypeOK
  <2> QED
    BY <2>1
<1>3. taken[n] \in Seq(Ids)
  BY <1>2 DEF TypeOK
<1>4. \A id \in Ids : [taken EXCEPT ![n] = Append(@, id)] \in [1 .. MaxRequest -> Seq(Ids)]
  <2> SUFFICES ASSUME NEW id \in Ids
               PROVE  [taken EXCEPT ![n] = Append(@, id)] \in [1 .. MaxRequest -> Seq(Ids)]
    OBVIOUS
  <2>1. Append(taken[n], id) \in Seq(Ids)
    BY <1>3, AppendProperties
  <2> QED
    BY <2>1, <1>2 DEF TypeOK
<1>5. /\ taken' \in [1 .. MaxRequest -> Seq(Ids)]
      /\ current_reply' \in Seq(Ids)
      /\ replies' \in Seq(MapEntry)
      /\ lost' \subseteq Ids
      /\ nulls' \subseteq Nat
  <2>1. CASE found_nothing(n)
    BY <2>1 DEF found_nothing, TypeOK
  <2>2. CASE take_current(n) /\ current_reply # <<>>
    <3>1. Head(current_reply) \in Ids /\ Tail(current_reply) \in Seq(Ids)
      BY <2>2, HeadTailProperties DEF TypeOK
    <3> QED
      BY <2>2, <3>1, <1>4 DEF take_current, TypeOK
  <2>3. CASE InMap(Cookie(n)) /\ take_from_map(n, Cookie(n), stored)
    <3> DEFINE key == Cookie(n)
               i == MapIndex(key)
               list == replies[i].data
               rest == [key |-> key, data |-> Tail(list)]
    <3>1. i \in 1 .. Len(replies) /\ list \in Seq(Ids) /\ list # <<>>
      BY <2>3, MapIndexType
    <3>2. key \in Nat
      BY CookieType DEF TypeOK
    <3>3. /\ taken' = [taken EXCEPT ![n] = Append(@, Head(list))]
          /\ replies' \in {map_removed(i)} \cup
                          (IF Len(list) > 1 THEN {Append(map_removed(i), rest)} ELSE {})
          /\ lost' \subseteq lost \cup {list[j] : j \in 2 .. Len(list)}
          /\ UNCHANGED <<current_reply, nulls>>
      BY <2>3 DEF take_from_map
    <3>4. map_removed(i) \in Seq(MapEntry)
      <4> HIDE DEF i
      <4> QED
        BY <3>1, MapRemovedType
    <3> HIDE DEF i, list, key
    <3>5. Head(list) \in Ids
      BY <3>1, HeadTailProperties
    <3>6. \A j \in 2 .. Len(list) : list[j] \in Ids
      BY <3>1, ElementOfSeq
    <3>7. Len(list) > 1 => rest \in MapEntry
      <4> SUFFICES ASSUME Len(list) > 1 PROVE rest \in MapEntry
        OBVIOUS
      <4>1. Tail(list) \in Seq(Ids) /\ Len(Tail(list)) = Len(list) - 1
        BY <3>1, HeadTailProperties
      <4>2. Tail(list) # <<>>
        BY <4>1
      <4> QED
        BY <4>1, <4>2, <3>2 DEF MapEntry
    <3> HIDE DEF rest
    <3>8. replies' \in Seq(MapEntry)
      BY <3>3, <3>4, <3>7, AppendProperties
    <3>9. lost \subseteq Ids /\ current_reply \in Seq(Ids) /\ nulls \subseteq Nat
      BY DEF TypeOK
    <3>10. taken' \in [1 .. MaxRequest -> Seq(Ids)]
      BY <3>3, <3>5, <1>4
    <3>11. lost' \subseteq Ids
      BY <3>3, <3>6, <3>9
    <3> QED
      BY <3>3, <3>8, <3>9, <3>10, <3>11
  <2> QED
    BY <1>1, <2>1, <2>2, <2>3, Zenon DEF poll_for_reply
<1> QED
  BY <1>1, <1>5 DEF TypeOK

\* discard_reply's walk over the pending replies leaves such a list.
LEMMA MarkPendingType ==
    ASSUME TypeOK, NEW n \in 1 .. out_request, NEW ok \in BOOLEAN, mark_pending(n, ok)
    PROVE  pending_replies' \in Seq(Pending)
<1> DEFINE first(i) == Diff32(Cookie(pending_replies[i].first_request), Cookie(n))
           later == {i \in 1 .. Len(pending_replies) : first(i) > 0}
           last == Len(pending_replies) + 1
           stop == CHOOSE i \in later \cup {last} : \A j \in later : i <= j
           same == {i \in 1 .. stop - 1 : first(i) = 0}
           match == CHOOSE i \in same : \A j \in same : i <= j
<1>1. pending_replies \in Seq(Pending) /\ DOMAIN pending_replies = 1 .. Len(pending_replies)
  BY DEF TypeOK
<1>2. Len(pending_replies) \in Nat
  BY <1>1
<1>3. stop \in 1 .. last
  <2>1. later \in SUBSET Nat /\ later \subseteq 1 .. Len(pending_replies)
    OBVIOUS
  <2>2. \E i \in later \cup {last} : \A j \in later : i <= j
    <3> HIDE DEF later
    <3>1. CASE later = {}
      BY <3>1
    <3>2. CASE later # {}
      BY <3>2, <2>1, LeastExists
    <3> QED
      BY <3>1, <3>2
  <2>3. stop \in later \cup {last}
    <3> HIDE DEF later, last
    <3> QED
      BY <2>2
  <2> HIDE DEF later, stop
  <2> QED
    BY <2>1, <2>3, <1>2
<1>4. same # {} => match \in 1 .. Len(pending_replies)
  <2> SUFFICES ASSUME same # {} PROVE match \in 1 .. Len(pending_replies)
    OBVIOUS
  <2>1. same \in SUBSET Nat /\ same \subseteq 1 .. Len(pending_replies)
    <3> HIDE DEF stop, first
    <3> QED
      BY <1>2, <1>3
  <2>2. match \in same
    <3> HIDE DEF same
    <3>1. \E i \in same : \A j \in same : i <= j
      BY <2>1, LeastExists
    <3> QED
      BY <3>1
  <2> HIDE DEF match, same
  <2> QED
    BY <2>1, <2>2
<1>5. \/ same # {} /\ pending_replies' = mark_discard(pending_replies, match)
      \/ pending_replies' = insert_pending_discard(pending_replies, stop,
                                                   WidenCookie(out_request, Cookie(n)))
      \/ pending_replies' = pending_replies
  <2>1. later = {i \in DOMAIN pending_replies : first(i) > 0}
    BY <1>1
  <2> HIDE DEF later
  <2> QED
    BY <2>1, Zenon DEF mark_pending, later
<1>6. WidenCookie(out_request, Cookie(n)) \in Nat
  <2>1. out_request \in Nat /\ n \in 0 .. out_request
    BY DEF TypeOK
  <2> QED
    BY <2>1, WidenCookieType
<1> HIDE DEF same, match, stop
<1> QED
  BY <1>1, <1>3, <1>4, <1>5, <1>6, MarkType, InsertType

\* discard_reply, for the request being read, leaves a list of pending replies.
LEMMA MarkCurrentType ==
    ASSUME TypeOK, NEW ok \in BOOLEAN, mark_current(ok)
    PROVE  pending_replies' \in Seq(Pending)
<1>1. pending_replies \in Seq(Pending) /\ request_read \in Nat
  BY DEF TypeOK
<1>2. \/ pending_replies # <<>> /\ pending_replies' = mark_discard(pending_replies, 1)
      \/ pending_replies' = insert_pending_discard(pending_replies, 1, request_read)
      \/ pending_replies' = pending_replies
  BY DEF mark_current, head_matches
<1>3. 1 \in 1 .. Len(pending_replies) + 1 /\ (pending_replies # <<>> => 1 \in 1 .. Len(pending_replies))
  BY <1>1
<1> QED
  BY <1>1, <1>2, <1>3, MarkType, InsertType

\* discard_reply keeps the type invariant.
LEMMA DiscardType ==
    ASSUME TypeOK, NEW n \in 1 .. out_request, NEW ok \in MemOk, xcb_discard_reply(n, ok)
    PROVE  TypeOK'
<1>1. /\ UNCHANGED <<out_request, owned, owner_flags, request_expected, request_read,
                     request_completed, events, reqs, served, log, link, nread,
                     actual_read, misframed, taken, delivered, lost, nulls, edges>>
      /\ discards' = discards \cup {n}
      /\ has_error' = ~ok
      /\ discard_reply(n, ok)
  BY DEF xcb_discard_reply, outvars, seqvars, netvars, readvars
<1>2. ok \in BOOLEAN
  BY DEF MemOk
<1>3. \A i \in DOMAIN current_reply : current_reply[i] \in Ids
  BY DEF TypeOK
<1>4. /\ replies' \in Seq(MapEntry) /\ dropped' \subseteq Ids
      /\ current_reply' \in Seq(Ids) /\ pending_replies' \in Seq(Pending)
  <2>0. /\ replies \in Seq(MapEntry) /\ dropped \subseteq Ids
        /\ current_reply \in Seq(Ids) /\ pending_replies \in Seq(Pending)
    BY DEF TypeOK
  <2>1. CASE /\ InMap(Cookie(n))
             /\ replies' = map_removed(MapIndex(Cookie(n)))
             /\ dropped' = dropped \cup {replies[MapIndex(Cookie(n))].data[j] :
                                j \in DOMAIN replies[MapIndex(Cookie(n))].data}
             /\ UNCHANGED <<current_reply, pending_replies>>
    <3> DEFINE i == MapIndex(Cookie(n))
               list == replies[i].data
    <3>1. i \in 1 .. Len(replies) /\ list \in Seq(Ids)
      BY <2>1, MapIndexType
    <3>2. map_removed(i) \in Seq(MapEntry)
      <4> HIDE DEF i
      <4> QED
        BY <3>1, MapRemovedType
    <3>3. \A j \in DOMAIN list : list[j] \in Ids
      <4> HIDE DEF list
      <4> QED
        BY <3>1
    <3> HIDE DEF i, list
    <3> QED
      BY <2>0, <2>1, <3>2, <3>3 DEF i, list
  <2>2. CASE UNCHANGED <<replies, dropped, current_reply, pending_replies>>
    BY <2>0, <2>2
  <2>3. CASE /\ dropped' = dropped \cup {current_reply[j] : j \in DOMAIN current_reply}
             /\ current_reply' = <<>> /\ mark_current(ok) /\ UNCHANGED replies
    BY <2>0, <2>3, <1>2, <1>3, MarkCurrentType
  <2>4. CASE mark_pending(n, ok) /\ UNCHANGED <<current_reply, replies, dropped>>
    BY <2>0, <2>4, <1>2, MarkPendingType
  <2> QED
    BY <1>1, <2>1, <2>2, <2>3, <2>4, Zenon DEF discard_reply
<1>5. discards' \subseteq Nat
  BY <1>1 DEF TypeOK
<1> QED
  BY <1>1, <1>2, <1>4, <1>5 DEF TypeOK

\* get_event keeps the type invariant.
LEMMA GetEventType ==
    ASSUME TypeOK, get_event
    PROVE  TypeOK'
<1> DEFINE E == [id : Ids, full_sequence : Nat]
<1>1. /\ events # <<>> /\ delivered' = Append(delivered, Head(events))
      /\ events' = Tail(events)
      /\ UNCHANGED <<has_error, out_request, owned, owner_flags, request_expected,
                     request_read, request_completed, current_reply, replies,
                     pending_replies, reqs, served, log, link, nread, actual_read,
                     misframed, taken, dropped, lost, nulls, discards, edges>>
  BY DEF get_event, outvars, seqvars, netvars, readvars
<1>2. events \in Seq(E) /\ delivered \in Seq(E)
  BY DEF TypeOK
<1> HIDE DEF E
<1>3. Head(events) \in E /\ Tail(events) \in Seq(E)
  BY <1>1, <1>2, HeadTailProperties
<1>4. delivered' \in Seq(E) /\ events' \in Seq(E)
  BY <1>1, <1>2, <1>3, AppendProperties
<1> QED
  BY <1>1, <1>4 DEF TypeOK, E

\* A step of the server keeps the type invariant.
LEMMA ServerType ==
    ASSUME TypeOK, NEW ps \in Seq([type : PacketType, of : Nat]), ServerStep(ps),
           served' \in {served, served + 1}, served' <= out_request
    PROVE  TypeOK'
<1>1. /\ log' = log \o ps /\ Len(log) + Len(ps) <= MaxPacket
      /\ UNCHANGED <<has_error, out_request, owned, owner_flags, request_expected,
                     request_read, request_completed, current_reply, replies, events,
                     pending_replies, reqs, link, nread, actual_read, misframed, taken,
                     delivered, dropped, lost, nulls, discards, edges>>
  BY DEF ServerStep, outvars, seqvars, listvars, readvars, ghosts
<1>2. /\ log' \in Seq([type : PacketType, of : Nat]) /\ Len(log') = Len(log) + Len(ps)
      /\ Len(log) \in Nat /\ Len(ps) \in Nat
  BY <1>1, ConcatProperties, LenProperties DEF TypeOK
<1>3. served' \in 0 .. out_request' /\ nread' \in 0 .. Len(log') /\ Len(log') <= MaxPacket
  BY <1>1, <1>2 DEF TypeOK
<1> QED
  BY <1>1, <1>2, <1>3 DEF TypeOK

\* Every step of the connection and of the server keeps the type invariant.
LEMMA TypeStep == TypeOK /\ [Next]_vars => TypeOK'
<1> SUFFICES ASSUME TypeOK, [Next]_vars PROVE TypeOK'
  OBVIOUS
<1> DEFINE P == [type : PacketType, of : Nat]
<1>1. CASE \E req \in Shapes : xcb_send_request(req)
  BY <1>1, SendType
<1>2. CASE send_refused
  BY <1>2 DEF send_refused, TypeOK, outvars, seqvars, listvars, netvars, readvars, ghosts
<1>3. CASE \E flags \in OwnerFlags : xcb_take_socket(flags)
  BY <1>3, TakeSocketType
<1>4. CASE \E batch \in Batches : xcb_writev(batch)
  BY <1>4, WritevType
<1>5. CASE \E outcome \in ReadOutcomes, stored \in MapOk : read_packet(outcome, stored)
  BY <1>5, ReadType
<1>6. CASE \E n \in 1 .. out_request, stored \in MapOk : xcb_poll_for_reply(n, stored)
  BY <1>6, PollType
<1>7. CASE \E n \in 1 .. out_request, ok \in MemOk : xcb_discard_reply(n, ok)
  BY <1>7, DiscardType
<1>8. CASE get_event
  BY <1>8, GetEventType
<1>9. CASE serve
  <2>1. PICK ps \in {<<>>, <<Packet("reply", served + 1)>>, <<Packet("error", served + 1)>>} :
           ServerStep(ps)
    BY <1>9 DEF serve
  <2>2. served' = served + 1 /\ served' <= out_request /\ served \in Nat
    BY <1>9 DEF serve, TypeOK
  <2>3. Packet("reply", served + 1) \in P /\ Packet("error", served + 1) \in P
    BY <2>2 DEF Packet, PacketType
  <2>4. ps \in Seq(P)
    <3> HIDE DEF P
    <3>1. <<>> \in Seq(P)
      OBVIOUS
    <3>2. \A x \in P : <<x>> \in Seq(P)
      OBVIOUS
    <3> QED
      BY <2>1, <2>3, <3>1, <3>2
  <2> QED
    BY <2>1, <2>2, <2>4, ServerType
<1>10. CASE more_replies \/ send_event
  <2>1. PICK type \in PacketType : ServerStep(<<Packet(type, served)>>)
    BY <1>10, ReplyAssumption DEF more_replies, send_event, PacketType
  <2>2. served' = served /\ served \in Nat /\ served <= out_request
    BY <1>10 DEF more_replies, send_event, TypeOK
  <2>3. Packet(type, served) \in P
    BY <2>2 DEF Packet
  <2>4. <<Packet(type, served)>> \in Seq(P)
    <3> HIDE DEF P
    <3> QED
      BY <2>3
  <2> QED
    BY <2>1, <2>2, <2>4, ServerType
<1>11. CASE UNCHANGED vars
  BY <1>11 DEF vars, TypeOK, outvars, seqvars, listvars, netvars, readvars, ghosts
<1>12. CASE take_socket_failed
  BY <1>12, TakeFailedType
<1> QED
  BY <1>1, <1>2, <1>3, <1>4, <1>5, <1>6, <1>7, <1>8, <1>9, <1>10, <1>11, <1>12 DEF Next

\* Every variable of the connection keeps its type in every behaviour, with
\* handoffs, discards and failures: numbers computed by subtraction stay
\* natural, the reply map holds no empty list, and what poll_for_reply,
\* discard_reply and read_packet pick from a list is in the list.
THEOREM TypeCorrect == Spec => []TypeOK
<1>1. Init => TypeOK
  BY TypeInit
<1>2. TypeOK /\ [Next]_vars => TypeOK'
  BY TypeStep
<1> QED
  BY <1>1, <1>2, PTL DEF Spec
=============================================================================
