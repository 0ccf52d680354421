--------------------------- MODULE XcbReplyPending ---------------------------
(***************************************************************************)
(* The list of pending replies, for any number of requests, responses and  *)
(* socket handoffs: the entry that read_packet finds at its head says how  *)
(* to handle the response it reads.                                        *)
(*                                                                         *)
(* The predicates below take the list and what it is about as parameters:  *)
(* pends for c->in.pending_replies, rs for the requests issued, eds for    *)
(* `edges`, dis for `discards`.                                            *)
(***************************************************************************)
EXTENDS XcbReplyRouting

\* Cookies are compared as signed numbers, so that half their range is
\* meaningful.
NoWrap == MaxRequest < Seq32 \div 2

\* No request can be discarded through the entry of a socket owner: neither
\* because the owner asks for it nor because XCB's own last request before
\* the handoff is.
Careful ==
    /\ \A flags \in OwnerFlags : "DISCARD_REPLY" \notin flags
    /\ Discarding = "any" => OwnerFlags \subseteq {{}}
-----------------------------------------------------------------------------
(* What makes the list right                                               *)

External(pend) == pend.workaround = "EXTERNAL_SOCKET_OWNER"

\* Requests the application or the library wants discarded.
ToDiscard(n, rs, dis) == n \in dis \/ "DISCARD_REPLY" \in rs[n].flags

\* The requests an entry is about besides the first are those of a socket
\* owner, who sent them with its flags.
OwnersRest(pend, rs) ==
    \A n \in pend.first_request + 1 .. Len(rs) :
        External(pend) \/ n <= pend.last_request =>
            /\ rs[n].source = "owner"
            /\ "CHECKED" \in pend.flags <=> "CHECKED" \in rs[n].flags

\* An entry that is not a socket owner's is about one request and does not
\* ask for more than that request did.
SingleRight(pend, rs, eds) ==
    pend.first_request \notin eds =>
        /\ pend.first_request > 0
        /\ pend.last_request = pend.first_request
        /\ ~External(pend)
        /\ "CHECKED" \in pend.flags => "CHECKED" \in rs[pend.first_request].flags

GlxRight(pend, rs) ==
    pend.workaround = "GLX_GET_FB_CONFIGS_BUG" =>
        /\ pend.first_request > 0
        /\ pend.last_request = pend.first_request
        /\ rs[pend.first_request].workaround = "GLX_GET_FB_CONFIGS_BUG"

DiscardRight(pend, rs, dis) ==
    Careful /\ "DISCARD_REPLY" \in pend.flags =>
        /\ pend.first_request > 0
        /\ pend.last_request = pend.first_request
        /\ ~External(pend)
        /\ ToDiscard(pend.first_request, rs, dis)

\* No entry asks for what its requests did not.
EntrySound(pend, rs, eds, dis) ==
    /\ pend.first_request <= pend.last_request /\ pend.last_request <= Len(rs)
    /\ OwnersRest(pend, rs) /\ SingleRight(pend, rs, eds) /\ GlxRight(pend, rs)
    /\ DiscardRight(pend, rs, dis)

\* The list is in the order of the requests, and an entry that will grow is
\* the last one.
Ordered(pends) ==
    \A i, j \in 1 .. Len(pends) :
        i < j => /\ ~External(pends[i])
                 /\ pends[i].last_request <= pends[j].first_request

\* Entries of requests that were read past are gone.
Pruned(pends, read) ==
    \A i \in 1 .. Len(pends) : External(pends[i]) \/ pends[i].last_request >= read

ListSound(pends, rs, eds, dis, read) ==
    /\ \A i \in 1 .. Len(pends) : EntrySound(pends[i], rs, eds, dis)
    /\ Ordered(pends) /\ Pruned(pends, read)

\* An entry that will grow belongs to whoever owns the socket.
OpenEntry(pends, own, oflags) ==
    \A i \in 1 .. Len(pends) :
        External(pends[i]) =>
            /\ own
            /\ "CHECKED" \in pends[i].flags <=> "CHECKED" \in oflags
            /\ "DISCARD_REPLY" \in oflags => "DISCARD_REPLY" \in pends[i].flags

\* What the code must remember about a request, and an entry that does.
Needs(n, rs, dis) == rs[n].flags # {} \/ rs[n].workaround # "NONE" \/ n \in dis

Serves(pend, n, rs, dis) ==
    /\ "CHECKED" \in rs[n].flags => "CHECKED" \in pend.flags
    /\ ToDiscard(n, rs, dis) => "DISCARD_REPLY" \in pend.flags
    /\ rs[n].workaround = "GLX_GET_FB_CONFIGS_BUG" =>
         pend.workaround = "GLX_GET_FB_CONFIGS_BUG"

FirstCover(pends, k, n) ==
    Covers(pends[k], n) /\ \A j \in 1 .. k - 1 : ~Covers(pends[j], n)

\* Where discard_reply marks an entry for request n, and where it inserts one.
MarkAt(pends, i, n) ==
    /\ FirstCover(pends, i, n)
    /\ Careful => /\ pends[i].first_request = n /\ pends[i].last_request = n
                  /\ ~External(pends[i])

InsertAt(pends, i, n, read) ==
    /\ read <= n
    /\ \A j \in 1 .. Len(pends) : ~Covers(pends[j], n)
    /\ \A j \in 1 .. i - 1 : pends[j].first_request <= n
    /\ \A j \in i .. Len(pends) : n <= pends[j].first_request

\* The first entry about a request that can still have a response remembers
\* what must be.
Complete(pends, rs, dis, done) ==
    \A n \in done + 1 .. Len(rs) :
        Needs(n, rs, dis) =>
            \E k \in 1 .. Len(pends) : FirstCover(pends, k, n) /\ Serves(pends[k], n, rs, dis)
-----------------------------------------------------------------------------
(* What the operations on the list do to it                                *)

LEMMA PendingFields ==
    ASSUME NEW pends \in Seq(Pending)
    PROVE  /\ Len(pends) \in Nat /\ DOMAIN pends = 1 .. Len(pends)
           /\ \A i \in 1 .. Len(pends) :
                /\ pends[i] \in Pending
                /\ pends[i].first_request \in Nat /\ pends[i].last_request \in Nat
<1>1. Len(pends) \in Nat /\ DOMAIN pends = 1 .. Len(pends)
  BY LenProperties
<1>2. \A i \in 1 .. Len(pends) : pends[i] \in Pending
  BY ElementOfSeq
<1> QED
  BY <1>1, <1>2 DEF Pending

LEMMA SameLength ==
    ASSUME NEW a \in Nat, NEW b \in Nat, 1 .. a = 1 .. b
    PROVE  a = b
<1>1. CASE a < b
  BY <1>1, b \in 1 .. b
<1>2. CASE b < a
  BY <1>2, a \in 1 .. a
<1> QED
  BY <1>1, <1>2

\* What was right for an entry is so when more requests are issued, more of
\* them are discarded and more owners have come, unless the entry grows.
LEMMA EntryGrows ==
    ASSUME NEW pend \in Pending, NEW rs \in Seq(Request), NEW rs2 \in Seq(Request),
           NEW eds, NEW eds2, NEW dis, NEW dis2,
           Len(rs) <= Len(rs2), \A i \in 1 .. Len(rs) : rs2[i] = rs[i],
           eds \subseteq eds2, dis \subseteq dis2,
           EntrySound(pend, rs, eds, dis), External(pend) => Len(rs2) = Len(rs)
    PROVE  EntrySound(pend, rs2, eds2, dis2)
<1>1. /\ pend.first_request \in Nat /\ pend.last_request \in Nat
      /\ Len(rs) \in Nat /\ Len(rs2) \in Nat
  BY LenProperties DEF Pending
<1>2. pend.first_request <= pend.last_request /\ pend.last_request <= Len(rs)
  BY DEF EntrySound
<1>3. pend.first_request > 0 => rs2[pend.first_request] = rs[pend.first_request]
  BY <1>1, <1>2
<1>4. OwnersRest(pend, rs2)
  <2> SUFFICES ASSUME NEW n \in pend.first_request + 1 .. Len(rs2),
                      External(pend) \/ n <= pend.last_request
               PROVE  /\ rs2[n].source = "owner"
                      /\ "CHECKED" \in pend.flags <=> "CHECKED" \in rs2[n].flags
    BY DEF OwnersRest
  <2>1. n \in pend.first_request + 1 .. Len(rs) /\ rs2[n] = rs[n]
    BY <1>1, <1>2
  <2> QED
    BY <2>1 DEF EntrySound, OwnersRest
<1>5. SingleRight(pend, rs2, eds2)
  BY <1>3 DEF EntrySound, SingleRight
<1>6. GlxRight(pend, rs2)
  BY <1>3 DEF EntrySound, GlxRight
<1>7. DiscardRight(pend, rs2, dis2)
  BY <1>3 DEF EntrySound, DiscardRight, ToDiscard
<1> QED
  BY <1>1, <1>2, <1>4, <1>5, <1>6, <1>7 DEF EntrySound

\* _xcb_in_replies_done closes the entry of the socket owner.
LEMMA DoneDoes ==
    ASSUME NEW pends \in Seq(Pending), NEW q \in Nat, Ordered(pends)
    PROVE  LET b == replies_done(pends, q)
           IN  /\ b \in Seq(Pending) /\ Len(b) = Len(pends)
               /\ \A i \in 1 .. Len(pends) :
                    /\ b[i].first_request = pends[i].first_request
                    /\ b[i].flags = pends[i].flags
                    /\ ~External(pends[i]) => b[i] = pends[i]
                    /\ External(pends[i]) =>
                         b[i].last_request = q /\ b[i].workaround = "NONE"
<1> DEFINE b == replies_done(pends, q)
           last == Len(pends)
           closed == [pends[last] EXCEPT !.last_request = q, !.workaround = "NONE"]
<1>1. b \in Seq(Pending)
  BY DoneType
<1>2. /\ last \in Nat /\ DOMAIN pends = 1 .. last
      /\ \A i \in 1 .. last : pends[i] \in Pending
  BY PendingFields
<1>3. \A i \in 1 .. last : External(pends[i]) => i = last
  <2> SUFFICES ASSUME NEW i \in 1 .. last, i # last PROVE ~External(pends[i])
    OBVIOUS
  <2>0. last \in Nat
    BY <1>2
  <2>1. last \in 1 .. last /\ i < last
    BY <2>0
  <2> QED
    BY <2>1 DEF Ordered
<1>4. CASE pends # <<>> /\ External(pends[last])
  <2>1. last \in 1 .. last
    BY <1>2, <1>4, EmptySeq
  <2>2. b = [pends EXCEPT ![last] = closed]
    BY <1>4 DEF replies_done, External
  <2>3. /\ closed.first_request = pends[last].first_request
        /\ closed.flags = pends[last].flags
        /\ closed.last_request = q /\ closed.workaround = "NONE"
    BY <1>2, <2>1 DEF Pending
  <2>4. \A i \in 1 .. last : b[i] = IF i = last THEN closed ELSE pends[i]
    BY <1>2, <2>2
  <2>5. Len(b) = Len(pends)
    <3>1. DOMAIN b = 1 .. Len(b) /\ Len(b) \in Nat
      BY <1>1, LenProperties
    <3>2. DOMAIN b = 1 .. last
      BY <1>2, <2>2
    <3> QED
      BY <1>2, <3>1, <3>2, SameLength
  <2> HIDE DEF closed, b
  <2> QED
    BY <1>1, <1>3, <1>4, <2>3, <2>4, <2>5 DEF b
<1>5. CASE pends = <<>> \/ ~External(pends[last])
  <2>1. b = pends
    BY <1>5 DEF replies_done, External
  <2>2. \A i \in 1 .. last : ~External(pends[i])
    <3> SUFFICES ASSUME NEW i \in 1 .. last PROVE ~External(pends[i])
      OBVIOUS
    <3>1. pends # <<>>
      BY <1>2, EmptySeq
    <3> QED
      BY <1>3, <1>5, <3>1
  <2> QED
    BY <1>1, <2>1, <2>2
<1> QED
  BY <1>4, <1>5

\* Nothing the list says about the requests issued so far is lost by that.
LEMMA Closing ==
    ASSUME NEW pends \in Seq(Pending), NEW rs \in Seq(Request), NEW eds, NEW dis, NEW read \in Nat,
           read <= Len(rs), ListSound(pends, rs, eds, dis, read)
    PROVE  LET b == replies_done(pends, Len(rs))
           IN  /\ b \in Seq(Pending)
               /\ ListSound(b, rs, eds, dis, read)
               /\ \A i \in 1 .. Len(b) : ~External(b[i])
               /\ \A done \in Nat : Complete(pends, rs, dis, done) => Complete(b, rs, dis, done)
<1> DEFINE b == replies_done(pends, Len(rs))
<1>1. /\ Len(rs) \in Nat /\ Ordered(pends)
      /\ \A i \in 1 .. Len(pends) : EntrySound(pends[i], rs, eds, dis)
  BY LenProperties DEF ListSound
<1>2. /\ b \in Seq(Pending) /\ Len(b) = Len(pends)
      /\ \A i \in 1 .. Len(pends) :
           /\ b[i].first_request = pends[i].first_request
           /\ b[i].flags = pends[i].flags
           /\ ~External(pends[i]) => b[i] = pends[i]
           /\ External(pends[i]) => b[i].last_request = Len(rs) /\ b[i].workaround = "NONE"
  BY <1>1, DoneDoes
<1>3. /\ Len(pends) \in Nat
      /\ \A i \in 1 .. Len(pends) : /\ pends[i].first_request \in Nat
                                    /\ pends[i].last_request \in Nat
  BY PendingFields
<1> HIDE DEF b
<1>4. \A i \in 1 .. Len(b) : ~External(b[i])
  BY <1>2 DEF External
<1>5. ASSUME NEW i \in 1 .. Len(pends) PROVE EntrySound(b[i], rs, eds, dis)
  <2>1. CASE ~External(pends[i])
    BY <1>1, <1>2, <2>1
  <2>2. CASE External(pends[i])
    <3>1. /\ b[i].first_request = pends[i].first_request /\ b[i].flags = pends[i].flags
          /\ b[i].last_request = Len(rs) /\ b[i].workaround = "NONE"
          /\ EntrySound(pends[i], rs, eds, dis)
      BY <1>1, <1>2, <2>2
    <3>2. OwnersRest(b[i], rs)
      BY <2>2, <3>1 DEF EntrySound, OwnersRest
    <3>3. SingleRight(b[i], rs, eds) /\ GlxRight(b[i], rs)
      BY <2>2, <3>1 DEF EntrySound, SingleRight, GlxRight
    <3>4. DiscardRight(b[i], rs, dis)
      BY <2>2, <3>1 DEF EntrySound, DiscardRight
    <3>5. b[i].first_request <= b[i].last_request /\ b[i].last_request <= Len(rs)
      BY <1>1, <1>3, <3>1 DEF EntrySound
    <3> QED
      BY <3>2, <3>3, <3>4, <3>5 DEF EntrySound
  <2> QED
    BY <2>1, <2>2
<1>6. Ordered(b)
  BY <1>1, <1>2, <1>4 DEF Ordered
<1>7. Pruned(b, read)
  <2> SUFFICES ASSUME NEW i \in 1 .. Len(pends) PROVE b[i].last_request >= read
    BY <1>2 DEF Pruned
  <2>1. CASE External(pends[i])
    BY <1>1, <1>2, <2>1
  <2>2. CASE ~External(pends[i])
    BY <1>2, <2>2 DEF ListSound, Pruned
  <2> QED
    BY <2>1, <2>2
<1>8. \A n \in 1 .. Len(rs), i \in 1 .. Len(pends) : Covers(b[i], n) <=> Covers(pends[i], n)
  <2> TAKE n \in 1 .. Len(rs), i \in 1 .. Len(pends)
  <2>1. CASE External(pends[i])
    BY <1>1, <1>2, <2>1 DEF Covers, External
  <2>2. CASE ~External(pends[i])
    BY <1>2, <2>2
  <2> QED
    BY <2>1, <2>2
<1>9. ASSUME NEW done \in Nat, Complete(pends, rs, dis, done) PROVE Complete(b, rs, dis, done)
  <2> SUFFICES ASSUME NEW n \in done + 1 .. Len(rs), Needs(n, rs, dis)
               PROVE  \E k \in 1 .. Len(b) : FirstCover(b, k, n) /\ Serves(b[k], n, rs, dis)
    BY DEF Complete
  <2>1. n \in 1 .. Len(rs)
    BY <1>1
  <2>2. PICK k \in 1 .. Len(pends) : FirstCover(pends, k, n) /\ Serves(pends[k], n, rs, dis)
    BY <1>9 DEF Complete
  <2>3. FirstCover(b, k, n)
    BY <1>3, <1>8, <2>1, <2>2 DEF FirstCover
  <2>4. Serves(b[k], n, rs, dis)
    BY <1>2, <2>2 DEF Serves, External
  <2> QED
    BY <1>2, <2>2, <2>3, <2>4
<1> QED
  BY <1>2, <1>4, <1>5, <1>6, <1>7, <1>9 DEF b, ListSound

\* Entries stay right when the requests grow and no owner is writing.
LEMMA Growing ==
    ASSUME NEW pends \in Seq(Pending), NEW rs \in Seq(Request), NEW rs2 \in Seq(Request),
           NEW eds, NEW eds2, NEW dis, NEW dis2, NEW read,
           Len(rs) <= Len(rs2), \A i \in 1 .. Len(rs) : rs2[i] = rs[i],
           eds \subseteq eds2, dis \subseteq dis2,
           ListSound(pends, rs, eds, dis, read),
           \A i \in 1 .. Len(pends) : External(pends[i]) => Len(rs2) = Len(rs)
    PROVE  ListSound(pends, rs2, eds2, dis2, read)
<1>1. \A i \in 1 .. Len(pends) : EntrySound(pends[i], rs2, eds2, dis2)
  <2> TAKE i \in 1 .. Len(pends)
  <2>1. pends[i] \in Pending /\ EntrySound(pends[i], rs, eds, dis)
    BY PendingFields DEF ListSound
  <2>2. External(pends[i]) => Len(rs2) = Len(rs)
    OBVIOUS
  <2> QED
    BY <2>1, <2>2, EntryGrows
<1> QED
  BY <1>1 DEF ListSound

\* _xcb_in_expect_reply: an entry for the newest request at the tail.
LEMMA Adding ==
    ASSUME NEW pends \in Seq(Pending), NEW pend \in Pending, NEW rs, NEW eds, NEW dis, NEW read,
           ListSound(pends, rs, eds, dis, read), EntrySound(pend, rs, eds, dis),
           \A i \in 1 .. Len(pends) : /\ ~External(pends[i])
                                      /\ pends[i].last_request <= pend.first_request,
           External(pend) \/ pend.last_request >= read
    PROVE  /\ Append(pends, pend) \in Seq(Pending)
           /\ Len(Append(pends, pend)) = Len(pends) + 1
           /\ \A i \in 1 .. Len(pends) : Append(pends, pend)[i] = pends[i]
           /\ Append(pends, pend)[Len(pends) + 1] = pend
           /\ ListSound(Append(pends, pend), rs, eds, dis, read)
<1> DEFINE a == Append(pends, pend)
<1>1. /\ a \in Seq(Pending) /\ Len(a) = Len(pends) + 1
      /\ \A i \in 1 .. Len(pends) : a[i] = pends[i]
      /\ a[Len(pends) + 1] = pend
  BY AppendProperties
<1>2. Len(pends) \in Nat
  BY LenProperties
<1> HIDE DEF a
<1>3. \A i \in 1 .. Len(a) : i \in 1 .. Len(pends) \/ i = Len(pends) + 1
  BY <1>1, <1>2
<1>4. \A i \in 1 .. Len(a) : EntrySound(a[i], rs, eds, dis)
  BY <1>1, <1>3 DEF ListSound
<1>5. Ordered(a)
  <2> SUFFICES ASSUME NEW i \in 1 .. Len(a), NEW j \in 1 .. Len(a), i < j
               PROVE  ~External(a[i]) /\ a[i].last_request <= a[j].first_request
    BY DEF Ordered
  <2>1. i \in 1 .. Len(pends)
    BY <1>1, <1>2
  <2>2. CASE j \in 1 .. Len(pends)
    BY <1>1, <2>1, <2>2 DEF ListSound, Ordered
  <2>3. CASE j = Len(pends) + 1
    BY <1>1, <2>1, <2>3
  <2> QED
    BY <1>3, <2>2, <2>3
<1>6. Pruned(a, read)
  <2> SUFFICES ASSUME NEW i \in 1 .. Len(a)
               PROVE  External(a[i]) \/ a[i].last_request >= read
    BY DEF Pruned
  <2>1. CASE i \in 1 .. Len(pends)
    BY <1>1, <2>1 DEF ListSound, Pruned
  <2>2. CASE i = Len(pends) + 1
    BY <1>1, <2>2
  <2> QED
    BY <1>3, <2>1, <2>2
<1> QED
  BY <1>1, <1>4, <1>5, <1>6 DEF a, ListSound

\* The list says of the old requests what it said, when entries are added at
\* the tail, and what it must of the new ones.
LEMMA CompleteGrows ==
    ASSUME NEW pends, NEW pends2, NEW rs, NEW rs2, NEW dis, NEW done \in Nat,
           Len(rs) \in Nat, Len(rs2) \in Nat, Len(pends) \in Nat, Len(pends2) \in Nat,
           Len(rs) <= Len(rs2), \A i \in 1 .. Len(rs) : rs2[i] = rs[i],
           Len(pends) <= Len(pends2), \A i \in 1 .. Len(pends) : pends2[i] = pends[i],
           Complete(pends, rs, dis, done),
           \A n \in Len(rs) + 1 .. Len(rs2) :
               Needs(n, rs2, dis) =>
                  \E k \in 1 .. Len(pends2) :
                     FirstCover(pends2, k, n) /\ Serves(pends2[k], n, rs2, dis)
    PROVE  Complete(pends2, rs2, dis, done)
<1> SUFFICES ASSUME NEW n \in done + 1 .. Len(rs2), Needs(n, rs2, dis)
             PROVE  \E k \in 1 .. Len(pends2) :
                       FirstCover(pends2, k, n) /\ Serves(pends2[k], n, rs2, dis)
  BY DEF Complete
<1>1. CASE n > Len(rs)
  <2>1. n \in Len(rs) + 1 .. Len(rs2)
    BY <1>1
  <2> QED
    BY <2>1
<1>2. CASE n <= Len(rs)
  <2>1. n \in 1 .. Len(rs) /\ n \in done + 1 .. Len(rs)
    BY <1>2
  <2>2. rs2[n] = rs[n]
    BY <2>1
  <2>3. Needs(n, rs, dis)
    BY <2>2 DEF Needs
  <2>4. PICK k \in 1 .. Len(pends) : FirstCover(pends, k, n) /\ Serves(pends[k], n, rs, dis)
    BY <2>1, <2>3 DEF Complete
  <2>5. k \in 1 .. Len(pends2) /\ 1 .. k - 1 \subseteq 1 .. Len(pends)
    OBVIOUS
  <2>6. FirstCover(pends2, k, n)
    BY <2>4, <2>5 DEF FirstCover
  <2>7. Serves(pends2[k], n, rs2, dis)
    BY <2>2, <2>4 DEF Serves, ToDiscard
  <2> QED
    BY <2>5, <2>6, <2>7
<1> QED
  BY <1>1, <1>2

\* An entry at the tail is the first about a request that no other is about.
LEMMA LastCovers ==
    ASSUME NEW pends, NEW k \in Nat, NEW n,
           \A i \in 1 .. k - 1 : ~External(pends[i]) /\ ~(n <= pends[i].last_request),
           Covers(pends[k], n)
    PROVE  FirstCover(pends, k, n)
  BY DEF FirstCover, Covers, External

\* read_packet drops a part of the list up to an entry that is not finished.
LEMMA DropDoes ==
    ASSUME NEW pends \in Seq(Pending), NEW done \in Nat
    PROVE  LET d == drop_finished(pends, done)
           IN  \E f \in 1 .. Len(pends) + 1 :
                 /\ d \in Seq(Pending) /\ Len(d) = Len(pends) - f + 1
                 /\ \A i \in 1 .. Len(d) : d[i] = pends[f + i - 1]
                 /\ \A i \in 1 .. f - 1 : Finished(pends[i], done)
                 /\ f <= Len(pends) => ~Finished(pends[f], done)
<1> DEFINE d == drop_finished(pends, done)
           kept == {i \in 1 .. Len(pends) : ~Finished(pends[i], done)}
           first == CHOOSE i \in kept : \A j \in kept : i <= j
<1>1. d \in Seq(Pending)
  BY DropType
<1>2. Len(pends) \in Nat
  BY LenProperties
<1>3. CASE kept = {}
  <2>1. d = <<>> /\ Len(d) = 0
    BY <1>3 DEF drop_finished
  <2>2. \A i \in 1 .. Len(pends) : Finished(pends[i], done)
    BY <1>3
  <2>3. Len(pends) + 1 \in 1 .. Len(pends) + 1 /\ (Len(pends) + 1) - 1 = Len(pends)
        /\ Len(pends) - (Len(pends) + 1) + 1 = 0 /\ ~(Len(pends) + 1 <= Len(pends))
    BY <1>2
  <2> HIDE DEF d
  <2>4. \A i \in 1 .. Len(d) : d[i] = pends[(Len(pends) + 1) + i - 1]
    BY <2>1
  <2> QED
    BY <1>1, <2>1, <2>2, <2>3, <2>4 DEF d
<1>4. CASE kept # {}
  <2>1. kept \in SUBSET Nat
    OBVIOUS
  <2>2. \E i \in kept : \A j \in kept : i <= j
    <3> HIDE DEF kept
    <3> QED
      BY <1>4, <2>1, LeastExists
  <2>3. first \in kept /\ \A j \in kept : first <= j
    <3> HIDE DEF kept
    <3> QED
      BY <2>2
  <2>4. d = SubSeq(pends, first, Len(pends))
    BY <1>4 DEF drop_finished
  <2>5. first \in 1 .. Len(pends) /\ ~Finished(pends[first], done)
    BY <2>3
  <2>6. \A i \in 1 .. first - 1 : Finished(pends[i], done)
    <3> SUFFICES ASSUME NEW i \in 1 .. first - 1, ~Finished(pends[i], done) PROVE FALSE
      OBVIOUS
    <3>1. first \in Nat /\ i \in Nat /\ ~(first <= i) /\ i \in 1 .. Len(pends)
      <4> HIDE DEF first
      <4> QED
        BY <1>2, <2>5
    <3>2. i \in kept
      BY <3>1
    <3> HIDE DEF first, kept
    <3> QED
      BY <2>3, <3>1, <3>2
  <2> HIDE DEF first, kept, d
  <2>7. \A i \in first .. Len(pends) : pends[i] \in Pending
    BY <1>2, <2>5, ElementOfSeq
  <2>8. /\ Len(d) = Len(pends) - first + 1
        /\ \A i \in 1 .. Len(pends) - first + 1 : d[i] = pends[first + i - 1]
    BY <1>2, <2>4, <2>5, <2>7, SubSeqProperties
  <2>9. first \in 1 .. Len(pends) + 1
    BY <1>2, <2>5
  <2> QED
    BY <1>1, <2>5, <2>6, <2>8, <2>9 DEF d
<1> QED
  BY <1>3, <1>4

\* What is left is right for the requests that can still have responses.
LEMMA Dropping ==
    ASSUME NEW pends \in Seq(Pending), NEW rs \in Seq(Request), NEW eds, NEW dis,
           NEW read0, NEW read \in Nat, NEW done \in Nat, read <= done + 1,
           ListSound(pends, rs, eds, dis, read0)
    PROVE  LET d == drop_finished(pends, done)
           IN  /\ d \in Seq(Pending)
               /\ ListSound(d, rs, eds, dis, read)
               /\ \A j \in 1 .. Len(d) : \E i \in 1 .. Len(pends) : d[j] = pends[i]
               /\ \A done0, done1 \in Nat :
                     Complete(pends, rs, dis, done0) /\ done0 <= done1 /\ done <= done1
                     => Complete(d, rs, dis, done1)
               /\ \A n \in 1 .. Len(rs), k \in 1 .. Len(pends) :
                     n = done + 1 /\ FirstCover(pends, k, n)
                     => head_matches(d, n) /\ Head(d) = pends[k]
<1> DEFINE d == drop_finished(pends, done)
<1>1. PICK f \in 1 .. Len(pends) + 1 :
         /\ d \in Seq(Pending) /\ Len(d) = Len(pends) - f + 1
         /\ \A i \in 1 .. Len(d) : d[i] = pends[f + i - 1]
         /\ \A i \in 1 .. f - 1 : Finished(pends[i], done)
         /\ f <= Len(pends) => ~Finished(pends[f], done)
  BY DropDoes
<1> HIDE DEF d
<1>2. /\ Len(pends) \in Nat /\ Len(rs) \in Nat
      /\ \A i \in 1 .. Len(pends) : /\ pends[i].first_request \in Nat
                                    /\ pends[i].last_request \in Nat
                                    /\ pends[i].first_request <= pends[i].last_request
  <2>1. /\ Len(pends) \in Nat
        /\ \A i \in 1 .. Len(pends) : /\ pends[i].first_request \in Nat
                                      /\ pends[i].last_request \in Nat
    BY PendingFields
  <2> QED
    BY <2>1, LenProperties DEF ListSound, EntrySound
<1>n. Len(pends) \in Nat /\ f \in Nat /\ f >= 1 /\ f <= Len(pends) + 1 /\ Len(d) \in Nat
  BY <1>1, <1>2
<1>3. \A j \in 1 .. Len(d) : f + j - 1 \in 1 .. Len(pends) /\ d[j] = pends[f + j - 1]
  BY <1>1, <1>n
<1>4. \A j \in 1 .. Len(d) : EntrySound(d[j], rs, eds, dis)
  BY <1>3 DEF ListSound
<1>5. Ordered(d)
  <2> SUFFICES ASSUME NEW i \in 1 .. Len(d), NEW j \in 1 .. Len(d), i < j
               PROVE  ~External(d[i]) /\ d[i].last_request <= d[j].first_request
    BY DEF Ordered
  <2>1. f + i - 1 < f + j - 1
    BY <1>n
  <2> QED
    BY <1>3, <2>1 DEF ListSound, Ordered
<1>6. Pruned(d, read)
  <2> SUFFICES ASSUME NEW j \in 1 .. Len(d), ~External(d[j])
               PROVE  d[j].last_request >= read
    BY DEF Pruned
  <2>1. f <= Len(pends) /\ f \in 1 .. Len(pends) /\ f <= f + j - 1
    BY <1>1, <1>n
  <2>2. ~Finished(pends[f], done)
    BY <1>1, <2>1
  <2>3. CASE j = 1
    <3>1. d[j] = pends[f]
      BY <1>3, <1>n, <2>3
    <3>2. d[j].last_request \in Nat /\ ~(d[j].last_request <= done)
      BY <1>2, <2>1, <2>2, <3>1 DEF Finished, External
    <3> QED
      BY <3>2
  <2>4. CASE j > 1
    <3> DEFINE k == f + j - 1
    <3>1. k \in 1 .. Len(pends) /\ f < k /\ d[j] = pends[k]
      BY <1>3, <1>n, <2>4
    <3> HIDE DEF k
    <3>2. ~External(pends[f]) /\ pends[f].last_request <= pends[k].first_request
      BY <2>1, <3>1 DEF ListSound, Ordered
    <3>3. ~(pends[f].last_request <= done)
      BY <2>2, <3>2 DEF Finished, External
    <3>4. /\ pends[f].last_request \in Nat /\ pends[k].first_request \in Nat
          /\ pends[k].last_request \in Nat /\ pends[k].first_request <= pends[k].last_request
      BY <1>2, <2>1, <3>1
    <3> QED
      BY <3>1, <3>2, <3>3, <3>4
  <2> QED
    BY <2>3, <2>4
\* An entry about a request that is not done is not finished.
<1>7. ASSUME NEW n \in Nat, n > done, NEW k \in 1 .. Len(pends), FirstCover(pends, k, n)
      PROVE  /\ f <= k /\ k - f + 1 \in 1 .. Len(d) /\ d[k - f + 1] = pends[k]
             /\ FirstCover(d, k - f + 1, n)
  <2>1. Covers(pends[k], n) /\ \A j \in 1 .. k - 1 : ~Covers(pends[j], n)
    BY <1>7 DEF FirstCover
  <2>2. ~Finished(pends[k], done)
    <3>1. pends[k].last_request \in Nat
      BY <1>2
    <3> QED
      BY <1>7, <2>1, <3>1 DEF Covers, Finished
  <2>3. f <= k
    <3>1. CASE k < f
      <4>1. k \in 1 .. f - 1
        BY <1>n, <3>1
      <4> QED
        BY <1>1, <2>2, <4>1
    <3> QED
      BY <1>n, <3>1
  <2>4. k - f + 1 \in 1 .. Len(d) /\ f + (k - f + 1) - 1 = k
    BY <1>1, <1>n, <2>3
  <2>5. d[k - f + 1] = pends[k]
    BY <1>3, <2>4
  <2>6. \A j \in 1 .. (k - f + 1) - 1 : ~Covers(d[j], n)
    <3> TAKE j \in 1 .. (k - f + 1) - 1
    <3>1. j \in 1 .. Len(d) /\ f + j - 1 \in 1 .. k - 1
      BY <1>n, <2>3, <2>4
    <3> QED
      BY <1>3, <2>1, <3>1
  <2> QED
    BY <2>1, <2>3, <2>4, <2>5, <2>6 DEF FirstCover
<1>8. ASSUME NEW done0 \in Nat, NEW done1 \in Nat, Complete(pends, rs, dis, done0),
             done0 <= done1, done <= done1
      PROVE  Complete(d, rs, dis, done1)
  <2> SUFFICES ASSUME NEW n \in done1 + 1 .. Len(rs), Needs(n, rs, dis)
               PROVE  \E k \in 1 .. Len(d) : FirstCover(d, k, n) /\ Serves(d[k], n, rs, dis)
    BY DEF Complete
  <2>1. n \in done0 + 1 .. Len(rs) /\ n \in Nat /\ n > done
    BY <1>2, <1>8
  <2>2. PICK k \in 1 .. Len(pends) : FirstCover(pends, k, n) /\ Serves(pends[k], n, rs, dis)
    BY <1>8, <2>1 DEF Complete
  <2>3. /\ k - f + 1 \in 1 .. Len(d) /\ d[k - f + 1] = pends[k]
        /\ FirstCover(d, k - f + 1, n)
    BY <1>7, <2>1, <2>2
  <2> QED
    BY <2>2, <2>3
\* The first entry about the next request to be answered is the head.
<1>9. ASSUME NEW n \in 1 .. Len(rs), NEW k \in 1 .. Len(pends),
             n = done + 1, FirstCover(pends, k, n)
      PROVE  head_matches(d, n) /\ Head(d) = pends[k]
  <2>1. n \in Nat /\ n > done
    BY <1>9
  <2>2. f <= k /\ k - f + 1 \in 1 .. Len(d) /\ d[k - f + 1] = pends[k]
    BY <1>7, <1>9, <2>1
  <2>3. f \in 1 .. Len(pends) /\ ~Finished(pends[f], done)
    BY <1>1, <1>n, <2>2
  <2>4. f = k
    <3> SUFFICES ASSUME f < k PROVE FALSE
      BY <1>n, <2>2
    <3>1. ~External(pends[f]) /\ pends[f].last_request <= pends[k].first_request
      BY <2>3 DEF ListSound, Ordered
    <3>2. /\ pends[f].last_request \in Nat /\ pends[k].first_request \in Nat
          /\ pends[f].first_request \in Nat
          /\ pends[f].first_request <= pends[f].last_request
      BY <1>2, <2>3
    <3>3. ~(pends[f].last_request <= done)
      BY <2>3, <3>1 DEF Finished, External
    <3>4. pends[k].first_request <= n
      BY <1>9 DEF FirstCover, Covers
    <3>5. pends[f].last_request = n
      BY <1>9, <3>1, <3>2, <3>3, <3>4
    <3>6. Covers(pends[f], n)
      BY <3>2, <3>5 DEF Covers
    <3>7. f \in 1 .. k - 1
      BY <1>n
    <3> QED
      BY <1>9, <3>6, <3>7 DEF FirstCover
  <2>5. d[1] = pends[k] /\ Len(d) # 0
    BY <1>n, <2>2, <2>4
  <2>6. d # <<>> /\ Head(d) = d[1]
    <3>1. d \in Seq(Pending)
      BY <1>1
    <3>2. d # <<>>
      BY <2>5, <3>1, EmptySeq
    <3> QED
      BY <3>1, <3>2, HeadTailProperties
  <2> QED
    BY <1>9, <2>5, <2>6 DEF head_matches, FirstCover
<1> QED
  BY <1>1, <1>3, <1>4, <1>5, <1>6, <1>8, <1>9 DEF d, ListSound

\* Marking an entry changes its flags only.
LEMMA MarkDoes ==
    ASSUME NEW pends \in Seq(Pending), NEW i \in 1 .. Len(pends)
    PROVE  LET m == mark_discard(pends, i)
           IN  /\ m \in Seq(Pending) /\ Len(m) = Len(pends)
               /\ \A j \in 1 .. Len(pends) :
                    /\ j # i => m[j] = pends[j]
                    /\ m[j].first_request = pends[j].first_request
                    /\ m[j].last_request = pends[j].last_request
                    /\ m[j].workaround = pends[j].workaround
                    /\ j = i => m[j].flags = pends[j].flags \cup {"DISCARD_REPLY"}
<1> DEFINE m == mark_discard(pends, i)
           new == [pends[i] EXCEPT !.flags = @ \cup {"DISCARD_REPLY"}]
<1>1. m \in Seq(Pending)
  BY MarkType
<1>2. /\ Len(pends) \in Nat /\ DOMAIN pends = 1 .. Len(pends)
      /\ pends[i] \in Pending
  BY PendingFields
<1>3. /\ new.first_request = pends[i].first_request
      /\ new.last_request = pends[i].last_request
      /\ new.workaround = pends[i].workaround
      /\ new.flags = pends[i].flags \cup {"DISCARD_REPLY"}
  BY <1>2 DEF Pending
<1>4. m = [pends EXCEPT ![i] = new]
  BY DEF mark_discard
<1>5. \A j \in 1 .. Len(pends) : m[j] = IF j = i THEN new ELSE pends[j]
  BY <1>2, <1>4
<1>6. Len(m) = Len(pends)
  <2>1. DOMAIN m = 1 .. Len(m) /\ Len(m) \in Nat
    BY <1>1, LenProperties
  <2>2. DOMAIN m = 1 .. Len(pends)
    BY <1>2, <1>4
  <2> QED
    BY <1>2, <2>1, <2>2, SameLength
<1> HIDE DEF m, new
<1> QED
  BY <1>1, <1>3, <1>5, <1>6 DEF m

\* discard_reply marks the first entry about request n.
LEMMA Marking ==
    ASSUME NEW pends \in Seq(Pending), NEW rs \in Seq(Request), NEW eds, NEW dis, NEW read,
           NEW n \in 1 .. Len(rs), NEW i \in 1 .. Len(pends),
           ListSound(pends, rs, eds, dis, read), MarkAt(pends, i, n)
    PROVE  LET m == mark_discard(pends, i)
           IN  /\ m \in Seq(Pending)
               /\ ListSound(m, rs, eds, dis \cup {n}, read)
               /\ \A own, oflags : OpenEntry(pends, own, oflags) => OpenEntry(m, own, oflags)
               /\ \A done \in Nat : Complete(pends, rs, dis, done)
                                    => Complete(m, rs, dis \cup {n}, done)
               /\ Len(m) = Len(pends)
               /\ \A j \in 1 .. Len(pends) : External(pends[j]) => External(m[j])
<1> DEFINE m == mark_discard(pends, i)
           dis2 == dis \cup {n}
<1>   /\ FirstCover(pends, i, n)
      /\ Careful => /\ pends[i].first_request = n /\ pends[i].last_request = n
                    /\ ~External(pends[i])
  BY DEF MarkAt
<1>1. /\ m \in Seq(Pending) /\ Len(m) = Len(pends)
      /\ \A j \in 1 .. Len(pends) :
           /\ j # i => m[j] = pends[j]
           /\ m[j].first_request = pends[j].first_request
           /\ m[j].last_request = pends[j].last_request
           /\ m[j].workaround = pends[j].workaround
           /\ j = i => m[j].flags = pends[j].flags \cup {"DISCARD_REPLY"}
  BY MarkDoes
<1>2. Len(pends) \in Nat /\ Len(rs) \in Nat
  BY LenProperties
<1> HIDE DEF m
<1>3. \A k : \A j \in 1 .. Len(pends) : /\ External(m[j]) <=> External(pends[j])
                                        /\ Covers(m[j], k) <=> Covers(pends[j], k)
  BY <1>1 DEF External, Covers
<1>4. \A j \in 1 .. Len(pends) : /\ "CHECKED" \in m[j].flags <=> "CHECKED" \in pends[j].flags
                                 /\ "DISCARD_REPLY" \in pends[j].flags => "DISCARD_REPLY" \in m[j].flags
  <2> TAKE j \in 1 .. Len(pends)
  <2>1. CASE j = i
    BY <1>1, <2>1
  <2>2. CASE j # i
    BY <1>1, <2>2
  <2> QED
    BY <2>1, <2>2
<1>5. ASSUME NEW j \in 1 .. Len(m) PROVE EntrySound(m[j], rs, eds, dis2)
  <2>0. j \in 1 .. Len(pends)
    BY <1>1
  <2>1. /\ EntrySound(pends[j], rs, eds, dis) /\ pends[j] \in Pending
        /\ m[j].first_request = pends[j].first_request
        /\ m[j].last_request = pends[j].last_request
        /\ m[j].workaround = pends[j].workaround
        /\ External(m[j]) <=> External(pends[j])
        /\ "CHECKED" \in m[j].flags <=> "CHECKED" \in pends[j].flags
    BY <1>1, <1>3, <1>4, <2>0, PendingFields DEF ListSound
  <2>2. OwnersRest(m[j], rs)
    BY <2>1 DEF EntrySound, OwnersRest
  <2>3. SingleRight(m[j], rs, eds) /\ GlxRight(m[j], rs)
    BY <2>1 DEF EntrySound, SingleRight, GlxRight
  <2>4. DiscardRight(m[j], rs, dis2)
    <3>1. CASE j = i
      <4>1. n > 0 /\ ToDiscard(n, rs, dis2)
        BY <1>2 DEF ToDiscard
      <4> QED
        BY <2>1, <3>1, <4>1 DEF DiscardRight
    <3>2. CASE j # i
      <4>1. m[j] = pends[j]
        BY <1>1, <2>0, <3>2
      <4> QED
        BY <2>1, <4>1 DEF EntrySound, DiscardRight, ToDiscard
    <3> QED
      BY <3>1, <3>2
  <2> QED
    BY <2>1, <2>2, <2>3, <2>4 DEF EntrySound
<1>6. Ordered(m) /\ Pruned(m, read)
  BY <1>1, <1>3 DEF ListSound, Ordered, Pruned
<1>7. ASSUME NEW own, NEW oflags, OpenEntry(pends, own, oflags) PROVE OpenEntry(m, own, oflags)
  BY <1>1, <1>3, <1>4, <1>7 DEF OpenEntry
<1>8. ASSUME NEW done \in Nat, Complete(pends, rs, dis, done) PROVE Complete(m, rs, dis2, done)
  <2> SUFFICES ASSUME NEW k \in done + 1 .. Len(rs), Needs(k, rs, dis2)
               PROVE  \E l \in 1 .. Len(m) : FirstCover(m, l, k) /\ Serves(m[l], k, rs, dis2)
    BY DEF Complete
  <2>0. \A l \in 1 .. Len(pends) : FirstCover(pends, l, k) => FirstCover(m, l, k)
    <3> SUFFICES ASSUME NEW l \in 1 .. Len(pends), FirstCover(pends, l, k)
                 PROVE  FirstCover(m, l, k)
      OBVIOUS
    <3>1. \A j \in 1 .. l - 1 : j \in 1 .. Len(pends)
      BY <1>2
    <3> QED
      BY <1>3, <3>1 DEF FirstCover
  <2>1. CASE Needs(k, rs, dis)
    <3>1. PICK l \in 1 .. Len(pends) : FirstCover(pends, l, k) /\ Serves(pends[l], k, rs, dis)
      BY <1>8, <2>1 DEF Complete
    <3>2. CASE k # n
      <4>1. Serves(m[l], k, rs, dis2)
        BY <1>1, <1>4, <3>1, <3>2 DEF Serves, ToDiscard
      <4> QED
        BY <1>1, <2>0, <3>1, <4>1
    <3>3. CASE k = n
      <4>1. l = i
        BY <1>2, <3>1, <3>3 DEF FirstCover
      <4>2. "DISCARD_REPLY" \in m[l].flags
        BY <1>1, <4>1
      <4>3. Serves(m[l], k, rs, dis2)
        BY <1>1, <1>4, <3>1, <4>2 DEF Serves
      <4> QED
        BY <1>1, <2>0, <3>1, <4>3
    <3> QED
      BY <3>2, <3>3
  <2>2. CASE ~Needs(k, rs, dis)
    <3>1. k = n /\ rs[k].flags = {} /\ rs[k].workaround = "NONE"
      BY <2>2 DEF Needs
    <3>2. "DISCARD_REPLY" \in m[i].flags
      BY <1>1
    <3>3. Serves(m[i], k, rs, dis2)
      BY <3>1, <3>2 DEF Serves
    <3> QED
      BY <1>1, <2>0, <3>1, <3>3
  <2> QED
    BY <2>1, <2>2
<1> QED
  BY <1>1, <1>3, <1>5, <1>6, <1>7, <1>8 DEF m, ListSound

\* insert_pending_discard leaves the other entries as they are.
DiscardEntry(n) ==
    [first_request |-> n, last_request |-> n, workaround |-> "NONE", flags |-> {"DISCARD_REPLY"}]

LEMMA InsertDoes ==
    ASSUME NEW pends \in Seq(Pending), NEW i \in 1 .. Len(pends) + 1, NEW n \in Nat
    PROVE  LET r == insert_pending_discard(pends, i, n)
           IN  /\ r \in Seq(Pending) /\ Len(r) = Len(pends) + 1
               /\ \A j \in 1 .. i - 1 : r[j] = pends[j]
               /\ r[i] = DiscardEntry(n)
               /\ \A j \in i .. Len(pends) : r[j + 1] = pends[j]
<1> DEFINE a == SubSeq(pends, 1, i - 1)
           b == SubSeq(pends, i, Len(pends))
           e == DiscardEntry(n)
           ae == a \o <<e>>
           r == insert_pending_discard(pends, i, n)
<1>1. Len(pends) \in Nat /\ i \in Nat /\ i >= 1 /\ i <= Len(pends) + 1
  BY LenProperties
<1>2. e \in Pending /\ <<e>> \in Seq(Pending) /\ Len(<<e>>) = 1 /\ <<e>>[1] = e
  BY DEF DiscardEntry, Pending, Workaround, Flag
<1>3. r \in Seq(Pending) /\ r = ae \o b
  BY InsertType DEF insert_pending_discard, DiscardEntry
<1>p. \A j \in 1 .. Len(pends) : pends[j] \in Pending
  BY ElementOfSeq
<1>4. /\ a \in Seq(Pending) /\ Len(a) = i - 1
      /\ \A j \in 1 .. i - 1 : a[j] = pends[j]
  <2>1. \A j \in 1 .. i - 1 : pends[j] \in Pending
    BY <1>1, <1>p
  <2>2. /\ a \in Seq(Pending) /\ Len(a) = IF 1 <= i - 1 THEN (i - 1) - 1 + 1 ELSE 0
        /\ \A j \in 1 .. (i - 1) - 1 + 1 : a[j] = pends[1 + j - 1]
    BY <1>1, <2>1, SubSeqProperties
  <2> QED
    BY <1>1, <2>2
<1>5. /\ b \in Seq(Pending) /\ Len(b) = Len(pends) - i + 1
      /\ \A j \in 1 .. Len(pends) - i + 1 : b[j] = pends[i + j - 1]
  <2>1. \A j \in i .. Len(pends) : pends[j] \in Pending
    BY <1>1, <1>p
  <2>2. /\ b \in Seq(Pending) /\ Len(b) = IF i <= Len(pends) THEN Len(pends) - i + 1 ELSE 0
        /\ \A j \in 1 .. Len(pends) - i + 1 : b[j] = pends[i + j - 1]
    BY <1>1, <2>1, SubSeqProperties
  <2> QED
    BY <1>1, <2>2
<1> HIDE DEF a, b, e
<1>6. /\ ae \in Seq(Pending) /\ Len(ae) = i
      /\ \A j \in 1 .. i : ae[j] = IF j <= i - 1 THEN a[j] ELSE <<e>>[j - (i - 1)]
  BY <1>1, <1>2, <1>4, ConcatProperties
<1>7. /\ \A j \in 1 .. i - 1 : ae[j] = pends[j]
      /\ ae[i] = e
  <2>1. \A j \in 1 .. i - 1 : j \in 1 .. i /\ j <= i - 1
    BY <1>1
  <2>2. i \in 1 .. i /\ ~(i <= i - 1) /\ i - (i - 1) = 1
    BY <1>1
  <2> HIDE DEF ae
  <2> QED
    BY <1>2, <1>4, <1>6, <2>1, <2>2
<1> HIDE DEF ae, r
<1>8. /\ Len(r) = i + Len(b)
      /\ \A j \in 1 .. i + Len(b) : r[j] = IF j <= i THEN ae[j] ELSE b[j - i]
  <2>1. /\ Len(ae \o b) = Len(ae) + Len(b)
        /\ \A j \in 1 .. Len(ae) + Len(b) :
              (ae \o b)[j] = IF j <= Len(ae) THEN ae[j] ELSE b[j - Len(ae)]
    BY <1>5, <1>6, ConcatProperties
  <2> QED
    BY <1>3, <1>6, <2>1
<1>9. Len(r) = Len(pends) + 1
  BY <1>1, <1>5, <1>8
<1>10. \A j \in 1 .. i : j \in 1 .. i + Len(b) /\ j <= i
  BY <1>1, <1>5
<1>11. ASSUME NEW j \in i .. Len(pends) PROVE r[j + 1] = pends[j]
  <2>1. /\ j + 1 \in 1 .. i + Len(b) /\ ~(j + 1 <= i)
        /\ (j + 1) - i \in 1 .. Len(pends) - i + 1 /\ i + ((j + 1) - i) - 1 = j
    BY <1>1, <1>5
  <2>2. r[j + 1] = b[(j + 1) - i]
    BY <1>8, <2>1
  <2> QED
    BY <1>5, <2>1, <2>2
<1>12. \A j \in 1 .. i - 1 : r[j] = pends[j]
  BY <1>1, <1>7, <1>8, <1>10
<1>13. r[i] = e
  BY <1>1, <1>7, <1>8, <1>10
<1> QED
  BY <1>3, <1>9, <1>11, <1>12, <1>13 DEF r, e

\* discard_reply inserts an entry for a request that no entry is about.
LEMMA Inserting ==
    ASSUME NEW pends \in Seq(Pending), NEW rs \in Seq(Request), NEW eds, NEW dis, NEW read \in Nat,
           NEW n \in 1 .. Len(rs), NEW i \in 1 .. Len(pends) + 1,
           ListSound(pends, rs, eds, dis, read), InsertAt(pends, i, n, read)
    PROVE  LET r == insert_pending_discard(pends, i, n)
           IN  /\ r \in Seq(Pending)
               /\ ListSound(r, rs, eds, dis \cup {n}, read)
               /\ \A own, oflags : OpenEntry(pends, own, oflags) => OpenEntry(r, own, oflags)
               /\ \A done \in Nat : Complete(pends, rs, dis, done)
                                    => Complete(r, rs, dis \cup {n}, done)
               /\ Len(r) = Len(pends) + 1
               /\ Len(pends) > 0 /\ External(pends[Len(pends)]) => External(r[Len(pends) + 1])
<1> DEFINE r == insert_pending_discard(pends, i, n)
           dis2 == dis \cup {n}
           e == DiscardEntry(n)
<1>   /\ read <= n
      /\ \A j \in 1 .. Len(pends) : ~Covers(pends[j], n)
      /\ \A j \in 1 .. i - 1 : pends[j].first_request <= n
      /\ \A j \in i .. Len(pends) : n <= pends[j].first_request
  BY DEF InsertAt
<1>1. n \in Nat /\ n > 0 /\ Len(rs) \in Nat /\ n <= Len(rs)
  BY LenProperties
<1>2. /\ r \in Seq(Pending) /\ Len(r) = Len(pends) + 1
      /\ \A j \in 1 .. i - 1 : r[j] = pends[j]
      /\ r[i] = e
      /\ \A j \in i .. Len(pends) : r[j + 1] = pends[j]
  BY <1>1, InsertDoes
<1>3. Len(pends) \in Nat /\ i \in Nat /\ i >= 1 /\ i <= Len(pends) + 1
  BY LenProperties
<1>f. \A j \in 1 .. Len(pends) : /\ pends[j] \in Pending
                                 /\ pends[j].first_request \in Nat
                                 /\ pends[j].last_request \in Nat
  BY PendingFields
<1>4. /\ e.first_request = n /\ e.last_request = n /\ ~External(e)
      /\ e.workaround = "NONE" /\ e.flags = {"DISCARD_REPLY"}
  BY DEF DiscardEntry, External
<1> HIDE DEF r, e
<1>5. ASSUME NEW j \in 1 .. Len(r)
      PROVE  \/ j < i /\ j \in 1 .. Len(pends) /\ r[j] = pends[j]
             \/ j = i /\ r[j] = e
             \/ j > i /\ j - 1 \in 1 .. Len(pends) /\ j - 1 >= i /\ r[j] = pends[j - 1]
  <2>1. CASE j < i
    BY <1>2, <1>3, <2>1
  <2>2. CASE j = i
    BY <1>2, <2>2
  <2>3. CASE j > i
    <3>1. j - 1 \in 1 .. Len(pends) /\ j - 1 \in i .. Len(pends) /\ (j - 1) + 1 = j
      BY <1>2, <1>3, <2>3
    <3>2. r[(j - 1) + 1] = pends[j - 1]
      BY <1>2, <3>1
    <3> QED
      BY <1>3, <2>3, <3>1, <3>2
  <2> QED
    BY <1>3, <2>1, <2>2, <2>3
<1>6. \A j \in 1 .. Len(pends) : j < i => ~External(pends[j]) /\ pends[j].last_request < n
  <2> TAKE j \in 1 .. Len(pends)
  <2> HAVE j < i
  <2>1. pends[j].first_request <= n /\ ~Covers(pends[j], n)
    BY <1>3
  <2> QED
    BY <1>1, <1>f, <2>1 DEF Covers, External
<1>7. \A j \in 1 .. Len(pends) : j >= i => n <= pends[j].first_request
  BY <1>3
<1>8. EntrySound(e, rs, eds, dis2)
  <2>1. OwnersRest(e, rs)
    BY <1>1, <1>4 DEF OwnersRest
  <2>2. SingleRight(e, rs, eds) /\ GlxRight(e, rs)
    BY <1>1, <1>4 DEF SingleRight, GlxRight
  <2>3. DiscardRight(e, rs, dis2)
    BY <1>1, <1>4 DEF DiscardRight, ToDiscard
  <2> QED
    BY <1>1, <1>4, <2>1, <2>2, <2>3 DEF EntrySound
<1>9. \A j \in 1 .. Len(pends) : EntrySound(pends[j], rs, eds, dis2)
  <2> TAKE j \in 1 .. Len(pends)
  <2>1. EntrySound(pends[j], rs, eds, dis)
    BY DEF ListSound
  <2> QED
    BY <1>1, <1>f, <2>1, EntryGrows
<1>10. \A j \in 1 .. Len(r) : EntrySound(r[j], rs, eds, dis2)
  BY <1>5, <1>8, <1>9
<1>11. Ordered(r)
  <2> SUFFICES ASSUME NEW j \in 1 .. Len(r), NEW k \in 1 .. Len(r), j < k
               PROVE  ~External(r[j]) /\ r[j].last_request <= r[k].first_request
    BY DEF Ordered
  <2>1. CASE j < i /\ k < i
    BY <1>5, <2>1 DEF ListSound, Ordered
  <2>2. CASE j < i /\ k = i
    <3>1. j \in 1 .. Len(pends) /\ r[j] = pends[j] /\ r[k] = e
      BY <1>3, <1>5, <2>2
    <3>2. ~External(pends[j]) /\ pends[j].last_request < n /\ pends[j].last_request \in Nat
      BY <1>6, <1>f, <2>2, <3>1
    <3> QED
      BY <1>1, <1>4, <3>1, <3>2
  <2>3. CASE j < i /\ k > i
    <3>1. /\ j \in 1 .. Len(pends) /\ r[j] = pends[j]
          /\ k - 1 \in 1 .. Len(pends) /\ r[k] = pends[k - 1] /\ j < k - 1
      BY <1>3, <1>5, <2>3
    <3> QED
      BY <3>1 DEF ListSound, Ordered
  <2>4. CASE j = i
    <3>1. k - 1 \in 1 .. Len(pends) /\ r[k] = pends[k - 1] /\ r[j] = e /\ k - 1 >= i
      BY <1>3, <1>5, <2>4
    <3>2. n <= pends[k - 1].first_request
      BY <1>7, <3>1
    <3> QED
      BY <1>4, <3>1, <3>2
  <2>5. CASE j > i
    <3>1. /\ j - 1 \in 1 .. Len(pends) /\ r[j] = pends[j - 1]
          /\ k - 1 \in 1 .. Len(pends) /\ r[k] = pends[k - 1] /\ j - 1 < k - 1
      BY <1>3, <1>5, <2>5
    <3> QED
      BY <3>1 DEF ListSound, Ordered
  <2> QED
    BY <1>3, <2>1, <2>2, <2>3, <2>4, <2>5
<1>12. Pruned(r, read)
  <2> SUFFICES ASSUME NEW j \in 1 .. Len(r)
               PROVE  External(r[j]) \/ r[j].last_request >= read
    BY DEF Pruned
  <2>1. CASE r[j] = e
    BY <1>1, <1>4, <2>1
  <2>2. CASE \E k \in 1 .. Len(pends) : r[j] = pends[k]
    BY <2>2 DEF ListSound, Pruned
  <2> QED
    BY <1>5, <2>1, <2>2
<1>13. ASSUME NEW own, NEW oflags, OpenEntry(pends, own, oflags) PROVE OpenEntry(r, own, oflags)
  <2> SUFFICES ASSUME NEW j \in 1 .. Len(r), External(r[j])
               PROVE  /\ own
                      /\ "CHECKED" \in r[j].flags <=> "CHECKED" \in oflags
                      /\ "DISCARD_REPLY" \in oflags => "DISCARD_REPLY" \in r[j].flags
    BY DEF OpenEntry
  <2>1. PICK k \in 1 .. Len(pends) : r[j] = pends[k]
    BY <1>4, <1>5
  <2> QED
    BY <1>13, <2>1 DEF OpenEntry
<1>14. ASSUME NEW done \in Nat, Complete(pends, rs, dis, done) PROVE Complete(r, rs, dis2, done)
  <2> SUFFICES ASSUME NEW k \in done + 1 .. Len(rs), Needs(k, rs, dis2)
               PROVE  \E l \in 1 .. Len(r) : FirstCover(r, l, k) /\ Serves(r[l], k, rs, dis2)
    BY DEF Complete
  <2>0. k \in Nat
    BY <1>1
  <2>1. CASE k # n
    <3>1. Needs(k, rs, dis)
      BY <2>1 DEF Needs
    <3>2. PICK l \in 1 .. Len(pends) : FirstCover(pends, l, k) /\ Serves(pends[l], k, rs, dis)
      BY <1>14, <3>1 DEF Complete
    <3>3. Serves(pends[l], k, rs, dis2)
      BY <2>1, <3>2 DEF Serves, ToDiscard
    <3>4. ~Covers(e, k)
      BY <1>1, <1>4, <2>0, <2>1 DEF Covers, External
    <3>5. CASE l < i
      <4>1. l \in 1 .. Len(r) /\ r[l] = pends[l] /\ \A j \in 1 .. l - 1 : r[j] = pends[j]
        BY <1>2, <1>3, <3>5
      <4>2. FirstCover(r, l, k)
        BY <3>2, <4>1 DEF FirstCover
      <4> QED
        BY <3>3, <4>1, <4>2
    <3>6. CASE l >= i
      <4>1. l + 1 \in 1 .. Len(r) /\ r[l + 1] = pends[l] /\ (l + 1) - 1 = l
        BY <1>2, <1>3, <3>6
      <4>2. ASSUME NEW j \in 1 .. l PROVE ~Covers(r[j], k)
        <5>0. \A a \in 1 .. l - 1 : ~Covers(pends[a], k)
          BY <3>2 DEF FirstCover
        <5>1. CASE j < i
          <6>1. j \in 1 .. l - 1 /\ j \in 1 .. i - 1
            BY <1>3, <3>6, <5>1
          <6> QED
            BY <1>2, <5>0, <6>1
        <5>2. CASE j = i
          BY <1>2, <3>4, <5>2
        <5>3. CASE j > i
          <6>1. j - 1 \in 1 .. l - 1 /\ j - 1 \in i .. Len(pends) /\ (j - 1) + 1 = j
            BY <1>3, <5>3
          <6>2. r[(j - 1) + 1] = pends[j - 1]
            BY <1>2, <6>1
          <6> QED
            BY <5>0, <6>1, <6>2
        <5> QED
          BY <1>3, <5>1, <5>2, <5>3
      <4>3. FirstCover(r, l + 1, k)
        BY <3>2, <4>1, <4>2 DEF FirstCover
      <4>4. Serves(r[l + 1], k, rs, dis2)
        BY <3>3, <4>1
      <4> QED
        BY <4>1, <4>3, <4>4
    <3>7. l < i \/ l >= i
      BY <1>3
    <3> QED
      BY <3>5, <3>6, <3>7
  <2>2. CASE k = n
    <3>1. ~Needs(n, rs, dis)
      BY <1>14, <2>2 DEF Complete, FirstCover
    <3>2. Serves(e, n, rs, dis2)
      BY <1>4, <3>1 DEF Needs, Serves
    <3>3. Covers(e, n)
      BY <1>1, <1>4 DEF Covers
    <3>4. \A j \in 1 .. i - 1 : ~Covers(r[j], n)
      BY <1>2, <1>3
    <3>5. i \in 1 .. Len(r)
      BY <1>2, <1>3
    <3> QED
      BY <1>2, <2>2, <3>2, <3>3, <3>4, <3>5 DEF FirstCover
  <2> QED
    BY <2>1, <2>2
<1>15. ASSUME Len(pends) > 0, External(pends[Len(pends)]) PROVE External(r[Len(pends) + 1])
  <2>1. Len(pends) \in 1 .. Len(pends) /\ ~(Len(pends) < i)
    BY <1>3, <1>6, <1>15
  <2>2. Len(pends) \in i .. Len(pends)
    BY <1>3, <2>1
  <2> QED
    BY <1>2, <1>15, <2>2
<1> QED
  BY <1>2, <1>10, <1>11, <1>12, <1>13, <1>14, <1>15 DEF r, ListSound
-----------------------------------------------------------------------------
(* The invariant of the list                                               *)

\* The entry of a socket owner who passed flags is there.
OwnerKnown(pends, own, oflags) ==
    own /\ oflags # {} => Len(pends) > 0 /\ External(pends[Len(pends)])

ListInv ==
    /\ ListSound(pending_replies, reqs, edges, discards, request_read)
    /\ OpenEntry(pending_replies, owned, owner_flags)
    /\ edges \subseteq 0 .. out_request /\ discards \subseteq 1 .. out_request
    /\ OwnerFlags \subseteq {{}} => edges = {}
    /\ ~has_error => /\ Complete(pending_replies, reqs, discards, request_completed)
                     /\ OwnerKnown(pending_replies, owned, owner_flags)

\* A request is completed by its error or by a response to a later one.
CompletedRight ==
    /\ request_completed \in {request_read - 1, request_read}
    /\ ~has_error /\ request_completed = request_read /\ request_read > 0 =>
         \E i \in 1 .. nread : log[i] = Packet("error", request_read)

\* A request has replies or one error.
LogSound ==
    /\ \A i \in 1 .. Len(log) : log[i].type \in {"reply", "error"} => log[i].of > 0
    /\ \A i, j \in 1 .. Len(log) :
         /\ log[i].of = log[j].of /\ log[i].type = "error"
         /\ log[j].type \in {"reply", "error"}
         => i = j

PendInv == RouteInv /\ ListInv /\ LogSound /\ CompletedRight

\* What the proofs about the list need to know of the other variables.
LEMMA ListTypes ==
    ASSUME RouteInv
    PROVE  /\ TypeOK /\ pending_replies \in Seq(Pending) /\ reqs \in Seq(Request)
           /\ Len(reqs) = out_request /\ out_request \in Nat /\ out_request <= MaxRequest
           /\ request_read \in Nat /\ request_read <= Len(reqs) /\ request_completed \in Nat
<1>1. TypeOK /\ SeqInv
  BY DEF RouteInv, StoreInv
<1>2. /\ pending_replies \in Seq(Pending) /\ reqs \in Seq(Request)
      /\ Len(reqs) = out_request /\ out_request \in 0 .. MaxRequest
      /\ request_read \in Nat /\ request_completed \in Nat /\ served \in 0 .. out_request
  BY <1>1 DEF TypeOK
<1>3. request_read <= served
  BY <1>1 DEF SeqInv, WindowInv, LogOrdered
<1> QED
  BY <1>1, <1>2, <1>3, ReplyAssumption

\* rs2 is rs and one more request; no entry of the list is a socket owner's.
Issued(rs, rs2, req) ==
    /\ Len(rs2) = Len(rs) + 1 /\ \A i \in 1 .. Len(rs) : rs2[i] = rs[i]
    /\ rs2[Len(rs) + 1] = req

NoOwner(pends) == \A i \in 1 .. Len(pends) : ~External(pends[i])

\* The list once XCB has its socket back.
Back == IF owned THEN replies_done(pending_replies, out_request) ELSE pending_replies

LEMMA BackDoes ==
    ASSUME RouteInv, ListInv
    PROVE  /\ Back \in Seq(Pending)
           /\ ListSound(Back, reqs, edges, discards, request_read)
           /\ NoOwner(Back)
           /\ ~has_error => Complete(Back, reqs, discards, request_completed)
<1>1. /\ pending_replies \in Seq(Pending) /\ reqs \in Seq(Request)
      /\ Len(reqs) = out_request /\ request_read \in Nat /\ request_read <= Len(reqs)
      /\ request_completed \in Nat /\ owned \in BOOLEAN
  BY ListTypes DEF TypeOK
<1>2. /\ ListSound(pending_replies, reqs, edges, discards, request_read)
      /\ ~has_error => Complete(pending_replies, reqs, discards, request_completed)
  BY DEF ListInv
<1>3. CASE owned
  <2>1. Back = replies_done(pending_replies, Len(reqs))
    BY <1>1, <1>3 DEF Back
  <2> QED
    BY <1>1, <1>2, <2>1, Closing DEF NoOwner
<1>4. CASE ~owned
  <2>1. Back = pending_replies
    BY <1>4 DEF Back
  <2>2. \A i \in 1 .. Len(pending_replies) : ~External(pending_replies[i])
    BY <1>4 DEF ListInv, OpenEntry
  <2> QED
    BY <1>1, <1>2, <2>1, <2>2 DEF NoOwner
<1> QED
  BY <1>1, <1>3, <1>4

\* One more request of XCB, with an entry or without one.
LEMMA AddRequest ==
    ASSUME NEW pends \in Seq(Pending), NEW rs \in Seq(Request), NEW rs2 \in Seq(Request),
           NEW req \in Request, NEW eds, NEW dis \in SUBSET (1 .. Len(rs)), NEW read \in Nat,
           NEW done \in Nat, read <= Len(rs), Issued(rs, rs2, req),
           ListSound(pends, rs, eds, dis, read), NoOwner(pends)
    PROVE  LET p == expect_reply(pends, Len(rs) + 1, req.workaround, req.flags)
           IN  /\ ListSound(pends, rs2, eds, dis, read)
               /\ Complete(pends, rs, dis, done) /\ req.workaround = "NONE" /\ req.flags = {}
                  => Complete(pends, rs2, dis, done)
               /\ p \in Seq(Pending)
               /\ ListSound(p, rs2, eds, dis, read)
               /\ NoOwner(p)
               /\ Complete(pends, rs, dis, done) => Complete(p, rs2, dis, done)
<1> DEFINE n == Len(rs) + 1
           pend == [first_request |-> n, last_request |-> n,
                    workaround |-> req.workaround, flags |-> req.flags]
           p == expect_reply(pends, n, req.workaround, req.flags)
<1>0. /\ Len(rs2) = Len(rs) + 1 /\ \A i \in 1 .. Len(rs) : rs2[i] = rs[i]
      /\ rs2[Len(rs) + 1] = req
      /\ \A i \in 1 .. Len(pends) : ~External(pends[i])
  BY DEF Issued, NoOwner
<1>1. Len(rs) \in Nat /\ n \in Nat /\ n > 0 /\ n \notin dis /\ Len(rs2) \in Nat /\ Len(rs) <= Len(rs2)
  BY <1>0, LenProperties
<1>2. /\ req.workaround \in {"NONE", "GLX_GET_FB_CONFIGS_BUG"} /\ req.flags \in SUBSET Flag
  BY DEF Request
<1>3. /\ pend \in Pending /\ pend.first_request = n /\ pend.last_request = n
      /\ pend.workaround = req.workaround /\ pend.flags = req.flags /\ ~External(pend)
  BY <1>1, <1>2 DEF Pending, Workaround, External
<1>4. p = Append(pends, pend)
  BY DEF expect_reply
<1>5. ListSound(pends, rs2, eds, dis, read)
  BY <1>0, <1>1, Growing
<1> HIDE DEF pend, p, n
<1>6. Len(rs2) = n /\ rs2[n] = req
  BY <1>0 DEF n
<1>7. EntrySound(pend, rs2, eds, dis)
  <2>1. OwnersRest(pend, rs2)
    BY <1>1, <1>3, <1>6 DEF OwnersRest
  <2>2. SingleRight(pend, rs2, eds) /\ GlxRight(pend, rs2)
    BY <1>1, <1>3, <1>6 DEF SingleRight, GlxRight
  <2>3. DiscardRight(pend, rs2, dis)
    BY <1>1, <1>3, <1>6 DEF DiscardRight, ToDiscard
  <2> QED
    BY <1>1, <1>3, <1>6, <2>1, <2>2, <2>3 DEF EntrySound
<1>8. ASSUME NEW i \in 1 .. Len(pends)
      PROVE  ~External(pends[i]) /\ pends[i].last_request <= Len(rs) /\ pends[i].last_request \in Nat
  BY <1>0, PendingFields DEF ListSound, EntrySound
<1>9. \A i \in 1 .. Len(pends) : ~External(pends[i]) /\ pends[i].last_request <= pend.first_request
  BY <1>1, <1>3, <1>8 DEF n
<1>10. pend.last_request >= read
  BY <1>1, <1>3 DEF n
<1>11. /\ p \in Seq(Pending) /\ Len(p) = Len(pends) + 1
       /\ \A i \in 1 .. Len(pends) : p[i] = pends[i]
       /\ p[Len(pends) + 1] = pend
       /\ ListSound(p, rs2, eds, dis, read)
  BY <1>3, <1>4, <1>5, <1>7, <1>9, <1>10, Adding
<1>12. Len(pends) \in Nat /\ Len(p) \in Nat /\ Len(pends) <= Len(p)
  BY <1>11, LenProperties
<1>13. \A i \in 1 .. Len(p) : ~External(p[i])
  <2> TAKE i \in 1 .. Len(p)
  <2>1. i \in 1 .. Len(pends) \/ i = Len(pends) + 1
    BY <1>11, <1>12
  <2> QED
    BY <1>3, <1>8, <1>11, <2>1
<1>14. \A k \in Len(rs) + 1 .. Len(rs2) : k = n
  BY <1>1, <1>6 DEF n
<1>15. ASSUME Complete(pends, rs, dis, done), req.workaround = "NONE", req.flags = {}
       PROVE  Complete(pends, rs2, dis, done)
  <2>1. ~Needs(n, rs2, dis)
    BY <1>1, <1>6, <1>15 DEF Needs
  <2> QED
    BY <1>0, <1>1, <1>12, <1>14, <1>15, <2>1, CompleteGrows
<1>16. ASSUME Complete(pends, rs, dis, done) PROVE Complete(p, rs2, dis, done)
  <2> DEFINE k == Len(pends) + 1
  <2>1. k \in 1 .. Len(p) /\ k \in Nat /\ p[k] = pend /\ k - 1 = Len(pends)
    BY <1>11, <1>12
  <2> HIDE DEF k
  <2>2. Covers(p[k], n)
    BY <1>1, <1>3, <2>1 DEF Covers
  <2>3. \A i \in 1 .. k - 1 : ~External(p[i]) /\ ~(n <= p[i].last_request)
    <3> TAKE i \in 1 .. k - 1
    <3>1. i \in 1 .. Len(pends) /\ p[i] = pends[i]
      BY <1>11, <2>1
    <3>2. ~External(pends[i]) /\ pends[i].last_request <= Len(rs) /\ pends[i].last_request \in Nat
      BY <1>8, <3>1
    <3> QED
      BY <1>1, <3>1, <3>2 DEF n
  <2>4. FirstCover(p, k, n)
    BY <2>1, <2>2, <2>3, LastCovers
  <2>5. Serves(p[k], n, rs2, dis)
    BY <1>1, <1>3, <1>6, <2>1 DEF Serves, ToDiscard
  <2>6. \A j \in Len(rs) + 1 .. Len(rs2) :
           Needs(j, rs2, dis) =>
              \E l \in 1 .. Len(p) : FirstCover(p, l, j) /\ Serves(p[l], j, rs2, dis)
    BY <1>14, <2>1, <2>4, <2>5
  <2> QED
    BY <1>0, <1>1, <1>11, <1>12, <1>16, <2>6, CompleteGrows
<1> QED
  BY <1>5, <1>11, <1>13, <1>15, <1>16 DEF p, n, NoOwner
-----------------------------------------------------------------------------
(* Each action keeps the list right                                        *)

LEMMA ListSame ==
    ASSUME ListInv, has_error => has_error',
           UNCHANGED <<pending_replies, reqs, edges, discards, out_request, request_read,
                       request_completed, owned, owner_flags>>
    PROVE  ListInv'
  BY DEF ListInv

\* xcb_send_request: one entry for the sync request and one for the request,
\* unless memory runs out, which the connection does not survive.
LEMMA ListSend ==
    ASSUME RouteInv, TypeOK', ListInv, NEW req \in Shapes, xcb_send_request(req)
    PROVE  ListInv'
<1> DEFINE sync == needs_sync(req.isvoid, out_request + 1)
           request == IF sync THEN out_request + 2 ELSE out_request + 1
           expects == req.workaround # "NONE" \/ req.flags # {}
           rs1 == IF sync THEN Append(reqs, SyncRequest) ELSE reqs
           p1(ok) == IF sync /\ ok
                     THEN expect_reply(Back, request - 1, "NONE", {"DISCARD_REPLY"})
                     ELSE Back
<1>1. PICK syncpend, pend \in BOOLEAN :
         /\ pending_replies' = IF expects /\ pend
                               THEN expect_reply(p1(syncpend), request, req.workaround, req.flags)
                               ELSE p1(syncpend)
         /\ ~has_error' => (sync => syncpend) /\ (expects => pend)
  BY DEF xcb_send_request, Back
<1>2. /\ ~has_error /\ owned' = FALSE /\ owner_flags' = {} /\ out_request' = request
      /\ reqs' = reqs \o (IF sync THEN <<SyncRequest, req>> ELSE <<req>>)
      /\ UNCHANGED <<request_read, request_completed, edges, discards>>
  BY DEF xcb_send_request, ghosts
<1>3. /\ pending_replies \in Seq(Pending) /\ reqs \in Seq(Request)
      /\ Len(reqs) = out_request /\ out_request \in Nat
      /\ request_read \in Nat /\ request_read <= Len(reqs) /\ request_completed \in Nat
  BY ListTypes
<1>4. req \in Request /\ SyncRequest \in Request
      /\ SyncRequest.workaround = "NONE" /\ SyncRequest.flags = {"DISCARD_REPLY"}
  BY ReplyAssumption DEF SyncRequest, Request, Flag
<1>5. /\ Back \in Seq(Pending)
      /\ ListSound(Back, reqs, edges, discards, request_read)
      /\ NoOwner(Back)
      /\ Complete(Back, reqs, discards, request_completed)
  BY <1>2, BackDoes
<1>6. /\ discards \in SUBSET (1 .. Len(reqs)) /\ edges \subseteq 0 .. out_request
      /\ OwnerFlags \subseteq {{}} => edges = {}
  BY <1>3 DEF ListInv
<1>7. reqs' \in Seq(Request)
  BY DEF TypeOK
<1> HIDE DEF sync
\* After the sync request, if there is one.
<1>8. /\ rs1 \in Seq(Request) /\ Len(rs1) = request - 1 /\ request = Len(rs1) + 1
      /\ discards \in SUBSET (1 .. Len(rs1)) /\ request_read <= Len(rs1)
      /\ \A i \in 1 .. Len(reqs) : rs1[i] = reqs[i]
      /\ Len(reqs) <= Len(rs1)
      /\ p1(syncpend) \in Seq(Pending)
      /\ ListSound(p1(syncpend), rs1, edges, discards, request_read)
      /\ NoOwner(p1(syncpend))
      /\ ~has_error' => Complete(p1(syncpend), rs1, discards, request_completed)
  <2>1. CASE ~sync
    <3>1. rs1 = reqs /\ p1(syncpend) = Back /\ request = out_request + 1
      BY <2>1
    <3> QED
      BY <1>3, <1>5, <1>6, <3>1
  <2>2. CASE sync
    <3>1. rs1 = Append(reqs, SyncRequest) /\ request = out_request + 2
      BY <2>2
    <3>2. /\ rs1 \in Seq(Request) /\ Len(rs1) = Len(reqs) + 1
          /\ \A i \in 1 .. Len(reqs) : rs1[i] = reqs[i]
          /\ rs1[Len(reqs) + 1] = SyncRequest
      BY <1>3, <1>4, <3>1, AppendProperties
    <3> DEFINE p == expect_reply(Back, Len(reqs) + 1, SyncRequest.workaround, SyncRequest.flags)
    <3> HIDE DEF rs1
    <3>3. /\ ListSound(Back, rs1, edges, discards, request_read)
          /\ p \in Seq(Pending)
          /\ ListSound(p, rs1, edges, discards, request_read)
          /\ NoOwner(p)
          /\ Complete(p, rs1, discards, request_completed)
      <4>1. Issued(reqs, rs1, SyncRequest)
        BY <3>2 DEF Issued
      <4> QED
        BY <1>3, <1>4, <1>5, <1>6, <3>2, <4>1, AddRequest
    <3>4. request - 1 = Len(reqs) + 1
      BY <1>3, <3>1
    <3>5. /\ Len(rs1) = request - 1 /\ request = Len(rs1) + 1 /\ request_read <= Len(rs1)
          /\ discards \in SUBSET (1 .. Len(rs1)) /\ Len(reqs) <= Len(rs1)
      BY <1>3, <1>6, <3>1, <3>2
    <3>6. CASE syncpend
      <4>1. p1(syncpend) = p
        BY <1>4, <2>2, <3>4, <3>6
      <4> HIDE DEF p, p1, request
      <4> QED
        BY <3>2, <3>3, <3>5, <4>1
    <3>7. CASE ~syncpend
      <4>1. p1(syncpend) = Back /\ has_error' # FALSE
        BY <1>1, <2>2, <3>7
      <4>2. has_error'
        BY <4>1 DEF TypeOK
      <4> HIDE DEF p1, request
      <4> QED
        BY <1>5, <3>2, <3>3, <3>5, <4>1, <4>2
    <3> QED
      BY <3>6, <3>7
  <2> QED
    BY <2>1, <2>2
\* After the request itself.
<1>9. /\ Len(reqs') = Len(rs1) + 1 /\ \A i \in 1 .. Len(rs1) : reqs'[i] = rs1[i]
      /\ reqs'[Len(rs1) + 1] = req
  <2>1. CASE ~sync
    <3>1. reqs' = Append(reqs, req) /\ rs1 = reqs
      BY <1>2, <1>3, <1>4, <2>1
    <3> QED
      BY <1>3, <1>4, <3>1, AppendProperties
  <2>2. CASE sync
    <3>1. reqs' = reqs \o <<SyncRequest, req>> /\ rs1 = Append(reqs, SyncRequest)
      BY <1>2, <2>2
    <3>2. /\ <<SyncRequest, req>> \in Seq(Request) /\ Len(<<SyncRequest, req>>) = 2
          /\ <<SyncRequest, req>>[1] = SyncRequest /\ <<SyncRequest, req>>[2] = req
      BY <1>4
    <3>3. /\ Len(reqs') = Len(reqs) + 2
          /\ \A i \in 1 .. Len(reqs) + 2 :
               reqs'[i] = IF i <= Len(reqs) THEN reqs[i] ELSE <<SyncRequest, req>>[i - Len(reqs)]
      BY <1>3, <3>1, <3>2, ConcatProperties
    <3>4. /\ Len(rs1) = Len(reqs) + 1 /\ Len(reqs) \in Nat
          /\ \A i \in 1 .. Len(reqs) : rs1[i] = reqs[i]
          /\ rs1[Len(reqs) + 1] = SyncRequest
      BY <1>3, <1>4, <3>1, AppendProperties
    <3> HIDE DEF rs1
    <3>5. reqs'[Len(reqs) + 1] = SyncRequest /\ reqs'[Len(reqs) + 2] = req
      <4>1. /\ Len(reqs) + 1 \in 1 .. Len(reqs) + 2 /\ ~(Len(reqs) + 1 <= Len(reqs))
            /\ (Len(reqs) + 1) - Len(reqs) = 1
            /\ Len(reqs) + 2 \in 1 .. Len(reqs) + 2 /\ ~(Len(reqs) + 2 <= Len(reqs))
            /\ (Len(reqs) + 2) - Len(reqs) = 2
        BY <3>4
      <4> QED
        BY <3>2, <3>3, <4>1
    <3>6. \A i \in 1 .. Len(reqs) : reqs'[i] = reqs[i]
      BY <3>3, <3>4
    <3>7. \A i \in 1 .. Len(rs1) : i \in 1 .. Len(reqs) \/ i = Len(reqs) + 1
      BY <3>4
    <3>8. Len(reqs') = Len(rs1) + 1 /\ Len(rs1) + 1 = Len(reqs) + 2
      BY <3>3, <3>4
    <3> QED
      BY <3>4, <3>5, <3>6, <3>7, <3>8
  <2> QED
    BY <2>1, <2>2
<1>i. Issued(rs1, reqs', req)
  BY <1>9 DEF Issued
<1> DEFINE q == p1(syncpend)
           p2 == expect_reply(q, Len(rs1) + 1, req.workaround, req.flags)
<1> HIDE DEF p1, rs1, request, q
<1>10. /\ ListSound(q, reqs', edges, discards, request_read)
       /\ Complete(q, rs1, discards, request_completed) /\ req.workaround = "NONE" /\ req.flags = {}
          => Complete(q, reqs', discards, request_completed)
       /\ p2 \in Seq(Pending)
       /\ ListSound(p2, reqs', edges, discards, request_read)
       /\ NoOwner(p2)
       /\ Complete(q, rs1, discards, request_completed)
          => Complete(p2, reqs', discards, request_completed)
  <2>1. /\ q \in Seq(Pending) /\ NoOwner(q)
        /\ ListSound(q, rs1, edges, discards, request_read)
    BY <1>8 DEF q
  <2> QED
    BY <1>3, <1>4, <1>7, <1>8, <1>i, <2>1, AddRequest
<1>11. /\ ListSound(pending_replies', reqs', edges, discards, request_read)
       /\ NoOwner(pending_replies')
       /\ ~has_error' => Complete(pending_replies', reqs', discards, request_completed)
  <2>1. CASE expects /\ pend
    <3>1. pending_replies' = p2
      BY <1>1, <1>8, <2>1 DEF q
    <3> HIDE DEF p2
    <3> QED
      BY <1>8, <1>10, <3>1 DEF q
  <2>2. CASE ~(expects /\ pend)
    <3>1. pending_replies' = q
      BY <1>1, <2>2 DEF q
    <3>2. ~has_error' => req.workaround = "NONE" /\ req.flags = {}
      BY <1>1, <2>2
    <3> QED
      BY <1>8, <1>10, <3>1, <3>2 DEF q
  <2> QED
    BY <2>1, <2>2
<1>12. OpenEntry(pending_replies', owned', owner_flags')
  BY <1>11 DEF OpenEntry, NoOwner
<1>13. OwnerKnown(pending_replies', owned', owner_flags')
  BY <1>2 DEF OwnerKnown
<1>14. edges' \subseteq 0 .. out_request' /\ discards' \subseteq 1 .. out_request'
  BY <1>2, <1>3, <1>6 DEF request
<1> QED
  BY <1>2, <1>6, <1>11, <1>12, <1>13, <1>14 DEF ListInv

\* xcb_take_socket fails: the entry of the owner before is closed.
LEMMA ListTakeFails ==
    ASSUME RouteInv, ListInv, take_socket_failed
    PROVE  ListInv'
<1>1. /\ ~has_error /\ pending_replies' = Back /\ owned' = FALSE /\ owner_flags' = {}
      /\ has_error' = TRUE
      /\ UNCHANGED <<out_request, reqs, request_read, request_completed, discards, edges>>
  BY DEF take_socket_failed, seqvars, ghosts, Back
<1>2. /\ Back \in Seq(Pending)
      /\ ListSound(Back, reqs, edges, discards, request_read)
      /\ NoOwner(Back)
      /\ Complete(Back, reqs, discards, request_completed)
  BY <1>1, BackDoes
<1>3. OpenEntry(Back, owned', owner_flags')
  BY <1>2 DEF OpenEntry, NoOwner
<1> QED
  BY <1>1, <1>2, <1>3 DEF ListInv

\* xcb_take_socket: the entry of the owner starts with XCB's last request.
LEMMA ListTake ==
    ASSUME RouteInv, ListInv, NEW flags \in OwnerFlags, xcb_take_socket(flags)
    PROVE  ListInv'
<1> DEFINE pend == [first_request |-> out_request, last_request |-> out_request,
                    workaround |-> "EXTERNAL_SOCKET_OWNER", flags |-> flags]
<1>1. PICK got \in BOOLEAN :
         /\ pending_replies' = IF flags # {} /\ got
                               THEN expect_reply(Back, out_request, "EXTERNAL_SOCKET_OWNER", flags)
                               ELSE Back
         /\ has_error' = (flags # {} /\ ~got)
  BY DEF xcb_take_socket, Back
<1>2. /\ ~has_error /\ owned' = TRUE /\ owner_flags' = flags
      /\ edges' = IF flags # {} THEN edges \cup {out_request} ELSE edges
      /\ UNCHANGED <<out_request, reqs, request_read, request_completed, discards>>
  BY DEF xcb_take_socket, seqvars
<1>3. /\ reqs \in Seq(Request) /\ Len(reqs) = out_request /\ out_request \in Nat
      /\ request_read \in Nat /\ request_read <= Len(reqs) /\ request_completed \in Nat
  BY ListTypes
<1>4. /\ Back \in Seq(Pending)
      /\ ListSound(Back, reqs, edges, discards, request_read)
      /\ NoOwner(Back)
      /\ Complete(Back, reqs, discards, request_completed)
  BY <1>2, BackDoes
<1>5. flags \in SUBSET Flag
  BY ReplyAssumption
<1>6. /\ pend \in Pending /\ pend.first_request = out_request /\ pend.last_request = out_request
      /\ External(pend) /\ pend.flags = flags /\ pend.workaround # "GLX_GET_FB_CONFIGS_BUG"
  BY <1>3, <1>5 DEF Pending, Workaround, External
<1>7. expect_reply(Back, out_request, "EXTERNAL_SOCKET_OWNER", flags) = Append(Back, pend)
  BY DEF expect_reply
<1> HIDE DEF pend
<1>8. /\ edges' \subseteq 0 .. out_request' /\ discards' \subseteq 1 .. out_request'
      /\ OwnerFlags \subseteq {{}} => edges' = {}
  BY <1>2, <1>3 DEF ListInv
<1>9. CASE flags = {} \/ ~got
  <2>1. pending_replies' = Back /\ (~has_error' => flags = {})
    BY <1>1, <1>9
  <2>2. ListSound(Back, reqs, edges', discards, request_read)
    <3>1. edges \subseteq edges'
      BY <1>2
    <3> QED
      BY <1>4, <1>3, <3>1, Growing
  <2>3. OpenEntry(Back, owned', owner_flags')
    BY <1>4 DEF OpenEntry, NoOwner
  <2>4. ~has_error' => OwnerKnown(Back, owned', owner_flags')
    BY <1>2, <2>1 DEF OwnerKnown
  <2> QED
    BY <1>2, <1>4, <1>8, <2>1, <2>2, <2>3, <2>4 DEF ListInv
<1>10. CASE flags # {} /\ got
  <2> DEFINE a == Append(Back, pend)
  <2>1. pending_replies' = a /\ edges' = edges \cup {out_request}
    BY <1>1, <1>2, <1>7, <1>10
  <2>2. ListSound(Back, reqs, edges', discards, request_read)
    <3>1. edges \subseteq edges'
      BY <1>2
    <3> QED
      BY <1>4, <1>3, <3>1, Growing
  <2>3. EntrySound(pend, reqs, edges', discards)
    <3>1. OwnersRest(pend, reqs)
      BY <1>3, <1>6 DEF OwnersRest
    <3>2. SingleRight(pend, reqs, edges') /\ GlxRight(pend, reqs)
      BY <1>6, <2>1 DEF SingleRight, GlxRight
    <3>3. DiscardRight(pend, reqs, discards)
      BY <1>6 DEF DiscardRight, Careful
    <3> QED
      BY <1>3, <1>6, <3>1, <3>2, <3>3 DEF EntrySound
  <2>4. \A i \in 1 .. Len(Back) : /\ ~External(Back[i])
                                  /\ Back[i].last_request <= pend.first_request
    BY <1>3, <1>4, <1>6 DEF NoOwner, ListSound, EntrySound
  <2>5. /\ a \in Seq(Pending) /\ Len(a) = Len(Back) + 1
        /\ \A i \in 1 .. Len(Back) : a[i] = Back[i]
        /\ a[Len(Back) + 1] = pend
        /\ ListSound(a, reqs, edges', discards, request_read)
    BY <1>4, <1>6, <2>2, <2>3, <2>4, Adding
  <2> HIDE DEF a
  <2>6. Len(Back) \in Nat /\ Len(a) \in Nat /\ Len(Back) <= Len(a)
    BY <1>4, <2>5, LenProperties
  <2>7. Complete(a, reqs, discards, request_completed)
    <3>1. \A n \in Len(reqs) + 1 .. Len(reqs) : FALSE
      BY <1>3
    <3> QED
      BY <1>3, <1>4, <2>5, <2>6, <3>1, CompleteGrows
  <2>8. OpenEntry(a, owned', owner_flags')
    <3> SUFFICES ASSUME NEW i \in 1 .. Len(a), External(a[i])
                 PROVE  owned' /\ a[i].flags = owner_flags'
      BY DEF OpenEntry
    <3>1. i = Len(Back) + 1
      BY <2>4, <2>5, <2>6
    <3> QED
      BY <1>2, <1>6, <2>5, <3>1
  <2>9. OwnerKnown(a, owned', owner_flags')
    BY <1>6, <2>5, <2>6 DEF OwnerKnown
  <2> QED
    BY <1>2, <1>8, <2>1, <2>5, <2>7, <2>8, <2>9 DEF ListInv
<1> QED
  BY <1>1, <1>9, <1>10

\* xcb_writev: the owner's entry is about its new requests, too.
LEMMA ListWritev ==
    ASSUME RouteInv, TypeOK', ListInv, NEW batch \in Batches, xcb_writev(batch)
    PROVE  ListInv'
<1> DEFINE new == [i \in 1 .. Len(batch) |->
                     [isvoid |-> batch[i], flags |-> owner_flags,
                      workaround |-> "NONE", source |-> "owner"]]
<1>1. /\ ~has_error /\ owned /\ reqs' = reqs \o new
      /\ UNCHANGED <<pending_replies, edges, discards, request_read, request_completed, owned,
                     owner_flags>>
  BY DEF xcb_writev, seqvars, listvars, ghosts
<1>2. /\ pending_replies \in Seq(Pending)
      /\ reqs \in Seq(Request) /\ Len(reqs) = out_request /\ out_request \in Nat
      /\ request_read \in Nat /\ request_read <= Len(reqs) /\ request_completed \in Nat
  BY ListTypes
<1>3. reqs' \in Seq(Request) /\ Len(reqs') = out_request' /\ out_request' \in Nat
  BY ReplyAssumption DEF TypeOK
<1>4. new \in Seq(Request) /\ Len(new) = Len(batch) /\ Len(batch) \in Nat
  <2>1. batch \in Seq(BOOLEAN) /\ Len(batch) \in Nat
    BY ReplyAssumption, LenProperties
  <2>2. owner_flags \in SUBSET Flag
    BY DEF RouteInv, StoreInv, TypeOK
  <2>3. \A i \in 1 .. Len(batch) : new[i] \in Request
    BY <2>1, <2>2 DEF Request
  <2> QED
    BY <2>1, <2>3, IsASeq
<1>5. \A i \in 1 .. Len(new) :
         new[i].source = "owner" /\ new[i].flags = owner_flags /\ new[i].workaround = "NONE"
  BY <1>4
<1> HIDE DEF new
<1>6. /\ Len(reqs') = Len(reqs) + Len(new)
      /\ \A i \in 1 .. Len(reqs) + Len(new) :
           reqs'[i] = IF i <= Len(reqs) THEN reqs[i] ELSE new[i - Len(reqs)]
  BY <1>1, <1>2, <1>4, ConcatProperties
<1>7. /\ Len(reqs) <= Len(reqs') /\ \A i \in 1 .. Len(reqs) : reqs'[i] = reqs[i]
  BY <1>2, <1>4, <1>6
<1>8. ASSUME NEW n \in Len(reqs) + 1 .. Len(reqs')
      PROVE  /\ reqs'[n].source = "owner" /\ reqs'[n].flags = owner_flags
             /\ reqs'[n].workaround = "NONE"
  <2>1. n - Len(reqs) \in 1 .. Len(new) /\ n \in 1 .. Len(reqs) + Len(new) /\ ~(n <= Len(reqs))
    BY <1>2, <1>4, <1>6
  <2> QED
    BY <1>5, <1>6, <2>1
<1>9. /\ Len(pending_replies) \in Nat
      /\ \A i \in 1 .. Len(pending_replies) :
           /\ pending_replies[i] \in Pending
           /\ pending_replies[i].first_request \in Nat /\ pending_replies[i].last_request \in Nat
           /\ pending_replies[i].first_request <= pending_replies[i].last_request
           /\ pending_replies[i].last_request <= Len(reqs)
           /\ EntrySound(pending_replies[i], reqs, edges, discards)
  BY <1>2, PendingFields DEF ListInv, ListSound, EntrySound
<1>10. ASSUME NEW i \in 1 .. Len(pending_replies)
       PROVE  EntrySound(pending_replies[i], reqs', edges, discards)
  <2> DEFINE pend == pending_replies[i]
  <2>1. /\ pend \in Pending /\ EntrySound(pend, reqs, edges, discards)
        /\ pend.first_request \in Nat /\ pend.last_request \in Nat
        /\ pend.first_request <= pend.last_request /\ pend.last_request <= Len(reqs)
    BY <1>9
  <2>2. External(pend) => /\ owned
                          /\ "CHECKED" \in pend.flags <=> "CHECKED" \in owner_flags
    BY DEF ListInv, OpenEntry
  <2> HIDE DEF pend
  <2>3. CASE ~External(pend)
    BY <1>2, <1>3, <1>7, <2>1, <2>3, EntryGrows DEF pend
  <2>4. CASE External(pend)
    <3>1. OwnersRest(pend, reqs')
      <4> SUFFICES ASSUME NEW n \in pend.first_request + 1 .. Len(reqs')
                   PROVE  /\ reqs'[n].source = "owner"
                          /\ "CHECKED" \in pend.flags <=> "CHECKED" \in reqs'[n].flags
        BY DEF OwnersRest
      <4>1. CASE n > Len(reqs)
        <5>1. n \in Len(reqs) + 1 .. Len(reqs')
          BY <1>2, <4>1
        <5> QED
          BY <1>8, <2>2, <2>4, <5>1
      <4>2. CASE n <= Len(reqs)
        <5>1. n \in pend.first_request + 1 .. Len(reqs) /\ n \in 1 .. Len(reqs)
          BY <1>2, <2>1, <4>2
        <5> QED
          BY <1>7, <2>1, <2>4, <5>1 DEF EntrySound, OwnersRest
      <4> QED
        BY <1>2, <4>1, <4>2
    <3>2. SingleRight(pend, reqs', edges) /\ GlxRight(pend, reqs') /\ DiscardRight(pend, reqs', discards)
      BY <2>1, <2>4 DEF EntrySound, SingleRight, GlxRight, DiscardRight, External
    <3>3. pend.last_request <= Len(reqs')
      BY <1>2, <1>3, <1>7, <2>1
    <3> QED
      BY <2>1, <3>1, <3>2, <3>3 DEF EntrySound, pend
  <2> QED
    BY <2>3, <2>4
<1>11. ListSound(pending_replies, reqs', edges, discards, request_read)
  BY <1>10 DEF ListInv, ListSound
<1>12. Complete(pending_replies, reqs', discards, request_completed)
  <2>1. ASSUME NEW n \in Len(reqs) + 1 .. Len(reqs'), Needs(n, reqs', discards)
        PROVE  \E k \in 1 .. Len(pending_replies) :
                  FirstCover(pending_replies, k, n) /\ Serves(pending_replies[k], n, reqs', discards)
    <3> DEFINE k == Len(pending_replies)
    <3>1. n \in Nat /\ n > Len(reqs) /\ n \notin discards
      BY <1>2 DEF ListInv
    <3>2. owner_flags # {}
      BY <1>8, <2>1, <3>1 DEF Needs
    <3>3. k > 0 /\ External(pending_replies[k])
      BY <1>1, <3>2 DEF ListInv, OwnerKnown
    <3>4. k \in Nat /\ k \in 1 .. k
      BY <1>9, <3>3
    <3>5. ASSUME NEW i \in 1 .. k - 1
          PROVE  ~External(pending_replies[i]) /\ ~(n <= pending_replies[i].last_request)
      <4>1. i \in 1 .. k /\ i < k
        BY <3>4
      <4>2. ~External(pending_replies[i])
        BY <3>4, <4>1 DEF ListInv, ListSound, Ordered
      <4>3. pending_replies[i].last_request \in Nat /\ pending_replies[i].last_request <= Len(reqs)
        BY <1>9, <4>1
      <4> QED
        BY <1>2, <3>1, <4>2, <4>3
    <3>6. Covers(pending_replies[k], n)
      <4>1. /\ pending_replies[k].first_request \in Nat
            /\ pending_replies[k].first_request <= Len(reqs)
        <5>1. /\ pending_replies[k].first_request \in Nat /\ pending_replies[k].last_request \in Nat
              /\ pending_replies[k].first_request <= pending_replies[k].last_request
              /\ pending_replies[k].last_request <= Len(reqs)
          BY <1>9, <3>4
        <5> QED
          BY <1>2, <5>1
      <4> QED
        BY <1>2, <3>1, <3>3, <4>1 DEF Covers, External
    <3>7. FirstCover(pending_replies, k, n)
      BY <3>4, <3>5, <3>6, LastCovers
    <3>8. /\ "CHECKED" \in pending_replies[k].flags <=> "CHECKED" \in owner_flags
          /\ "DISCARD_REPLY" \in owner_flags => "DISCARD_REPLY" \in pending_replies[k].flags
      BY <3>3, <3>4 DEF ListInv, OpenEntry
    <3>9. Serves(pending_replies[k], n, reqs', discards)
      BY <1>8, <3>1, <3>8 DEF Serves, ToDiscard
    <3> QED
      BY <3>4, <3>7, <3>9
  <2>2. Complete(pending_replies, reqs, discards, request_completed)
    BY <1>1 DEF ListInv
  <2>3. Len(reqs) \in Nat /\ Len(reqs') \in Nat
    BY <1>2, <1>3
  <2> QED
    BY <1>2, <1>7, <1>9, <2>1, <2>2, <2>3, CompleteGrows
<1>13. edges' \subseteq 0 .. out_request' /\ discards' \subseteq 1 .. out_request'
  BY <1>1, <1>2, <1>3, <1>7 DEF ListInv
<1> QED
  BY <1>1, <1>11, <1>12, <1>13 DEF ListInv

\* The number read_packet reads, and the responses it takes for completed.
LEMMA ReadMoves ==
    ASSUME TypeOK, NEW outcome \in ReadOutcomes, NEW stored \in MapOk,
           read_packet(outcome, stored)
    PROVE  LET p == log[nread + 1]
               done == completed_before(request_read')
           IN  /\ nread + 1 \in 1 .. Len(log) /\ nread \in Nat /\ p \in [type : PacketType, of : Nat]
               /\ request_read' \in Nat /\ request_read' >= request_read /\ request_read \in Nat
               /\ p.type = "keymap" => request_read' = request_read
               /\ request_completed' = IF p.type = "error" THEN request_read' ELSE done
               /\ pending_replies' = IF p.type = "keymap" THEN pending_replies
                                     ELSE drop_finished(pending_replies, done)
               /\ has_error' = (has_error \/ outcome # "ok")
               /\ nread' = IF outcome \in {"ok", "nolist"} THEN nread + 1 ELSE nread
               /\ UNCHANGED <<out_request, owned, owner_flags, reqs, log, discards, edges>>
<1> DEFINE p == log[nread + 1]
<1>1. nread + 1 \in 1 .. Len(log) /\ nread \in Nat
  <2>1. Len(log) \in Nat /\ nread \in 0 .. Len(log)
    BY LenProperties DEF TypeOK
  <2>2. nread < Len(log)
    BY DEF read_packet
  <2> QED
    BY <2>1, <2>2
<1>2. p \in [type : PacketType, of : Nat]
  BY <1>1, ElementOfSeq DEF TypeOK
<1>3. p.of \in Nat /\ request_read \in Nat
  BY <1>2 DEF TypeOK
<1>4. request_read' = next_read(p)
  BY DEF read_packet
<1>5. /\ request_completed' = completed_after(p, next_read(p))
      /\ pending_replies' = IF p.type = "keymap" THEN pending_replies
                            ELSE drop_finished(pending_replies, completed_before(next_read(p)))
      /\ has_error' = (has_error \/ outcome # "ok")
      /\ nread' = IF outcome \in {"ok", "nolist"} THEN nread + 1 ELSE nread
      /\ UNCHANGED <<out_request, owned, owner_flags, reqs, log, discards, edges>>
  BY DEF read_packet, outvars
<1> HIDE DEF p
<1>6. /\ WidenSequence(request_read, p.of % Seq16) \in Nat
      /\ WidenSequence(request_read, p.of % Seq16) >= request_read
  BY <1>3, WidenType
<1>7. /\ request_read' \in Nat /\ request_read' >= request_read
      /\ p.type = "keymap" => request_read' = request_read
  BY <1>3, <1>4, <1>6 DEF next_read
<1>8. request_completed' = IF p.type = "error" THEN request_read'
                           ELSE completed_before(request_read')
  BY <1>4, <1>5 DEF completed_after
<1> QED
  BY <1>1, <1>2, <1>3, <1>4, <1>5, <1>7, <1>8 DEF p

\* What read_packet takes for completed before it looks at the list.
LEMMA DoneBefore ==
    ASSUME TypeOK, CompletedRight, NEW read \in Nat, read >= request_read
    PROVE  /\ completed_before(read) \in Nat /\ read <= completed_before(read) + 1
           /\ request_completed <= completed_before(read) /\ completed_before(read) <= read
           /\ read # request_read => completed_before(read) = read - 1
           /\ read = request_read => completed_before(read) = request_completed
<1>1. /\ request_read \in Nat /\ request_completed \in Nat
      /\ request_completed = request_read - 1 \/ request_completed = request_read
  BY DEF TypeOK, CompletedRight
<1>2. completed_before(read) = IF read # request_read THEN read - 1 ELSE request_completed
  BY DEF completed_before
<1> QED
  BY <1>1, <1>2

\* read_packet: the part of the list that is left.
LEMMA ListRead ==
    ASSUME RouteInv, ListInv, CompletedRight, NEW outcome \in ReadOutcomes, NEW stored \in MapOk,
           read_packet(outcome, stored)
    PROVE  ListInv'
<1> DEFINE p == log[nread + 1]
           done == completed_before(request_read')
           d == drop_finished(pending_replies, done)
<1>1. /\ pending_replies \in Seq(Pending) /\ reqs \in Seq(Request) /\ TypeOK
      /\ request_completed \in Nat /\ request_read \in Nat
  BY ListTypes
<1>2. /\ request_read' \in Nat /\ request_read' >= request_read
      /\ p.type = "keymap" => request_read' = request_read
      /\ request_completed' = IF p.type = "error" THEN request_read' ELSE done
      /\ pending_replies' = IF p.type = "keymap" THEN pending_replies ELSE d
      /\ has_error' = (has_error \/ outcome # "ok")
      /\ UNCHANGED <<out_request, owned, owner_flags, reqs, discards, edges>>
  BY <1>1, ReadMoves
<1>3. /\ done \in Nat /\ request_read' <= done + 1 /\ request_completed <= done
      /\ done <= request_read'
      /\ request_read' = request_read => done = request_completed
  BY <1>1, <1>2, DoneBefore
<1> HIDE DEF p, done
<1>4. request_completed' \in Nat /\ request_completed <= request_completed' /\ done <= request_completed'
  BY <1>1, <1>2, <1>3
<1>5. has_error => has_error'
  BY <1>2
<1>6. CASE p.type = "keymap"
  <2>1. UNCHANGED <<pending_replies, request_read, request_completed>>
    BY <1>2, <1>3, <1>6
  <2> QED
    BY <1>2, <1>5, <2>1, ListSame
<1>7. CASE p.type # "keymap"
  <2>1. pending_replies' = d
    BY <1>2, <1>7
  <2>2. ListSound(pending_replies, reqs, edges, discards, request_read)
    BY DEF ListInv
  <2>3. /\ d \in Seq(Pending)
        /\ ListSound(d, reqs, edges, discards, request_read')
        /\ \A j \in 1 .. Len(d) : \E i \in 1 .. Len(pending_replies) : d[j] = pending_replies[i]
        /\ \A done0, done1 \in Nat :
              Complete(pending_replies, reqs, discards, done0) /\ done0 <= done1 /\ done <= done1
              => Complete(d, reqs, discards, done1)
    BY <1>1, <1>2, <1>3, <2>2, Dropping
  <2>4. OpenEntry(d, owned, owner_flags)
    BY <2>3 DEF ListInv, OpenEntry
  <2>5. ~has_error' => Complete(d, reqs, discards, request_completed')
    BY <1>1, <1>4, <1>5, <2>3 DEF ListInv
  <2>6. ~has_error' => OwnerKnown(d, owned, owner_flags)
    <3> SUFFICES ASSUME ~has_error, owned, owner_flags # {}
                 PROVE  Len(d) > 0 /\ External(d[Len(d)])
      BY <1>5 DEF OwnerKnown
    <3> DEFINE k == Len(pending_replies)
    <3>1. k > 0 /\ External(pending_replies[k])
      BY DEF ListInv, OwnerKnown
    <3>2. PICK f \in 1 .. k + 1 :
             /\ Len(d) = k - f + 1
             /\ \A i \in 1 .. Len(d) : d[i] = pending_replies[f + i - 1]
             /\ \A i \in 1 .. f - 1 : Finished(pending_replies[i], done)
      BY <1>1, <1>3, DropDoes
    <3>3. k \in Nat /\ f \in Nat /\ f >= 1 /\ f <= k + 1
      BY <1>1, <3>2, LenProperties
    <3>4. f # k + 1
      <4>1. ~Finished(pending_replies[k], done)
        BY <3>1 DEF Finished, External
      <4>2. f = k + 1 => k \in 1 .. f - 1
        BY <3>1, <3>3
      <4> QED
        BY <3>2, <4>1, <4>2
    <3>5. Len(d) \in 1 .. Len(d) /\ Len(d) > 0 /\ f + Len(d) - 1 = k
      <4> HIDE DEF d, k
      <4> QED
        BY <3>2, <3>3, <3>4
    <3>6. d[Len(d)] = pending_replies[f + Len(d) - 1]
      BY <3>2, <3>5
    <3> QED
      BY <3>1, <3>5, <3>6
  <2> HIDE DEF d
  <2> QED
    BY <1>2, <2>1, <2>3, <2>4, <2>5, <2>6 DEF ListInv
<1> QED
  BY <1>6, <1>7

\* A response completes its request, or the ones before it.
LEMMA CompletedRead ==
    ASSUME TypeOK, CompletedRight, NEW outcome \in ReadOutcomes, NEW stored \in MapOk,
           read_packet(outcome, stored),
           log[nread + 1].type # "keymap" => request_read' = log[nread + 1].of
    PROVE  CompletedRight'
<1> DEFINE p == log[nread + 1]
           done == completed_before(request_read')
<1>1. /\ nread + 1 \in 1 .. Len(log) /\ nread \in Nat /\ p \in [type : PacketType, of : Nat]
      /\ request_read' \in Nat /\ request_read' >= request_read /\ request_read \in Nat
      /\ request_completed' = IF p.type = "error" THEN request_read' ELSE done
      /\ has_error' = (has_error \/ outcome # "ok")
      /\ nread' = IF outcome \in {"ok", "nolist"} THEN nread + 1 ELSE nread
      /\ UNCHANGED log
  BY ReadMoves
<1>2. /\ done \in Nat /\ request_read' <= done + 1 /\ done <= request_read'
      /\ request_read' # request_read => done = request_read' - 1
      /\ request_read' = request_read => done = request_completed
  BY <1>1, DoneBefore
<1>3. p.type = "error" => p = Packet("error", p.of)
  BY <1>1 DEF Packet
<1>4. p.type # "keymap" => request_read' = p.of
  OBVIOUS
<1> HIDE DEF p, done
<1>n. request_read' \in Nat /\ done \in Nat /\ request_read' <= done + 1 /\ done <= request_read'
  BY <1>1, <1>2
<1>5. request_completed' \in {request_read' - 1, request_read'}
  <2>0. \A a, b \in Nat : a <= b + 1 /\ b <= a => b = a - 1 \/ b = a
    OBVIOUS
  <2>1. done = request_read' - 1 \/ done = request_read'
    BY <1>n, <2>0
  <2> QED
    BY <1>1, <2>1
<1>6. ASSUME ~has_error', request_completed' = request_read', request_read' > 0
      PROVE  \E i \in 1 .. nread' : log'[i] = Packet("error", request_read')
  <2>1. ~has_error /\ nread' = nread + 1 /\ UNCHANGED log
    BY <1>1, <1>6
  <2>2. CASE p.type = "error"
    <3>1. p = Packet("error", request_read')
      BY <1>3, <1>4, <2>2
    <3>2. nread + 1 \in 1 .. nread' /\ log'[nread + 1] = p
      BY <1>1, <2>1 DEF p
    <3> QED
      BY <3>1, <3>2
  <2>3. CASE p.type # "error"
    <3>1. request_read' = request_read /\ request_completed = request_read
      <4>1. request_completed' = done
        BY <1>1, <2>3
      <4>2. done # request_read' - 1
        BY <1>6, <1>n, <4>1
      <4> QED
        BY <1>2, <1>6, <4>1, <4>2
    <3>2. PICK i \in 1 .. nread : log[i] = Packet("error", request_read)
      BY <1>6, <2>1, <3>1 DEF CompletedRight
    <3>3. i \in 1 .. nread'
      BY <1>1, <2>1
    <3> QED
      BY <2>1, <3>1, <3>2, <3>3
  <2> QED
    BY <2>2, <2>3
<1> QED
  BY <1>5, <1>6 DEF CompletedRight

\* Within half the range of a cookie, cookies compare like request numbers.
LEMMA DiffSame ==
    ASSUME NoWrap, NEW n \in 0 .. MaxRequest, NEW m \in 0 .. MaxRequest
    PROVE  Cookie(n) = n /\ Diff32(n, m) = n - m /\ WidenCookie(m, n) = IF n > m THEN n - Seq32 ELSE n
<1>1. MaxRequest < Seq32 /\ MaxRequest \in Nat /\ Seq32 \in Nat /\ Seq32 > 0 /\ Seq32 \div 2 \in Nat
  BY ReplyAssumption, WidthAssumption DEF NoWrap
<1>2. n % Seq32 = n /\ m % Seq32 = m
  BY <1>1
<1>3. n < Seq32 \div 2 /\ m < Seq32 \div 2
  BY <1>1 DEF NoWrap
<1>4. Int32(n) = n /\ Int32(m) = m
  BY <1>2, <1>3 DEF Int32
<1>5. m \div Seq32 = 0
  BY <1>1
<1>6. WidenCookie(m, n) = IF n > m THEN n - Seq32 ELSE n
  <2>1. 0 * Seq32 + n = n
    BY <1>1
  <2> QED
    BY <1>5, <2>1 DEF WidenCookie
<1> QED
  BY <1>2, <1>4, <1>6 DEF Cookie, Diff32

\* What discard_reply does to the list.
DiscardMarks(n, ok) ==
    \/ \E i \in 1 .. Len(pending_replies) :
         /\ MarkAt(pending_replies, i, n)
         /\ pending_replies' = mark_discard(pending_replies, i)
    \/ \E i \in 1 .. Len(pending_replies) + 1 :
         /\ InsertAt(pending_replies, i, n, request_read)
         /\ pending_replies' = insert_pending_discard(pending_replies, i, n)
    \/ (n < request_read \/ ~ok) /\ UNCHANGED pending_replies

\* An entry about a request of XCB's own starts with it.
LEMMA OwnEntry ==
    ASSUME RouteInv, ListInv, NEW n \in 1 .. out_request, reqs[n].source = "xcb",
           Careful => n \notin edges,
           NEW i \in 1 .. Len(pending_replies)
    PROVE  /\ Covers(pending_replies[i], n) => pending_replies[i].first_request = n
           /\ pending_replies[i].first_request = n => Covers(pending_replies[i], n)
           /\ Careful /\ Covers(pending_replies[i], n) =>
                pending_replies[i].last_request = n /\ ~External(pending_replies[i])
<1> DEFINE pend == pending_replies[i]
<1>1. /\ pend.first_request \in Nat /\ pend.last_request \in Nat
      /\ EntrySound(pend, reqs, edges, discards) /\ Len(reqs) = out_request /\ out_request \in Nat
  BY ListTypes, PendingFields DEF ListInv, ListSound
<1> HIDE DEF pend
<1>2. pend.first_request <= pend.last_request
  BY <1>1 DEF EntrySound
<1>3. ASSUME Covers(pend, n) PROVE pend.first_request = n
  <2> SUFFICES ASSUME pend.first_request # n PROVE FALSE
    OBVIOUS
  <2>1. /\ pend.first_request <= n
        /\ External(pend) \/ n <= pend.last_request
    BY <1>3 DEF Covers, External
  <2>2. n \in pend.first_request + 1 .. Len(reqs)
    BY <1>1, <2>1
  <2>3. reqs[n].source = "owner"
    BY <1>1, <2>1, <2>2 DEF EntrySound, OwnersRest
  <2> QED
    BY <2>3
<1>4. pend.first_request = n => Covers(pend, n)
  BY <1>1, <1>2 DEF Covers
<1>5. ASSUME Careful, Covers(pend, n) PROVE pend.last_request = n /\ ~External(pend)
  BY <1>1, <1>3, <1>5 DEF EntrySound, SingleRight
<1> QED
  BY <1>3, <1>4, <1>5 DEF pend

\* The responses to the request are being read: the entry is at the head.
LEMMA MarkCurrentDoes ==
    ASSUME RouteInv, ListInv, NEW n \in 1 .. out_request, reqs[n].source = "xcb",
           Careful => n \notin edges, n = request_read,
           NEW ok \in BOOLEAN, mark_current(ok)
    PROVE  DiscardMarks(n, ok)
<1>1. /\ pending_replies \in Seq(Pending) /\ n \in Nat
      /\ ListSound(pending_replies, reqs, edges, discards, n)
  BY ListTypes DEF ListInv
<1>2. /\ Len(pending_replies) \in Nat
      /\ \A i \in 1 .. Len(pending_replies) :
           /\ pending_replies[i].first_request \in Nat
           /\ pending_replies[i].last_request \in Nat
           /\ pending_replies[i].first_request <= pending_replies[i].last_request
  BY <1>1, PendingFields DEF ListSound, EntrySound
<1>3. CASE head_matches(pending_replies, n)
  <2>1. pending_replies # <<>> /\ Covers(Head(pending_replies), n)
    BY <1>3 DEF head_matches
  <2>2. 1 \in 1 .. Len(pending_replies) /\ Head(pending_replies) = pending_replies[1]
    BY <1>1, <1>2, <2>1, EmptySeq, HeadTailProperties
  <2>3. FirstCover(pending_replies, 1, n)
    BY <2>1, <2>2 DEF FirstCover
  <2>4. MarkAt(pending_replies, 1, n)
    BY <2>1, <2>2, <2>3, OwnEntry DEF MarkAt
  <2>5. pending_replies' = mark_discard(pending_replies, 1)
    BY <1>3 DEF mark_current
  <2> QED
    BY <2>2, <2>4, <2>5 DEF DiscardMarks
<1>4. CASE ~head_matches(pending_replies, n)
  <2>1. pending_replies' = IF ok THEN insert_pending_discard(pending_replies, 1, n)
                           ELSE pending_replies
    BY <1>4 DEF mark_current
  <2>2. ASSUME NEW j \in 1 .. Len(pending_replies)
        PROVE  n <= pending_replies[j].first_request /\ ~Covers(pending_replies[j], n)
    <3>1. pending_replies # <<>> /\ 1 \in 1 .. Len(pending_replies)
      BY <1>1, <1>2, <2>2, EmptySeq
    <3>2. Head(pending_replies) = pending_replies[1]
      BY <1>1, <3>1, HeadTailProperties
    <3>3. ~Covers(pending_replies[1], n)
      BY <1>4, <3>1, <3>2 DEF head_matches
    <3>4. External(pending_replies[1]) \/ pending_replies[1].last_request >= n
      BY <1>1, <3>1 DEF ListSound, Pruned
    <3>5. /\ pending_replies[1].first_request \in Nat /\ pending_replies[1].last_request \in Nat
          /\ pending_replies[1].first_request <= pending_replies[1].last_request
      BY <1>2, <3>1
    <3>6. n < pending_replies[1].first_request
      BY <1>1, <3>3, <3>4, <3>5 DEF Covers, External
    <3>7. CASE j = 1
      BY <1>1, <3>3, <3>5, <3>6, <3>7
    <3>8. CASE j # 1
      <4>1. 1 < j
        BY <1>2, <3>8
      <4>2. pending_replies[1].last_request <= pending_replies[j].first_request
        BY <1>1, <3>1, <4>1 DEF ListSound, Ordered
      <4>3. pending_replies[j].first_request \in Nat
        BY <1>2
      <4>4. n < pending_replies[j].first_request
        BY <1>1, <3>5, <3>6, <4>2, <4>3
      <4> QED
        BY <1>1, <4>3, <4>4 DEF Covers
    <3> QED
      BY <3>7, <3>8
  <2>3. InsertAt(pending_replies, 1, n, request_read)
    BY <1>1, <1>2, <2>2 DEF InsertAt
  <2>4. 1 \in 1 .. Len(pending_replies) + 1
    BY <1>2
  <2>5. CASE ok
    BY <2>1, <2>3, <2>4, <2>5 DEF DiscardMarks
  <2>6. CASE ~ok
    BY <2>1, <2>6 DEF DiscardMarks
  <2> QED
    BY <2>5, <2>6
<1> QED
  BY <1>3, <1>4

\* The responses are still to come: the entry is before those of later
\* requests.
LEMMA MarkPendingDoes ==
    ASSUME RouteInv, ListInv, NoWrap, NEW n \in 1 .. out_request, reqs[n].source = "xcb",
           Careful => n \notin edges, request_read <= n,
           NEW ok \in BOOLEAN, mark_pending(n, ok)
    PROVE  DiscardMarks(n, ok)
<1> DEFINE len == Len(pending_replies)
           first(i) == pending_replies[i].first_request
           later == {i \in 1 .. len : first(i) > n}
           stop == CHOOSE i \in later \cup {len + 1} : \A j \in later : i <= j
           same == {i \in 1 .. stop - 1 : first(i) = n}
<1>1. /\ pending_replies \in Seq(Pending) /\ n \in Nat /\ Len(reqs) = out_request
      /\ n \in 0 .. MaxRequest /\ out_request \in 0 .. MaxRequest /\ MaxRequest \in Nat
      /\ ListSound(pending_replies, reqs, edges, discards, request_read)
  BY ListTypes, ReplyAssumption DEF ListInv
<1>2. /\ len \in Nat /\ DOMAIN pending_replies = 1 .. len
      /\ \A i \in 1 .. len : /\ first(i) \in Nat /\ pending_replies[i].last_request \in Nat
                             /\ first(i) <= pending_replies[i].last_request
                             /\ pending_replies[i].last_request <= out_request
  BY <1>1, PendingFields DEF ListSound, EntrySound
<1>3. \A i \in 1 .. len : first(i) \in 0 .. MaxRequest
  BY <1>1, <1>2
<1>4. Cookie(n) = n /\ WidenCookie(out_request, n) = n
  BY <1>1, DiffSame
<1>5. \A i \in 1 .. len : Diff32(Cookie(first(i)), n) = first(i) - n
  BY <1>1, <1>3, DiffSame
<1>6. /\ {i \in DOMAIN pending_replies : Diff32(Cookie(first(i)), n) > 0} = later
      /\ later \in SUBSET Nat
  BY <1>1, <1>2, <1>5
<1>7. /\ stop \in later \cup {len + 1} /\ \A j \in later : stop <= j
  <2>1. CASE later = {}
    BY <2>1
  <2>2. CASE later # {}
    <3>1. \E i \in later : \A j \in later : i <= j
      <4> HIDE DEF later
      <4> QED
        BY <1>6, <2>2, LeastExists
    <3> HIDE DEF later
    <3> QED
      BY <3>1
  <2> QED
    BY <2>1, <2>2
<1>8. stop \in Nat /\ stop >= 1 /\ stop <= len + 1
  <2> HIDE DEF stop
  <2> QED
    BY <1>2, <1>7
<1>9. \A i \in 1 .. stop - 1 : i \in 1 .. len /\ first(i) <= n
  <2> SUFFICES ASSUME NEW i \in 1 .. stop - 1 PROVE i \in 1 .. len /\ first(i) <= n
    OBVIOUS
  <2> HIDE DEF stop
  <2>1. i \in 1 .. len /\ ~(stop <= i)
    BY <1>2, <1>8
  <2>2. i \notin later
    BY <1>7, <2>1
  <2> QED
    BY <1>1, <1>2, <2>1, <2>2
<1>10. ASSUME NEW j \in stop .. len PROVE n < first(j) /\ j \in 1 .. len
  <2> HIDE DEF stop
  <2>1. stop \in later /\ j \in 1 .. len /\ stop \in 1 .. len
    BY <1>2, <1>7, <1>8
  <2>2. first(stop) > n
    BY <2>1
  <2>3. CASE j = stop
    BY <2>1, <2>2, <2>3
  <2>4. CASE j # stop
    <3>1. stop < j
      BY <1>8, <2>4
    <3>2. pending_replies[stop].last_request <= first(j)
      BY <1>1, <2>1, <3>1 DEF ListSound, Ordered
    <3>3. /\ first(stop) \in Nat /\ pending_replies[stop].last_request \in Nat /\ first(j) \in Nat
          /\ first(stop) <= pending_replies[stop].last_request
      BY <1>2, <2>1
    <3> QED
      BY <1>1, <2>1, <2>2, <3>2, <3>3
  <2> QED
    BY <2>3, <2>4
<1>11. {i \in 1 .. stop - 1 : Diff32(Cookie(first(i)), n) = 0} = same
  <2>1. \A i \in 1 .. stop - 1 : Diff32(Cookie(first(i)), n) = first(i) - n /\ first(i) \in Nat
    BY <1>2, <1>5, <1>9
  <2> HIDE DEF stop
  <2> QED
    BY <1>1, <2>1
<1>12. IF same # {}
       THEN /\ ok
            /\ pending_replies' =
                 mark_discard(pending_replies, CHOOSE i \in same : \A j \in same : i <= j)
       ELSE pending_replies' = IF ok THEN insert_pending_discard(pending_replies, stop, n)
                               ELSE pending_replies
  <2>1. WidenCookie(out_request, Cookie(n)) = n
    BY <1>4
  <2>2. /\ {i \in DOMAIN pending_replies : Diff32(Cookie(first(i)), Cookie(n)) > 0} = later
        /\ {i \in 1 .. stop - 1 : Diff32(Cookie(first(i)), Cookie(n)) = 0} = same
    BY <1>4, <1>6, <1>11
  <2> QED
    BY <2>1, <2>2, Zenon DEF mark_pending
<1>13. CASE same # {}
  <2> DEFINE k == CHOOSE i \in same : \A j \in same : i <= j
  <2>1. same \in SUBSET Nat
    <3> HIDE DEF stop
    <3> QED
      BY <1>8
  <2>2. \E i \in same : \A j \in same : i <= j
    <3> HIDE DEF same
    <3> QED
      BY <1>13, <2>1, LeastExists
  <2>3. k \in same /\ \A j \in same : k <= j
    <3> HIDE DEF same
    <3> QED
      BY <2>2
  <2>4. pending_replies' = mark_discard(pending_replies, k)
    BY <1>12, <1>13
  <2> HIDE DEF k
  <2>5. k \in 1 .. stop - 1 /\ k \in 1 .. len /\ first(k) = n
    BY <1>9, <2>3
  <2> HIDE DEF stop
  <2>6. \A j \in 1 .. k - 1 : ~Covers(pending_replies[j], n)
    <3> SUFFICES ASSUME NEW j \in 1 .. k - 1, Covers(pending_replies[j], n) PROVE FALSE
      OBVIOUS
    <3>1. j \in 1 .. stop - 1 /\ j \in 1 .. len /\ ~(k <= j)
      BY <1>2, <1>8, <2>5
    <3>2. first(j) = n
      BY <3>1, OwnEntry
    <3>3. j \in same
      BY <3>1, <3>2
    <3> QED
      BY <2>3, <3>1, <3>3
  <2>7. Covers(pending_replies[k], n)
    BY <2>5, OwnEntry
  <2>8. MarkAt(pending_replies, k, n)
    BY <2>5, <2>6, <2>7, OwnEntry DEF MarkAt, FirstCover
  <2> QED
    BY <2>4, <2>5, <2>8 DEF DiscardMarks
<1>14. CASE same = {}
  <2>1. pending_replies' = IF ok THEN insert_pending_discard(pending_replies, stop, n)
                           ELSE pending_replies
    BY <1>12, <1>14
  <2>2. \A j \in 1 .. len : j \in 1 .. stop - 1 \/ j \in stop .. len
    <3> HIDE DEF stop
    <3> QED
      BY <1>2, <1>8
  <2>3. ASSUME NEW j \in 1 .. len PROVE ~Covers(pending_replies[j], n)
    <3> SUFFICES ASSUME Covers(pending_replies[j], n) PROVE FALSE
      OBVIOUS
    <3>1. first(j) = n
      BY OwnEntry
    <3>2. CASE j \in 1 .. stop - 1
      <4>1. j \in same
        BY <3>1, <3>2
      <4> QED
        BY <1>14, <4>1
    <3>3. CASE j \in stop .. len
      <4>1. n < first(j)
        BY <1>10, <3>3
      <4> QED
        BY <1>1, <3>1, <4>1
    <3> QED
      BY <2>2, <3>2, <3>3
  <2>4. \A j \in stop .. len : n <= first(j)
    <3> TAKE j \in stop .. len
    <3>1. n < first(j) /\ first(j) \in Nat
      BY <1>2, <1>10
    <3> QED
      BY <1>1, <3>1
  <2> HIDE DEF stop, same, later
  <2>5. InsertAt(pending_replies, stop, n, request_read)
    BY <1>9, <2>3, <2>4 DEF InsertAt
  <2>6. stop \in 1 .. len + 1
    BY <1>2, <1>8
  <2>7. CASE ok
    BY <2>1, <2>5, <2>6, <2>7 DEF DiscardMarks
  <2>8. CASE ~ok
    BY <2>1, <2>8 DEF DiscardMarks
  <2> QED
    BY <2>7, <2>8
<1> QED
  BY <1>13, <1>14

\* discard_reply: between them the three parts do this.
LEMMA DiscardMarksDoes ==
    ASSUME RouteInv, ListInv, NoWrap, NEW n \in 1 .. out_request, NEW ok \in MemOk,
           xcb_discard_reply(n, ok)
    PROVE  /\ ok \in BOOLEAN /\ ~has_error /\ has_error' = ~ok /\ discards' = discards \cup {n}
           /\ reqs[n].source = "xcb" /\ DiscardMarks(n, ok)
           /\ UNCHANGED <<reqs, edges, out_request, request_read, request_completed, owned,
                          owner_flags>>
<1>1. /\ ok \in BOOLEAN /\ ~has_error /\ has_error' = ~ok /\ discards' = discards \cup {n}
      /\ reqs[n].source = "xcb" /\ discard_reply(n, ok)
      /\ UNCHANGED <<reqs, edges, out_request, request_read, request_completed, owned,
                     owner_flags>>
  BY DEF MemOk, xcb_discard_reply, outvars, seqvars
<1>2. Careful => n \notin edges
  <2>1. Discarding = "any" \/ n \notin edges
    BY DEF xcb_discard_reply
  <2> QED
    BY <2>1 DEF Careful, ListInv
<1>3. /\ n \in Nat /\ request_read \in Nat
      /\ Diff32(Cookie(n), request_read) = n - request_read
  <2>1. n \in 0 .. MaxRequest /\ request_read \in 0 .. MaxRequest
    BY ListTypes, ReplyAssumption
  <2>2. Cookie(n) = n /\ Diff32(n, request_read) = n - request_read
    BY <2>1, DiffSame
  <2> QED
    BY <2>1, <2>2
<1>4. CASE Diff32(Cookie(n), request_read) < 0 /\ UNCHANGED pending_replies
  BY <1>1, <1>3, <1>4 DEF DiscardMarks
<1>5. CASE Diff32(Cookie(n), request_read) = 0 /\ mark_current(ok)
  <2>1. n = request_read
    BY <1>3, <1>5
  <2> QED
    BY <1>1, <1>2, <1>5, <2>1, MarkCurrentDoes
<1>6. CASE Diff32(Cookie(n), request_read) >= 0 /\ mark_pending(n, ok)
  <2>1. request_read <= n
    BY <1>3, <1>6
  <2> QED
    BY <1>1, <1>2, <1>6, <2>1, MarkPendingDoes
<1>7. \/ Diff32(Cookie(n), request_read) < 0 /\ UNCHANGED pending_replies
      \/ Diff32(Cookie(n), request_read) = 0 /\ mark_current(ok)
      \/ Diff32(Cookie(n), request_read) >= 0 /\ mark_pending(n, ok)
  <2>1. /\ Diff32(Cookie(n), request_read) > 0 => Diff32(Cookie(n), request_read) >= 0
        /\ Diff32(Cookie(n), request_read) = 0 => Diff32(Cookie(n), request_read) >= 0
    BY <1>3
  <2> QED
    BY <1>1, <2>1, Zenon DEF discard_reply
<1> QED
  BY <1>1, <1>4, <1>5, <1>6, <1>7

\* xcb_discard_reply: the list remembers that the request is discarded.
LEMMA ListDiscard ==
    ASSUME RouteInv, ListInv, CompletedRight, NoWrap, NEW n \in 1 .. out_request,
           NEW ok \in MemOk, xcb_discard_reply(n, ok)
    PROVE  ListInv'
<1>1. /\ ok \in BOOLEAN /\ ~has_error /\ has_error' = ~ok /\ discards' = discards \cup {n}
      /\ DiscardMarks(n, ok)
      /\ UNCHANGED <<reqs, edges, out_request, request_read, request_completed, owned,
                     owner_flags>>
  BY DiscardMarksDoes
<1>2. /\ pending_replies \in Seq(Pending) /\ reqs \in Seq(Request)
      /\ Len(reqs) = out_request /\ out_request \in Nat /\ n \in 1 .. Len(reqs)
      /\ request_read \in Nat /\ request_completed \in Nat
  BY ListTypes
<1>3. /\ ListSound(pending_replies, reqs, edges, discards, request_read)
      /\ OpenEntry(pending_replies, owned, owner_flags)
      /\ edges \subseteq 0 .. out_request /\ discards' \subseteq 1 .. out_request
      /\ OwnerFlags \subseteq {{}} => edges = {}
      /\ Complete(pending_replies, reqs, discards, request_completed)
      /\ OwnerKnown(pending_replies, owned, owner_flags)
  BY <1>1, <1>2 DEF ListInv
<1>4. ASSUME NEW i \in 1 .. Len(pending_replies), MarkAt(pending_replies, i, n),
             pending_replies' = mark_discard(pending_replies, i)
      PROVE  ListInv'
  <2> DEFINE m == mark_discard(pending_replies, i)
  <2>1. /\ ListSound(m, reqs, edges, discards \cup {n}, request_read)
        /\ OpenEntry(m, owned, owner_flags)
        /\ Complete(m, reqs, discards \cup {n}, request_completed)
        /\ Len(m) = Len(pending_replies)
        /\ \A j \in 1 .. Len(pending_replies) : External(pending_replies[j]) => External(m[j])
    <3>1. /\ ListSound(m, reqs, edges, discards \cup {n}, request_read)
          /\ \A own, oflags : OpenEntry(pending_replies, own, oflags) => OpenEntry(m, own, oflags)
          /\ \A done \in Nat : Complete(pending_replies, reqs, discards, done)
                               => Complete(m, reqs, discards \cup {n}, done)
          /\ Len(m) = Len(pending_replies)
          /\ \A j \in 1 .. Len(pending_replies) : External(pending_replies[j]) => External(m[j])
      <4>1. MarkAt(pending_replies, i, n)
        BY <1>4
      <4>2. ListSound(pending_replies, reqs, edges, discards, request_read)
        BY <1>3
      <4>3. pending_replies \in Seq(Pending) /\ reqs \in Seq(Request) /\ n \in 1 .. Len(reqs)
        BY <1>2
      <4> QED
        <5>1. ListSound(m, reqs, edges, discards \cup {n}, request_read)
          BY <4>1, <4>2, <4>3, Marking
        <5>2. \A own, oflags : OpenEntry(pending_replies, own, oflags) => OpenEntry(m, own, oflags)
          BY <4>1, <4>2, <4>3, Marking
        <5>3. \A done \in Nat : Complete(pending_replies, reqs, discards, done)
                               => Complete(m, reqs, discards \cup {n}, done)
          BY <4>1, <4>2, <4>3, Marking
        <5>4. Len(m) = Len(pending_replies)
          BY <4>3, MarkDoes
        <5>5. \A j \in 1 .. Len(pending_replies) : External(pending_replies[j]) => External(m[j])
          BY <4>1, <4>2, <4>3, Marking
        <5> HIDE DEF m
        <5> QED
          BY <5>1, <5>2, <5>3, <5>4, <5>5
    <3> HIDE DEF m
    <3> QED
      BY <1>2, <1>3, <3>1
  <2> HIDE DEF m
  <2>2. OwnerKnown(m, owned, owner_flags)
    <3>1. Len(pending_replies) \in Nat
      BY <1>2, LenProperties
    <3> QED
      BY <1>3, <2>1, <3>1 DEF OwnerKnown
  <2>3. pending_replies' = m
    BY <1>4 DEF m
  <2> QED
    BY <1>1, <1>3, <2>1, <2>2, <2>3 DEF ListInv
<1>5. ASSUME NEW i \in 1 .. Len(pending_replies) + 1, InsertAt(pending_replies, i, n, request_read),
             pending_replies' = insert_pending_discard(pending_replies, i, n)
      PROVE  ListInv'
  <2> DEFINE r == insert_pending_discard(pending_replies, i, n)

  <2>1. /\ ListSound(r, reqs, edges, discards \cup {n}, request_read)
        /\ OpenEntry(r, owned, owner_flags)
        /\ Complete(r, reqs, discards \cup {n}, request_completed)
        /\ Len(r) = Len(pending_replies) + 1
        /\ Len(pending_replies) > 0 /\ External(pending_replies[Len(pending_replies)])
           => External(r[Len(pending_replies) + 1])
    <3>1. /\ ListSound(r, reqs, edges, discards \cup {n}, request_read)
          /\ \A own, oflags : OpenEntry(pending_replies, own, oflags) => OpenEntry(r, own, oflags)
          /\ \A done \in Nat : Complete(pending_replies, reqs, discards, done)
                               => Complete(r, reqs, discards \cup {n}, done)
          /\ Len(r) = Len(pending_replies) + 1
          /\ Len(pending_replies) > 0 /\ External(pending_replies[Len(pending_replies)])
             => External(r[Len(pending_replies) + 1])
      <4>1. InsertAt(pending_replies, i, n, request_read)
        BY <1>5
      <4>2. ListSound(pending_replies, reqs, edges, discards, request_read)
        BY <1>3
      <4>3. /\ pending_replies \in Seq(Pending) /\ reqs \in Seq(Request) /\ n \in 1 .. Len(reqs)
            /\ request_read \in Nat
        BY <1>2
      <4> QED
        <5>1. ListSound(r, reqs, edges, discards \cup {n}, request_read)
          BY <4>1, <4>2, <4>3, Inserting
        <5>2. \A own, oflags : OpenEntry(pending_replies, own, oflags) => OpenEntry(r, own, oflags)
          BY <4>1, <4>2, <4>3, Inserting
        <5>3. \A done \in Nat : Complete(pending_replies, reqs, discards, done)
                               => Complete(r, reqs, discards \cup {n}, done)
          BY <4>1, <4>2, <4>3, Inserting
        <5>4. Len(r) = Len(pending_replies) + 1
          <6>1. n \in Nat
            BY <1>2
          <6> QED
            BY <4>3, <6>1, InsertDoes
        <5>5. Len(pending_replies) > 0 /\ External(pending_replies[Len(pending_replies)])
             => External(r[Len(pending_replies) + 1])
          BY <4>1, <4>2, <4>3, Inserting
        <5> HIDE DEF r
        <5> QED
          BY <5>1, <5>2, <5>3, <5>4, <5>5
    <3> HIDE DEF r
    <3> QED
      BY <1>2, <1>3, <3>1
  <2> HIDE DEF r
  <2>2. OwnerKnown(r, owned, owner_flags)
    <3>1. Len(pending_replies) \in Nat
      BY <1>2, LenProperties
    <3> QED
      BY <1>3, <2>1, <3>1 DEF OwnerKnown
  <2>3. pending_replies' = r
    BY <1>5 DEF r
  <2> QED
    BY <1>1, <1>3, <2>1, <2>2, <2>3 DEF ListInv
<1>6. ASSUME n < request_read \/ ~ok, UNCHANGED pending_replies PROVE ListInv'
  <2>1. ListSound(pending_replies, reqs, edges, discards \cup {n}, request_read)
    BY <1>2, <1>3, Growing
  <2>2. n < request_read => Complete(pending_replies, reqs, discards \cup {n}, request_completed)
    <3> SUFFICES ASSUME n < request_read, NEW k \in request_completed + 1 .. Len(reqs),
                        Needs(k, reqs, discards \cup {n})
                 PROVE  \E l \in 1 .. Len(pending_replies) :
                           /\ FirstCover(pending_replies, l, k)
                           /\ Serves(pending_replies[l], k, reqs, discards \cup {n})
      BY DEF Complete
    <3>1. request_completed = request_read - 1 \/ request_completed = request_read
      BY DEF CompletedRight
    <3>2. k # n
      BY <1>2, <3>1
    <3>3. Needs(k, reqs, discards)
      BY <3>2 DEF Needs
    <3>4. PICK l \in 1 .. Len(pending_replies) :
             FirstCover(pending_replies, l, k) /\ Serves(pending_replies[l], k, reqs, discards)
      BY <1>3, <3>3 DEF Complete
    <3>5. Serves(pending_replies[l], k, reqs, discards \cup {n})
      BY <3>2, <3>4 DEF Serves, ToDiscard
    <3> QED
      BY <3>4, <3>5
  <2> QED
    BY <1>1, <1>3, <1>6, <2>1, <2>2 DEF ListInv
<1> QED
  BY <1>1, <1>4, <1>5, <1>6 DEF DiscardMarks
-----------------------------------------------------------------------------
(* The server's side of the invariant, and the whole of it                 *)

\* The server adds a response that the log allows.
LEMMA LogPut ==
    ASSUME LogSound, NEW p \in [type : PacketType, of : Nat],
           log \in Seq([type : PacketType, of : Nat]), log' = Append(log, p),
           p.type \in {"reply", "error"} => p.of > 0,
           \A i \in 1 .. Len(log) :
               log[i].of = p.of /\ log[i].type \in {"reply", "error"} /\ p.type \in {"reply", "error"}
               => log[i].type # "error" /\ p.type # "error"
    PROVE  LogSound'
<1>1. /\ Len(log') = Len(log) + 1 /\ Len(log) \in Nat
      /\ \A i \in 1 .. Len(log) : log'[i] = log[i]
      /\ log'[Len(log) + 1] = p
  BY AppendProperties, LenProperties
<1>2. \A i \in 1 .. Len(log') : i \in 1 .. Len(log) \/ i = Len(log) + 1
  BY <1>1
<1>3. \A i \in 1 .. Len(log') : log'[i].type \in {"reply", "error"} => log'[i].of > 0
  BY <1>1, <1>2 DEF LogSound
<1>4. ASSUME NEW i \in 1 .. Len(log'), NEW j \in 1 .. Len(log'),
             log'[i].of = log'[j].of, log'[i].type = "error",
             log'[j].type \in {"reply", "error"}
      PROVE  i = j
  <2>1. CASE i \in 1 .. Len(log) /\ j \in 1 .. Len(log)
    BY <1>1, <1>4, <2>1 DEF LogSound
  <2>2. CASE i \in 1 .. Len(log) /\ j = Len(log) + 1
    BY <1>1, <1>4, <2>2
  <2>3. CASE i = Len(log) + 1 /\ j \in 1 .. Len(log)
    BY <1>1, <1>4, <2>3
  <2> QED
    BY <1>2, <2>1, <2>2, <2>3
<1> QED
  BY <1>3, <1>4 DEF LogSound

LEMMA LogSteps ==
    ASSUME SeqInv, TypeOK, LogSound, [Next]_vars
    PROVE  LogSound'
<1>1. /\ log \in Seq([type : PacketType, of : Nat]) /\ Len(log) \in Nat
      /\ served \in Nat
      /\ \A i \in 1 .. Len(log) : log[i].of <= served /\ log[i].of \in Nat
  <2>1. log \in Seq([type : PacketType, of : Nat]) /\ served \in 0 .. out_request
        /\ out_request \in 0 .. MaxRequest
    BY DEF TypeOK
  <2>2. \A i \in 1 .. Len(log) : log[i].of <= served
    BY DEF SeqInv, WindowInv, LogOrdered
  <2> QED
    BY <2>1, <2>2, LogElement, LenProperties
<1>2. CASE UNCHANGED log
  BY <1>2 DEF LogSound
<1>3. ASSUME NEW p \in [type : PacketType, of : Nat], log' = log \o <<p>>
      PROVE  log' = Append(log, p)
  BY <1>1, <1>3
<1>4. CASE serve
  <2>1. \/ log' = log \o <<>>
        \/ log' = log \o <<Packet("reply", served + 1)>>
        \/ log' = log \o <<Packet("error", served + 1)>>
    BY <1>4 DEF serve, ServerStep
  <2>2. \A i \in 1 .. Len(log) : log[i].of # served + 1
    BY <1>1
  <2>3. ASSUME NEW t \in {"reply", "error"}, log' = log \o <<Packet(t, served + 1)>>
        PROVE  LogSound'
    <3>1. /\ Packet(t, served + 1) \in [type : PacketType, of : Nat]
          /\ Packet(t, served + 1).of = served + 1 /\ served + 1 > 0
      BY <1>1 DEF Packet, PacketType
    <3>2. log' = Append(log, Packet(t, served + 1))
      BY <1>3, <2>3, <3>1
    <3> QED
      BY <1>1, <2>2, <3>1, <3>2, LogPut
  <2>4. CASE log' = log \o <<>>
    <3>1. log' = log
      BY <1>1, <2>4
    <3> QED
      BY <1>2, <3>1
  <2> QED
    BY <2>1, <2>3, <2>4
<1>5. CASE more_replies
  <2>1. PICK i \in 1 .. Len(log) : log[i] = Packet("reply", served)
    BY <1>1, <1>5, LenProperties DEF more_replies
  <2>2. log' = log \o <<Packet("reply", served)>>
    BY <1>5 DEF more_replies, ServerStep
  <2>3. log[i].type = "reply" /\ log[i].of = served /\ served > 0
    <3>1. log[i].type = "reply" /\ log[i].of = served
      BY <2>1 DEF Packet
    <3> QED
      BY <3>1 DEF LogSound
  <2>4. /\ Packet("reply", served) \in [type : PacketType, of : Nat]
        /\ Packet("reply", served).of = served /\ Packet("reply", served).type = "reply"
    BY <1>1 DEF Packet, PacketType
  <2>5. \A j \in 1 .. Len(log) : log[j].of = served => log[j].type # "error"
    BY <2>3 DEF LogSound
  <2>6. log' = Append(log, Packet("reply", served))
    BY <1>3, <2>2, <2>4
  <2> QED
    BY <1>1, <2>3, <2>4, <2>5, <2>6, LogPut
<1>6. CASE send_event
  <2>1. PICK t \in EventTypes : log' = log \o <<Packet(t, served)>>
    BY <1>6 DEF send_event, ServerStep
  <2>2. t \in {"event", "keymap"}
    BY ReplyAssumption
  <2>3. /\ Packet(t, served) \in [type : PacketType, of : Nat] /\ Packet(t, served).type = t
    BY <1>1, <2>2 DEF Packet, PacketType
  <2>4. log' = Append(log, Packet(t, served))
    BY <1>3, <2>1, <2>3
  <2> QED
    BY <1>1, <2>2, <2>3, <2>4, LogPut
<1>7. CASE \E req \in Shapes : xcb_send_request(req)
  BY <1>2, <1>7 DEF xcb_send_request
<1>8. CASE \/ send_refused \/ take_socket_failed
           \/ \E flags \in OwnerFlags : xcb_take_socket(flags)
  BY <1>2, <1>8 DEF send_refused, take_socket_failed, xcb_take_socket, netvars
<1>9. CASE \E batch \in Batches : xcb_writev(batch)
  BY <1>2, <1>9 DEF xcb_writev
<1>10. CASE \E outcome \in ReadOutcomes, stored \in MapOk : read_packet(outcome, stored)
  BY <1>2, <1>10 DEF read_packet
<1>11. CASE \E n \in 1 .. out_request, stored \in MapOk : xcb_poll_for_reply(n, stored)
  BY <1>2, <1>11 DEF xcb_poll_for_reply, netvars
<1>12. CASE \E n \in 1 .. out_request, ok \in MemOk : xcb_discard_reply(n, ok)
  BY <1>2, <1>12 DEF xcb_discard_reply, netvars
<1>13. CASE get_event \/ UNCHANGED vars
  BY <1>2, <1>13 DEF get_event, vars, netvars
<1> QED
  BY <1>4, <1>5, <1>6, <1>7, <1>8, <1>9, <1>10, <1>11, <1>12, <1>13 DEF Next

\* What every step but those of read_packet keeps.
LEMMA ElseKept ==
    ASSUME TypeOK, TypeOK', [Next]_vars,
           ~\E outcome \in ReadOutcomes, stored \in MapOk : read_packet(outcome, stored)
    PROVE  /\ UNCHANGED <<request_read, request_completed, nread>>
           /\ has_error => has_error'
           /\ \A i \in 1 .. Len(log) : log'[i] = log[i]
<1>1. CASE \E req \in Shapes : xcb_send_request(req)
  BY <1>1 DEF xcb_send_request, readvars
<1>2. CASE \/ send_refused \/ take_socket_failed
           \/ \E flags \in OwnerFlags : xcb_take_socket(flags)
  BY <1>2 DEF send_refused, take_socket_failed, xcb_take_socket, readvars, netvars, seqvars
<1>3. CASE \E batch \in Batches : xcb_writev(batch)
  BY <1>3 DEF xcb_writev, readvars, seqvars
<1>4. CASE \E n \in 1 .. out_request, stored \in MapOk : xcb_poll_for_reply(n, stored)
  BY <1>4 DEF xcb_poll_for_reply, netvars, readvars, seqvars
<1>5. CASE \E n \in 1 .. out_request, ok \in MemOk : xcb_discard_reply(n, ok)
  BY <1>5 DEF xcb_discard_reply, netvars, readvars, seqvars
<1>6. CASE get_event \/ UNCHANGED vars
  BY <1>6 DEF get_event, vars, netvars, readvars, seqvars
<1>7. CASE serve \/ more_replies \/ send_event
  <2>1. /\ UNCHANGED <<request_read, request_completed, nread>>
        /\ has_error => has_error'
    <3>1. \E ps : ServerStep(ps)
      <4>1. CASE serve
        BY <4>1 DEF serve
      <4>2. CASE more_replies
        BY <4>2 DEF more_replies
      <4>3. CASE send_event
        BY <4>3 DEF send_event
      <4> QED
        BY <1>7, <4>1, <4>2, <4>3
    <3> QED
      BY <3>1 DEF ServerStep, readvars, seqvars
  <2>2. \A i \in 1 .. Len(log) : log'[i] = log[i]
    <3>1. CASE Quiet
      BY <3>1 DEF Quiet
    <3>2. CASE \/ \E n \in 1 .. out_request, stored \in MapOk : xcb_poll_for_reply(n, stored)
               \/ \E n \in 1 .. out_request, ok \in MemOk : xcb_discard_reply(n, ok)
               \/ get_event
      BY <3>2 DEF xcb_poll_for_reply, xcb_discard_reply, get_event, netvars
    <3> QED
      BY <3>1, <3>2, StepKinds
  <2> QED
    BY <2>1, <2>2
<1> QED
  BY <1>1, <1>2, <1>3, <1>4, <1>5, <1>6, <1>7 DEF Next

LEMMA PendInit == Init => PendInv
<1> SUFFICES ASSUME Init PROVE PendInv
  OBVIOUS
<1>1. RouteInv
  BY RouteInit
<1>2. /\ pending_replies = <<>> /\ reqs = <<>> /\ log = <<>> /\ owned = FALSE
      /\ owner_flags = {} /\ edges = {} /\ discards = {} /\ out_request = 0
      /\ request_read = 0 /\ request_completed = 0
  BY DEF Init
<1>3. Len(pending_replies) = 0 /\ Len(reqs) = 0 /\ Len(log) = 0
  BY <1>2
<1>4. ListInv
  BY <1>2, <1>3 DEF ListInv, ListSound, Ordered, Pruned, OpenEntry, Complete, OwnerKnown
<1>5. LogSound /\ CompletedRight
  BY <1>2, <1>3 DEF LogSound, CompletedRight
<1> QED
  BY <1>1, <1>4, <1>5 DEF PendInv

\* Every step keeps the invariant of the list.
LEMMA PendStep ==
    ASSUME OwnerContract = "expected", NoWrap, PendInv, [Next]_vars
    PROVE  PendInv'
<1>0. RouteInv /\ ListInv /\ LogSound /\ CompletedRight
  BY DEF PendInv
<1>1. MaxRequest < Seq32
  BY ReplyAssumption, WidthAssumption DEF NoWrap
<1>2. RouteInv'
  BY <1>0, <1>1, RouteStep
<1>3. SeqInv /\ TypeOK /\ SeqInv' /\ TypeOK'
  BY <1>0, <1>2 DEF RouteInv, StoreInv
<1>4. LogSound'
  BY <1>0, <1>3, LogSteps
<1>5. CASE \E outcome \in ReadOutcomes, stored \in MapOk : read_packet(outcome, stored)
  <2>1. PICK outcome \in ReadOutcomes, stored \in MapOk : read_packet(outcome, stored)
    BY <1>5
  <2>2. ListInv'
    BY <1>0, <2>1, ListRead
  <2>3. log[nread + 1].type # "keymap" => request_read' = log[nread + 1].of
    BY <1>3, <2>1, ReadNumber
  <2>4. CompletedRight'
    BY <1>0, <1>3, <2>1, <2>3, CompletedRead
  <2> QED
    BY <1>2, <1>4, <2>2, <2>4 DEF PendInv
<1>6. CASE ~\E outcome \in ReadOutcomes, stored \in MapOk : read_packet(outcome, stored)
  <2>1. /\ UNCHANGED <<request_read, request_completed, nread>>
        /\ has_error => has_error'
        /\ \A i \in 1 .. Len(log) : log'[i] = log[i]
    BY <1>3, <1>6, ElseKept
  <2>2. CompletedRight'
    <3>1. \A i \in 1 .. nread : i \in 1 .. Len(log)
      <4>1. Len(log) \in Nat /\ nread \in 0 .. Len(log)
        BY <1>3, LenProperties DEF TypeOK
      <4> QED
        BY <4>1
    <3> QED
      BY <1>0, <2>1, <3>1 DEF CompletedRight
  <2>3. ListInv'
    <3>1. CASE \E req \in Shapes : xcb_send_request(req)
      BY <1>0, <1>3, <3>1, ListSend
    <3>2. CASE take_socket_failed \/ \E flags \in OwnerFlags : xcb_take_socket(flags)
      BY <1>0, <3>2, ListTake, ListTakeFails
    <3>3. CASE \E batch \in Batches : xcb_writev(batch)
      BY <1>0, <1>3, <3>3, ListWritev
    <3>4. CASE \E n \in 1 .. out_request, ok \in MemOk : xcb_discard_reply(n, ok)
      BY <1>0, <3>4, ListDiscard
    <3>5. CASE UNCHANGED <<pending_replies, reqs, edges, discards, out_request, request_read,
                           request_completed, owned, owner_flags>>
      BY <1>0, <2>1, <3>5, ListSame
    <3>6. CASE send_refused \/ get_event \/ UNCHANGED vars
      BY <3>5, <3>6 DEF send_refused, get_event, vars, listvars, outvars, seqvars, ghosts
    <3>7. CASE \E n \in 1 .. out_request, stored \in MapOk : xcb_poll_for_reply(n, stored)
      BY <3>5, <3>7 DEF xcb_poll_for_reply, outvars, seqvars
    <3>8. CASE serve \/ more_replies \/ send_event
      BY <3>5, <3>8 DEF serve, more_replies, send_event, ServerStep, listvars, outvars, seqvars,
                        ghosts
    <3> QED
      BY <1>6, <3>1, <3>2, <3>3, <3>4, <3>6, <3>7, <3>8 DEF Next
  <2> QED
    BY <1>2, <1>4, <2>2, <2>3 DEF PendInv
<1> QED
  BY <1>5, <1>6

\* Once XCB has its socket back, no entry of a socket owner is left that would
\* catch the responses of XCB's own requests: get_socket_back closes the one
\* entry at the tail of the list, and there is never another
\* (xcb_send_request, xcb_take_socket, _xcb_in_replies_done).
THEOREM OwnerEntriesEnd ==
    ASSUME OwnerContract = "expected", NoWrap
    PROVE  Spec => []OwnerEntryEnds
<1>1. Init => PendInv
  BY PendInit
<1>2. PendInv /\ [Next]_vars => PendInv'
  BY PendStep
<1>3. PendInv => OwnerEntryEnds
  <2> SUFFICES ASSUME PendInv, ~owned, NEW i \in DOMAIN pending_replies
               PROVE  pending_replies[i].workaround # "EXTERNAL_SOCKET_OWNER"
    BY DEF OwnerEntryEnds
  <2>1. pending_replies \in Seq(Pending)
    BY DEF PendInv, RouteInv, StoreInv, TypeOK
  <2>2. i \in 1 .. Len(pending_replies)
    BY <2>1, LenProperties
  <2> QED
    BY <2>2 DEF PendInv, ListInv, OpenEntry, External
<1> QED
  BY <1>1, <1>2, <1>3, PTL DEF Spec
=============================================================================
