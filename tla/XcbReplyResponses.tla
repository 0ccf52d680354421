-------------------------- MODULE XcbReplyResponses --------------------------
(***************************************************************************)
(* Where the responses go, for any number of requests, responses and       *)
(* socket handoffs: errors to the application or to the event queue,       *)
(* replies that nobody wants to nowhere, and "no more replies" only when   *)
(* there are none.  All of it rests on the list of pending replies being   *)
(* right, which is the invariant of module XcbReplyPending.                *)
(***************************************************************************)
EXTENDS XcbReplyPending

\* The predicates below take the ids of the responses in a place as a
\* parameter, the log as lg and the requests as rs.

\* A place for replies has no error of a request that did not ask for it,
\* but for that of the request before a handoff.
RepliesAndChecked(ids, lg, rs, eds) ==
    \A i \in ids :
        \/ lg[i].type = "reply"
        \/ /\ lg[i].type = "error"
           /\ lg[i].of \in eds \/ "CHECKED" \in rs[lg[i].of].flags

\* A place for events has no reply, and none of the errors that are replies.
NoReplies(ids, lg) == \A i \in ids : lg[i].type # "reply"
NoCheckedErrors(ids, lg, rs) ==
    \A i \in ids : lg[i].type = "error" => "CHECKED" \notin rs[lg[i].of].flags

\* A place for replies and errors only.
Responses(ids, lg) == \A i \in ids : lg[i].type \in {"reply", "error"}

NoneToDiscard(ids, lg, rs, dis) == \A i \in ids : ~ToDiscard(lg[i].of, rs, dis)
AllToDiscard(ids, lg, rs, dis) == \A i \in ids : ToDiscard(lg[i].of, rs, dis)

StoredIds == MapIds(replies) \cup Elems(current_reply)
EventIds == Queued(events) \cup Queued(delivered)

\* A response that an application asking for request n must be given.
AnswerTo(p, n, rs) ==
    /\ p.of = n
    /\ p.type = "reply" \/ (p.type = "error" /\ "CHECKED" \in rs[n].flags)

\* Request n has been answered in full: its responses have been handed out
\* (tk) or done away with (gone), and the server is past it.
Final(n, lg, rs, past, tk, gone) ==
    /\ \A i \in 1 .. Len(lg) : AnswerTo(lg[i], n, rs) => i \in Elems(tk[n]) \cup gone
    /\ past > n \/ \E i \in 1 .. Len(lg) : lg[i] = Packet("error", n)

\* The invariant behind ErrorsRouted, DiscardHonoured, OnlyDiscardedDropped,
\* FramingExact and NullIsFinal.
PlacedRight ==
    /\ RepliesAndChecked(StoredIds \cup AllTaken(taken), log, reqs, edges)
    /\ NoReplies(EventIds, log)
    /\ Responses(dropped, log)
    /\ ~has_error => /\ NoCheckedErrors(EventIds, log, reqs)
                     /\ NoneToDiscard(StoredIds, log, reqs, discards)
                     /\ ~misframed
    /\ Careful => AllToDiscard(dropped, log, reqs, discards)

NullsRight ==
    /\ nulls \subseteq 1 .. out_request
    /\ ~has_error => \A n \in nulls : Final(n, log, reqs, served, taken, dropped \cup lost)

ResponseInv == PendInv /\ PlacedRight /\ NullsRight
-----------------------------------------------------------------------------
(* What the predicates are kept by                                         *)

\* The responses ids and the requests they answer are the same in lg, rs and
\* in lg2, rs2.
Same(ids, lg, lg2, rs, rs2) ==
    \A i \in ids : /\ lg2[i] = lg[i]
                   /\ lg[i].type \in {"reply", "error"} => rs2[lg[i].of] = rs[lg[i].of]

\* What every step keeps: requests and responses are only added, and the
\* server answers no request before the one it works on.
LEMMA OnlyAdded ==
    ASSUME TypeOK, TypeOK', [Next]_vars
    PROVE  /\ Len(reqs) <= Len(reqs') /\ \A n \in 1 .. Len(reqs) : reqs'[n] = reqs[n]
           /\ Len(log) <= Len(log') /\ \A i \in 1 .. Len(log) : log'[i] = log[i]
           /\ \A i \in Len(log) + 1 .. Len(log') : log'[i].of >= served
           /\ served <= served' /\ edges \subseteq edges' /\ discards \subseteq discards'
           /\ has_error => has_error'
<1>1. /\ reqs \in Seq(Request) /\ log \in Seq([type : PacketType, of : Nat])
      /\ Len(reqs) \in Nat /\ Len(log) \in Nat /\ served \in Nat
  <2>1. /\ reqs \in Seq(Request) /\ log \in Seq([type : PacketType, of : Nat])
        /\ served \in 0 .. out_request /\ out_request \in 0 .. MaxRequest
    BY DEF TypeOK
  <2> QED
    BY <2>1, LenProperties
<1> DEFINE Reqs == Len(reqs) <= Len(reqs') /\ \A n \in 1 .. Len(reqs) : reqs'[n] = reqs[n]
           Log == /\ Len(log) <= Len(log') /\ \A i \in 1 .. Len(log) : log'[i] = log[i]
                  /\ \A i \in Len(log) + 1 .. Len(log') : log'[i].of >= served
                  /\ served <= served'
           Rest == /\ edges \subseteq edges' /\ discards \subseteq discards'
                   /\ has_error => has_error'
<1>2. reqs' = reqs => Reqs
  BY <1>1
<1>3. UNCHANGED <<log, served>> => Log
  <2>1. \A i : i \notin Len(log) + 1 .. Len(log)
    BY <1>1
  <2> QED
    BY <1>1, <2>1
<1>4. ASSUME NEW rs \in Seq(Request), reqs' = reqs \o rs PROVE Reqs
  BY <1>1, <1>4, ConcatProperties
<1>5. ASSUME NEW ps \in Seq([type : PacketType, of : Nat]), log' = log \o ps,
             served' \in {served, served + 1}, \A i \in 1 .. Len(ps) : ps[i].of = served'
      PROVE  Log
  <2>1. /\ Len(log') = Len(log) + Len(ps) /\ Len(ps) \in Nat
        /\ \A i \in 1 .. Len(log) + Len(ps) :
              log'[i] = IF i <= Len(log) THEN log[i] ELSE ps[i - Len(log)]
    BY <1>1, <1>5, ConcatProperties, LenProperties
  <2>2. ASSUME NEW i \in Len(log) + 1 .. Len(log') PROVE log'[i].of >= served
    <3>1. i - Len(log) \in 1 .. Len(ps) /\ log'[i] = ps[i - Len(log)]
      BY <1>1, <2>1
    <3>2. log'[i].of = served'
      BY <1>5, <3>1
    <3> QED
      BY <1>1, <1>5, <3>2
  <2> QED
    BY <1>1, <1>5, <2>1, <2>2
<1>6. CASE \E req \in Shapes : xcb_send_request(req)
  <2>1. PICK req \in Shapes : xcb_send_request(req)
    BY <1>6
  <2>2. req \in Request /\ SyncRequest \in Request
    BY ReplyAssumption DEF SyncRequest, Request, Flag
  <2>3. <<req>> \in Seq(Request) /\ <<SyncRequest, req>> \in Seq(Request)
    BY <2>2
  <2>4. /\ reqs' = reqs \o <<SyncRequest, req>> \/ reqs' = reqs \o <<req>>
        /\ UNCHANGED <<log, served, edges, discards>> /\ ~has_error
    BY <2>1 DEF xcb_send_request, ghosts
  <2>5. Reqs /\ Log /\ Rest
    BY <1>3, <1>4, <2>3, <2>4
  <2> QED
    BY <2>5
<1>7. CASE \E batch \in Batches : xcb_writev(batch)
  <2>1. PICK batch \in Batches : xcb_writev(batch)
    BY <1>7
  <2> DEFINE rs == [i \in 1 .. Len(batch) |->
                      [isvoid |-> batch[i], flags |-> owner_flags,
                       workaround |-> "NONE", source |-> "owner"]]
  <2>2. batch \in Seq(BOOLEAN) /\ Len(batch) \in Nat
    BY ReplyAssumption
  <2>3. rs \in Seq(Request)
    <3>1. \A i \in 1 .. Len(batch) : rs[i] \in Request
      <4>1. \A i \in 1 .. Len(batch) : batch[i] \in BOOLEAN
        BY <2>2, ElementOfSeq
      <4>2. owner_flags \in SUBSET Flag
        BY DEF TypeOK
      <4> QED
        BY <4>1, <4>2 DEF Request
    <3> QED
      BY <2>2, <3>1, IsASeq
  <2>4. reqs' = reqs \o rs /\ UNCHANGED <<log, served, edges, discards>> /\ ~has_error
    BY <2>1 DEF xcb_writev, ghosts
  <2> HIDE DEF rs
  <2>5. Reqs /\ Log /\ Rest
    BY <1>3, <1>4, <2>3, <2>4
  <2> QED
    BY <2>5
<1>8. CASE serve \/ more_replies \/ send_event
  <2>1. reqs' = reqs /\ Rest
    <3>1. \E ps : ServerStep(ps)
      <4>1. CASE serve
        BY <4>1 DEF serve
      <4>2. CASE more_replies
        BY <4>2 DEF more_replies
      <4>3. CASE send_event
        BY <4>3 DEF send_event
      <4> QED
        BY <1>8, <4>1, <4>2, <4>3
    <3> QED
      BY <3>1 DEF ServerStep, ghosts
  <2>2. \E ps \in Seq([type : PacketType, of : Nat]) :
           /\ log' = log \o ps /\ served' \in {served, served + 1}
           /\ \A i \in 1 .. Len(ps) : ps[i].of = served'
    <3>0. ASSUME NEW t \in PacketType, log' = log \o <<Packet(t, served')>>,
                 served' \in {served, served + 1}
          PROVE  \E ps \in Seq([type : PacketType, of : Nat]) :
                    /\ log' = log \o ps /\ served' \in {served, served + 1}
                    /\ \A i \in 1 .. Len(ps) : ps[i].of = served'
      <4>1. Packet(t, served') \in [type : PacketType, of : Nat] /\ Packet(t, served').of = served'
        BY <1>1, <3>0 DEF Packet
      <4>2. /\ <<Packet(t, served')>> \in Seq([type : PacketType, of : Nat])
            /\ \A i \in 1 .. Len(<<Packet(t, served')>>) :
                  <<Packet(t, served')>>[i].of = served'
        BY <4>1
      <4> QED
        BY <3>0, <4>2
    <3>1. CASE serve
      <4>1. served' = served + 1
        BY <3>1 DEF serve
      <4>2. \/ log' = log \o <<>> \/ log' = log \o <<Packet("reply", served')>>
            \/ log' = log \o <<Packet("error", served')>>
        BY <3>1, <4>1 DEF serve, ServerStep
      <4>3. CASE log' = log \o <<>>
        <5>1. <<>> \in Seq([type : PacketType, of : Nat]) /\ \A i : i \notin 1 .. Len(<<>>)
          OBVIOUS
        <5> QED
          BY <4>1, <4>3, <5>1
      <4> QED
        BY <3>0, <4>1, <4>2, <4>3 DEF PacketType
    <3>2. CASE more_replies
      BY <3>0, <3>2 DEF more_replies, ServerStep, PacketType
    <3>3. CASE send_event
      <4>1. PICK t \in EventTypes : log' = log \o <<Packet(t, served)>>
        BY <3>3 DEF send_event, ServerStep
      <4>2. t \in PacketType /\ served' = served
        BY <3>3, ReplyAssumption DEF send_event, PacketType
      <4> QED
        BY <3>0, <4>1, <4>2
    <3> QED
      BY <1>8, <3>1, <3>2, <3>3
  <2>3. Log
    BY <1>5, <2>2
  <2>4. Reqs
    BY <1>2, <2>1
  <2> QED
    BY <2>1, <2>3, <2>4
<1>9. CASE UNCHANGED <<reqs, log, served>> /\ Rest
  BY <1>2, <1>3, <1>9
<1>10. CASE \/ send_refused \/ take_socket_failed
            \/ \E flags \in OwnerFlags : xcb_take_socket(flags)
  BY <1>9, <1>10 DEF send_refused, take_socket_failed, xcb_take_socket, netvars, ghosts
<1>11. CASE \E outcome \in ReadOutcomes, stored \in MapOk : read_packet(outcome, stored)
  BY <1>9, <1>11 DEF read_packet
<1>12. CASE \E n \in 1 .. out_request, stored \in MapOk : xcb_poll_for_reply(n, stored)
  BY <1>9, <1>12 DEF xcb_poll_for_reply, netvars
<1>13. CASE \E n \in 1 .. out_request, ok \in MemOk : xcb_discard_reply(n, ok)
  BY <1>9, <1>13 DEF xcb_discard_reply, netvars
<1>14. CASE get_event \/ UNCHANGED vars
  BY <1>9, <1>14 DEF get_event, vars, netvars, ghosts
<1> HIDE DEF Reqs, Log, Rest
<1> QED
  BY <1>6, <1>7, <1>8, <1>10, <1>11, <1>12, <1>13, <1>14 DEF Next, Reqs, Log, Rest

\* The responses that have been read, and the requests they answer, stay what
\* they are.
LEMMA ReadStaysSame ==
    ASSUME SeqInv, LogSound, TypeOK, TypeOK', [Next]_vars
    PROVE  Same(1 .. nread, log, log', reqs, reqs')
<1>1. /\ Len(log) \in Nat /\ nread \in 0 .. Len(log) /\ Len(reqs) = out_request
      /\ served \in 0 .. out_request /\ out_request \in Nat
  BY LenProperties DEF TypeOK
<1>2. ASSUME NEW i \in 1 .. nread PROVE i \in 1 .. Len(log)
  BY <1>1
<1>3. ASSUME NEW i \in 1 .. nread, log[i].type \in {"reply", "error"}
      PROVE  log[i].of \in 1 .. Len(reqs)
  <2>1. log[i].of \in Nat /\ log[i].of <= served /\ log[i].of > 0
    BY <1>2, <1>3, LogElement DEF SeqInv, WindowInv, LogOrdered, LogSound
  <2> QED
    BY <1>1, <2>1
<1> QED
  BY <1>2, <1>3, OnlyAdded DEF Same
-----------------------------------------------------------------------------
(* read_packet                                                             *)

\* An entry that is about a request asks for no more than the request did.
LEMMA Asked ==
    ASSUME NEW pend \in Pending, NEW rs \in Seq(Request), NEW eds, NEW dis,
           EntrySound(pend, rs, eds, dis), NEW n \in 1 .. Len(rs), Covers(pend, n)
    PROVE  /\ "CHECKED" \in pend.flags => n \in eds \/ "CHECKED" \in rs[n].flags
           /\ Careful /\ "DISCARD_REPLY" \in pend.flags => ToDiscard(n, rs, dis)
           /\ pend.workaround = "GLX_GET_FB_CONFIGS_BUG" =>
                rs[n].workaround = "GLX_GET_FB_CONFIGS_BUG"
<1>1. /\ pend.first_request \in Nat /\ pend.last_request \in Nat /\ Len(rs) \in Nat
      /\ n \in Nat /\ n <= Len(rs)
  BY LenProperties DEF Pending
<1>2. pend.first_request <= n /\ (External(pend) \/ n <= pend.last_request)
  BY DEF Covers, External
<1>3. n = pend.first_request \/ n \in pend.first_request + 1 .. Len(rs)
  BY <1>1, <1>2
<1>4. "CHECKED" \in pend.flags => n \in eds \/ "CHECKED" \in rs[n].flags
  BY <1>2, <1>3 DEF EntrySound, OwnersRest, SingleRight
<1>5. Careful /\ "DISCARD_REPLY" \in pend.flags => ToDiscard(n, rs, dis)
  <2> SUFFICES ASSUME Careful, "DISCARD_REPLY" \in pend.flags PROVE ToDiscard(n, rs, dis)
    OBVIOUS
  <2>1. /\ pend.last_request = pend.first_request /\ ~External(pend)
        /\ ToDiscard(pend.first_request, rs, dis)
    BY DEF EntrySound, DiscardRight
  <2>2. n = pend.first_request
    BY <1>1, <1>2, <2>1
  <2> QED
    BY <2>1, <2>2
<1>6. pend.workaround = "GLX_GET_FB_CONFIGS_BUG" => rs[n].workaround = "GLX_GET_FB_CONFIGS_BUG"
  <2> SUFFICES ASSUME pend.workaround = "GLX_GET_FB_CONFIGS_BUG"
               PROVE  rs[n].workaround = "GLX_GET_FB_CONFIGS_BUG"
    OBVIOUS
  <2>1. /\ pend.last_request = pend.first_request /\ ~External(pend)
        /\ rs[pend.first_request].workaround = "GLX_GET_FB_CONFIGS_BUG"
    BY DEF EntrySound, GlxRight, External
  <2>2. n = pend.first_request
    BY <1>1, <1>2, <2>1
  <2> QED
    BY <2>1, <2>2
<1> QED
  BY <1>4, <1>5, <1>6

\* The head of the list when read_packet looks for the entry of request n.
HeadRight(d, n, rs, eds, dis) ==
    head_matches(d, n) =>
        /\ "CHECKED" \in Head(d).flags => n \in eds \/ "CHECKED" \in rs[n].flags
        /\ Careful /\ "DISCARD_REPLY" \in Head(d).flags => ToDiscard(n, rs, dis)
        /\ Head(d).workaround = "GLX_GET_FB_CONFIGS_BUG" =>
             rs[n].workaround = "GLX_GET_FB_CONFIGS_BUG"

HeadFound(d, n, rs, dis) ==
    Needs(n, rs, dis) => head_matches(d, n) /\ Serves(Head(d), n, rs, dis)

\* The entry that read_packet uses for a reply or an error is one that the
\* request asked for, and it finds the one that was asked for.
LEMMA HeadTells ==
    ASSUME PendInv, SeqInv', NEW outcome \in ReadOutcomes, NEW stored \in MapOk,
           read_packet(outcome, stored), log[nread + 1].type \in {"reply", "error"}
    PROVE  LET n == request_read'
               d == drop_finished(pending_replies, completed_before(n))
           IN  /\ n = log[nread + 1].of /\ n \in 1 .. Len(reqs)
               /\ HeadRight(d, n, reqs, edges, discards)
               /\ ~has_error => HeadFound(d, n, reqs, discards)
<1> DEFINE p == log[nread + 1]
           n == request_read'
           done == completed_before(n)
           d == drop_finished(pending_replies, done)
<1>0. /\ RouteInv /\ SeqInv /\ TypeOK /\ LogSound /\ CompletedRight
      /\ ListSound(pending_replies, reqs, edges, discards, request_read)
      /\ ~has_error => Complete(pending_replies, reqs, discards, request_completed)
  BY DEF PendInv, RouteInv, StoreInv, ListInv
<1>1. /\ nread + 1 \in 1 .. Len(log) /\ nread \in Nat
      /\ n \in Nat /\ n >= request_read /\ request_read \in Nat
  BY <1>0, ReadMoves
<1>2. n = p.of
  BY ReadNumber
<1>3. /\ pending_replies \in Seq(Pending) /\ reqs \in Seq(Request) /\ Len(reqs) = out_request
      /\ out_request \in Nat /\ request_completed \in Nat
  BY <1>0, ListTypes
<1>4. n \in 1 .. Len(reqs)
  <2>1. p.of <= served /\ p.of > 0 /\ served \in 0 .. out_request
    BY <1>0, <1>1 DEF SeqInv, WindowInv, LogOrdered, LogSound, TypeOK
  <2> QED
    BY <1>1, <1>2, <1>3, <2>1
<1>5. /\ done \in Nat /\ n <= done + 1 /\ request_completed <= done /\ done <= n
      /\ n # request_read => done = n - 1
      /\ n = request_read => done = request_completed
  BY <1>0, <1>1, DoneBefore
<1>6. ~has_error => done = n - 1
  <2> SUFFICES ASSUME ~has_error, done # n - 1 PROVE FALSE
    OBVIOUS
  <2>1. n = request_read /\ request_completed = request_read
    <3>1. n = request_read /\ done = request_completed
      BY <1>5
    <3>2. request_completed = request_read - 1 \/ request_completed = request_read
      BY <1>0 DEF CompletedRight
    <3> QED
      BY <3>1, <3>2
  <2>2. PICK i \in 1 .. nread : log[i] = Packet("error", request_read)
    BY <1>0, <1>4, <2>1 DEF CompletedRight
  <2>3. i \in 1 .. Len(log) /\ log[i].type = "error" /\ log[i].of = p.of /\ i # nread + 1
    <3>1. log[i].type = "error" /\ log[i].of = p.of
      BY <1>2, <2>1, <2>2 DEF Packet
    <3>2. Len(log) \in Nat
      BY <1>0, LenProperties DEF TypeOK
    <3> QED
      BY <1>1, <3>1, <3>2
  <2> QED
    BY <1>0, <1>1, <2>3 DEF LogSound
<1> HIDE DEF p, done
<1>7. /\ d \in Seq(Pending)
      /\ \A j \in 1 .. Len(d) : \E i \in 1 .. Len(pending_replies) : d[j] = pending_replies[i]
      /\ \A k \in 1 .. Len(pending_replies) :
            n = done + 1 /\ FirstCover(pending_replies, k, n)
            => head_matches(d, n) /\ Head(d) = pending_replies[k]
  BY <1>0, <1>1, <1>3, <1>4, <1>5, Dropping
<1> HIDE DEF d
<1>8. HeadRight(d, n, reqs, edges, discards)
  <2> SUFFICES ASSUME head_matches(d, n)
               PROVE  /\ Head(d) \in Pending /\ Covers(Head(d), n)
                      /\ EntrySound(Head(d), reqs, edges, discards)
    BY <1>3, <1>4, Asked DEF HeadRight
  <2>1. d # <<>> /\ Covers(Head(d), n)
    BY DEF head_matches
  <2>2. Len(d) \in Nat \ {0} /\ Head(d) = d[1]
    BY <1>7, <2>1, EmptySeq, HeadTailProperties
  <2>3. PICK i \in 1 .. Len(pending_replies) : Head(d) = pending_replies[i]
    BY <1>7, <2>2
  <2>4. pending_replies[i] \in Pending
    BY <1>3, ElementOfSeq
  <2> QED
    BY <1>0, <2>1, <2>3, <2>4 DEF ListSound
<1>9. ~has_error => HeadFound(d, n, reqs, discards)
  <2> SUFFICES ASSUME ~has_error, Needs(n, reqs, discards)
               PROVE  head_matches(d, n) /\ Serves(Head(d), n, reqs, discards)
    BY DEF HeadFound
  <2>1. n = done + 1 /\ n \in request_completed + 1 .. Len(reqs)
    <3> HIDE DEF n
    <3>1. n \in Nat /\ done \in Nat /\ done = n - 1 /\ request_completed \in Nat
          /\ request_completed <= done /\ Len(reqs) \in Nat /\ n \in 1 .. Len(reqs)
      BY <1>1, <1>3, <1>4, <1>5, <1>6
    <3> QED
      BY <3>1
  <2>2. PICK k \in 1 .. Len(pending_replies) :
           /\ FirstCover(pending_replies, k, n)
           /\ Serves(pending_replies[k], n, reqs, discards)
    BY <1>0, <2>1 DEF Complete
  <2> QED
    BY <1>7, <2>1, <2>2
<1> QED
  BY <1>2, <1>4, <1>8, <1>9 DEF d, done, p

\* What read_packet does with the response, given the list of pending replies
\* it looks at.
ReadCases(d) ==
    LET id == nread + 1
        p == log[id]
        matched == p.type \in {"reply", "error"} /\ head_matches(d, request_read')
        discard == matched /\ "DISCARD_REPLY" \in Head(d).flags
    IN  \/ nread' = nread /\ has_error' /\ UNCHANGED <<events, dropped>>
        \/ nread' = id /\ id \in lost' /\ has_error' /\ UNCHANGED <<events, dropped>>
        \/ /\ nread' = id /\ ~discard /\ to_reply_list(p, matched, Head(d))
           /\ UNCHANGED <<events, dropped>>
        \/ /\ nread' = id /\ ~discard /\ ~to_reply_list(p, matched, Head(d))
           /\ Queued(events') = Queued(events) \cup {id} /\ UNCHANGED dropped
        \/ nread' = id /\ discard /\ dropped' = dropped \cup {id} /\ UNCHANGED events

LEMMA ReadParts ==
    ASSUME TypeOK, TypeOK', NEW outcome \in ReadOutcomes, NEW stored \in MapOk,
           read_packet(outcome, stored)
    PROVE  LET p == log[nread + 1]
               d == IF p.type = "keymap" THEN pending_replies
                    ELSE drop_finished(pending_replies, completed_before(request_read'))
               glx == /\ p.type \in {"reply", "error"} /\ head_matches(d, request_read')
                      /\ Head(d).workaround = "GLX_GET_FB_CONFIGS_BUG"
           IN  /\ ReadCases(d)
               /\ misframed' =
                    (misframed \/ /\ p.type = "reply"
                                  /\ glx # (reqs[p.of].workaround = "GLX_GET_FB_CONFIGS_BUG"))
               /\ lost \subseteq lost'
               /\ UNCHANGED <<delivered, taken, reqs, log, edges, discards, nulls, served,
                              out_request>>
<1> DEFINE id == nread + 1
           p == log[id]
           read == next_read(p)
           d == IF p.type = "keymap" THEN pending_replies
                ELSE drop_finished(pending_replies, completed_before(read))
           matched == p.type \in {"reply", "error"} /\ head_matches(d, read)
           discard == matched /\ "DISCARD_REPLY" \in Head(d).flags
           event == [id |-> id, full_sequence |-> Cookie(read)]
           glx == matched /\ Head(d).workaround = "GLX_GET_FB_CONFIGS_BUG"
<1>1. /\ id \in 1 .. Len(log) /\ request_read' \in Nat
  BY ReadMoves
<1>3. request_read' = read
  BY DEF read_packet
<1>2. event \in Event /\ event.id = id
  <2>1. Len(log) \in Nat /\ Len(log) <= MaxPacket /\ MaxPacket \in Nat
    BY LenProperties, ReplyAssumption DEF TypeOK
  <2>2. Cookie(read) \in Nat
    <3> HIDE DEF read
    <3> QED
      BY <1>1, <1>3, CookieType
  <2> HIDE DEF read
  <2> QED
    BY <1>1, <2>1, <2>2 DEF Event, Ids
<1>4. outcome \in {"ok", "nobuf", "nolist", "broken"}
  BY DEF ReadOutcomes
<1>5. /\ outcome = "nolist" => ~discard
      /\ nread' = IF outcome \in {"ok", "nolist"} THEN id ELSE nread
      /\ dropped' = IF discard /\ outcome = "ok" THEN dropped \cup {id} ELSE dropped
      /\ events' = IF outcome = "ok" /\ ~discard /\ ~to_reply_list(p, matched, Head(d))
                   THEN Append(events, event) ELSE events
      /\ lost \subseteq lost' /\ (outcome = "nolist" => id \in lost')
      /\ has_error' = (has_error \/ outcome # "ok")
      /\ misframed' =
           (misframed \/ /\ p.type = "reply"
                         /\ glx # (reqs[p.of].workaround = "GLX_GET_FB_CONFIGS_BUG"))
      /\ UNCHANGED <<delivered, taken, reqs, log, edges, discards, nulls, served, out_request>>
  <2>1. /\ outcome = "nolist" => ~discard
        /\ nread' = IF outcome \in {"ok", "nolist"} THEN id ELSE nread
        /\ dropped' = IF discard /\ outcome = "ok" THEN dropped \cup {id} ELSE dropped
    BY Zenon DEF read_packet
  <2>2. events' = IF outcome = "ok" /\ ~discard /\ ~to_reply_list(p, matched, Head(d))
                  THEN Append(events, event) ELSE events
    BY Zenon DEF read_packet
  <2>3. /\ has_error' = (has_error \/ outcome # "ok")
        /\ UNCHANGED <<delivered, taken, reqs, log, edges, discards, nulls, served, out_request>>
    BY DEF read_packet, outvars
  <2>4. lost \subseteq lost' /\ (outcome = "nolist" => id \in lost')
    BY DEF read_packet
  <2>5. misframed' =
           (misframed \/ /\ p.type = "reply"
                         /\ glx # (reqs[p.of].workaround = "GLX_GET_FB_CONFIGS_BUG"))
    BY Zenon DEF read_packet
  <2> QED
    BY <2>1, <2>2, <2>3, <2>4, <2>5
<1>6. events \in Seq(Event)
  BY DEF TypeOK, Event
<1> HIDE DEF read
<1>7. ReadCases(d)
  <2>1. Queued(Append(events, event)) = Queued(events) \cup {id}
    <3> HIDE DEF event
    <3> QED
      BY <1>2, <1>6, QueuePut
  <2> HIDE DEF d, event
  <2> QED
    BY <1>3, <1>4, <1>5, <2>1 DEF ReadCases
<1> QED
  BY <1>3, <1>5, <1>7

\* Responses only leave the lists, the event queue keeps what it has until it
\* is delivered, and nothing comes back from where it was dropped or lost: so
\* what is in a list was there before or is new.
LEMMA Moves ==
    ASSUME NEW S, NEW m, NEW c, NEW e, NEW t, NEW d, NEW x, NEW l,
           NEW S2, NEW m2, NEW c2, NEW e2, NEW t2, NEW d2, NEW x2, NEW l2,
           Apart(S, m, c, e, t, d, x, l), Apart(S2, m2, c2, e2, t2, d2, x2, l2),
           e \cup d \subseteq e2 \cup d2, t \subseteq t2, x \subseteq x2, l \subseteq l2
    PROVE  /\ m2 \cup c2 \subseteq m \cup c \cup (S2 \ S)
           /\ m2 \cup c2 \cup t2 \subseteq m \cup c \cup t \cup (S2 \ S)
           /\ x2 \subseteq x \cup m \cup c \cup (S2 \ S)
<1>1. ASSUME NEW i \in m2 \cup c2 PROVE i \in m \cup c \cup (S2 \ S)
  BY DEF Apart
<1>2. ASSUME NEW i \in m2 \cup c2 \cup t2 PROVE i \in m \cup c \cup t \cup (S2 \ S)
  BY DEF Apart
<1>3. ASSUME NEW i \in x2 PROVE i \in x \cup m \cup c \cup (S2 \ S)
  BY DEF Apart
<1> QED
  BY <1>1, <1>2, <1>3

\* The same of the places of the model.
LEMMA PlacesMove ==
    ASSUME StorePlaces, StorePlaces',
           Queued(events) \cup Queued(delivered) \subseteq Queued(events') \cup Queued(delivered'),
           AllTaken(taken) \subseteq AllTaken(taken'), dropped \subseteq dropped',
           lost \subseteq lost'
    PROVE  LET new == 1 .. nread' \ 1 .. nread
           IN  /\ StoredIds' \subseteq StoredIds \cup new
               /\ StoredIds' \cup AllTaken(taken') \subseteq StoredIds \cup AllTaken(taken) \cup new
               /\ dropped' \subseteq dropped \cup StoredIds \cup new
<1> DEFINE S == 1 .. nread
           m == MapIds(replies)
           c == Elems(current_reply)
           e == Queued(events)
           t == AllTaken(taken)
           dl == Queued(delivered)
<1>1. Apart(S, m, c, e, t, dl, dropped, lost) /\ Apart(S', m', c', e', t', dl', dropped', lost')
  BY DEF StorePlaces
<1>2. e \cup dl \subseteq e' \cup dl' /\ t \subseteq t'
  OBVIOUS
<1> HIDE DEF S, m, c, e, t, dl
<1>3. /\ m' \cup c' \subseteq m \cup c \cup (S' \ S)
      /\ m' \cup c' \cup t' \subseteq m \cup c \cup t \cup (S' \ S)
      /\ dropped' \subseteq dropped \cup m \cup c \cup (S' \ S)
  BY <1>1, <1>2, Moves
<1>4. /\ StoredIds = m \cup c /\ StoredIds' = m' \cup c' /\ AllTaken(taken) = t
      /\ AllTaken(taken') = t' /\ 1 .. nread' = S' /\ 1 .. nread = S
  BY DEF StoredIds, m, c, t, S
<1> QED
  BY <1>3, <1>4

\* read_packet puts the response where it belongs.
LEMMA PlacedRead ==
    ASSUME PendInv, PendInv', PlacedRight, NEW outcome \in ReadOutcomes, NEW stored \in MapOk,
           read_packet(outcome, stored)
    PROVE  PlacedRight'
<1> DEFINE id == nread + 1
           p == log[id]
           d == IF p.type = "keymap" THEN pending_replies
                ELSE drop_finished(pending_replies, completed_before(request_read'))
           matched == p.type \in {"reply", "error"} /\ head_matches(d, request_read')
           discard == matched /\ "DISCARD_REPLY" \in Head(d).flags
           asreply == ~discard /\ to_reply_list(p, matched, Head(d))
           asevent == ~discard /\ ~to_reply_list(p, matched, Head(d))
           glx == matched /\ Head(d).workaround = "GLX_GET_FB_CONFIGS_BUG"
<1>0. /\ TypeOK /\ TypeOK' /\ SeqInv' /\ StoreInv /\ StorePlaces /\ StorePlaces'
  BY DEF PendInv, RouteInv, StoreInv
<1>1. /\ misframed' = (misframed \/ /\ p.type = "reply"
                                    /\ glx # (reqs[p.of].workaround = "GLX_GET_FB_CONFIGS_BUG"))
      /\ lost \subseteq lost'
      /\ UNCHANGED <<delivered, taken, reqs, log, edges, discards, nulls, served, out_request>>
      /\ ReadCases(d)
  BY <1>0, ReadParts
<1>2. \/ nread' = nread /\ has_error' /\ UNCHANGED <<events, dropped>>
      \/ nread' = id /\ id \in lost' /\ has_error' /\ UNCHANGED <<events, dropped>>
      \/ nread' = id /\ asreply /\ UNCHANGED <<events, dropped>>
      \/ /\ nread' = id /\ asevent
         /\ Queued(events') = Queued(events) \cup {id} /\ UNCHANGED dropped
      \/ nread' = id /\ discard /\ dropped' = dropped \cup {id} /\ UNCHANGED events
  BY <1>1, Zenon DEF ReadCases
<1>3. p.type \in {"reply", "error"} =>
         /\ HeadRight(d, p.of, reqs, edges, discards) /\ request_read' = p.of
         /\ ~has_error => HeadFound(d, p.of, reqs, discards)
  BY <1>0, HeadTells
<1>4. has_error => has_error'
  BY <1>0, ReadMoves
<1>5. /\ nread \in Nat /\ 1 .. nread' \subseteq 1 .. nread \cup {id} /\ id \notin 1 .. nread
      /\ nread' = nread => id \notin 1 .. nread'
  <2>1. nread \in Nat
    BY <1>0, ReadMoves
  <2>2. nread' = nread \/ nread' = id
    BY <1>2
  <2> QED
    BY <2>1, <2>2
<1> HIDE DEF id, p, d
<1>6. /\ StoredIds' \subseteq StoredIds \cup {id}
      /\ StoredIds' \cup AllTaken(taken') \subseteq StoredIds \cup AllTaken(taken) \cup {id}
      /\ EventIds' \subseteq EventIds \cup {id} /\ dropped' \subseteq dropped \cup {id}
  <2>1. /\ Queued(events) \cup Queued(delivered) \subseteq Queued(events') \cup Queued(delivered')
        /\ dropped \subseteq dropped' /\ AllTaken(taken) \subseteq AllTaken(taken')
        /\ EventIds' \subseteq EventIds \cup {id} /\ dropped' \subseteq dropped \cup {id}
    BY <1>1, <1>2 DEF EventIds
  <2> QED
    <3>1. 1 .. nread' \ 1 .. nread \subseteq {id}
      BY <1>5
    <3>2. /\ StoredIds' \subseteq StoredIds \cup (1 .. nread' \ 1 .. nread)
          /\ StoredIds' \cup AllTaken(taken')
               \subseteq StoredIds \cup AllTaken(taken) \cup (1 .. nread' \ 1 .. nread)
      BY <1>0, <1>1, <2>1, PlacesMove
    <3> QED
      BY <2>1, <3>1, <3>2
<1>7. /\ id \in StoredIds' \cup AllTaken(taken') => nread' = id /\ asreply
      /\ id \in EventIds' => nread' = id /\ asevent
      /\ id \in dropped' => nread' = id /\ discard
  <2>1. /\ id \notin StoredIds \cup AllTaken(taken) \cup EventIds \cup dropped
    BY <1>0, <1>5 DEF StorePlaces, Apart, StoredIds, EventIds
  <2>2. /\ StoredIds' \cup AllTaken(taken') \subseteq 1 .. nread'
        /\ EventIds' \subseteq 1 .. nread' /\ dropped' \subseteq 1 .. nread'
    BY <1>0 DEF StorePlaces, Apart, StoredIds, EventIds
  <2>3. \A i \in StoredIds' \cup AllTaken(taken') : i \notin Queued(events') \cup dropped' \cup lost'
    BY <1>0 DEF StorePlaces, Apart, StoredIds
  <2>4. EventIds' = Queued(events') \cup Queued(delivered)
    BY <1>1 DEF EventIds
  <2> HIDE DEF asreply, asevent, discard
  <2>5. CASE nread' = nread
    BY <1>5, <2>2, <2>5
  <2>6. CASE nread' = id /\ id \in lost' /\ UNCHANGED <<events, dropped>>
    BY <2>1, <2>3, <2>4, <2>6 DEF EventIds
  <2>7. CASE nread' = id /\ asreply /\ UNCHANGED <<events, dropped>>
    BY <2>1, <2>4, <2>7 DEF EventIds
  <2>8. CASE /\ nread' = id /\ asevent
             /\ Queued(events') = Queued(events) \cup {id} /\ UNCHANGED dropped
    BY <2>1, <2>3, <2>8
  <2>9. CASE nread' = id /\ discard /\ dropped' = dropped \cup {id} /\ UNCHANGED events
    BY <2>1, <2>3, <2>4, <2>9 DEF EventIds
  <2> QED
    BY <1>2, <2>5, <2>6, <2>7, <2>8, <2>9
<1>8. asreply => \/ p.type = "reply"
                 \/ /\ p.type = "error" /\ matched /\ "CHECKED" \in Head(d).flags
  BY DEF to_reply_list
<1>9. RepliesAndChecked(StoredIds' \cup AllTaken(taken'), log', reqs', edges')
  <2>1. id \in StoredIds' \cup AllTaken(taken') =>
           \/ log[id].type = "reply"
           \/ /\ log[id].type = "error"
              /\ log[id].of \in edges \/ "CHECKED" \in reqs[log[id].of].flags
    BY <1>3, <1>7, <1>8 DEF HeadRight, p
  <2> QED
    BY <1>1, <1>6, <2>1 DEF PlacedRight, RepliesAndChecked
<1>10. NoReplies(EventIds', log')
  <2>1. id \in EventIds' => log[id].type # "reply"
    BY <1>7 DEF to_reply_list, p
  <2> QED
    BY <1>1, <1>6, <2>1 DEF PlacedRight, NoReplies
<1>11. Responses(dropped', log')
  <2>1. id \in dropped' => log[id].type \in {"reply", "error"}
    BY <1>7 DEF p
  <2> QED
    BY <1>1, <1>6, <2>1 DEF PlacedRight, Responses
<1>12. ASSUME ~has_error' PROVE NoCheckedErrors(EventIds', log', reqs')
  <2>1. ASSUME id \in EventIds', log[id].type = "error", "CHECKED" \in reqs[log[id].of].flags
        PROVE  FALSE
    <3>1. asevent /\ p.type = "error" /\ HeadFound(d, p.of, reqs, discards) /\ request_read' = p.of
      BY <1>3, <1>4, <1>7, <1>12, <2>1 DEF p
    <3>2. Needs(p.of, reqs, discards) /\ "CHECKED" \in reqs[p.of].flags
      BY <2>1 DEF Needs, p
    <3>3. matched /\ "CHECKED" \in Head(d).flags
      BY <3>1, <3>2 DEF HeadFound, Serves
    <3> QED
      BY <3>1, <3>3 DEF to_reply_list
  <2> QED
    BY <1>1, <1>4, <1>6, <1>12, <2>1 DEF PlacedRight, NoCheckedErrors
<1>13. ASSUME ~has_error' PROVE NoneToDiscard(StoredIds', log', reqs', discards')
  <2>1. ASSUME id \in StoredIds', ToDiscard(log[id].of, reqs, discards) PROVE FALSE
    <3>1. /\ asreply /\ p.type \in {"reply", "error"} /\ HeadFound(d, p.of, reqs, discards)
          /\ request_read' = p.of
      BY <1>3, <1>4, <1>7, <1>8, <1>13, <2>1
    <3>2. Needs(p.of, reqs, discards) /\ ToDiscard(p.of, reqs, discards)
      BY <2>1 DEF Needs, ToDiscard, p
    <3>3. matched /\ "DISCARD_REPLY" \in Head(d).flags
      BY <3>1, <3>2 DEF HeadFound, Serves
    <3> QED
      BY <3>1, <3>3
  <2> QED
    BY <1>1, <1>4, <1>6, <1>13, <2>1 DEF PlacedRight, NoneToDiscard
<1>14. ASSUME ~has_error' PROVE ~misframed'
  <2>1. ASSUME p.type = "reply"
        PROVE  glx <=> reqs[p.of].workaround = "GLX_GET_FB_CONFIGS_BUG"
    <3>1. /\ HeadRight(d, p.of, reqs, edges, discards) /\ HeadFound(d, p.of, reqs, discards)
          /\ request_read' = p.of
      BY <1>3, <1>4, <1>14, <2>1
    <3>2. glx => reqs[p.of].workaround = "GLX_GET_FB_CONFIGS_BUG"
      BY <3>1 DEF HeadRight
    <3>3. ASSUME reqs[p.of].workaround = "GLX_GET_FB_CONFIGS_BUG" PROVE glx
      <4>1. Needs(p.of, reqs, discards)
        BY <3>3 DEF Needs
      <4> QED
        BY <2>1, <3>1, <3>3, <4>1 DEF HeadFound, Serves
    <3> QED
      BY <3>2, <3>3
  <2>2. ~misframed
    BY <1>4, <1>14 DEF PlacedRight
  <2>3. p.type = "reply" => glx = (reqs[p.of].workaround = "GLX_GET_FB_CONFIGS_BUG")
    <3> HIDE DEF glx
    <3>1. glx \in BOOLEAN
      BY DEF glx
    <3> QED
      BY <2>1, <3>1, Zenon
  <2> HIDE DEF glx
  <2> QED
    BY <1>1, <2>2, <2>3
<1>15. ASSUME Careful PROVE AllToDiscard(dropped', log', reqs', discards')
  <2>1. ASSUME id \in dropped' PROVE ToDiscard(log[id].of, reqs, discards)
    <3>1. discard /\ HeadRight(d, p.of, reqs, edges, discards) /\ request_read' = p.of
      BY <1>3, <1>7, <2>1
    <3> QED
      BY <1>15, <3>1 DEF HeadRight, p
  <2> QED
    BY <1>1, <1>6, <1>15, <2>1 DEF PlacedRight, AllToDiscard
<1> QED
  BY <1>9, <1>10, <1>11, <1>12, <1>13, <1>14, <1>15 DEF PlacedRight
-----------------------------------------------------------------------------
(* The other steps                                                         *)

\* poll_for_reply only adds to what was returned, and to what is lost.
LEMMA PollGrows ==
    ASSUME TypeOK, NEW n \in 1 .. out_request, NEW stored \in MapOk,
           xcb_poll_for_reply(n, stored)
    PROVE  /\ lost \subseteq lost' /\ AllTaken(taken) \subseteq AllTaken(taken')
           /\ \A k \in 1 .. MaxRequest : Elems(taken[k]) \subseteq Elems(taken'[k])
<1>1. n \in 1 .. MaxRequest /\ PollEffect(n)
  BY PollDoes
<1>2. /\ taken \in [1 .. MaxRequest -> Seq(Ids)] /\ current_reply \in Seq(Ids)
  BY DEF TypeOK
<1>3. CASE UNCHANGED <<taken, lost>>
  BY <1>3
<1>4. ASSUME NEW x \in Ids, taken' = [taken EXCEPT ![n] = Append(@, x)], lost \subseteq lost'
      PROVE  /\ lost \subseteq lost' /\ AllTaken(taken) \subseteq AllTaken(taken')
             /\ \A k \in 1 .. MaxRequest : Elems(taken[k]) \subseteq Elems(taken'[k])
  <2> DEFINE new == [taken EXCEPT ![n] = Append(@, x)]
  <2>1. /\ \A k \in 1 .. MaxRequest :
               Elems(new[k]) = Elems(taken[k]) \cup (IF k = n THEN {x} ELSE {})
        /\ AllTaken(new) = AllTaken(taken) \cup {x}
    BY <1>1, <1>2, TakenAdd
  <2>2. taken' = new
    BY <1>4
  <2> HIDE DEF new
  <2> QED
    BY <1>4, <2>1, <2>2
<1>5. CASE /\ UNCHANGED lost /\ current_reply # <<>>
           /\ taken' = [taken EXCEPT ![n] = Append(@, Head(current_reply))]
  <2>1. Head(current_reply) \in Ids
    BY <1>2, <1>5, HeadTailProperties
  <2> QED
    BY <1>4, <1>5, <2>1
<1>6. ASSUME NEW i \in 1 .. Len(replies), replies[i].data \in Seq(Ids), replies[i].data # <<>>,
             taken' = [taken EXCEPT ![n] = Append(@, Head(replies[i].data))],
             lost' = lost \/ lost' = lost \cup Elems(Tail(replies[i].data))
      PROVE  /\ lost \subseteq lost' /\ AllTaken(taken) \subseteq AllTaken(taken')
             /\ \A k \in 1 .. MaxRequest : Elems(taken[k]) \subseteq Elems(taken'[k])
  <2>1. Head(replies[i].data) \in Ids
    BY <1>6, HeadTailProperties
  <2>2. lost \subseteq lost'
    BY <1>6
  <2> QED
    BY <1>4, <1>6, <2>1, <2>2
<1> QED
  BY <1>1, <1>3, <1>5, <1>6 DEF PollEffect

\* xcb_discard_reply leaves no response to the request behind, and drops no
\* other.
LEMMA DiscardPlaces ==
    ASSUME PendInv, PendInv', NoWrap, NEW n \in 1 .. out_request, NEW ok \in MemOk,
           xcb_discard_reply(n, ok)
    PROVE  /\ \A i \in StoredIds' : log[i].of # n
           /\ \A i \in dropped' \ dropped : log[i].of = n
           /\ dropped \subseteq dropped'
           /\ UNCHANGED <<events, delivered, taken, lost, log, nulls>>
<1>0. /\ RouteInv /\ TypeOK /\ StoredRight /\ StoredRight' /\ replies \in Seq(MapEntry)
      /\ MapDisjoint(replies) /\ KeysDistinct(replies)
  BY DEF PendInv, RouteInv, StoredRight, StoreInv, StoreOrdered, TypeOK
<1>1. /\ discard_reply(n, ok)
      /\ UNCHANGED <<request_read, events, delivered, taken, lost, log, nulls>>
  BY DEF xcb_discard_reply, seqvars, netvars
<1>2. /\ n \in Nat /\ request_read \in Nat /\ Cookie(n) = n
      /\ Diff32(Cookie(n), request_read) = n - request_read
  <2>1. n \in 0 .. MaxRequest /\ request_read \in 0 .. MaxRequest /\ out_request \in Nat
    BY <1>0, ListTypes, ReplyAssumption
  <2>2. Cookie(n) = n /\ Diff32(n, request_read) = n - request_read
    BY <2>1, DiffSame
  <2> QED
    BY <2>1, <2>2
<1>3. \A y : y \in MapIds(replies') <=> \E j \in DOMAIN replies' : y \in Elems(replies'[j].data)
  BY DEF MapIds
<1>4. ASSUME \A j \in DOMAIN replies' : replies'[j].key # n,
             current_reply' = <<>> \/ n # request_read
      PROVE  \A i \in StoredIds' : log[i].of # n
  <2>1. \A i \in MapIds(replies') : log[i].of # n
    BY <1>0, <1>1, <1>3, <1>4 DEF StoredRight
  <2>2. \A i \in Elems(current_reply') : log[i].of # n
    <3>1. Elems(<<>>) = {}
      BY DEF Elems
    <3> QED
      BY <1>0, <1>1, <1>4, <3>1 DEF StoredRight
  <2> QED
    BY <2>1, <2>2 DEF StoredIds
<1>5. \A j \in DOMAIN replies : replies[j].key < request_read /\ replies[j].key \in Nat
  <2>1. \A j \in DOMAIN replies : replies[j] \in MapEntry
    BY <1>0, LenProperties, ElementOfSeq
  <2> QED
    BY <1>0, <2>1 DEF StoredRight, MapEntry
<1>6. CASE /\ Diff32(Cookie(n), request_read) < 0 /\ InMap(Cookie(n))
           /\ replies' = map_removed(MapIndex(Cookie(n)))
           /\ dropped' = dropped \cup {replies[MapIndex(Cookie(n))].data[j] :
                              j \in DOMAIN replies[MapIndex(Cookie(n))].data}
           /\ UNCHANGED current_reply
  <2> DEFINE i == MapIndex(Cookie(n))
             r == map_removed(i)
  <2>1. i \in 1 .. Len(replies) /\ replies[i].key = n
    BY <1>0, <1>2, <1>6, MapIndexType
  <2>2. replies' = r /\ dropped' = dropped \cup Elems(replies[i].data)
    BY <1>6 DEF Elems
  <2> HIDE DEF i
  <2>3. \A j \in DOMAIN r : r[j].key # n
    <3>1. \A j \in DOMAIN r : r[j].key # replies[i].key
      BY <1>0, <2>1, MapTake, Zenon DEF map_removed
    <3> HIDE DEF r
    <3> QED
      BY <2>1, <3>1
  <2>4. n # request_read
    BY <1>2, <1>6
  <2>5. \A y \in Elems(replies[i].data) : log[y].of = n
    <3>1. i \in DOMAIN replies
      BY <1>0, <2>1, LenProperties
    <3> QED
      BY <1>0, <2>1, <3>1 DEF StoredRight
  <2> HIDE DEF r
  <2>6. \A y \in StoredIds' : log[y].of # n
    BY <1>4, <2>2, <2>3, <2>4
  <2> QED
    BY <1>1, <2>2, <2>5, <2>6
<1>7. CASE /\ Diff32(Cookie(n), request_read) < 0 /\ ~InMap(Cookie(n))
           /\ UNCHANGED <<replies, dropped, current_reply>>
  <2>1. \A j \in DOMAIN replies' : replies'[j].key # n
    BY <1>2, <1>7 DEF InMap
  <2>2. n # request_read
    BY <1>2, <1>7
  <2> QED
    BY <1>1, <1>4, <1>7, <2>1, <2>2
<1>8. CASE /\ Diff32(Cookie(n), request_read) = 0
           /\ dropped' = dropped \cup {current_reply[j] : j \in DOMAIN current_reply}
           /\ current_reply' = <<>> /\ UNCHANGED replies
  <2>1. n = request_read /\ dropped' = dropped \cup Elems(current_reply)
    BY <1>2, <1>8 DEF Elems
  <2>2. \A j \in DOMAIN replies' : replies'[j].key # n
    BY <1>5, <1>8, <2>1
  <2>3. \A y \in Elems(current_reply) : log[y].of = n
    BY <1>0, <2>1 DEF StoredRight
  <2>4. \A y \in StoredIds' : log[y].of # n
    BY <1>4, <1>8, <2>2
  <2> QED
    BY <1>1, <2>1, <2>3, <2>4
<1>9. CASE /\ \/ Diff32(Cookie(n), request_read) > 0
              \/ Diff32(Cookie(n), request_read) = 0 /\ current_reply = <<>>
           /\ UNCHANGED <<current_reply, replies, dropped>>
  <2>1. n > request_read \/ (n = request_read /\ current_reply = <<>>)
    BY <1>2, <1>9
  <2>2. \A j \in DOMAIN replies' : replies'[j].key # n
    BY <1>2, <1>5, <1>9, <2>1
  <2>3. current_reply' = <<>> \/ n # request_read
    BY <1>2, <1>9, <2>1
  <2> QED
    BY <1>1, <1>4, <1>9, <2>2, <2>3
<1> QED
  BY <1>1, <1>6, <1>7, <1>8, <1>9, Zenon DEF discard_reply

\* Where responses are before and after a step other than read_packet.
LEMMA ElseMoves ==
    ASSUME PendInv, PendInv', NoWrap, [Next]_vars,
           ~\E outcome \in ReadOutcomes, stored \in MapOk : read_packet(outcome, stored)
    PROVE  /\ StoredIds' \subseteq StoredIds
           /\ StoredIds' \cup AllTaken(taken') \subseteq StoredIds \cup AllTaken(taken)
           /\ EventIds' \subseteq EventIds
           /\ dropped' \subseteq dropped \cup StoredIds
           /\ dropped \cup lost \subseteq dropped' \cup lost'
           /\ \A k \in 1 .. MaxRequest : Elems(taken[k]) \subseteq Elems(taken'[k])
<1>0. /\ TypeOK /\ TypeOK' /\ StoreInv /\ StorePlaces /\ StorePlaces'
  BY DEF PendInv, RouteInv, StoreInv
<1>1. nread' = nread
  BY <1>0, ElseKept
<1>2. 1 .. nread' \ 1 .. nread = {}
  BY <1>1
<1>3. /\ Queued(events') \cup Queued(delivered') = Queued(events) \cup Queued(delivered)
      /\ AllTaken(taken) \subseteq AllTaken(taken') /\ dropped \subseteq dropped'
      /\ lost \subseteq lost'
      /\ \A k \in 1 .. MaxRequest : Elems(taken[k]) \subseteq Elems(taken'[k])
  <2>1. CASE Quiet
    BY <2>1 DEF Quiet, storevars
  <2>2. CASE \E n \in 1 .. out_request, stored \in MapOk : xcb_poll_for_reply(n, stored)
    <3>1. UNCHANGED <<events, delivered, dropped>>
      BY <2>2 DEF xcb_poll_for_reply
    <3> QED
      BY <1>0, <2>2, <3>1, PollGrows
  <2>3. CASE \E n \in 1 .. out_request, ok \in MemOk : xcb_discard_reply(n, ok)
    BY <2>3, DiscardPlaces
  <2>4. CASE get_event
    <3>1. /\ events # <<>> /\ delivered' = Append(delivered, Head(events))
          /\ events' = Tail(events) /\ UNCHANGED <<taken, dropped, lost>>
      BY <2>4 DEF get_event
    <3>2. events \in Seq(Event) /\ delivered \in Seq(Event) /\ InQueueOrder(events)
      BY <1>0 DEF StoreInv, StoreOrdered, TypeOK, Event
    <3>3. /\ Head(events) \in Event /\ Head(events).id \in Queued(events)
          /\ Queued(Tail(events)) = Queued(events) \ {Head(events).id}
      BY <3>1, <3>2, QueueTake
    <3>4. Queued(Append(delivered, Head(events))) = Queued(delivered) \cup {Head(events).id}
      BY <3>2, <3>3, QueuePut
    <3> QED
      BY <3>1, <3>3, <3>4
  <2> QED
    BY <1>0, <2>1, <2>2, <2>3, <2>4, StepKinds
<1>4. /\ StoredIds' \subseteq StoredIds \cup (1 .. nread' \ 1 .. nread)
      /\ StoredIds' \cup AllTaken(taken')
           \subseteq StoredIds \cup AllTaken(taken) \cup (1 .. nread' \ 1 .. nread)
      /\ dropped' \subseteq dropped \cup StoredIds \cup (1 .. nread' \ 1 .. nread)
  BY <1>0, <1>3, PlacesMove
<1>5. EventIds' \subseteq EventIds
  BY <1>3 DEF EventIds
<1> QED
  BY <1>2, <1>3, <1>4, <1>5

\* No step but xcb_discard_reply drops a response or discards a request.
LEMMA OthersDropNothing ==
    ASSUME TypeOK, TypeOK', [Next]_vars,
           ~\E outcome \in ReadOutcomes, stored \in MapOk : read_packet(outcome, stored),
           ~\E n \in 1 .. out_request, ok \in MemOk : xcb_discard_reply(n, ok)
    PROVE  UNCHANGED <<dropped, discards>>
<1>1. CASE \E req \in Shapes : xcb_send_request(req)
  BY <1>1 DEF xcb_send_request, ghosts
<1>2. CASE \/ send_refused \/ take_socket_failed
           \/ \E flags \in OwnerFlags : xcb_take_socket(flags)
  BY <1>2 DEF send_refused, take_socket_failed, xcb_take_socket, ghosts
<1>3. CASE \E batch \in Batches : xcb_writev(batch)
  BY <1>3 DEF xcb_writev, ghosts
<1>4. CASE \E n \in 1 .. out_request, stored \in MapOk : xcb_poll_for_reply(n, stored)
  BY <1>4 DEF xcb_poll_for_reply
<1>5. CASE get_event \/ UNCHANGED vars
  BY <1>5 DEF get_event, vars, ghosts
<1>6. CASE serve
  BY <1>6 DEF serve, ServerStep, ghosts
<1>7. CASE more_replies
  BY <1>7 DEF more_replies, ServerStep, ghosts
<1>8. CASE send_event
  BY <1>8 DEF send_event, ServerStep, ghosts
<1> QED
  BY <1>1, <1>2, <1>3, <1>4, <1>5, <1>6, <1>7, <1>8 DEF Next

\* Only read_packet computes the length of a reply.
LEMMA OthersFrameNothing ==
    ASSUME [Next]_vars,
           ~\E outcome \in ReadOutcomes, stored \in MapOk : read_packet(outcome, stored)
    PROVE  UNCHANGED misframed
<1>1. CASE \E req \in Shapes : xcb_send_request(req)
  BY <1>1 DEF xcb_send_request, readvars
<1>2. CASE \/ send_refused \/ take_socket_failed
           \/ \E flags \in OwnerFlags : xcb_take_socket(flags)
  BY <1>2 DEF send_refused, take_socket_failed, xcb_take_socket, readvars
<1>3. CASE \E batch \in Batches : xcb_writev(batch)
  BY <1>3 DEF xcb_writev, readvars
<1>4. CASE \E n \in 1 .. out_request, stored \in MapOk : xcb_poll_for_reply(n, stored)
  BY <1>4 DEF xcb_poll_for_reply, readvars
<1>5. CASE \E n \in 1 .. out_request, ok \in MemOk : xcb_discard_reply(n, ok)
  BY <1>5 DEF xcb_discard_reply, readvars
<1>6. CASE get_event \/ UNCHANGED vars
  BY <1>6 DEF get_event, vars, readvars
<1>7. CASE serve
  BY <1>7 DEF serve, ServerStep, readvars
<1>8. CASE more_replies
  BY <1>8 DEF more_replies, ServerStep, readvars
<1>9. CASE send_event
  BY <1>9 DEF send_event, ServerStep, readvars
<1> QED
  BY <1>1, <1>2, <1>3, <1>4, <1>5, <1>6, <1>7, <1>8, <1>9 DEF Next

\* No other step puts a response into a place where it does not belong.
LEMMA PlacedElse ==
    ASSUME PendInv, PendInv', NoWrap, PlacedRight, [Next]_vars,
           ~\E outcome \in ReadOutcomes, stored \in MapOk : read_packet(outcome, stored)
    PROVE  PlacedRight'
<1>0. /\ TypeOK /\ TypeOK' /\ SeqInv /\ LogSound /\ StorePlaces
  BY DEF PendInv, RouteInv, StoreInv
<1>1. /\ StoredIds' \subseteq StoredIds
      /\ StoredIds' \cup AllTaken(taken') \subseteq StoredIds \cup AllTaken(taken)
      /\ EventIds' \subseteq EventIds
      /\ dropped' \subseteq dropped \cup StoredIds
  BY ElseMoves
<1>2. /\ has_error => has_error'
      /\ edges \subseteq edges' /\ discards \subseteq discards' /\ UNCHANGED misframed
  BY <1>0, OnlyAdded, OthersFrameNothing
<1>3. Same(1 .. nread, log, log', reqs, reqs')
  BY <1>0, ReadStaysSame
<1>4. /\ StoredIds \cup AllTaken(taken) \subseteq 1 .. nread /\ EventIds \subseteq 1 .. nread
      /\ dropped \cup StoredIds \subseteq 1 .. nread /\ StoredIds \subseteq 1 .. nread
      /\ dropped \subseteq 1 .. nread
  BY <1>0 DEF StorePlaces, Apart, StoredIds, EventIds
<1>5. /\ RepliesAndChecked(StoredIds \cup AllTaken(taken), log, reqs, edges)
      /\ NoReplies(EventIds, log) /\ Responses(dropped, log) /\ Responses(StoredIds, log)
      /\ Responses(dropped \cup StoredIds, log)
  BY DEF PlacedRight, RepliesAndChecked, Responses
<1>6. RepliesAndChecked(StoredIds' \cup AllTaken(taken'), log', reqs', edges')
  <2> SUFFICES ASSUME NEW i \in StoredIds' \cup AllTaken(taken')
               PROVE  \/ log'[i].type = "reply"
                      \/ /\ log'[i].type = "error"
                         /\ log'[i].of \in edges' \/ "CHECKED" \in reqs'[log'[i].of].flags
    BY DEF RepliesAndChecked
  <2>1. i \in StoredIds \cup AllTaken(taken) /\ i \in 1 .. nread
    BY <1>1, <1>4
  <2>2. /\ log'[i] = log[i]
        /\ log[i].type \in {"reply", "error"} => reqs'[log[i].of] = reqs[log[i].of]
    BY <1>3, <2>1 DEF Same
  <2>3. \/ log[i].type = "reply"
        \/ /\ log[i].type = "error"
           /\ log[i].of \in edges \/ "CHECKED" \in reqs[log[i].of].flags
    BY <1>5, <2>1 DEF RepliesAndChecked
  <2> QED
    BY <1>2, <2>2, <2>3
<1>7. NoReplies(EventIds', log') /\ Responses(dropped', log')
  BY <1>1, <1>3, <1>4, <1>5 DEF NoReplies, Responses, Same
<1>8. ASSUME ~has_error'
      PROVE  /\ NoCheckedErrors(EventIds', log', reqs') /\ ~misframed'
             /\ NoneToDiscard(StoredIds', log', reqs', discards)
  <2>1. /\ NoCheckedErrors(EventIds, log, reqs) /\ ~misframed
        /\ NoneToDiscard(StoredIds, log, reqs, discards)
    BY <1>2, <1>8 DEF PlacedRight
  <2>2. NoCheckedErrors(EventIds', log', reqs')
    BY <1>1, <1>3, <1>4, <2>1 DEF NoCheckedErrors, Same
  <2>3. NoneToDiscard(StoredIds', log', reqs', discards)
    BY <1>1, <1>3, <1>4, <1>5, <2>1 DEF NoneToDiscard, ToDiscard, Responses, Same
  <2> QED
    BY <1>2, <2>1, <2>2, <2>3
<1>9. ASSUME Careful PROVE AllToDiscard(dropped, log', reqs', discards')
  <2> SUFFICES ASSUME NEW i \in dropped PROVE ToDiscard(log'[i].of, reqs', discards')
    BY DEF AllToDiscard
  <2>1. /\ log'[i] = log[i] /\ reqs'[log[i].of] = reqs[log[i].of]
    BY <1>3, <1>4, <1>5 DEF Same, Responses
  <2>2. ToDiscard(log[i].of, reqs, discards)
    BY <1>9 DEF PlacedRight, AllToDiscard
  <2> QED
    BY <1>2, <2>1, <2>2 DEF ToDiscard
<1>10. CASE \E n \in 1 .. out_request, ok \in MemOk : xcb_discard_reply(n, ok)
  <2>1. PICK n \in 1 .. out_request, ok \in MemOk : xcb_discard_reply(n, ok)
    BY <1>10
  <2>2. /\ \A i \in StoredIds' : log[i].of # n
        /\ \A i \in dropped' \ dropped : log[i].of = n
        /\ UNCHANGED log
    BY <2>1, DiscardPlaces
  <2>3. discards' = discards \cup {n}
    BY <2>1 DEF xcb_discard_reply
  <2>4. ASSUME ~has_error' PROVE NoneToDiscard(StoredIds', log', reqs', discards')
    BY <1>8, <2>2, <2>3, <2>4 DEF NoneToDiscard, ToDiscard
  <2>5. ASSUME Careful PROVE AllToDiscard(dropped', log', reqs', discards')
    BY <1>9, <2>2, <2>3, <2>5 DEF AllToDiscard, ToDiscard
  <2> QED
    BY <1>6, <1>7, <1>8, <2>4, <2>5 DEF PlacedRight
<1>11. CASE ~\E n \in 1 .. out_request, ok \in MemOk : xcb_discard_reply(n, ok)
  <2>1. UNCHANGED <<dropped, discards>>
    BY <1>0, <1>11, OthersDropNothing
  <2> QED
    BY <1>6, <1>7, <1>8, <1>9, <2>1 DEF PlacedRight
<1> QED
  BY <1>10, <1>11
-----------------------------------------------------------------------------
(* "No more replies"                                                       *)

\* Once a request has been answered in full, it stays so.
LEMMA FinalStays ==
    ASSUME SeqInv, TypeOK, TypeOK', LogSound', [Next]_vars, NEW n \in 1 .. out_request,
           Final(n, log, reqs, served, taken, dropped \cup lost),
           Elems(taken[n]) \subseteq Elems(taken'[n]),
           dropped \cup lost \subseteq dropped' \cup lost'
    PROVE  Final(n, log', reqs', served', taken', dropped' \cup lost')
<1>1. /\ Len(log) \in Nat /\ Len(log') \in Nat /\ served \in Nat /\ served' \in Nat
      /\ Len(reqs) = out_request /\ n \in Nat
  <2>1. /\ log \in Seq([type : PacketType, of : Nat]) /\ log' \in Seq([type : PacketType, of : Nat])
        /\ served \in 0 .. out_request /\ served' \in 0 .. out_request'
        /\ Len(reqs) = out_request /\ out_request \in 0 .. MaxRequest
    BY DEF TypeOK
  <2> QED
    BY <2>1, LenProperties
<1>2. /\ reqs'[n] = reqs[n] /\ Len(log) <= Len(log')
      /\ \A i \in 1 .. Len(log) : log'[i] = log[i] /\ i \in 1 .. Len(log')
      /\ \A i \in Len(log) + 1 .. Len(log') : log'[i].of >= served
      /\ served <= served'
  BY <1>1, OnlyAdded
<1>3. served > n \/ \E i \in 1 .. Len(log) : log[i] = Packet("error", n)
  BY DEF Final
<1>4. served' > n \/ \E i \in 1 .. Len(log') : log'[i] = Packet("error", n)
  BY <1>1, <1>2, <1>3
<1>5. ASSUME NEW i \in 1 .. Len(log'), AnswerTo(log'[i], n, reqs')
      PROVE  i \in Elems(taken'[n]) \cup (dropped' \cup lost')
  <2>1. CASE i \in 1 .. Len(log)
    <3>1. AnswerTo(log[i], n, reqs)
      BY <1>2, <1>5, <2>1 DEF AnswerTo
    <3>2. i \in Elems(taken[n]) \cup (dropped \cup lost)
      BY <2>1, <3>1 DEF Final
    <3> QED
      BY <3>2
  <2>2. CASE i \in Len(log) + 1 .. Len(log')
    <3>1. log'[i].of = n /\ log'[i].of >= served /\ log'[i].type \in {"reply", "error"}
      BY <1>2, <1>5, <2>2 DEF AnswerTo
    <3>2. PICK j \in 1 .. Len(log) : log[j] = Packet("error", n)
      BY <1>1, <1>3, <3>1
    <3>3. log'[j].type = "error" /\ log'[j].of = n /\ j \in 1 .. Len(log')
      BY <1>2, <3>2 DEF Packet
    <3>4. i = j
      BY <3>1, <3>3 DEF LogSound
    <3> QED
      BY <1>1, <2>2, <3>4
  <2> QED
    BY <1>1, <2>1, <2>2
<1> QED
  BY <1>4, <1>5 DEF Final

\* poll_for_reply finds nothing for a request when its responses have been
\* passed and none is in the map, or when it was completed by its error and
\* the list being read is empty.
NothingFor(n) ==
    \/ n < request_read /\ \A i \in DOMAIN replies : replies[i].key # n
    \/ n = request_read /\ request_completed = request_read /\ current_reply = <<>>

LEMMA NothingIsFinal ==
    ASSUME PendInv, PlacedRight, ~has_error, NEW n \in 1 .. out_request, NothingFor(n)
    PROVE  Final(n, log, reqs, served, taken, dropped \cup lost)
<1>0. /\ TypeOK /\ SeqInv /\ LogSound /\ StorePlaces /\ StoredRight /\ TakenRight /\ CompletedRight
  BY DEF PendInv, RouteInv, StoreInv
<1>1. /\ Len(log) \in Nat /\ nread \in 0 .. Len(log) /\ request_read \in Nat /\ n \in Nat /\ n > 0
      /\ served \in Nat /\ request_read <= served
  <2>1. /\ log \in Seq([type : PacketType, of : Nat]) /\ nread \in 0 .. Len(log)
        /\ request_read \in Nat /\ served \in 0 .. out_request /\ out_request \in 0 .. MaxRequest
        /\ request_read <= served
    BY <1>0 DEF TypeOK, SeqInv, WindowInv, LogOrdered
  <2> QED
    BY <2>1, LenProperties
<1>2. n = request_read =>
         \E i \in 1 .. Len(log) : i \in 1 .. nread /\ log[i] = Packet("error", n)
  <2> SUFFICES ASSUME n = request_read
               PROVE  \E i \in 1 .. Len(log) : i \in 1 .. nread /\ log[i] = Packet("error", n)
    OBVIOUS
  <2>1. request_completed = request_read
    BY <1>1 DEF NothingFor
  <2>2. PICK i \in 1 .. nread : log[i] = Packet("error", request_read)
    BY <1>0, <1>1, <2>1 DEF CompletedRight
  <2> QED
    BY <1>1, <2>2
<1>3. n < request_read \/ n = request_read
  BY DEF NothingFor
<1>4. served > n \/ \E i \in 1 .. Len(log) : log[i] = Packet("error", n)
  BY <1>1, <1>2, <1>3
<1>5. ASSUME NEW i \in 1 .. Len(log), AnswerTo(log[i], n, reqs)
      PROVE  i \in Elems(taken[n]) \cup (dropped \cup lost)
  <2>0. log[i].of = n /\ log[i].type \in {"reply", "error"}
    BY <1>5 DEF AnswerTo
  <2>1. i \in 1 .. nread
    <3>1. CASE n < request_read
      <4>1. i \in nread + 1 .. Len(log) => request_read <= n
        BY <1>0, <2>0 DEF SeqInv, WindowInv, LogOrdered
      <4>2. i \notin nread + 1 .. Len(log)
        BY <1>1, <3>1, <4>1
      <4> QED
        BY <1>1, <4>2
    <3>2. CASE n = request_read
      <4>1. PICK j \in 1 .. Len(log) : j \in 1 .. nread /\ log[j] = Packet("error", n)
        BY <1>2, <3>2
      <4>2. log[j].type = "error" /\ log[j].of = n
        BY <4>1 DEF Packet
      <4>3. i = j
        BY <1>0, <2>0, <4>2 DEF LogSound
      <4> QED
        BY <4>1, <4>3
    <3> QED
      BY <1>3, <3>1, <3>2
  <2>2. i \in MapIds(replies) \cup Elems(current_reply) \cup EventIds \cup AllTaken(taken)
             \cup dropped \cup lost
    BY <1>0, <2>1 DEF StorePlaces, Apart, EventIds
  <2>3. i \notin MapIds(replies)
    <3> SUFFICES ASSUME NEW j \in DOMAIN replies, i \in Elems(replies[j].data) PROVE FALSE
      BY DEF MapIds
    <3>1. replies[j].key = n /\ replies[j].key < request_read
      BY <1>0, <2>0 DEF StoredRight
    <3> QED
      BY <1>1, <3>1 DEF NothingFor
  <2>4. i \notin Elems(current_reply)
    <3>1. Elems(<<>>) = {}
      BY DEF Elems
    <3>2. i \in Elems(current_reply) => n = request_read
      BY <1>0, <2>0 DEF StoredRight
    <3> QED
      BY <1>1, <3>1, <3>2 DEF NothingFor
  <2>5. i \notin EventIds
    BY <1>5, <2>0 DEF PlacedRight, NoReplies, NoCheckedErrors, AnswerTo
  <2>6. i \in AllTaken(taken) => i \in Elems(taken[n])
    <3> SUFFICES ASSUME NEW k \in DOMAIN taken, i \in Elems(taken[k]) PROVE k = n
      BY DEF AllTaken
    <3>1. k \in 1 .. MaxRequest
      BY <1>0 DEF TypeOK
    <3> QED
      BY <1>0, <2>0, <3>1 DEF TakenRight
  <2> QED
    BY <2>2, <2>3, <2>4, <2>5, <2>6
<1> QED
  BY <1>4, <1>5 DEF Final

\* What poll_for_reply says "nothing" to.
LEMMA PollSaysNothing ==
    ASSUME PendInv, NoWrap, NEW n \in 1 .. out_request, NEW stored \in MapOk,
           xcb_poll_for_reply(n, stored)
    PROVE  \/ UNCHANGED nulls
           \/ nulls' = nulls \cup {n} /\ NothingFor(n)
<1>0. RouteInv /\ CompletedRight /\ poll_for_reply(n, stored)
  BY DEF PendInv, xcb_poll_for_reply
<1>1. /\ n \in Nat /\ n > 0 /\ request_read \in Nat /\ request_completed \in Nat /\ Cookie(n) = n
      /\ Diff32(Cookie(n), request_read) = n - request_read
      /\ Diff32(Cookie(n), request_completed) = n - request_completed
  <2>1. n \in 0 .. MaxRequest /\ request_read \in 0 .. MaxRequest /\ n \in 1 .. out_request
        /\ out_request \in Nat /\ request_completed \in Nat
    BY <1>0, ListTypes, ReplyAssumption
  <2>2. request_completed = request_read - 1 \/ request_completed = request_read
    BY <1>0 DEF CompletedRight
  <2>3. request_completed \in 0 .. MaxRequest
    BY <2>1, <2>2, ReplyAssumption
  <2>4. /\ Cookie(n) = n /\ Diff32(n, request_read) = n - request_read
        /\ Diff32(n, request_completed) = n - request_completed
    BY <2>1, <2>3, DiffSame
  <2> QED
    BY <2>1, <2>4
<1>2. CASE Cookie(n) = 0
  BY <1>1, <1>2
<1>3. CASE take_from_map(n, Cookie(n), stored) \/ take_current(n)
  BY <1>3 DEF take_from_map, take_current
<1>4. CASE Diff32(Cookie(n), request_read) < 0 /\ ~InMap(Cookie(n)) /\ found_nothing(n)
  <2>1. n < request_read
    BY <1>1, <1>4
  <2>2. \A i \in DOMAIN replies : replies[i].key # n
    BY <1>1, <1>4 DEF InMap
  <2>3. nulls' = nulls \cup {n}
    BY <1>4 DEF found_nothing
  <2> QED
    BY <2>1, <2>2, <2>3 DEF NothingFor
<1>5. CASE /\ \/ Diff32(Cookie(n), request_read) > 0
              \/ Diff32(Cookie(n), request_read) = 0 /\ current_reply = <<>>
           /\ Diff32(Cookie(n), request_completed) = 0 /\ found_nothing(n)
  <2>1. n = request_completed /\ n >= request_read
    BY <1>1, <1>5
  <2>2. request_completed = request_read - 1 \/ request_completed = request_read
    BY <1>0 DEF CompletedRight
  <2>3. n = request_read /\ request_completed = request_read
    BY <1>1, <2>1, <2>2
  <2>4. current_reply = <<>>
    BY <1>1, <1>5, <2>3
  <2>5. nulls' = nulls \cup {n}
    BY <1>5 DEF found_nothing
  <2> QED
    BY <2>3, <2>4, <2>5 DEF NothingFor
<1> QED
  BY <1>0, <1>2, <1>3, <1>4, <1>5, Zenon DEF poll_for_reply

\* Every step keeps the requests that were answered "nothing" answered in full.
LEMMA NullsStay ==
    ASSUME PendInv, PendInv', NoWrap, PlacedRight, NullsRight, [Next]_vars
    PROVE  NullsRight'
<1>0. /\ TypeOK /\ TypeOK' /\ SeqInv /\ LogSound'
  BY DEF PendInv, RouteInv, StoreInv
<1>1. /\ has_error => has_error'
      /\ out_request \in Nat /\ out_request' \in Nat /\ out_request <= out_request'
  <2>1. /\ Len(reqs) = out_request /\ Len(reqs') = out_request'
        /\ out_request \in 0 .. MaxRequest /\ out_request' \in 0 .. MaxRequest
    BY <1>0 DEF TypeOK
  <2> QED
    BY <1>0, <2>1, OnlyAdded
<1>2. ASSUME NEW n \in 1 .. out_request PROVE n \in 1 .. out_request' /\ n \in 1 .. MaxRequest
  <2>1. out_request \in 0 .. MaxRequest /\ MaxRequest \in Nat
    BY <1>0, ReplyAssumption DEF TypeOK
  <2> QED
    BY <1>1, <2>1
<1>3. CASE \E outcome \in ReadOutcomes, stored \in MapOk : read_packet(outcome, stored)
  <2>1. PICK outcome \in ReadOutcomes, stored \in MapOk : read_packet(outcome, stored)
    BY <1>3
  <2>2. lost \subseteq lost' /\ UNCHANGED <<taken, nulls>>
    BY <1>0, <2>1, ReadParts
  <2>3. dropped \subseteq dropped'
    BY <2>1 DEF read_packet
  <2>4. ASSUME NEW n \in 1 .. out_request,
               Final(n, log, reqs, served, taken, dropped \cup lost)
        PROVE  Final(n, log', reqs', served', taken', dropped' \cup lost')
    <3>1. /\ Elems(taken[n]) \subseteq Elems(taken'[n])
          /\ dropped \cup lost \subseteq dropped' \cup lost'
      BY <2>2, <2>3
    <3> QED
      BY <1>0, <2>4, <3>1, FinalStays
  <2> QED
    BY <1>1, <1>2, <2>2, <2>4 DEF NullsRight
<1>4. CASE ~\E outcome \in ReadOutcomes, stored \in MapOk : read_packet(outcome, stored)
  <2>1. ASSUME NEW n \in 1 .. out_request,
               Final(n, log, reqs, served, taken, dropped \cup lost)
        PROVE  Final(n, log', reqs', served', taken', dropped' \cup lost')
    <3>1. /\ Elems(taken[n]) \subseteq Elems(taken'[n])
          /\ dropped \cup lost \subseteq dropped' \cup lost'
      BY <1>2, <1>4, ElseMoves
    <3> QED
      BY <1>0, <2>1, <3>1, FinalStays
  <2>2. CASE UNCHANGED nulls
    BY <1>1, <1>2, <2>1, <2>2 DEF NullsRight
  <2>3. CASE \E n \in 1 .. out_request, stored \in MapOk : xcb_poll_for_reply(n, stored)
    <3>1. PICK n \in 1 .. out_request, stored \in MapOk : xcb_poll_for_reply(n, stored)
      BY <2>3
    <3>2. CASE nulls' = nulls \cup {n} /\ NothingFor(n)
      <4>1. ~has_error => Final(n, log, reqs, served, taken, dropped \cup lost)
        BY <3>2, NothingIsFinal
      <4> QED
        BY <1>1, <1>2, <2>1, <3>2, <4>1 DEF NullsRight
    <3> QED
      BY <2>2, <3>1, <3>2, PollSaysNothing
  <2>4. CASE \E n \in 1 .. out_request, ok \in MemOk : xcb_discard_reply(n, ok)
    BY <2>2, <2>4 DEF xcb_discard_reply
  <2>5. CASE get_event
    BY <2>2, <2>5 DEF get_event
  <2>6. CASE Quiet
    BY <2>2, <2>6 DEF Quiet
  <2> QED
    BY <1>0, <1>4, <2>3, <2>4, <2>5, <2>6, StepKinds
<1> QED
  BY <1>3, <1>4
-----------------------------------------------------------------------------
(* The theorems                                                            *)

\* The invariant holds at first.
LEMMA ResponseInit == Init => ResponseInv
<1> SUFFICES ASSUME Init PROVE ResponseInv
  OBVIOUS
<1>1. PendInv
  BY PendInit
<1>2. StorePlaces /\ nread = 0
  BY <1>1 DEF PendInv, RouteInv, StoreInv, Init
<1>3. 1 .. nread = {}
  BY <1>2
<1>4. StoredIds \cup AllTaken(taken) = {} /\ EventIds = {} /\ StoredIds = {} /\ dropped = {}
  BY <1>2, <1>3 DEF StorePlaces, Apart, StoredIds, EventIds
<1>5. misframed = FALSE /\ nulls = {}
  BY DEF Init
<1> QED
  BY <1>1, <1>4, <1>5 DEF ResponseInv, PlacedRight, NullsRight, RepliesAndChecked, NoReplies,
     NoCheckedErrors, Responses, NoneToDiscard, AllToDiscard

\* Every step keeps the invariant.
LEMMA ResponseStep ==
    ASSUME OwnerContract = "expected", NoWrap, ResponseInv, [Next]_vars
    PROVE  ResponseInv'
<1>1. PendInv /\ PlacedRight /\ NullsRight
  BY DEF ResponseInv
<1>2. PendInv'
  BY <1>1, PendStep
<1>3. PlacedRight'
  <2>1. CASE \E outcome \in ReadOutcomes, stored \in MapOk : read_packet(outcome, stored)
    BY <1>1, <1>2, <2>1, PlacedRead
  <2>2. CASE ~\E outcome \in ReadOutcomes, stored \in MapOk : read_packet(outcome, stored)
    BY <1>1, <1>2, <2>2, PlacedElse
  <2> QED
    BY <2>1, <2>2
<1>4. NullsRight'
  BY <1>1, <1>2, NullsStay
<1> QED
  BY <1>2, <1>3, <1>4 DEF ResponseInv

\* What is stored or returned for a request, in terms of the places.
LEMMA KeptFor ==
    ASSUME ResponseInv, NoWrap, NEW n \in 1 .. out_request
    PROVE  /\ Stored(n) \subseteq StoredIds /\ Taken(n) \subseteq AllTaken(taken)
           /\ \A i \in Stored(n) \cup Taken(n) : log[i].of = n
           /\ Taken(n) = Elems(taken[n])
<1>1. MaxRequest < Seq32
  BY ReplyAssumption, WidthAssumption DEF NoWrap
<1>2. RouteInv
  BY DEF ResponseInv, PendInv
<1>3. /\ n \in 1 .. MaxRequest /\ Taken(n) = Elems(taken[n])
      /\ Stored(n) \subseteq StoredIds /\ \A i \in Stored(n) : log[i].of = n
  BY <1>1, <1>2, StoredIs DEF StoredIds
<1>4. \A i \in Elems(taken[n]) : log[i].of = n
  BY <1>2, <1>3 DEF RouteInv, TakenRight
<1>5. Elems(taken[n]) \subseteq AllTaken(taken)
  <2>1. n \in DOMAIN taken
    BY <1>2, <1>3 DEF RouteInv, StoreInv, TypeOK
  <2> QED
    BY <2>1 DEF AllTaken
<1> QED
  BY <1>3, <1>4, <1>5

\* Errors go where read_packet is to put them: the error of a checked request
\* to the list of replies, the error of an unchecked one to the event queue,
\* whoever owned the socket.  XCB's last request before a handoff with flags
\* is left out; run handoff_error shows what happens to it.
THEOREM ErrorsGoRight ==
    ASSUME OwnerContract = "expected", NoWrap
    PROVE  Spec => []ErrorsRouted
<1>1. Init => ResponseInv
  BY ResponseInit
<1>2. ResponseInv /\ [Next]_vars => ResponseInv'
  BY ResponseStep
<1>3. ResponseInv => ErrorsRouted
  <2> SUFFICES ASSUME ResponseInv, ~has_error PROVE ErrorsRouted
    BY DEF ErrorsRouted, UncheckedErrorsAreEvents
  <2>1. PlacedRight
    BY DEF ResponseInv
  <2>2. ASSUME NEW n \in (1 .. out_request) \ edges, "CHECKED" \notin reqs[n].flags,
               NEW i \in Stored(n) \cup Taken(n)
        PROVE  log[i].type = "reply"
    <3>1. i \in StoredIds \cup AllTaken(taken) /\ log[i].of = n
      BY KeptFor
    <3> QED
      BY <2>1, <2>2, <3>1 DEF PlacedRight, RepliesAndChecked
  <2>3. \A i \in Queued(events) \cup Queued(delivered) :
           log[i].type = "error" => "CHECKED" \notin reqs[log[i].of].flags
    BY <2>1 DEF PlacedRight, NoCheckedErrors, EventIds
  <2> QED
    BY <2>2, <2>3 DEF ErrorsRouted, UncheckedErrorsAreEvents
<1> QED
  BY <1>1, <1>2, <1>3, PTL DEF Spec

\* A discard is honoured: once a request has been given to xcb_discard_reply,
\* or if it was sent to be discarded, none of its responses is kept, whether
\* it came before the call or comes after it.
THEOREM DiscardsAreHonoured ==
    ASSUME OwnerContract = "expected", NoWrap
    PROVE  Spec => []DiscardHonoured
<1>1. Init => ResponseInv
  BY ResponseInit
<1>2. ResponseInv /\ [Next]_vars => ResponseInv'
  BY ResponseStep
<1>3. ResponseInv => DiscardHonoured
  <2> SUFFICES ASSUME ResponseInv, ~has_error, NEW n \in 1 .. out_request,
                      n \in discards \/ "DISCARD_REPLY" \in reqs[n].flags,
                      NEW i \in Stored(n)
               PROVE  FALSE
    BY DEF DiscardHonoured
  <2>1. i \in StoredIds /\ log[i].of = n
    BY KeptFor
  <2> QED
    BY <2>1 DEF ResponseInv, PlacedRight, NoneToDiscard, ToDiscard
<1> QED
  BY <1>1, <1>2, <1>3, PTL DEF Spec

\* Nothing else is dropped by read_packet or discard_reply, as long as no
\* entry of a socket owner is used to discard (Careful).
THEOREM NothingElseDropped ==
    ASSUME OwnerContract = "expected", NoWrap, Careful
    PROVE  Spec => []OnlyDiscardedDropped
<1>1. Init => ResponseInv
  BY ResponseInit
<1>2. ResponseInv /\ [Next]_vars => ResponseInv'
  BY ResponseStep
<1>3. ResponseInv => OnlyDiscardedDropped
  BY DEF ResponseInv, PlacedRight, AllToDiscard, ToDiscard, OnlyDiscardedDropped
<1> QED
  BY <1>1, <1>2, <1>3, PTL DEF Spec

\* read_packet applies the GLX workaround to the length of a reply if and only
\* if its request has the bug, so the stream of responses is never cut in the
\* wrong place.
THEOREM StreamWellFramed ==
    ASSUME OwnerContract = "expected", NoWrap
    PROVE  Spec => []FramingExact
<1>1. Init => ResponseInv
  BY ResponseInit
<1>2. ResponseInv /\ [Next]_vars => ResponseInv'
  BY ResponseStep
<1>3. ResponseInv => FramingExact
  BY DEF ResponseInv, PlacedRight, FramingExact
<1> QED
  BY <1>1, <1>2, <1>3, PTL DEF Spec

\* When poll_for_reply tells its caller that there is no reply, or no more of
\* them, that is final: nothing for the request is stored, on its way or still
\* to be sent by the server.
THEOREM NothingMoreComes ==
    ASSUME OwnerContract = "expected", NoWrap
    PROVE  Spec => []NullIsFinal
<1>1. Init => ResponseInv
  BY ResponseInit
<1>2. ResponseInv /\ [Next]_vars => ResponseInv'
  BY ResponseStep
<1>3. ResponseInv => NullIsFinal
  <2> SUFFICES ASSUME ResponseInv, ~has_error, NEW n \in nulls
               PROVE  /\ \A i \in DOMAIN log : IsAnswer(i, n) => i \in Taken(n) \cup dropped \cup lost
                      /\ served > n \/ Packet("error", n) \in {log[i] : i \in DOMAIN log}
    BY DEF NullIsFinal
  <2>1. n \in 1 .. out_request /\ Final(n, log, reqs, served, taken, dropped \cup lost)
    BY DEF ResponseInv, NullsRight
  <2>2. DOMAIN log = 1 .. Len(log)
    BY LenProperties DEF ResponseInv, PendInv, RouteInv, StoreInv, TypeOK
  <2>3. Taken(n) = Elems(taken[n])
    BY <2>1, KeptFor
  <2>4. ASSUME NEW i \in DOMAIN log, IsAnswer(i, n) PROVE i \in Taken(n) \cup dropped \cup lost
    <3>1. AnswerTo(log[i], n, reqs)
      BY <2>4 DEF IsAnswer, AnswerTo
    <3> QED
      BY <2>1, <2>2, <2>3, <3>1 DEF Final
  <2>5. served > n \/ Packet("error", n) \in {log[i] : i \in DOMAIN log}
    BY <2>1, <2>2 DEF Final
  <2> QED
    BY <2>4, <2>5
<1> QED
  BY <1>1, <1>2, <1>3, PTL DEF Spec
=============================================================================
