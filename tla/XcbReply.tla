------------------------------ MODULE XcbReply ------------------------------
(***************************************************************************)
(* The heart of libxcb: request numbers going out (xcb_out.c) and the      *)
(* responses coming in being sorted into the reply map, the list of the    *)
(* current replies and the event queue (xcb_in.c).                         *)
(*                                                                         *)
(* Every public call holds c->iolock from its first to its last access of  *)
(* this state, so a call is one action here; module XcbThreads takes the   *)
(* same calls apart where they drop the lock.  What is written to the      *)
(* socket and when is abstracted: `served` lags behind `out_request` by as *)
(* much as the output queue, the socket and the server like.               *)
(*                                                                         *)
(* The server is external.  It answers requests in order and may put an    *)
(* event anywhere.  A response is identified by its position in `log`, so  *)
(* the model can say where each one went; only its type and the low 16     *)
(* bits of its request number are looked at by the code.                   *)
(***************************************************************************)
EXTENDS XcbSeq, Sequences, FiniteSets

CONSTANTS
    Shapes,         \* requests the application issues through XCB
    OwnerFlags,     \* flags socket owners pass to xcb_take_socket
    Batches,        \* what a socket owner hands to xcb_writev at a time: a
                    \* sequence of BOOLEANs, "this request is void"
    OwnerContract,  \* how a socket owner keeps the 16-bit window, see Keeps
    Discarding,     \* which requests the application discards: "none", "any",
                    \* or "inner", all but XCB's last one before a handoff
    EventTypes,     \* kinds of events the server sends
    Faults,         \* subset of FaultKinds that may happen
    MaxPending,     \* bound on the pending replies a handoff may add to
    MaxRequest,     \* bound on the number of requests
    MaxPacket       \* bound on the number of responses

FaultKinds == {"nomem", "nomap", "io", "refuse"}

\* XCB_REQUEST_CHECKED and XCB_REQUEST_DISCARD_REPLY; XCB_REQUEST_RAW only
\* says how the bytes of the request are put together.
Flag == {"CHECKED", "DISCARD_REPLY"}

\* enum workarounds
Workaround == {"NONE", "GLX_GET_FB_CONFIGS_BUG", "EXTERNAL_SOCKET_OWNER"}

\* A request: does it have a reply, the flags it was sent with, whether
\* its reply has the GLX length bug, and who issued it.
Request ==
    [isvoid : BOOLEAN, flags : SUBSET Flag,
     workaround : {"NONE", "GLX_GET_FB_CONFIGS_BUG"},
     source : {"xcb", "sync", "owner"}]

PacketType == {"reply", "error", "event", "keymap"}

ASSUME ReplyAssumption ==
    /\ Shapes \subseteq {r \in Request : r.source = "xcb"}
    /\ \A r \in Shapes : r.workaround # "NONE" => ~r.isvoid
    /\ OwnerFlags \subseteq SUBSET Flag
    /\ Batches \subseteq Seq(BOOLEAN)
    /\ OwnerContract \in {"expected", "history"}
    /\ Discarding \in {"none", "inner", "any"}
    /\ EventTypes \subseteq {"event", "keymap"}
    /\ Faults \subseteq FaultKinds
    /\ MaxPending \in Nat /\ MaxRequest \in Nat /\ MaxPacket \in Nat

VARIABLES
    \* xcb_connection_t, c->out and c->in
    has_error, out_request, owned, owner_flags,
    request_expected, request_read, request_completed,
    current_reply, replies, events, pending_replies,
    \* the server and the socket
    reqs,           \* reqs[n] is request number n
    served,         \* the request the server works on or finished last
    log,            \* every response it sent
    nread,          \* how many of them read_packet has taken from the socket
    link,           \* "up", "down" (writes fail), "dead" (reads fail too)
    \* bookkeeping for the properties
    actual_read,    \* the request number read_packet should have found
    taken,          \* taken[n]: what poll_for_reply returned for request n
    delivered,      \* events returned by get_event
    dropped,        \* responses freed because a discard was asked for
    lost,           \* responses freed because memory ran out
    nulls,          \* requests poll_for_reply has answered "nothing (more)"
    discards,       \* requests given to xcb_discard_reply
    edges,          \* XCB's last request when an owner with flags came
    misframed       \* a reply's length was computed the wrong way

outvars  == <<out_request, owned, owner_flags>>
seqvars  == <<request_expected, request_read, request_completed>>
listvars == <<current_reply, replies, events, pending_replies>>
netvars  == <<served, log, link>>
ghosts   == <<taken, delivered, dropped, lost, nulls, discards, edges>>
readvars == <<nread, actual_read, misframed>>
vars == <<has_error, outvars, seqvars, listvars, reqs, netvars, readvars, ghosts>>

Ids == 1 .. MaxPacket
Pending ==
    [first_request : Nat, last_request : Nat, workaround : Workaround,
     flags : SUBSET Flag]

\* An entry of the reply map; it never holds an empty list.
MapEntry == [key : Nat, data : Seq(Ids) \ {<<>>}]

Init ==
    /\ has_error = FALSE
    /\ out_request = 0 /\ owned = FALSE /\ owner_flags = {}
    /\ request_expected = 0 /\ request_read = 0 /\ request_completed = 0
    /\ current_reply = <<>> /\ replies = <<>> /\ events = <<>>
    /\ pending_replies = <<>>
    /\ reqs = <<>> /\ served = 0 /\ log = <<>> /\ nread = 0 /\ link = "up"
    /\ actual_read = 0 /\ misframed = FALSE
    /\ taken = [n \in 1 .. MaxRequest |-> <<>>] /\ delivered = <<>>
    /\ dropped = {} /\ lost = {} /\ nulls = {} /\ discards = {} /\ edges = {}

-----------------------------------------------------------------------------
(* Pending replies: what XCB must remember about a request to handle its   *)
(* responses.                                                              *)

\* _xcb_in_expect_reply, when malloc succeeds.
expect_reply(pends, request, workaround, flags) ==
    Append(pends, [first_request |-> request, last_request |-> request,
                   workaround |-> workaround, flags |-> flags])

\* Variants: the last request of the owner is not recorded; the entry stays
\* an owner's.
replies_done_open(pends, request) ==
    IF pends # <<>> /\ pends[Len(pends)].workaround = "EXTERNAL_SOCKET_OWNER"
    THEN [pends EXCEPT ![Len(pends)].workaround = "NONE"]
    ELSE pends

replies_done_kept(pends, request) ==
    IF pends # <<>> /\ pends[Len(pends)].workaround = "EXTERNAL_SOCKET_OWNER"
    THEN [pends EXCEPT ![Len(pends)].last_request = request]
    ELSE pends

\* _xcb_in_replies_done: the socket is back, so the range of the owner's
\* requests is known.  Only the tail of the list is looked at.
replies_done(pends, request) ==
    IF pends # <<>> /\ pends[Len(pends)].workaround = "EXTERNAL_SOCKET_OWNER"
    THEN [pends EXCEPT ![Len(pends)].last_request = request,
                       ![Len(pends)].workaround = "NONE"]
    ELSE pends

\* Variant: the entry of the request completed last is kept.
Finished_late(pend, completed) ==
    /\ pend.workaround # "EXTERNAL_SOCKET_OWNER"
    /\ pend.last_request < completed

\* read_packet drops entries from the head of the list for as long as they
\* are about requests that can have no further response.
Finished(pend, completed) ==
    /\ pend.workaround # "EXTERNAL_SOCKET_OWNER"
    /\ pend.last_request <= completed

drop_finished(pends, completed) ==
    LET kept == {i \in 1 .. Len(pends) : ~Finished(pends[i], completed)}
    IN  IF kept = {} THEN <<>>
        ELSE SubSeq(pends, CHOOSE i \in kept : \A j \in kept : i <= j, Len(pends))

\* The entry that read_packet and discard_reply use for request `read`: the
\* head of the list or none.
Covers(pend, read) ==
    /\ pend.first_request <= read
    /\ pend.workaround = "EXTERNAL_SOCKET_OWNER" \/ read <= pend.last_request

\* Variant: the range of the entry is not looked at.
head_matches_any(pends, read) == pends # <<>>

head_matches(pends, read) == pends # <<>> /\ Covers(Head(pends), read)

\* insert_pending_discard before position i
insert_pending_discard(pends, i, seq) ==
    SubSeq(pends, 1, i - 1)
        \o <<[first_request |-> seq, last_request |-> seq,
              workaround |-> "NONE", flags |-> {"DISCARD_REPLY"}]>>
        \o SubSeq(pends, i, Len(pends))

mark_discard(pends, i) == [pends EXCEPT ![i].flags = @ \cup {"DISCARD_REPLY"}]
-----------------------------------------------------------------------------
(* xcb_out.c                                                               *)

\* Variant: one request later.
needs_sync_late(isvoid, request) ==
    isvoid /\ request = request_expected + Seq16

\* The while loop of xcb_send_request: a void request that would be the
\* (64k-1)th without a reply is preceded by a GetInputFocus.
needs_sync(isvoid, request) ==
    isvoid /\ request = request_expected + Seq16 - 1

SyncRequest ==
    [isvoid |-> FALSE, flags |-> {"DISCARD_REPLY"}, workaround |-> "NONE",
     source |-> "sync"]

\* get_socket_back ends the ownership; the owner writes what it still has
\* with xcb_writev before, which is an action of its own here.
xcb_send_request(req) ==
    /\ ~has_error
    /\ LET back == IF owned THEN replies_done(pending_replies, out_request)
                   ELSE pending_replies
           sync == needs_sync(req.isvoid, out_request + 1)
           request == IF sync THEN out_request + 2 ELSE out_request + 1
           expects == req.workaround # "NONE" \/ req.flags # {}
       IN  /\ request <= MaxRequest
           /\ owned' = FALSE /\ owner_flags' = {}
           /\ out_request' = request
           /\ reqs' = reqs \o (IF sync THEN <<SyncRequest, req>> ELSE <<req>>)
           /\ request_expected' =
                IF ~req.isvoid THEN request
                ELSE IF sync THEN request - 1 ELSE request_expected
           /\ \E syncpend, pend \in IF "nomem" \in Faults THEN BOOLEAN ELSE {TRUE},
                 written \in IF "io" \in Faults THEN BOOLEAN ELSE {TRUE} :
                LET p1 == IF sync /\ syncpend
                          THEN expect_reply(back, request - 1, "NONE", {"DISCARD_REPLY"})
                          ELSE back
                IN  /\ pending_replies' =
                         IF expects /\ pend
                         THEN expect_reply(p1, request, req.workaround, req.flags)
                         ELSE p1
                    /\ has_error' = \/ sync /\ ~syncpend
                                    \/ expects /\ ~pend
                                    \/ ~written
                    /\ link' = IF written THEN link ELSE "down"
    /\ UNCHANGED <<request_read, request_completed, current_reply, replies,
                   events, served, log, readvars, ghosts>>

\* xcb_send_request for an extension the server lacks, or a request that is
\* longer than the server takes.
send_refused ==
    /\ "refuse" \in Faults
    /\ ~has_error
    /\ has_error' = TRUE
    /\ UNCHANGED <<outvars, seqvars, listvars, reqs, netvars, readvars, ghosts>>

\* xcb_take_socket.  get_socket_back takes it from another owner first.  The
\* owner's entry starts at c->out.request, XCB's own last request.
xcb_take_socket(flags) ==
    /\ ~has_error
    /\ Len(pending_replies) < MaxPending
    /\ LET back == IF owned THEN replies_done(pending_replies, out_request)
                   ELSE pending_replies
       IN  \E pend \in IF "nomem" \in Faults THEN BOOLEAN ELSE {TRUE} :
             /\ pending_replies' =
                  IF flags # {} /\ pend
                  THEN expect_reply(back, out_request,
                                    "EXTERNAL_SOCKET_OWNER", flags)
                  ELSE back
             /\ has_error' = (flags # {} /\ ~pend)
    /\ owned' = TRUE /\ owner_flags' = flags
    /\ edges' = IF flags # {} THEN edges \cup {out_request} ELSE edges
    /\ UNCHANGED <<out_request, seqvars, current_reply, replies, events, reqs,
                   netvars, readvars, taken, delivered, dropped, lost, nulls,
                   discards>>

\* xcb_take_socket, if what XCB has still to write cannot be written: the socket
\* is back from the owner before, and has no new one.
take_socket_failed ==
    /\ "io" \in Faults /\ OwnerFlags # {}
    /\ ~has_error
    /\ pending_replies' = IF owned THEN replies_done(pending_replies, out_request)
                          ELSE pending_replies
    /\ owned' = FALSE /\ owner_flags' = {}
    /\ has_error' = TRUE /\ link' = "down"
    /\ UNCHANGED <<out_request, seqvars, current_reply, replies, events, reqs,
                   served, log, readvars, ghosts>>

\* How a socket owner keeps the responses within one 16-bit window of each
\* other, given all requests rs up to and including its own:
\*   "expected"  it never gets ahead of XCB's request_expected so far that
\*               XCB itself would have inserted a sync request;
\*   "history"   it never sends more than 64k-2 requests since the last one
\*               that has a reply, whoever sent that.
Silence(rs, n) ==
    Cardinality({i \in 1 .. n : \A j \in i .. n : rs[j].isvoid})

Keeps(rs) ==
    IF OwnerContract = "expected"
    THEN Len(rs) <= request_expected + Seq16 - 2
    ELSE \A n \in out_request + 1 .. Len(rs) : Silence(rs, n) <= Seq16 - 2

\* xcb_writev by the socket owner; `requests` is the length of the batch.
xcb_writev(batch) ==
    /\ ~has_error /\ owned
    /\ LET rs == reqs \o [i \in 1 .. Len(batch) |->
                    [isvoid |-> batch[i], flags |-> owner_flags,
                     workaround |-> "NONE", source |-> "owner"]]
       IN  /\ Len(rs) <= MaxRequest
           /\ Keeps(rs)
           /\ reqs' = rs
           /\ out_request' = out_request + Len(batch)
    /\ \E written \in IF "io" \in Faults THEN BOOLEAN ELSE {TRUE} :
         /\ has_error' = ~written
         /\ link' = IF written THEN link ELSE "down"
    /\ UNCHANGED <<owned, owner_flags, seqvars, listvars, served, log,
                   readvars, ghosts>>
-----------------------------------------------------------------------------
(* xcb_in.c, read_packet                                                   *)

\* c->in.request_read after looking at packet p.  KeymapNotify has no
\* sequence number.
next_read(p) ==
    IF p.type = "keymap" THEN request_read
    ELSE WidenSequence(request_read, p.of % Seq16)

\* Variants: the first response to a request completes it; the number is
\* set though the request has not changed.
completed_before_early(read) ==
    IF read # request_read THEN read ELSE request_completed

completed_before_always(read) == read - 1

\* c->in.request_completed before the list of pending replies is pruned,
\* and at the end.
completed_before(read) ==
    IF read # request_read THEN read - 1 ELSE request_completed

\* Variant: a reply, too, is taken for the last response to its request.
completed_after_reply(p, read) ==
    IF p.type \in {"error", "reply"} THEN read ELSE completed_before(read)

completed_after(p, read) ==
    IF p.type = "error" THEN read ELSE completed_before(read)

\* Variant: the flag is not looked at.
to_reply_list_any(p, matched, pend) ==
    p.type \in {"reply", "error"}

\* A reply, or the error of a checked request, goes to the reply list.
to_reply_list(p, matched, pend) ==
    \/ p.type = "reply"
    \/ p.type = "error" /\ matched /\ "CHECKED" \in pend.flags

\* Variant: replies are linked in at the head.
prepend_reply(list, id) == <<id>> \o list

\* A reply goes to the tail of the list.
append_reply(list, id) == Append(list, id)

\* How read_packet can end: with the packet delivered; without memory for
\* the packet, which then stays in the input queue; with the connection
\* breaking within the packet; without memory for a list entry, when the
\* packet has left the socket and is freed.
ReadOutcomes ==
    {"ok"} \cup (IF "nomem" \in Faults THEN {"nobuf", "nolist"} ELSE {})
           \cup (IF "io" \in Faults THEN {"broken"} ELSE {})

\* Variant: the list is stored under the number just read.
put_current_wrong_key(moved, stored) ==
    replies' = IF moved /\ current_reply # <<>> /\ stored
               THEN Append(replies, [key |-> Cookie(request_read'),
                                     data |-> current_reply])
               ELSE replies

\* The list of finished replies goes to the map when a response to another
\* request is read.  A failure of _xcb_map_put goes unnoticed.
put_current(moved, stored) ==
    replies' = IF moved /\ current_reply # <<>> /\ stored
               THEN Append(replies, [key |-> Cookie(request_read),
                                     data |-> current_reply])
               ELSE replies

read_packet(outcome, stored) ==
    /\ link # "dead"
    /\ nread < Len(log)
    /\ LET id == nread + 1
           p == log[id]
           read == next_read(p)
           moved == read # request_read
           pends == IF p.type = "keymap" THEN pending_replies
                    ELSE drop_finished(pending_replies, completed_before(read))
           matched == p.type \in {"reply", "error"} /\ head_matches(pends, read)
           pend == Head(pends)
           glx == matched /\ pend.workaround = "GLX_GET_FB_CONFIGS_BUG"
           discard == matched /\ "DISCARD_REPLY" \in pend.flags
           asreply == outcome = "ok" /\ ~discard /\ to_reply_list(p, matched, pend)
           asevent == outcome = "ok" /\ ~discard /\ ~to_reply_list(p, matched, pend)
           current == IF moved THEN <<>> ELSE current_reply
       IN  /\ outcome = "nolist" => ~discard
           /\ ~stored => moved /\ current_reply # <<>>
           /\ request_read' = read
           /\ actual_read' = IF p.type = "keymap" THEN actual_read ELSE p.of
           /\ request_expected' =
                IF read > request_expected THEN read ELSE request_expected
           /\ request_completed' = completed_after(p, read)
           /\ pending_replies' = pends
           /\ put_current(moved, stored)
           /\ misframed' =
                (misframed \/ /\ p.type = "reply"
                              /\ glx # (reqs[p.of].workaround = "GLX_GET_FB_CONFIGS_BUG"))
           /\ nread' = IF outcome \in {"ok", "nolist"} THEN id ELSE nread
           /\ dropped' = IF discard /\ outcome = "ok" THEN dropped \cup {id} ELSE dropped
           /\ current_reply' = IF asreply THEN append_reply(current, id) ELSE current
           /\ events' = IF asevent
                        THEN Append(events, [id |-> id, full_sequence |-> Cookie(read)])
                        ELSE events
           /\ lost' = lost
                \cup (IF stored THEN {} ELSE {current_reply[i] : i \in DOMAIN current_reply})
                \cup (IF outcome = "nolist" THEN {id} ELSE {})
           /\ has_error' = (has_error \/ outcome # "ok")
           /\ link' = IF outcome = "broken" THEN "dead" ELSE link
    /\ UNCHANGED <<outvars, reqs, served, log, taken, delivered, nulls,
                   discards, edges>>
-----------------------------------------------------------------------------
(* xcb_in.c, the consumers                                                 *)

\* The application asks about requests it issued that can have an answer and
\* that it has not discarded, and not about those that are half the range of
\* a cookie back.
Askable(n) ==
    /\ reqs[n].source # "sync"
    /\ ~reqs[n].isvoid \/ "CHECKED" \in reqs[n].flags
    /\ n \notin discards
    /\ out_request - n < Seq32 \div 2

\* _xcb_map_remove takes the first entry with the key out of the map.
InMap(key) == \E i \in DOMAIN replies : replies[i].key = key

MapIndex(key) ==
    CHOOSE i \in DOMAIN replies :
        /\ replies[i].key = key
        /\ \A j \in 1 .. i - 1 : replies[j].key # key

\* Variant: the entry is found and stays in the map.
map_removed_not(i) == replies

map_removed(i) == SubSeq(replies, 1, i - 1) \o SubSeq(replies, i + 1, Len(replies))

found_nothing(n) ==
    /\ nulls' = nulls \cup {n}
    /\ UNCHANGED <<current_reply, replies, taken, lost>>

\* The first reply of request n is returned from the map; what is left of
\* its list is put back under the same key.
take_from_map(n, key, stored) ==
    LET i == MapIndex(key)
        list == replies[i].data
    IN  /\ ~stored => Len(list) > 1
        /\ taken' = [taken EXCEPT ![n] = Append(@, Head(list))]
        /\ replies' = IF Len(list) > 1 /\ stored
                      THEN Append(map_removed(i), [key |-> key, data |-> Tail(list)])
                      ELSE map_removed(i)
        /\ lost' = IF stored THEN lost
                   ELSE lost \cup {list[j] : j \in 2 .. Len(list)}
        /\ UNCHANGED <<current_reply, nulls>>

\* Variant: the rest of the list is forgotten.
take_current_all(n) ==
    /\ taken' = [taken EXCEPT ![n] = Append(@, Head(current_reply))]
    /\ current_reply' = <<>>
    /\ UNCHANGED <<replies, nulls, lost>>

take_current(n) ==
    /\ taken' = [taken EXCEPT ![n] = Append(@, Head(current_reply))]
    /\ current_reply' = Tail(current_reply)
    /\ UNCHANGED <<replies, nulls, lost>>

\* poll_for_reply, when it does not ask its caller to block.  The caller
\* passes the cookie of request n.
poll_for_reply(n, stored) ==
    LET request == Cookie(n)
        diff == Diff32(request, request_read)
    IN  \/ request = 0 /\ stored /\ found_nothing(n)
        \/ request # 0 /\ diff < 0 /\ InMap(request) /\ take_from_map(n, request, stored)
        \/ request # 0 /\ diff < 0 /\ stored /\ ~InMap(request) /\ found_nothing(n)
        \/ request # 0 /\ diff = 0 /\ stored /\ current_reply # <<>> /\ take_current(n)
        \/ /\ request # 0 /\ stored
           /\ diff > 0 \/ (diff = 0 /\ current_reply = <<>>)
           /\ Diff32(request, request_completed) = 0
           /\ found_nothing(n)

\* xcb_poll_for_reply, and each turn of the loop of xcb_wait_for_reply; a
\* thread that waits in that loop comes here after has_error was set, too.
xcb_poll_for_reply(n, stored) ==
    /\ Askable(n)
    /\ poll_for_reply(n, stored)
    /\ UNCHANGED <<has_error, outvars, seqvars, events, pending_replies, reqs,
                   netvars, readvars, delivered, dropped, discards, edges>>

\* The last part of discard_reply: mark the entry of the request, or insert
\* one before the first entry of a later request.
mark_pending(n, ok) ==
    LET request == Cookie(n)
        later == {i \in DOMAIN pending_replies :
                    Diff32(Cookie(pending_replies[i].first_request), request) > 0}
        stop == CHOOSE i \in later \cup {Len(pending_replies) + 1} :
                    \A j \in later : i <= j
        same == {i \in 1 .. stop - 1 :
                    Diff32(Cookie(pending_replies[i].first_request), request) = 0}
    IN  IF same # {}
        THEN /\ ok
             /\ pending_replies' =
                  mark_discard(pending_replies, CHOOSE i \in same : \A j \in same : i <= j)
        ELSE pending_replies' =
                IF ok THEN insert_pending_discard(pending_replies, stop,
                                                  WidenCookie(out_request, request))
                ELSE pending_replies

\* Variant: the replies at hand are freed, those to come are not.
mark_current_not(ok) == ok /\ pending_replies' = pending_replies

\* The middle part: replies of the request are being read right now.
mark_current(ok) ==
    IF head_matches(pending_replies, request_read)
    THEN ok /\ pending_replies' = mark_discard(pending_replies, 1)
    ELSE pending_replies' =
            IF ok THEN insert_pending_discard(pending_replies, 1, request_read)
            ELSE pending_replies

\* discard_reply; `ok` is FALSE when insert_pending_discard finds no memory.
discard_reply(n, ok) ==
    LET request == Cookie(n)
        diff == Diff32(request, request_read)
    IN  \/ /\ diff < 0 /\ ok
           /\ IF InMap(request)
              THEN LET i == MapIndex(request)
                   IN  /\ replies' = map_removed(i)
                       /\ dropped' = dropped \cup {replies[i].data[j] :
                                                    j \in DOMAIN replies[i].data}
              ELSE UNCHANGED <<replies, dropped>>
           /\ UNCHANGED <<current_reply, pending_replies>>
        \/ /\ diff = 0 /\ current_reply # <<>>
           /\ dropped' = dropped \cup {current_reply[j] : j \in DOMAIN current_reply}
           /\ current_reply' = <<>>
           /\ mark_current(ok)
           /\ UNCHANGED replies
        \/ /\ diff > 0 \/ (diff = 0 /\ current_reply = <<>>)
           /\ mark_pending(n, ok)
           /\ UNCHANGED <<current_reply, replies, dropped>>

xcb_discard_reply(n, ok) ==
    /\ ~has_error
    /\ Askable(n) /\ reqs[n].source = "xcb"
    /\ Discarding = "any" \/ (Discarding = "inner" /\ n \notin edges)
    /\ Cookie(n) # 0
    /\ discard_reply(n, ok)
    /\ discards' = discards \cup {n}
    /\ has_error' = ~ok
    /\ UNCHANGED <<outvars, seqvars, events, reqs, netvars, readvars, taken,
                   delivered, lost, nulls, edges>>

\* get_event, for xcb_wait_for_event and xcb_poll_for_event
get_event ==
    /\ events # <<>>
    /\ delivered' = Append(delivered, Head(events))
    /\ events' = Tail(events)
    /\ UNCHANGED <<has_error, outvars, seqvars, current_reply, replies,
                   pending_replies, reqs, netvars, readvars, taken, dropped,
                   lost, nulls, discards, edges>>
-----------------------------------------------------------------------------
(* The server (external)                                                   *)

ServerStep(packets) ==
    /\ link = "up"
    /\ Len(log) + Len(packets) <= MaxPacket
    /\ log' = log \o packets
    /\ UNCHANGED <<has_error, outvars, seqvars, listvars, reqs, link, readvars,
                   ghosts>>

Packet(type, of) == [type |-> type, of |-> of]

\* The next request is executed: a void request answers nothing or an error,
\* any other one a first reply or an error.
serve ==
    /\ served < out_request
    /\ served' = served + 1
    /\ \/ reqs[served + 1].isvoid /\ ServerStep(<<>>)
       \/ ~reqs[served + 1].isvoid /\ ServerStep(<<Packet("reply", served + 1)>>)
       \/ /\ reqs[served + 1].source # "sync"
          /\ ServerStep(<<Packet("error", served + 1)>>)

\* Requests such as ListFontsWithInfo have more replies.
more_replies ==
    /\ \E i \in DOMAIN log : log[i] = Packet("reply", served)
    /\ reqs[served].source # "sync"
    /\ ServerStep(<<Packet("reply", served)>>)
    /\ UNCHANGED served

\* An event has the number of the last request the server has seen.
send_event ==
    /\ \E type \in EventTypes : ServerStep(<<Packet(type, served)>>)
    /\ UNCHANGED served
-----------------------------------------------------------------------------
MemOk == IF "nomem" \in Faults THEN BOOLEAN ELSE {TRUE}
MapOk == IF "nomap" \in Faults THEN BOOLEAN ELSE {TRUE}

Next ==
    \/ \E req \in Shapes : xcb_send_request(req)
    \/ send_refused
    \/ \E flags \in OwnerFlags : xcb_take_socket(flags)
    \/ take_socket_failed
    \/ \E batch \in Batches : xcb_writev(batch)
    \/ \E outcome \in ReadOutcomes, stored \in MapOk : read_packet(outcome, stored)
    \/ \E n \in 1 .. out_request, stored \in MapOk : xcb_poll_for_reply(n, stored)
    \/ \E n \in 1 .. out_request, ok \in MemOk : xcb_discard_reply(n, ok)
    \/ get_event
    \/ serve
    \/ more_replies
    \/ send_event

Spec == Init /\ [][Next]_vars
-----------------------------------------------------------------------------
(* Properties                                                              *)

\* Responses of request n that must reach the reply list.
IsAnswer(i, n) ==
    /\ log[i].of = n
    /\ \/ log[i].type = "reply"
       \/ log[i].type = "error" /\ "CHECKED" \in reqs[n].flags

\* The responses stored under request n: in the map, or in the list of the
\* request that is being read.
Stored(n) ==
    (UNION {{replies[i].data[j] : j \in DOMAIN replies[i].data} :
               i \in {k \in DOMAIN replies : replies[k].key = Cookie(n)}})
        \cup (IF n = request_read THEN {current_reply[j] : j \in DOMAIN current_reply}
              ELSE {})

Taken(n) == {taken[n][j] : j \in DOMAIN taken[n]}

Queued(evs) == {evs[i].id : i \in DOMAIN evs}

\* Every variable keeps its type.
TypeOK ==
    /\ has_error \in BOOLEAN /\ owned \in BOOLEAN /\ owner_flags \in SUBSET Flag
    /\ out_request \in 0 .. MaxRequest /\ request_expected \in Nat
    /\ request_read \in Nat /\ request_completed \in Nat
    /\ current_reply \in Seq(Ids)
    /\ replies \in Seq(MapEntry)
    /\ events \in Seq([id : Ids, full_sequence : Nat])
    /\ pending_replies \in Seq(Pending)
    /\ reqs \in Seq(Request) /\ Len(reqs) = out_request
    /\ served \in 0 .. out_request
    /\ log \in Seq([type : PacketType, of : Nat]) /\ Len(log) <= MaxPacket
    /\ nread \in 0 .. Len(log) /\ link \in {"up", "down", "dead"}
    /\ actual_read \in Nat /\ misframed \in BOOLEAN
    /\ taken \in [1 .. MaxRequest -> Seq(Ids)]
    /\ delivered \in Seq([id : Ids, full_sequence : Nat])
    /\ dropped \subseteq Ids /\ lost \subseteq Ids
    /\ nulls \subseteq Nat /\ discards \subseteq Nat /\ edges \subseteq Nat

\* The 16-bit sequence number of every response is widened to the number of
\* the request it answers (read_packet), because XCB never lets 64k requests
\* pass without one that has a reply (xcb_send_request).
SequenceExact == request_read = actual_read

\* Whatever poll_for_reply can hand out or has handed out for request n is a
\* response to request n, and each event carries the number of the request
\* it followed.
RoutedToOwner ==
    /\ \A n \in 1 .. out_request :
         \A i \in Taken(n) \cup (IF out_request - n < Seq32 \div 2 THEN Stored(n) ELSE {}) :
            log[i].of = n
    /\ \A e \in {events[i] : i \in DOMAIN events} \cup {delivered[i] : i \in DOMAIN delivered} :
         log[e.id].type # "keymap" => e.full_sequence = Cookie(log[e.id].of)

\* The error of an unchecked request becomes an event: it is never put with
\* the replies.  Only for a request in `except` this is not claimed.
UncheckedErrorsAreEvents(except) ==
    ~has_error =>
      \A n \in (1 .. out_request) \ except :
        "CHECKED" \notin reqs[n].flags =>
            \A i \in Stored(n) \cup Taken(n) : log[i].type = "reply"

\* The error of a checked request is returned with its cookie, the error of
\* an unchecked one becomes an event (read_packet).  XCB's last request
\* before its socket was taken is left out, see UncheckedErrorAtHandoff.
ErrorsRouted ==
    /\ UncheckedErrorsAreEvents(edges)
    /\ ~has_error =>
         \A i \in Queued(events) \cup Queued(delivered) :
            log[i].type = "error" => "CHECKED" \notin reqs[log[i].of].flags

\* Every response that has been read is in exactly one place: stored for a
\* request, queued as an event, given to the application, dropped as asked,
\* or lost for want of memory.
NothingLost ==
    LET places ==
          [p \in {"map", "current", "events", "taken", "delivered", "dropped", "lost"} |->
             CASE p = "map" -> UNION {{replies[i].data[j] : j \in DOMAIN replies[i].data} :
                                       i \in DOMAIN replies}
               [] p = "current" -> {current_reply[j] : j \in DOMAIN current_reply}
               [] p = "events" -> Queued(events)
               [] p = "taken" -> UNION {Taken(n) : n \in 1 .. out_request}
               [] p = "delivered" -> Queued(delivered)
               [] p = "dropped" -> dropped
               [] p = "lost" -> lost]
    IN  \A i \in 1 .. nread :
          Cardinality({p \in DOMAIN places : i \in places[p]}) = 1

\* When poll_for_reply says that request n has no reply, or no more, every
\* response to n has been handed out or done away with: none is stored, on
\* its way, or still to be sent (as long as the connection has not failed).
NullIsFinal ==
    ~has_error => \A n \in nulls :
        /\ \A i \in DOMAIN log : IsAnswer(i, n) => i \in Taken(n) \cup dropped \cup lost
        /\ served > n \/ Packet("error", n) \in {log[i] : i \in DOMAIN log}

\* Several replies to one request come back in the order the server sent
\* them, those that went through the map included.
RepliesInOrder ==
    \A n \in 1 .. out_request :
        /\ \A i, j \in DOMAIN taken[n] : i < j => taken[n][i] < taken[n][j]
        /\ out_request - n < Seq32 \div 2 =>
             \A i \in Taken(n), j \in Stored(n) : i < j

\* Once a request is discarded, or if it was sent to be discarded (the sync
\* requests are), none of its responses is kept for poll_for_reply.
DiscardHonoured ==
    ~has_error =>
      \A n \in 1 .. out_request :
        n \in discards \/ "DISCARD_REPLY" \in reqs[n].flags => Stored(n) = {}

\* "event, or unchecked error": XCB's last request before xcb_take_socket is
\* treated like any other.
UncheckedErrorAtHandoff == UncheckedErrorsAreEvents({})

\* Once XCB has its socket back, no entry for a socket owner is left that
\* would catch the responses of XCB's own requests.
OwnerEntryEnds ==
    ~owned => \A i \in DOMAIN pending_replies :
                 pending_replies[i].workaround # "EXTERNAL_SOCKET_OWNER"

\* "avoid having applications see sequence 0 as that is used to indicate an
\* error": no request the application issues has the cookie 0
\* (xcb_send_request).
CookieNonZero ==
    \A n \in 1 .. out_request : reqs[n].source = "xcb" => Cookie(n) # 0

\* Nothing is dropped but responses to requests that were to be discarded.
OnlyDiscardedDropped ==
    \A i \in dropped :
        log[i].of \in discards \/ "DISCARD_REPLY" \in reqs[log[i].of].flags

\* The length of a reply is taken from the fields of the GLX workaround if
\* and only if it answers a request with that bug.
FramingExact == ~has_error => ~misframed
-----------------------------------------------------------------------------
(* The invariant behind SequenceExact                                      *)

\* The number of the response read last, of each response on its way, and
\* of each request that will have one.
Anchors ==
    {request_read}
        \cup {log[i].of : i \in {j \in nread + 1 .. Len(log) : log[j].type # "keymap"}}
        \cup {n \in served + 1 .. out_request : ~reqs[n].isvoid}

\* Responses come in the order of their requests.
LogOrdered ==
    /\ \A i, j \in 1 .. Len(log) : i <= j => log[i].of <= log[j].of
    /\ \A i \in 1 .. Len(log) : log[i].of <= served
    /\ \A i \in nread + 1 .. Len(log) :
          log[i].type # "keymap" => request_read <= log[i].of
    /\ request_read <= served

\* XCB counts from a request that is sure to be answered, and the window of
\* requests it has sent since is not full.
ExpectedSafe ==
    /\ request_expected \in Anchors
    /\ request_read <= request_expected
    /\ request_expected <= out_request
    /\ out_request <= request_expected + Seq16 - 2

\* No 64k requests pass without a response (xcb_send_request, read_packet).
NoLongSilence ==
    \A r \in request_read .. out_request :
        \E a \in Anchors : a <= r /\ r <= a + Seq16 - 2

\* Between them these keep the widened numbers right; SequenceExact alone is
\* not inductive.
WindowInv == LogOrdered /\ ExpectedSafe /\ NoLongSilence /\ SequenceExact
=============================================================================
