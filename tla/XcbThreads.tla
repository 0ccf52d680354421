----------------------------- MODULE XcbThreads -----------------------------
(***************************************************************************)
(* The threads of a program inside libxcb: who holds c->iolock, who sits   *)
(* in poll(), who waits on which condition variable, who writes the output *)
(* queue and who wakes whom (xcb_conn.c, xcb_out.c, xcb_in.c).             *)
(*                                                                         *)
(* Each thread runs a short script of public calls.  A label of `pc` is a  *)
(* point of the code; a step goes to the next point where the lock may     *)
(* change hands or a loop starts.  A thread at any label but "idle",       *)
(* "poll", "callback" and "check" holds the lock or first takes it.        *)
(*                                                                         *)
(* What XcbReply has in detail is coarse here: a request fills one place   *)
(* of the output queue or of the socket, request numbers do not wrap, and  *)
(* a reply that was read is a number in `stored`.                          *)
(***************************************************************************)
EXTENDS Integers, Sequences, FiniteSets

CONSTANTS
    Thread,         \* threads of the program
    NoThread,       \* not a thread
    Programs        \* what the threads do, and in what surroundings

Call == {"query", "void", "flush", "reply", "sync_reply", "event", "poll_event",
         "request_check", "take_socket", "writev"}

\* script    the calls each thread makes
\* issued    the queries each thread has sent and flushed before
\* owned     whether an external owner has taken the socket
\* queue_cap, send_cap, recv_cap
\*           how many requests fit into c->out.queue, and how many requests
\*           and responses into the socket
\* events    how many events the server sends
\* may_close whether the server may close the connection
Program ==
    [script : [Thread -> Seq(Call)], issued : [Thread -> Seq(Nat)], owned : BOOLEAN,
     queue_cap : Nat, send_cap : Nat \ {0}, recv_cap : Nat \ {0}, events : Nat,
     may_close : BOOLEAN]

\* The queries sent before are numbered 1, 2, ... in some order.
AllIssued(p) == UNION {{p.issued[t][i] : i \in DOMAIN p.issued[t]} : t \in Thread}

ASSUME ThreadsAssumption ==
    /\ NoThread \notin Thread /\ IsFiniteSet(Thread)
    /\ \A p \in Programs : /\ p \in Program
                           /\ AllIssued(p) = 1 .. Cardinality(AllIssued(p))

VARIABLES
    prog,           \* the program, which never changes
    \* threads
    pc, script, mine, request, vec, revents, ret, cv,
    \* the connection
    lock, has_error, reading, writing, readers,
    out_request, request_written, request_expected, queue, owned, moving,
    request_read, stored, events,
    \* the socket and the server
    kinds,          \* kinds[n]: does request n have a reply?
    wire,           \* requests in the order they were written to the socket
    served,         \* requests the server has answered
    inbuf,          \* responses in the socket
    sent,           \* events sent
    closed,
    \* assertions of the code that have failed
    failed

thrvars == <<pc, script, mine, request, vec, revents, ret, cv>>
outvars == <<out_request, request_written, request_expected, queue, owned, moving, kinds>>
invars  == <<request_read, stored, events>>
srvvars == <<wire, served, inbuf, sent, closed>>
vars == <<prog, thrvars, lock, has_error, reading, writing, readers, outvars, invars,
          srvvars, failed>>

Init ==
    /\ prog \in Programs
    /\ LET n == Cardinality(AllIssued(prog))
       IN  /\ pc = [t \in Thread |-> "idle"] /\ script = prog.script /\ mine = prog.issued
           /\ request = [t \in Thread |-> 0] /\ vec = [t \in Thread |-> <<>>]
           /\ revents = [t \in Thread |-> {}] /\ ret = [t \in Thread |-> TRUE]
           /\ cv = [t \in Thread |-> "none"]
           /\ lock = NoThread /\ has_error = FALSE /\ reading = 0 /\ writing = 0
           /\ readers = {} /\ out_request = n /\ request_written = n
           /\ request_expected = n /\ queue = <<>>
           /\ owned = prog.owned /\ moving = FALSE
           /\ request_read = 0 /\ stored = {} /\ events = 0
           /\ kinds = [i \in 1 .. n |-> "query"] /\ wire = [i \in 1 .. n |-> i]
           /\ served = 0 /\ inbuf = <<>> /\ sent = 0 /\ closed = FALSE
           /\ failed = {}
-----------------------------------------------------------------------------
Smaller(a, b) == IF a < b THEN a ELSE b
Larger(a, b) == IF a < b THEN b ELSE a

(* The lock and the condition variables                                    *)

\* The thread runs, at label l, with the lock.
At(t, l) == pc[t] = l /\ cv[t] = "none" /\ lock \in {t, NoThread}

Waiters(c) == {t \in Thread : cv[t] = c}

Awake(w) == cv' = [t \in Thread |-> IF t \in w THEN "none" ELSE cv[t]]

\* pthread_cond_signal on c wakes one of its waiters if it has any.
Signal1(c) == IF Waiters(c) = {} THEN {{}} ELSE {{t} : t \in Waiters(c)}

\* _xcb_in_wake_up_next_reader: the first reader of the list, which may not
\* be waiting, or a thread that waits for an event.  Variant: nobody.
FirstReader(rs) == CHOOSE t \in rs : \A u \in rs : request[t] <= request[u]

wake_up_nobody(rs) == {{}}

wake_up_next_reader(rs) ==
    IF rs # {} THEN {IF cv[FirstReader(rs)] = "reader" THEN {FirstReader(rs)} ELSE {}}
    ELSE Signal1("event")

\* pthread_cond_wait: the thread goes on at its label once it is signalled.
cond_wait(t, c) ==
    /\ cv' = [cv EXCEPT ![t] = c]
    /\ lock' = NoThread

goto(t, l) == pc' = [pc EXCEPT ![t] = l]

\* The thread keeps the lock and goes on in the same call.
proceed(t, l) == goto(t, l) /\ lock' = t /\ UNCHANGED <<script, request>>

\* A public call returns.
return(t) ==
    /\ goto(t, "idle")
    /\ script' = [script EXCEPT ![t] = Tail(@)]
    /\ request' = [request EXCEPT ![t] = 0]
    /\ lock' = NoThread

Op(t) == Head(script[t])

\* The thread is inside one of the calls in ops.
Within(t, ops) == pc[t] # "idle" /\ Op(t) \in ops
-----------------------------------------------------------------------------
(* xcb_conn.c: _xcb_conn_wait                                              *)

\* With `count` (something to write) the caller is _xcb_out_send.  If another
\* thread does the same already, wait for it; otherwise go to poll().
conn_wait(t, c, count) ==
    IF (IF count THEN writing ELSE reading) > 0
    THEN /\ cond_wait(t, c)
         /\ ret' = [ret EXCEPT ![t] = TRUE]
         /\ UNCHANGED <<pc, reading, writing>>
    ELSE /\ reading' = reading + 1
         /\ writing' = IF count THEN writing + 1 ELSE writing
         /\ goto(t, IF count THEN "poll_write" ELSE "poll_read")
         /\ lock' = NoThread
         /\ UNCHANGED <<cv, ret>>

Readable == inbuf # <<>> \/ closed
Writable == Len(wire) - served < prog.send_cap

\* What poll() is asked for, and a variant that forgets to read.
poll_events_out(count) == IF count THEN {"OUT"} ELSE {"IN"}
poll_events(count) == IF count THEN {"IN", "OUT"} ELSE {"IN"}

\* poll() without the lock.  The end of the connection may show as POLLHUP,
\* which was not asked for and counts as an error.
poll(t) ==
    /\ pc[t] \in {"poll_read", "poll_write"}
    /\ \/ LET ready == poll_events(pc[t] = "poll_write") \cap
                           ((IF Readable THEN {"IN"} ELSE {}) \cup
                            (IF Writable THEN {"OUT"} ELSE {}))
          IN  /\ ready # {}
              /\ revents' = [revents EXCEPT ![t] = ready]
              /\ UNCHANGED has_error
       \/ /\ closed
          /\ revents' = [revents EXCEPT ![t] = {"HUP"}]
          /\ has_error' = TRUE
    /\ goto(t, IF pc[t] = "poll_read" THEN "polled_read" ELSE "polled_write")
    /\ UNCHANGED <<script, mine, request, vec, ret, cv, lock, reading, writing,
                   readers, outvars, invars, srvvars, failed>>

\* _xcb_in_read takes n packets from the socket and wakes the threads that
\* wait for them: each reply its reader, each event one event waiter.
Took(n) == {inbuf[i] : i \in 1 .. n}
EventsIn(n) == Cardinality({i \in 1 .. n : inbuf[i].type = "event"})

\* Variant: a reply wakes nobody.
wake_no_reader(n) == {}

wake_readers(n) ==
    {t \in readers : cv[t] = "reader" /\ \E p \in Took(n) :
                        p.type = "reply" /\ p.of = request[t]}

wake_event_waiters(n) ==
    {s \in SUBSET Waiters("event") :
        Cardinality(s) = Smaller(EventsIn(n), Cardinality(Waiters("event")))}

\* recv() says that the connection was closed once the data is used up.
eof == closed /\ inbuf = <<>>

in_read(n) ==
    /\ n \in 0 .. Len(inbuf) /\ (inbuf # <<>> => n > 0)
    /\ inbuf' = SubSeq(inbuf, n + 1, Len(inbuf))
    /\ request_read' = IF n > 0 THEN inbuf[n].of ELSE request_read
    /\ request_expected' = Larger(request_expected, request_read')
    /\ stored' = stored \cup {p.of : p \in {q \in Took(n) : q.type = "reply"}}
    /\ \E w \in wake_event_waiters(n) : Awake(w \cup wake_readers(n))

\* write_vec: as many requests go to the socket as it has room for.
write_vec(t) ==
    LET m == Smaller(Len(vec[t]), prog.send_cap - (Len(wire) - served))
    IN  /\ wire' = wire \o SubSeq(vec[t], 1, m)
        /\ vec' = [vec EXCEPT ![t] = SubSeq(@, m + 1, Len(@))]

\* _xcb_conn_wait after poll(): read, then write unless reading failed or
\* the connection is closed.
polled(t) ==
    \E count \in BOOLEAN :
    /\ At(t, IF count THEN "polled_write" ELSE "polled_read")
    /\ lock' = t
    /\ LET read_ok  == "IN" \in revents[t] => ~eof
           writes   == "OUT" \in revents[t] /\ read_ok
           write_ok == writes => ~closed
       IN  /\ IF "IN" \in revents[t]
              THEN \E n \in 0 .. Len(inbuf) : in_read(n) /\ events' = events + EventsIn(n)
              ELSE UNCHANGED <<inbuf, invars, request_expected, cv>>
           /\ has_error' = (has_error \/ ~read_ok \/ ~write_ok)
           /\ IF writes /\ write_ok THEN write_vec(t) ELSE UNCHANGED <<wire, vec>>
           /\ failed' = IF writes /\ queue # <<>> THEN failed \cup {"write_vec queue_len"}
                        ELSE failed
           /\ ret' = [ret EXCEPT ![t] = "HUP" \notin revents[t] /\ read_ok /\ write_ok]
    /\ writing' = IF count THEN writing - 1 ELSE writing
    /\ reading' = reading - 1
    /\ revents' = [revents EXCEPT ![t] = {}]
    /\ goto(t, IF count THEN "out_send"
               ELSE IF Op(t) = "event" THEN "event_loop" ELSE "reply_loop")
    /\ UNCHANGED <<script, mine, request, readers, out_request, request_written, queue,
                   owned, moving, kinds, served, sent, closed>>
-----------------------------------------------------------------------------
(* xcb_out.c                                                               *)

\* Where a call goes on once its output has been written, or not (ok).
after_flush(t, ok) ==
    IF Op(t) \in {"reply", "sync_reply"}
    THEN proceed(t, IF ok THEN "reply_add" ELSE "reply_loop")
    ELSE IF Op(t) = "take_socket" /\ ok THEN proceed(t, "take_own")
    ELSE return(t)

\* _xcb_out_send; a request that could not be written also ends the
\* connection, in xcb_send_request.
out_send(t) ==
    /\ At(t, "out_send")
    /\ \/ /\ ret[t] /\ vec[t] # <<>>
          /\ conn_wait(t, "out", TRUE)
          /\ UNCHANGED <<script, request, vec, request_written>>
       \/ /\ ~ret[t] \/ vec[t] = <<>>
          /\ request_written' = out_request
          /\ vec' = [vec EXCEPT ![t] = <<>>]
          /\ \E w \in wake_up_next_reader(readers) : Awake(w \cup Waiters("out"))
          /\ after_flush(t, ret[t])
          /\ UNCHANGED <<reading, writing, ret>>
    /\ UNCHANGED <<mine, revents, has_error, readers, out_request, request_expected,
                   queue, owned, moving, kinds, invars, srvvars, failed>>

\* xcb_flush
xcb_flush(t) ==
    /\ At(t, "flush")
    /\ lock' = t
    /\ request' = [request EXCEPT ![t] = out_request]
    /\ goto(t, "flush_to")
    /\ UNCHANGED <<script, mine, vec, revents, ret, cv, has_error, reading, writing,
                   readers, outvars, invars, srvvars, failed>>

\* _xcb_out_flush_to(request[t])
flush_to(t) ==
    /\ At(t, "flush_to")
    /\ \/ /\ request_written >= request[t]
          /\ after_flush(t, TRUE)
          /\ UNCHANGED <<vec, queue>>
       \/ /\ request_written < request[t] /\ queue # <<>>
          /\ vec' = [vec EXCEPT ![t] = queue]
          /\ queue' = <<>>
          /\ proceed(t, "out_send")
       \/ /\ request_written < request[t] /\ queue = <<>>
          /\ proceed(t, "flush_wait")
          /\ UNCHANGED <<vec, queue>>
    /\ UNCHANGED <<mine, revents, ret, cv, has_error, reading, writing, readers,
                   out_request, request_written, request_expected, owned, moving,
                   kinds, invars, srvvars, failed>>

\* the end of _xcb_out_flush_to: another thread is writing the request
flush_wait(t) ==
    /\ At(t, "flush_wait")
    /\ \/ /\ writing > 0
          /\ cond_wait(t, "out")
          /\ UNCHANGED <<pc, script, request, failed>>
       \/ /\ writing = 0
          /\ failed' = IF request_written >= request[t] THEN failed
                       ELSE failed \cup {"flush_to request_written"}
          /\ after_flush(t, TRUE)
          /\ UNCHANGED cv
    /\ UNCHANGED <<mine, vec, revents, ret, has_error, reading, writing, readers,
                   outvars, invars, srvvars>>

\* Variant: a request does not wait for the thread that writes.
must_wait_never == FALSE
must_wait == writing > 0

\* xcb_send_request: wait for other writers, then get the socket back.
send_wait(t) ==
    /\ At(t, "send")
    /\ IF must_wait THEN cond_wait(t, "out") /\ UNCHANGED <<pc, script, request>>
       ELSE proceed(t, "get_back") /\ UNCHANGED cv
    /\ UNCHANGED <<mine, vec, revents, ret, has_error, reading, writing, readers,
                   outvars, invars, srvvars, failed>>

\* The socket is XCB's: on to the numbering or, for xcb_take_socket, to
\* _xcb_out_flush_to(c->out.request).
after_back(t) ==
    IF Op(t) = "take_socket"
    THEN goto(t, "flush_to") /\ request' = [request EXCEPT ![t] = out_request]
    ELSE goto(t, "number") /\ UNCHANGED request

\* The lock is dropped and the owner's function is called.  Variant: it is
\* not.
return_socket_not(t) == goto(t, "got_back") /\ lock' = NoThread
return_socket(t) == goto(t, "callback") /\ lock' = NoThread

\* get_socket_back up to the call of the owner's function
get_socket_back(t) ==
    /\ At(t, "get_back")
    /\ \/ /\ owned /\ moving
          /\ cond_wait(t, "socket")
          /\ UNCHANGED <<pc, request, moving>>
       \/ /\ ~owned
          /\ lock' = t
          /\ after_back(t)
          /\ UNCHANGED <<cv, moving>>
       \/ /\ owned /\ ~moving
          /\ moving' = TRUE
          /\ return_socket(t)
          /\ UNCHANGED <<cv, request>>
    /\ UNCHANGED <<script, mine, vec, revents, ret, has_error, reading, writing,
                   readers, out_request, request_written, request_expected, queue,
                   owned, kinds, invars, srvvars, failed>>

\* The owner's return_socket, external code: it returns when no thread is
\* within xcb_writev.
callback(t) ==
    /\ pc[t] = "callback"
    /\ ~\E u \in Thread : Within(u, {"writev"})
    /\ goto(t, "got_back")
    /\ UNCHANGED <<script, mine, request, vec, revents, ret, cv, lock, has_error,
                   reading, writing, readers, outvars, invars, srvvars, failed>>

\* get_socket_back after the call
got_back(t) ==
    /\ At(t, "got_back")
    /\ lock' = t
    /\ moving' = FALSE /\ owned' = FALSE
    /\ Awake(Waiters("socket"))
    /\ after_back(t)
    /\ UNCHANGED <<script, mine, vec, revents, ret, has_error, reading, writing,
                   readers, out_request, request_written, request_expected, queue,
                   kinds, invars, srvvars, failed>>

\* What write_block writes: the queue, then the request.  Variant: the other
\* way round.
block_swapped(r) == <<r>> \o queue
block(r) == Append(queue, r)

\* The rest of xcb_send_request, with write_block: into the queue if there
\* is room, or the queue and the request to the socket.
number(t) ==
    /\ At(t, "number")
    /\ out_request' = out_request + 1
    /\ kinds' = Append(kinds, Op(t))
    /\ request_expected' = IF Op(t) = "query" THEN out_request' ELSE request_expected
    /\ mine' = [mine EXCEPT ![t] = Append(@, out_request')]
    /\ \/ /\ Len(queue) < prog.queue_cap
          /\ queue' = Append(queue, out_request')
          /\ return(t)
          /\ UNCHANGED vec
       \/ /\ Len(queue) >= prog.queue_cap
          /\ vec' = [vec EXCEPT ![t] = block(out_request')]
          /\ queue' = <<>>
          /\ proceed(t, "out_send")
    /\ UNCHANGED <<revents, ret, cv, has_error, reading, writing, readers,
                   request_written, owned, moving, invars, srvvars, failed>>

\* xcb_take_socket after the flush
take_own(t) ==
    /\ At(t, "take_own")
    /\ owned' = TRUE
    /\ failed' = IF out_request = request_written THEN failed
                 ELSE failed \cup {"take_socket request_written"}
    /\ return(t)
    /\ UNCHANGED <<mine, vec, revents, ret, cv, has_error, reading, writing, readers,
                   out_request, request_written, request_expected, queue, moving, kinds,
                   invars, srvvars>>

\* xcb_writev by the owner of the socket, one void request
xcb_writev(t) ==
    /\ At(t, "writev")
    /\ out_request' = out_request + 1
    /\ kinds' = Append(kinds, "void")
    /\ vec' = [vec EXCEPT ![t] = <<out_request'>>]
    /\ proceed(t, "out_send")
    /\ UNCHANGED <<mine, revents, ret, cv, has_error, reading, writing, readers,
                   request_written, request_expected, queue, owned, moving, invars,
                   srvvars, failed>>
-----------------------------------------------------------------------------
(* xcb_in.c                                                                *)

\* xcb_wait_for_reply: write the request if it has not been, unless the
\* socket belongs to someone else.
xcb_wait_for_reply(t) ==
    /\ At(t, "reply")
    /\ request' = [request EXCEPT ![t] =
         IF Op(t) = "reply" THEN Head(mine[t]) ELSE mine[t][Len(mine[t])]]
    /\ goto(t, IF owned THEN "reply_add" ELSE "flush_to")
    /\ lock' = t
    /\ UNCHANGED <<script, mine, vec, revents, ret, cv, has_error, reading, writing,
                   readers, outvars, invars, srvvars, failed>>

\* ... enter the list of readers,
reply_add(t) ==
    /\ At(t, "reply_add")
    /\ readers' = readers \cup {t}
    /\ proceed(t, "reply_loop")
    /\ UNCHANGED <<mine, vec, revents, ret, cv, has_error, reading, writing, outvars,
                   invars, srvvars, failed>>

\* poll_for_reply for request k has an answer: a reply, or that there is none.
answered(k) == k \in stored \/ k < request_read

\* Variant: the reader stays in the list.
readers_kept(t) == readers
readers_without(t) == readers \ {t}

\* ... loop until there is one or the connection breaks, and leave the list.  A
\* thread whose wait or flush has failed does not look again.
reply_loop(t) ==
    /\ At(t, "reply_loop")
    /\ \/ /\ ret[t] /\ ~answered(request[t])
          /\ conn_wait(t, "reader", FALSE)
          /\ UNCHANGED <<script, mine, request, readers, stored>>
       \/ /\ ~ret[t] \/ answered(request[t])
          /\ readers' = readers_without(t)
          /\ stored' = IF ret[t] THEN stored \ {request[t]} ELSE stored
          /\ \E w \in wake_up_next_reader(readers') : Awake(w)
          /\ mine' = [mine EXCEPT ![t] = IF Op(t) = "reply" THEN SubSeq(@, 2, Len(@))
                                         ELSE SubSeq(@, 1, Len(@) - 1)]
          /\ return(t)
          /\ UNCHANGED <<ret, reading, writing>>
    /\ UNCHANGED <<vec, revents, has_error, outvars, request_read, events, srvvars,
                   failed>>

\* xcb_wait_for_event
event_loop(t) ==
    /\ At(t, "event_loop")
    /\ \/ /\ ret[t] /\ events = 0
          /\ conn_wait(t, "event", FALSE)
          /\ UNCHANGED <<script, request, events>>
       \/ /\ ~ret[t] \/ events > 0
          /\ events' = IF ret[t] THEN events - 1 ELSE events
          /\ \E w \in wake_up_next_reader(readers) : Awake(w)
          /\ return(t)
          /\ UNCHANGED <<ret, reading, writing>>
    /\ UNCHANGED <<mine, vec, revents, has_error, readers, outvars, request_read,
                   stored, srvvars, failed>>

\* xcb_poll_for_event: reads the socket whether or not another thread does.
poll_event(t) ==
    /\ At(t, "poll_event")
    /\ \/ /\ events > 0
          /\ events' = events - 1
          /\ UNCHANGED <<cv, has_error, request_expected, request_read, stored, inbuf>>
       \/ /\ events = 0
          /\ \E n \in 0 .. Len(inbuf) : in_read(n) /\ events' = Larger(EventsIn(n) - 1, 0)
          /\ has_error' = (has_error \/ eof)
    /\ return(t)
    /\ UNCHANGED <<mine, vec, revents, ret, reading, writing, readers, out_request,
                   request_written, queue, owned, moving, kinds, wire, served, sent,
                   closed, failed>>

\* xcb_request_check looks at the connection without the lock; if a sync is
\* needed it issues GetInputFocus and waits for its reply first.
needs_sync(cookie) == cookie >= request_expected /\ cookie >= request_read

request_check(t) ==
    /\ pc[t] = "check"
    /\ script' = [script EXCEPT ![t] =
         (IF needs_sync(Head(mine[t])) THEN <<"query", "sync_reply", "reply">>
          ELSE <<"reply">>) \o Tail(@)]
    /\ goto(t, "idle")
    /\ UNCHANGED <<mine, request, vec, revents, ret, cv, lock, has_error, reading,
                   writing, readers, outvars, invars, srvvars, failed>>
-----------------------------------------------------------------------------
\* A thread makes its next call; it asks for replies to requests it has sent.
\* has_error is looked at before the lock is taken, and not again.
entry == [query |-> "send", void |-> "send", flush |-> "flush", reply |-> "reply",
          sync_reply |-> "reply", event |-> "event_loop", poll_event |-> "poll_event",
          request_check |-> "check", take_socket |-> "get_back", writev |-> "writev"]

\* The owner of the socket writes until return_socket has told it to stop.
MayWritev == owned /\ \A u \in Thread : pc[u] # "got_back"

call(t) ==
    /\ pc[t] = "idle" /\ script[t] # <<>> /\ ~has_error
    /\ Op(t) = "writev" => MayWritev
    /\ Op(t) \in {"reply", "sync_reply", "request_check"} => mine[t] # <<>>
    /\ ret' = [ret EXCEPT ![t] = TRUE]
    /\ goto(t, entry[Op(t)])
    /\ UNCHANGED <<script, mine, request, vec, revents, cv, lock, has_error, reading,
                   writing, readers, outvars, invars, srvvars, failed>>

\* A call on a broken connection returns at once; an owner that has lost the
\* socket writes nothing.
refuse(t) ==
    /\ pc[t] = "idle" /\ script[t] # <<>>
    /\ has_error \/ (Op(t) = "writev" /\ ~MayWritev)
    /\ script' = [script EXCEPT ![t] = Tail(@)]
    /\ UNCHANGED <<pc, mine, request, vec, revents, ret, cv, lock, has_error, reading,
                   writing, readers, outvars, invars, srvvars, failed>>

ThreadStep(t) ==
    /\ \/ call(t) \/ refuse(t) \/ poll(t) \/ polled(t)
       \/ out_send(t) \/ xcb_flush(t) \/ flush_to(t) \/ flush_wait(t)
       \/ send_wait(t) \/ get_socket_back(t) \/ callback(t) \/ got_back(t) \/ number(t)
       \/ take_own(t) \/ xcb_writev(t)
       \/ xcb_wait_for_reply(t) \/ reply_add(t) \/ reply_loop(t) \/ event_loop(t)
       \/ poll_event(t) \/ request_check(t)
    /\ UNCHANGED prog
-----------------------------------------------------------------------------
(* The server (external): it answers requests in order, sends events, and   *)
(* stops while the socket has no room for its responses.                    *)

serve ==
    /\ ~closed /\ served < Len(wire)
    /\ \/ /\ kinds[wire[served + 1]] = "query" /\ Len(inbuf) < prog.recv_cap
          /\ inbuf' = Append(inbuf, [type |-> "reply", of |-> wire[served + 1]])
       \/ kinds[wire[served + 1]] # "query" /\ UNCHANGED inbuf
    /\ served' = served + 1
    /\ UNCHANGED <<prog, thrvars, lock, has_error, reading, writing, readers, outvars,
                   invars, wire, sent, closed, failed>>

send_event ==
    /\ ~closed /\ sent < prog.events /\ Len(inbuf) < prog.recv_cap
    /\ inbuf' = Append(inbuf, [type |-> "event", of |-> served])
    /\ sent' = sent + 1
    /\ UNCHANGED <<prog, thrvars, lock, has_error, reading, writing, readers, outvars,
                   invars, wire, served, closed, failed>>

close ==
    /\ prog.may_close /\ ~closed
    /\ closed' = TRUE
    /\ UNCHANGED <<prog, thrvars, lock, has_error, reading, writing, readers, outvars,
                   invars, wire, served, inbuf, sent, failed>>

AllDone == \A t \in Thread : script[t] = <<>> /\ pc[t] = "idle"

Next == (\E t \in Thread : ThreadStep(t)) \/ serve \/ send_event \/ close

Spec == Init /\ [][Next]_vars

\* The scheduler runs every thread that can run, and the server goes on
\* answering.
FairSpec ==
    /\ Spec
    /\ \A t \in Thread : WF_vars(ThreadStep(t))
    /\ WF_vars(serve) /\ WF_vars(send_event)
-----------------------------------------------------------------------------
(* Properties                                                              *)

Label == {"idle", "send", "get_back", "callback", "got_back", "number", "out_send",
          "flush", "flush_to", "flush_wait", "poll_read", "poll_write", "polled_read",
          "polled_write", "take_own", "writev", "reply", "reply_add", "reply_loop",
          "event_loop", "poll_event", "check"}

Polling == {"poll_read", "poll_write", "polled_read", "polled_write"}

\* The type invariant: every field has its type, c->in.reading counts the
\* threads in poll(), c->out.writing those that also want to write, and the
\* list of readers holds the threads in the loop of xcb_wait_for_reply.
ThreadsTypeOK ==
    /\ pc \in [Thread -> Label] /\ script \in [Thread -> Seq(Call)]
    /\ request \in [Thread -> 0 .. out_request]
    /\ cv \in [Thread -> {"none", "out", "socket", "reader", "event"}]
    /\ lock \in Thread \cup {NoThread}
    /\ reading = Cardinality({t \in Thread : pc[t] \in Polling})
    /\ writing = Cardinality({t \in Thread : pc[t] \in {"poll_write", "polled_write"}})
    /\ \A t \in readers : Within(t, {"reply", "sync_reply"})
    /\ request_written \in 0 .. out_request /\ request_expected \in 0 .. out_request
    /\ request_read \in 0 .. out_request /\ stored \subseteq 1 .. out_request

\* Requests reach the socket in the order of their numbers, each once,
\* whatever threads send, flush and write at the same time: write_block and
\* _xcb_out_flush_to take the queue out of the others' reach before they let
\* go of the lock.
WireInOrder == \A i \in DOMAIN wire : wire[i] = i

\* c->out.request_written never runs ahead of the socket while the connection
\* is good; _xcb_out_flush_to relies on it when it returns without writing.
WrittenIsOnWire == ~has_error => request_written <= Len(wire)

\* Whoever is in poll() to write has the right to: the owner while the socket
\* is out, XCB while it is in.  xcb_take_socket hands it out only after a
\* flush, and get_socket_back waits for return_socket.
SocketExclusive ==
    \A t \in Thread : pc[t] = "poll_write" => (owned <=> Op(t) = "writev")

\* The assertions of write_vec, _xcb_out_flush_to and xcb_take_socket hold.
AssertionsHold == failed = {}

\* A thread that waits for its turn to read is never left alone: some thread
\* that will wake a reader when it leaves is still inside the library
\* (_xcb_in_wake_up_next_reader hands the job over).
Attending(t) ==
    /\ cv[t] = "none"
    /\ pc[t] \in Polling \cup {"out_send", "reply_loop", "event_loop"}

NoOrphans ==
    (\E t \in Thread : cv[t] \in {"reader", "event"}) => \E u \in Thread : Attending(u)

\* A reply that has been read is not kept from the thread that waits for it:
\* read_packet signals the reader whose request the reply is for.
ReplyWakesReader == \A t \in Thread : cv[t] = "reader" => request[t] \notin stored

\* Every call returns: no wake-up is lost, and the reading job is handed
\* over to a thread that needs it, also when the connection breaks.
AllReturn == <>AllDone
=============================================================================
