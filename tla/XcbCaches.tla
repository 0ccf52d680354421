----------------------------- MODULE XcbCaches ------------------------------
(***************************************************************************)
(* What libxcb asks the server once and remembers: the extension cache     *)
(* (xcb_ext.c), the maximum request length (xcb_out.c) and the range of    *)
(* resource ids (xcb_xid.c), and how they call one another while they hold *)
(* c->ext.lock, c->out.reqlenlock and c->xid.lock.                         *)
(*                                                                         *)
(* A thread has a stack of calls; the first frame is the one that runs.    *)
(* Its label `at` is a point of the code where another thread may come in: *)
(* before a lock is taken, while a reply is waited for, after an unlock.   *)
(* Requests and replies are coarse: a request is numbered when it is sent  *)
(* (0 if has_error was seen first), the server answers in order, and a     *)
(* reply can be collected once.  XcbReply and XcbThreads say how.          *)
(***************************************************************************)
EXTENDS Integers, Sequences, FiniteSets

CONSTANTS
    Thread, NoThread,
    WordBits,               \* 32 in the code
    big_requests, xc_misc,  \* extensions XCB itself uses
    other,                  \* an extension of the application
    Programs                \* what the threads do, with which server

Ext == {big_requests, xc_misc, other}
NoExt == "none"

\* The powers of two, up to the first that does not fit a word.
pow2[i \in 0 .. WordBits] == IF i = 0 THEN 1 ELSE 2 * pow2[i - 1]
Word == pow2[WordBits]
Null == 0

Bits(n) == {i \in 0 .. WordBits - 1 : (n \div pow2[i]) % 2 = 1}

\* A call of the application; len counts for xcb_send_request alone.
Call ==
    {c \in [op : {"get_ext", "prefetch_ext", "get_max", "prefetch_max", "send",
                  "send_raw", "generate_id", "free_id"}, ext : Ext \cup {NoExt}, len : Nat] :
        c.op \in {"get_ext", "prefetch_ext"} => c.ext \in Ext}

\* script   the calls of each thread
\* has      the extensions the server has
\* mask, base, short
\*          resource_id_mask, resource_id_base and maximum_request_length of
\*          the setup the server sent
\* big      the length BigRequestsEnable answers
\* faults   "break": the connection may break; "nomem": realloc may fail
Program ==
    [script : [Thread -> Seq(Call)], has : SUBSET Ext, mask : 1 .. Word - 1,
     base : 0 .. Word - 1, short : Nat \ {0}, big : Nat,
     faults : SUBSET {"break", "nomem"}]

\* mask & -mask
IsLowestBit(d, mask) == Bits(d) = Bits(mask) \cap Bits(Word - mask)
lowest_bit(mask) == CHOOSE d \in 1 .. Word - 1 : IsLowestBit(d, mask)

ASSUME CachesAssumption ==
    /\ NoThread \notin Thread
    /\ WordBits \in Nat \ {0}
    /\ big_requests # xc_misc /\ big_requests # other /\ xc_misc # other
    /\ NoExt \notin Ext
    /\ \A p \in Programs : p \in Program /\ Bits(p.mask) \cap Bits(p.base) = {}

VARIABLES
    prog,           \* the program, which never changes
    script, stack,
    val,            \* what the last inner call of a thread returned
    lock,           \* who holds each lock
    has_error,
    global_id, next_global_id,
    extensions,     \* the table of lazy replies
    home,           \* where realloc has put it
    maxlen,         \* maximum_request_length and its tag
    last, max, inc, \* c->xid; its base is the one of the setup
    requests, answers, collected,
    \* bookkeeping for the properties
    live,           \* ids in use, in the order they were generated
    seen,           \* what xcb_get_extension_data returned
    lengths,        \* what xcb_get_maximum_request_length returned
    stale,          \* extensions read from a table that had moved
    failed          \* assertions that failed

extvars == <<global_id, next_global_id, extensions, home>>
xidvars == <<last, max, live>>
ghosts  == <<seen, lengths, stale, failed>>
vars == <<prog, inc, script, stack, val, lock, has_error, extvars, maxlen, xidvars,
          requests, answers, collected, ghosts>>

Lazy == [tag : {"NONE", "COOKIE", "FORCED"}, value : Nat]
Locks == {"ext", "reqlen", "xid"}

\* _xcb_xid_init
xid_init == last = 0 /\ max = 0 /\ inc = lowest_bit(prog.mask)

Init ==
    /\ prog \in Programs
    /\ script = prog.script
    /\ stack = [t \in Thread |-> <<>>] /\ val = [t \in Thread |-> Null]
    /\ lock = [l \in Locks |-> NoThread] /\ has_error = FALSE
    /\ global_id = [e \in Ext |-> 0] /\ next_global_id = 0
    /\ extensions = <<>> /\ home = 0
    /\ maxlen = [tag |-> "NONE", value |-> 0]
    /\ xid_init
    /\ requests = <<>> /\ answers = <<>> /\ collected = {}
    /\ live = <<>> /\ seen = {} /\ lengths = {} /\ stale = {} /\ failed = {}
-----------------------------------------------------------------------------
(* Threads and locks                                                       *)

Label ==
    {"get_ext", "force_ext", "wait_ext", "read_ext", "prefetch_ext", "lazy_ext",
     "prefetch_max", "lock_max", "enable_max", "enabled_max",
     "get_max", "force_max", "wait_max", "read_max",
     "send", "send_ext", "send_len", "send_long", "send_out", "send_raw", "raw_out",
     "generate_id", "next_id", "range_id", "wait_id"}
Frame == [at : Label, ext : Ext \cup {NoExt}, len : Nat, data : Nat \X Nat]

Enter(l, e, n) == [at |-> l, ext |-> e, len |-> n, data |-> <<0, 0>>]

Top(t) == Head(stack[t])
At(t, l) == stack[t] # <<>> /\ Top(t).at = l

goto(t, l) == stack' = [stack EXCEPT ![t][1].at = l]
hold(t, l, d) == stack' = [stack EXCEPT ![t][1].at = l, ![t][1].data = d]
invoke(t, back, f) ==
    stack' = [stack EXCEPT ![t] = <<f, [Top(t) EXCEPT !.at = back]>> \o Tail(@)]
return(t, v) ==
    /\ stack' = [stack EXCEPT ![t] = Tail(@)]
    /\ val' = [val EXCEPT ![t] = v]

Free(l) == lock[l] = NoThread
Acquire(t, l) == lock' = [lock EXCEPT ![l] = t]
Release(l) == lock' = [lock EXCEPT ![l] = NoThread]

\* A reply can be had, or never will.  Who waits when the connection breaks
\* may still find a reply that has arrived.
Answered(k) == k = 0 \/ has_error \/ k <= Len(answers)
Replies(k) ==
    (IF k \in 1 .. Len(answers) /\ k \notin collected THEN {k} ELSE {Null})
        \cup (IF has_error THEN {Null} ELSE {})

\* A request of XCB or of the application goes out.
Req(kind, e, n) == [kind |-> kind, ext |-> e, len |-> n]

\* Every function looks at has_error first, without a lock.
Entered(t, l, e) == At(t, l) /\ (IF has_error THEN return(t, Null)
                                 ELSE goto(t, e) /\ UNCHANGED val)
-----------------------------------------------------------------------------
(* xcb_ext.c                                                               *)

get_ext(t) == Entered(t, "get_ext", "force_ext")
prefetch_ext(t) == Entered(t, "prefetch_ext", "lazy_ext")

\* Variant: an answer that was asked for but not collected is asked for again.
miss_again(entry) == entry.tag # "FORCED"
miss(entry) == entry.tag = "NONE"

\* The first part of get_lazyreply, under global_lock.
number_ext(e) ==
    IF global_id[e] # 0 THEN UNCHANGED <<global_id, next_global_id>>
    ELSE /\ global_id' = [global_id EXCEPT ![e] = next_global_id + 1]
         /\ next_global_id' = next_global_id + 1

\* get_lazyreply and get_index, under ext.lock: number the extension, make
\* room in the table, which may move it, and ask the server on a miss.
get_lazyreply(e) ==
    /\ number_ext(e)
    /\ LET idx   == global_id'[e]
           size  == Len(extensions)
           table == [i \in 1 .. (IF idx > size THEN idx * 2 ELSE size) |->
                       IF i <= size THEN extensions[i] ELSE [tag |-> "NONE", value |-> 0]]
       IN  /\ home' \in IF idx > size THEN {home, home + 1} ELSE {home}
           /\ requests' = IF miss(table[idx]) /\ ~has_error
                          THEN Append(requests, Req("query_extension", e, 1)) ELSE requests
           /\ extensions' = IF miss(table[idx])
                            THEN [table EXCEPT ![idx] =
                                    [tag |-> "COOKIE",
                                     value |-> IF has_error THEN 0 ELSE Len(requests')]]
                            ELSE table

\* xcb_prefetch_extension_data
lazy_ext(t) ==
    /\ At(t, "lazy_ext") /\ Free("ext")
    /\ get_lazyreply(Top(t).ext)
    /\ return(t, Null)
    /\ UNCHANGED <<lock, collected, seen, stale>>

\* xcb_get_extension_data; the first to see the cookie waits for the reply.
force_ext(t) ==
    /\ At(t, "force_ext") /\ Free("ext")
    /\ get_lazyreply(Top(t).ext)
    /\ LET idx == global_id'[Top(t).ext]
       IN  IF extensions'[idx].tag = "COOKIE"
           THEN hold(t, "wait_ext", <<home', idx>>) /\ Acquire(t, "ext")
           ELSE hold(t, "read_ext", <<home', idx>>) /\ UNCHANGED lock
    /\ UNCHANGED <<val, collected, seen, stale>>

\* Either of the two finds no memory for the table.
ext_nomem(t) ==
    /\ "nomem" \in prog.faults
    /\ At(t, "lazy_ext") \/ At(t, "force_ext")
    /\ Free("ext")
    /\ number_ext(Top(t).ext)
    /\ global_id'[Top(t).ext] > Len(extensions)
    /\ return(t, Null)
    /\ UNCHANGED <<lock, extensions, home, requests, collected, seen, stale>>

wait_ext(t) ==
    /\ At(t, "wait_ext")
    /\ LET idx == Top(t).data[2]
           k   == extensions[idx].value
       IN  /\ Answered(k)
           /\ \E r \in Replies(k) :
                extensions' = [extensions EXCEPT ![idx] = [tag |-> "FORCED", value |-> r]]
           /\ collected' = collected \cup {k}
    /\ goto(t, "read_ext")
    /\ Release("ext")
    /\ UNCHANGED <<val, global_id, next_global_id, home, requests, seen, stale>>

\* The return statement, after the unlock.  If the table has moved since,
\* freed memory is read: it may hold what it held, or be cleared.
read_ext(t) ==
    /\ At(t, "read_ext")
    /\ LET moved == Top(t).data[1] # home
           here  == extensions[Top(t).data[2]].value
       IN  \E v \in IF moved THEN {here, Null} ELSE {here} :
             /\ return(t, v)
             /\ seen' = seen \cup {[ext |-> Top(t).ext, reply |-> v, error |-> has_error]}
             /\ stale' = IF moved THEN stale \cup {Top(t).ext} ELSE stale
    /\ UNCHANGED <<lock, extvars, requests, collected>>
-----------------------------------------------------------------------------
(* xcb_out.c: the maximum request length                                   *)

Present(v) == v # Null /\ answers[v].present

prefetch_max(t) == Entered(t, "prefetch_max", "lock_max")

lock_max(t) ==
    /\ At(t, "lock_max") /\ Free("reqlen")
    /\ \/ /\ maxlen.tag # "NONE"
          /\ return(t, Null)
          /\ UNCHANGED lock
       \/ /\ maxlen.tag = "NONE"
          /\ Acquire(t, "reqlen")
          /\ invoke(t, "enable_max", Enter("get_ext", big_requests, 0))
          /\ UNCHANGED val
    /\ UNCHANGED <<maxlen, collected, lengths>>

enable_max(t) ==
    /\ At(t, "enable_max")
    /\ \/ /\ Present(val[t])
          /\ maxlen' = [maxlen EXCEPT !.tag = "COOKIE"]
          /\ invoke(t, "enabled_max", Enter("send", big_requests, 1))
          /\ UNCHANGED <<lock, val>>
       \/ /\ ~Present(val[t])
          /\ maxlen' = [tag |-> "FORCED", value |-> prog.short]
          /\ Release("reqlen")
          /\ return(t, Null)
    /\ UNCHANGED <<collected, lengths>>

enabled_max(t) ==
    /\ At(t, "enabled_max")
    /\ maxlen' = [maxlen EXCEPT !.value = val[t]]
    /\ Release("reqlen")
    /\ return(t, Null)
    /\ UNCHANGED <<collected, lengths>>

get_max(t) ==
    /\ At(t, "get_max")
    /\ IF has_error THEN return(t, 0)
       ELSE invoke(t, "force_max", Enter("prefetch_max", NoExt, 0)) /\ UNCHANGED val

force_max(t) ==
    /\ At(t, "force_max") /\ Free("reqlen")
    /\ IF maxlen.tag = "COOKIE" THEN goto(t, "wait_max") /\ Acquire(t, "reqlen")
       ELSE goto(t, "read_max") /\ UNCHANGED lock
    /\ UNCHANGED <<val, maxlen, collected, lengths>>

\* Variant: the cookie stays where the length should be.
forced_length_kept(r) == maxlen.value
forced_length(r) == IF r = Null THEN prog.short ELSE answers[r].length

wait_max(t) ==
    /\ At(t, "wait_max")
    /\ Answered(maxlen.value)
    /\ \E r \in Replies(maxlen.value) :
         maxlen' = [tag |-> "FORCED", value |-> forced_length(r)]
    /\ collected' = collected \cup {maxlen.value}
    /\ goto(t, "read_max")
    /\ Release("reqlen")
    /\ UNCHANGED <<val, lengths>>

\* The return statement, after the unlock.
read_max(t) ==
    /\ At(t, "read_max")
    /\ return(t, maxlen.value)
    /\ lengths' = lengths \cup {[length |-> maxlen.value, error |-> has_error]}
    /\ UNCHANGED <<lock, maxlen, collected>>
-----------------------------------------------------------------------------
(* xcb_out.c: xcb_send_request up to the numbering                         *)

send(t) ==
    /\ At(t, "send")
    /\ \/ has_error /\ return(t, 0)
       \/ /\ ~has_error /\ Top(t).ext # NoExt
          /\ invoke(t, "send_ext", Enter("get_ext", Top(t).ext, 0))
          /\ UNCHANGED val
       \/ ~has_error /\ Top(t).ext = NoExt /\ goto(t, "send_len") /\ UNCHANGED val

refused(t) ==
    /\ has_error' = TRUE
    /\ return(t, 0)

send_ext(t) ==
    /\ At(t, "send_ext")
    /\ IF Present(val[t]) THEN goto(t, "send_len") /\ UNCHANGED <<has_error, val>>
       ELSE refused(t)
    /\ UNCHANGED requests

send_len(t) ==
    /\ At(t, "send_len")
    /\ IF Top(t).len <= prog.short THEN goto(t, "send_out")
       ELSE invoke(t, "send_long", Enter("get_max", NoExt, 0))
    /\ UNCHANGED val

\* Variant: a word too many passes.
too_long_by_one(len, limit) == len > limit + 1
too_long(len, limit) == len > limit

send_long(t) ==
    /\ At(t, "send_long")
    /\ IF too_long(Top(t).len, val[t]) THEN refused(t)
       ELSE goto(t, "send_out") /\ UNCHANGED <<has_error, val>>
    /\ UNCHANGED requests

\* With XCB_REQUEST_RAW neither the extension nor the length is looked at.
send_raw(t) == Entered(t, "send_raw", "raw_out")

\* What goes out: a length that does not fit the short field is counted up by
\* the word that holds it, after the test.
wire_length(len) == IF len <= prog.short THEN len ELSE len + 1

\* has_error is not looked at again: the request gets a number even if the
\* connection has broken by now.
send_out(t) ==
    /\ \/ /\ At(t, "send_out")
          /\ requests' = Append(requests, Req("send", Top(t).ext, wire_length(Top(t).len)))
       \/ /\ At(t, "raw_out")
          /\ requests' = Append(requests, Req("raw", Top(t).ext, Top(t).len))
    /\ return(t, Len(requests'))
    /\ UNCHANGED has_error
-----------------------------------------------------------------------------
(* xcb_xid.c                                                               *)

\* An id is the set of its bits.
Id(n) == Bits(n) \cup Bits(prog.base)

generate_id(t) == Entered(t, "generate_id", "next_id")

\* Variants: one id too many, one too few, in a range.
exhausted_late == last >= (max - inc + 2) % Word
exhausted_early == last + inc >= max
exhausted == last >= (max - inc + 1) % Word

next_id(t) ==
    /\ At(t, "next_id") /\ Free("xid")
    /\ failed' = IF exhausted /\ last # max THEN failed \cup {"last == max"} ELSE failed
    /\ \/ /\ exhausted /\ last = 0
          /\ max' = prog.mask
          /\ live' = Append(live, Id(last))
          /\ return(t, Null)
          /\ UNCHANGED <<last, lock>>
       \/ /\ exhausted /\ last # 0
          /\ Acquire(t, "xid")
          /\ invoke(t, "range_id", Enter("get_ext", xc_misc, 0))
          /\ UNCHANGED <<xidvars, val>>
       \/ /\ ~exhausted
          /\ last' = (last + inc) % Word
          /\ live' = Append(live, Id(last'))
          /\ return(t, Null)
          /\ UNCHANGED <<max, lock>>
    /\ UNCHANGED collected

\* Variant: the lock is kept when the extension cannot be had.
no_id_locked(t) == return(t, Null) /\ UNCHANGED lock
no_id(t) == return(t, Null) /\ Release("xid")

\* A reply to the query is enough here; whether the server has the extension
\* is found out by xcb_send_request.
range_id(t) ==
    /\ At(t, "range_id")
    /\ \/ val[t] = Null /\ no_id(t)
       \/ /\ val[t] # Null
          /\ invoke(t, "wait_id", Enter("send", xc_misc, 1))
          /\ UNCHANGED <<val, lock>>
    /\ UNCHANGED <<xidvars, collected, failed>>

\* What the server answers when it is out of ids.
NoRange == [start |-> 0, count |-> 1]

wait_id(t) ==
    /\ At(t, "wait_id")
    /\ LET k == val[t]
       IN  /\ Answered(k)
           /\ collected' = collected \cup {k}
           /\ \E r \in Replies(k) :
                LET range == IF r = Null THEN NoRange ELSE answers[r].range
                IN  \/ range = NoRange /\ UNCHANGED <<xidvars, failed>>
                    \/ /\ range # NoRange
                       /\ last' = range.start
                       /\ max' = (range.start + (range.count - 1) * inc) % Word
                       /\ live' = Append(live, Id(last'))
                       /\ failed' = IF range.count > 0 /\ range.start > 0 THEN failed
                                    ELSE failed \cup {"range"}
    /\ return(t, Null)
    /\ Release("xid")
-----------------------------------------------------------------------------
(* The application and the server (external)                               *)

\* The resource of some id is destroyed.
Freed(ids) ==
    IF ids = <<>> THEN {ids}
    ELSE {SubSeq(ids, 1, i - 1) \o SubSeq(ids, i + 1, Len(ids)) : i \in DOMAIN ids}

\* A thread makes its next call.
call(t) ==
    /\ stack[t] = <<>> /\ script[t] # <<>>
    /\ script' = [script EXCEPT ![t] = Tail(@)]
    /\ LET c == Head(script[t])
       IN  IF c.op = "free_id"
           THEN /\ live' \in Freed(live)
                /\ UNCHANGED stack
           ELSE /\ stack' = [stack EXCEPT ![t] = <<Enter(c.op, c.ext, c.len)>>]
                /\ UNCHANGED live
    /\ UNCHANGED <<val, lock, has_error, extvars, maxlen, last, max, requests, collected,
                   ghosts>>

Answer(p, l, r) == [present |-> p, length |-> l, range |-> r]

\* The ranges the server may offer: stretches of the client's own ids, base
\* included, that are not in use.
Offers ==
    LET used == {live[i] : i \in DOMAIN live}
        own  == {prog.base + n : n \in {m \in 0 .. prog.mask : Bits(m) \subseteq Bits(prog.mask)}}
    IN  {r \in [start : own \ {0}, count : 1 .. prog.mask + 1] :
            \A i \in 0 .. r.count - 1 :
                r.start + i * inc \in own /\ Id(r.start + i * inc) \notin used}

serve ==
    /\ Len(answers) < Len(requests)
    /\ LET q == requests[Len(answers) + 1]
       IN  \E r \in IF q.ext = xc_misc /\ q.kind = "send" /\ Offers # {}
                    THEN Offers ELSE {NoRange} :
             answers' = Append(answers, Answer(q.ext \in prog.has, prog.big, r))
    /\ UNCHANGED <<prog, inc, script, stack, val, lock, has_error, extvars, maxlen, xidvars,
                   requests, collected, ghosts>>

break ==
    /\ "break" \in prog.faults /\ ~has_error
    /\ has_error' = TRUE
    /\ UNCHANGED <<prog, inc, script, stack, val, lock, extvars, maxlen, xidvars, requests,
                   answers, collected, ghosts>>

\* The steps of a thread, by what they leave alone.
EnterStep(t) ==
    /\ \/ get_ext(t) \/ prefetch_ext(t) \/ prefetch_max(t) \/ get_max(t)
       \/ send(t) \/ send_raw(t) \/ send_len(t) \/ generate_id(t)
    /\ UNCHANGED <<script, lock, has_error, extvars, maxlen, xidvars, requests, collected,
                   ghosts>>

ExtStep(t) ==
    /\ lazy_ext(t) \/ force_ext(t) \/ ext_nomem(t) \/ wait_ext(t) \/ read_ext(t)
    /\ UNCHANGED <<script, has_error, maxlen, xidvars, lengths, failed>>

MaxStep(t) ==
    /\ \/ lock_max(t) \/ enable_max(t) \/ enabled_max(t)
       \/ force_max(t) \/ wait_max(t) \/ read_max(t)
    /\ UNCHANGED <<script, has_error, extvars, xidvars, requests, seen, stale, failed>>

SendStep(t) ==
    /\ send_ext(t) \/ send_long(t) \/ send_out(t)
    /\ UNCHANGED <<script, lock, extvars, maxlen, xidvars, collected, ghosts>>

XidStep(t) ==
    /\ next_id(t) \/ range_id(t) \/ wait_id(t)
    /\ UNCHANGED <<script, has_error, extvars, maxlen, requests, seen, lengths, stale>>

ThreadStep(t) ==
    /\ call(t) \/ EnterStep(t) \/ ExtStep(t) \/ MaxStep(t) \/ SendStep(t) \/ XidStep(t)
    /\ UNCHANGED <<prog, inc, answers>>

AllDone == \A t \in Thread : script[t] = <<>> /\ stack[t] = <<>>

Next == (\E t \in Thread : ThreadStep(t)) \/ serve \/ break

Spec == Init /\ [][Next]_vars

\* The scheduler runs every thread that can run, and the server answers.
FairSpec == Spec /\ (\A t \in Thread : WF_vars(ThreadStep(t))) /\ WF_vars(serve)
-----------------------------------------------------------------------------
(* Properties                                                              *)

\* Who is between lock and unlock.
Holds(t, labels) == \E i \in DOMAIN stack[t] : stack[t][i].at \in labels

\* The type invariant.  Each lock is held by the thread that is between
\* locking and unlocking it, and by no other.
CachesTypeOK ==
    /\ stack \in [Thread -> Seq(Frame)] /\ val \in [Thread -> Nat]
    /\ has_error \in BOOLEAN /\ extensions \in Seq(Lazy) /\ maxlen \in Lazy
    /\ \A e \in Ext : global_id[e] \in 0 .. next_global_id
    /\ last \in 0 .. Word - 1 /\ max \in 0 .. Word - 1 /\ inc \in 1 .. Word - 1
    /\ Len(answers) <= Len(requests) /\ collected \subseteq 0 .. Len(requests)
    /\ \A t \in Thread :
         /\ lock["ext"] = t <=> Holds(t, {"wait_ext"})
         /\ lock["reqlen"] = t <=> Holds(t, {"enable_max", "enabled_max", "wait_max"})
         /\ lock["xid"] = t <=> Holds(t, {"range_id", "wait_id"})

\* An extension is asked about once, whoever asks first and however gets and
\* prefetches mix, and while the connection is good every caller of
\* xcb_get_extension_data gets the answer to that question.
CacheCoherent ==
    /\ \A i, j \in DOMAIN requests :
         requests[i].kind = "query_extension" /\ requests[i] = requests[j] => i = j
    /\ \A s \in seen : ~s.error =>
         s.reply # Null /\ requests[s.reply] = Req("query_extension", s.ext, 1)

\* The longest request the server takes.
Limit == IF big_requests \in prog.has THEN prog.big ELSE prog.short

\* "the maximum request length field from the reply to the BigRequestsEnable
\* request will be returned": every call on a good connection returns what
\* the server takes, never the cookie that shares its memory.
MaxLengthRight == \A l \in lengths : ~l.error => l.length = Limit

\* The requests that XCB put together, not the raw ones.
Sent == {requests[i] : i \in {k \in DOMAIN requests : requests[k].kind = "send"}}

\* Of these requests, none is longer than the server takes but one: with
\* BIG-REQUESTS, a request that is as long as the limit before its long length
\* is put in.  None is of an extension the server lacks (xcb_send_request and
\* the caches it asks).
SentAcceptedButFull ==
    \A q \in Sent :
        /\ q.len <= Limit \/ (q.len = Limit + 1 /\ prog.short < Limit)
        /\ q.ext \in prog.has \cup {NoExt}

\* No id is given out that is in use, and every id is one of the client's
\* own (xcb_generate_id, with several threads and ranges from the server).
IdsUnique ==
    /\ \A i, j \in DOMAIN live : live[i] = live[j] => i = j
    /\ \A i \in DOMAIN live :
         Bits(prog.base) \subseteq live[i] /\ live[i] \subseteq Bits(prog.base) \cup Bits(prog.mask)

\* The assertions of xcb_generate_id hold: a range is used up to its last id
\* and no further.
RangesUsedUp == failed = {}

\* "This storage is managed by the cache itself": xcb_get_extension_data
\* reads the cache, not memory the cache has given back.
CacheStaysPut == stale = {}

\* Every call returns, also when the connection breaks: the locks are taken
\* in an order without a cycle and given back on every path.
CachesReturn == <>AllDone
=============================================================================
