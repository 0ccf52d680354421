-------------------------- MODULE XcbThreadsProofs --------------------------
(***************************************************************************)
(* The hand-over of the reading job between the threads inside libxcb, for *)
(* any number of threads and whatever they call: a thread that waits for a *)
(* reply or an event is never left without a thread that will wake it, and *)
(* never waits for a reply that has been read.  Each request is in at most *)
(* one place, and no number is ahead of the last request.  The last part   *)
(* is about the output of those threads.                                   *)
(***************************************************************************)
EXTENDS XcbThreads, SequenceTheorems, FiniteSetTheorems, WellFoundedInduction, TLAPS

-----------------------------------------------------------------------------
(* Counting threads                                                        *)

\* The threads whose label, in f, is in S.
In(f, S) == {t \in Thread : f[t] \in S}

LEMMA InFinite ==
    ASSUME NEW f, NEW S
    PROVE  /\ IsFiniteSet(In(f, S)) /\ Cardinality(In(f, S)) \in Nat
           /\ Cardinality(In(f, S)) > 0 => \E t \in Thread : f[t] \in S
<1>1. IsFiniteSet(In(f, S))
  BY ThreadsAssumption, FS_Subset DEF In
<1>2. Cardinality(In(f, S)) \in Nat
  BY <1>1, FS_CardinalityType
<1>3. In(f, S) = {} => Cardinality(In(f, S)) = 0
  BY FS_EmptySet
<1> QED
  BY <1>1, <1>2, <1>3 DEF In

\* From f to g, only thread t has gone to another label.
Moved(f, g, t) == \A u \in Thread \ {t} : g[u] = f[u]

LEMMA CountMove ==
    ASSUME NEW f, NEW g, NEW t \in Thread, NEW S, Moved(f, g, t)
    PROVE  LET n == Cardinality(In(f, S))
           IN  Cardinality(In(g, S)) = IF f[t] \in S THEN IF g[t] \in S THEN n ELSE n - 1
                                       ELSE IF g[t] \in S THEN n + 1 ELSE n
<1>1. \A u \in Thread \ {t} : g[u] = f[u]
  BY DEF Moved
<1>2. IsFiniteSet(In(f, S))
  BY InFinite
<1>3. CASE f[t] \in S /\ g[t] \in S
  <2>1. In(g, S) = In(f, S)
    BY <1>1, <1>3 DEF In
  <2> QED
    BY <1>3, <2>1
<1>4. CASE f[t] \in S /\ g[t] \notin S
  <2>1. In(g, S) = In(f, S) \ {t} /\ t \in In(f, S)
    BY <1>1, <1>4 DEF In
  <2>2. Cardinality(In(f, S) \ {t}) = Cardinality(In(f, S)) - 1
    BY <1>2, <2>1, FS_RemoveElement
  <2> QED
    BY <1>4, <2>1, <2>2
<1>5. CASE f[t] \notin S /\ g[t] \in S
  <2>1. In(g, S) = In(f, S) \cup {t} /\ t \notin In(f, S)
    BY <1>1, <1>5 DEF In
  <2>2. Cardinality(In(f, S) \cup {t}) = Cardinality(In(f, S)) + 1
    BY <1>2, <2>1, FS_AddElement
  <2> QED
    BY <1>5, <2>1, <2>2
<1>6. CASE f[t] \notin S /\ g[t] \notin S
  <2>1. In(g, S) = In(f, S)
    BY <1>1, <1>6 DEF In
  <2> QED
    BY <1>6, <2>1
<1> QED
  BY <1>3, <1>4, <1>5, <1>6

\* A set of numbers that is not empty has a least element.
LEMMA LeastExists ==
    ASSUME NEW T \in SUBSET Nat, T # {}
    PROVE  \E x \in T : \A y \in T : x <= y
<1> DEFINE R == OpToRel(<, Nat)
<1>1. IsWellFoundedOn(R, Nat)
  BY NatLessThanWellFounded
<1>2. \A x, y \in Nat : y < x => <<y, x>> \in R
  BY DEF OpToRel
<1> HIDE DEF R
<1>3. PICK x \in T : \A y \in T : ~ (<<y, x>> \in R)
  BY <1>1, WFMin
<1>4. \A y \in T : ~(y < x)
  BY <1>2, <1>3
<1>5. \A y \in T : x <= y
  BY <1>4
<1> QED
  BY <1>5

\* The list of readers has a first one.
LEMMA FirstReaderIn ==
    ASSUME request \in [Thread -> Nat], NEW rs \in SUBSET Thread, rs # {}
    PROVE  FirstReader(rs) \in rs
<1> DEFINE T == {request[t] : t \in rs}
<1>1. T \in SUBSET Nat /\ T # {}
  OBVIOUS
<1>2. PICK x \in T : \A y \in T : x <= y
  BY <1>1, LeastExists
<1>3. PICK t \in rs : request[t] = x
  BY <1>2
<1>4. \A u \in rs : request[t] <= request[u]
  BY <1>2, <1>3
<1> QED
  BY <1>3, <1>4 DEF FirstReader
-----------------------------------------------------------------------------
(* The invariant                                                           *)

Waiting == {"none", "out", "socket", "reader", "event"}
Replying == {"reply", "sync_reply"}

ThrTypes ==
    /\ pc \in [Thread -> Label] /\ cv \in [Thread -> Waiting]
    /\ script \in [Thread -> Seq(Call)] /\ mine \in [Thread -> Seq(Nat)]
    /\ request \in [Thread -> Nat] /\ ret \in [Thread -> BOOLEAN]
    /\ readers \subseteq Thread /\ out_request \in Nat

\* What a thread at label p, waiting for c, with r from _xcb_conn_wait, in the
\* list of readers or not, with the calls s still to make and the requests m
\* sent must satisfy: it waits only where the code does, and it is in the list
\* of readers while it is in the loop of xcb_wait_for_reply.
Consistent(p, c, r, reader, s, m) ==
    /\ c = "reader" => p = "reply_loop" /\ reader
    /\ c = "event" => p = "event_loop"
    /\ c = "out" => p \in {"out_send", "flush_wait", "send"}
    /\ c = "socket" => p = "get_back"
    /\ reader => p \in {"reply_loop", "poll_read", "polled_read"} /\ Head(s) \in Replying
    /\ p = "reply_loop" /\ r => reader
    /\ p \in {"poll_read", "polled_read"} => reader \/ Head(s) = "event"
    /\ p = "event_loop" => Head(s) = "event"
    /\ p \in {"reply", "reply_add", "reply_loop"} => Head(s) \in Replying
    /\ p = "reply" => m # <<>>
    /\ p # "idle" => s # <<>>

AllConsistent ==
    \A t \in Thread : Consistent(pc[t], cv[t], ret[t], t \in readers, script[t], mine[t])

Counted ==
    /\ reading = Cardinality(In(pc, Polling))
    /\ writing = Cardinality(In(pc, {"poll_write", "polled_write"}))

\* The inductive invariant behind NoOrphans and ReplyWakesReader.
ThreadInv == ThrTypes /\ AllConsistent /\ Counted /\ NoOrphans /\ ReplyWakesReader
-----------------------------------------------------------------------------
(* What one thread does to the others                                      *)

\* A step of thread t changes no other thread, except that it may wake it.
Own(t) ==
    /\ \A u \in Thread \ {t} :
          /\ pc'[u] = pc[u] /\ script'[u] = script[u] /\ mine'[u] = mine[u]
          /\ request'[u] = request[u] /\ ret'[u] = ret[u]
          /\ u \in readers' <=> u \in readers
    /\ \A u \in Thread \ {t} : cv'[u] \in {cv[u], "none"}

\* The same for the fields a call leaves and enters with.
CallPart(t) ==
    /\ pc' \in [Thread -> Label] /\ script' \in [Thread -> Seq(Call)]
    /\ request' \in [Thread -> Nat]
    /\ \A u \in Thread \ {t} :
          pc'[u] = pc[u] /\ script'[u] = script[u] /\ request'[u] = request[u]

\* The same for the condition variables; thread t itself goes on.
WakePart(t) ==
    /\ cv' \in [Thread -> Waiting] /\ cv'[t] = "none"
    /\ \A u \in Thread \ {t} : cv'[u] \in {cv[u], "none"}

LEMMA AwakePart ==
    ASSUME ThrTypes, NEW t \in Thread, cv[t] = "none", NEW w, Awake(w)
    PROVE  WakePart(t)
BY DEF ThrTypes, Awake, WakePart, Waiting

LEMMA KeepPart ==
    ASSUME ThrTypes, NEW t \in Thread, cv[t] = "none", cv' = cv
    PROVE  WakePart(t)
BY DEF ThrTypes, WakePart

LEMMA ReturnPart ==
    ASSUME ThrTypes, NEW t \in Thread, script[t] # <<>>, return(t)
    PROVE  CallPart(t) /\ pc'[t] = "idle"
<1>1. script[t] \in Seq(Call)
  BY DEF ThrTypes
<1>2. Tail(script[t]) \in Seq(Call)
  BY <1>1, HeadTailProperties
<1> QED
  BY <1>2 DEF ThrTypes, CallPart, return, goto, Label

LEMMA ProceedPart ==
    ASSUME ThrTypes, NEW t \in Thread, NEW l \in Label, proceed(t, l)
    PROVE  CallPart(t) /\ pc'[t] = l /\ script'[t] = script[t]
BY DEF ThrTypes, CallPart, proceed, goto

\* The labels after_flush leads to.
AfterFlush(t, ok) ==
    \/ pc'[t] = "idle"
    \/ /\ pc'[t] = IF ok THEN "reply_add" ELSE "reply_loop"
       /\ Op(t) \in Replying /\ script'[t] = script[t]
    \/ pc'[t] = "take_own" /\ script'[t] = script[t]

LEMMA AfterFlushPart ==
    ASSUME ThrTypes, NEW t \in Thread, script[t] # <<>>, NEW ok, after_flush(t, ok)
    PROVE  CallPart(t) /\ AfterFlush(t, ok)
<1>1. CASE Op(t) \in {"reply", "sync_reply"}
  <2>1. proceed(t, IF ok THEN "reply_add" ELSE "reply_loop")
    BY <1>1 DEF after_flush
  <2>2. (IF ok THEN "reply_add" ELSE "reply_loop") \in Label
    BY DEF Label
  <2> QED
    BY <1>1, <2>1, <2>2, ProceedPart DEF AfterFlush, Replying
<1>2. CASE Op(t) \notin {"reply", "sync_reply"} /\ Op(t) = "take_socket" /\ ok
  <2>1. proceed(t, "take_own") /\ "take_own" \in Label
    BY <1>2 DEF after_flush, Label
  <2> QED
    BY <2>1, ProceedPart DEF AfterFlush
<1>3. CASE Op(t) \notin {"reply", "sync_reply"} /\ ~(Op(t) = "take_socket" /\ ok)
  <2>1. return(t)
    BY <1>3, Zenon DEF after_flush
  <2> QED
    BY <2>1, ReturnPart DEF AfterFlush
<1> QED
  BY <1>1, <1>2, <1>3

\* _xcb_conn_wait: the thread waits, or goes to poll().
ConnWait(t, c, count) ==
    /\ pc' \in [Thread -> Label] /\ cv' \in [Thread -> Waiting]
    /\ ret' \in [Thread -> BOOLEAN]
    /\ \A u \in Thread \ {t} : pc'[u] = pc[u] /\ cv'[u] = cv[u] /\ ret'[u] = ret[u]
    /\ \/ /\ (IF count THEN writing ELSE reading) > 0
          /\ pc'[t] = pc[t] /\ cv'[t] = c /\ ret'[t] = TRUE
       \/ /\ pc'[t] = IF count THEN "poll_write" ELSE "poll_read"
          /\ cv'[t] = cv[t] /\ ret'[t] = ret[t]

LEMMA ConnWaitPart ==
    ASSUME ThrTypes, NEW t \in Thread, NEW c \in Waiting, NEW count \in BOOLEAN,
           conn_wait(t, c, count)
    PROVE  ConnWait(t, c, count)
<1>1. CASE (IF count THEN writing ELSE reading) > 0
  BY <1>1 DEF ThrTypes, conn_wait, cond_wait, ConnWait
<1>2. CASE ~((IF count THEN writing ELSE reading) > 0)
  BY <1>2 DEF ThrTypes, conn_wait, goto, ConnWait, Label
<1> QED
  BY <1>1, <1>2

\* What _xcb_in_read does to the threads.
LEMMA InReadPart ==
    ASSUME ThrTypes, NEW t \in Thread, cv[t] = "none", NEW n, in_read(n)
    PROVE  WakePart(t)
<1>1. PICK w \in wake_event_waiters(n) : Awake(w \cup wake_readers(n))
  BY Zenon DEF in_read
<1> QED
  BY <1>1, AwakePart
-----------------------------------------------------------------------------
(* The steps of a thread                                                   *)

Me(t) == Consistent(pc[t], cv[t], ret[t], t \in readers, script[t], mine[t])

\* The thread's step leaves the types, the others and the thread consistent.
Stepped(t) == ThrTypes' /\ Own(t) /\ Me(t)'

RestPart(t) ==
    /\ mine' \in [Thread -> Seq(Nat)] /\ ret' \in [Thread -> BOOLEAN]
    /\ readers' \subseteq Thread /\ out_request' \in Nat
    /\ \A u \in Thread \ {t} : /\ mine'[u] = mine[u] /\ ret'[u] = ret[u]
                               /\ u \in readers' <=> u \in readers

LEMMA Parts ==
    ASSUME NEW t \in Thread, CallPart(t), WakePart(t), RestPart(t), Me(t)'
    PROVE  Stepped(t)
BY DEF CallPart, WakePart, RestPart, Stepped, ThrTypes, Own

LEMMA RestKept ==
    ASSUME ThrTypes, NEW t \in Thread, UNCHANGED <<mine, ret, readers, out_request>>
    PROVE  RestPart(t)
BY DEF ThrTypes, RestPart

LEMMA CallKept ==
    ASSUME ThrTypes, NEW t \in Thread, UNCHANGED <<script, request>>, NEW l \in Label,
           goto(t, l)
    PROVE  CallPart(t) /\ pc'[t] = l
BY DEF ThrTypes, CallPart, goto

\* A call that returns leaves nothing behind.
LEMMA IdleConsistent ==
    ASSUME NEW t \in Thread, WakePart(t), pc'[t] = "idle", t \notin readers'
    PROVE  Me(t)'
BY DEF WakePart, Me, Consistent

LEMMA CallStepped ==
    ASSUME ThrTypes, NEW t \in Thread, Me(t), call(t)
    PROVE  Stepped(t)
<1> USE DEF call
<1>1. cv[t] = "none" /\ t \notin readers /\ WakePart(t)
  BY KeepPart DEF Me, Consistent, ThrTypes, Waiting
<1>2. Op(t) \in Call
  BY HeadTailProperties DEF ThrTypes, Op
<1>3. entry[Op(t)] \in Label \ {"reply_loop", "poll_read", "polled_read", "reply_add", "idle"}
  BY <1>2 DEF entry, Call, Label
<1>4. CallPart(t) /\ pc'[t] = entry[Op(t)]
  BY <1>3, CallKept
<1>5. RestPart(t) /\ ret'[t] = TRUE
  BY DEF ThrTypes, RestPart, outvars
<1>6. /\ entry[Op(t)] = "event_loop" => Op(t) = "event"
      /\ entry[Op(t)] = "reply" => Op(t) \in Replying
  BY <1>2 DEF entry, Call, Replying
<1>7. entry[Op(t)] = "reply" => mine[t] # <<>>
  BY <1>6 DEF Replying
<1>8. Me(t)'
  BY <1>1, <1>3, <1>4, <1>5, <1>6, <1>7 DEF Me, Consistent, WakePart, Op
<1> QED
  BY <1>1, <1>4, <1>5, <1>8, Parts

LEMMA RefuseStepped ==
    ASSUME ThrTypes, NEW t \in Thread, Me(t), refuse(t)
    PROVE  Stepped(t)
<1> USE DEF refuse
<1>1. cv[t] = "none" /\ t \notin readers /\ WakePart(t)
  BY KeepPart DEF Me, Consistent, ThrTypes, Waiting
<1>2. Tail(script[t]) \in Seq(Call)
  BY HeadTailProperties DEF ThrTypes
<1>3. CallPart(t) /\ pc'[t] = "idle"
  BY <1>2 DEF ThrTypes, CallPart
<1>4. RestPart(t)
  BY RestKept DEF outvars
<1> QED
  BY <1>1, <1>3, <1>4, IdleConsistent, Parts

LEMMA PollStepped ==
    ASSUME ThrTypes, NEW t \in Thread, Me(t), poll(t)
    PROVE  Stepped(t)
<1> USE DEF poll
<1> DEFINE l == IF pc[t] = "poll_read" THEN "polled_read" ELSE "polled_write"
<1>1. cv[t] = "none" /\ WakePart(t)
  BY KeepPart DEF Me, Consistent, ThrTypes, Waiting
<1>2. CallPart(t) /\ pc'[t] = l
  <2>1. l \in Label /\ goto(t, l)
    BY DEF Label
  <2> HIDE DEF l
  <2> QED
    BY <2>1, CallKept
<1>3. RestPart(t)
  BY RestKept DEF outvars
<1>4. Me(t)'
  BY <1>1, <1>2 DEF Me, Consistent, WakePart, outvars
<1> QED
  BY <1>1, <1>2, <1>3, <1>4, Parts

LEMMA PolledStepped ==
    ASSUME ThrTypes, NEW t \in Thread, Me(t), polled(t)
    PROVE  Stepped(t)
<1>1. PICK count \in BOOLEAN :
        /\ At(t, IF count THEN "polled_write" ELSE "polled_read")
        /\ \/ \E n \in 0 .. Len(inbuf) : in_read(n)
           \/ cv' = cv
        /\ \E x \in BOOLEAN : ret' = [ret EXCEPT ![t] = x]
        /\ goto(t, IF count THEN "out_send"
                   ELSE IF Op(t) = "event" THEN "event_loop" ELSE "reply_loop")
        /\ UNCHANGED <<script, mine, request, readers, out_request>>
  BY DEF polled
<1>2. cv[t] = "none" /\ WakePart(t)
  BY <1>1, KeepPart, InReadPart DEF At
<1> DEFINE l == IF count THEN "out_send"
                ELSE IF Op(t) = "event" THEN "event_loop" ELSE "reply_loop"
<1>3. CallPart(t) /\ pc'[t] = l
  <2>1. l \in Label /\ goto(t, l)
    BY <1>1 DEF Label
  <2> HIDE DEF l
  <2> QED
    BY <1>1, <2>1, CallKept
<1>4. RestPart(t)
  BY <1>1 DEF ThrTypes, RestPart
<1>5. Me(t)'
  BY <1>1, <1>2, <1>3 DEF Me, Consistent, WakePart, At, Op, Replying
<1> QED
  BY <1>2, <1>3, <1>4, <1>5, Parts
-----------------------------------------------------------------------------
LEMMA OutSendStepped ==
    ASSUME ThrTypes, NEW t \in Thread, Me(t), out_send(t)
    PROVE  Stepped(t)
<1>1. /\ pc[t] = "out_send" /\ cv[t] = "none" /\ t \notin readers /\ script[t] # <<>>
      /\ UNCHANGED <<mine, readers, out_request>>
  BY DEF out_send, At, Me, Consistent
<1>2. CASE /\ ret[t] /\ conn_wait(t, "out", TRUE)
           /\ UNCHANGED <<script, request>>
  <2>1. ConnWait(t, "out", TRUE)
    BY <1>2, ConnWaitPart DEF Waiting
  <2>2. ThrTypes' /\ Own(t)
    BY <1>1, <1>2, <2>1 DEF ThrTypes, Own, ConnWait
  <2>3. Me(t)'
    BY <1>1, <1>2, <2>1 DEF ConnWait, Me, Consistent
  <2> QED
    BY <2>2, <2>3 DEF Stepped
<1>3. CASE /\ \E w \in wake_up_next_reader(readers) : Awake(w \cup Waiters("out"))
           /\ after_flush(t, ret[t]) /\ UNCHANGED ret
  <2>1. WakePart(t)
    BY <1>1, <1>3, AwakePart
  <2>2. CallPart(t) /\ AfterFlush(t, ret[t])
    BY <1>1, <1>3, AfterFlushPart
  <2>3. RestPart(t)
    BY <1>1, <1>3, RestKept
  <2>4. Me(t)'
    BY <1>1, <1>3, <2>1, <2>2 DEF Me, Consistent, WakePart, AfterFlush, Op, Replying
  <2> QED
    BY <2>1, <2>2, <2>3, <2>4, Parts
<1> QED
  BY <1>2, <1>3 DEF out_send

LEMMA FlushStepped ==
    ASSUME ThrTypes, NEW t \in Thread, Me(t), xcb_flush(t)
    PROVE  Stepped(t)
<1> USE DEF xcb_flush
<1>1. cv[t] = "none" /\ WakePart(t) /\ pc[t] = "flush"
  BY KeepPart DEF At
<1>2. CallPart(t) /\ pc'[t] = "flush_to"
  BY DEF ThrTypes, CallPart, goto, Label
<1>3. RestPart(t)
  BY RestKept DEF outvars
<1>4. Me(t)'
  BY <1>1, <1>2 DEF Me, Consistent, WakePart
<1> QED
  BY <1>1, <1>2, <1>3, <1>4, Parts

LEMMA FlushToStepped ==
    ASSUME ThrTypes, NEW t \in Thread, Me(t), flush_to(t)
    PROVE  Stepped(t)
<1> USE DEF flush_to
<1>1. /\ pc[t] = "flush_to" /\ cv[t] = "none" /\ t \notin readers /\ script[t] # <<>>
      /\ WakePart(t) /\ UNCHANGED <<mine, ret, readers, out_request>>
  BY KeepPart DEF At, Me, Consistent
<1>2. RestPart(t)
  BY <1>1, RestKept
<1>3. CASE after_flush(t, TRUE)
  <2>1. CallPart(t) /\ AfterFlush(t, TRUE)
    BY <1>1, <1>3, AfterFlushPart
  <2>2. Me(t)'
    BY <1>1, <2>1 DEF Me, Consistent, WakePart, AfterFlush, Op, Replying
  <2> QED
    BY <1>1, <1>2, <2>1, <2>2, Parts
<1>4. CASE \E l \in {"out_send", "flush_wait"} : proceed(t, l)
  <2>1. PICK l \in {"out_send", "flush_wait"} : proceed(t, l)
    BY <1>4
  <2>2. l \in Label
    BY DEF Label
  <2>3. CallPart(t) /\ pc'[t] = l /\ script'[t] = script[t]
    BY <2>1, <2>2, ProceedPart
  <2>4. Me(t)'
    BY <1>1, <2>3 DEF Me, Consistent, WakePart
  <2> QED
    BY <1>1, <1>2, <2>3, <2>4, Parts
<1> QED
  BY <1>3, <1>4

\* A thread that waits on c and goes on at its label.
LEMMA CondWaitStepped ==
    ASSUME ThrTypes, NEW t \in Thread, Me(t), NEW c, cv[t] = "none", t \notin readers,
           \/ c = "out" /\ pc[t] \in {"out_send", "flush_wait", "send"}
           \/ c = "socket" /\ pc[t] = "get_back",
           cond_wait(t, c), UNCHANGED <<pc, script, request, mine, ret, readers, out_request>>
    PROVE  Stepped(t)
<1>1. c \in Waiting
  BY DEF Waiting
<1>2. cv' = [cv EXCEPT ![t] = c]
  BY DEF cond_wait
<1>3. ThrTypes' /\ Own(t)
  BY <1>1, <1>2 DEF ThrTypes, Own
<1>4. Me(t)'
  BY <1>2 DEF Me, Consistent, ThrTypes
<1> QED
  BY <1>3, <1>4 DEF Stepped

LEMMA FlushWaitStepped ==
    ASSUME ThrTypes, NEW t \in Thread, Me(t), flush_wait(t)
    PROVE  Stepped(t)
<1> USE DEF flush_wait
<1>1. /\ pc[t] = "flush_wait" /\ cv[t] = "none" /\ t \notin readers /\ script[t] # <<>>
      /\ UNCHANGED <<mine, ret, readers, out_request>>
  BY DEF At, Me, Consistent, outvars
<1>2. CASE cond_wait(t, "out") /\ UNCHANGED <<pc, script, request>>
  BY <1>1, <1>2, CondWaitStepped
<1>3. CASE after_flush(t, TRUE) /\ UNCHANGED cv
  <2>1. CallPart(t) /\ AfterFlush(t, TRUE)
    BY <1>1, <1>3, AfterFlushPart
  <2>2. WakePart(t) /\ RestPart(t)
    BY <1>1, <1>3, KeepPart, RestKept
  <2>3. Me(t)'
    BY <1>1, <2>1, <2>2 DEF Me, Consistent, WakePart, AfterFlush, Op, Replying
  <2> QED
    BY <2>1, <2>2, <2>3, Parts
<1> QED
  BY <1>2, <1>3

LEMMA SendWaitStepped ==
    ASSUME ThrTypes, NEW t \in Thread, Me(t), send_wait(t)
    PROVE  Stepped(t)
<1> USE DEF send_wait
<1>1. /\ pc[t] = "send" /\ cv[t] = "none" /\ t \notin readers /\ script[t] # <<>>
      /\ UNCHANGED <<mine, ret, readers, out_request>>
  BY DEF At, Me, Consistent, outvars
<1>2. CASE cond_wait(t, "out") /\ UNCHANGED <<pc, script, request>>
  BY <1>1, <1>2, CondWaitStepped
<1>3. CASE proceed(t, "get_back") /\ UNCHANGED cv
  <2>1. CallPart(t) /\ pc'[t] = "get_back" /\ script'[t] = script[t]
    BY <1>3, ProceedPart DEF Label
  <2>2. WakePart(t) /\ RestPart(t)
    BY <1>1, <1>3, KeepPart, RestKept
  <2>3. Me(t)'
    BY <1>1, <2>1, <2>2 DEF Me, Consistent, WakePart
  <2> QED
    BY <2>1, <2>2, <2>3, Parts
<1> QED
  BY <1>2, <1>3

LEMMA AfterBackPart ==
    ASSUME ThrTypes, NEW t \in Thread, after_back(t), UNCHANGED script
    PROVE  CallPart(t) /\ pc'[t] \in {"flush_to", "number"}
BY DEF ThrTypes, CallPart, after_back, goto, Label

LEMMA GetBackStepped ==
    ASSUME ThrTypes, NEW t \in Thread, Me(t), get_socket_back(t)
    PROVE  Stepped(t)
<1> USE DEF get_socket_back
<1>1. /\ pc[t] = "get_back" /\ cv[t] = "none" /\ t \notin readers /\ script[t] # <<>>
      /\ UNCHANGED <<mine, ret, readers, out_request, script>>
  BY DEF At, Me, Consistent
<1>2. CASE cond_wait(t, "socket") /\ UNCHANGED <<pc, request>>
  BY <1>1, <1>2, CondWaitStepped
<1>3. CASE after_back(t) /\ UNCHANGED cv
  <2>1. CallPart(t) /\ pc'[t] \in {"flush_to", "number"}
    BY <1>1, <1>3, AfterBackPart
  <2>2. WakePart(t) /\ RestPart(t)
    BY <1>1, <1>3, KeepPart, RestKept
  <2>3. Me(t)'
    BY <1>1, <2>1, <2>2 DEF Me, Consistent, WakePart
  <2> QED
    BY <2>1, <2>2, <2>3, Parts
<1>4. CASE return_socket(t) /\ UNCHANGED <<cv, request>>
  <2>1. CallPart(t) /\ pc'[t] = "callback"
    BY <1>1, <1>4, CallKept DEF Label, return_socket
  <2>2. WakePart(t) /\ RestPart(t)
    BY <1>1, <1>4, KeepPart, RestKept
  <2>3. Me(t)'
    BY <1>1, <2>1, <2>2 DEF Me, Consistent, WakePart
  <2> QED
    BY <2>1, <2>2, <2>3, Parts
<1> QED
  BY <1>2, <1>3, <1>4

LEMMA CallbackStepped ==
    ASSUME ThrTypes, NEW t \in Thread, Me(t), callback(t)
    PROVE  Stepped(t)
<1> USE DEF callback
<1>1. /\ pc[t] = "callback" /\ cv[t] = "none" /\ t \notin readers /\ script[t] # <<>>
      /\ UNCHANGED <<mine, ret, readers, out_request, script, request, cv>>
  BY DEF Me, Consistent, outvars, ThrTypes, Waiting
<1>2. CallPart(t) /\ pc'[t] = "got_back"
  BY <1>1, CallKept DEF Label
<1>3. WakePart(t) /\ RestPart(t)
  BY <1>1, KeepPart, RestKept
<1>4. Me(t)'
  BY <1>1, <1>2, <1>3 DEF Me, Consistent, WakePart
<1> QED
  BY <1>2, <1>3, <1>4, Parts

LEMMA GotBackStepped ==
    ASSUME ThrTypes, NEW t \in Thread, Me(t), got_back(t)
    PROVE  Stepped(t)
<1> USE DEF got_back
<1>1. /\ pc[t] = "got_back" /\ cv[t] = "none" /\ t \notin readers /\ script[t] # <<>>
      /\ UNCHANGED <<mine, ret, readers, out_request, script>>
  BY DEF At, Me, Consistent
<1>2. CallPart(t) /\ pc'[t] \in {"flush_to", "number"}
  BY <1>1, AfterBackPart
<1>3. WakePart(t) /\ RestPart(t)
  BY <1>1, AwakePart, RestKept
<1>4. Me(t)'
  BY <1>1, <1>2, <1>3 DEF Me, Consistent, WakePart
<1> QED
  BY <1>2, <1>3, <1>4, Parts
-----------------------------------------------------------------------------
LEMMA NumberStepped ==
    ASSUME ThrTypes, NEW t \in Thread, Me(t), number(t)
    PROVE  Stepped(t)
<1> USE DEF number
<1>1. /\ pc[t] = "number" /\ cv[t] = "none" /\ t \notin readers /\ script[t] # <<>>
      /\ UNCHANGED <<ret, readers, cv>> /\ out_request' = out_request + 1
  BY DEF At, Me, Consistent
<1>2. out_request' \in Nat
  BY <1>1 DEF ThrTypes
<1>3. Append(mine[t], out_request') \in Seq(Nat)
  BY <1>2, AppendProperties DEF ThrTypes
<1>4. RestPart(t)
  BY <1>1, <1>2, <1>3 DEF ThrTypes, RestPart
<1>5. WakePart(t)
  BY <1>1, KeepPart
<1>6. CASE return(t)
  <2>1. CallPart(t) /\ pc'[t] = "idle"
    BY <1>1, <1>6, ReturnPart
  <2> QED
    BY <1>1, <1>4, <1>5, <2>1, IdleConsistent, Parts
<1>7. CASE proceed(t, "out_send")
  <2>1. CallPart(t) /\ pc'[t] = "out_send" /\ script'[t] = script[t]
    BY <1>7, ProceedPart DEF Label
  <2>2. Me(t)'
    BY <1>1, <1>5, <2>1 DEF Me, Consistent, WakePart
  <2> QED
    BY <1>4, <1>5, <2>1, <2>2, Parts
<1> QED
  BY <1>6, <1>7

LEMMA TakeOwnStepped ==
    ASSUME ThrTypes, NEW t \in Thread, Me(t), take_own(t)
    PROVE  Stepped(t)
<1> USE DEF take_own
<1>1. /\ cv[t] = "none" /\ t \notin readers /\ script[t] # <<>>
      /\ UNCHANGED <<mine, ret, readers, out_request>>
  BY DEF At, Me, Consistent
<1>2. CallPart(t) /\ pc'[t] = "idle"
  BY <1>1, ReturnPart
<1>3. WakePart(t) /\ RestPart(t)
  BY <1>1, KeepPart, RestKept
<1> QED
  BY <1>1, <1>2, <1>3, IdleConsistent, Parts

LEMMA WritevStepped ==
    ASSUME ThrTypes, NEW t \in Thread, Me(t), xcb_writev(t)
    PROVE  Stepped(t)
<1> USE DEF xcb_writev
<1>1. /\ pc[t] = "writev" /\ cv[t] = "none" /\ t \notin readers /\ script[t] # <<>>
      /\ UNCHANGED <<mine, ret, readers, cv>>
  BY DEF At, Me, Consistent
<1>2. CallPart(t) /\ pc'[t] = "out_send" /\ script'[t] = script[t]
  BY ProceedPart DEF Label
<1>3. WakePart(t)
  BY <1>1, KeepPart
<1>4. RestPart(t)
  BY <1>1 DEF ThrTypes, RestPart
<1>5. Me(t)'
  BY <1>1, <1>2, <1>3 DEF Me, Consistent, WakePart
<1> QED
  BY <1>2, <1>3, <1>4, <1>5, Parts

LEMMA WaitForReplyStepped ==
    ASSUME ThrTypes, NEW t \in Thread, Me(t), xcb_wait_for_reply(t)
    PROVE  Stepped(t)
<1> USE DEF xcb_wait_for_reply
<1>1. /\ pc[t] = "reply" /\ cv[t] = "none" /\ t \notin readers /\ script[t] # <<>>
      /\ Op(t) \in Replying /\ mine[t] # <<>>
      /\ UNCHANGED <<script, mine, ret, cv, readers, out_request>>
  BY DEF At, Me, Consistent, outvars, Op
<1>2. Head(mine[t]) \in Nat
  BY <1>1, HeadTailProperties DEF ThrTypes
<1>3. mine[t][Len(mine[t])] \in Nat
  <2>1. mine[t] \in Seq(Nat)
    BY DEF ThrTypes
  <2>2. Len(mine[t]) \in 1 .. Len(mine[t])
    BY <1>1, <2>1, LenProperties, EmptySeq
  <2> QED
    BY <2>1, <2>2, ElementOfSeq
<1>4. CallPart(t) /\ pc'[t] \in {"reply_add", "flush_to"}
  BY <1>1, <1>2, <1>3 DEF ThrTypes, CallPart, goto, Label
<1>5. WakePart(t) /\ RestPart(t)
  BY <1>1, KeepPart, RestKept
<1>6. Me(t)'
  BY <1>1, <1>4, <1>5 DEF Me, Consistent, WakePart, Op
<1> QED
  BY <1>4, <1>5, <1>6, Parts

LEMMA ReplyAddStepped ==
    ASSUME ThrTypes, NEW t \in Thread, Me(t), reply_add(t)
    PROVE  Stepped(t)
<1> USE DEF reply_add
<1>1. /\ pc[t] = "reply_add" /\ cv[t] = "none" /\ script[t] # <<>>
      /\ Op(t) \in Replying /\ readers' = readers \cup {t}
      /\ UNCHANGED <<mine, ret, cv, out_request>>
  BY DEF At, Me, Consistent, outvars, Op
<1>2. CallPart(t) /\ pc'[t] = "reply_loop" /\ script'[t] = script[t]
  BY ProceedPart DEF Label
<1>3. WakePart(t)
  BY <1>1, KeepPart
<1>4. RestPart(t)
  BY <1>1 DEF ThrTypes, RestPart
<1>5. Me(t)'
  BY <1>1, <1>2, <1>3 DEF Me, Consistent, WakePart, Op
<1> QED
  BY <1>2, <1>3, <1>4, <1>5, Parts

LEMMA ReplyLoopStepped ==
    ASSUME ThrTypes, NEW t \in Thread, Me(t), reply_loop(t)
    PROVE  Stepped(t)
<1>1. /\ pc[t] = "reply_loop" /\ cv[t] = "none" /\ script[t] # <<>> /\ Op(t) \in Replying
      /\ UNCHANGED out_request
  BY DEF reply_loop, At, Me, Consistent, outvars, Op
<1>2. CASE /\ ret[t] /\ conn_wait(t, "reader", FALSE)
           /\ UNCHANGED <<script, mine, request, readers>>
  <2>1. ConnWait(t, "reader", FALSE)
    BY <1>2, ConnWaitPart DEF Waiting
  <2>2. ThrTypes' /\ Own(t)
    BY <1>1, <1>2, <2>1 DEF ThrTypes, Own, ConnWait
  <2>3. Me(t)'
    BY <1>1, <1>2, <2>1 DEF ConnWait, Me, Consistent
  <2> QED
    BY <2>2, <2>3 DEF Stepped
<1>3. CASE /\ readers' = readers_without(t)
           /\ \E w \in wake_up_next_reader(readers') : Awake(w)
           /\ mine' = [mine EXCEPT ![t] = IF Op(t) = "reply" THEN SubSeq(@, 2, Len(@))
                                          ELSE SubSeq(@, 1, Len(@) - 1)]
           /\ return(t) /\ UNCHANGED ret
  <2>1. WakePart(t)
    BY <1>1, <1>3, AwakePart
  <2>2. CallPart(t) /\ pc'[t] = "idle"
    BY <1>1, <1>3, ReturnPart
  <2>3. readers' = readers \ {t}
    BY <1>3 DEF readers_without
  <2>4. /\ SubSeq(mine[t], 2, Len(mine[t])) \in Seq(Nat)
        /\ SubSeq(mine[t], 1, Len(mine[t]) - 1) \in Seq(Nat)
    <3>1. mine[t] \in Seq(Nat) /\ Len(mine[t]) \in Nat
      BY LenProperties DEF ThrTypes
    <3> DEFINE n == Len(mine[t])
    <3>2. /\ \A i \in 2 .. n : mine[t][i] \in Nat
          /\ \A i \in 1 .. n - 1 : mine[t][i] \in Nat
      BY <3>1, ElementOfSeq
    <3> QED
      BY <3>1, <3>2, SubSeqProperties
  <2>5. RestPart(t)
    BY <1>1, <1>3, <2>3, <2>4 DEF ThrTypes, RestPart
  <2> QED
    BY <2>1, <2>2, <2>3, <2>5, IdleConsistent, Parts
<1> QED
  BY <1>2, <1>3 DEF reply_loop

LEMMA EventLoopStepped ==
    ASSUME ThrTypes, NEW t \in Thread, Me(t), event_loop(t)
    PROVE  Stepped(t)
<1>1. /\ pc[t] = "event_loop" /\ cv[t] = "none" /\ script[t] # <<>> /\ Op(t) = "event"
      /\ t \notin readers /\ UNCHANGED <<mine, readers, out_request>>
  BY DEF event_loop, At, Me, Consistent, outvars, Op
<1>2. CASE ret[t] /\ conn_wait(t, "event", FALSE) /\ UNCHANGED <<script, request>>
  <2>1. ConnWait(t, "event", FALSE)
    BY <1>2, ConnWaitPart DEF Waiting
  <2>2. ThrTypes' /\ Own(t)
    BY <1>1, <1>2, <2>1 DEF ThrTypes, Own, ConnWait
  <2>3. Me(t)'
    BY <1>1, <1>2, <2>1 DEF ConnWait, Me, Consistent, Op
  <2> QED
    BY <2>2, <2>3 DEF Stepped
<1>3. CASE /\ \E w \in wake_up_next_reader(readers) : Awake(w)
           /\ return(t) /\ UNCHANGED ret
  <2>1. WakePart(t)
    BY <1>1, <1>3, AwakePart
  <2>2. CallPart(t) /\ pc'[t] = "idle"
    BY <1>1, <1>3, ReturnPart
  <2>3. RestPart(t)
    BY <1>1, <1>3, RestKept
  <2> QED
    BY <1>1, <2>1, <2>2, <2>3, IdleConsistent, Parts
<1> QED
  BY <1>2, <1>3 DEF event_loop

LEMMA PollEventStepped ==
    ASSUME ThrTypes, NEW t \in Thread, Me(t), poll_event(t)
    PROVE  Stepped(t)
<1> USE DEF poll_event
<1>1. /\ cv[t] = "none" /\ t \notin readers /\ script[t] # <<>>
      /\ UNCHANGED <<mine, ret, readers, out_request>>
  BY DEF At, Me, Consistent
<1>2. CallPart(t) /\ pc'[t] = "idle"
  BY <1>1, ReturnPart
<1>3. WakePart(t)
  <2>1. UNCHANGED cv \/ \E n \in 0 .. Len(inbuf) : in_read(n)
    OBVIOUS
  <2> QED
    BY <1>1, <2>1, KeepPart, InReadPart
<1>4. RestPart(t)
  BY <1>1, RestKept
<1> QED
  BY <1>1, <1>2, <1>3, <1>4, IdleConsistent, Parts

LEMMA RequestCheckStepped ==
    ASSUME ThrTypes, NEW t \in Thread, Me(t), request_check(t)
    PROVE  Stepped(t)
<1>1. /\ pc[t] = "check" /\ cv[t] = "none" /\ t \notin readers /\ script[t] # <<>>
      /\ UNCHANGED <<mine, ret, readers, out_request, request, cv>> /\ goto(t, "idle")
  BY DEF request_check, Me, Consistent, outvars, ThrTypes, Waiting
<1>2. PICK calls \in Seq(Call) : script' = [script EXCEPT ![t] = calls \o Tail(@)]
  <2>1. <<"query", "sync_reply", "reply">> \in Seq(Call) /\ <<"reply">> \in Seq(Call)
    BY DEF Call
  <2> QED
    BY <2>1 DEF request_check
<1>3. calls \o Tail(script[t]) \in Seq(Call)
  BY <1>1, HeadTailProperties, ConcatProperties DEF ThrTypes
<1>4. CallPart(t) /\ pc'[t] = "idle"
  BY <1>1, <1>2, <1>3 DEF ThrTypes, CallPart, goto, Label
<1>5. WakePart(t) /\ RestPart(t)
  BY <1>1, KeepPart, RestKept
<1> QED
  BY <1>1, <1>4, <1>5, IdleConsistent, Parts

LEMMA ThreadStepped ==
    ASSUME ThrTypes, NEW t \in Thread, Me(t), ThreadStep(t)
    PROVE  Stepped(t)
BY CallStepped, RefuseStepped, PollStepped, PolledStepped, OutSendStepped, FlushStepped,
   FlushToStepped, FlushWaitStepped, SendWaitStepped, GetBackStepped, CallbackStepped,
   GotBackStepped, NumberStepped, TakeOwnStepped, WritevStepped, WaitForReplyStepped,
   ReplyAddStepped, ReplyLoopStepped, EventLoopStepped, PollEventStepped,
   RequestCheckStepped, Zenon
   DEF ThreadStep

\* Thread t's step leaves every thread consistent.
LEMMA AllStepped ==
    ASSUME ThrTypes, AllConsistent, NEW t \in Thread, Stepped(t)
    PROVE  ThrTypes' /\ AllConsistent'
<1>1. ASSUME NEW u \in Thread, u # t
      PROVE  Me(u)'
  <2>1. Me(u)
    BY DEF AllConsistent, Me
  <2>2. /\ pc'[u] = pc[u] /\ script'[u] = script[u] /\ mine'[u] = mine[u]
        /\ ret'[u] = ret[u] /\ (u \in readers' <=> u \in readers)
        /\ cv'[u] \in {cv[u], "none"}
    BY <1>1 DEF Stepped, Own
  <2> QED
    BY <2>1, <2>2 DEF Me, Consistent
<1>2. \A u \in Thread : Me(u)'
  BY <1>1 DEF Stepped
<1> QED
  BY <1>2 DEF Stepped, AllConsistent, Me
-----------------------------------------------------------------------------
(* Who attends to the socket                                               *)

Busy == {"out_send", "reply_loop", "event_loop"}

\* Thread t leaves the library, or goes on to another job, and wakes the next
\* reader.
Handed(t) ==
    /\ readers' \subseteq readers /\ t \notin readers'
    /\ \E w \in wake_up_next_reader(readers') : \E x \in SUBSET Thread : Awake(w \cup x)

\* What a step of thread t does to the reading job.
Shape(t) ==
    \/ /\ pc[t] \notin Polling \cup Busy /\ pc'[t] \notin Polling
       /\ cv'[t] \in {"none", "out", "socket"}
       /\ UNCHANGED <<reading, writing>>
    \/ /\ pc[t] \in Busy /\ pc'[t] = pc[t] /\ (reading > 0 \/ writing > 0)
       /\ UNCHANGED <<reading, writing>>
    \/ /\ pc[t] \in Busy /\ cv'[t] = "none" /\ reading' = reading + 1
       /\ \/ pc'[t] = "poll_read" /\ writing' = writing
          \/ pc'[t] = "poll_write" /\ writing' = writing + 1
    \/ /\ \/ pc[t] = "poll_read" /\ pc'[t] = "polled_read"
          \/ pc[t] = "poll_write" /\ pc'[t] = "polled_write"
       /\ cv'[t] = "none" /\ UNCHANGED <<reading, writing>>
    \/ /\ pc'[t] \in Busy /\ cv'[t] = "none" /\ reading' = reading - 1
       /\ \/ pc[t] = "polled_read" /\ writing' = writing
          \/ pc[t] = "polled_write" /\ writing' = writing - 1
    \/ /\ pc[t] \in Busy /\ pc'[t] \notin Polling
       /\ cv[t] = "none" /\ cv'[t] = "none"
       /\ UNCHANGED <<reading, writing>> /\ Handed(t)

\* A step outside the loops that read and write.
LEMMA QuietShape ==
    ASSUME NEW t \in Thread, pc[t] \notin Polling \cup Busy, pc'[t] \notin Polling,
           UNCHANGED <<reading, writing>>,
           WakePart(t) \/ cond_wait(t, "out") \/ cond_wait(t, "socket"),
           ThrTypes
    PROVE  Shape(t)
BY DEF Shape, WakePart, cond_wait, ThrTypes

LEMMA FlushStart ==
    ASSUME ThrTypes, NEW t \in Thread, NEW ok, AfterFlush(t, ok)
    PROVE  pc'[t] \notin Polling
BY DEF AfterFlush, Polling

LEMMA ConnWaitShape ==
    ASSUME ThrTypes, NEW t \in Thread, NEW c \in Waiting, NEW count \in BOOLEAN,
           conn_wait(t, c, count), pc[t] \in Busy, cv[t] = "none"
    PROVE  Shape(t)
<1>1. CASE (IF count THEN writing ELSE reading) > 0
  <2>1. pc'[t] = pc[t] /\ UNCHANGED <<reading, writing>>
    BY <1>1 DEF conn_wait
  <2>2. reading > 0 \/ writing > 0
    BY <1>1
  <2> QED
    BY <2>1, <2>2 DEF Shape
<1>2. CASE ~((IF count THEN writing ELSE reading) > 0)
  <2>1. /\ reading' = reading + 1 /\ writing' = IF count THEN writing + 1 ELSE writing
        /\ pc' = [pc EXCEPT ![t] = IF count THEN "poll_write" ELSE "poll_read"]
        /\ cv' = cv
    BY <1>2, Zenon DEF conn_wait, goto
  <2>2. cv'[t] = "none" /\ pc'[t] = IF count THEN "poll_write" ELSE "poll_read"
    BY <2>1 DEF ThrTypes
  <2> QED
    BY <2>1, <2>2 DEF Shape
<1> QED
  BY <1>1, <1>2

LEMMA ThreadShape ==
    ASSUME ThrTypes, NEW t \in Thread, Me(t), ThreadStep(t)
    PROVE  Shape(t)
<1>1. CASE call(t)
  <2>1. Op(t) \in Call
    BY <1>1, HeadTailProperties DEF ThrTypes, Op, call
  <2>2. entry[Op(t)] \notin Polling
    BY <2>1 DEF entry, Call, Polling
  <2>3. pc'[t] = entry[Op(t)]
    BY <1>1 DEF call, goto, ThrTypes
  <2>4. cv[t] = "none"
    BY <1>1 DEF Me, Consistent, ThrTypes, Waiting, call
  <2> QED
    BY <1>1, <2>2, <2>3, <2>4, KeepPart, QuietShape DEF call, Polling, Busy
<1>2. CASE refuse(t)
  <2>1. cv[t] = "none"
    BY <1>2 DEF Me, Consistent, ThrTypes, Waiting, refuse
  <2> QED
    BY <1>2, <2>1, KeepPart, QuietShape DEF refuse, Polling, Busy
<1>3. CASE poll(t)
  <2>1. cv[t] = "none"
    BY <1>3 DEF Me, Consistent, ThrTypes, Waiting, poll
  <2> QED
    BY <1>3, <2>1 DEF poll, goto, Shape, ThrTypes
<1>4. CASE polled(t)
  <2>1. PICK count \in BOOLEAN :
          /\ At(t, IF count THEN "polled_write" ELSE "polled_read")
          /\ writing' = IF count THEN writing - 1 ELSE writing
          /\ reading' = reading - 1
          /\ goto(t, IF count THEN "out_send"
                     ELSE IF Op(t) = "event" THEN "event_loop" ELSE "reply_loop")
          /\ (\E n \in 0 .. Len(inbuf) : in_read(n)) \/ cv' = cv
    BY <1>4 DEF polled
  <2>2. WakePart(t)
    BY <2>1, KeepPart, InReadPart DEF At
  <2>3. pc'[t] \in Busy
    BY <2>1 DEF goto, ThrTypes, Busy
  <2> QED
    BY <2>1, <2>2, <2>3 DEF At, Shape, WakePart
<1>5. CASE out_send(t)
  <2>1. /\ pc[t] = "out_send" /\ cv[t] = "none" /\ t \notin readers /\ script[t] # <<>>
        /\ readers' = readers
    BY <1>5 DEF out_send, At, Me, Consistent
  <2>2. CASE conn_wait(t, "out", TRUE)
    BY <2>1, <2>2, ConnWaitShape DEF Waiting, Busy
  <2>3. CASE /\ \E w \in wake_up_next_reader(readers) : Awake(w \cup Waiters("out"))
             /\ after_flush(t, ret[t]) /\ UNCHANGED <<reading, writing>>
    <3>1. Handed(t)
      BY <2>1, <2>3 DEF Handed, Waiters
    <3>2. WakePart(t)
      BY <2>1, <2>3, AwakePart
    <3>3. pc'[t] \notin Polling
      BY <2>1, <2>3, AfterFlushPart, FlushStart
    <3> QED
      BY <2>1, <2>3, <3>1, <3>2, <3>3 DEF Shape, WakePart, Busy
  <2> QED
    BY <1>5, <2>2, <2>3 DEF out_send
<1>6. CASE xcb_flush(t)
  BY <1>6, KeepPart, QuietShape DEF xcb_flush, At, goto, ThrTypes, Polling, Busy
<1>7. CASE flush_to(t)
  <2>1. /\ pc[t] = "flush_to" /\ cv[t] = "none" /\ script[t] # <<>>
        /\ UNCHANGED <<reading, writing>> /\ WakePart(t)
    BY <1>7, KeepPart DEF flush_to, At, Me, Consistent
  <2>2. CASE after_flush(t, TRUE)
    <3>1. pc'[t] \notin Polling
      BY <2>1, <2>2, AfterFlushPart, FlushStart
    <3> QED
      BY <2>1, <3>1, QuietShape DEF Polling, Busy
  <2>3. CASE proceed(t, "out_send") \/ proceed(t, "flush_wait")
    <3>1. pc'[t] \notin Polling
      BY <2>3 DEF proceed, goto, ThrTypes, Polling
    <3> QED
      BY <2>1, <3>1, QuietShape DEF Polling, Busy
  <2> QED
    BY <1>7, <2>2, <2>3 DEF flush_to
<1>8. CASE flush_wait(t)
  <2>1. /\ pc[t] = "flush_wait" /\ cv[t] = "none" /\ script[t] # <<>>
        /\ UNCHANGED <<reading, writing>>
    BY <1>8 DEF flush_wait, At, Me, Consistent
  <2>2. CASE cond_wait(t, "out") /\ UNCHANGED pc
    BY <2>1, <2>2, QuietShape DEF Polling, Busy
  <2>3. CASE after_flush(t, TRUE) /\ UNCHANGED cv
    <3>1. pc'[t] \notin Polling
      BY <2>1, <2>3, AfterFlushPart, FlushStart
    <3> QED
      BY <2>1, <2>3, <3>1, KeepPart, QuietShape DEF Polling, Busy
  <2> QED
    BY <1>8, <2>2, <2>3 DEF flush_wait
<1>9. CASE send_wait(t)
  <2>1. pc[t] = "send" /\ cv[t] = "none" /\ UNCHANGED <<reading, writing>>
    BY <1>9 DEF send_wait, At
  <2>2. CASE cond_wait(t, "out") /\ UNCHANGED pc
    BY <2>1, <2>2, QuietShape DEF Polling, Busy
  <2>3. CASE proceed(t, "get_back") /\ UNCHANGED cv
    <3>1. pc'[t] = "get_back"
      BY <2>3 DEF proceed, goto, ThrTypes
    <3> QED
      BY <2>1, <2>3, <3>1, KeepPart, QuietShape DEF Polling, Busy
  <2> QED
    BY <1>9, <2>2, <2>3 DEF send_wait
<1>10. CASE get_socket_back(t)
  <2>1. pc[t] = "get_back" /\ cv[t] = "none" /\ UNCHANGED <<reading, writing, script>>
    BY <1>10 DEF get_socket_back, At
  <2>2. CASE cond_wait(t, "socket") /\ UNCHANGED pc
    BY <2>1, <2>2, QuietShape DEF Polling, Busy
  <2>3. CASE (after_back(t) \/ return_socket(t)) /\ UNCHANGED cv
    <3>1. pc'[t] \in {"flush_to", "number", "callback"}
      BY <2>3 DEF after_back, return_socket, goto, ThrTypes
    <3> QED
      BY <2>1, <2>3, <3>1, KeepPart, QuietShape DEF Polling, Busy
  <2> QED
    BY <1>10, <2>2, <2>3 DEF get_socket_back
<1>11. CASE callback(t)
  <2>1. cv[t] = "none"
    BY <1>11 DEF Me, Consistent, ThrTypes, Waiting, callback
  <2> QED
    BY <1>11, <2>1, KeepPart, QuietShape DEF callback, goto, ThrTypes, Polling, Busy
<1>12. CASE got_back(t)
  <2>1. pc[t] = "got_back" /\ cv[t] = "none" /\ UNCHANGED <<reading, writing>>
    BY <1>12 DEF got_back, At
  <2>2. WakePart(t)
    BY <1>12, <2>1, AwakePart DEF got_back
  <2>3. pc'[t] \in {"flush_to", "number"}
    BY <1>12 DEF got_back, after_back, goto, ThrTypes
  <2> QED
    BY <2>1, <2>2, <2>3, QuietShape DEF Polling, Busy
<1>13. CASE number(t) \/ take_own(t) \/ xcb_writev(t) \/ xcb_wait_for_reply(t) \/ reply_add(t)
  <2>1. /\ pc[t] \in {"number", "take_own", "writev", "reply", "reply_add"}
        /\ cv[t] = "none" /\ cv' = cv /\ UNCHANGED <<reading, writing>>
    BY <1>13 DEF number, take_own, xcb_writev, xcb_wait_for_reply, reply_add, At
  <2>2. pc'[t] \in {"idle", "out_send", "reply_add", "flush_to", "reply_loop"}
    BY <1>13 DEF number, take_own, xcb_writev, xcb_wait_for_reply, reply_add, return,
                 proceed, goto, ThrTypes
  <2> QED
    BY <2>1, <2>2, KeepPart, QuietShape DEF Polling, Busy
<1>14. CASE reply_loop(t)
  <2>1. pc[t] = "reply_loop" /\ cv[t] = "none"
    BY <1>14 DEF reply_loop, At
  <2>2. CASE conn_wait(t, "reader", FALSE)
    BY <2>1, <2>2, ConnWaitShape DEF Waiting, Busy
  <2>3. CASE /\ readers' = readers_without(t)
             /\ \E w \in wake_up_next_reader(readers') : Awake(w)
             /\ return(t) /\ UNCHANGED <<reading, writing>>
    <3>1. PICK w \in wake_up_next_reader(readers') : Awake(w)
      BY <2>3
    <3>2. w \cup {} = w
      OBVIOUS
    <3>3. Handed(t)
      BY <2>3, <3>1, <3>2 DEF Handed, readers_without
    <3>4. WakePart(t)
      BY <2>1, <3>1, AwakePart
    <3>5. pc'[t] = "idle"
      BY <2>3 DEF return, goto, ThrTypes
    <3> QED
      BY <2>1, <2>3, <3>3, <3>4, <3>5 DEF Shape, WakePart, Busy, Polling
  <2> QED
    BY <1>14, <2>2, <2>3 DEF reply_loop
<1>15. CASE event_loop(t)
  <2>1. pc[t] = "event_loop" /\ cv[t] = "none" /\ t \notin readers /\ readers' = readers
    BY <1>15 DEF event_loop, At, Me, Consistent, Replying
  <2>2. CASE conn_wait(t, "event", FALSE)
    BY <2>1, <2>2, ConnWaitShape DEF Waiting, Busy
  <2>3. CASE /\ \E w \in wake_up_next_reader(readers) : Awake(w)
             /\ return(t) /\ UNCHANGED <<reading, writing>>
    <3>1. PICK w \in wake_up_next_reader(readers) : Awake(w)
      BY <2>3
    <3>2. w \cup {} = w
      OBVIOUS
    <3>3. Handed(t)
      BY <2>1, <2>3, <3>1, <3>2 DEF Handed
    <3>4. WakePart(t)
      BY <2>1, <3>1, AwakePart
    <3>5. pc'[t] = "idle"
      BY <2>3 DEF return, goto, ThrTypes
    <3> QED
      BY <2>1, <2>3, <3>3, <3>4, <3>5 DEF Shape, WakePart, Busy, Polling
  <2> QED
    BY <1>15, <2>2, <2>3 DEF event_loop
<1>16. CASE poll_event(t)
  <2>1. pc[t] = "poll_event" /\ cv[t] = "none" /\ UNCHANGED <<reading, writing>>
    BY <1>16 DEF poll_event, At
  <2>2. cv' = cv \/ \E n \in 0 .. Len(inbuf) : in_read(n)
    BY <1>16 DEF poll_event
  <2>3. WakePart(t)
    BY <2>1, <2>2, KeepPart, InReadPart
  <2>4. pc'[t] = "idle"
    BY <1>16 DEF poll_event, return, goto, ThrTypes
  <2> QED
    BY <2>1, <2>3, <2>4, QuietShape DEF Polling, Busy
<1>17. CASE request_check(t)
  <2>1. cv[t] = "none"
    BY <1>17 DEF Me, Consistent, ThrTypes, Waiting, request_check
  <2> QED
    BY <1>17, <2>1, KeepPart, QuietShape DEF request_check, goto, ThrTypes, Polling, Busy
<1> QED
  BY <1>1, <1>2, <1>3, <1>4, <1>5, <1>6, <1>7, <1>8, <1>9, <1>10, <1>11, <1>12, <1>13,
     <1>14, <1>15, <1>16, <1>17, Zenon DEF ThreadStep
-----------------------------------------------------------------------------
(* The invariant is kept                                                   *)

LEMMA CountedStep ==
    ASSUME ThrTypes, Counted, NEW t \in Thread, Stepped(t), Shape(t)
    PROVE  Counted'
<1> DEFINE W == {"poll_write", "polled_write"}
<1>1. Moved(pc, pc', t)
  BY DEF Stepped, Own, Moved
<1>3. /\ Cardinality(In(pc, Polling)) \in Nat /\ Cardinality(In(pc, W)) \in Nat
  BY InFinite
<1>4. /\ Cardinality(In(pc', Polling)) =
              IF pc[t] \in Polling
              THEN IF pc'[t] \in Polling THEN reading ELSE reading - 1
              ELSE IF pc'[t] \in Polling THEN reading + 1 ELSE reading
      /\ reading \in Nat
  BY <1>1, <1>3, CountMove DEF Counted
<1>5. /\ Cardinality(In(pc', W)) =
              IF pc[t] \in W
              THEN IF pc'[t] \in W THEN writing ELSE writing - 1
              ELSE IF pc'[t] \in W THEN writing + 1 ELSE writing
      /\ writing \in Nat
  BY <1>1, <1>3, CountMove DEF Counted
<1>6. reading' = Cardinality(In(pc', Polling))
  BY <1>4 DEF Shape, Polling, Busy
<1>7. writing' = Cardinality(In(pc', W))
  BY <1>5 DEF Shape, Polling, Busy
<1> QED
  BY <1>6, <1>7 DEF Counted, In

\* Somebody is in poll() while c->in.reading or c->out.writing says so.
LEMMA PollerAttends ==
    ASSUME ThrTypes, AllConsistent, Counted, reading > 0 \/ writing > 0
    PROVE  \E u \in Thread : pc[u] \in Polling /\ Attending(u)
<1>1. \E u \in Thread : pc[u] \in Polling
  BY InFinite DEF Counted, Polling
<1>2. PICK u \in Thread : pc[u] \in Polling
  BY <1>1
<1>3. cv[u] = "none"
  BY <1>2 DEF AllConsistent, Consistent, ThrTypes, Waiting, Polling
<1> QED
  BY <1>2, <1>3 DEF Attending

\* The next reader, or a thread that waits for an event, takes over.
LEMMA NextAttends ==
    ASSUME ThrTypes, AllConsistent, NEW t \in Thread, Stepped(t), cv[t] = "none",
           cv'[t] = "none", Handed(t), NEW u \in Thread, cv'[u] \in {"reader", "event"}
    PROVE  \E v \in Thread : Attending(v)'
<1>1. PICK w \in wake_up_next_reader(readers') : \E x \in SUBSET Thread : Awake(w \cup x)
  BY DEF Handed
<1>2. \A v \in w : v \in Thread => cv'[v] = "none"
  BY <1>1 DEF Awake
<1>3. u # t /\ cv'[u] = cv[u]
  BY DEF Stepped, Own
<1>4. Me(u)' /\ Me(u)
  BY AllStepped DEF AllConsistent, Me
<1>5. CASE readers' # {}
  <2> DEFINE v == FirstReader(readers')
  <2>1. v \in readers' /\ v \in Thread /\ v \in readers /\ v # t
    BY <1>5, FirstReaderIn DEF ThrTypes, Handed
  <2>2. w = IF cv[v] = "reader" THEN {v} ELSE {}
    BY <1>5 DEF wake_up_next_reader
  <2> HIDE DEF v
  <2>3. pc[v] \in {"reply_loop", "poll_read", "polled_read"}
    BY <2>1 DEF AllConsistent, Consistent
  <2>4. cv[v] \in {"none", "reader"}
    BY <2>1, <2>3 DEF AllConsistent, Consistent, ThrTypes, Waiting
  <2>5. pc'[v] = pc[v] /\ cv'[v] \in {cv[v], "none"}
    BY <2>1 DEF Stepped, Own
  <2>6. cv'[v] = "none"
    BY <1>2, <2>1, <2>2, <2>4, <2>5
  <2> QED
    BY <2>1, <2>3, <2>5, <2>6 DEF Attending, Polling
<1>6. CASE readers' = {}
  <2>1. cv[u] = "event"
    BY <1>3, <1>4, <1>6 DEF Me, Consistent
  <2>2. w \in {{v} : v \in Waiters("event")}
    BY <1>6, <2>1 DEF wake_up_next_reader, Signal1, Waiters
  <2>3. PICK v \in Thread : cv[v] = "event" /\ w = {v}
    BY <2>2 DEF Waiters
  <2>4. v # t /\ pc[v] = "event_loop"
    BY <2>3 DEF AllConsistent, Consistent
  <2>5. pc'[v] = pc[v] /\ cv'[v] = "none"
    BY <1>2, <2>3, <2>4 DEF Stepped, Own
  <2> QED
    BY <2>4, <2>5 DEF Attending
<1> QED
  BY <1>5, <1>6

LEMMA OrphansStep ==
    ASSUME ThrTypes, AllConsistent, Counted, NoOrphans, NEW t \in Thread, Stepped(t),
           Shape(t)
    PROVE  NoOrphans'
<1> SUFFICES ASSUME NEW u \in Thread, cv'[u] \in {"reader", "event"}
             PROVE  \E v \in Thread : Attending(v)'
  BY DEF NoOrphans
<1>1. \A v \in Thread \ {t} : Attending(v) => Attending(v)'
  BY DEF Stepped, Own, Attending
<1>2. u # t => \E v \in Thread : Attending(v)
  BY DEF NoOrphans, Stepped, Own
<1>4. CASE pc[t] \in Busy /\ pc'[t] = pc[t] /\ (reading > 0 \/ writing > 0)
  <2>1. PICK v \in Thread : pc[v] \in Polling /\ Attending(v)
    BY <1>4, PollerAttends
  <2>2. v # t
    BY <1>4, <2>1 DEF Polling, Busy
  <2> QED
    BY <1>1, <2>1, <2>2
<1>5. CASE pc[t] \in Busy /\ cv[t] = "none" /\ cv'[t] = "none" /\ Handed(t)
  BY <1>5, NextAttends
<1>6. CASE pc'[t] \in Busy \cup Polling /\ cv'[t] = "none"
  BY <1>6 DEF Attending, Busy
<1>7. CASE /\ pc[t] \notin Polling \cup Busy /\ cv'[t] \in {"none", "out", "socket"}
  <2>1. u # t /\ ~Attending(t)
    BY <1>7 DEF Attending, Busy
  <2> QED
    BY <1>1, <1>2, <2>1
<1> QED
  BY <1>4, <1>5, <1>6, <1>7 DEF Shape, Polling

\* What a step of thread t does to the replies that have been read.
StoredShape(t) ==
    /\ stored' \subseteq stored \/ \E n \in 0 .. Len(inbuf) : in_read(n)
    /\ cv'[t] = "reader" => request'[t] \notin stored'

LEMMA ThreadStoredShape ==
    ASSUME ThrTypes, NEW t \in Thread, Me(t), ThreadStep(t)
    PROVE  StoredShape(t)
<1>1. CASE polled(t)
  <2>1. (\E n \in 0 .. Len(inbuf) : in_read(n)) \/ UNCHANGED <<stored, cv>>
    BY <1>1 DEF polled, invars
  <2>2. cv[t] = "none"
    BY <1>1 DEF polled, At
  <2>3. cv'[t] = "none"
    BY <2>1, <2>2, InReadPart DEF WakePart
  <2> QED
    BY <2>1, <2>3 DEF StoredShape
<1>2. CASE poll_event(t)
  <2>1. (\E n \in 0 .. Len(inbuf) : in_read(n)) \/ UNCHANGED <<stored, cv>>
    BY <1>2 DEF poll_event
  <2>2. cv[t] = "none"
    BY <1>2 DEF poll_event, At
  <2>3. cv'[t] = "none"
    BY <2>1, <2>2, InReadPart DEF WakePart
  <2> QED
    BY <2>1, <2>3 DEF StoredShape
<1>3. CASE reply_loop(t)
  <2>1. CASE ~answered(request[t]) /\ UNCHANGED <<request, stored>>
    BY <2>1 DEF answered, StoredShape
  <2>2. CASE /\ stored' = IF ret[t] THEN stored \ {request[t]} ELSE stored
             /\ \E w \in wake_up_next_reader(readers') : Awake(w)
    <3>1. cv'[t] = "none"
      BY <1>3, <2>2, AwakePart DEF WakePart, reply_loop, At
    <3> QED
      BY <2>2, <3>1 DEF StoredShape
  <2> QED
    BY <1>3, <2>1, <2>2 DEF reply_loop
<1>4. CASE ~polled(t) /\ ~poll_event(t) /\ ~reply_loop(t)
  <2>1. stored' = stored
    BY <1>4 DEF ThreadStep, call, refuse, poll, out_send, xcb_flush, flush_to, flush_wait,
          send_wait, get_socket_back, callback, got_back, number, take_own, xcb_writev,
          xcb_wait_for_reply, reply_add, event_loop, request_check, invars
  <2>2. cv'[t] # "reader"
    <3>1. pc[t] # "reply_loop"
      BY <1>4 DEF ThreadStep, call, refuse, poll, out_send, xcb_flush, flush_to,
            flush_wait, send_wait, get_socket_back, callback, got_back, number, take_own,
            xcb_writev, xcb_wait_for_reply, reply_add, event_loop, request_check, At
    <3>2. cv'[t] = "reader" => pc'[t] = "reply_loop"
      BY ThreadStepped DEF Stepped, Me, Consistent
    <3> QED
      BY <3>1, <3>2, ThreadShape DEF Shape
  <2> QED
    BY <2>1, <2>2 DEF StoredShape
<1> QED
  BY <1>1, <1>2, <1>3, <1>4

LEMMA WakesStep ==
    ASSUME ThrTypes, AllConsistent, ReplyWakesReader, NEW t \in Thread, Stepped(t),
           StoredShape(t)
    PROVE  ReplyWakesReader'
<1> SUFFICES ASSUME NEW u \in Thread, cv'[u] = "reader"
             PROVE  request'[u] \notin stored'
  BY DEF ReplyWakesReader
<1>1. CASE u = t
  BY <1>1 DEF StoredShape
<1>2. CASE u # t
  <2>1. request'[u] = request[u] /\ cv[u] = "reader" /\ u \in readers
    BY <1>2 DEF Stepped, Own, AllConsistent, Consistent
  <2>2. request[u] \notin stored
    BY <2>1 DEF ReplyWakesReader
  <2>3. ASSUME NEW n \in 0 .. Len(inbuf), in_read(n)
        PROVE  request[u] \notin stored'
    <3>1. PICK w \in wake_event_waiters(n) : Awake(w \cup wake_readers(n))
      BY <2>3, Zenon DEF in_read
    <3>2. u \notin wake_readers(n)
      BY <3>1 DEF Awake
    <3>3. ~\E p \in Took(n) : p.type = "reply" /\ p.of = request[u]
      BY <2>1, <3>2 DEF wake_readers
    <3>4. stored' = stored \cup {p.of : p \in {q \in Took(n) : q.type = "reply"}}
      BY <2>3, Zenon DEF in_read
    <3> QED
      BY <2>2, <3>3, <3>4
  <2> QED
    BY <2>1, <2>2, <2>3 DEF StoredShape
<1> QED
  BY <1>1, <1>2

LEMMA ThreadInvStep ==
    ASSUME ThreadInv, NEW t \in Thread, ThreadStep(t)
    PROVE  ThreadInv'
<1>1. Me(t)
  BY DEF ThreadInv, AllConsistent, Me
<1>2. Stepped(t) /\ Shape(t) /\ StoredShape(t)
  BY <1>1, ThreadStepped, ThreadShape, ThreadStoredShape DEF ThreadInv
<1>3. ThrTypes' /\ AllConsistent'
  BY <1>2, AllStepped DEF ThreadInv
<1>4. Counted' /\ NoOrphans' /\ ReplyWakesReader'
  BY <1>2, CountedStep, OrphansStep, WakesStep DEF ThreadInv
<1> QED
  BY <1>3, <1>4 DEF ThreadInv

\* The steps of the server, and stuttering, leave the threads alone.
LEMMA ThreadInvKept ==
    ASSUME ThreadInv, UNCHANGED <<thrvars, reading, writing, readers, out_request, stored>>
    PROVE  ThreadInv'
<1>1. /\ UNCHANGED <<pc, script, mine, request, ret, cv>>
      /\ UNCHANGED <<reading, writing, readers, out_request, stored>>
  BY DEF thrvars
<1>2. ThrTypes' /\ AllConsistent'
  BY <1>1 DEF ThreadInv, ThrTypes, AllConsistent
<1>3. Counted' /\ ReplyWakesReader'
  BY <1>1 DEF ThreadInv, Counted, In, ReplyWakesReader
<1>4. NoOrphans'
  BY <1>1 DEF ThreadInv, NoOrphans, Attending
<1> QED
  BY <1>2, <1>3, <1>4 DEF ThreadInv

\* The requests sent before are finitely many.
LEMMA IssuedFinite ==
    ASSUME NEW p \in Programs
    PROVE  Cardinality(AllIssued(p)) \in Nat
<1> DEFINE Of(t) == {p.issued[t][i] : i \in DOMAIN p.issued[t]}
<1>1. p.issued \in [Thread -> Seq(Nat)]
  BY ThreadsAssumption DEF Program
<1>2. ASSUME NEW t \in Thread PROVE IsFiniteSet(Of(t))
  <2>1. p.issued[t] \in Seq(Nat)
    BY <1>1
  <2>2. DOMAIN p.issued[t] = 1 .. Len(p.issued[t]) /\ Len(p.issued[t]) \in Nat
    BY <2>1, LenProperties
  <2>3. IsFiniteSet(DOMAIN p.issued[t])
    BY <2>2, FS_Interval
  <2> DEFINE f == [i \in DOMAIN p.issued[t] |-> p.issued[t][i]]
  <2>4. f \in Surjection(DOMAIN p.issued[t], Of(t))
    BY DEF Surjection
  <2> QED
    BY <2>3, <2>4, FS_Surjection
<1>3. IsFiniteSet({Of(t) : t \in Thread})
  <2> DEFINE f == [t \in Thread |-> Of(t)]
  <2>1. f \in Surjection(Thread, {Of(t) : t \in Thread})
    BY DEF Surjection
  <2> QED
    BY <2>1, ThreadsAssumption, FS_Surjection
<1>4. IsFiniteSet(UNION {Of(t) : t \in Thread})
  BY <1>2, <1>3, FS_UNION
<1> QED
  BY <1>4, FS_CardinalityType DEF AllIssued

LEMMA ThreadInvInit ==
    ASSUME Init
    PROVE  ThreadInv
<1>1. /\ prog \in Programs /\ pc = [t \in Thread |-> "idle"]
      /\ cv = [t \in Thread |-> "none"] /\ script = prog.script /\ mine = prog.issued
      /\ request = [t \in Thread |-> 0] /\ ret = [t \in Thread |-> TRUE]
      /\ readers = {} /\ out_request = Cardinality(AllIssued(prog))
      /\ reading = 0 /\ writing = 0 /\ stored = {}
  BY DEF Init
<1>2. prog.script \in [Thread -> Seq(Call)] /\ prog.issued \in [Thread -> Seq(Nat)]
  BY <1>1, ThreadsAssumption DEF Program
<1>3. ThrTypes
  BY <1>1, <1>2, IssuedFinite DEF ThrTypes, Label, Waiting
<1>4. AllConsistent
  BY <1>1 DEF AllConsistent, Consistent
<1>5. Counted
  <2>1. In(pc, Polling) = {} /\ In(pc, {"poll_write", "polled_write"}) = {}
    BY <1>1 DEF In, Polling
  <2> QED
    BY <1>1, <2>1, FS_EmptySet DEF Counted
<1>6. NoOrphans /\ ReplyWakesReader
  BY <1>1 DEF NoOrphans, ReplyWakesReader
<1> QED
  BY <1>3, <1>4, <1>5, <1>6 DEF ThreadInv

LEMMA ThreadInvNext ==
    ASSUME ThreadInv, [Next]_vars
    PROVE  ThreadInv'
<1>1. CASE \E t \in Thread : ThreadStep(t)
  BY <1>1, ThreadInvStep
<1>2. CASE serve \/ send_event \/ close \/ UNCHANGED vars
  <2>1. UNCHANGED <<thrvars, reading, writing, readers, out_request, stored>>
    BY <1>2 DEF serve, send_event, close, vars, outvars, invars
  <2> QED
    BY <2>1, ThreadInvKept
<1> QED
  BY <1>1, <1>2 DEF Next

\* ThreadInv is an invariant: each thread waits only where the code does,
\* c->in.reading and c->out.writing count the threads in poll(), and the list
\* of readers is what xcb_wait_for_reply says it is.
THEOREM ThreadsConsistent == Spec => []ThreadInv
<1>1. Init => ThreadInv
  BY ThreadInvInit
<1>2. ThreadInv /\ [Next]_vars => ThreadInv'
  BY ThreadInvNext
<1> QED
  BY <1>1, <1>2, PTL DEF Spec

\* A thread that waits for a reply or an event on its condition variable is
\* never left alone: whoever leaves _xcb_conn_wait's loops or _xcb_out_send
\* hands the job over with _xcb_in_wake_up_next_reader, for any number of
\* threads, any calls and any behaviour of the server.
THEOREM NobodyOrphaned == Spec => []NoOrphans
<1>1. ThreadInv => NoOrphans
  BY DEF ThreadInv
<1> QED
  BY <1>1, ThreadsConsistent, PTL

\* No thread sleeps on a reply that has been read: read_packet signals the
\* reader whose request a reply is for, whichever thread reads it.
THEOREM RepliesWakeReaders == Spec => []ReplyWakesReader
<1>1. ThreadInv => ReplyWakesReader
  BY DEF ThreadInv
<1> QED
  BY <1>1, ThreadsConsistent, PTL
-----------------------------------------------------------------------------
(* Each request is in one place                                            *)

\* s holds different requests, none above n; s and r have none in common.
Requests(s, n) ==
    /\ s \in Seq(Nat) /\ \A i \in 1 .. Len(s) : s[i] \in 1 .. n
    /\ \A i, j \in 1 .. Len(s) : s[i] = s[j] => i = j
Apart(s, r) == \A i \in 1 .. Len(s), j \in 1 .. Len(r) : s[i] # r[j]

\* A request is in the queue q, on the wire w, or in the hands v[t] of a thread.
Places(q, w, v, n) ==
    /\ n \in Nat /\ v \in [Thread -> Seq(Nat)]
    /\ Requests(q, n) /\ Requests(w, n) /\ Apart(q, w)
    /\ \A t \in Thread : Requests(v[t], n) /\ Apart(q, v[t]) /\ Apart(w, v[t])
    /\ \A t, u \in Thread : t # u => Apart(v[t], v[u])

Polls == {"poll_write", "polled_write"}
OneWriter == \A t, u \in Thread : pc[t] \in Polls /\ pc[u] \in Polls => t = u

\* Room that poll() has found is not used by another thread.
RoomKept ==
    /\ revents \in [Thread -> SUBSET {"IN", "OUT", "HUP"}]
    /\ \A t \in Thread : "OUT" \in revents[t] => pc[t] = "polled_write" /\ Writable

Response(n) == [type : {"reply"}, of : 1 .. n] \cup [type : {"event"}, of : 0 .. n]

Received ==
    /\ served \in 0 .. Len(wire) /\ inbuf \in Seq(Response(out_request))
    /\ request_read \in 0 .. out_request /\ request_expected \in 0 .. out_request
    /\ stored \subseteq 1 .. out_request

Asked ==
    /\ request_written \in 0 .. out_request
    /\ \A t \in Thread : request[t] \in 0 .. out_request
    /\ \A t \in Thread : \A i \in 1 .. Len(mine[t]) : mine[t][i] \in 1 .. out_request

\* The inductive invariant behind the bounds of ThreadsTypeOK.
NumberInv ==
    /\ prog \in Programs /\ lock \in Thread \cup {NoThread}
    /\ Places(queue, wire, vec, out_request)
    /\ OneWriter /\ RoomKept /\ Received /\ Asked

\* The lemmas on Places: a thread drops what it has,
LEMMA PlacesDropped ==
    ASSUME NEW q, NEW w, NEW v, NEW n, Places(q, w, v, n), NEW t \in Thread
    PROVE  Places(q, w, [v EXCEPT ![t] = <<>>], n)
<1> DEFINE v2 == [v EXCEPT ![t] = <<>>]
<1>1. v2 \in [Thread -> Seq(Nat)] /\ v2[t] = <<>> /\ \A u \in Thread \ {t} : v2[u] = v[u]
  BY DEF Places
<1>2. <<>> \in Seq(Nat) /\ Len(<<>>) = 0
  OBVIOUS
<1>3. Requests(<<>>, n) /\ \A s : Apart(s, <<>>) /\ Apart(<<>>, s)
  BY <1>2 DEF Requests, Apart
<1> HIDE DEF v2
<1>4. \A u \in Thread : Requests(v2[u], n) /\ Apart(q, v2[u]) /\ Apart(w, v2[u])
  BY <1>1, <1>3 DEF Places
<1>5. \A a, b \in Thread : a # b => Apart(v2[a], v2[b])
  BY <1>1, <1>3 DEF Places
<1> QED
  BY <1>1, <1>4, <1>5 DEF Places, v2

\* takes the queue,
LEMMA PlacesTaken ==
    ASSUME NEW q, NEW w, NEW v, NEW n, Places(q, w, v, n), NEW t \in Thread
    PROVE  Places(<<>>, w, [v EXCEPT ![t] = q], n)
<1> DEFINE v2 == [v EXCEPT ![t] = q]
<1>1. v2 \in [Thread -> Seq(Nat)] /\ v2[t] = q /\ \A u \in Thread \ {t} : v2[u] = v[u]
  BY DEF Places, Requests
<1>2. <<>> \in Seq(Nat) /\ Len(<<>>) = 0
  OBVIOUS
<1>3. Requests(<<>>, n) /\ \A s : Apart(s, <<>>) /\ Apart(<<>>, s)
  BY <1>2 DEF Requests, Apart
<1>4. \A s, r : Apart(s, r) => Apart(r, s)
  BY DEF Apart
<1> HIDE DEF v2
<1>5. \A u \in Thread : Requests(v2[u], n) /\ Apart(<<>>, v2[u]) /\ Apart(w, v2[u])
  BY <1>1, <1>3, <1>4 DEF Places
<1>6. ASSUME NEW a \in Thread, NEW b \in Thread, a # b PROVE Apart(v2[a], v2[b])
  <2>1. CASE a = t
    <3>1. v2[a] = q /\ v2[b] = v[b]
      BY <1>1, <1>6, <2>1
    <3> QED
      BY <3>1 DEF Places
  <2>2. CASE b = t
    <3>1. v2[b] = q /\ v2[a] = v[a]
      BY <1>1, <1>6, <2>2
    <3> QED
      BY <1>4, <3>1 DEF Places
  <2>3. CASE a # t /\ b # t
    BY <1>1, <1>6, <2>3 DEF Places
  <2> QED
    BY <2>1, <2>2, <2>3
<1> QED
  BY <1>1, <1>3, <1>5, <1>6 DEF Places, v2

\* a new request is numbered and goes to the queue,
LEMMA RequestsMore ==
    ASSUME NEW n \in Nat, NEW s, Requests(s, n)
    PROVE  Requests(s, n + 1)
<1>1. \A i \in 1 .. n : i \in 1 .. n + 1
  OBVIOUS
<1> QED
  BY <1>1 DEF Requests

LEMMA PlacesQueued ==
    ASSUME NEW q, NEW w, NEW v, NEW n, Places(q, w, v, n)
    PROVE  Places(Append(q, n + 1), w, v, n + 1)
<1>1. n \in Nat /\ n + 1 \in Nat /\ q \in Seq(Nat) /\ Len(q) \in Nat
  BY LenProperties DEF Places, Requests
<1>2. PICK r : r = Append(q, n + 1)
  OBVIOUS
<1>3. /\ r \in Seq(Nat) /\ Len(r) = Len(q) + 1
      /\ \A i \in 1 .. Len(q) : r[i] = q[i]
      /\ r[Len(q) + 1] = n + 1
  BY <1>1, <1>2, AppendProperties
<1>4. \A i \in 1 .. Len(r) : i \in 1 .. Len(q) \/ i = Len(q) + 1
  BY <1>1, <1>3
<1>5. \A i \in 1 .. n : i \in 1 .. n + 1 /\ i # n + 1
  BY <1>1
<1>6. n + 1 \in 1 .. n + 1
  BY <1>1
<1>7. Requests(r, n + 1)
  <2>1. \A i \in 1 .. Len(q) : q[i] \in 1 .. n
    BY DEF Places, Requests
  <2>2. \A i \in 1 .. Len(r) : r[i] \in 1 .. n + 1
    BY <1>3, <1>4, <1>5, <1>6, <2>1
  <2>3. \A i, j \in 1 .. Len(r) : r[i] = r[j] => i = j
    BY <1>3, <1>4, <1>5, <2>1 DEF Places, Requests
  <2> QED
    BY <1>3, <2>2, <2>3 DEF Requests
<1>8. ASSUME NEW s, Requests(s, n), Apart(q, s) PROVE Apart(r, s)
  BY <1>3, <1>4, <1>5, <1>8 DEF Apart, Requests
<1> QED
  BY <1>1, <1>2, <1>7, <1>8, RequestsMore DEF Places

\* or to the hands of a thread,
LEMMA PlacesNew ==
    ASSUME NEW q, NEW w, NEW v, NEW n, Places(q, w, v, n), NEW t \in Thread
    PROVE  Places(q, w, [v EXCEPT ![t] = <<n + 1>>], n + 1)
<1> DEFINE v2 == [v EXCEPT ![t] = <<n + 1>>]
<1>1. n \in Nat /\ n + 1 \in Nat
  BY DEF Places
<1>2. PICK r : r = <<n + 1>>
  OBVIOUS
<1>3. r \in Seq(Nat) /\ Len(r) = 1 /\ r[1] = n + 1
  BY <1>1, <1>2
<1>4. \A i \in 1 .. n : i \in 1 .. n + 1 /\ i # n + 1
  BY <1>1
<1>5. \A i \in 1 .. Len(r) : i = 1
  BY <1>3
<1>6. Requests(r, n + 1)
  <2>1. n + 1 \in 1 .. n + 1
    BY <1>1
  <2> QED
    BY <1>3, <1>5, <2>1 DEF Requests
<1>7. ASSUME NEW s, Requests(s, n) PROVE Apart(s, r) /\ Apart(r, s)
  BY <1>3, <1>4, <1>5, <1>7 DEF Apart, Requests
<1>8. v2 \in [Thread -> Seq(Nat)] /\ v2[t] = r /\ \A u \in Thread \ {t} : v2[u] = v[u]
  BY <1>2, <1>3 DEF Places
<1> HIDE DEF v2
<1>9. \A u \in Thread : Requests(v2[u], n + 1) /\ Apart(q, v2[u]) /\ Apart(w, v2[u])
  BY <1>1, <1>6, <1>7, <1>8, RequestsMore DEF Places
<1>10. ASSUME NEW a \in Thread, NEW b \in Thread, a # b PROVE Apart(v2[a], v2[b])
  <2>1. CASE a = t
    <3>1. v2[a] = r /\ v2[b] = v[b] /\ Requests(v[b], n)
      BY <1>8, <1>10, <2>1 DEF Places
    <3> QED
      BY <1>7, <3>1
  <2>2. CASE b = t
    <3>1. v2[b] = r /\ v2[a] = v[a] /\ Requests(v[a], n)
      BY <1>8, <1>10, <2>2 DEF Places
    <3> QED
      BY <1>7, <3>1
  <2>3. CASE a # t /\ b # t
    BY <1>8, <1>10, <2>3 DEF Places
  <2> QED
    BY <2>1, <2>2, <2>3
<1> QED
  BY <1>1, <1>8, <1>9, <1>10, RequestsMore DEF Places, v2

\* and some of what a thread has is written.
LEMMA PlacesWritten ==
    ASSUME NEW q, NEW w, NEW v, NEW n, Places(q, w, v, n), NEW t \in Thread,
           NEW m \in 0 .. Len(v[t])
    PROVE  LET w2 == w \o SubSeq(v[t], 1, m)
           IN  /\ Len(w) \in Nat /\ Len(w2) \in Nat /\ Len(w) <= Len(w2)
               /\ Places(q, w2, [v EXCEPT ![t] = SubSeq(@, m + 1, Len(@))], n)
<1>1. PICK x : x = v[t]
  OBVIOUS
<1>2. /\ n \in Nat /\ w \in Seq(Nat) /\ x \in Seq(Nat) /\ Len(w) \in Nat /\ Len(x) \in Nat
      /\ m \in Nat /\ m <= Len(x)
  BY <1>1, LenProperties DEF Places, Requests
<1>3. \A i \in 1 .. Len(x) : x[i] \in Nat
  BY <1>2, ElementOfSeq
<1>4. PICK p : p = SubSeq(x, 1, m)
  OBVIOUS
<1>5. PICK r : r = SubSeq(x, m + 1, Len(x))
  OBVIOUS
<1>6. p \in Seq(Nat) /\ Len(p) = m /\ \A i \in 1 .. m : p[i] = x[i]
  BY <1>2, <1>3, <1>4, SubSeqProperties
<1>7. r \in Seq(Nat) /\ Len(r) = Len(x) - m /\ \A i \in 1 .. Len(x) - m : r[i] = x[m + i]
  BY <1>2, <1>3, <1>5, SubSeqProperties
<1>8. PICK w2 : w2 = w \o p
  OBVIOUS
<1>9. /\ w2 \in Seq(Nat) /\ Len(w2) = Len(w) + m
      /\ \A i \in 1 .. Len(w) + m : w2[i] = IF i <= Len(w) THEN w[i] ELSE p[i - Len(w)]
  BY <1>2, <1>6, <1>8, ConcatProperties
<1>10. ASSUME NEW i \in 1 .. Len(w2)
       PROVE  \/ i \in 1 .. Len(w) /\ w2[i] = w[i]
              \/ i - Len(w) \in 1 .. m /\ i - Len(w) \in 1 .. Len(x) /\ w2[i] = x[i - Len(w)]
  <2>1. CASE i <= Len(w)
    BY <1>2, <1>9, <2>1
  <2>2. CASE ~(i <= Len(w))
    <3>1. i - Len(w) \in 1 .. m /\ i - Len(w) \in 1 .. Len(x)
      BY <1>2, <1>9, <2>2
    <3> QED
      BY <1>6, <1>9, <2>2, <3>1
  <2> QED
    BY <2>1, <2>2
<1>11. ASSUME NEW i \in 1 .. Len(r)
       PROVE  m + i \in 1 .. Len(x) /\ r[i] = x[m + i] /\ m + i \notin 1 .. m
  BY <1>2, <1>7
<1>12. Requests(x, n) /\ Requests(w, n) /\ Apart(w, x)
  BY <1>1 DEF Places
<1>13. Requests(w2, n)
  <2>1. \A i \in 1 .. Len(w2) : w2[i] \in 1 .. n
    BY <1>10, <1>12 DEF Requests
  <2>2. ASSUME NEW i \in 1 .. Len(w2), NEW j \in 1 .. Len(w2), w2[i] = w2[j] PROVE i = j
    <3>1. CASE i \in 1 .. Len(w) /\ w2[i] = w[i] /\ j \in 1 .. Len(w) /\ w2[j] = w[j]
      BY <1>12, <2>2, <3>1 DEF Requests
    <3>2. ASSUME NEW a \in 1 .. Len(w2), NEW b \in 1 .. Len(w2), w2[a] = w2[b],
                 a \in 1 .. Len(w), w2[a] = w[a],
                 b - Len(w) \in 1 .. Len(x), w2[b] = x[b - Len(w)]
          PROVE  FALSE
      BY <1>12, <3>2 DEF Apart
    <3>3. CASE /\ i - Len(w) \in 1 .. Len(x) /\ w2[i] = x[i - Len(w)]
               /\ j - Len(w) \in 1 .. Len(x) /\ w2[j] = x[j - Len(w)]
      <4>1. i - Len(w) = j - Len(w)
        BY <1>12, <2>2, <3>3 DEF Requests
      <4> QED
        BY <1>2, <1>9, <4>1
    <3> QED
      BY <1>10, <2>2, <3>1, <3>2, <3>3
  <2> QED
    BY <1>9, <2>1, <2>2 DEF Requests
<1>14. Requests(r, n)
  <2>1. \A i \in 1 .. Len(r) : r[i] \in 1 .. n
    BY <1>11, <1>12 DEF Requests
  <2>2. ASSUME NEW i \in 1 .. Len(r), NEW j \in 1 .. Len(r), r[i] = r[j] PROVE i = j
    <3>1. x[m + i] = x[m + j] /\ m + i \in 1 .. Len(x) /\ m + j \in 1 .. Len(x)
      BY <1>11, <2>2
    <3>2. m + i = m + j
      BY <1>12, <3>1 DEF Requests
    <3> QED
      BY <1>2, <1>7, <3>2
  <2> QED
    BY <1>7, <2>1, <2>2 DEF Requests
<1>15. Apart(w2, r)
  <2> SUFFICES ASSUME NEW i \in 1 .. Len(w2), NEW j \in 1 .. Len(r), w2[i] = r[j]
               PROVE  FALSE
    BY DEF Apart
  <2>1. m + j \in 1 .. Len(x) /\ r[j] = x[m + j] /\ m + j \notin 1 .. m
    BY <1>11
  <2>2. CASE i \in 1 .. Len(w) /\ w2[i] = w[i]
    BY <1>12, <2>1, <2>2 DEF Apart
  <2>3. CASE i - Len(w) \in 1 .. m /\ i - Len(w) \in 1 .. Len(x) /\ w2[i] = x[i - Len(w)]
    <3>1. i - Len(w) = m + j
      BY <1>12, <2>1, <2>3 DEF Requests
    <3> QED
      BY <2>1, <2>3, <3>1
  <2> QED
    BY <1>10, <2>2, <2>3
<1>16. ASSUME NEW s, Apart(s, w), Apart(s, x) PROVE Apart(s, w2)
  BY <1>10, <1>16 DEF Apart
<1>17. ASSUME NEW s, Apart(s, x) PROVE Apart(s, r)
  BY <1>11, <1>17 DEF Apart
<1>18. \A s, u : Apart(s, u) => Apart(u, s)
  BY DEF Apart
<1>19. PICK v2 : v2 = [v EXCEPT ![t] = r]
  OBVIOUS
<1>20. v2 \in [Thread -> Seq(Nat)] /\ v2[t] = r /\ \A u \in Thread \ {t} : v2[u] = v[u]
  BY <1>7, <1>19 DEF Places
<1>21. Apart(q, w2) /\ Apart(q, r)
  BY <1>1, <1>16, <1>17 DEF Places
<1>22. ASSUME NEW u \in Thread, u # t PROVE Apart(v[u], w2) /\ Apart(v[u], r)
  BY <1>1, <1>16, <1>17, <1>18, <1>22 DEF Places
<1>23. \A u \in Thread : Requests(v2[u], n) /\ Apart(q, v2[u]) /\ Apart(w2, v2[u])
  BY <1>14, <1>15, <1>18, <1>20, <1>21, <1>22 DEF Places
<1>24. ASSUME NEW a \in Thread, NEW b \in Thread, a # b PROVE Apart(v2[a], v2[b])
  <2>1. CASE a = t
    <3>1. v2[a] = r /\ v2[b] = v[b] /\ Apart(v[b], r)
      BY <1>20, <1>22, <1>24, <2>1
    <3> QED
      BY <1>18, <3>1
  <2>2. CASE b = t
    <3>1. v2[b] = r /\ v2[a] = v[a] /\ Apart(v[a], r)
      BY <1>20, <1>22, <1>24, <2>2
    <3> QED
      BY <3>1
  <2>3. CASE a # t /\ b # t
    BY <1>20, <1>24, <2>3 DEF Places
  <2> QED
    BY <2>1, <2>2, <2>3
<1>25. Places(q, w2, v2, n)
  BY <1>13, <1>20, <1>21, <1>23, <1>24 DEF Places
<1>26. v2 = [v EXCEPT ![t] = SubSeq(@, m + 1, Len(@))]
  BY <1>1, <1>5, <1>19 DEF Places
<1> QED
  BY <1>1, <1>2, <1>4, <1>8, <1>9, <1>25, <1>26

\* Different requests from 1 to n are n at most.
LEMMA RequestsFit ==
    ASSUME NEW n \in Nat, NEW s, Requests(s, n)
    PROVE  Len(s) \in Nat /\ Len(s) <= n
<1>1. s \in Seq(Nat) /\ Len(s) \in Nat /\ DOMAIN s = 1 .. Len(s)
  BY LenProperties DEF Requests
<1> DEFINE f == [i \in 1 .. Len(s) |-> s[i]]
<1>2. f \in Injection(1 .. Len(s), 1 .. n)
  BY DEF Requests, Injection, IsInjective
<1>3. \A k \in Nat : IsFiniteSet(1 .. k) /\ Cardinality(1 .. k) = k
  <2> SUFFICES ASSUME NEW k \in Nat
               PROVE  IsFiniteSet(1 .. k) /\ Cardinality(1 .. k) = k
    OBVIOUS
  <2>1. IsFiniteSet(1 .. k) /\ Cardinality(1 .. k) = IF 1 > k THEN 0 ELSE k - 1 + 1
    BY FS_Interval
  <2> QED
    BY <2>1
<1>4. Cardinality(1 .. Len(s)) <= Cardinality(1 .. n)
  BY <1>2, <1>3, FS_Injection
<1> QED
  BY <1>1, <1>3, <1>4

\* What a step of thread t does to the output: nothing; a thread that has
\* found room in poll() writes; the queue is taken; what is left is dropped; a
\* request is numbered and queued, taken with the queue, or taken alone.
OutShape(t) ==
    \/ UNCHANGED <<queue, wire, vec, out_request>>
    \/ "OUT" \in revents[t] /\ write_vec(t) /\ UNCHANGED <<queue, out_request>>
    \/ queue' = <<>> /\ vec' = [vec EXCEPT ![t] = queue] /\ UNCHANGED <<wire, out_request>>
    \/ vec' = [vec EXCEPT ![t] = <<>>] /\ UNCHANGED <<wire, queue, out_request>>
    \/ /\ out_request' = out_request + 1 /\ queue' = Append(queue, out_request + 1)
       /\ UNCHANGED <<wire, vec>>
    \/ /\ out_request' = out_request + 1 /\ queue' = <<>>
       /\ vec' = [vec EXCEPT ![t] = Append(queue, out_request + 1)] /\ UNCHANGED wire
    \/ /\ out_request' = out_request + 1 /\ vec' = [vec EXCEPT ![t] = <<out_request + 1>>]
       /\ UNCHANGED <<wire, queue>>

LEMMA ThreadOutShape ==
    ASSUME NEW t \in Thread, ThreadStep(t)
    PROVE  OutShape(t)
<1>1. CASE polled(t)
  <2>1. /\ UNCHANGED <<queue, out_request>>
        /\ UNCHANGED <<wire, vec>> \/ ("OUT" \in revents[t] /\ write_vec(t))
    BY <1>1, Zenon DEF polled
  <2> QED
    BY <2>1 DEF OutShape
<1>2. CASE out_send(t)
  BY <1>2 DEF out_send, OutShape, srvvars
<1>3. CASE flush_to(t)
  BY <1>3 DEF flush_to, OutShape, srvvars
<1>4. CASE number(t)
  BY <1>4 DEF number, OutShape, srvvars, block
<1>5. CASE xcb_writev(t)
  BY <1>5 DEF xcb_writev, OutShape, srvvars
<1>6. CASE ~polled(t) /\ ~out_send(t) /\ ~flush_to(t) /\ ~number(t) /\ ~xcb_writev(t)
  <2>1. UNCHANGED <<queue, wire, vec, out_request>>
    BY <1>6 DEF ThreadStep, call, refuse, poll, xcb_flush, flush_wait, send_wait,
          get_socket_back, callback, got_back, take_own, xcb_wait_for_reply, reply_add,
          reply_loop, event_loop, poll_event, request_check, outvars, srvvars
  <2> QED
    BY <2>1 DEF OutShape
<1> QED
  BY <1>1, <1>2, <1>3, <1>4, <1>5, <1>6

\* The output after such a step.
OutputMoves ==
    /\ Places(queue', wire', vec', out_request')
    /\ out_request \in Nat /\ out_request' \in Nat /\ out_request <= out_request'
    /\ Len(wire) \in Nat /\ Len(wire') \in Nat /\ Len(wire) <= Len(wire')

LEMMA OutMoves ==
    ASSUME NumberInv, NEW t \in Thread, OutShape(t)
    PROVE  OutputMoves
<1>1. /\ Places(queue, wire, vec, out_request) /\ out_request \in Nat /\ Len(wire) \in Nat
      /\ out_request <= out_request /\ Len(wire) <= Len(wire)
      /\ out_request + 1 \in Nat /\ out_request <= out_request + 1
  BY LenProperties DEF NumberInv, Places, Requests
<1>2. CASE UNCHANGED <<queue, wire, vec, out_request>>
  BY <1>1, <1>2 DEF OutputMoves
<1>3. CASE "OUT" \in revents[t] /\ write_vec(t) /\ UNCHANGED <<queue, out_request>>
  <2>1. PICK m : m = Smaller(Len(vec[t]), prog.send_cap - (Len(wire) - served))
    OBVIOUS
  <2>2. /\ wire' = wire \o SubSeq(vec[t], 1, m)
        /\ vec' = [vec EXCEPT ![t] = SubSeq(@, m + 1, Len(@))]
    BY <1>3, <2>1 DEF write_vec
  <2>3. m \in 0 .. Len(vec[t])
    <3>1. Len(wire) - served < prog.send_cap
      BY <1>3 DEF NumberInv, RoomKept, Writable
    <3>2. Len(vec[t]) \in Nat
      BY <1>1, LenProperties DEF Places
    <3>3. prog.send_cap \in Nat /\ served \in Nat
      BY <1>1, ThreadsAssumption DEF NumberInv, Program, Received
    <3> QED
      BY <1>1, <2>1, <3>1, <3>2, <3>3 DEF Smaller
  <2> QED
    BY <1>1, <1>3, <2>2, <2>3, PlacesWritten DEF OutputMoves
<1>4. CASE queue' = <<>> /\ vec' = [vec EXCEPT ![t] = queue] /\ UNCHANGED <<wire, out_request>>
  BY <1>1, <1>4, PlacesTaken DEF OutputMoves
<1>5. CASE vec' = [vec EXCEPT ![t] = <<>>] /\ UNCHANGED <<wire, queue, out_request>>
  BY <1>1, <1>5, PlacesDropped DEF OutputMoves
<1>6. CASE /\ out_request' = out_request + 1 /\ queue' = Append(queue, out_request + 1)
           /\ UNCHANGED <<wire, vec>>
  BY <1>1, <1>6, PlacesQueued DEF OutputMoves
<1>7. CASE /\ out_request' = out_request + 1 /\ queue' = <<>>
           /\ vec' = [vec EXCEPT ![t] = Append(queue, out_request + 1)] /\ UNCHANGED wire
  <2>1. Places(Append(queue, out_request + 1), wire, vec, out_request + 1)
    BY <1>1, PlacesQueued
  <2>2. Places(<<>>, wire, [vec EXCEPT ![t] = Append(queue, out_request + 1)], out_request + 1)
    BY <2>1, PlacesTaken
  <2> QED
    BY <1>1, <1>7, <2>2 DEF OutputMoves
<1>8. CASE /\ out_request' = out_request + 1
           /\ vec' = [vec EXCEPT ![t] = <<out_request + 1>>] /\ UNCHANGED <<wire, queue>>
  BY <1>1, <1>8, PlacesNew DEF OutputMoves
<1> QED
  BY <1>2, <1>3, <1>4, <1>5, <1>6, <1>7, <1>8 DEF OutShape

\* A thread enters poll() to write only if nobody else is there for it.
LEMMA OneWriterStep ==
    ASSUME ThreadInv, OneWriter, NEW t \in Thread, ThreadStep(t)
    PROVE  OneWriter'
<1>1. Me(t) /\ ThrTypes
  BY DEF ThreadInv, AllConsistent, Me
<1>2. Stepped(t) /\ Shape(t)
  BY <1>1, ThreadStepped, ThreadShape
<1>3. \A u \in Thread \ {t} : pc'[u] = pc[u]
  BY <1>2 DEF Stepped, Own
<1>4. CASE pc'[t] \in Polls => pc[t] \in Polls
  BY <1>3, <1>4 DEF OneWriter
<1>5. CASE pc'[t] \in Polls /\ pc[t] \notin Polls
  <2>1. pc'[t] = "poll_write" /\ pc[t] # "poll_read" /\ pc[t] \notin Polling
    BY <1>2, <1>5 DEF Shape, Polls, Polling, Busy
  <2>2. out_send(t) \/ reply_loop(t) \/ event_loop(t)
    <3>1. pc[t] \in Busy
      BY <1>2, <1>5, <2>1 DEF Shape, Polls, Polling, Busy
    <3> QED
      BY <1>1, <2>1, <3>1 DEF ThreadStep, call, refuse, poll, polled, xcb_flush, flush_to,
         flush_wait, send_wait, get_socket_back, callback, got_back, number, take_own,
         xcb_writev, xcb_wait_for_reply, reply_add, poll_event, request_check, At, Busy,
         Polling
  <2>3. ASSUME NEW c, NEW count \in BOOLEAN, conn_wait(t, c, count) PROVE ~(writing > 0)
    <3>1. CASE count /\ writing > 0
      BY <1>5, <2>3, <3>1 DEF conn_wait
    <3>2. CASE ~count
      <4>1. pc' = pc \/ goto(t, "poll_read")
        BY <2>3, <3>2 DEF conn_wait
      <4> QED
        BY <1>1, <1>5, <2>1, <4>1 DEF goto, ThrTypes
    <3> QED
      BY <3>1, <3>2
  <2>4. ~(writing > 0)
    <3>1. CASE \E c \in Waiting, count \in BOOLEAN : conn_wait(t, c, count)
      BY <2>3, <3>1
    <3>2. CASE return(t) \/ after_flush(t, ret[t])
      <4>1. pc'[t] # "poll_write"
        BY <1>1, <3>2 DEF return, after_flush, proceed, goto, ThrTypes
      <4> QED
        BY <2>1, <4>1
    <3> QED
      BY <2>2, <3>1, <3>2 DEF out_send, reply_loop, event_loop, Waiting
  <2>5. \A u \in Thread : pc[u] \notin Polls
    <3> SUFFICES ASSUME NEW u \in Thread, pc[u] \in Polls PROVE FALSE
      OBVIOUS
    <3>1. u \in In(pc, Polls)
      BY DEF In
    <3>2. IsFiniteSet(In(pc, Polls)) /\ Cardinality(In(pc, Polls)) \in Nat
      BY InFinite
    <3>3. Cardinality(In(pc, Polls)) # 0
      BY <3>1, <3>2, FS_EmptySet
    <3>4. writing = Cardinality(In(pc, Polls))
      BY DEF ThreadInv, Counted, Polls
    <3> QED
      BY <2>4, <3>2, <3>3, <3>4
  <2> QED
    BY <1>3, <2>5 DEF OneWriter
<1> QED
  BY <1>4, <1>5

LEMMA RoomStep ==
    ASSUME ThreadInv, NumberInv, NEW t \in Thread, ThreadStep(t)
    PROVE  RoomKept'
<1>1. Me(t) /\ ThrTypes /\ RoomKept /\ OneWriter
  BY DEF ThreadInv, AllConsistent, Me, NumberInv
<1>2. Stepped(t) /\ OutShape(t)
  BY <1>1, ThreadStepped, ThreadOutShape
<1>3. UNCHANGED <<prog, served>>
  BY DEF ThreadStep, call, refuse, poll, polled, out_send, xcb_flush, flush_to, flush_wait,
     send_wait, get_socket_back, callback, got_back, number, take_own, xcb_writev,
     xcb_wait_for_reply, reply_add, reply_loop, event_loop, poll_event, request_check, srvvars
<1>4. "OUT" \notin revents[t] => wire' = wire
  BY <1>2 DEF OutShape
<1>5. PICK r \in SUBSET {"IN", "OUT", "HUP"} :
        /\ revents' = [revents EXCEPT ![t] = r]
        /\ "OUT" \in r => pc'[t] = "polled_write" /\ Writable /\ wire' = wire
  <2>1. CASE poll(t)
    <3> DEFINE ready == poll_events(pc[t] = "poll_write") \cap
                            ((IF Readable THEN {"IN"} ELSE {}) \cup
                             (IF Writable THEN {"OUT"} ELSE {}))
    <3>1. ready \in SUBSET {"IN", "OUT"} /\ ("OUT" \in ready => Writable /\ pc[t] = "poll_write")
      BY DEF poll_events
    <3>2. \/ revents' = [revents EXCEPT ![t] = ready]
          \/ revents' = [revents EXCEPT ![t] = {"HUP"}]
      BY <2>1, Zenon DEF poll
    <3>3. pc[t] = "poll_write" => pc'[t] = "polled_write"
      BY <1>1, <2>1 DEF poll, goto, ThrTypes
    <3>4. wire' = wire
      BY <2>1 DEF poll, srvvars
    <3> HIDE DEF ready
    <3>5. PICK r \in SUBSET {"IN", "OUT", "HUP"} :
            /\ revents' = [revents EXCEPT ![t] = r]
            /\ "OUT" \in r => Writable /\ pc[t] = "poll_write"
      BY <3>1, <3>2
    <3> QED
      BY <3>3, <3>4, <3>5
  <2>2. CASE polled(t)
    <3>1. revents' = [revents EXCEPT ![t] = {}]
      BY <2>2 DEF polled
    <3>2. {} \in SUBSET {"IN", "OUT", "HUP"} /\ "OUT" \notin {}
      OBVIOUS
    <3> QED
      BY <3>1, <3>2, Zenon
  <2>3. CASE ~poll(t) /\ ~polled(t)
    <3>1. revents' = revents
      BY <2>3 DEF ThreadStep, call, refuse, out_send, xcb_flush, flush_to, flush_wait,
         send_wait, get_socket_back, callback, got_back, number, take_own, xcb_writev,
         xcb_wait_for_reply, reply_add, reply_loop, event_loop, poll_event, request_check
    <3>2. pc[t] # "polled_write"
      BY <2>3 DEF ThreadStep, call, refuse, out_send, xcb_flush, flush_to, flush_wait,
         send_wait, get_socket_back, callback, got_back, number, take_own, xcb_writev,
         xcb_wait_for_reply, reply_add, reply_loop, event_loop, poll_event, request_check, At
    <3>3. "OUT" \notin revents[t] /\ revents[t] \in SUBSET {"IN", "OUT", "HUP"}
      BY <1>1, <3>2 DEF RoomKept
    <3>4. revents' = [revents EXCEPT ![t] = revents[t]]
      BY <1>1, <3>1 DEF RoomKept
    <3> QED
      BY <3>3, <3>4
  <2> QED
    BY <2>1, <2>2, <2>3
<1>6. /\ revents' \in [Thread -> SUBSET {"IN", "OUT", "HUP"}]
      /\ revents'[t] = r /\ \A u \in Thread \ {t} : revents'[u] = revents[u]
  BY <1>1, <1>5 DEF RoomKept
<1>7. ASSUME NEW u \in Thread, "OUT" \in revents'[u]
      PROVE  pc'[u] = "polled_write" /\ Writable'
  <2>1. CASE u = t
    BY <1>3, <1>5, <1>6, <1>7, <2>1 DEF Writable
  <2>2. CASE u # t
    <3>1. "OUT" \in revents[u] /\ pc'[u] = pc[u]
      BY <1>2, <1>6, <1>7, <2>2 DEF Stepped, Own
    <3>2. pc[u] = "polled_write" /\ Writable
      BY <1>1, <3>1 DEF RoomKept
    <3>3. pc[t] # "polled_write"
      BY <1>1, <2>2, <3>2 DEF OneWriter, Polls
    <3>4. wire' = wire
      BY <1>1, <1>4, <3>3 DEF RoomKept
    <3> QED
      BY <1>3, <3>1, <3>2, <3>4 DEF Writable
  <2> QED
    BY <2>1, <2>2
<1> QED
  BY <1>6, <1>7 DEF RoomKept

\* What a step of thread t does to the input.
InShape ==
    /\ served' = served
    /\ \/ \E n \in 0 .. Len(inbuf) : in_read(n) /\ out_request' = out_request
       \/ /\ UNCHANGED <<inbuf, request_read>> /\ stored' \subseteq stored
          /\ request_expected' \in {request_expected, out_request'}

LEMMA ThreadInShape ==
    ASSUME NEW t \in Thread, ThreadStep(t)
    PROVE  InShape
<1>1. CASE polled(t)
  <2>1. /\ served' = served /\ out_request' = out_request
        /\ \/ \E n \in 0 .. Len(inbuf) : in_read(n)
           \/ UNCHANGED <<inbuf, invars, request_expected>>
    BY <1>1, Zenon DEF polled
  <2> QED
    BY <2>1 DEF InShape, invars
<1>2. CASE poll_event(t)
  <2>1. /\ served' = served /\ out_request' = out_request
        /\ \/ \E n \in 0 .. Len(inbuf) : in_read(n)
           \/ UNCHANGED <<inbuf, request_read, stored, request_expected>>
    BY <1>2, Zenon DEF poll_event
  <2> QED
    BY <2>1 DEF InShape
<1>3. CASE number(t)
  BY <1>3 DEF number, InShape, invars, srvvars
<1>4. CASE reply_loop(t)
  BY <1>4 DEF reply_loop, InShape, outvars, srvvars
<1>5. CASE ~polled(t) /\ ~poll_event(t) /\ ~number(t) /\ ~reply_loop(t)
  <2>1. UNCHANGED <<served, inbuf, request_read, stored, request_expected>>
    BY <1>5 DEF ThreadStep, call, refuse, poll, out_send, xcb_flush, flush_to, flush_wait,
       send_wait, get_socket_back, callback, got_back, take_own, xcb_writev,
       xcb_wait_for_reply, reply_add, event_loop, request_check, outvars, invars, srvvars
  <2> QED
    BY <2>1 DEF InShape
<1> QED
  BY <1>1, <1>2, <1>3, <1>4, <1>5

LEMMA SeqSubset ==
    ASSUME NEW S, NEW T, S \subseteq T, NEW s \in Seq(S)
    PROVE  s \in Seq(T)
<1>1. Len(s) \in Nat /\ s = [i \in 1 .. Len(s) |-> s[i]] /\ \A i \in 1 .. Len(s) : s[i] \in S
  BY LenProperties, ElementOfSeq
<1> QED
  BY <1>1

\* The responses read are the server's; the numbers in them were given out.
LEMMA ReceivedStep ==
    ASSUME NumberInv, InShape, OutputMoves
    PROVE  Received'
<1>1. /\ out_request \in Nat /\ out_request' \in Nat /\ out_request <= out_request'
      /\ Len(wire) \in Nat /\ Len(wire') \in Nat /\ Len(wire) <= Len(wire') /\ Received
  BY DEF OutputMoves, NumberInv
<1>2. served' \in 0 .. Len(wire')
  BY <1>1 DEF InShape, Received
<1>3. /\ 0 .. out_request \subseteq 0 .. out_request' /\ 1 .. out_request \subseteq 1 .. out_request'
      /\ Response(out_request) \subseteq Response(out_request')
      /\ out_request' \in 0 .. out_request'
  BY <1>1 DEF Response
<1>4. CASE /\ UNCHANGED <<inbuf, request_read>> /\ stored' \subseteq stored
           /\ request_expected' \in {request_expected, out_request'}
  <2>1. inbuf' \in Seq(Response(out_request'))
    BY <1>1, <1>3, <1>4, SeqSubset DEF Received
  <2> QED
    BY <1>1, <1>2, <1>3, <1>4, <2>1 DEF Received
<1>5. ASSUME NEW n \in 0 .. Len(inbuf), in_read(n), out_request' = out_request
      PROVE  Received'
  <2>1. /\ inbuf \in Seq(Response(out_request)) /\ Len(inbuf) \in Nat
        /\ \A i \in 1 .. Len(inbuf) : inbuf[i] \in Response(out_request)
    BY <1>1, LenProperties, ElementOfSeq DEF Received
  <2>2. n \in Nat /\ n <= Len(inbuf)
    BY <2>1
  <2>3. inbuf' \in Seq(Response(out_request))
    BY <1>5, <2>1, <2>2, SubSeqProperties DEF in_read
  <2>4. \A p \in Response(out_request) :
          p.of \in 0 .. out_request /\ (p.type = "reply" => p.of \in 1 .. out_request)
    BY <1>1 DEF Response
  <2>5. \A i \in 1 .. n : i \in 1 .. Len(inbuf)
    BY <2>1, <2>2
  <2>6. stored' \subseteq 1 .. out_request
    <3>1. Took(n) \subseteq Response(out_request)
      BY <2>1, <2>5 DEF Took
    <3>2. stored' = stored \cup {p.of : p \in {q \in Took(n) : q.type = "reply"}}
      BY <1>5 DEF in_read
    <3> QED
      BY <1>1, <2>4, <3>1, <3>2 DEF Received
  <2>7. request_read' \in 0 .. out_request
    <3>1. request_read' = IF n > 0 THEN inbuf[n].of ELSE request_read
      BY <1>5 DEF in_read
    <3>2. CASE n > 0
      <4>1. n \in 1 .. Len(inbuf)
        BY <2>2, <3>2
      <4> QED
        BY <2>1, <2>4, <3>1, <3>2, <4>1
    <3> QED
      BY <1>1, <3>1, <3>2 DEF Received
  <2>8. request_expected' \in 0 .. out_request
    BY <1>1, <1>5, <2>7 DEF in_read, Larger, Received
  <2> QED
    BY <1>2, <1>5, <2>3, <2>6, <2>7, <2>8 DEF Received
<1> QED
  BY <1>4, <1>5 DEF InShape

\* What a step of thread t does to the requests it asks about.
AskShape(t) ==
    /\ lock' \in {lock, t, NoThread}
    /\ \/ request_written' = request_written
       \/ request_written' = out_request /\ out_request' = out_request
    /\ \/ request'[t] \in {request[t], 0, out_request}
       \/ mine[t] # <<>> /\ request'[t] \in {Head(mine[t]), mine[t][Len(mine[t])]}
    /\ \/ mine'[t] = mine[t]
       \/ out_request' = out_request + 1 /\ mine'[t] = Append(mine[t], out_request')
       \/ mine[t] # <<>> /\ mine'[t] \in {SubSeq(mine[t], 2, Len(mine[t])),
                                          SubSeq(mine[t], 1, Len(mine[t]) - 1)}

LEMMA AfterFlushAsk ==
    ASSUME ThrTypes, NEW t \in Thread, NEW ok, after_flush(t, ok)
    PROVE  lock' \in {t, NoThread} /\ request'[t] \in {request[t], 0}
BY DEF after_flush, proceed, return, ThrTypes

LEMMA ConnWaitAsk ==
    ASSUME NEW t \in Thread, NEW c, NEW count \in BOOLEAN, conn_wait(t, c, count)
    PROVE  lock' = NoThread
BY DEF conn_wait, cond_wait

LEMMA ThreadAskShape ==
    ASSUME ThrTypes, NEW t \in Thread, Me(t), ThreadStep(t)
    PROVE  AskShape(t)
<1>1. CASE call(t) \/ refuse(t) \/ poll(t) \/ callback(t) \/ request_check(t)
  BY <1>1 DEF call, refuse, poll, callback, request_check, AskShape, outvars
<1>2. CASE polled(t)
  <2>1. lock' = t /\ UNCHANGED <<request_written, request, mine>>
    BY <1>2 DEF polled
  <2> QED
    BY <2>1 DEF AskShape
<1>3. CASE out_send(t)
  <2>1. UNCHANGED <<mine, out_request>>
    BY <1>3 DEF out_send
  <2>2. CASE conn_wait(t, "out", TRUE) /\ UNCHANGED <<request, request_written>>
    BY <2>1, <2>2, ConnWaitAsk DEF AskShape
  <2>3. CASE request_written' = out_request /\ after_flush(t, ret[t])
    BY <2>1, <2>3, AfterFlushAsk DEF AskShape
  <2> QED
    BY <1>3, <2>2, <2>3 DEF out_send
<1>4. CASE xcb_flush(t)
  BY <1>4 DEF xcb_flush, AskShape, outvars, ThrTypes
<1>5. CASE flush_to(t)
  <2>1. UNCHANGED <<mine, request_written>>
    BY <1>5 DEF flush_to
  <2>2. CASE after_flush(t, TRUE)
    BY <2>1, <2>2, AfterFlushAsk DEF AskShape
  <2>3. CASE proceed(t, "out_send") \/ proceed(t, "flush_wait")
    BY <2>1, <2>3 DEF proceed, AskShape
  <2> QED
    BY <1>5, <2>2, <2>3 DEF flush_to
<1>6. CASE flush_wait(t)
  <2>1. UNCHANGED <<mine, request_written>>
    BY <1>6 DEF flush_wait, outvars
  <2>2. CASE after_flush(t, TRUE)
    BY <2>1, <2>2, AfterFlushAsk DEF AskShape
  <2>3. CASE cond_wait(t, "out") /\ UNCHANGED request
    BY <2>1, <2>3 DEF cond_wait, AskShape
  <2> QED
    BY <1>6, <2>2, <2>3 DEF flush_wait
<1>7. CASE send_wait(t)
  BY <1>7 DEF send_wait, cond_wait, proceed, AskShape, outvars
<1>8. CASE get_socket_back(t) \/ got_back(t)
  <2>1. UNCHANGED <<mine, request_written>>
    BY <1>8 DEF get_socket_back, got_back
  <2>2. lock' \in {t, NoThread}
    BY <1>8 DEF get_socket_back, got_back, cond_wait, return_socket
  <2>3. request' = request \/ after_back(t)
    BY <1>8 DEF get_socket_back, got_back
  <2>4. request'[t] \in {request[t], out_request}
    BY <2>3 DEF after_back, ThrTypes
  <2> QED
    BY <2>1, <2>2, <2>4 DEF AskShape
<1>9. CASE number(t)
  <2>1. out_request' = out_request + 1 /\ mine' = [mine EXCEPT ![t] = Append(@, out_request')]
    BY <1>9 DEF number
  <2>2. mine'[t] = Append(mine[t], out_request')
    BY <2>1 DEF ThrTypes
  <2>3. request_written' = request_written
    BY <1>9 DEF number
  <2>4. lock' \in {t, NoThread} /\ request'[t] \in {request[t], 0}
    BY <1>9 DEF number, return, proceed, ThrTypes
  <2> QED
    BY <2>1, <2>2, <2>3, <2>4 DEF AskShape
<1>10. CASE take_own(t)
  BY <1>10 DEF take_own, return, AskShape, ThrTypes
<1>11. CASE xcb_writev(t)
  BY <1>11 DEF xcb_writev, proceed, AskShape
<1>12. CASE xcb_wait_for_reply(t)
  <2>1. mine[t] # <<>>
    BY <1>12 DEF xcb_wait_for_reply, At, Me, Consistent
  <2>2. request'[t] \in {Head(mine[t]), mine[t][Len(mine[t])]}
    BY <1>12 DEF xcb_wait_for_reply, ThrTypes
  <2> QED
    BY <1>12, <2>1, <2>2 DEF xcb_wait_for_reply, AskShape, outvars
<1>13. CASE reply_add(t)
  BY <1>13 DEF reply_add, proceed, AskShape, outvars
<1>14. CASE reply_loop(t)
  <2>1. request_written' = request_written
    BY <1>14 DEF reply_loop, outvars
  <2>2. CASE conn_wait(t, "reader", FALSE) /\ UNCHANGED <<request, mine>>
    BY <2>1, <2>2, ConnWaitAsk DEF AskShape
  <2>3. CASE /\ mine' = [mine EXCEPT ![t] = IF Op(t) = "reply" THEN SubSeq(@, 2, Len(@))
                                            ELSE SubSeq(@, 1, Len(@) - 1)]
             /\ return(t)
    <3>1. mine'[t] \in {SubSeq(mine[t], 2, Len(mine[t])), SubSeq(mine[t], 1, Len(mine[t]) - 1)}
      BY <2>3 DEF ThrTypes
    <3>2. lock' = NoThread /\ request'[t] = 0
      BY <2>3 DEF return, ThrTypes
    <3> QED
      BY <2>1, <3>1, <3>2 DEF AskShape
  <2> QED
    BY <1>14, <2>2, <2>3 DEF reply_loop
<1>15. CASE event_loop(t)
  <2>1. UNCHANGED <<mine, request_written>>
    BY <1>15 DEF event_loop, outvars
  <2>2. CASE conn_wait(t, "event", FALSE) /\ UNCHANGED request
    BY <2>1, <2>2, ConnWaitAsk DEF AskShape
  <2>3. CASE return(t)
    BY <2>1, <2>3 DEF return, AskShape, ThrTypes
  <2> QED
    BY <1>15, <2>2, <2>3 DEF event_loop
<1>16. CASE poll_event(t)
  BY <1>16 DEF poll_event, return, AskShape, ThrTypes
<1> QED
  BY <1>1, <1>2, <1>3, <1>4, <1>5, <1>6, <1>7, <1>8, <1>9, <1>10, <1>11, <1>12, <1>13,
     <1>14, <1>15, <1>16 DEF ThreadStep

LEMMA AskedStep ==
    ASSUME ThreadInv, NumberInv, NEW t \in Thread, Stepped(t), AskShape(t), OutputMoves
    PROVE  Asked'
<1>1. /\ out_request \in Nat /\ out_request' \in Nat /\ out_request <= out_request' /\ Asked
  BY DEF OutputMoves, NumberInv
<1>2. /\ 0 .. out_request \subseteq 0 .. out_request' /\ 1 .. out_request \subseteq 1 .. out_request'
      /\ 1 .. out_request \subseteq 0 .. out_request
      /\ 0 \in 0 .. out_request /\ out_request \in 0 .. out_request
  BY <1>1
<1>3. request_written' \in 0 .. out_request'
  BY <1>1, <1>2 DEF AskShape, Asked
<1>4. PICK m : m = mine[t]
  OBVIOUS
<1>5. /\ m \in Seq(Nat) /\ Len(m) \in Nat /\ \A i \in 1 .. Len(m) : m[i] \in 1 .. out_request
  BY <1>1, <1>4, LenProperties DEF ThreadInv, ThrTypes, Asked
<1>6. m # <<>> => /\ 1 \in 1 .. Len(m) /\ Len(m) \in 1 .. Len(m)
                  /\ Head(m) = m[1]
  BY <1>5, EmptySeq
<1>7. request'[t] \in 0 .. out_request'
  BY <1>1, <1>2, <1>4, <1>5, <1>6 DEF AskShape, Asked
<1>8. PICK k : k = mine'[t]
  OBVIOUS
<1>9. \A i \in 1 .. Len(k) : k[i] \in 1 .. out_request'
  <2>1. CASE k = m
    BY <1>2, <1>5, <2>1
  <2>2. CASE out_request' = out_request + 1 /\ k = Append(m, out_request')
    <3>1. /\ Len(k) = Len(m) + 1 /\ k[Len(m) + 1] = out_request'
          /\ \A i \in 1 .. Len(m) : k[i] = m[i]
      BY <1>1, <1>5, <2>2, AppendProperties
    <3>2. \A i \in 1 .. Len(k) : i \in 1 .. Len(m) \/ i = Len(m) + 1
      BY <1>5, <3>1
    <3>3. out_request' \in 1 .. out_request'
      BY <1>1, <2>2
    <3> QED
      BY <1>2, <1>5, <3>1, <3>2, <3>3
  <2>3. CASE m # <<>> /\ k = SubSeq(m, 2, Len(m))
    <3>1. Len(m) > 0 /\ \A i \in 2 .. Len(m) : m[i] \in Nat
      BY <1>5, <1>6, <2>3
    <3>2. Len(k) = Len(m) - 1 /\ \A i \in 1 .. Len(m) - 1 : k[i] = m[i + 1]
      <4>1. 2 \in Int /\ Len(m) \in Int
        BY <1>5
      <4>2. /\ Len(SubSeq(m, 2, Len(m))) = IF 2 <= Len(m) THEN Len(m) - 2 + 1 ELSE 0
            /\ \A i \in 1 .. Len(m) - 2 + 1 : SubSeq(m, 2, Len(m))[i] = m[2 + i - 1]
        BY <3>1, <4>1, SubSeqProperties
      <4>3. /\ Len(k) = IF 2 <= Len(m) THEN Len(m) - 2 + 1 ELSE 0
            /\ \A i \in 1 .. Len(m) - 2 + 1 : k[i] = m[2 + i - 1]
        BY <2>3, <4>2
      <4>4. PICK l \in Nat : l = Len(m)
        BY <1>5
      <4>5. (IF 2 <= l THEN l - 2 + 1 ELSE 0) = l - 1
        BY <3>1, <4>4
      <4>6. \A i \in 1 .. l - 1 : i \in 1 .. l - 2 + 1 /\ 2 + i - 1 = i + 1
        OBVIOUS
      <4>7. Len(k) = l - 1
        BY <4>3, <4>4, <4>5
      <4>8. ASSUME NEW i \in 1 .. l - 1 PROVE k[i] = m[i + 1]
        <5>1. k[i] = m[2 + i - 1]
          BY <4>3, <4>4, <4>6
        <5> QED
          BY <4>6, <5>1
      <4> QED
        BY <4>4, <4>7, <4>8
    <3>3. \A i \in 1 .. Len(m) - 1 : i + 1 \in 1 .. Len(m)
      BY <1>5
    <3> QED
      BY <1>2, <1>5, <3>2, <3>3
  <2>4. CASE m # <<>> /\ k = SubSeq(m, 1, Len(m) - 1)
    <3>1. Len(m) > 0 /\ \A i \in 1 .. Len(m) - 1 : m[i] \in Nat
      BY <1>5, <1>6, <2>4
    <3>2. Len(k) = Len(m) - 1 /\ \A i \in 1 .. Len(m) - 1 : k[i] = m[i]
      <4>1. 1 \in Int /\ Len(m) - 1 \in Int
        BY <1>5
      <4>2. /\ Len(SubSeq(m, 1, Len(m) - 1))
                 = IF 1 <= Len(m) - 1 THEN Len(m) - 1 - 1 + 1 ELSE 0
            /\ \A i \in 1 .. Len(m) - 1 - 1 + 1 : SubSeq(m, 1, Len(m) - 1)[i] = m[1 + i - 1]
        BY <3>1, <4>1, SubSeqProperties
      <4>3. /\ Len(k) = IF 1 <= Len(m) - 1 THEN Len(m) - 1 - 1 + 1 ELSE 0
            /\ \A i \in 1 .. Len(m) - 1 - 1 + 1 : k[i] = m[1 + i - 1]
        BY <2>4, <4>2
      <4>4. PICK l \in Nat : l = Len(m)
        BY <1>5
      <4>5. (IF 1 <= l - 1 THEN l - 1 - 1 + 1 ELSE 0) = l - 1
        BY <3>1, <4>4
      <4>6. \A i \in 1 .. l - 1 : i \in 1 .. l - 1 - 1 + 1 /\ 1 + i - 1 = i
        OBVIOUS
      <4>7. Len(k) = l - 1
        BY <4>3, <4>4, <4>5
      <4>8. ASSUME NEW i \in 1 .. l - 1 PROVE k[i] = m[i]
        <5>1. k[i] = m[1 + i - 1]
          BY <4>3, <4>4, <4>6
        <5> QED
          BY <4>6, <5>1
      <4> QED
        BY <4>4, <4>7, <4>8
    <3>3. \A i \in 1 .. Len(m) - 1 : i \in 1 .. Len(m)
      BY <1>5
    <3> QED
      BY <1>2, <1>5, <3>2, <3>3
  <2> QED
    BY <1>4, <1>8, <2>1, <2>2, <2>3, <2>4 DEF AskShape
<1>10. ASSUME NEW u \in Thread, u # t
       PROVE  /\ request'[u] \in 0 .. out_request'
              /\ \A i \in 1 .. Len(mine'[u]) : mine'[u][i] \in 1 .. out_request'
  <2>1. request'[u] = request[u] /\ mine'[u] = mine[u]
    BY <1>10 DEF Stepped, Own
  <2> QED
    BY <1>1, <1>2, <2>1 DEF Asked
<1> QED
  BY <1>3, <1>7, <1>8, <1>9, <1>10 DEF Asked

LEMMA NumberInvStep ==
    ASSUME ThreadInv, NumberInv, NEW t \in Thread, ThreadStep(t)
    PROVE  NumberInv'
<1>1. Me(t) /\ ThrTypes
  BY DEF ThreadInv, AllConsistent, Me
<1>2. Stepped(t) /\ OutShape(t) /\ InShape /\ AskShape(t)
  BY <1>1, ThreadStepped, ThreadOutShape, ThreadInShape, ThreadAskShape
<1>3. OutputMoves
  BY <1>2, OutMoves
<1>4. RoomKept' /\ OneWriter'
  BY RoomStep, OneWriterStep DEF NumberInv
<1>5. Received' /\ Asked'
  BY <1>2, <1>3, ReceivedStep, AskedStep
<1>6. prog' \in Programs /\ lock' \in Thread \cup {NoThread}
  BY <1>2 DEF ThreadStep, NumberInv, AskShape
<1> QED
  BY <1>3, <1>4, <1>5, <1>6 DEF NumberInv, OutputMoves

\* The server answers what is on the wire; there is room for what it has read.
LEMMA NumberInvServer ==
    ASSUME NumberInv, serve \/ send_event \/ close \/ UNCHANGED vars
    PROVE  NumberInv'
<1>1. /\ UNCHANGED <<prog, lock, queue, wire, vec, out_request, pc, revents, request_read,
                     request_expected, request_written, stored, request, mine>>
  BY DEF serve, send_event, close, vars, thrvars, outvars, invars, srvvars
<1>2. Received /\ Places(queue, wire, vec, out_request) /\ RoomKept
  BY DEF NumberInv
<1>3. /\ out_request \in Nat /\ Requests(wire, out_request) /\ wire \in Seq(Nat)
      /\ served \in Nat /\ served <= Len(wire)
  BY <1>2 DEF Places, Requests, Received
<1>4. Len(wire) \in Nat /\ Len(wire) <= out_request
  BY <1>3, RequestsFit
<1>5. served' \in {served, served + 1} /\ served' \in 0 .. Len(wire)
  BY <1>3, <1>4 DEF serve, send_event, close, vars, srvvars
<1>6. inbuf' \in Seq(Response(out_request))
  <2>1. inbuf \in Seq(Response(out_request))
    BY <1>2 DEF Received
  <2>2. CASE serve
    <3>1. served + 1 \in 1 .. Len(wire)
      BY <1>3, <1>4, <2>2 DEF serve
    <3>2. wire[served + 1] \in 1 .. out_request
      BY <1>3, <3>1 DEF Requests
    <3>3. [type |-> "reply", of |-> wire[served + 1]] \in Response(out_request)
      BY <3>2 DEF Response
    <3>4. inbuf' = inbuf \/ inbuf' = Append(inbuf, [type |-> "reply", of |-> wire[served + 1]])
      BY <2>2 DEF serve
    <3> QED
      BY <2>1, <3>3, <3>4, AppendProperties
  <2>3. CASE send_event
    <3>1. [type |-> "event", of |-> served] \in Response(out_request)
      BY <1>3, <1>4 DEF Response
    <3>2. inbuf' = Append(inbuf, [type |-> "event", of |-> served])
      BY <2>3 DEF send_event
    <3> QED
      BY <2>1, <3>1, <3>2, AppendProperties
  <2>4. CASE close \/ UNCHANGED vars
    BY <2>1, <2>4 DEF close, vars, srvvars
  <2> QED
    BY <2>2, <2>3, <2>4
<1>7. Writable => Writable'
  <2>1. prog.send_cap \in Nat
    BY ThreadsAssumption DEF NumberInv, Program
  <2> QED
    BY <1>1, <1>3, <1>4, <1>5, <2>1 DEF Writable
<1>8. RoomKept'
  BY <1>1, <1>2, <1>7 DEF RoomKept
<1>9. Received'
  BY <1>1, <1>2, <1>5, <1>6 DEF Received
<1>10. OneWriter' /\ Asked'
  BY <1>1 DEF NumberInv, OneWriter, Asked
<1> QED
  BY <1>1, <1>2, <1>8, <1>9, <1>10 DEF NumberInv

LEMMA NumberInvInit ==
    ASSUME Init
    PROVE  NumberInv
<1>1. PICK n : n = Cardinality(AllIssued(prog))
  OBVIOUS
<1>2. /\ prog \in Programs /\ lock = NoThread /\ pc = [t \in Thread |-> "idle"]
      /\ mine = prog.issued /\ request = [t \in Thread |-> 0]
      /\ vec = [t \in Thread |-> <<>>] /\ revents = [t \in Thread |-> {}]
      /\ out_request = n /\ request_written = n /\ request_expected = n /\ queue = <<>>
      /\ request_read = 0 /\ stored = {} /\ wire = [i \in 1 .. n |-> i]
      /\ served = 0 /\ inbuf = <<>>
  BY <1>1 DEF Init
<1>3. n \in Nat
  BY <1>1, <1>2, IssuedFinite
<1>4. /\ <<>> \in Seq(Nat) /\ <<>> \in Seq(Response(n)) /\ Len(<<>>) = 0
      /\ wire \in Seq(Nat) /\ Len(wire) = n /\ \A i \in 1 .. n : wire[i] = i
  <2>1. wire \in [1 .. n -> Nat]
    BY <1>2, <1>3
  <2> QED
    BY <1>2, <1>3, <2>1
<1>5. Requests(<<>>, n) /\ \A s : Apart(s, <<>>) /\ Apart(<<>>, s)
  BY <1>4 DEF Requests, Apart
<1>6. Requests(wire, n)
  BY <1>4 DEF Requests
<1>7. Places(queue, wire, vec, out_request)
  BY <1>2, <1>3, <1>4, <1>5, <1>6 DEF Places
<1>8. OneWriter /\ RoomKept
  BY <1>2 DEF OneWriter, RoomKept, Polls
<1>9. Received
  BY <1>2, <1>3, <1>4 DEF Received
<1>10. Asked
  <2>1. ASSUME NEW t \in Thread, NEW i \in 1 .. Len(mine[t]) PROVE mine[t][i] \in 1 .. n
    <3>1. prog.issued[t] \in Seq(Nat)
      BY <1>2, ThreadsAssumption DEF Program
    <3>2. i \in DOMAIN prog.issued[t]
      BY <1>2, <2>1, <3>1, LenProperties
    <3>3. prog.issued[t][i] \in AllIssued(prog)
      BY <3>2 DEF AllIssued
    <3>4. AllIssued(prog) = 1 .. n
      BY <1>1, <1>2, ThreadsAssumption
    <3> QED
      BY <1>2, <3>3, <3>4
  <2> QED
    BY <1>2, <1>3, <2>1 DEF Asked
<1> QED
  BY <1>2, <1>7, <1>8, <1>9, <1>10 DEF NumberInv

\* Each request is in one place at most, at whatever point the threads are,
\* with socket owners and when the connection breaks; and one thread at most
\* is in poll() to write.
THEOREM RequestsHaveOnePlace == Spec => []NumberInv
<1>1. Init => NumberInv
  BY NumberInvInit
<1>2. ThreadInv /\ NumberInv /\ [Next]_vars => NumberInv'
  BY NumberInvStep, NumberInvServer DEF Next
<1> QED
  BY <1>1, <1>2, ThreadsConsistent, PTL DEF Spec

\* Types: the threads are where the code can be, c->in.reading and
\* c->out.writing count the threads in poll(), the list of readers holds the
\* threads in xcb_wait_for_reply, and no number is ahead of c->out.request.
THEOREM ThreadsTyped == Spec => []ThreadsTypeOK
<1>1. ThreadInv /\ NumberInv => ThreadsTypeOK
  <2> SUFFICES ASSUME ThreadInv, NumberInv PROVE ThreadsTypeOK
    OBVIOUS
  <2>1. /\ pc \in [Thread -> Label] /\ script \in [Thread -> Seq(Call)]
        /\ cv \in [Thread -> {"none", "out", "socket", "reader", "event"}]
    BY DEF ThreadInv, ThrTypes, Waiting
  <2>2. request \in [Thread -> 0 .. out_request]
    BY DEF ThreadInv, ThrTypes, NumberInv, Asked
  <2>3. /\ reading = Cardinality({t \in Thread : pc[t] \in Polling})
        /\ writing = Cardinality({t \in Thread : pc[t] \in {"poll_write", "polled_write"}})
    BY DEF ThreadInv, Counted, In
  <2>4. \A t \in readers : Within(t, {"reply", "sync_reply"})
    <3> SUFFICES ASSUME NEW t \in readers PROVE Within(t, {"reply", "sync_reply"})
      OBVIOUS
    <3>1. t \in Thread
      BY DEF ThreadInv, ThrTypes
    <3>2. pc[t] \in {"reply_loop", "poll_read", "polled_read"} /\ Head(script[t]) \in Replying
      BY <3>1 DEF ThreadInv, AllConsistent, Consistent
    <3> QED
      BY <3>2 DEF Within, Op, Replying
  <2>5. /\ request_written \in 0 .. out_request /\ request_expected \in 0 .. out_request
        /\ request_read \in 0 .. out_request /\ stored \subseteq 1 .. out_request
        /\ lock \in Thread \cup {NoThread}
    BY DEF NumberInv, Received, Asked
  <2> QED
    BY <2>1, <2>2, <2>3, <2>4, <2>5 DEF ThreadsTypeOK
<1> QED
  BY <1>1, ThreadsConsistent, RequestsHaveOnePlace, PTL
-----------------------------------------------------------------------------
(***************************************************************************)
(* The output, while nobody takes the socket with xcb_take_socket:         *)
(* requests reach the socket in the order of their numbers,                *)
(* c->out.request_written never runs ahead of it, and no assertion of the  *)
(* code fails.                                                             *)
(***************************************************************************)

PlainCall == Call \ {"take_socket", "writev"}

\* Nobody takes the socket.  With an owner the assertion of write_vec can
\* fail when two threads get the socket back at the same time.
NoOwner ==
    \A p \in Programs : ~p.owned /\ p.script \in [Thread -> Seq(PlainCall)]
-----------------------------------------------------------------------------
(* The invariant                                                           *)

FlowTypes ==
    /\ prog \in Programs /\ owned = FALSE /\ script \in [Thread -> Seq(PlainCall)]
    /\ lock \in Thread \cup {NoThread} /\ closed \in BOOLEAN /\ has_error \in BOOLEAN
    /\ queue \in Seq(Nat) /\ wire \in Seq(Nat) /\ vec \in [Thread -> Seq(Nat)]
    /\ served \in Nat /\ request_written \in Nat
    /\ revents \in [Thread -> SUBSET {"IN", "OUT", "HUP"}]

\* Labels that are reached with the lock and left with or without it.
Locked == {"get_back", "number", "out_send", "flush_to", "reply_add"}

\* A thread at one of these labels has taken the queue out of the others' reach.
Writing == {"out_send"} \cup Polls

Owning == {"callback", "got_back", "take_own", "writev"}

Bounded(s, n) == \A i \in 1 .. Len(s) : s[i] <= n

\* What a thread at a label may rely on.
FlowMe(t) ==
    /\ pc[t] \notin Owning
    /\ pc[t] \in Locked => lock = t /\ cv[t] = "none"
    /\ pc[t] \in {"get_back", "number", "out_send"} => writing = 0
    /\ pc[t] \in Writing => queue = <<>>
    /\ vec[t] # <<>> => pc[t] \in Writing
    /\ "OUT" \in revents[t] => pc[t] = "polled_write" /\ Writable
    /\ "HUP" \in revents[t] => has_error
    /\ ~ret[t] => has_error
    /\ request[t] <= out_request /\ Bounded(mine[t], out_request)
    /\ pc[t] = "flush_wait" => request[t] + Len(queue) <= out_request

\* s holds the requests from + 1, ..., to.
Consecutive(s, from, to) ==
    Len(s) = to - from /\ \A i \in 1 .. Len(s) : s[i] = from + i

\* Each request is on the wire, in the hands of the one that writes, or in
\* the queue, in this order.
Content ==
    /\ WireInOrder
    /\ ~has_error => /\ \A t \in Thread :
                           vec[t] # <<>> => Consecutive(vec[t], Len(wire), out_request)
                     /\ (\A t \in Thread : vec[t] = <<>>) =>
                           Consecutive(queue, Len(wire), out_request)

Written ==
    /\ WrittenIsOnWire /\ request_written <= out_request
    /\ (\A t \in Thread : pc[t] \notin Writing) =>
           request_written + Len(queue) = out_request

FlowInv ==
    /\ FlowTypes /\ (\A t \in Thread : FlowMe(t)) /\ OneWriter
    /\ has_error => closed
    /\ Content /\ Written /\ failed = {}
-----------------------------------------------------------------------------
(* Steps that leave the output alone                                       *)

QuietOf(t) ==
    /\ UNCHANGED <<prog, queue, vec, wire, served, closed, out_request, request_written,
                   writing, owned, failed>>
    /\ pc[t] \notin Writing /\ pc'[t] \notin Writing \cup Owning
    /\ pc'[t] \in {"get_back", "number"} => writing = 0
    /\ lock' \in Thread \cup {NoThread}
    /\ \/ lock \in {t, NoThread} /\ (pc'[t] \in Locked => lock' = t /\ cv'[t] = "none")
       \/ lock' = lock /\ pc'[t] \notin Locked
    /\ request'[t] <= out_request /\ Bounded(mine'[t], out_request)
    /\ pc'[t] = "flush_wait" => request'[t] + Len(queue) <= out_request
    /\ has_error' \in BOOLEAN /\ (has_error => has_error') /\ (has_error' => closed)
    /\ ~ret'[t] => has_error'
    /\ revents' \in [Thread -> SUBSET {"IN", "OUT", "HUP"}]
    /\ \A u \in Thread \ {t} : revents'[u] = revents[u]
    /\ "OUT" \notin revents'[t] /\ ("HUP" \in revents'[t] => has_error')
    /\ script'[t] \in Seq(PlainCall)

\* Another thread holds the lock at these labels.
LEMMA OthersUnlocked ==
    ASSUME FlowInv, NEW t \in Thread, lock \in {t, NoThread}, NEW u \in Thread, u # t
    PROVE  pc[u] \notin Locked
BY ThreadsAssumption DEF FlowInv, FlowMe

LEMMA QuietFlow ==
    ASSUME ThrTypes, FlowInv, NEW t \in Thread, Stepped(t), QuietOf(t)
    PROVE  FlowInv'
<1>1. UNCHANGED <<prog, queue, vec, wire, served, closed, out_request, request_written,
                  writing, owned, failed>>
  BY DEF QuietOf
<1>2. FlowTypes'
  <2>1. script' \in [Thread -> Seq(PlainCall)]
    BY DEF FlowInv, FlowTypes, QuietOf, Stepped, ThrTypes, Own
  <2> QED
    BY <1>1, <2>1 DEF FlowInv, FlowTypes, QuietOf
<1>3. Writable' <=> Writable
  BY <1>1 DEF Writable
<1>4. FlowMe(t)'
  <2>1. vec[t] = <<>>
    BY DEF FlowInv, FlowMe, QuietOf
  <2> QED
    BY <1>1, <2>1 DEF FlowMe, QuietOf, Locked, Writing
<1>5. ASSUME NEW u \in Thread, u # t
      PROVE  FlowMe(u)'
  <2>1. FlowMe(u)
    BY DEF FlowInv
  <2>2. /\ pc'[u] = pc[u] /\ ret'[u] = ret[u] /\ request'[u] = request[u]
        /\ mine'[u] = mine[u] /\ cv'[u] \in {cv[u], "none"} /\ revents'[u] = revents[u]
    BY <1>5 DEF Stepped, Own, QuietOf
  <2>3. pc[u] \in Locked => lock' = u /\ cv'[u] = "none"
    BY <1>5, <2>1, <2>2, OthersUnlocked DEF QuietOf, FlowMe
  <2>4. has_error => has_error'
    BY DEF QuietOf
  <2> QED
    BY <1>1, <1>3, <2>1, <2>2, <2>3, <2>4 DEF FlowMe
<1>6. \A u \in Thread : pc'[u] \in Writing <=> pc[u] \in Writing
  BY DEF QuietOf, Stepped, Own
<1>7. OneWriter'
  <2>1. \A u \in Thread : pc'[u] \in Polls => u # t /\ pc[u] \in Polls
    BY DEF QuietOf, Stepped, Own, Writing
  <2> QED
    BY <2>1 DEF FlowInv, OneWriter
<1>8. Content'
  BY <1>1 DEF FlowInv, Content, WireInOrder, QuietOf
<1>9. Written'
  BY <1>1, <1>6 DEF FlowInv, Written, WrittenIsOnWire, QuietOf
<1> QED
  BY <1>1, <1>2, <1>4, <1>5, <1>7, <1>8, <1>9 DEF FlowInv, QuietOf

\* What the thread knows of itself.
LEMMA FlowSelf ==
    ASSUME ThrTypes, FlowInv, NEW t \in Thread
    PROVE  /\ FlowMe(t) /\ FlowTypes /\ (has_error => closed)
           /\ request[t] \in Nat /\ out_request \in Nat /\ Len(queue) \in Nat
           /\ script[t] \in Seq(PlainCall)
           /\ script[t] # <<>> => Op(t) \in PlainCall /\ Tail(script[t]) \in Seq(PlainCall)
<1>1. script[t] \in Seq(PlainCall) /\ queue \in Seq(Nat)
  BY DEF FlowInv, FlowTypes
<1>2. script[t] # <<>> => Op(t) \in PlainCall /\ Tail(script[t]) \in Seq(PlainCall)
  BY <1>1, HeadTailProperties DEF Op
<1>3. Len(queue) \in Nat
  BY <1>1, LenProperties
<1> QED
  BY <1>1, <1>2, <1>3 DEF FlowInv, ThrTypes

\* What a step that leaves the output alone shares with the others.
SameFlow(t) ==
    /\ UNCHANGED <<prog, queue, vec, wire, served, closed, out_request, request_written,
                   writing, owned, failed>>
    /\ pc[t] \notin Writing
    /\ UNCHANGED <<has_error, revents>>

\* The step goes from label to label with the lock, and need not wake up.
LEMMA QuietKept ==
    ASSUME ThrTypes, FlowInv, NEW t \in Thread, SameFlow(t),
           pc'[t] \notin Writing \cup Owning,
           pc'[t] \in {"get_back", "number"} => writing = 0,
           lock' \in Thread \cup {NoThread},
           \/ lock \in {t, NoThread} /\ (pc'[t] \in Locked => lock' = t /\ cv'[t] = "none")
           \/ lock' = lock /\ pc'[t] \notin Locked,
           request'[t] <= out_request, Bounded(mine'[t], out_request),
           pc'[t] = "flush_wait" => request'[t] + Len(queue) <= out_request,
           ret'[t] = ret[t] \/ ret'[t] = TRUE,
           script'[t] \in Seq(PlainCall)
    PROVE  QuietOf(t)
<1>1. FlowMe(t) /\ FlowTypes /\ (has_error => closed)
  BY FlowSelf
<1>2. "OUT" \notin revents[t]
  BY <1>1 DEF FlowMe, SameFlow, Writing, Polls
<1> QED
  BY <1>1, <1>2 DEF FlowTypes, FlowMe, QuietOf, SameFlow
-----------------------------------------------------------------------------
LEMMA WritingCounts ==
    ASSUME Counted, NEW u \in Thread, pc[u] \in Polls
    PROVE  writing \in Nat /\ writing > 0
<1>1. IsFiniteSet(In(pc, Polls)) /\ Cardinality(In(pc, Polls)) \in Nat
  BY InFinite
<1>2. In(pc, Polls) # {}
  BY DEF In
<1>3. Cardinality(In(pc, Polls)) # 0
  BY <1>1, <1>2, FS_EmptySet
<1> QED
  BY <1>1, <1>3 DEF Counted, Polls

LEMMA CallQuiet ==
    ASSUME ThrTypes, FlowInv, NEW t \in Thread, call(t), UNCHANGED prog
    PROVE  QuietOf(t)
<1>1. FlowMe(t) /\ FlowTypes /\ Op(t) \in PlainCall /\ script[t] \in Seq(PlainCall)
  BY FlowSelf DEF call
<1>2. entry[Op(t)] \in {"send", "flush", "reply", "event_loop", "poll_event", "check"}
  BY <1>1 DEF entry, PlainCall, Call
<1>3. /\ pc'[t] = entry[Op(t)] /\ ret'[t] = TRUE /\ lock' = lock
      /\ UNCHANGED <<script, mine, request>>
  BY DEF call, goto, ThrTypes
<1>4. SameFlow(t)
  BY DEF call, SameFlow, outvars, srvvars, Writing, Polls
<1> QED
  BY <1>1, <1>2, <1>3, <1>4, QuietKept DEF FlowTypes, FlowMe, Writing, Polls, Owning, Locked

LEMMA RefuseQuiet ==
    ASSUME ThrTypes, FlowInv, NEW t \in Thread, refuse(t), UNCHANGED prog
    PROVE  QuietOf(t)
<1>1. FlowMe(t) /\ FlowTypes /\ Tail(script[t]) \in Seq(PlainCall)
  BY FlowSelf DEF refuse
<1>2. /\ pc'[t] = "idle" /\ lock' = lock /\ mine'[t] = mine[t] /\ ret'[t] = ret[t]
      /\ request'[t] = request[t] /\ script'[t] = Tail(script[t])
  BY DEF refuse, ThrTypes
<1>3. SameFlow(t)
  BY DEF refuse, SameFlow, outvars, srvvars, Writing, Polls
<1>4. request'[t] <= out_request /\ Bounded(mine'[t], out_request)
  BY <1>1, <1>2 DEF FlowMe
<1>5. pc'[t] \notin Writing \cup Owning \cup Locked /\ lock' \in Thread \cup {NoThread}
  BY <1>1, <1>2 DEF FlowTypes, Writing, Polls, Owning, Locked
<1> QED
  BY <1>1, <1>2, <1>3, <1>4, <1>5, QuietKept

LEMMA FlushQuiet ==
    ASSUME ThrTypes, FlowInv, NEW t \in Thread, xcb_flush(t), UNCHANGED prog
    PROVE  QuietOf(t)
<1>1. FlowMe(t) /\ FlowTypes /\ script[t] \in Seq(PlainCall) /\ out_request \in Nat
  BY FlowSelf
<1>2. /\ pc'[t] = "flush_to" /\ lock \in {t, NoThread} /\ lock' = t /\ cv'[t] = "none"
      /\ UNCHANGED <<mine, ret, script>> /\ request'[t] = out_request
  BY DEF xcb_flush, ThrTypes, At, goto
<1>3. SameFlow(t)
  BY DEF xcb_flush, SameFlow, outvars, srvvars, Writing, Polls, At
<1>4. request'[t] <= out_request /\ Bounded(mine'[t], out_request)
  BY <1>1, <1>2 DEF FlowMe
<1>5. pc'[t] \notin Writing \cup Owning /\ ret'[t] = ret[t] /\ script'[t] = script[t]
  BY <1>2 DEF Writing, Polls, Owning
<1> QED
  BY <1>1, <1>2, <1>3, <1>4, <1>5, QuietKept

\* after_flush in a call that is not xcb_take_socket
FlushedTo(t) ==
    /\ pc'[t] \in {"idle", "reply_add", "reply_loop"} /\ lock' \in {t, NoThread}
    /\ pc'[t] = "reply_add" => lock' = t
    /\ request'[t] \in {request[t], 0} /\ script'[t] \in Seq(PlainCall)

LEMMA FlushedPart ==
    ASSUME ThrTypes, FlowInv, NEW t \in Thread, script[t] # <<>>, NEW ok \in BOOLEAN,
           after_flush(t, ok)
    PROVE  FlushedTo(t)
<1>1. Op(t) \in PlainCall /\ Tail(script[t]) \in Seq(PlainCall) /\ script[t] \in Seq(PlainCall)
  BY FlowSelf
<1>2. Op(t) # "take_socket"
  BY <1>1 DEF PlainCall
<1>3. \/ proceed(t, "reply_add") \/ proceed(t, "reply_loop") \/ return(t)
  BY <1>2 DEF after_flush
<1> QED
  BY <1>1, <1>3 DEF proceed, return, goto, ThrTypes, FlushedTo

\* _xcb_out_flush_to without anything in the queue to write
LEMMA FlushToQuiet ==
    ASSUME ThrTypes, FlowInv, NEW t \in Thread, Me(t), flush_to(t), UNCHANGED prog,
           ~(request_written < request[t] /\ queue # <<>>)
    PROVE  QuietOf(t)
<1>1. /\ FlowMe(t) /\ FlowTypes /\ script[t] \in Seq(PlainCall) /\ out_request \in Nat
      /\ request[t] \in Nat /\ request_written \in Nat
  BY FlowSelf DEF FlowTypes
<1>2. /\ pc[t] = "flush_to" /\ lock \in {t, NoThread} /\ cv[t] = "none" /\ script[t] # <<>>
      /\ UNCHANGED <<mine, ret, cv>>
  BY DEF flush_to, At, Me, Consistent
<1>3. SameFlow(t)
  BY <1>1, <1>2 DEF flush_to, SameFlow, srvvars, Writing, Polls
<1>4. CASE after_flush(t, TRUE)
  <2>1. FlushedTo(t)
    BY <1>2, <1>4, FlushedPart
  <2> QED
    BY <1>1, <1>2, <1>3, <2>1, QuietKept
       DEF FlushedTo, FlowMe, Writing, Polls, Owning, Locked
<1>5. CASE queue = <<>> /\ proceed(t, "flush_wait")
  <2>1. /\ pc'[t] = "flush_wait" /\ lock' = t /\ UNCHANGED <<script, request>>
    BY <1>5 DEF proceed, goto, ThrTypes
  <2>2. Len(queue) = 0
    BY <1>5
  <2> QED
    BY <1>1, <1>2, <1>3, <2>1, <2>2, QuietKept DEF FlowMe, Writing, Polls, Owning, Locked
<1> QED
  BY <1>1, <1>4, <1>5 DEF flush_to

\* A thread that another one has written for: the request is written when it
\* goes on, so the assertion in _xcb_out_flush_to holds.
LEMMA FlushWaitQuiet ==
    ASSUME ThrTypes, Counted, FlowInv, NEW t \in Thread, Me(t), flush_wait(t),
           UNCHANGED prog
    PROVE  QuietOf(t)
<1>1. /\ FlowMe(t) /\ FlowTypes /\ script[t] \in Seq(PlainCall) /\ out_request \in Nat
      /\ request[t] \in Nat /\ request_written \in Nat /\ Len(queue) \in Nat
  BY FlowSelf DEF FlowTypes
<1>2. /\ pc[t] = "flush_wait" /\ lock \in {t, NoThread} /\ cv[t] = "none"
      /\ script[t] # <<>> /\ UNCHANGED <<mine, ret>>
  BY DEF flush_wait, At, Me, Consistent
<1>3. failed' = failed => SameFlow(t)
  BY <1>2 DEF flush_wait, SameFlow, srvvars, outvars, Writing, Polls
<1>4. CASE cond_wait(t, "out") /\ UNCHANGED <<pc, script, request, failed>>
  <2>1. lock' = NoThread
    BY <1>4 DEF cond_wait
  <2> QED
    BY <1>1, <1>2, <1>3, <1>4, <2>1, QuietKept DEF FlowMe, Writing, Polls, Owning, Locked
<1>5. CASE /\ writing = 0 /\ after_flush(t, TRUE) /\ UNCHANGED cv
           /\ failed' = IF request_written >= request[t] THEN failed
                        ELSE failed \cup {"flush_to request_written"}
  <2>1. \A u \in Thread : pc[u] \notin Writing
    <3>1. \A u \in Thread : pc[u] \notin Polls
      <4>1. writing = 0
        BY <1>5
      <4>2. ASSUME NEW u \in Thread, pc[u] \in Polls PROVE FALSE
        <5>1. writing > 0
          BY <4>2, WritingCounts
        <5> QED
          BY <4>1, <5>1
      <4> QED
        BY <4>2
    <3>2. \A u \in Thread : pc[u] # "out_send"
      BY <1>2, OthersUnlocked DEF Locked
    <3> QED
      BY <3>1, <3>2 DEF Writing
  <2>2. request_written + Len(queue) = out_request
    BY <2>1 DEF FlowInv, Written
  <2>3. request[t] + Len(queue) <= out_request
    BY <1>1, <1>2 DEF FlowMe
  <2>4. request_written >= request[t]
    BY <1>1, <2>2, <2>3
  <2>5. SameFlow(t)
    BY <1>3, <1>5, <2>4
  <2>6. FlushedTo(t)
    BY <1>2, <1>5, FlushedPart
  <2>7. ret'[t] = ret[t] /\ mine'[t] = mine[t] /\ cv'[t] = "none"
    BY <1>2, <1>5
  <2>8. request'[t] <= out_request /\ Bounded(mine'[t], out_request)
    BY <1>1, <2>6, <2>7 DEF FlushedTo, FlowMe
  <2>9. /\ pc'[t] \notin Writing \cup Owning \cup {"get_back", "number", "flush_wait"}
        /\ lock' \in Thread \cup {NoThread} /\ (pc'[t] \in Locked => lock' = t)
        /\ script'[t] \in Seq(PlainCall)
    BY <2>6 DEF FlushedTo, Writing, Polls, Owning, Locked
  <2> QED
    BY <1>2, <2>5, <2>7, <2>8, <2>9, QuietKept
<1> QED
  BY <1>4, <1>5 DEF flush_wait

LEMMA SendWaitQuiet ==
    ASSUME ThrTypes, Counted, FlowInv, NEW t \in Thread, send_wait(t), UNCHANGED prog
    PROVE  QuietOf(t)
<1>1. FlowMe(t) /\ FlowTypes /\ script[t] \in Seq(PlainCall)
  BY FlowSelf
<1>2. /\ pc[t] = "send" /\ lock \in {t, NoThread} /\ cv[t] = "none"
      /\ UNCHANGED <<mine, ret>>
  BY DEF send_wait, At
<1>3. SameFlow(t)
  BY <1>2 DEF send_wait, SameFlow, srvvars, outvars, Writing, Polls
<1>4. CASE cond_wait(t, "out") /\ UNCHANGED <<pc, script, request>>
  <2>1. lock' = NoThread
    BY <1>4 DEF cond_wait
  <2> QED
    BY <1>1, <1>2, <1>3, <1>4, <2>1, QuietKept DEF FlowMe, Writing, Polls, Owning, Locked
<1>5. CASE ~(writing > 0) /\ proceed(t, "get_back") /\ UNCHANGED cv
  <2>1. writing = 0
    <3>1. writing \in Nat
      BY InFinite DEF Counted
    <3> QED
      BY <1>5, <3>1
  <2>2. pc'[t] = "get_back" /\ lock' = t /\ UNCHANGED <<script, request>>
    BY <1>5 DEF proceed, goto, ThrTypes
  <2> QED
    BY <1>1, <1>2, <1>3, <1>5, <2>1, <2>2, QuietKept
       DEF FlowMe, Writing, Polls, Owning, Locked
<1> QED
  BY <1>4, <1>5 DEF send_wait, must_wait

LEMMA GetBackQuiet ==
    ASSUME ThrTypes, FlowInv, NEW t \in Thread, Me(t), get_socket_back(t), UNCHANGED prog
    PROVE  QuietOf(t)
<1>1. FlowMe(t) /\ FlowTypes /\ script[t] \in Seq(PlainCall) /\ ~owned
  BY FlowSelf DEF FlowTypes
<1>2. /\ pc[t] = "get_back" /\ lock \in {t, NoThread} /\ cv[t] = "none"
      /\ script[t] # <<>> /\ UNCHANGED <<mine, ret, script>>
  BY DEF get_socket_back, At, Me, Consistent
<1>3. Op(t) \in PlainCall
  BY <1>2, FlowSelf
<1>4. SameFlow(t)
  BY <1>2 DEF get_socket_back, SameFlow, srvvars, Writing, Polls
<1>5. lock' = t /\ after_back(t) /\ UNCHANGED cv
  BY <1>1 DEF get_socket_back
<1>6. pc'[t] = "number" /\ request' = request
  BY <1>3, <1>5 DEF after_back, goto, ThrTypes, PlainCall
<1> QED
  BY <1>1, <1>2, <1>4, <1>5, <1>6, QuietKept DEF FlowMe, Writing, Polls, Owning, Locked

LEMMA WaitForReplyQuiet ==
    ASSUME ThrTypes, FlowInv, NEW t \in Thread, Me(t), xcb_wait_for_reply(t), UNCHANGED prog
    PROVE  QuietOf(t)
<1>1. FlowMe(t) /\ FlowTypes /\ script[t] \in Seq(PlainCall) /\ ~owned
  BY FlowSelf DEF FlowTypes
<1>2. /\ pc[t] = "reply" /\ lock \in {t, NoThread} /\ cv'[t] = "none" /\ mine[t] # <<>>
      /\ UNCHANGED <<mine, ret, script>> /\ lock' = t
  BY DEF xcb_wait_for_reply, At, Me, Consistent
<1>3. SameFlow(t)
  BY <1>2 DEF xcb_wait_for_reply, SameFlow, srvvars, outvars, Writing, Polls
<1>4. pc'[t] = "flush_to"
  BY <1>1 DEF xcb_wait_for_reply, goto, ThrTypes
<1>5. request'[t] <= out_request
  <2>1. mine[t] \in Seq(Nat)
    BY DEF ThrTypes
  <2>2. Len(mine[t]) \in Nat /\ Len(mine[t]) > 0 /\ Head(mine[t]) = mine[t][1]
    BY <1>2, <2>1, LenProperties, EmptySeq
  <2>3. mine[t][1] <= out_request /\ mine[t][Len(mine[t])] <= out_request
    BY <1>1, <2>2 DEF FlowMe, Bounded
  <2>4. request'[t] \in {Head(mine[t]), mine[t][Len(mine[t])]}
    BY DEF xcb_wait_for_reply, ThrTypes
  <2> QED
    BY <2>2, <2>3, <2>4
<1> QED
  BY <1>1, <1>2, <1>3, <1>4, <1>5, QuietKept DEF FlowMe, Writing, Polls, Owning, Locked

LEMMA ReplyAddQuiet ==
    ASSUME ThrTypes, FlowInv, NEW t \in Thread, reply_add(t), UNCHANGED prog
    PROVE  QuietOf(t)
<1>1. FlowMe(t) /\ FlowTypes /\ script[t] \in Seq(PlainCall)
  BY FlowSelf
<1>2. /\ pc[t] = "reply_add" /\ lock \in {t, NoThread} /\ lock' = t /\ pc'[t] = "reply_loop"
      /\ UNCHANGED <<mine, ret, script, request>>
  BY DEF reply_add, At, proceed, goto, ThrTypes
<1>3. SameFlow(t)
  BY <1>2 DEF reply_add, SameFlow, srvvars, outvars, Writing, Polls
<1> QED
  BY <1>1, <1>2, <1>3, QuietKept DEF FlowMe, Writing, Polls, Owning, Locked

\* A thread waits in _xcb_conn_wait, or goes to poll(), to read.
LEMMA ReadWaitQuiet ==
    ASSUME ThrTypes, FlowInv, NEW t \in Thread, NEW c \in Waiting, conn_wait(t, c, FALSE),
           SameFlow(t) \/ writing' # writing, lock \in {t, NoThread}, pc[t] \in {"reply_loop", "event_loop"},
           UNCHANGED <<script, request, mine>>
    PROVE  QuietOf(t)
<1>1. FlowMe(t) /\ FlowTypes /\ script[t] \in Seq(PlainCall)
  BY FlowSelf
<1>2. writing' = writing /\ lock' = NoThread
  BY DEF conn_wait, cond_wait
<1>3. ConnWait(t, c, FALSE)
  BY ConnWaitPart
<1>4. pc'[t] \in {pc[t], "poll_read"} /\ (ret'[t] = ret[t] \/ ret'[t] = TRUE)
  BY <1>3 DEF ConnWait
<1> QED
  BY <1>1, <1>2, <1>4, QuietKept DEF FlowMe, Writing, Polls, Owning, Locked

LEMMA ReplyLoopQuiet ==
    ASSUME ThrTypes, FlowInv, NEW t \in Thread, Me(t), reply_loop(t), UNCHANGED prog
    PROVE  QuietOf(t)
<1>1. /\ FlowMe(t) /\ FlowTypes /\ out_request \in Nat
      /\ script[t] # <<>> => Tail(script[t]) \in Seq(PlainCall)
  BY FlowSelf
<1>2. /\ pc[t] = "reply_loop" /\ lock \in {t, NoThread} /\ script[t] # <<>>
      /\ writing' = writing => SameFlow(t)
  BY DEF reply_loop, At, Me, Consistent, SameFlow, outvars, srvvars, Writing, Polls
<1>3. CASE conn_wait(t, "reader", FALSE) /\ UNCHANGED <<script, request, mine>>
  BY <1>2, <1>3, ReadWaitQuiet DEF Waiting
<1>4. CASE /\ mine' = [mine EXCEPT ![t] = IF Op(t) = "reply" THEN SubSeq(@, 2, Len(@))
                                          ELSE SubSeq(@, 1, Len(@) - 1)]
           /\ return(t) /\ UNCHANGED <<ret, writing>>
  <2>1. /\ pc'[t] = "idle" /\ lock' = NoThread /\ request'[t] = 0
        /\ script'[t] = Tail(script[t])
    BY <1>4 DEF return, goto, ThrTypes
  <2>2. Bounded(mine'[t], out_request)
    <3> DEFINE m == mine[t]
    <3>1. m \in Seq(Nat) /\ Len(m) \in Nat
      BY LenProperties DEF ThrTypes
    <3>2. \A i \in 1 .. Len(m) : m[i] <= out_request
      BY <1>1 DEF FlowMe, Bounded
    <3>3. \A i \in 1 .. Len(m) : m[i] \in Nat
      BY <3>1, ElementOfSeq
    <3>4. mine'[t] \in {SubSeq(m, 2, Len(m)), SubSeq(m, 1, Len(m) - 1)}
      BY <1>4 DEF ThrTypes
    <3> HIDE DEF m
    <3>5. Bounded(SubSeq(m, 2, Len(m)), out_request)
      <4>1. /\ Len(SubSeq(m, 2, Len(m))) = IF 2 <= Len(m) THEN Len(m) - 1 ELSE 0
            /\ \A i \in 1 .. Len(m) - 1 : SubSeq(m, 2, Len(m))[i] = m[i + 1]
        BY <3>1, <3>3, SubSeqProperties
      <4> QED
        BY <3>1, <3>2, <4>1 DEF Bounded
    <3>6. Bounded(SubSeq(m, 1, Len(m) - 1), out_request)
      <4>1. /\ Len(SubSeq(m, 1, Len(m) - 1)) = IF 1 <= Len(m) - 1 THEN Len(m) - 1 ELSE 0
            /\ \A i \in 1 .. Len(m) - 1 : SubSeq(m, 1, Len(m) - 1)[i] = m[i]
        BY <3>1, <3>3, SubSeqProperties
      <4> QED
        BY <3>1, <3>2, <4>1 DEF Bounded
    <3> QED
      BY <3>4, <3>5, <3>6
  <2>3. SameFlow(t) /\ ret'[t] = ret[t]
    BY <1>2, <1>4
  <2>4. request'[t] <= out_request /\ script'[t] \in Seq(PlainCall)
    BY <1>1, <1>2, <2>1
  <2>5. pc'[t] \notin Writing \cup Owning \cup Locked /\ lock' \in Thread \cup {NoThread}
    BY <2>1 DEF Writing, Polls, Owning, Locked
  <2> QED
    BY <1>2, <2>1, <2>2, <2>3, <2>4, <2>5, QuietKept
<1> QED
  BY <1>3, <1>4 DEF reply_loop

LEMMA EventLoopQuiet ==
    ASSUME ThrTypes, FlowInv, NEW t \in Thread, Me(t), event_loop(t), UNCHANGED prog
    PROVE  QuietOf(t)
<1>1. /\ FlowMe(t) /\ FlowTypes /\ out_request \in Nat
      /\ script[t] # <<>> => Tail(script[t]) \in Seq(PlainCall)
  BY FlowSelf
<1>2. /\ pc[t] = "event_loop" /\ lock \in {t, NoThread} /\ script[t] # <<>>
      /\ mine' = mine /\ (writing' = writing => SameFlow(t))
  BY DEF event_loop, At, Me, Consistent, SameFlow, outvars, srvvars, Writing, Polls
<1>3. CASE conn_wait(t, "event", FALSE) /\ UNCHANGED <<script, request>>
  BY <1>2, <1>3, ReadWaitQuiet DEF Waiting
<1>4. CASE return(t) /\ UNCHANGED <<ret, writing>>
  <2>1. /\ pc'[t] = "idle" /\ lock' = NoThread /\ request'[t] = 0
        /\ script'[t] = Tail(script[t])
    BY <1>4 DEF return, goto, ThrTypes
  <2>2. SameFlow(t) /\ ret'[t] = ret[t] /\ mine'[t] = mine[t]
    BY <1>2, <1>4
  <2>3. /\ request'[t] <= out_request /\ script'[t] \in Seq(PlainCall)
        /\ Bounded(mine'[t], out_request)
    BY <1>1, <1>2, <2>1, <2>2 DEF FlowMe
  <2>4. pc'[t] \notin Writing \cup Owning \cup Locked /\ lock' \in Thread \cup {NoThread}
    BY <2>1 DEF Writing, Polls, Owning, Locked
  <2> QED
    BY <1>2, <2>1, <2>2, <2>3, <2>4, QuietKept
<1> QED
  BY <1>3, <1>4 DEF event_loop

LEMMA PollEventQuiet ==
    ASSUME ThrTypes, FlowInv, NEW t \in Thread, Me(t), poll_event(t), UNCHANGED prog
    PROVE  QuietOf(t)
<1>1. /\ FlowMe(t) /\ FlowTypes /\ out_request \in Nat /\ (has_error => closed)
      /\ script[t] # <<>> => Tail(script[t]) \in Seq(PlainCall)
  BY FlowSelf
<1>2. /\ pc[t] = "poll_event" /\ lock \in {t, NoThread} /\ script[t] # <<>>
      /\ UNCHANGED <<mine, ret, revents>> /\ return(t)
  BY DEF poll_event, At, Me, Consistent
<1>3. /\ pc'[t] = "idle" /\ lock' = NoThread /\ request'[t] = 0
      /\ script'[t] = Tail(script[t])
  BY <1>2 DEF return, goto, ThrTypes
<1>4. /\ has_error' \in BOOLEAN /\ (has_error => has_error') /\ (has_error' => closed)
  BY <1>1 DEF poll_event, FlowTypes, eof
<1>5. UNCHANGED <<queue, vec, wire, served, closed, out_request, request_written,
                  writing, owned, failed>>
  BY DEF poll_event
<1> QED
  BY <1>1, <1>2, <1>3, <1>4, <1>5
     DEF FlowMe, FlowTypes, Writing, Polls, Owning, Locked, QuietOf

LEMMA RequestCheckQuiet ==
    ASSUME ThrTypes, FlowInv, NEW t \in Thread, Me(t), request_check(t), UNCHANGED prog
    PROVE  QuietOf(t)
<1>1. /\ FlowMe(t) /\ FlowTypes
      /\ script[t] # <<>> => Tail(script[t]) \in Seq(PlainCall)
  BY FlowSelf
<1>2. /\ pc[t] = "check" /\ script[t] # <<>> /\ lock' = lock
      /\ UNCHANGED <<mine, ret, request>> /\ pc'[t] = "idle"
  BY DEF request_check, goto, ThrTypes, Me, Consistent
<1>3. SameFlow(t)
  BY <1>2 DEF request_check, SameFlow, srvvars, outvars, Writing, Polls
<1>4. script'[t] \in Seq(PlainCall)
  <2>1. <<"query", "sync_reply", "reply">> \in Seq(PlainCall) /\ <<"reply">> \in Seq(PlainCall)
    BY DEF PlainCall, Call
  <2>2. PICK calls \in Seq(PlainCall) : script' = [script EXCEPT ![t] = calls \o Tail(@)]
    BY <2>1 DEF request_check
  <2>3. script'[t] = calls \o Tail(script[t])
    BY <2>2 DEF ThrTypes
  <2> QED
    BY <1>1, <1>2, <2>3, ConcatProperties
<1> QED
  BY <1>1, <1>2, <1>3, <1>4, QuietKept DEF FlowMe, FlowTypes, Writing, Polls, Owning, Locked
-----------------------------------------------------------------------------
(* Steps that write                                                        *)

InOrder(w) == \A i \in DOMAIN w : w[i] = i

\* Part of what is to be written goes to the wire.
LEMMA MoveToWire ==
    ASSUME NEW w \in Seq(Nat), NEW v \in Seq(Nat), NEW o \in Nat, InOrder(w),
           Consecutive(v, Len(w), o), NEW m \in 0 .. Len(v)
    PROVE  LET w2 == w \o SubSeq(v, 1, m)
               v2 == SubSeq(v, m + 1, Len(v))
           IN  /\ w2 \in Seq(Nat) /\ v2 \in Seq(Nat) /\ Len(w) <= Len(w2)
               /\ InOrder(w2) /\ Consecutive(v2, Len(w2), o)
<1> DEFINE w2 == w \o SubSeq(v, 1, m)
           v2 == SubSeq(v, m + 1, Len(v))
<1>1. Len(w) \in Nat /\ Len(v) \in Nat /\ DOMAIN w = 1 .. Len(w) /\ m \in Nat
  BY LenProperties
<1>2. \A i \in 1 .. Len(v) : v[i] \in Nat
  BY ElementOfSeq
<1>3. /\ SubSeq(v, 1, m) \in Seq(Nat) /\ Len(SubSeq(v, 1, m)) = m
      /\ \A i \in 1 .. m : SubSeq(v, 1, m)[i] = v[i]
  BY <1>1, <1>2, SubSeqProperties
<1>4. /\ v2 \in Seq(Nat) /\ Len(v2) = Len(v) - m
      /\ \A i \in 1 .. Len(v) - m : v2[i] = v[m + i]
  BY <1>1, <1>2, SubSeqProperties
<1>5. /\ w2 \in Seq(Nat) /\ Len(w2) = Len(w) + m
      /\ \A i \in 1 .. Len(w) + m :
            w2[i] = IF i <= Len(w) THEN w[i] ELSE SubSeq(v, 1, m)[i - Len(w)]
  <2> DEFINE p == SubSeq(v, 1, m)
  <2>1. p \in Seq(Nat) /\ Len(p) = m
    BY <1>3
  <2> HIDE DEF p
  <2>2. /\ w \o p \in Seq(Nat) /\ Len(w \o p) = Len(w) + Len(p)
        /\ \A i \in 1 .. Len(w) + Len(p) :
              (w \o p)[i] = IF i <= Len(w) THEN w[i] ELSE p[i - Len(w)]
    BY <2>1, ConcatProperties
  <2>3. w2 = w \o p
    BY DEF p
  <2> HIDE DEF w2
  <2>4. /\ w2 \in Seq(Nat) /\ Len(w2) = Len(w) + m
        /\ \A i \in 1 .. Len(w) + m : w2[i] = IF i <= Len(w) THEN w[i] ELSE p[i - Len(w)]
    BY <2>1, <2>2, <2>3
  <2> QED
    BY <2>4 DEF p
<1>6. \A i \in 1 .. Len(v) : v[i] = Len(w) + i
  BY DEF Consecutive
<1> HIDE DEF w2, v2
<1>7. InOrder(w2)
  <2>1. DOMAIN w2 = 1 .. Len(w) + m
    BY <1>5, LenProperties
  <2>2. ASSUME NEW i \in 1 .. Len(w) + m PROVE w2[i] = i
    <3>1. CASE i <= Len(w)
      <4>1. w2[i] = w[i]
        BY <1>5, <3>1
      <4>2. i \in DOMAIN w
        BY <1>1, <3>1
      <4> QED
        BY <4>1, <4>2 DEF InOrder
    <3>2. CASE i > Len(w)
      <4>1. i - Len(w) \in 1 .. m /\ i - Len(w) \in 1 .. Len(v) /\ ~(i <= Len(w))
        BY <1>1, <3>2
      <4>2. w2[i] = SubSeq(v, 1, m)[i - Len(w)]
        BY <1>5, <4>1
      <4>3. w2[i] = v[i - Len(w)]
        BY <1>3, <4>1, <4>2
      <4> QED
        BY <1>1, <1>6, <4>1, <4>3
    <3> QED
      BY <1>1, <3>1, <3>2
  <2> QED
    BY <2>1, <2>2 DEF InOrder
<1>8. Consecutive(v2, Len(w2), o)
  <2>1. \A i \in 1 .. Len(v) - m : m + i \in 1 .. Len(v)
    BY <1>1
  <2>2. \A i \in 1 .. Len(v) - m : v2[i] = Len(w) + m + i
    BY <1>1, <1>4, <1>6, <2>1
  <2> QED
    BY <1>1, <1>4, <1>5, <2>2 DEF Consecutive
<1> QED
  BY <1>1, <1>4, <1>5, <1>7, <1>8 DEF w2, v2

\* While thread t has the lock, and either writes itself or nobody is in
\* poll() to write, nobody else has anything to write.
LEMMA OnlyWriter ==
    ASSUME ThrTypes, Counted, FlowInv, NEW t \in Thread, lock \in {t, NoThread},
           writing = 0 \/ pc[t] \in Polls, NEW u \in Thread, u # t
    PROVE  pc[u] \notin Writing /\ vec[u] = <<>>
<1>1. pc[u] # "out_send"
  BY OthersUnlocked DEF Locked
<1>2. pc[u] \notin Polls
  <2>1. CASE writing = 0
    BY <2>1, WritingCounts
  <2>2. CASE pc[t] \in Polls
    BY <2>2 DEF FlowInv, OneWriter
  <2> QED
    BY <2>1, <2>2
<1>3. FlowMe(u)
  BY DEF FlowInv
<1> QED
  BY <1>1, <1>2, <1>3 DEF Writing, FlowMe

\* What a step of the only writer leaves to the others.
LEMMA OtherFlow ==
    ASSUME ThrTypes, FlowInv, NEW t \in Thread, Stepped(t), lock \in {t, NoThread},
           NEW u \in Thread, u # t, pc[u] \notin Writing,
           vec'[u] = vec[u], revents'[u] = revents[u], has_error => has_error',
           out_request' \in Nat, out_request' >= out_request, Len(queue') \in Nat,
           out_request' - Len(queue') >= out_request - Len(queue)
    PROVE  FlowMe(u)'
<1>1. FlowMe(u) /\ request[u] \in Nat /\ out_request \in Nat /\ Len(queue) \in Nat
  BY FlowSelf
<1>2. /\ pc'[u] = pc[u] /\ ret'[u] = ret[u] /\ request'[u] = request[u]
      /\ mine'[u] = mine[u]
  BY DEF Stepped, Own
<1>3. pc[u] \notin Locked
  BY OthersUnlocked
<1>4. Bounded(mine[u], out_request')
  <2>1. mine[u] \in Seq(Nat)
    BY DEF ThrTypes
  <2>2. \A i \in 1 .. Len(mine[u]) : mine[u][i] \in Nat
    BY <2>1, ElementOfSeq
  <2>3. \A i \in 1 .. Len(mine[u]) : mine[u][i] <= out_request
    BY <1>1 DEF FlowMe, Bounded
  <2> QED
    BY <1>1, <2>2, <2>3 DEF Bounded
<1>5. /\ vec[u] = <<>> /\ "OUT" \notin revents[u] /\ pc[u] \notin Owning
      /\ "HUP" \in revents[u] => has_error
      /\ ~ret[u] => has_error
  BY <1>1 DEF FlowMe, Writing, Polls
<1>6. request[u] <= out_request'
  BY <1>1 DEF FlowMe
<1>7. pc[u] = "flush_wait" => request[u] + Len(queue') <= out_request'
  BY <1>1 DEF FlowMe
<1>8. pc[u] \notin {"get_back", "number", "out_send"}
  BY <1>3 DEF Locked
<1> QED
  BY <1>2, <1>3, <1>4, <1>5, <1>6, <1>7, <1>8 DEF FlowMe

\* What the only writer has in its hands comes next on the wire.
LEMMA WriterContent ==
    ASSUME FlowInv, NEW t \in Thread, \A u \in Thread \ {t} : vec[u] = <<>>,
           queue = <<>>, ~has_error
    PROVE  Consecutive(vec[t], Len(wire), out_request) /\ InOrder(wire)
<1>1. CASE vec[t] # <<>>
  BY <1>1 DEF FlowInv, Content, WireInOrder, InOrder
<1>2. CASE vec[t] = <<>>
  <2>1. \A u \in Thread : vec[u] = <<>>
    BY <1>2
  <2> QED
    BY <1>2, <2>1 DEF FlowInv, Content, WireInOrder, InOrder
<1> QED
  BY <1>1, <1>2

LEMMA PollFlow ==
    ASSUME ThrTypes, FlowInv, NEW t \in Thread, Me(t), Stepped(t), poll(t), UNCHANGED prog
    PROVE  FlowInv'
<1>1. /\ FlowMe(t) /\ FlowTypes /\ (has_error => closed) /\ script[t] \in Seq(PlainCall)
  BY FlowSelf
<1>2. /\ UNCHANGED <<script, mine, request, vec, ret, cv, lock, writing, queue, wire, served,
                     closed, out_request, request_written, owned, failed>>
  BY DEF poll, outvars, srvvars
<1>3. /\ revents' \in [Thread -> SUBSET {"IN", "OUT", "HUP"}]
      /\ \A u \in Thread \ {t} : revents'[u] = revents[u]
      /\ "OUT" \in revents'[t] => Writable /\ pc[t] = "poll_write"
      /\ "HUP" \in revents'[t] => has_error'
      /\ has_error' \in BOOLEAN /\ (has_error => has_error') /\ (has_error' => closed)
  <2>1. CASE /\ UNCHANGED has_error
             /\ \E r \in SUBSET {"IN", "OUT"} :
                   /\ revents' = [revents EXCEPT ![t] = r]
                   /\ "OUT" \in r => Writable /\ pc[t] = "poll_write"
    BY <1>1, <2>1 DEF FlowTypes
  <2>2. CASE closed /\ revents' = [revents EXCEPT ![t] = {"HUP"}] /\ has_error' = TRUE
    BY <1>1, <2>2 DEF FlowTypes
  <2> DEFINE ready == poll_events(pc[t] = "poll_write") \cap
                          ((IF Readable THEN {"IN"} ELSE {}) \cup
                           (IF Writable THEN {"OUT"} ELSE {}))
  <2>3. ready \in SUBSET {"IN", "OUT"} /\ ("OUT" \in ready => Writable /\ pc[t] = "poll_write")
    BY DEF poll_events
  <2>4. \/ revents' = [revents EXCEPT ![t] = ready] /\ UNCHANGED has_error
        \/ closed /\ revents' = [revents EXCEPT ![t] = {"HUP"}] /\ has_error' = TRUE
    BY Zenon DEF poll
  <2> HIDE DEF ready
  <2> QED
    BY <2>1, <2>2, <2>3, <2>4
<1>4. CASE pc[t] = "poll_read"
  <2>1. pc'[t] = "polled_read"
    BY <1>4 DEF poll, goto, ThrTypes
  <2>2. QuietOf(t)
    BY <1>1, <1>2, <1>3, <1>4, <2>1
       DEF QuietOf, FlowTypes, FlowMe, Writing, Polls, Owning, Locked
  <2> QED
    BY <2>2, QuietFlow
<1>5. CASE pc[t] = "poll_write"
  <2>1. pc'[t] = "polled_write"
    BY <1>5 DEF poll, goto, ThrTypes
  <2>2. FlowTypes'
    BY <1>1, <1>2, <1>3 DEF FlowTypes
  <2>3. Writable' <=> Writable
    BY <1>2 DEF Writable
  <2>4. FlowMe(t)'
    BY <1>1, <1>2, <1>3, <1>5, <2>1, <2>3 DEF FlowMe, Writing, Polls, Owning, Locked
  <2>5. ASSUME NEW u \in Thread, u # t PROVE FlowMe(u)'
    <3>1. FlowMe(u)
      BY DEF FlowInv
    <3>2. pc'[u] = pc[u] /\ revents'[u] = revents[u]
      BY <1>3, <2>5 DEF Stepped, Own
    <3> QED
      BY <1>2, <1>3, <2>3, <3>1, <3>2 DEF FlowMe
  <2>6. \A u \in Thread : /\ pc'[u] \in Polls <=> pc[u] \in Polls
                          /\ pc'[u] \in Writing <=> pc[u] \in Writing
    BY <1>5, <2>1 DEF Stepped, Own, Polls, Writing
  <2>7. OneWriter'
    BY <2>6 DEF FlowInv, OneWriter
  <2>8. Content'
    BY <1>2, <1>3 DEF FlowInv, Content, WireInOrder
  <2>9. Written'
    BY <1>2, <1>3, <2>6 DEF FlowInv, Written, WrittenIsOnWire
  <2> QED
    BY <1>2, <1>3, <2>2, <2>4, <2>5, <2>7, <2>8, <2>9 DEF FlowInv
<1> QED
  BY <1>4, <1>5 DEF poll

\* _xcb_conn_wait after poll(), for a thread that only reads
LEMMA PolledReadFlow ==
    ASSUME ThrTypes, FlowInv, NEW t \in Thread, Me(t), Stepped(t), polled(t),
           pc[t] = "polled_read", UNCHANGED prog
    PROVE  FlowInv'
<1>1. /\ FlowMe(t) /\ FlowTypes /\ (has_error => closed) /\ script[t] \in Seq(PlainCall)
  BY FlowSelf
<1>2. "OUT" \notin revents[t]
  BY <1>1 DEF FlowMe
<1>3. /\ lock \in {t, NoThread} /\ lock' = t /\ writing' = writing
      /\ has_error' = (has_error \/ ~("IN" \in revents[t] => ~eof))
      /\ ret' = [ret EXCEPT ![t] = "HUP" \notin revents[t] /\ ("IN" \in revents[t] => ~eof)]
      /\ revents' = [revents EXCEPT ![t] = {}]
      /\ goto(t, IF Op(t) = "event" THEN "event_loop" ELSE "reply_loop")
      /\ UNCHANGED <<wire, vec, failed, script, mine, request, out_request, request_written,
                     queue, owned, served, closed>>
  BY <1>2 DEF polled, At
<1>4. pc'[t] \in {"event_loop", "reply_loop"}
  BY <1>3 DEF goto, ThrTypes
<1>5. /\ has_error' \in BOOLEAN /\ (has_error => has_error') /\ (has_error' => closed)
      /\ ~ret'[t] => has_error'
  BY <1>1, <1>3 DEF FlowTypes, FlowMe, eof, ThrTypes
<1>6. /\ revents' \in [Thread -> SUBSET {"IN", "OUT", "HUP"}] /\ revents'[t] = {}
      /\ \A u \in Thread \ {t} : revents'[u] = revents[u]
  BY <1>1, <1>3 DEF FlowTypes
<1>7. QuietOf(t)
  BY <1>1, <1>3, <1>4, <1>5, <1>6 DEF QuietOf, FlowTypes, FlowMe, Writing, Polls, Owning, Locked
<1> QED
  BY <1>7, QuietFlow
-----------------------------------------------------------------------------
\* Nobody in poll() to write: c->out.writing is 0.
LEMMA NobodyWrites ==
    ASSUME Counted, \A u \in Thread : pc[u] \notin Polls
    PROVE  writing = 0
<1>1. In(pc, Polls) = {}
  BY DEF In
<1> QED
  BY <1>1, FS_EmptySet DEF Counted, Polls

\* The output after a step of the only writer, which goes on writing.
LEMMA WriterFlow ==
    ASSUME ThrTypes, Counted, FlowInv, NEW t \in Thread, Stepped(t), FlowTypes', FlowMe(t)',
           \A u \in Thread \ {t} : FlowMe(u)' /\ pc[u] \notin Writing /\ vec'[u] = <<>>,
           pc'[t] \in Writing, queue' = <<>>, has_error' => closed',
           InOrder(wire'),
           ~has_error' => /\ Consecutive(vec'[t], Len(wire'), out_request')
                          /\ request_written' <= Len(wire'),
           request_written' <= out_request', failed' = {}
    PROVE  FlowInv'
<1>1. \A u \in Thread \ {t} : pc'[u] \notin Writing
  BY DEF Stepped, Own
<1>2. OneWriter'
  BY <1>1 DEF OneWriter, Writing
<1>3. Content'
  <2>1. WireInOrder'
    BY DEF WireInOrder, InOrder
  <2>2. ASSUME ~has_error', NEW u \in Thread, vec'[u] # <<>>
        PROVE  Consecutive(vec'[u], Len(wire'), out_request')
    BY <2>2
  <2>3. ASSUME ~has_error', \A u \in Thread : vec'[u] = <<>>
        PROVE  Consecutive(queue', Len(wire'), out_request')
    BY <2>3
  <2> QED
    BY <2>1, <2>2, <2>3 DEF Content
<1>4. Written'
  BY DEF Written, WrittenIsOnWire
<1>5. \A u \in Thread : FlowMe(u)'
  OBVIOUS
<1> QED
  BY <1>2, <1>3, <1>4, <1>5 DEF FlowInv

\* The only writer leaves out_send, number or flush_to.
LEMMA WriterLeaves ==
    ASSUME ThrTypes, FlowInv, NEW t \in Thread, Stepped(t), FlowTypes', FlowMe(t)',
           \A u \in Thread \ {t} : FlowMe(u)' /\ pc[u] \notin Writing /\ vec'[u] = <<>>,
           pc'[t] \notin Writing, has_error' => closed', InOrder(wire'),
           ~has_error' => /\ Consecutive(queue', Len(wire'), out_request')
                          /\ request_written' <= Len(wire'),
           request_written' <= out_request',
           request_written' + Len(queue') = out_request', failed' = {}
    PROVE  FlowInv'
<1>1. \A u \in Thread : pc'[u] \notin Writing
  BY DEF Stepped, Own
<1>2. OneWriter'
  BY <1>1 DEF OneWriter, Writing
<1>3. \A u \in Thread : vec'[u] = <<>>
  BY DEF FlowMe
<1>4. Content'
  BY <1>3 DEF Content, WireInOrder, InOrder
<1>5. Written'
  BY DEF Written, WrittenIsOnWire
<1>6. \A u \in Thread : FlowMe(u)'
  OBVIOUS
<1> QED
  BY <1>2, <1>4, <1>5, <1>6 DEF FlowInv

\* _xcb_conn_wait after poll(), for the thread that writes
LEMMA PolledWriteFlow ==
    ASSUME ThrTypes, Counted, Counted', FlowInv, NEW t \in Thread, Stepped(t), polled(t),
           pc[t] = "polled_write", UNCHANGED prog
    PROVE  FlowInv'
<1>1. /\ FlowMe(t) /\ FlowTypes /\ (has_error => closed) /\ out_request \in Nat
      /\ Len(queue) \in Nat
  BY FlowSelf
<1> DEFINE read_ok == "IN" \in revents[t] => ~eof
           writes == "OUT" \in revents[t] /\ read_ok
           write_ok == writes => ~closed
<1>2. /\ lock \in {t, NoThread} /\ lock' = t /\ cv[t] = "none"
      /\ has_error' = (has_error \/ ~read_ok \/ ~write_ok)
      /\ IF writes /\ write_ok THEN write_vec(t) ELSE UNCHANGED <<wire, vec>>
      /\ failed' = IF writes /\ queue # <<>> THEN failed \cup {"write_vec queue_len"}
                   ELSE failed
      /\ ret' = [ret EXCEPT ![t] = "HUP" \notin revents[t] /\ read_ok /\ write_ok]
      /\ revents' = [revents EXCEPT ![t] = {}]
      /\ goto(t, "out_send")
      /\ UNCHANGED <<script, mine, request, out_request, request_written, queue, owned,
                     served, closed>>
  BY DEF polled, At
<1>3. queue = <<>> /\ pc'[t] = "out_send"
  BY <1>1, <1>2 DEF FlowMe, Writing, Polls, goto, ThrTypes
<1>4. \A u \in Thread \ {t} : pc[u] \notin Writing /\ vec[u] = <<>>
  BY <1>2, OnlyWriter DEF Polls
<1>5. /\ has_error' \in BOOLEAN /\ (has_error => has_error') /\ (has_error' => closed)
      /\ ~ret'[t] => has_error'
      /\ ret'[t] \in BOOLEAN
  BY <1>1, <1>2 DEF FlowTypes, FlowMe, eof, ThrTypes
<1>6. /\ wire' \in Seq(Nat) /\ vec' \in [Thread -> Seq(Nat)] /\ InOrder(wire')
      /\ \A u \in Thread \ {t} : vec'[u] = <<>>
      /\ ~has_error' => /\ Consecutive(vec'[t], Len(wire'), out_request)
                        /\ Len(wire) <= Len(wire') /\ Len(wire') \in Nat
  <2>1. CASE writes /\ write_ok
    <3>1. ~closed /\ ~has_error
      BY <1>1, <2>1
    <3>2. Consecutive(vec[t], Len(wire), out_request) /\ InOrder(wire)
      BY <1>3, <1>4, <3>1, WriterContent
    <3>3. wire \in Seq(Nat) /\ vec[t] \in Seq(Nat) /\ vec \in [Thread -> Seq(Nat)]
      BY <1>1 DEF FlowTypes
    <3>4. Len(wire) \in Nat /\ Len(vec[t]) \in Nat
      BY <3>3, LenProperties
    <3> DEFINE m == Smaller(Len(vec[t]), prog.send_cap - (Len(wire) - served))
    <3>5. m \in 0 .. Len(vec[t])
      <4>1. Writable
        BY <1>1, <2>1 DEF FlowMe
      <4>2. prog.send_cap \in Nat /\ served \in Nat
        BY <1>1, ThreadsAssumption DEF FlowTypes, Program
      <4> QED
        BY <3>4, <4>1, <4>2 DEF Writable, Smaller
    <3>6. /\ wire' = wire \o SubSeq(vec[t], 1, m)
          /\ vec' = [vec EXCEPT ![t] = SubSeq(vec[t], m + 1, Len(vec[t]))]
      BY <1>2, <2>1 DEF write_vec
    <3>7. vec'[t] = SubSeq(vec[t], m + 1, Len(vec[t]))
      BY <3>3, <3>6
    <3> HIDE DEF m
    <3>8. /\ wire' \in Seq(Nat) /\ vec'[t] \in Seq(Nat) /\ Len(wire) <= Len(wire')
          /\ InOrder(wire') /\ Consecutive(vec'[t], Len(wire'), out_request)
      BY <1>1, <3>2, <3>3, <3>5, <3>6, <3>7, MoveToWire
    <3>9. Len(wire') \in Nat
      BY <3>8, LenProperties
    <3>10. vec' \in [Thread -> Seq(Nat)] /\ \A u \in Thread \ {t} : vec'[u] = <<>>
      BY <1>4, <3>3, <3>6, <3>7, <3>8
    <3> QED
      BY <3>8, <3>9, <3>10
  <2>2. CASE ~(writes /\ write_ok)
    <3>1. UNCHANGED <<wire, vec>>
      BY <1>2, <2>2
    <3>2. /\ wire \in Seq(Nat) /\ vec \in [Thread -> Seq(Nat)]
          /\ Len(wire) \in Nat
      BY <1>1, LenProperties DEF FlowTypes
    <3>3. ~has_error' => Consecutive(vec[t], Len(wire), out_request)
      BY <1>3, <1>4, <1>5, WriterContent
    <3>4. InOrder(wire)
      BY DEF FlowInv, Content, WireInOrder, InOrder
    <3> QED
      BY <1>4, <3>1, <3>2, <3>3, <3>4
  <2> QED
    BY <2>1, <2>2
<1>7. failed' = {}
  <2>1. failed' = failed
    BY <1>2, <1>3
  <2> QED
    BY <2>1 DEF FlowInv
<1> HIDE DEF read_ok, writes, write_ok
<1>8. FlowTypes'
  BY <1>1, <1>2, <1>5, <1>6 DEF FlowTypes
<1>9. ASSUME NEW u \in Thread, u # t PROVE FlowMe(u)'
  <2>1. vec'[u] = vec[u] /\ pc[u] \notin Writing
    BY <1>4, <1>6, <1>9
  <2>2. revents' = [revents EXCEPT ![t] = {}] /\ revents \in [Thread -> SUBSET {"IN", "OUT", "HUP"}]
    BY <1>1, <1>2 DEF FlowTypes
  <2>3. revents'[u] = revents[u]
    BY <1>9, <2>2
  <2>4. out_request' = out_request /\ queue' = queue /\ lock \in {t, NoThread}
    BY <1>2
  <2>5. /\ out_request' \in Nat /\ out_request' >= out_request /\ Len(queue') \in Nat
        /\ out_request' - Len(queue') >= out_request - Len(queue)
    BY <1>1, <2>4
  <2>6. has_error => has_error'
    BY <1>5
  <2> QED
    BY <1>9, <2>1, <2>3, <2>4, <2>5, <2>6, OtherFlow
<1>10. writing' = 0
  <2>1. \A u \in Thread : pc'[u] \notin Polls
    BY <1>3, <1>4 DEF Stepped, Own, Writing, Polls
  <2>2. In(pc', Polls) = {}
    BY <2>1 DEF In
  <2> QED
    BY <2>2, FS_EmptySet DEF Counted, Polls, In
<1>11. FlowMe(t)'
  <2>1. cv'[t] = "none" /\ revents'[t] = {} /\ request'[t] = request[t]
        /\ mine'[t] = mine[t]
    <3>1. (\E n \in 0 .. Len(inbuf) : in_read(n)) \/ cv' = cv
      BY DEF polled
    <3>2. cv'[t] = "none"
      BY <1>2, <3>1, InReadPart, KeepPart DEF WakePart
    <3>3. revents' = [revents EXCEPT ![t] = {}] /\ revents \in [Thread -> SUBSET {"IN", "OUT", "HUP"}]
      BY <1>1, <1>2 DEF FlowTypes
    <3>4. revents'[t] = {}
      BY <3>3
    <3>5. request' = request /\ mine' = mine
      BY <1>2
    <3> QED
      BY <3>2, <3>4, <3>5
  <2> QED
    BY <1>1, <1>2, <1>3, <1>5, <1>10, <2>1 DEF FlowMe, Writing, Owning, Locked
<1>12. /\ request_written' <= out_request'
       /\ ~has_error' => request_written' <= Len(wire')
  <2>1. /\ request_written <= out_request /\ request_written \in Nat
        /\ ~has_error => request_written <= Len(wire)
    BY DEF FlowInv, Written, WrittenIsOnWire, FlowTypes
  <2>2. Len(wire) \in Nat
    BY <1>1, LenProperties DEF FlowTypes
  <2>3. request_written' = request_written /\ out_request' = out_request
    BY <1>2
  <2>4. ~has_error' => ~has_error /\ Len(wire) <= Len(wire') /\ Len(wire') \in Nat
    BY <1>5, <1>6
  <2> QED
    BY <1>1, <2>1, <2>2, <2>3, <2>4
<1> QED
  BY <1>2, <1>3, <1>4, <1>5, <1>6, <1>7, <1>8, <1>9, <1>11, <1>12, WriterFlow DEF Writing
-----------------------------------------------------------------------------
LEMMA OutSendFlow ==
    ASSUME ThrTypes, Counted, Counted', FlowInv, NEW t \in Thread, Me(t), Stepped(t),
           out_send(t), UNCHANGED prog
    PROVE  FlowInv'
<1>1. /\ FlowMe(t) /\ FlowTypes /\ (has_error => closed) /\ out_request \in Nat
      /\ request[t] \in Nat
  BY FlowSelf
<1>2. /\ pc[t] = "out_send" /\ lock \in {t, NoThread} /\ cv[t] = "none" /\ script[t] # <<>>
      /\ UNCHANGED <<mine, revents, has_error, out_request, queue, owned, wire, served,
                     closed, failed>>
  BY DEF out_send, At, Me, Consistent, srvvars
<1>3. writing = 0 /\ queue = <<>> /\ queue' = <<>>
  BY <1>1, <1>2 DEF FlowMe, Writing
<1>4. \A u \in Thread \ {t} : pc[u] \notin Writing /\ vec[u] = <<>>
  BY <1>2, <1>3, OnlyWriter
<1>5. /\ ~has_error => Consecutive(vec[t], Len(wire), out_request)
      /\ InOrder(wire)
  <2>1. InOrder(wire)
    BY DEF FlowInv, Content, WireInOrder, InOrder
  <2> QED
    BY <1>3, <1>4, <2>1, WriterContent
<1>6. /\ request_written <= out_request /\ request_written \in Nat
      /\ ~has_error => request_written <= Len(wire)
      /\ failed = {}
  BY DEF FlowInv, Written, WrittenIsOnWire, FlowTypes
<1>7. ASSUME NEW u \in Thread, u # t, vec'[u] = vec[u] PROVE FlowMe(u)'
  <2>1. pc[u] \notin Writing /\ lock \in {t, NoThread} /\ revents'[u] = revents[u]
    BY <1>2, <1>4, <1>7
  <2>2. out_request' = out_request /\ queue' = queue /\ Len(queue) = 0
    BY <1>2, <1>3
  <2>3. /\ out_request' \in Nat /\ out_request' >= out_request /\ Len(queue') \in Nat
        /\ out_request' - Len(queue') >= out_request - Len(queue)
    BY <1>1, <2>2
  <2>4. has_error => has_error'
    BY <1>2
  <2> QED
    BY <1>7, <2>1, <2>3, <2>4, OtherFlow
<1>8. "OUT" \notin revents[t] /\ ("HUP" \in revents[t] => has_error)
  BY <1>1, <1>2 DEF FlowMe
<1>9. CASE conn_wait(t, "out", TRUE) /\ UNCHANGED <<script, request, vec, request_written>>
  <2>1. /\ pc'[t] = "poll_write" /\ lock' = NoThread /\ ret' = ret /\ cv' = cv
    BY <1>3, <1>9 DEF conn_wait, goto, ThrTypes
  <2>2. FlowTypes'
    BY <1>1, <1>2, <1>9, <2>1 DEF FlowTypes
  <2>3. FlowMe(t)'
    BY <1>1, <1>2, <1>3, <1>8, <1>9, <2>1 DEF FlowMe, Writing, Polls, Owning, Locked
  <2>4. \A u \in Thread \ {t} : FlowMe(u)' /\ pc[u] \notin Writing /\ vec'[u] = <<>>
    BY <1>4, <1>7, <1>9
  <2>5. pc'[t] \in Writing
    BY <2>1 DEF Writing, Polls
  <2>6. /\ InOrder(wire') /\ (has_error' => closed') /\ failed' = {}
        /\ request_written' <= out_request'
        /\ ~has_error' => /\ Consecutive(vec'[t], Len(wire'), out_request')
                          /\ request_written' <= Len(wire')
    BY <1>1, <1>2, <1>5, <1>6, <1>9
  <2> QED
    BY <1>3, <2>2, <2>3, <2>4, <2>5, <2>6, WriterFlow
<1>10. CASE /\ ~ret[t] \/ vec[t] = <<>>
            /\ request_written' = out_request
            /\ vec' = [vec EXCEPT ![t] = <<>>]
            /\ \E w \in wake_up_next_reader(readers) : Awake(w \cup Waiters("out"))
            /\ after_flush(t, ret[t])
            /\ UNCHANGED <<writing, ret>>
  <2>1. FlushedTo(t)
    <3>1. ret[t] \in BOOLEAN
      BY DEF ThrTypes
    <3> QED
      BY <1>2, <1>10, <3>1, FlushedPart
  <2>2. cv'[t] = "none"
    BY <1>2, <1>10, AwakePart DEF WakePart
  <2>3. /\ vec'[t] = <<>> /\ vec' \in [Thread -> Seq(Nat)]
        /\ \A u \in Thread \ {t} : vec'[u] = vec[u]
    BY <1>1, <1>10 DEF FlowTypes
  <2>4. FlowTypes'
    <3>1. script' \in [Thread -> Seq(PlainCall)]
      BY <1>1, <2>1 DEF FlushedTo, FlowTypes, Stepped, ThrTypes, Own
    <3>2. lock' \in Thread \cup {NoThread} /\ request_written' \in Nat
      BY <1>1, <1>10, <2>1 DEF FlushedTo
    <3> QED
      BY <1>1, <1>2, <2>3, <3>1, <3>2 DEF FlowTypes
  <2>5. FlowMe(t)'
    <3>1. ret'[t] = ret[t] /\ mine'[t] = mine[t] /\ request'[t] <= out_request'
      BY <1>1, <1>2, <1>10, <2>1 DEF FlushedTo, FlowMe
    <3>2. pc'[t] \in {"idle", "reply_add", "reply_loop"} /\ (pc'[t] = "reply_add" => lock' = t)
      BY <2>1 DEF FlushedTo
    <3>3. /\ "OUT" \notin revents'[t] /\ ("HUP" \in revents'[t] => has_error')
          /\ ~ret'[t] => has_error'
          /\ Bounded(mine'[t], out_request')
      BY <1>1, <1>2, <1>8, <3>1 DEF FlowMe
    <3> QED
      BY <2>2, <2>3, <3>1, <3>2, <3>3 DEF FlowMe, Writing, Polls, Owning, Locked
  <2>6. \A u \in Thread \ {t} : FlowMe(u)' /\ pc[u] \notin Writing /\ vec'[u] = <<>>
    BY <1>4, <1>7, <2>3
  <2>7. pc'[t] \notin Writing
    BY <2>1 DEF FlushedTo, Writing, Polls
  <2>8. ~has_error => Consecutive(queue, Len(wire), out_request) /\ Len(wire) = out_request
    <3>1. ~has_error => vec[t] = <<>>
      BY <1>1, <1>10 DEF FlowMe
    <3>2. Len(wire) \in Nat
      BY <1>1, LenProperties DEF FlowTypes
    <3> QED
      BY <1>1, <1>3, <1>5, <3>1, <3>2 DEF Consecutive
  <2>9. /\ InOrder(wire') /\ (has_error' => closed') /\ failed' = {}
        /\ request_written' <= out_request' /\ request_written' + Len(queue') = out_request'
        /\ ~has_error' => /\ Consecutive(queue', Len(wire'), out_request')
                          /\ request_written' <= Len(wire')
    <3>1. Len(queue') = 0 /\ out_request' = out_request
      BY <1>2, <1>3
    <3>2. request_written' = out_request
      BY <1>10
    <3> QED
      BY <1>1, <1>2, <1>5, <1>6, <2>8, <3>1, <3>2
  <2> QED
    BY <2>4, <2>5, <2>6, <2>7, <2>9, WriterLeaves
<1> QED
  BY <1>9, <1>10 DEF out_send

\* _xcb_out_flush_to takes the queue
LEMMA FlushToFlow ==
    ASSUME ThrTypes, Counted, Counted', FlowInv, NEW t \in Thread, Me(t), Stepped(t),
           flush_to(t), UNCHANGED prog, request_written < request[t] /\ queue # <<>>
    PROVE  FlowInv'
<1>1. /\ FlowMe(t) /\ FlowTypes /\ (has_error => closed) /\ out_request \in Nat
      /\ request[t] \in Nat /\ Len(queue) \in Nat /\ request_written \in Nat
  BY FlowSelf DEF FlowTypes
<1>2. /\ pc[t] = "flush_to" /\ lock \in {t, NoThread} /\ cv[t] = "none" /\ cv' = cv
      /\ UNCHANGED <<mine, ret, revents, has_error, out_request, owned, wire, served,
                     closed, failed, request_written, writing>>
  BY DEF flush_to, At, srvvars
<1>3. vec' = [vec EXCEPT ![t] = queue] /\ queue' = <<>> /\ proceed(t, "out_send")
  <2>1. ~(request_written >= request[t]) /\ queue # <<>>
    BY <1>1
  <2> QED
    BY <2>1, Zenon DEF flush_to
<1>4. \A u \in Thread : pc[u] \notin Writing /\ vec[u] = <<>>
  BY DEF FlowInv, FlowMe
<1>5. writing = 0
  BY <1>4, NobodyWrites DEF Writing
<1>6. /\ ~has_error => Consecutive(queue, Len(wire), out_request)
      /\ InOrder(wire)
      /\ request_written <= out_request
      /\ ~has_error => request_written <= Len(wire)
      /\ failed = {}
  BY <1>4 DEF FlowInv, Content, Written, WrittenIsOnWire, WireInOrder, InOrder
<1>7. pc'[t] = "out_send" /\ lock' = t /\ UNCHANGED <<script, request>>
  BY <1>3 DEF proceed, goto, ThrTypes
<1>8. /\ vec'[t] = queue /\ vec' \in [Thread -> Seq(Nat)]
      /\ \A u \in Thread \ {t} : vec'[u] = vec[u]
  BY <1>1, <1>3 DEF FlowTypes
<1>9. FlowTypes'
  BY <1>1, <1>2, <1>3, <1>7, <1>8 DEF FlowTypes
<1>10. FlowMe(t)'
  BY <1>1, <1>2, <1>3, <1>5, <1>7, <1>8 DEF FlowMe, Writing, Polls, Owning, Locked
<1>11. ASSUME NEW u \in Thread, u # t PROVE FlowMe(u)'
  <2>1. /\ pc[u] \notin Writing /\ lock \in {t, NoThread} /\ revents'[u] = revents[u]
        /\ vec'[u] = vec[u] /\ (has_error => has_error')
    BY <1>2, <1>4, <1>8, <1>11
  <2>2. out_request' = out_request /\ Len(queue') = 0
    BY <1>2, <1>3
  <2>3. /\ out_request' \in Nat /\ out_request' >= out_request /\ Len(queue') \in Nat
        /\ out_request' - Len(queue') >= out_request - Len(queue)
    BY <1>1, <2>2
  <2> QED
    BY <1>11, <2>1, <2>3, OtherFlow
<1>12. \A u \in Thread \ {t} : FlowMe(u)' /\ pc[u] \notin Writing /\ vec'[u] = <<>>
  BY <1>4, <1>8, <1>11
<1>13. /\ InOrder(wire') /\ (has_error' => closed') /\ failed' = {}
       /\ request_written' <= out_request'
       /\ ~has_error' => /\ Consecutive(vec'[t], Len(wire'), out_request')
                         /\ request_written' <= Len(wire')
  BY <1>1, <1>2, <1>6, <1>8
<1>14. pc'[t] \in Writing
  BY <1>7 DEF Writing
<1> QED
  BY <1>3, <1>9, <1>10, <1>12, <1>13, <1>14, WriterFlow

\* One more request follows.
LEMMA AppendConsecutive ==
    ASSUME NEW q \in Seq(Nat), NEW from \in Nat, NEW o \in Nat, Consecutive(q, from, o)
    PROVE  /\ Consecutive(Append(q, o + 1), from, o + 1)
           /\ Append(q, o + 1) \in Seq(Nat) /\ Len(Append(q, o + 1)) = Len(q) + 1
<1>1. Len(q) \in Nat /\ Len(q) = o - from
  BY LenProperties DEF Consecutive
<1>2. /\ Append(q, o + 1) \in Seq(Nat) /\ Len(Append(q, o + 1)) = Len(q) + 1
      /\ \A i \in 1 .. Len(q) : Append(q, o + 1)[i] = q[i]
      /\ Append(q, o + 1)[Len(q) + 1] = o + 1
  BY AppendProperties
<1>3. \A i \in 1 .. Len(q) : q[i] = from + i
  BY DEF Consecutive
<1> QED
  BY <1>1, <1>2, <1>3 DEF Consecutive

LEMMA NumberFlow ==
    ASSUME ThrTypes, Counted, Counted', FlowInv, NEW t \in Thread, Me(t), Stepped(t),
           number(t), UNCHANGED prog
    PROVE  FlowInv'
<1>1. /\ FlowMe(t) /\ FlowTypes /\ (has_error => closed) /\ out_request \in Nat
      /\ request[t] \in Nat /\ Len(queue) \in Nat /\ request_written \in Nat
      /\ queue \in Seq(Nat) /\ vec \in [Thread -> Seq(Nat)] /\ script[t] \in Seq(PlainCall)
      /\ script[t] # <<>> => Tail(script[t]) \in Seq(PlainCall)
  BY FlowSelf DEF FlowTypes
<1>2. /\ pc[t] = "number" /\ lock \in {t, NoThread} /\ cv[t] = "none" /\ cv' = cv
      /\ script[t] # <<>> /\ out_request' = out_request + 1
      /\ UNCHANGED <<ret, revents, has_error, owned, wire, served, closed, failed,
                     request_written, writing>>
  BY DEF number, At, srvvars, Me, Consistent
<1>3. writing = 0
  BY <1>1, <1>2 DEF FlowMe
<1>4. \A u \in Thread : pc[u] \notin Writing /\ vec[u] = <<>>
  <2>1. pc[t] \notin Writing /\ vec[t] = <<>>
    BY <1>1, <1>2 DEF FlowMe, Writing, Polls
  <2> QED
    BY <1>2, <1>3, <2>1, OnlyWriter
<1>5. /\ ~has_error => Consecutive(queue, Len(wire), out_request)
      /\ InOrder(wire) /\ request_written + Len(queue) = out_request
      /\ ~has_error => request_written <= Len(wire)
      /\ failed = {}
  BY <1>4 DEF FlowInv, Content, Written, WrittenIsOnWire, WireInOrder, InOrder
<1> DEFINE q == Append(queue, out_request + 1)
<1>6. /\ q \in Seq(Nat) /\ Len(q) = Len(queue) + 1
      /\ ~has_error => Consecutive(q, Len(wire), out_request + 1)
  <2>1. Len(wire) \in Nat
    BY <1>1, LenProperties DEF FlowTypes
  <2>2. q \in Seq(Nat) /\ Len(q) = Len(queue) + 1
    BY <1>1, AppendProperties
  <2>3. ~has_error => Consecutive(q, Len(wire), out_request + 1)
    BY <1>1, <1>5, <2>1, AppendConsecutive
  <2> QED
    BY <2>2, <2>3
<1>7. Bounded(mine'[t], out_request')
  <2>1. mine[t] \in Seq(Nat) /\ mine'[t] = Append(mine[t], out_request + 1)
    BY <1>2 DEF ThrTypes, number
  <2>2. /\ Len(mine'[t]) = Len(mine[t]) + 1 /\ Len(mine[t]) \in Nat
        /\ \A i \in 1 .. Len(mine[t]) : mine'[t][i] = mine[t][i]
        /\ mine'[t][Len(mine[t]) + 1] = out_request + 1
    BY <1>1, <2>1, AppendProperties, LenProperties
  <2>3. \A i \in 1 .. Len(mine[t]) : mine[t][i] \in Nat /\ mine[t][i] <= out_request
    BY <1>1, <2>1, ElementOfSeq DEF FlowMe, Bounded
  <2>4. ASSUME NEW i \in 1 .. Len(mine'[t]) PROVE mine'[t][i] <= out_request'
    <3>1. i \in 1 .. Len(mine[t]) \/ i = Len(mine[t]) + 1
      BY <2>2
    <3>2. CASE i \in 1 .. Len(mine[t])
      <4>1. mine'[t][i] \in Nat /\ mine'[t][i] <= out_request
        BY <2>2, <2>3, <3>2
      <4> QED
        BY <1>1, <1>2, <4>1
    <3>3. CASE i = Len(mine[t]) + 1
      BY <1>1, <1>2, <2>2, <3>3
    <3> QED
      BY <3>1, <3>2, <3>3
  <2> QED
    BY <2>4 DEF Bounded
<1> HIDE DEF q
<1>8. ASSUME NEW u \in Thread, u # t, vec'[u] = vec[u], queue' \in {q, <<>>}
      PROVE  FlowMe(u)'
  <2>1. /\ pc[u] \notin Writing /\ lock \in {t, NoThread} /\ revents'[u] = revents[u]
        /\ has_error => has_error'
    BY <1>2, <1>4, <1>8
  <2>2. out_request' = out_request + 1 /\ Len(queue') \in {Len(queue) + 1, 0}
    BY <1>2, <1>6, <1>8
  <2>3. /\ out_request' \in Nat /\ out_request' >= out_request /\ Len(queue') \in Nat
        /\ out_request' - Len(queue') >= out_request - Len(queue)
    BY <1>1, <2>2
  <2> QED
    BY <1>8, <2>1, <2>3, OtherFlow
<1>9. CASE queue' = q /\ return(t) /\ UNCHANGED vec
  <2>1. /\ pc'[t] = "idle" /\ lock' = NoThread /\ request'[t] = 0
        /\ script'[t] = Tail(script[t])
    BY <1>9 DEF return, goto, ThrTypes
  <2>2. FlowTypes'
    <3>1. script' \in [Thread -> Seq(PlainCall)]
      BY <1>1, <1>2, <2>1 DEF FlowTypes, Stepped, ThrTypes, Own
    <3> QED
      BY <1>1, <1>2, <1>6, <1>9, <2>1, <3>1 DEF FlowTypes
  <2>3. FlowMe(t)'
    <3>1. vec'[t] = <<>> /\ request'[t] <= out_request'
      BY <1>1, <1>2, <1>4, <1>9, <2>1
    <3>2. /\ "OUT" \notin revents'[t] /\ ("HUP" \in revents'[t] => has_error')
          /\ ~ret'[t] => has_error'
      BY <1>1, <1>2 DEF FlowMe
    <3> QED
      BY <1>7, <2>1, <3>1, <3>2 DEF FlowMe, Writing, Polls, Owning, Locked
  <2>4. \A u \in Thread \ {t} : FlowMe(u)' /\ pc[u] \notin Writing /\ vec'[u] = <<>>
    BY <1>4, <1>8, <1>9
  <2>5. pc'[t] \notin Writing
    BY <2>1 DEF Writing, Polls
  <2>6. /\ InOrder(wire') /\ (has_error' => closed') /\ failed' = {}
        /\ ~has_error' => /\ Consecutive(queue', Len(wire'), out_request')
                          /\ request_written' <= Len(wire')
    BY <1>1, <1>2, <1>5, <1>6, <1>9
  <2>7. /\ request_written' <= out_request'
        /\ request_written' + Len(queue') = out_request'
    <3>1. request_written' = request_written /\ out_request' = out_request + 1
      BY <1>2
    <3>2. Len(queue') = Len(queue) + 1
      BY <1>6, <1>9
    <3> QED
      BY <1>1, <1>5, <3>1, <3>2
  <2> QED
    BY <2>2, <2>3, <2>4, <2>5, <2>6, <2>7, WriterLeaves
<1>10. CASE vec' = [vec EXCEPT ![t] = q] /\ queue' = <<>> /\ proceed(t, "out_send")
  <2>1. pc'[t] = "out_send" /\ lock' = t /\ UNCHANGED <<script, request>>
    BY <1>10 DEF proceed, goto, ThrTypes
  <2>2. /\ vec'[t] = q /\ vec' \in [Thread -> Seq(Nat)]
        /\ \A u \in Thread \ {t} : vec'[u] = vec[u]
    BY <1>1, <1>6, <1>10
  <2>3. FlowTypes'
    BY <1>1, <1>2, <1>10, <2>1, <2>2 DEF FlowTypes
  <2>4. FlowMe(t)'
    <3>1. request'[t] <= out_request'
      BY <1>1, <1>2, <2>1 DEF FlowMe
    <3>2. /\ "OUT" \notin revents'[t] /\ ("HUP" \in revents'[t] => has_error')
          /\ ~ret'[t] => has_error'
      BY <1>1, <1>2 DEF FlowMe
    <3>3. cv'[t] = "none" /\ writing' = 0
      BY <1>2, <1>3
    <3> QED
      BY <1>7, <1>10, <2>1, <3>1, <3>2, <3>3 DEF FlowMe, Writing, Polls, Owning, Locked
  <2>5. \A u \in Thread \ {t} : FlowMe(u)' /\ pc[u] \notin Writing /\ vec'[u] = <<>>
    BY <1>4, <1>8, <1>10, <2>2
  <2>6. pc'[t] \in Writing
    BY <2>1 DEF Writing
  <2>7. /\ InOrder(wire') /\ (has_error' => closed') /\ failed' = {}
        /\ ~has_error' => /\ Consecutive(vec'[t], Len(wire'), out_request')
                          /\ request_written' <= Len(wire')
    BY <1>1, <1>2, <1>5, <1>6, <2>2
  <2>8. request_written' <= out_request'
    BY <1>1, <1>2, <1>5
  <2> QED
    BY <1>10, <2>3, <2>4, <2>5, <2>6, <2>7, <2>8, WriterFlow
<1> QED
  <2>1. q = Append(queue, out_request')
    BY <1>2 DEF q
  <2> QED
    BY <1>9, <1>10, <2>1 DEF number, block
-----------------------------------------------------------------------------
(* The theorems                                                            *)

\* Without an owner of the socket some steps do not occur.
LEMMA FlowStep ==
    ASSUME ThreadInv, ThreadInv', FlowInv, NEW t \in Thread, ThreadStep(t)
    PROVE  FlowInv'
<1>1. /\ ThrTypes /\ Me(t) /\ Counted /\ Counted' /\ UNCHANGED prog
  BY DEF ThreadInv, AllConsistent, Me, ThreadStep
<1>2. Stepped(t)
  BY <1>1, ThreadStepped
<1>3. pc[t] \notin Owning
  BY DEF FlowInv, FlowMe
<1>4. CASE call(t) \/ refuse(t) \/ xcb_flush(t) \/ flush_wait(t) \/ send_wait(t)
           \/ get_socket_back(t)
  <2>1. QuietOf(t)
    BY <1>1, <1>4, CallQuiet, RefuseQuiet, FlushQuiet, FlushWaitQuiet, SendWaitQuiet,
       GetBackQuiet
  <2> QED
    BY <1>1, <1>2, <2>1, QuietFlow
<1>5. CASE xcb_wait_for_reply(t) \/ reply_add(t) \/ reply_loop(t) \/ event_loop(t)
           \/ poll_event(t) \/ request_check(t)
  <2>1. QuietOf(t)
    BY <1>1, <1>5, WaitForReplyQuiet, ReplyAddQuiet, ReplyLoopQuiet, EventLoopQuiet,
       PollEventQuiet, RequestCheckQuiet
  <2> QED
    BY <1>1, <1>2, <2>1, QuietFlow
<1>6. CASE poll(t)
  BY <1>1, <1>2, <1>6, PollFlow
<1>7. CASE polled(t)
  <2>1. pc[t] \in {"polled_read", "polled_write"}
    BY <1>7 DEF polled, At
  <2> QED
    BY <1>1, <1>2, <1>7, <2>1, PolledReadFlow, PolledWriteFlow
<1>8. CASE out_send(t)
  BY <1>1, <1>2, <1>8, OutSendFlow
<1>9. CASE flush_to(t)
  <2>1. CASE request_written < request[t] /\ queue # <<>>
    BY <1>1, <1>2, <1>9, <2>1, FlushToFlow
  <2>2. CASE ~(request_written < request[t] /\ queue # <<>>)
    BY <1>1, <1>2, <1>9, <2>2, FlushToQuiet, QuietFlow
  <2> QED
    BY <2>1, <2>2
<1>10. CASE number(t)
  BY <1>1, <1>2, <1>10, NumberFlow
<1>11. CASE callback(t) \/ got_back(t) \/ take_own(t) \/ xcb_writev(t)
  BY <1>3, <1>11 DEF callback, got_back, take_own, xcb_writev, At, Owning
<1> QED
  BY <1>4, <1>5, <1>6, <1>7, <1>8, <1>9, <1>10, <1>11, Zenon DEF ThreadStep

\* The server makes room in the socket, and may close it.
LEMMA ServerFlow ==
    ASSUME ThrTypes, FlowInv, serve \/ send_event \/ close \/ UNCHANGED vars
    PROVE  FlowInv'
<1>1. UNCHANGED <<prog, pc, script, mine, request, vec, revents, ret, cv, lock, has_error,
                  writing, out_request, request_written, queue, owned, wire, failed>>
  BY DEF serve, send_event, close, vars, thrvars, outvars, srvvars
<1>2. FlowTypes /\ (has_error => closed) /\ failed = {}
  BY DEF FlowInv
<1>3. served' \in Nat /\ served' >= served /\ closed' \in BOOLEAN /\ (closed => closed')
  <2>1. served \in Nat /\ closed \in BOOLEAN
    BY <1>2 DEF FlowTypes
  <2>2. /\ served' \in {served, served + 1}
        /\ closed' \in {closed, TRUE}
    BY DEF serve, send_event, close, vars, srvvars
  <2>3. served' \in Nat /\ served' >= served
    BY <2>1, <2>2
  <2>4. closed' \in BOOLEAN /\ (closed => closed')
    <3>1. CASE closed' = closed
      BY <2>1, <3>1
    <3>2. CASE closed' = TRUE
      BY <3>2
    <3> QED
      BY <2>2, <3>1, <3>2
  <2> QED
    BY <2>3, <2>4
<1>4. FlowTypes'
  BY <1>1, <1>2, <1>3 DEF FlowTypes
<1>5. Writable => Writable'
  <2>1. Len(wire) \in Nat /\ prog.send_cap \in Nat /\ served \in Nat
    BY <1>2, LenProperties, ThreadsAssumption DEF FlowTypes, Program
  <2> QED
    BY <1>1, <1>3, <2>1 DEF Writable
<1>6. ASSUME NEW u \in Thread PROVE FlowMe(u)'
  <2>1. FlowMe(u)
    BY DEF FlowInv
  <2> QED
    BY <1>1, <1>5, <2>1 DEF FlowMe
<1>7. OneWriter' /\ Content' /\ Written'
  BY <1>1 DEF FlowInv, OneWriter, Content, Written, WireInOrder, WrittenIsOnWire
<1> QED
  BY <1>1, <1>2, <1>3, <1>4, <1>6, <1>7 DEF FlowInv

LEMMA FlowInit ==
    ASSUME NoOwner, Init
    PROVE  FlowInv
<1> DEFINE n == Cardinality(AllIssued(prog))
<1>1. /\ prog \in Programs /\ pc = [t \in Thread |-> "idle"]
      /\ cv = [t \in Thread |-> "none"] /\ script = prog.script /\ mine = prog.issued
      /\ request = [t \in Thread |-> 0] /\ ret = [t \in Thread |-> TRUE]
      /\ vec = [t \in Thread |-> <<>>] /\ revents = [t \in Thread |-> {}]
      /\ lock = NoThread /\ has_error = FALSE /\ writing = 0 /\ out_request = n
      /\ request_written = n /\ queue = <<>> /\ owned = prog.owned
      /\ wire = [i \in 1 .. n |-> i] /\ served = 0 /\ closed = FALSE /\ failed = {}
  BY Zenon DEF Init
<1>2. n \in Nat
  BY <1>1, IssuedFinite
<1>3. AllIssued(prog) = 1 .. n
  BY <1>1, ThreadsAssumption
<1>4. /\ prog.owned = FALSE /\ prog.script \in [Thread -> Seq(PlainCall)]
      /\ prog.issued \in [Thread -> Seq(Nat)]
  BY <1>1, ThreadsAssumption DEF NoOwner, Program
<1>5. ASSUME NEW t \in Thread PROVE Bounded(mine[t], n)
  <2>1. mine[t] \in Seq(Nat) /\ DOMAIN mine[t] = 1 .. Len(mine[t])
    BY <1>1, <1>4, LenProperties
  <2>2. \A i \in DOMAIN mine[t] : mine[t][i] \in AllIssued(prog)
    BY <1>1 DEF AllIssued
  <2> HIDE DEF n
  <2> QED
    BY <1>2, <1>3, <2>1, <2>2 DEF Bounded
<1> HIDE DEF n
<1>6. wire \in Seq(Nat) /\ Len(wire) = n /\ WireInOrder
  <2>1. wire \in [1 .. n -> Nat]
    BY <1>1, <1>2
  <2>2. wire \in Seq(Nat)
    BY <1>2, <2>1, IsASeq
  <2>3. DOMAIN wire = 1 .. n /\ \A i \in 1 .. n : wire[i] = i
    BY <1>1, <1>2
  <2>4. Len(wire) = n
    BY <1>2, <2>2, <2>3, LenProperties
  <2> QED
    BY <2>2, <2>3, <2>4 DEF WireInOrder
<1>7. FlowTypes
  <2>1. queue \in Seq(Nat) /\ vec \in [Thread -> Seq(Nat)]
    <3>1. <<>> \in Seq(Nat)
      BY EmptySeq
    <3> QED
      BY <1>1, <3>1
  <2>2. revents \in [Thread -> SUBSET {"IN", "OUT", "HUP"}]
    BY <1>1
  <2>3. /\ prog \in Programs /\ owned = FALSE /\ script \in [Thread -> Seq(PlainCall)]
        /\ lock \in Thread \cup {NoThread} /\ closed \in BOOLEAN /\ has_error \in BOOLEAN
        /\ served \in Nat /\ request_written \in Nat
    BY <1>1, <1>2, <1>4
  <2> QED
    BY <1>6, <2>1, <2>2, <2>3 DEF FlowTypes
<1>8. ASSUME NEW t \in Thread PROVE FlowMe(t)
  BY <1>1, <1>2, <1>5 DEF FlowMe, Writing, Polls, Owning, Locked
<1>9. OneWriter
  BY <1>1 DEF OneWriter, Polls
<1>10. Consecutive(queue, Len(wire), out_request) /\ Len(queue) = 0
  BY <1>1, <1>2, <1>6 DEF Consecutive
<1>11. Content /\ Written
  BY <1>1, <1>2, <1>6, <1>10 DEF Content, Written, WrittenIsOnWire
<1> QED
  BY <1>1, <1>7, <1>8, <1>9, <1>11 DEF FlowInv

\* FlowInv is an invariant while nobody takes the socket.
THEOREM OutputFlows ==
    ASSUME NoOwner
    PROVE  Spec => []FlowInv
<1>1. Init => FlowInv
  BY FlowInit
<1>2. ThreadInv /\ ThreadInv' /\ FlowInv /\ [Next]_vars => FlowInv'
  <2> SUFFICES ASSUME ThreadInv, ThreadInv', FlowInv, [Next]_vars
               PROVE  FlowInv'
    OBVIOUS
  <2>1. CASE \E t \in Thread : ThreadStep(t)
    BY <2>1, FlowStep
  <2>2. CASE serve \/ send_event \/ close \/ UNCHANGED vars
    BY <2>2, ServerFlow DEF ThreadInv
  <2> QED
    BY <2>1, <2>2 DEF Next
<1> QED
  BY <1>1, <1>2, ThreadsConsistent, PTL DEF Spec

\* Requests reach the socket in the order of their numbers and each once,
\* whatever threads send, flush, write and wait at the same time and whenever
\* the server closes the connection: write_block and _xcb_out_flush_to take
\* the queue before the lock is given up, and xcb_send_request waits for the
\* one that writes.
THEOREM RequestsInOrder ==
    ASSUME NoOwner
    PROVE  Spec => []WireInOrder
<1>1. FlowInv => WireInOrder
  BY DEF FlowInv, Content
<1> QED
  BY <1>1, OutputFlows, PTL

\* c->out.request_written never runs ahead of the socket while the connection
\* is good, so _xcb_out_flush_to may return without writing.
THEOREM WrittenIsWritten ==
    ASSUME NoOwner
    PROVE  Spec => []WrittenIsOnWire
<1>1. FlowInv => WrittenIsOnWire
  BY DEF FlowInv, Written
<1> QED
  BY <1>1, OutputFlows, PTL

\* The assertions of write_vec (the queue is empty) and of _xcb_out_flush_to
\* (the request is written once nobody writes) never fail.
THEOREM AssertionsNeverFail ==
    ASSUME NoOwner
    PROVE  Spec => []AssertionsHold
<1>1. FlowInv => AssertionsHold
  BY DEF FlowInv, AssertionsHold
<1> QED
  BY <1>1, OutputFlows, PTL
-----------------------------------------------------------------------------
=============================================================================
