---------------------------- MODULE MCXcbThreads ----------------------------
(* Small programs for XcbThreads: what each thread calls, which queries it *)
(* sent before, and how large the queue and the socket are.                *)
EXTENDS XcbThreads, TLC

CONSTANTS t1, t2, t3, t4

One == {t1}
Two == {t1, t2}
Four == {t1, t2, t3, t4}

\* A program; threads without an entry in f do nothing.
Fill(f) == [t \in Thread |-> IF t \in DOMAIN f THEN f[t] ELSE <<>>]

Prog(calls, earlier, taken, room, sockets, nevents, closing) ==
    [script |-> Fill(calls), issued |-> Fill(earlier), owned |-> taken,
     queue_cap |-> room, send_cap |-> sockets[1], recv_cap |-> sockets[2],
     events |-> nevents, may_close |-> closing]

Nothing == <<>>

\* Two threads wait for replies and two for events.
Handover ==
    Prog((t1 :> <<"reply">>) @@ (t2 :> <<"reply">>) @@ (t3 :> <<"event">>) @@
         (t4 :> <<"event">>),
         (t1 :> <<2>>) @@ (t2 :> <<1>>), FALSE, 1, <<3, 2>>, 2, TRUE)

\* One thread alone uses every call that reads.
Alone ==
    Prog(t1 :> <<"void", "query", "request_check", "reply", "void", "request_check",
                 "poll_event", "event">>,
         Nothing, FALSE, 1, <<1, 2>>, 2, TRUE)

\* Threads that send and flush.
Senders ==
    Prog((t1 :> <<"query", "void", "flush">>) @@ (t2 :> <<"query", "flush">>) @@
         (t3 :> <<"void">>),
         Nothing, FALSE, 1, <<1, 1>>, 1, TRUE)

\* A thread that takes the socket and writes to it, and two that need it.
Owner ==
    Prog((t1 :> <<"take_socket", "writev", "writev">>) @@ (t2 :> <<"void", "query">>) @@
         (t3 :> <<"void">>),
         Nothing, FALSE, 3, <<1, 2>>, 0, TRUE)

ThreadPrograms == {Handover, Alone, Senders, Owner}

\* A reader in poll() and a writer.
ReadWrite ==
    Prog((t1 :> <<"reply">>) @@ (t2 :> <<"void", "flush">>), t1 :> <<1>>,
         FALSE, 1, <<1, 1>>, 0, FALSE)

StealingPrograms == {ReadWrite}

\* A check of a request after a query that is still in the queue.
Check ==
    Prog(t1 :> <<"void", "flush", "query", "request_check">>, Nothing,
         FALSE, 1, <<1, 1>>, 0, FALSE)

CheckingPrograms == {Check}

\* Two senders that both find the socket taken.
TwoBack ==
    Prog((t1 :> <<"void", "flush">>) @@ (t2 :> <<"void">>), Nothing,
         TRUE, 1, <<1, 1>>, 0, FALSE)

TakingPrograms == {TwoBack}
=============================================================================
