---------------------------- MODULE MCXcbCaches -----------------------------
(* Small programs for XcbCaches.                                           *)
EXTENDS XcbCaches, TLC

CONSTANTS t1, t2

Two == {t1, t2}

Do(op) == [op |-> op, ext |-> NoExt, len |-> 0]
About(op, e) == [op |-> op, ext |-> e, len |-> 1]
Long(n) == [op |-> "send", ext |-> NoExt, len |-> n]
Raw(n) == [op |-> "send_raw", ext |-> NoExt, len |-> n]

Id1 == Do("generate_id")
FreeId == Do("free_id")
GetMax == Do("get_max")
PrefetchMax == Do("prefetch_max")

\* A server that takes requests of length 2, or 4 with BIG-REQUESTS, and
\* gives the client the ids 8 to 8 + ids.
Prog(one, two, there, ids, fault) ==
    [script |-> (t1 :> one) @@ (t2 :> two), has |-> there, mask |-> ids, base |-> 8,
     short |-> 2, big |-> 4, faults |-> fault]

\* Two threads ask for the maximum length, one of them inside a send.
Lengths ==
    Prog(<<PrefetchMax, GetMax, Long(5)>>, <<Long(4), GetMax>>, {big_requests}, 1, {"break"})

\* The server has no BIG-REQUESTS.
NoBig == Prog(<<GetMax, Raw(3), Long(2)>>, <<Long(3)>>, {}, 1, {})

\* Two threads run through the ids and ask the server for more.
Ids ==
    Prog(<<Id1, Id1, FreeId, Id1, Id1>>, <<Id1, FreeId, Id1, FreeId, Id1>>, {xc_misc}, 3,
         {"break"})

\* Both at once: the locks of the ids and of the length over the cache.
Both ==
    Prog(<<Id1, Id1, FreeId, Id1>>, <<GetMax, About("prefetch_ext", xc_misc), Id1>>,
         {big_requests, xc_misc}, 1, {"break"})

\* One thread and an extension more than the first table holds.
Alone ==
    Prog(<<About("prefetch_ext", xc_misc), About("get_ext", big_requests),
           About("get_ext", other), About("send", other)>>,
         <<>>, {other}, 1, {"break", "nomem"})

CachePrograms == {Lengths, NoBig, Ids, Both, Alone}

\* The second thread makes the table grow.
Growing ==
    Prog(<<About("get_ext", big_requests)>>,
         <<About("prefetch_ext", xc_misc), About("prefetch_ext", other)>>,
         {big_requests}, 1, {})

GrowingPrograms == {Growing}
=============================================================================
