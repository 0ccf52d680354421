-------------------------- MODULE XcbConnectProofs --------------------------
(***************************************************************************)
(* Connecting, for any number of threads, names, servers and failures:     *)
(* what each thread holds at each label, so that everything is released    *)
(* once and nothing is left; which server it reaches, and with which       *)
(* authorization; and that no two threads get the same nonce.              *)
(***************************************************************************)
EXTENDS XcbConnect, SequenceTheorems, FiniteSetTheorems, WellFoundedInduction, TLAPS

-----------------------------------------------------------------------------
(* The invariants, of one thread's local variables l                       *)

Parsed == [protocol : Seq(Token), host : Seq(Token) \cup {<<"untouched">>},
           display : CInt, screen : CInt]

Local ==
    [pc : Label, mem : Memory, parsed : Parsed, addrs : Seq(Address),
     peer : LocalPlace \cup Address \cup {"none"}, gotsockname : BOOLEAN, ourauth : BOOLEAN,
     cred : Cred, sent : Cred, answer : [status : 0 .. 2, length : 0 .. 1],
     step : 0 .. Steps + 1, c : {"none", "error", "c"}]

Names == {"host", "protocol"}
Conn  == {"fd", "c", "setup", "replies"} \cup Lists
Peers == {"peer", "peer_long"}
Owns  == {"own", "own_long"}

\* Each variable of D points to the block it is named for, which is live, or
\* nowhere, and then the block is not live.
Owned(m, D) ==
    \A v \in D : IF v \in m.live THEN m.ptr[v] = v ELSE m.ptr[v] = Null

\* The authorization, once _xcb_get_auth_info has returned it.
Auth(l) == IF l.ourauth THEN {"info.name", "info.data"} ELSE {}

\* What the initialisation has made before its step i.
Made(i) ==
    (IF i > 2 THEN {"iolock"} ELSE {}) \cup
    (IF i > 3 THEN {"event_cond", "replies"} ELSE {}) \cup
    (IF i > 4 THEN {"socket_cond", "out_cond", "reqlenlock"} ELSE {}) \cup
    (IF i > 6 THEN {"setup"} ELSE {}) \cup
    (IF i > 7 THEN {"ext_lock"} ELSE {}) \cup
    (IF i > 8 THEN {"xid_lock"} ELSE {})

\* What a thread holds at its label for certain.
Kept(l) ==
    CASE l.pc \in {"start", "parsed", "open", "closed"} -> {}
      [] l.pc = "tcp" -> {"results"}
      [] l.pc \in {"abstract", "path"} -> {"file"}
      [] l.pc \in {"auth", "own_name"} -> {"fd"}
      [] l.pc = "authptr" -> {"fd", l.mem.ptr["sockname"]}
      [] l.pc = "own_again" -> {"fd", "authptr", "info.name"}
      [] l.pc = "compute" -> {"fd", "authptr", "info.name", l.mem.ptr["sockname"]}
      [] l.pc \in {"nonce", "next_nonce"} ->
            {"fd", "authptr", "info.name", "info.data", l.mem.ptr["sockname"]}
      [] l.pc = "calloc" -> {"fd"} \cup Auth(l)
      [] l.pc = "init" -> {"fd", "c"} \cup Auth(l) \cup Made(l.step)
      [] l.pc = "done" -> Auth(l) \cup IF l.c = "c" THEN ConnectionBlock ELSE {}
      [] l.pc \in {"out", "returned"} -> IF l.c = "c" THEN ConnectionBlock ELSE {}
      [] l.pc = "used" -> ConnectionBlock

Connecting == {"start", "parsed", "open", "tcp", "abstract", "path", "auth", "own_name",
               "authptr", "own_again", "compute", "nonce", "next_nonce", "calloc", "init"}
Naming == Connecting \cup {"done", "out"}
Ended == {"done", "out", "returned", "closed"}

\* The peer's name, which is never released once the entry was found.
Lost(l) == IF l.cred.family # "none" THEN Peers ELSE {}

\* What it may hold besides.
Extra(l) ==
    (IF l.pc \in Naming \ {"start", "parsed"} THEN Names ELSE {}) \cup Lost(l) \cup
    (IF l.pc = "parsed" THEN {"host"} ELSE {}) \cup
    (IF l.pc \in Ended THEN {"socket_cond"} ELSE {}) \cup
    (IF l.pc = "used" THEN Lists ELSE {})

\* Where the pointers that are used later point to.
Points(l) ==
    LET p == l.mem.ptr
    IN  /\ l.pc \in Naming => Owned(l.mem, Names)
        /\ l.pc \in Connecting \/ (l.c = "c" /\ l.pc # "closed") => Owned(l.mem, Conn)
        /\ l.pc = "tcp" => p["results"] = "results"
        /\ l.pc \in {"abstract", "path"} => p["file"] = "file"
        /\ l.pc = "authptr" => p["sockname"] \in IF l.gotsockname THEN Owns ELSE Peers
        /\ l.pc \in {"own_again", "compute", "nonce", "next_nonce"} =>
              p["authptr"] = "authptr" /\ p["info.name"] = "info.name"
        /\ l.pc \in {"compute", "nonce", "next_nonce"} => p["sockname"] \in Owns
        /\ l.pc \in {"nonce", "next_nonce"} => p["info.data"] = "info.data"
        /\ l.ourauth /\ l.pc \in {"calloc", "init", "done"} =>
              p["info.name"] = "info.name" /\ p["info.data"] = "info.data"

\* The memory of a thread.
Tidy(l) ==
    /\ l.mem.bad = {} /\ (l.mem.wild = {} \/ l.c = "error")
    /\ Kept(l) \subseteq l.mem.live /\ l.mem.live \subseteq Kept(l) \cup Extra(l)
    /\ Points(l)

Opening == {"start", "parsed", "open", "tcp", "abstract", "path"}
Asking == {"auth", "own_name", "authptr"}
Computing == {"own_again", "compute", "nonce", "next_nonce"}

\* How far a thread has come.
Progress(l) ==
    /\ l.pc \in Connecting => l.c = "none"
    /\ l.pc \in {"done", "returned"} => l.c # "none"
    /\ l.pc = "used" => l.c = "c"
    /\ l.c = "none" /\ l.pc # "init" => l.step = 0
    /\ l.pc = "init" => l.step \in 1 .. Steps
    /\ l.c = "c" => l.step = Steps + 1
    /\ l.pc \in Opening \cup Asking => l.cred = NoCred
    /\ l.pc \in Opening \cup {"auth", "own_name"} => ~l.gotsockname
    /\ l.pc \in Connecting \ {"calloc", "init"} => ~l.ourauth

\* What it has found: the server, and what the server answered.
Found(l) ==
    /\ l.peer # "none" => l.peer \in prog.listens
    /\ l.pc \in Asking \cup Computing \cup {"calloc", "init", "done"} \/ l.c = "c" =>
          l.peer # "none"
    /\ l.step > 6 /\ l.c # "error" => l.answer = [status |-> 1, length |-> 1]

\* The entry for the server.
EntryFor(l) == prog.xauth[Filed(l.peer)]

\* The authorization is from that entry.
Good(l, a) ==
    /\ a.from # "none" => a.family = Filed(l.peer)
    /\ a.from = "cookie" => EntryFor(l).name = "MC1"
    /\ a.from \in {"nonce", "address", "zero"} => EntryFor(l).name = "XA1"
    /\ a.from = "nonce" => l.peer \in LocalPlace
    /\ prog.faults = {} /\ (EntryFor(l).name = "XA1" \/ EntryFor(l).len > 0) => a.from # "none"

Authorized(l) ==
    /\ l.pc \in {"own_name", "authptr"} \cup Computing => ~prog.supplied
    /\ l.pc = "own_name" => prog.faults # {}
    /\ l.pc \in Computing =>
          l.cred.family = Filed(l.peer) /\ l.cred.from = "none" /\ EntryFor(l) # NoEntry
    /\ l.pc \in {"nonce", "next_nonce"} => l.peer \in LocalPlace /\ EntryFor(l).name = "XA1"
    /\ l.pc \in {"calloc", "init"} /\ ~prog.supplied => Good(l, l.cred)
    /\ l.step > 5 /\ l.c # "error" => l.sent = l.cred
    /\ l.step > 5 /\ l.c # "error" /\ ~prog.supplied => Good(l, l.cred)

\* If nothing fails, what is left to try includes the server.
Slash == strrchr(DisplayName, "/") # 0
Places(p) ==
    IF p = Untouched THEN {}
    ELSE IF ~Slash /\ p.host \in {<<>>, <<"unix">>} THEN LocalPlace
    ELSE IF Slash /\ p.protocol # <<"tcp">> THEN {}
    ELSE IF p.host = <<"[a]">> THEN ToSet(prog.addrs6)
    ELSE ToSet(prog.addrs)
Wanted(l) == Places(l.parsed) \cap prog.listens
Accepts == prog.answer = [status |-> 1, length |-> 1]
Reaching(l) ==
    /\ l.pc = "open" => l.parsed # Untouched /\ (l.mem.ptr["protocol"] # Null <=> Slash)
    /\ l.pc = "tcp" => Wanted(l) = ToSet(l.addrs) \cap prog.listens
    /\ l.pc \in {"abstract", "path"} => Places(l.parsed) = LocalPlace
    /\ l.pc = "path" => "abstract" \notin prog.listens
    /\ l.pc \in Asking \cup Computing \cup {"calloc", "init"} => Wanted(l) # {}
    /\ l.pc = "init" /\ l.step > 6 => Accepts
    /\ l.c = "c" => Wanted(l) # {} /\ Accepts
    /\ l.c = "error" => Wanted(l) = {} \/ ~Accepts
    /\ l.pc = "out" /\ l.c = "none" => Wanted(l) = {}

\* No two threads have the same nonce: the counter is ahead of all of them, and
\* a thread that has read it holds the mutex until it has counted on.
Counted(l) ==
    /\ l.pc = "next_nonce" => l.cred.nonce = nonce
    /\ l.pc \in Computing => l.cred.from # "nonce"
    /\ l.cred.from = "nonce" => l.cred.nonce < nonce
    /\ l.sent.from = "nonce" => l.sent = l.cred /\ l.step > 5

Nonces ==
    /\ \A t \in Thread : local[t].pc = "next_nonce" <=> nonce_mutex = t
    /\ \A t \in Thread : Counted(local[t])
    /\ \A t, u \in Thread :
         t # u /\ local[t].cred.from = "nonce" /\ local[u].cred.from = "nonce" =>
            local[t].cred.nonce # local[u].cred.nonce

LocalsOK == local \in [Thread -> Local]
TidyInv == \A t \in Thread : Tidy(local[t])
ProgressInv == \A t \in Thread : Progress(local[t])
FoundInv == \A t \in Thread : Found(local[t])
AuthorizedInv == \A t \in Thread : Authorized(local[t])
ReachingInv ==
    \A t \in Thread :
       /\ local[t].pc = "start" => local[t].parsed = Untouched
       /\ prog.faults = {} => Reaching(local[t])
-----------------------------------------------------------------------------
(* Memory                                                                  *)

\* What a change of memory from m to n with these pointers and blocks is.
Becomes(m, n, ptr, live) ==
    /\ n \in Memory /\ n.ptr = ptr /\ n.live = live /\ n.bad = m.bad /\ n.wild = m.wild

LEMMA MemoryParts ==
    ASSUME NEW m \in Memory
    PROVE  /\ m.ptr \in [Var -> Block \cup {Null}] /\ m.live \subseteq Block
           /\ m.bad \subseteq Block /\ m.wild \subseteq Sync
BY DEF Memory

\* A block that is not in use is allocated.
LEMMA MallocFresh ==
    ASSUME NEW m \in Memory, NEW v \in Var, NEW b \in Block, b \notin m.live
    PROVE  Becomes(m, malloc(m, v, b), [m.ptr EXCEPT ![v] = b], m.live \cup {b})
<1>1. m.live \cap {b} = {}
  OBVIOUS
<1> QED
  BY <1>1 DEF malloc, Memory, Becomes

LEMMA DerefLive ==
    ASSUME NEW m \in Memory, NEW v \in Var, m.ptr[v] \in m.live \cup {Null}
    PROVE  deref(m, v) = m
<1>1. m.bad \cup ({m.ptr[v]} \ (m.live \cup {Null})) = m.bad
  OBVIOUS
<1> QED
  BY <1>1 DEF deref, Memory

\* What is freed is in use, or the pointer is NULL.
LEMMA FreeLive ==
    ASSUME NEW m \in Memory, NEW v \in Var, m.ptr[v] \in m.live \cup {Null}
    PROVE  Becomes(m, free(m, v), m.ptr, m.live \ {m.ptr[v]})
<1>1. deref(m, v) = m
  BY DerefLive
<1> QED
  BY <1>1 DEF free, Memory, Becomes

LEMMA ClearDoes ==
    ASSUME NEW m \in Memory, NEW v \in Var
    PROVE  Becomes(m, clear(m, v), [m.ptr EXCEPT ![v] = Null], m.live)
BY DEF clear, Memory, Becomes

LEMMA AssignDoes ==
    ASSUME NEW m \in Memory, NEW v \in Var, NEW w \in Var
    PROVE  Becomes(m, assign(m, v, w), [m.ptr EXCEPT ![v] = m.ptr[w]], m.live)
BY DEF assign, Memory, Becomes

LEMMA InitSyncDoes ==
    ASSUME NEW m \in Memory, NEW S \in SUBSET Sync
    PROVE  Becomes(m, init_sync(m, S), m.ptr, m.live \cup S)
BY DEF init_sync, Memory, Becomes, Block

LEMMA DestroyDoes ==
    ASSUME NEW m \in Memory, NEW o \in Sync
    PROVE  /\ destroy(m, o) \in Memory /\ destroy(m, o).ptr = m.ptr
           /\ destroy(m, o).live = m.live \ {o} /\ destroy(m, o).bad = m.bad
           /\ destroy(m, o).wild = m.wild \cup ({o} \ m.live)
BY DEF destroy, Memory

\* Each list of the connection gets a block.
LEMMA MallocAllFresh ==
    ASSUME NEW m \in Memory, NEW S \in SUBSET Lists, m.live \cap S = {}
    PROVE  Becomes(m, malloc_all(m, S), [v \in Var |-> IF v \in S THEN v ELSE m.ptr[v]],
                   m.live \cup S)
<1>1. S \subseteq Var /\ S \subseteq Block
  BY DEF Lists, Var, Block
<1>2. m.bad \cup (m.live \cap S) = m.bad
  OBVIOUS
<1>3. [v \in Var |-> IF v \in S THEN v ELSE m.ptr[v]] \in [Var -> Block \cup {Null}]
  BY <1>1, MemoryParts
<1> QED
  BY <1>1, <1>2, <1>3 DEF malloc_all, Memory, Becomes

LEMMA OwnedLess ==
    ASSUME NEW m, NEW D, NEW E \in SUBSET D, Owned(m, D)
    PROVE  Owned(m, E)
BY DEF Owned

\* To free a pointer that is owned releases the block it is named for.
LEMMA FreeOwned ==
    ASSUME NEW m \in Memory, NEW D \in SUBSET (Var \cap Block), Owned(m, D), NEW v \in D
    PROVE  Becomes(m, free(m, v), m.ptr, m.live \ {v}) /\ Owned(free(m, v), D \ {v})
<1>1. v \in Var /\ v \in Block /\ m.ptr[v] \in m.live \cup {Null}
  BY DEF Owned
<1>2. Null \notin m.live
  BY MemoryParts DEF Block, Var, Sync, Null
<1>3. m.live \ {m.ptr[v]} = m.live \ {v}
  BY <1>2 DEF Owned
<1>4. Becomes(m, free(m, v), m.ptr, m.live \ {v})
  BY <1>1, <1>3, FreeLive
<1>5. Owned(free(m, v), D \ {v})
  BY <1>4 DEF Becomes, Owned
<1> QED
  BY <1>4, <1>5

LEMMA DestroyOwned ==
    ASSUME NEW m \in Memory, NEW D \in SUBSET Var, Owned(m, D), NEW o \in Sync
    PROVE  Owned(destroy(m, o), D)
<1>1. \A v \in D : v # o
  BY DEF Var, Sync
<1> QED
  BY <1>1, DestroyDoes DEF Owned
-----------------------------------------------------------------------------
(* xcb_disconnect                                                          *)

\* From m to n the blocks of B have been released, each once.
Gone(m, n, B) ==
    /\ n \in Memory /\ n.bad = m.bad /\ n.live = m.live \ B
    /\ n.wild = m.wild \cup ((B \cap Sync) \ m.live)
    /\ \A v \in Var \ {"fd"} : n.ptr[v] = m.ptr[v]
    /\ Owned(n, Conn \ B)

LEMMA ConnBlocks == Conn \subseteq Var \cap Block /\ Conn \cap Sync = {} /\ "fd" \in Conn
BY DEF Conn, Lists, Var, Block, Sync

LEMMA GoneFree ==
    ASSUME NEW m \in Memory, NEW n, NEW B, Gone(m, n, B), NEW v \in Conn, v \notin B
    PROVE  Gone(m, free(n, v), B \cup {v})
<1>1. n \in Memory /\ Owned(n, Conn \ B)
  BY DEF Gone
<1>2. Becomes(n, free(n, v), n.ptr, n.live \ {v}) /\ Owned(free(n, v), (Conn \ B) \ {v})
  BY <1>1, ConnBlocks, FreeOwned
<1>3. (Conn \ B) \ {v} = Conn \ (B \cup {v})
  OBVIOUS
<1>4. (B \cup {v}) \cap Sync = B \cap Sync
  BY ConnBlocks
<1>5. n.live \ {v} = m.live \ (B \cup {v})
  BY DEF Gone
<1> QED
  BY <1>2, <1>3, <1>4, <1>5 DEF Gone, Becomes

LEMMA GoneDestroy ==
    ASSUME NEW m \in Memory, NEW n, NEW B, Gone(m, n, B), NEW o \in Sync, o \notin B
    PROVE  Gone(m, destroy(n, o), B \cup {o})
<1>1. n \in Memory /\ Owned(n, Conn \ B)
  BY DEF Gone
<1>2. Owned(destroy(n, o), Conn \ B)
  BY <1>1, ConnBlocks, DestroyOwned
<1>3. Conn \ (B \cup {o}) = Conn \ B
  BY ConnBlocks
<1>4. n.live \ {o} = m.live \ (B \cup {o}) /\ ({o} \ n.live) = {o} \ m.live
  BY DEF Gone
<1>5. m.wild \cup ((B \cap Sync) \ m.live) \cup ({o} \ m.live)
        = m.wild \cup (((B \cup {o}) \cap Sync) \ m.live)
  OBVIOUS
<1> DEFINE k == destroy(n, o)
<1>6. /\ k \in Memory /\ k.ptr = n.ptr /\ k.live = n.live \ {o} /\ k.bad = n.bad
      /\ k.wild = n.wild \cup ({o} \ n.live)
  BY <1>1, DestroyDoes
<1> HIDE DEF k
<1>7. Owned(k, Conn \ (B \cup {o}))
  BY <1>2, <1>3 DEF k
<1>8. k.wild = m.wild \cup (((B \cup {o}) \cap Sync) \ m.live)
  BY <1>4, <1>5, <1>6 DEF Gone
<1>9. Gone(m, k, B \cup {o})
  BY <1>4, <1>6, <1>7, <1>8 DEF Gone
<1> QED
  BY <1>9 DEF k

LEMMA GoneClose ==
    ASSUME NEW m \in Memory, NEW n, NEW B, Gone(m, n, B), "fd" \notin B
    PROVE  Gone(m, close(n), B \cup {"fd"})
<1>1. Gone(m, free(n, "fd"), B \cup {"fd"})
  BY ConnBlocks, GoneFree
<1> DEFINE k == free(n, "fd")
<1>2. k \in Memory /\ "fd" \in Var
  BY <1>1, ConnBlocks DEF Gone
<1>3. Becomes(k, clear(k, "fd"), [k.ptr EXCEPT !["fd"] = Null], k.live)
  BY <1>2, ClearDoes
<1>4. clear(k, "fd") = close(n)
  BY DEF close
<1> HIDE DEF k
<1>5. Gone(m, k, B \cup {"fd"})
  BY <1>1 DEF k
<1>6. \A v \in Var \ {"fd"} : close(n).ptr[v] = k.ptr[v]
  BY <1>2, <1>3, <1>4, MemoryParts DEF Becomes
<1>7. Owned(close(n), Conn \ (B \cup {"fd"}))
  BY <1>3, <1>4, <1>5, <1>6, ConnBlocks DEF Gone, Becomes, Owned
<1> QED
  BY <1>3, <1>4, <1>5, <1>6, <1>7 DEF Gone, Becomes

LEMMA GoneDeref ==
    ASSUME NEW m \in Memory, NEW n, NEW B, Gone(m, n, B), "c" \in m.live, "c" \notin B
    PROVE  deref(n, "c") = n
<1>1. n \in Memory /\ "c" \in n.live /\ "c" \in Var /\ "c" \in Conn \ B
  BY ConnBlocks DEF Gone, Conn
<1>2. n.ptr["c"] = "c"
  BY <1>1 DEF Gone, Owned
<1> QED
  BY <1>1, <1>2, DerefLive

\* What xcb_disconnect leaves of a connection.
Released == Conn \cup (Sync \ {"socket_cond"})

\* xcb_disconnect releases every part there is of a connection once, wherever
\* its initialisation ended; the objects that it destroys and that were not
\* initialised are the ones that were not live.
LEMMA Disconnects ==
    ASSUME NEW m \in Memory, Owned(m, Conn), "c" \in m.live
    PROVE  Gone(m, xcb_disconnect(m), Released)
<1>1. Gone(m, m, {})
  BY DEF Gone
<1> DEFINE m1 == free(deref(m, "c"), "setup")
           m2 == close(m1)
           m3 == destroy(m2, "iolock")
           B3 == {"setup", "fd", "iolock"}
<1>2. Gone(m, m3, B3)
  <2>1. deref(m, "c") = m
    BY <1>1, GoneDeref
  <2>2. Gone(m, m1, {} \cup {"setup"})
    BY <1>1, <2>1, GoneFree DEF Conn
  <2>3. Gone(m, m2, ({} \cup {"setup"}) \cup {"fd"})
    BY <2>2, GoneClose
  <2>4. Gone(m, m3, (({} \cup {"setup"}) \cup {"fd"}) \cup {"iolock"})
    BY <2>3, GoneDestroy DEF Sync
  <2>5. (({} \cup {"setup"}) \cup {"fd"}) \cup {"iolock"} = B3
    OBVIOUS
  <2> HIDE DEF m3, B3
  <2> QED
    BY <2>4, <2>5
<1> HIDE DEF m1, m2
<1> DEFINE m4 == destroy(deref(m3, "c"), "event_cond")
           m5 == free(m4, "current_reply")
           m6 == map_delete(m5)
           m7 == free(m6, "events")
           m8 == free(m7, "pending_replies")
           B8 == B3 \cup {"event_cond", "current_reply", "replies", "events", "pending_replies"}
<1>3. Gone(m, m8, B8) /\ m8 = in_destroy(m3)
  <2> HIDE DEF m3
  <2>1. deref(m3, "c") = m3
    BY <1>2, GoneDeref
  <2>2. Gone(m, m4, B3 \cup {"event_cond"})
    BY <1>2, <2>1, GoneDestroy DEF Sync
  <2>3. Gone(m, m5, B3 \cup {"event_cond"} \cup {"current_reply"})
    BY <2>2, GoneFree DEF Conn, Lists
  <2>4. Gone(m, m6, B3 \cup {"event_cond"} \cup {"current_reply"} \cup {"replies"})
    BY <2>3, GoneFree DEF Conn, map_delete
  <2>5. Gone(m, m7, B3 \cup {"event_cond"} \cup {"current_reply"} \cup {"replies"}
                       \cup {"events"})
    BY <2>4, GoneFree DEF Conn, Lists
  <2>6. Gone(m, m8, B3 \cup {"event_cond"} \cup {"current_reply"} \cup {"replies"}
                       \cup {"events"} \cup {"pending_replies"})
    BY <2>5, GoneFree DEF Conn, Lists
  <2>7. m8 = in_destroy(m3)
    BY DEF in_destroy, frees
  <2>8. B3 \cup {"event_cond"} \cup {"current_reply"} \cup {"replies"}
                       \cup {"events"} \cup {"pending_replies"} = B8
    OBVIOUS
  <2> HIDE DEF m8, B8
  <2> QED
    BY <2>6, <2>7, <2>8
<1> HIDE DEF m4, m5, m6, m7, m8
<1> DEFINE m9 == destroy(deref(m8, "c"), "out_cond")
           mA == destroy(m9, "reqlenlock")
           BA == B8 \cup {"out_cond", "reqlenlock"}
<1>4. Gone(m, mA, BA) /\ mA = out_destroy(m8)
  <2>1. deref(m8, "c") = m8
    BY <1>3, GoneDeref
  <2>2. Gone(m, m9, B8 \cup {"out_cond"})
    BY <1>3, <2>1, GoneDestroy DEF Sync
  <2>3. Gone(m, mA, B8 \cup {"out_cond"} \cup {"reqlenlock"})
    BY <2>2, GoneDestroy DEF Sync
  <2>4. B8 \cup {"out_cond"} \cup {"reqlenlock"} = BA
    OBVIOUS
  <2>5. mA = out_destroy(m8)
    BY DEF out_destroy
  <2> HIDE DEF mA, BA
  <2> QED
    BY <2>3, <2>4, <2>5
<1> HIDE DEF m9, mA
<1> DEFINE mB == destroy(deref(mA, "c"), "ext_lock")
           mC == free(mB, "ext_reply")
           mD == free(mC, "extensions")
           BD == BA \cup {"ext_lock", "ext_reply", "extensions"}
<1>5. Gone(m, mD, BD) /\ mD = ext_destroy(mA)
  <2>1. deref(mA, "c") = mA
    BY <1>4, GoneDeref
  <2>2. Gone(m, mB, BA \cup {"ext_lock"})
    BY <1>4, <2>1, GoneDestroy DEF Sync
  <2>3. Gone(m, mC, BA \cup {"ext_lock"} \cup {"ext_reply"})
    BY <2>2, GoneFree DEF Conn, Lists
  <2>4. Gone(m, mD, BA \cup {"ext_lock"} \cup {"ext_reply"} \cup {"extensions"})
    BY <2>3, GoneFree DEF Conn, Lists
  <2>5. BA \cup {"ext_lock"} \cup {"ext_reply"} \cup {"extensions"} = BD
    OBVIOUS
  <2>6. mD = ext_destroy(mA)
    BY DEF ext_destroy, frees
  <2> HIDE DEF mD, BD
  <2> QED
    BY <2>4, <2>5, <2>6
<1> HIDE DEF mB, mC, mD
<1> DEFINE mE == destroy(deref(mD, "c"), "xid_lock")
           mF == free(mE, "c")
<1>6. Gone(m, mF, BD \cup {"xid_lock"} \cup {"c"}) /\ mE = xid_destroy(mD)
  <2>1. deref(mD, "c") = mD
    BY <1>5, GoneDeref
  <2>2. Gone(m, mE, BD \cup {"xid_lock"})
    BY <1>5, <2>1, GoneDestroy DEF Sync
  <2>3. Gone(m, mF, BD \cup {"xid_lock"} \cup {"c"})
    BY <2>2, GoneFree DEF Conn
  <2>4. mE = xid_destroy(mD)
    BY DEF xid_destroy
  <2> QED
    BY <2>3, <2>4
<1>7. BD \cup {"xid_lock"} \cup {"c"} = Released
  BY DEF Released, Conn, Lists, Sync
<1>8. mF = xcb_disconnect(m)
  BY <1>3, <1>4, <1>5, <1>6 DEF xcb_disconnect, m1, m2
<1> HIDE DEF mF, BD
<1> QED
  BY <1>6, <1>7, <1>8
-----------------------------------------------------------------------------
(* The operations on memory and their types                                *)

LEMMA OpsTyped ==
    ASSUME NEW m \in Memory, NEW v \in Var
    PROVE  /\ \A b \in Block : malloc(m, v, b) \in Memory
           /\ deref(m, v) \in Memory /\ free(m, v) \in Memory /\ clear(m, v) \in Memory
           /\ \A w \in Var : assign(m, v, w) \in Memory /\ frees(m, v, w) \in Memory
<1>1. \A b \in Block : malloc(m, v, b) \in Memory
  BY DEF malloc, Memory
<1>2. \A n \in Memory, w \in Var : deref(n, w) \in Memory /\ free(n, w) \in Memory
  <2> SUFFICES ASSUME NEW n \in Memory, NEW w \in Var
               PROVE  deref(n, w) \in Memory /\ free(n, w) \in Memory
    OBVIOUS
  <2>1. {n.ptr[w]} \ (n.live \cup {Null}) \subseteq Block
    BY MemoryParts
  <2>2. deref(n, w) \in Memory
    BY <2>1 DEF deref, Memory
  <2>3. free(n, w) \in Memory
    BY <2>2 DEF free, Memory
  <2> QED
    BY <2>2, <2>3
<1>3. clear(m, v) \in Memory /\ \A w \in Var : assign(m, v, w) \in Memory
  BY ClearDoes, AssignDoes DEF Becomes
<1> QED
  BY <1>1, <1>2, <1>3 DEF frees

LEMMA ListsTyped ==
    ASSUME NEW m \in Memory, NEW S \in SUBSET Lists
    PROVE  malloc_all(m, S) \in Memory
<1>1. S \subseteq Var /\ S \subseteq Block
  BY DEF Lists, Var, Block
<1>2. [v \in Var |-> IF v \in S THEN v ELSE m.ptr[v]] \in [Var -> Block \cup {Null}]
  BY <1>1, MemoryParts
<1> QED
  BY <1>1, <1>2 DEF malloc_all, Memory

LEMMA PartsTyped ==
    ASSUME NEW m \in Memory
    PROVE  /\ close(m) \in Memory /\ \A ok \in BOOLEAN : socket(m, ok) \in Memory
           /\ no_auth(m) \in Memory /\ calloc_failed(m) \in Memory
           /\ xcb_disconnect(m) \in Memory
           /\ \A v \in Var \cap Block : \A len, ok : memdup(m, v, len, ok) \in Memory
<1>1. /\ "fd" \in Var /\ "fd" \in Block /\ "sockname" \in Var /\ "info.name" \in Var
      /\ "authptr" \in Var /\ "c" \in Var /\ "setup" \in Var /\ "replies" \in Var
      /\ "current_reply" \in Var /\ "events" \in Var /\ "pending_replies" \in Var
      /\ "ext_reply" \in Var /\ "extensions" \in Var
  BY DEF Var, Block
<1>2. /\ "iolock" \in Sync /\ "event_cond" \in Sync /\ "out_cond" \in Sync
      /\ "reqlenlock" \in Sync /\ "ext_lock" \in Sync /\ "xid_lock" \in Sync
  BY DEF Sync
<1>3. \A n \in Memory : close(n) \in Memory
  BY <1>1, OpsTyped DEF close
<1>4. \A ok \in BOOLEAN : socket(m, ok) \in Memory
  BY <1>1, OpsTyped DEF socket
<1>5. no_auth(m) \in Memory
  BY <1>1, OpsTyped DEF no_auth
<1>6. \A v \in Var \cap Block : \A len, ok : memdup(m, v, len, ok) \in Memory
  BY OpsTyped DEF memdup
<1>7. \A n \in Memory : in_destroy(n) \in Memory
  BY <1>1, <1>2, OpsTyped, DestroyDoes DEF in_destroy, map_delete
<1>8. \A n \in Memory : out_destroy(n) \in Memory /\ xid_destroy(n) \in Memory
  BY <1>1, <1>2, OpsTyped, DestroyDoes DEF out_destroy, xid_destroy
<1>9. \A n \in Memory : ext_destroy(n) \in Memory
  BY <1>1, <1>2, OpsTyped, DestroyDoes DEF ext_destroy
<1>10. xcb_disconnect(m) \in Memory
  <2>1. destroy(close(free(deref(m, "c"), "setup")), "iolock") \in Memory
    BY <1>1, <1>2, <1>3, OpsTyped, DestroyDoes
  <2> QED
    BY <1>1, <1>7, <1>8, <1>9, <2>1, OpsTyped DEF xcb_disconnect
<1> QED
  BY <1>3, <1>4, <1>5, <1>6, <1>10 DEF calloc_failed

LEMMA NamesTyped ==
    ASSUME NEW m \in Memory, NEW first \in Block, NEW longer \in Block
    PROVE  \A n \in peer_sock_name(m, first, longer) : n \in Memory
<1>1. "name" \in Var /\ "new_name" \in Var /\ "sockname" \in Var
  BY DEF Var
<1> DEFINE m1 == malloc(m, "name", first)
           m2 == malloc(free(m1, "name"), "new_name", longer)
           gone(n) == clear(free(n, "name"), "sockname")
<1>2. m1 \in Memory
  BY <1>1, OpsTyped
<1>3. m2 \in Memory
  BY <1>1, <1>2, OpsTyped
<1>4. gone(m1) \in Memory /\ gone(m2) \in Memory /\ clear(m, "sockname") \in Memory
  BY <1>1, <1>2, <1>3, OpsTyped
<1>5. assign(m1, "sockname", "name") \in Memory /\ renamed(m2) \in Memory
  BY <1>1, <1>2, <1>3, OpsTyped DEF renamed
<1> HIDE DEF m1, m2, gone
<1>6. \A n \in peer_sock_name(m, first, longer) :
         n \in {assign(m1, "sockname", "name"), clear(m, "sockname"), gone(m1), renamed(m2),
                gone(m2)}
  BY DEF peer_sock_name, m1, m2, gone
<1> QED
  BY <1>4, <1>5, <1>6
-----------------------------------------------------------------------------
(* What the steps of the initialisation do                                 *)

LEMMA OkBoolean ==
    ASSUME NEW f
    PROVE  /\ \A ok \in Ok(f) : ok \in BOOLEAN
           /\ prog.faults = {} => \A ok \in Ok(f) : ok = TRUE
BY DEF Ok, May

LEMMA ResultParts ==
    ASSUME NEW m, NEW ok
    PROVE  Result(m, ok).mem = m /\ Result(m, ok).ok = ok
BY DEF Result

\* A part of the objects S was initialised; if it was not all, it failed.
Began(m, r, S) ==
    /\ r.ok \in BOOLEAN /\ (prog.faults = {} => r.ok)
    /\ \E part \in SUBSET S : r.mem = init_sync(m, part) /\ (r.ok => part = S)

LEMMA InitOne ==
    ASSUME NEW m, NEW o, NEW r \in init_all(m, <<o>>, "sync")
    PROVE  Began(m, r, {o})
<1>1. PICK k \in IF May("sync") THEN 0 .. Len(<<o>>) ELSE {Len(<<o>>)} :
         r = Result(init_sync(m, {<<o>>[i] : i \in 1 .. k}), k = Len(<<o>>))
  BY DEF init_all
<1>2. Len(<<o>>) = 1
  OBVIOUS
<1>3. k \in {0, 1}
  BY <1>1, <1>2
<1>4. prog.faults = {} => k = 1
  BY <1>1, <1>2 DEF May
<1> DEFINE part == {<<o>>[i] : i \in 1 .. k}
<1>5. part \subseteq {o} /\ (k = 1 => part = {o})
  <2>1. CASE k = 0
    BY <2>1
  <2>2. CASE k = 1
    <3>1. 1 .. k = {1}
      BY <2>2
    <3>2. part = {<<o>>[1]}
      BY <3>1
    <3> QED
      BY <3>2
  <2> QED
    BY <1>3, <2>1, <2>2
<1> HIDE DEF part
<1>6. r.mem = init_sync(m, part) /\ r.ok = (k = 1)
  BY <1>1, <1>2, ResultParts DEF part
<1> QED
  BY <1>4, <1>5, <1>6 DEF Began

LEMMA InitThree ==
    ASSUME NEW m, NEW a, NEW b, NEW c, NEW r \in init_all(m, <<a, b, c>>, "sync")
    PROVE  Began(m, r, {a, b, c})
<1> DEFINE s == <<a, b, c>>
<1>1. PICK k \in IF May("sync") THEN 0 .. Len(s) ELSE {Len(s)} :
         r = Result(init_sync(m, {s[i] : i \in 1 .. k}), k = Len(s))
  BY DEF init_all
<1>2. Len(s) = 3 /\ s[1] = a /\ s[2] = b /\ s[3] = c
  OBVIOUS
<1> HIDE DEF s
<1>3. k \in 0 .. 3
  BY <1>1, <1>2
<1>4. prog.faults = {} => k = 3
  BY <1>1, <1>2 DEF May
<1> DEFINE part == {s[i] : i \in 1 .. k}
<1>5. part \subseteq {a, b, c}
  <2> SUFFICES ASSUME NEW i \in 1 .. k PROVE s[i] \in {a, b, c}
    OBVIOUS
  <2>1. i = 1 \/ i = 2 \/ i = 3
    BY <1>3
  <2> QED
    BY <1>2, <2>1
<1>6. k = 3 => part = {a, b, c}
  <2> SUFFICES ASSUME k = 3 PROVE part = {a, b, c}
    OBVIOUS
  <2>1. 1 \in 1 .. k /\ 2 \in 1 .. k /\ 3 \in 1 .. k
    OBVIOUS
  <2>2. a \in part /\ b \in part /\ c \in part
    BY <1>2, <2>1
  <2> HIDE DEF part
  <2> QED
    BY <1>5, <2>2
<1> HIDE DEF part
<1>7. r.mem = init_sync(m, part) /\ r.ok = (k = 3)
  BY <1>1, <1>2, ResultParts DEF part
<1> QED
  BY <1>4, <1>5, <1>6, <1>7 DEF Began

\* _xcb_in_init: the condition, and then the map of replies.
LEMMA InInitDoes ==
    ASSUME NEW m, NEW r \in in_init(m)
    PROVE  /\ r.ok \in BOOLEAN /\ (prog.faults = {} => r.ok)
           /\ \E part \in SUBSET {"event_cond"} :
                LET n == init_sync(m, part)
                IN  \/ r.mem = n /\ ~r.ok
                    \/ r.mem = clear(n, "replies") /\ ~r.ok
                    \/ r.mem = malloc(n, "replies", "replies") /\ part = {"event_cond"}
<1>1. PICK q \in init_all(m, <<"event_cond">>, "sync") :
         r \in IF q.ok THEN map_new(q.mem) ELSE {q}
  BY DEF in_init
<1>2. Began(m, q, {"event_cond"})
  BY InitOne
<1>3. PICK part \in SUBSET {"event_cond"} :
         q.mem = init_sync(m, part) /\ (q.ok => part = {"event_cond"})
  BY <1>2 DEF Began
<1>4. CASE q.ok
  <2>1. PICK ok \in Ok("nomem") :
           r = Result(IF ok THEN malloc(q.mem, "replies", "replies")
                      ELSE clear(q.mem, "replies"), ok)
    BY <1>1, <1>4 DEF map_new
  <2>2. ok \in BOOLEAN /\ (prog.faults = {} => ok)
    BY OkBoolean
  <2>3. r.ok = ok /\ r.mem = IF ok THEN malloc(q.mem, "replies", "replies")
                             ELSE clear(q.mem, "replies")
    BY <2>1, ResultParts
  <2> QED
    BY <1>3, <1>4, <2>2, <2>3
<1>5. CASE ~q.ok
  <2>1. r = q
    BY <1>1, <1>5
  <2> QED
    BY <1>2, <1>3, <1>5, <2>1 DEF Began
<1> QED
  BY <1>2, <1>4, <1>5 DEF Began

LEMMA WriteSetupDoes ==
    ASSUME NEW t, NEW m, NEW r \in write_setup(t, m)
    PROVE  /\ r.ok \in BOOLEAN /\ (prog.faults = {} => r.ok)
           /\ r.mem = IF local[t].ourauth THEN deref(deref(m, "info.name"), "info.data") ELSE m
<1>1. PICK ok \in Ok("io") :
         r = Result(IF local[t].ourauth THEN deref(deref(m, "info.name"), "info.data") ELSE m,
                    ok)
  BY DEF write_setup
<1> QED
  BY <1>1, ResultParts, OkBoolean

LEMMA ReadSetupDoes ==
    ASSUME prog \in Program, NEW m, NEW r \in read_setup(m)
    PROVE  /\ r.ok \in BOOLEAN
           /\ r.mem \in {malloc(m, "setup", "setup"), clear(m, "setup")}
           /\ r.ok => r.mem = malloc(m, "setup", "setup") /\ Accepts
           /\ prog.faults = {} /\ Accepts => r.ok
<1> DEFINE R(ok, larger, header, body) ==
             Result(IF ok THEN malloc(m, "setup", "setup") ELSE clear(m, "setup"),
                    /\ ok /\ larger /\ header > 0 /\ body > 0
                    /\ setup_accepted(prog.answer))
<1>0. read_setup(m) =
        {R(ok, larger, header, body) :
           ok \in Ok("nomem"), larger \in Ok("nomem"), header \in in_read_block(1),
           body \in in_read_block(prog.answer.length)}
  BY DEF read_setup
<1> HIDE DEF R
<1>1. PICK ok \in Ok("nomem"), larger \in Ok("nomem"), header \in in_read_block(1),
           body \in in_read_block(prog.answer.length) : r = R(ok, larger, header, body)
  BY <1>0
<1>2. /\ r.mem = IF ok THEN malloc(m, "setup", "setup") ELSE clear(m, "setup")
      /\ r.ok = (ok /\ larger /\ header > 0 /\ body > 0 /\ setup_accepted(prog.answer))
  BY <1>1, ResultParts DEF R
<1>3. prog.answer \in [status : 0 .. 2, length : 0 .. 1]
  BY DEF Program
<1>4. body \in {0, prog.answer.length} /\ header \in {0, 1}
  BY <1>1 DEF in_read_block
<1>5. prog.faults = {} => ok /\ larger /\ header = 1 /\ body = prog.answer.length
  BY <1>1, OkBoolean DEF in_read_block, May
<1>6. ok \in BOOLEAN /\ larger \in BOOLEAN
  BY <1>1, OkBoolean
<1>7. body > 0 /\ setup_accepted(prog.answer) => Accepts
  <2> SUFFICES ASSUME body > 0, setup_accepted(prog.answer) PROVE Accepts
    OBVIOUS
  <2>1. prog.answer.length = 1 /\ prog.answer.status = 1
    BY <1>3, <1>4 DEF setup_accepted
  <2> QED
    BY <1>3, <2>1 DEF Accepts
<1>8. Accepts => prog.answer.length > 0 /\ setup_accepted(prog.answer)
  BY DEF Accepts, setup_accepted
<1>9. r.ok \in BOOLEAN
  BY <1>2
<1>10. r.mem \in {malloc(m, "setup", "setup"), clear(m, "setup")}
  BY <1>2, <1>6
<1>11. r.ok => r.mem = malloc(m, "setup", "setup") /\ Accepts
  BY <1>2, <1>7
<1>12. prog.faults = {} /\ Accepts => r.ok
  <2> SUFFICES ASSUME prog.faults = {}, Accepts PROVE r.ok
    OBVIOUS
  <2>1. ok /\ larger /\ header = 1 /\ body = prog.answer.length
    BY <1>5
  <2>2. header > 0 /\ body > 0 /\ setup_accepted(prog.answer)
    BY <1>8, <2>1
  <2> QED
    BY <1>2, <2>1, <2>2
<1> QED
  BY <1>9, <1>10, <1>11, <1>12
LEMMA BeganTyped ==
    ASSUME NEW m \in Memory, NEW r, NEW S \in SUBSET Sync, Began(m, r, S)
    PROVE  r.mem \in Memory /\ r.ok \in BOOLEAN
BY InitSyncDoes DEF Began, Becomes

LEMMA InitialiseTyped ==
    ASSUME prog \in Program, NEW t, NEW i \in 1 .. Steps, NEW m \in Memory,
           NEW r \in initialise(t, i, m)
    PROVE  r.mem \in Memory /\ r.ok \in BOOLEAN
<1>0. i \in {1, 2, 3, 4, 5, 6, 7, 8}
  BY DEF Steps
<1>1. CASE i = 1
  <2>1. PICK ok \in Ok("fcntl") : r = Result(m, ok)
    BY <1>1 DEF initialise, set_fd_flags
  <2>2. r.mem = m /\ r.ok = ok
    BY <2>1, ResultParts
  <2>3. ok \in BOOLEAN
    BY OkBoolean
  <2> QED
    BY <2>2, <2>3
<1>2. CASE i = 2
  <2>1. Began(m, r, {"iolock"})
    BY <1>2, InitOne DEF initialise
  <2> QED
    BY <2>1, BeganTyped DEF Sync
<1>3. CASE i = 3
  <2>1. r \in in_init(m)
    BY <1>3 DEF initialise
  <2>2. PICK part \in SUBSET {"event_cond"} :
           LET n == init_sync(m, part)
           IN  \/ r.mem = n
               \/ r.mem = clear(n, "replies")
               \/ r.mem = malloc(n, "replies", "replies")
    BY <2>1, InInitDoes
  <2>3. init_sync(m, part) \in Memory
    BY InitSyncDoes DEF Becomes, Sync
  <2>4. "replies" \in Var /\ "replies" \in Block
    BY DEF Var, Block
  <2> QED
    BY <2>1, <2>2, <2>3, <2>4, OpsTyped, InInitDoes
<1>4. CASE i = 4
  <2>1. Began(m, r, {"socket_cond", "out_cond", "reqlenlock"})
    BY <1>4, InitThree DEF initialise, out_init
  <2> QED
    BY <2>1, BeganTyped DEF Sync
<1>5. CASE i = 5
  <2>1. r \in write_setup(t, m)
    BY <1>5 DEF initialise
  <2>2. "info.name" \in Var /\ "info.data" \in Var
    BY DEF Var
  <2> QED
    BY <2>1, <2>2, OpsTyped, WriteSetupDoes
<1>6. CASE i = 6
  <2>1. r \in read_setup(m)
    BY <1>6 DEF initialise
  <2>2. "setup" \in Var /\ "setup" \in Block
    BY DEF Var, Block
  <2> QED
    BY <2>1, <2>2, OpsTyped, ReadSetupDoes
<1>7. CASE i = 7
  <2>1. Began(m, r, {"ext_lock"})
    BY <1>7, InitOne DEF initialise
  <2> QED
    BY <2>1, BeganTyped DEF Sync
<1>8. CASE i = 8
  <2>1. Began(m, r, {"xid_lock"})
    BY <1>8, InitOne DEF initialise
  <2> QED
    BY <2>1, BeganTyped DEF Sync
<1> QED
  BY <1>0, <1>1, <1>2, <1>3, <1>4, <1>5, <1>6, <1>7, <1>8
-----------------------------------------------------------------------------
(* Reading a display name                                                  *)

LEMMA LeastNumber ==
    ASSUME NEW T \in SUBSET Nat, T # {}
    PROVE  \E x \in T : \A y \in T : x <= y
<1> DEFINE R == OpToRel(<, Nat)
<1>1. IsWellFoundedOn(R, Nat)
  BY NatLessThanWellFounded
<1>2. \A x, y \in Nat : y < x => <<y, x>> \in R
  BY DEF OpToRel
<1> HIDE DEF R
<1>3. PICK x \in T : \A y \in T : ~ (<<y, x>> \in R)
  BY <1>1, WFMin
<1>4. \A y \in T : ~(y < x)
  BY <1>2, <1>3
<1>5. \A y \in T : x <= y
  BY <1>4
<1> QED
  BY <1>5

\* The largest number of a set that is bounded.
LEMMA MaxIn ==
    ASSUME NEW T \in SUBSET Nat, NEW top \in Nat, \A x \in T : x <= top, T # {}
    PROVE  Max(T) \in T /\ \A x \in T : x <= Max(T)
<1> DEFINE U == {top - x : x \in T}
<1>1. U \in SUBSET Nat /\ U # {}
  <2>1. PICK x \in T : TRUE
    OBVIOUS
  <2>2. top - x \in U
    OBVIOUS
  <2>3. \A y \in T : top - y \in Nat
    OBVIOUS
  <2> QED
    BY <2>2, <2>3
<1>2. PICK u \in U : \A y \in U : u <= y
  BY <1>1, LeastNumber
<1>3. PICK x \in T : u = top - x
  BY <1>2
<1>4. \A y \in T : top - x <= top - y
  BY <1>2, <1>3
<1>5. \A y \in T : y <= x
  BY <1>4
<1> QED
  BY <1>5 DEF Max

LEMMA StrrchrIn ==
    ASSUME NEW s \in Seq(Token), NEW ch
    PROVE  strrchr(s, ch) \in 0 .. Len(s)
<1> DEFINE T == {i \in 1 .. Len(s) : s[i] = ch}
<1>1. strrchr(s, ch) = IF T # {} THEN Max(T) ELSE 0
  BY DEF strrchr, SelectLastInSeq
<1>2. T \in SUBSET Nat /\ Len(s) \in Nat /\ \A x \in T : x <= Len(s) /\ x >= 1
  OBVIOUS
<1>3. T # {} => Max(T) \in T
  BY <1>2, MaxIn
<1>4. CASE T = {}
  BY <1>1, <1>2, <1>4
<1>5. CASE T # {}
  <2>1. PICK x : x = strrchr(s, ch)
    OBVIOUS
  <2>2. x \in T
    BY <1>1, <1>3, <1>5, <2>1
  <2> HIDE DEF T
  <2>3. x \in Nat /\ 1 <= x /\ x <= Len(s)
    BY <1>2, <2>2
  <2> QED
    BY <2>1, <2>3
<1> QED
  BY <1>4, <1>5

\* A part of a name is a sequence of tokens.
LEMMA PartOf ==
    ASSUME NEW s \in Seq(Token), NEW a \in Nat, a >= 1, NEW b \in Int, b <= Len(s)
    PROVE  SubSeq(s, a, b) \in Seq(Token)
OBVIOUS

\* So is what is left from the nth token on.
LEMMA FromIn ==
    ASSUME NEW s \in Seq(Token), NEW n \in Nat, n >= 1
    PROVE  From(s, n) \in Seq(Token)
BY PartOf DEF From

\* A decimal number is computed from any digits a + 1 .. b.
Sums(f, a, b, d) ==
    f \in [a .. b -> Nat] /\ \A n \in a .. b : f[n] = IF n = a THEN 0 ELSE 10 * f[n - 1] + d[n]

LEMMA SumsExist ==
    ASSUME NEW a \in Nat, NEW b \in Nat, a <= b, NEW d, \A n \in a + 1 .. b : d[n] \in Nat
    PROVE  \E f : Sums(f, a, b, d)
<1> DEFINE T == {k \in a .. b : ~\E f : Sums(f, a, k, d)}
<1> SUFFICES ASSUME T # {} PROVE FALSE
  OBVIOUS
<1>1. PICK x \in T : \A y \in T : x <= y
  <2>1. T \in SUBSET Nat
    OBVIOUS
  <2> QED
    BY <2>1, LeastNumber
<1>2. x \in a .. b /\ ~\E f : Sums(f, a, x, d)
  OBVIOUS
<1>3. CASE x = a
  <2>1. Sums([n \in a .. a |-> 0], a, a, d)
    BY DEF Sums
  <2> QED
    BY <1>2, <1>3, <2>1
<1>4. CASE x > a
  <2>1. x - 1 \in a .. b /\ x - 1 \notin T
    BY <1>1, <1>2, <1>4
  <2>2. PICK f : Sums(f, a, x - 1, d)
    BY <2>1
  <2> DEFINE g == [n \in a .. x |-> IF n = x THEN 10 * f[x - 1] + d[x] ELSE f[n]]
  <2>3. \A n \in a .. x : n = x \/ n \in a .. x - 1
    BY <1>2
  <2>4. \A n \in a .. x - 1 : f[n] \in Nat
    BY <2>2 DEF Sums
  <2>5. d[x] \in Nat /\ x - 1 \in a .. x - 1
    BY <1>2, <1>4
  <2>6. g \in [a .. x -> Nat]
    BY <2>3, <2>4, <2>5
  <2>7. \A n \in a .. x - 1 : g[n] = f[n] /\ n # x
    BY <1>2
  <2>8. g[x] = 10 * g[x - 1] + d[x]
    BY <1>2, <2>5, <2>7
  <2>9. ASSUME NEW n \in a .. x
        PROVE  g[n] = IF n = a THEN 0 ELSE 10 * g[n - 1] + d[n]
    <3>1. CASE n = x
      BY <1>4, <2>8, <3>1
    <3>2. CASE n \in a .. x - 1
      <4>1. g[n] = f[n] /\ f[n] = IF n = a THEN 0 ELSE 10 * f[n - 1] + d[n]
        BY <2>2, <2>7, <3>2 DEF Sums
      <4>2. n # a => n - 1 \in a .. x - 1
        BY <1>2, <3>2
      <4>3. n # a => g[n - 1] = f[n - 1]
        BY <2>7, <4>2
      <4> HIDE DEF g
      <4> QED
        BY <4>1, <4>3
    <3> QED
      BY <2>3, <3>1, <3>2
  <2> HIDE DEF g
  <2>10. Sums(g, a, x, d)
    BY <2>6, <2>9 DEF Sums
  <2> QED
    BY <1>2, <2>10
<1> QED
  BY <1>2, <1>3, <1>4

SignOf(s) == IF s # <<>> /\ s[1] = "-" THEN 1 ELSE 0
DigitsOf(s, a, b) == [n \in a + 1 .. b |-> DigitValue[s[n]]]

\* strtoul reads up to stop, the sign and all the digits that follow, and
\* computes f[stop].
Reads(s, stop, f) ==
    /\ stop \in SignOf(s) .. Len(s) /\ \A i \in SignOf(s) + 1 .. stop : s[i] \in Digit
    /\ \A n \in SignOf(s) .. Len(s) :
         (\A i \in SignOf(s) + 1 .. n : s[i] \in Digit) => n <= stop
    /\ Sums(f, SignOf(s), stop, DigitsOf(s, SignOf(s), stop))
    /\ strtoul(s).end = IF stop = SignOf(s) THEN 0 ELSE stop
    /\ strtoul(s).value = IF f[stop] > ULONG_MAX THEN ULONG_MAX
                          ELSE IF SignOf(s) = 1 THEN -f[stop] ELSE f[stop]

LEMMA StrtoulReads ==
    ASSUME NEW s \in Seq(Token)
    PROVE  \E stop, f : Reads(s, stop, f)
<1> DEFINE sign == SignOf(s)
           T == {n \in sign .. Len(s) : \A i \in sign + 1 .. n : s[i] \in Digit}
           stop == Max(T)
           E(g) == [n \in sign .. stop |->
                      IF n = sign THEN 0 ELSE 10 * g[n - 1] + DigitValue[s[n]]]
           number == CHOOSE g : g = E(g)
<1>1. strtoul(s) =
        [end   |-> IF stop = sign THEN 0 ELSE stop,
         value |-> IF number[stop] > ULONG_MAX THEN ULONG_MAX
                   ELSE IF sign = 1 THEN -number[stop] ELSE number[stop]]
  BY DEF strtoul, SignOf
<1>2. sign \in Nat /\ Len(s) \in Nat /\ sign <= Len(s)
  BY DEF SignOf
<1> HIDE DEF sign
<1>3. sign \in T /\ T \in SUBSET Nat /\ \A x \in T : x <= Len(s)
  BY <1>2
<1>4. stop \in T /\ \A x \in T : x <= stop
  BY <1>2, <1>3, MaxIn
<1>5. stop \in Nat /\ sign <= stop /\ stop <= Len(s)
      /\ \A i \in sign + 1 .. stop : s[i] \in Digit
  BY <1>2, <1>4
<1>6. \A n \in sign .. Len(s) : (\A i \in sign + 1 .. n : s[i] \in Digit) => n <= stop
  BY <1>4
<1> HIDE DEF T, stop
<1> DEFINE d == DigitsOf(s, sign, stop)
<1>7. \A n \in sign + 1 .. stop : d[n] = DigitValue[s[n]] /\ d[n] \in Nat
  BY <1>5 DEF DigitValue, DigitsOf
<1> HIDE DEF d
<1>8. PICK f : Sums(f, sign, stop, d)
  BY <1>2, <1>5, <1>7, SumsExist
<1>9. f = E(f)
  <2>1. \A n \in sign .. stop :
           f[n] = IF n = sign THEN 0 ELSE 10 * f[n - 1] + DigitValue[s[n]]
    <3>1. \A n \in sign .. stop : n # sign => d[n] = DigitValue[s[n]]
      BY <1>2, <1>5, <1>7
    <3> QED
      BY <1>8, <3>1 DEF Sums
  <2> QED
    BY <1>8, <2>1 DEF Sums
<1>10. number = E(number)
  <2> HIDE DEF E
  <2> QED
    BY <1>9
<1> HIDE DEF number
<1>11. \A n \in sign .. stop :
          number[n] = IF n = sign THEN 0 ELSE 10 * number[n - 1] + DigitValue[s[n]]
  BY <1>10
<1>12. \A n \in sign .. stop : number[n] \in Nat
  <2> SUFFICES ASSUME NEW n \in sign .. stop, number[n] \notin Nat PROVE FALSE
    OBVIOUS
  <2> DEFINE U == {k \in sign .. stop : number[k] \notin Nat}
  <2>1. U \in SUBSET Nat /\ U # {}
    BY <1>2
  <2>2. PICK x \in U : \A y \in U : x <= y
    BY <2>1, LeastNumber
  <2>3. x \in sign .. stop /\ number[x] \notin Nat
    BY <2>2
  <2>4. x # sign
    BY <1>11, <2>3
  <2>5. x - 1 \in sign .. stop /\ x - 1 \notin U /\ x \in sign + 1 .. stop
    BY <1>2, <1>5, <2>2, <2>3, <2>4
  <2>6. number[x - 1] \in Nat /\ DigitValue[s[x]] \in Nat
    BY <1>7, <2>5
  <2> QED
    BY <1>11, <2>3, <2>4, <2>6
<1>13. Sums(number, sign, stop, d)
  <2>1. number \in [sign .. stop -> Nat]
    BY <1>10, <1>12
  <2>2. \A n \in sign .. stop : n # sign => d[n] = DigitValue[s[n]]
    BY <1>2, <1>5, <1>7
  <2> QED
    BY <1>11, <2>1, <2>2 DEF Sums
<1>14. strtoul(s).end = IF stop = sign THEN 0 ELSE stop
  BY <1>1
<1>15. strtoul(s).value = IF number[stop] > ULONG_MAX THEN ULONG_MAX
                          ELSE IF sign = 1 THEN -number[stop] ELSE number[stop]
  BY <1>1
<1>16. Reads(s, stop, number)
  BY <1>2, <1>5, <1>6, <1>13, <1>14, <1>15 DEF Reads, sign, d
<1> QED
  BY <1>16

\* strtoul returns a number, and how much of the string it has read.
LEMMA StrtoulTyped ==
    ASSUME NEW s \in Seq(Token)
    PROVE  strtoul(s).end \in 0 .. Len(s) /\ strtoul(s).value \in Int
<1>1. PICK stop, f : Reads(s, stop, f)
  BY StrtoulReads
<1>2. SignOf(s) \in Nat /\ Len(s) \in Nat
  BY DEF SignOf
<1>3. stop \in SignOf(s) .. Len(s) /\ f[stop] \in Nat
  BY <1>1, <1>2 DEF Reads, Sums
<1> QED
  BY <1>1, <1>2, <1>3, ConnectAssumption DEF Reads

\* The assignment to an int.
LEMMA IntTyped ==
    ASSUME NEW n \in Int
    PROVE  int(n) \in CInt
<1> DEFINE M == 2 * IntHalf
           low == n % M
<1>1. IntHalf \in Nat /\ IntHalf > 0 /\ M \in Nat /\ M > 0
  BY ConnectAssumption
<1>2. low \in 0 .. M - 1
  <2> HIDE DEF M
  <2> QED
    BY <1>1
<1> HIDE DEF low
<1>3. int(n) = IF low < IntHalf THEN low ELSE low - 2 * IntHalf
  BY DEF int, low
<1> QED
  BY <1>1, <1>2, <1>3 DEF CInt

\* What _xcb_parse_display returns has its type.
LEMMA ReadingTyped ==
    ASSUME NEW name \in Seq(Token)
    PROVE  reading(name).out \in Parsed /\ reading(name).out.host \in Seq(Token)
<1> DEFINE slash  == strrchr(name, "/")
           rest   == From(name, slash + 1)
           colon  == strrchr(rest, ":")
           number == strtoul(From(rest, colon + 1))
           dot    == colon + 1 + number.end
           screen == strtoul(From(rest, dot + 1))
           alone  == dot > Len(rest)
           host   == SubSeq(rest, 1, colon - 1)
<1>1. reading(name).out =
        [protocol |-> SubSeq(name, 1, slash - 1), host |-> host,
         display |-> int(number.value), screen |-> IF alone THEN 0 ELSE int(screen.value)]
  BY DEF reading
<1>2. slash \in 0 .. Len(name)
  BY StrrchrIn
<1> HIDE DEF slash
<1>3. rest \in Seq(Token)
  BY <1>2, FromIn
<1> HIDE DEF rest
<1>4. colon \in 0 .. Len(rest)
  BY <1>3, StrrchrIn
<1> HIDE DEF colon
<1>5. From(rest, colon + 1) \in Seq(Token)
  BY <1>3, <1>4, FromIn
<1>6. number.end \in Nat /\ number.value \in Int
  BY <1>5, StrtoulTyped
<1> HIDE DEF number
<1>7. dot \in Nat
  BY <1>3, <1>4, <1>6
<1> HIDE DEF dot
<1>8. screen.value \in Int
  BY <1>3, <1>7, FromIn, StrtoulTyped
<1> HIDE DEF screen
<1>9. int(number.value) \in CInt /\ int(screen.value) \in CInt
  BY <1>6, <1>8, IntTyped
<1>10. 0 \in CInt
  BY ConnectAssumption DEF CInt
<1>11. SubSeq(name, 1, slash - 1) \in Seq(Token)
  BY <1>2, PartOf
<1>12. host \in Seq(Token)
  BY <1>3, <1>4, PartOf
<1> HIDE DEF host, alone
<1> QED
  BY <1>1, <1>9, <1>10, <1>11, <1>12 DEF Parsed
-----------------------------------------------------------------------------
(* What each action changes of the thread's record                         *)

SamePlace(l, n) == n.parsed = l.parsed /\ n.addrs = l.addrs /\ n.peer = l.peer
SameAuth(l, n) == n.gotsockname = l.gotsockname /\ n.ourauth = l.ourauth /\ n.cred = l.cred
SameConn(l, n) == n.sent = l.sent /\ n.answer = l.answer /\ n.step = l.step /\ n.c = l.c

\* Thread t goes to label x with memory m, and the others stay where they are.
Moves(t, x, m) ==
    /\ local' \in [Thread -> Local]
    /\ \A u \in Thread \ {t} : local'[u] = local[u]
    /\ local'[t].pc = x /\ local'[t].mem = m

LEMMA GotoMoves ==
    ASSUME LocalsOK, NEW t \in Thread, NEW x \in Label, NEW m \in Memory, Goto(t, x, m)
    PROVE  /\ Moves(t, x, m) /\ SamePlace(local[t], local'[t])
           /\ SameAuth(local[t], local'[t]) /\ SameConn(local[t], local'[t])
<1> DEFINE n == [local[t] EXCEPT !.pc = x, !.mem = m]
<1>1. local' = [local EXCEPT ![t] = n] /\ local[t] \in Local
  BY DEF Goto, LocalsOK
<1>2. n \in Local
  BY <1>1 DEF Local
<1>3. /\ n.pc = x /\ n.mem = m /\ SamePlace(local[t], n) /\ SameAuth(local[t], n)
      /\ SameConn(local[t], n)
  BY <1>1 DEF Local, SamePlace, SameAuth, SameConn
<1>4. local'[t] = n /\ \A u \in Thread \ {t} : local'[u] = local[u]
  BY <1>1 DEF LocalsOK
<1> HIDE DEF n
<1> QED
  BY <1>1, <1>2, <1>3, <1>4 DEF Moves, LocalsOK

LEMMA StepMoves ==
    ASSUME LocalsOK, prog \in Program, NEW t \in Thread, local[t].step \in 1 .. Steps,
           connect_step(t)
    PROVE  LET l == local[t]
               i == local[t].step
           IN  /\ l.pc = "init"
               /\ \E r \in initialise(t, i, l.mem) :
                    /\ Moves(t, IF r.ok /\ i < Steps THEN "init" ELSE "done",
                             IF r.ok THEN r.mem ELSE xcb_disconnect(r.mem))
                    /\ SamePlace(l, local'[t]) /\ SameAuth(l, local'[t])
                    /\ local'[t].step = i + 1
                    /\ local'[t].sent = IF i = 5 /\ r.ok THEN l.cred ELSE l.sent
                    /\ local'[t].answer = IF i = 6 /\ r.ok THEN prog.answer ELSE l.answer
                    /\ local'[t].c = IF ~r.ok THEN "error" ELSE IF i = Steps THEN "c" ELSE l.c
<1> DEFINE l == local[t]
           i == local[t].step
<1>1. l \in Local
  BY DEF LocalsOK
<1>2. PICK r \in initialise(t, i, Mem(t)) :
             local' = [local EXCEPT
                 ![t].pc = IF r.ok /\ i < Steps THEN "init" ELSE "done",
                 ![t].step = i + 1,
                 ![t].mem = IF r.ok THEN r.mem ELSE xcb_disconnect(r.mem),
                 ![t].sent = IF i = 5 /\ r.ok THEN local[t].cred ELSE @,
                 ![t].answer = IF i = 6 /\ r.ok THEN prog.answer ELSE @,
                 ![t].c = IF ~r.ok THEN "error" ELSE IF i = Steps THEN "c" ELSE @]
  BY DEF connect_step
<1>3. Mem(t) = l.mem /\ l.pc = "init" /\ l.mem \in Memory
  BY <1>1 DEF Mem, Local, connect_step, At
<1>4. r.mem \in Memory /\ r.ok \in BOOLEAN
  BY <1>3, InitialiseTyped
<1> DEFINE pc1 == IF r.ok /\ i < Steps THEN "init" ELSE "done"
           mem1 == IF r.ok THEN r.mem ELSE xcb_disconnect(r.mem)
           sent1 == IF i = 5 /\ r.ok THEN l.cred ELSE l.sent
           answer1 == IF i = 6 /\ r.ok THEN prog.answer ELSE l.answer
           c1 == IF ~r.ok THEN "error" ELSE IF i = Steps THEN "c" ELSE l.c
           n == [l EXCEPT !.pc = pc1, !.step = i + 1, !.mem = mem1, !.sent = sent1,
                          !.answer = answer1, !.c = c1]
<1>5. local' = [local EXCEPT ![t] = n]
  BY <1>1, <1>2 DEF LocalsOK, Local
<1>6. pc1 \in Label /\ c1 \in {"none", "error", "c"} /\ i + 1 \in 0 .. Steps + 1
  BY <1>1 DEF Label, Local, Steps
<1>7. mem1 \in Memory
  BY <1>4, PartsTyped
<1>8. sent1 \in Cred /\ answer1 \in [status : 0 .. 2, length : 0 .. 1]
  BY <1>1 DEF Local, Program
<1> HIDE DEF pc1, mem1, sent1, answer1, c1
<1>9. n \in Local
  BY <1>1, <1>6, <1>7, <1>8 DEF Local
<1>10. /\ n.pc = pc1 /\ n.mem = mem1 /\ n.sent = sent1 /\ n.answer = answer1 /\ n.c = c1
       /\ n.step = i + 1 /\ SamePlace(l, n) /\ SameAuth(l, n)
  BY <1>1 DEF Local, SamePlace, SameAuth
<1>11. local'[t] = n /\ \A u \in Thread \ {t} : local'[u] = local[u]
  BY <1>5 DEF LocalsOK
<1> HIDE DEF n
<1>12. Moves(t, pc1, mem1)
  BY <1>5, <1>9, <1>10, <1>11 DEF Moves, LocalsOK
<1> QED
  BY <1>2, <1>3, <1>10, <1>11, <1>12 DEF pc1, mem1, sent1, answer1, c1

\* The thread's record becomes n.
LEMMA RecordMoves ==
    ASSUME LocalsOK, NEW t \in Thread, NEW n \in Local, local' = [local EXCEPT ![t] = n]
    PROVE  Moves(t, n.pc, n.mem) /\ local'[t] = n
BY DEF Moves, LocalsOK

LEMMA NameTyped ==
    ASSUME prog \in Program
    PROVE  DisplayName \in Seq(Token)
BY DEF DisplayName, Program

LEMMA ParseMoves ==
    ASSUME LocalsOK, prog \in Program, NEW t \in Thread, parse_display(t)
    PROVE  LET l      == local[t]
               n      == local'[t]
               r      == reading(DisplayName)
               wanted == r.slash /\ prog.call = "connect"
           IN  /\ l.pc = "start" /\ SameAuth(l, n) /\ SameConn(l, n)
               /\ n.addrs = l.addrs /\ n.peer = l.peer
               /\ \E protocol_ok, host_ok \in BOOLEAN :
                    LET m == IF wanted /\ protocol_ok
                             THEN malloc(l.mem, "protocol", "protocol") ELSE l.mem
                    IN  /\ ~May("nomem") => protocol_ok /\ host_ok
                        /\ IF r.valid /\ host_ok /\ (wanted => protocol_ok)
                           THEN /\ Moves(t, IF prog.call = "connect" THEN "open" ELSE "parsed",
                                         malloc(m, "host", "host"))
                                /\ n.parsed = r.out
                           ELSE /\ Moves(t, IF prog.call = "connect" THEN "out" ELSE "closed",
                                         clear(free(m, "protocol"), "protocol"))
                                /\ n.parsed = l.parsed
<1> DEFINE l == local[t]
           r == reading(DisplayName)
           wanted == r.slash /\ prog.call = "connect"
           M(ok) == IF wanted /\ ok THEN malloc(l.mem, "protocol", "protocol") ELSE l.mem
           pc1 == IF prog.call = "connect" THEN "open" ELSE "parsed"
           pc2 == IF prog.call = "connect" THEN "out" ELSE "closed"
<1>1. l \in Local /\ Mem(t) = l.mem /\ l.mem \in Memory /\ l.pc = "start"
  BY DEF LocalsOK, Local, Mem, parse_display, At
<1>2. PICK protocol_ok, host_ok \in Ok("nomem") :
         IF r.valid /\ host_ok /\ (wanted => protocol_ok)
         THEN local' = [local EXCEPT ![t].pc = pc1,
                                     ![t].mem = malloc(M(protocol_ok), "host", "host"),
                                     ![t].parsed = r.out]
         ELSE Goto(t, pc2, clear(free(M(protocol_ok), "protocol"), "protocol"))
  BY <1>1 DEF parse_display
<1>3. /\ protocol_ok \in BOOLEAN /\ host_ok \in BOOLEAN
      /\ ~May("nomem") => protocol_ok /\ host_ok
  BY <1>2, OkBoolean DEF Ok
<1>4. pc1 \in Label /\ pc2 \in Label
  BY DEF Label
<1>5. /\ "protocol" \in Var /\ "protocol" \in Block /\ "host" \in Var /\ "host" \in Block
  BY DEF Var, Block
<1>6. M(protocol_ok) \in Memory
  BY <1>1, <1>5, OpsTyped
<1> DEFINE m1 == malloc(M(protocol_ok), "host", "host")
           m2 == clear(free(M(protocol_ok), "protocol"), "protocol")
<1>7. m1 \in Memory /\ m2 \in Memory
  BY <1>5, <1>6, OpsTyped
<1>8. r.out \in Parsed
  BY ReadingTyped, NameTyped
<1>9. CASE r.valid /\ host_ok /\ (wanted => protocol_ok)
  <2> HIDE DEF m1, pc1
  <2> DEFINE n == [l EXCEPT !.pc = pc1, !.mem = m1, !.parsed = r.out]
  <2>1. local' = [local EXCEPT ![t].pc = pc1, ![t].mem = m1, ![t].parsed = r.out]
    BY <1>2, <1>9 DEF m1
  <2> HIDE DEF r
  <2>2. local' = [local EXCEPT ![t] = n]
    BY <1>1, <2>1 DEF LocalsOK, Local
  <2>3. n \in Local
    BY <1>1, <1>4, <1>7, <1>8 DEF Local
  <2>4. /\ n.pc = pc1 /\ n.mem = m1 /\ n.parsed = r.out /\ n.addrs = l.addrs
        /\ n.peer = l.peer /\ SameAuth(l, n) /\ SameConn(l, n)
    BY <1>1 DEF Local, SameAuth, SameConn
  <2> HIDE DEF n
  <2>5. Moves(t, n.pc, n.mem) /\ local'[t] = n
    BY <2>2, <2>3, RecordMoves
  <2>6. Moves(t, pc1, m1) /\ local'[t].parsed = r.out
    BY <2>4, <2>5
  <2>7. /\ local'[t].addrs = l.addrs /\ local'[t].peer = l.peer /\ SameAuth(l, local'[t])
        /\ SameConn(l, local'[t])
    BY <2>4, <2>5
  <2> QED
    BY <1>1, <1>3, <1>9, <2>6, <2>7 DEF m1, pc1, r
<1>10. CASE ~(r.valid /\ host_ok /\ (wanted => protocol_ok))
  <2> HIDE DEF m2, pc2
  <2>1. Goto(t, pc2, m2)
    BY <1>2, <1>10 DEF m2
  <2>2. /\ Moves(t, pc2, m2) /\ SamePlace(l, local'[t])
        /\ SameAuth(l, local'[t]) /\ SameConn(l, local'[t])
    BY <1>4, <1>7, <2>1, GotoMoves
  <2>3. /\ local'[t].parsed = l.parsed /\ local'[t].addrs = l.addrs
        /\ local'[t].peer = l.peer
    BY <2>2 DEF SamePlace
  <2> QED
    BY <1>1, <1>3, <1>10, <2>2, <2>3 DEF m2, pc2
<1> QED
  BY <1>9, <1>10

\* Only the label and the memory change.
Goes(t, x, m) ==
    /\ Moves(t, x, m) /\ SamePlace(local[t], local'[t])
    /\ SameAuth(local[t], local'[t]) /\ SameConn(local[t], local'[t])

LEMMA GotoGoes ==
    ASSUME LocalsOK, NEW t \in Thread, NEW x \in Label, NEW m \in Memory, Goto(t, x, m)
    PROVE  Goes(t, x, m)
BY GotoMoves DEF Goes

LEMMA MemOf ==
    ASSUME LocalsOK, NEW t \in Thread
    PROVE  local[t] \in Local /\ Mem(t) = local[t].mem /\ local[t].mem \in Memory
BY DEF LocalsOK, Local, Mem

LEMMA FreeHostMoves ==
    ASSUME LocalsOK, NEW t \in Thread, free_host(t)
    PROVE  local[t].pc = "parsed" /\ Goes(t, "closed", free(local[t].mem, "host"))
<1>1. local[t].pc = "parsed" /\ Goto(t, "closed", free(local[t].mem, "host"))
  BY MemOf DEF free_host, At
<1>2. free(local[t].mem, "host") \in Memory /\ "closed" \in Label
  BY MemOf, OpsTyped DEF Var, Label
<1> QED
  BY <1>1, <1>2, GotoGoes

FoundBy(t) == IF local[t].parsed.host = <<"[a]">> THEN prog.addrs6 ELSE prog.addrs

LEMMA OpenTcpMoves ==
    ASSUME LocalsOK, prog \in Program, NEW t \in Thread, open_tcp(t)
    PROVE  LET l == local[t]
               n == local'[t]
               right == l.mem.ptr["protocol"] # Null => l.parsed.protocol = <<"tcp">>
           IN  /\ l.pc = "open" /\ tcp(t)
               /\ \/ /\ right /\ Moves(t, "tcp", malloc(l.mem, "results", "results"))
                     /\ n.addrs = FoundBy(t) /\ n.parsed = l.parsed /\ n.peer = l.peer
                     /\ SameAuth(l, n) /\ SameConn(l, n)
                  \/ /\ prog.faults = {} => ~right \/ FoundBy(t) = <<>>
                     /\ Goes(t, "out", l.mem)
<1> DEFINE l == local[t]
           right == l.mem.ptr["protocol"] # Null => l.parsed.protocol = <<"tcp">>
           m1 == malloc(l.mem, "results", "results")
           found == FoundBy(t)
<1>1. l \in Local /\ Mem(t) = l.mem /\ l.mem \in Memory
  BY MemOf
<1>2. l.pc = "open" /\ tcp(t)
  BY DEF open_tcp, At
<1>3. PICK ok \in Ok("resolve") :
         IF right /\ ok /\ found # <<>>
         THEN local' = [local EXCEPT ![t].pc = "tcp", ![t].addrs = found,
                                     ![t].mem = malloc(@, "results", "results")]
         ELSE Goto(t, "out", l.mem)
  BY <1>1 DEF open_tcp, Ptr, FoundBy
<1>4. ok \in BOOLEAN /\ (prog.faults = {} => ok)
  BY <1>3, OkBoolean
<1>5. m1 \in Memory
  BY <1>1, OpsTyped DEF Var, Block
<1>6. found \in Seq(Address)
  <2>1. Seq(Six) \subseteq Seq(Address)
    BY DEF Six, Address
  <2> QED
    BY <2>1 DEF FoundBy, Program
<1>7. CASE right /\ ok /\ found # <<>>
  <2> DEFINE n == [l EXCEPT !.pc = "tcp", !.addrs = found, !.mem = m1]
  <2> HIDE DEF found
  <2>1. local' = [local EXCEPT ![t] = n]
    BY <1>1, <1>3, <1>7 DEF LocalsOK, Local
  <2> HIDE DEF m1
  <2>2. n \in Local
    BY <1>1, <1>5, <1>6 DEF Local, Label
  <2>3. /\ n.pc = "tcp" /\ n.mem = m1 /\ n.addrs = found /\ n.parsed = l.parsed
        /\ n.peer = l.peer /\ SameAuth(l, n) /\ SameConn(l, n)
    BY <1>1 DEF Local, SameAuth, SameConn
  <2> HIDE DEF n
  <2>4. Moves(t, n.pc, n.mem) /\ local'[t] = n
    BY <2>1, <2>2, RecordMoves
  <2> QED
    BY <1>2, <1>7, <2>3, <2>4 DEF m1, found
<1>8. CASE ~(right /\ ok /\ found # <<>>)
  <2>1. Goto(t, "out", l.mem)
    BY <1>3, <1>8
  <2>2. Goes(t, "out", l.mem)
    BY <1>1, <2>1, GotoGoes DEF Label
  <2> QED
    BY <1>2, <1>4, <1>8, <2>2
<1> QED
  BY <1>7, <1>8

LEMMA ConnectsBoolean ==
    ASSUME NEW p, NEW ok \in connects(p)
    PROVE  /\ ok \in BOOLEAN /\ (ok => p \in prog.listens)
           /\ prog.faults = {} => (ok <=> p \in prog.listens)
<1>1. CASE p \in prog.listens
  <2>1. ok \in Ok("socket")
    BY <1>1 DEF connects
  <2> QED
    BY <1>1, <2>1, OkBoolean
<1>2. CASE p \notin prog.listens
  BY <1>2 DEF connects
<1> QED
  BY <1>1, <1>2

\* The thread has a socket to p.
Reaches(t, p, m) ==
    /\ Moves(t, "auth", m) /\ p \in prog.listens /\ local'[t].peer = p
    /\ local'[t].parsed = local[t].parsed /\ local'[t].addrs = local[t].addrs
    /\ SameAuth(local[t], local'[t]) /\ SameConn(local[t], local'[t])

LEMMA ConnectedReaches ==
    ASSUME LocalsOK, NEW t \in Thread, NEW p \in LocalPlace \cup Address, p \in prog.listens,
           NEW m \in Memory, Connected(t, p, m)
    PROVE  Reaches(t, p, m)
<1> DEFINE l == local[t]
           n == [l EXCEPT !.pc = "auth", !.mem = m, !.peer = p]
<1>1. l \in Local
  BY MemOf
<1>2. local' = [local EXCEPT ![t] = n]
  BY <1>1 DEF LocalsOK, Local, Connected
<1>3. n \in Local
  BY <1>1 DEF Local, Label
<1>4. /\ n.pc = "auth" /\ n.mem = m /\ n.peer = p /\ n.parsed = l.parsed /\ n.addrs = l.addrs
      /\ SameAuth(l, n) /\ SameConn(l, n)
  BY <1>1 DEF Local, SameAuth, SameConn
<1> HIDE DEF n
<1>5. Moves(t, n.pc, n.mem) /\ local'[t] = n
  BY <1>2, <1>3, RecordMoves
<1> QED
  BY <1>4, <1>5 DEF Reaches

LEMMA TryMoves ==
    ASSUME LocalsOK, prog \in Program, NEW t \in Thread, try_address(t)
    PROVE  LET l == local[t]
               n == local'[t]
           IN  /\ l.pc = "tcp"
               /\ \/ l.addrs = <<>> /\ Goes(t, "out", free(l.mem, "results"))
                  \/ /\ l.addrs # <<>>
                     /\ \E sok \in BOOLEAN :
                          LET m == socket(l.mem, sok)
                          IN  \/ sok /\ Reaches(t, Head(l.addrs), free(m, "results"))
                              \/ /\ Moves(t, "tcp", close(m)) /\ n.addrs = Tail(l.addrs)
                                 /\ n.parsed = l.parsed /\ n.peer = l.peer
                                 /\ SameAuth(l, n) /\ SameConn(l, n)
                                 /\ prog.faults = {} => Head(l.addrs) \notin prog.listens
<1> DEFINE l == local[t]
           a == Head(l.addrs)
<1>1. l \in Local /\ Mem(t) = l.mem /\ l.mem \in Memory /\ l.addrs \in Seq(Address)
  BY MemOf DEF Local
<1>2. l.pc = "tcp"
  BY DEF try_address, At
<1>3. "results" \in Var /\ "out" \in Label
  BY DEF Var, Label
<1>4. CASE l.addrs = <<>>
  <2>1. Goto(t, "out", free(l.mem, "results"))
    BY <1>1, <1>4 DEF try_address
  <2>2. Goes(t, "out", free(l.mem, "results"))
    BY <1>1, <1>3, <2>1, OpsTyped, GotoGoes
  <2> QED
    BY <1>2, <1>4, <2>2
<1>5. CASE l.addrs # <<>>
  <2>1. PICK sok \in Ok("socket"), cok \in connects(a) :
           IF sok /\ cok THEN Connected(t, a, free(socket(l.mem, sok), "results"))
           ELSE local' = [local EXCEPT ![t].addrs = Tail(@),
                                       ![t].mem = close(socket(l.mem, sok))]
    BY <1>1, <1>5 DEF try_address
  <2>2. sok \in BOOLEAN /\ (prog.faults = {} => sok)
    BY <2>1, OkBoolean
  <2>3. cok \in BOOLEAN /\ (cok => a \in prog.listens)
        /\ (prog.faults = {} => (cok <=> a \in prog.listens))
    BY <2>1, ConnectsBoolean
  <2> DEFINE m == socket(l.mem, sok)
  <2>4. m \in Memory
    BY <1>1, <2>2, PartsTyped
  <2>5. free(m, "results") \in Memory /\ close(m) \in Memory
    BY <1>3, <2>4, OpsTyped, PartsTyped
  <2>6. a \in Address /\ Tail(l.addrs) \in Seq(Address)
    BY <1>1, <1>5
  <2>7. CASE sok /\ cok
    <3>1. Connected(t, a, free(m, "results"))
      BY <2>1, <2>7
    <3>2. Reaches(t, a, free(m, "results"))
      BY <2>3, <2>5, <2>6, <2>7, <3>1, ConnectedReaches
    <3> QED
      BY <1>2, <1>5, <2>2, <2>7, <3>2
  <2>8. CASE ~(sok /\ cok)
    <3> DEFINE m1 == close(m)
               n == [l EXCEPT !.addrs = Tail(l.addrs), !.mem = m1]
    <3>1. local' = [local EXCEPT ![t].addrs = Tail(@), ![t].mem = m1]
      BY <2>1, <2>8
    <3>2. m1 \in Memory
      BY <2>5
    <3> HIDE DEF m, m1
    <3>3. local' = [local EXCEPT ![t] = n]
      BY <1>1, <3>1 DEF LocalsOK, Local
    <3>4. n \in Local
      BY <1>1, <2>6, <3>2 DEF Local
    <3>5. /\ n.pc = "tcp" /\ n.mem = m1 /\ n.addrs = Tail(l.addrs) /\ n.parsed = l.parsed
          /\ n.peer = l.peer /\ SameAuth(l, n) /\ SameConn(l, n)
      BY <1>1, <1>2 DEF Local, SameAuth, SameConn
    <3> HIDE DEF n
    <3>6. Moves(t, n.pc, n.mem) /\ local'[t] = n
      BY <3>3, <3>4, RecordMoves
    <3>7. prog.faults = {} => a \notin prog.listens
      BY <2>2, <2>3, <2>8
    <3>8. Moves(t, "tcp", close(socket(l.mem, sok)))
      BY <3>5, <3>6 DEF m, m1
    <3> QED
      BY <1>2, <1>5, <2>2, <3>5, <3>6, <3>7, <3>8
  <2> QED
    BY <2>7, <2>8
<1> QED
  BY <1>4, <1>5

LEMMA OpenUnixMoves ==
    ASSUME LocalsOK, NEW t \in Thread, open_unix(t)
    PROVE  LET l == local[t]
           IN  /\ l.pc = "open" /\ ~tcp(t)
               /\ \/ Goes(t, "abstract", malloc(l.mem, "file", "file"))
                  \/ prog.faults # {} /\ Goes(t, "out", l.mem)
<1> DEFINE l == local[t]
<1>1. l \in Local /\ Mem(t) = l.mem /\ l.mem \in Memory
  BY MemOf
<1>2. l.pc = "open" /\ ~tcp(t)
  BY DEF open_unix, At
<1>3. PICK ok \in Ok("nomem") :
         IF ok THEN Goto(t, "abstract", malloc(l.mem, "file", "file"))
         ELSE Goto(t, "out", l.mem)
  BY <1>1 DEF open_unix
<1>4. ok \in BOOLEAN /\ (prog.faults = {} => ok)
  BY <1>3, OkBoolean
<1>5. malloc(l.mem, "file", "file") \in Memory /\ "abstract" \in Label /\ "out" \in Label
  BY <1>1, OpsTyped DEF Var, Block, Label
<1> QED
  BY <1>1, <1>2, <1>3, <1>4, <1>5, GotoGoes

LEMMA OpenAbstractMoves ==
    ASSUME LocalsOK, NEW t \in Thread, open_abstract(t)
    PROVE  LET l == local[t]
           IN  /\ l.pc = "abstract"
               /\ \E sok \in BOOLEAN :
                    LET m == socket(l.mem, sok)
                    IN  \/ sok /\ Reaches(t, "abstract", free(m, "file"))
                        \/ "abstract" \notin prog.listens /\ Goes(t, "path", close(m))
                        \/ prog.faults # {} /\ Goes(t, "out", free(close(m), "file"))
<1> DEFINE l == local[t]
<1>1. l \in Local /\ Mem(t) = l.mem /\ l.mem \in Memory
  BY MemOf
<1>2. l.pc = "abstract"
  BY DEF open_abstract, At
<1> DEFINE M(sok) == socket(l.mem, sok)
           errno(sok) == IF sok /\ "abstract" \notin prog.listens THEN "ECONNREFUSED" ELSE "EMFILE"
<1>3. PICK sok \in Ok("socket"), cok \in connects("abstract") :
         IF sok /\ cok THEN Connected(t, "abstract", free(M(sok), "file"))
         ELSE IF tries_path(errno(sok)) THEN Goto(t, "path", close(M(sok)))
         ELSE Goto(t, "out", free(close(M(sok)), "file"))
  BY <1>1 DEF open_abstract
<1>4. sok \in BOOLEAN /\ (prog.faults = {} => sok)
  BY <1>3, OkBoolean
<1>5. cok \in BOOLEAN /\ (cok => "abstract" \in prog.listens)
      /\ (prog.faults = {} => (cok <=> "abstract" \in prog.listens))
  BY <1>3, ConnectsBoolean
<1>6. tries_path(errno(sok)) <=> sok /\ "abstract" \notin prog.listens
  BY <1>4 DEF tries_path
<1> DEFINE m == M(sok)
<1>7. m \in Memory
  BY <1>1, <1>4, PartsTyped
<1>8. free(m, "file") \in Memory /\ close(m) \in Memory /\ free(close(m), "file") \in Memory
  <2>1. "file" \in Var
    BY DEF Var
  <2> QED
    BY <1>7, <2>1, OpsTyped, PartsTyped
<1>9. "path" \in Label /\ "out" \in Label /\ "abstract" \in LocalPlace
  BY DEF Label, LocalPlace
<1> HIDE DEF errno
<1>10. CASE sok /\ cok
  <2>1. Reaches(t, "abstract", free(m, "file"))
    BY <1>3, <1>5, <1>8, <1>9, <1>10, ConnectedReaches
  <2> QED
    BY <1>2, <1>4, <1>10, <2>1
<1>11. CASE ~(sok /\ cok) /\ sok /\ "abstract" \notin prog.listens
  <2>1. Goes(t, "path", close(m))
    BY <1>3, <1>6, <1>8, <1>9, <1>11, GotoGoes
  <2> QED
    BY <1>2, <1>4, <1>11, <2>1
<1>12. CASE ~(sok /\ cok) /\ ~(sok /\ "abstract" \notin prog.listens)
  <2>1. Goes(t, "out", free(close(m), "file"))
    BY <1>3, <1>6, <1>8, <1>9, <1>12, GotoGoes
  <2>2. prog.faults # {}
    BY <1>4, <1>5, <1>12
  <2> QED
    BY <1>2, <1>4, <2>1, <2>2
<1> QED
  BY <1>4, <1>5, <1>10, <1>11, <1>12

LEMMA OpenPathMoves ==
    ASSUME LocalsOK, NEW t \in Thread, open_path(t)
    PROVE  LET l == local[t]
           IN  /\ l.pc = "path"
               /\ \E sok \in BOOLEAN :
                    LET m == socket(l.mem, sok)
                    IN  \/ sok /\ Reaches(t, "path", free(m, "file"))
                        \/ /\ prog.faults = {} => "path" \notin prog.listens
                           /\ Goes(t, "out", free(close(m), "file"))
<1> DEFINE l == local[t]
           M(sok) == socket(l.mem, sok)
<1>1. l \in Local /\ Mem(t) = l.mem /\ l.mem \in Memory
  BY MemOf
<1>2. l.pc = "path"
  BY DEF open_path, At
<1>3. PICK sok \in Ok("socket"), cok \in connects("path") :
         IF sok /\ cok THEN Connected(t, "path", free(M(sok), "file"))
         ELSE Goto(t, "out", free(close(M(sok)), "file"))
  BY <1>1 DEF open_path
<1>4. sok \in BOOLEAN /\ (prog.faults = {} => sok)
  BY <1>3, OkBoolean
<1>5. cok \in BOOLEAN /\ (cok => "path" \in prog.listens)
      /\ (prog.faults = {} => (cok <=> "path" \in prog.listens))
  BY <1>3, ConnectsBoolean
<1> DEFINE m == M(sok)
<1>6. m \in Memory
  BY <1>1, <1>4, PartsTyped
<1>7. free(m, "file") \in Memory /\ free(close(m), "file") \in Memory
  <2>1. "file" \in Var
    BY DEF Var
  <2> QED
    BY <1>6, <2>1, OpsTyped, PartsTyped
<1>8. "out" \in Label /\ "path" \in LocalPlace
  BY DEF Label, LocalPlace
<1>9. CASE sok /\ cok
  <2>1. Reaches(t, "path", free(m, "file"))
    BY <1>3, <1>5, <1>7, <1>8, <1>9, ConnectedReaches
  <2> QED
    BY <1>2, <1>4, <1>9, <2>1
<1>10. CASE ~(sok /\ cok)
  <2>1. Goes(t, "out", free(close(m), "file"))
    BY <1>3, <1>7, <1>8, <1>10, GotoGoes
  <2> QED
    BY <1>2, <1>4, <1>5, <1>10, <2>1
<1> QED
  BY <1>9, <1>10

\* The authorization becomes a.
Credits(t, x, m, a) ==
    /\ Moves(t, x, m) /\ SamePlace(local[t], local'[t]) /\ SameConn(local[t], local'[t])
    /\ local'[t].gotsockname = local[t].gotsockname /\ local'[t].cred = a

LEMMA SuppliedMoves ==
    ASSUME LocalsOK, NEW t \in Thread, use_supplied(t)
    PROVE  /\ local[t].pc = "auth" /\ prog.supplied /\ local'[t].ourauth = local[t].ourauth
           /\ Credits(t, "calloc", local[t].mem, [NoCred EXCEPT !.from = "supplied"])
<1> DEFINE l == local[t]
           a == [NoCred EXCEPT !.from = "supplied"]
           n == [l EXCEPT !.pc = "calloc", !.cred = a]
<1>1. l \in Local
  BY MemOf
<1>2. l.pc = "auth" /\ prog.supplied
  BY DEF use_supplied, At
<1>3. a \in Cred
  BY DEF NoCred, Cred
<1>4. local' = [local EXCEPT ![t].pc = "calloc", ![t].cred = a]
  BY DEF use_supplied
<1> HIDE DEF a
<1>5. local' = [local EXCEPT ![t] = n]
  BY <1>1, <1>4 DEF LocalsOK, Local
<1>6. n \in Local
  BY <1>1, <1>3 DEF Local, Label
<1>7. /\ n.pc = "calloc" /\ n.mem = l.mem /\ n.cred = a /\ n.ourauth = l.ourauth
      /\ n.gotsockname = l.gotsockname /\ SamePlace(l, n) /\ SameConn(l, n)
  BY <1>1 DEF Local, SamePlace, SameConn
<1> HIDE DEF n
<1>8. Moves(t, n.pc, n.mem) /\ local'[t] = n
  BY <1>5, <1>6, RecordMoves
<1> QED
  BY <1>2, <1>7, <1>8 DEF Credits, a

LEMMA PeerNameMoves ==
    ASSUME LocalsOK, NEW t \in Thread, peer_name(t)
    PROVE  /\ local[t].pc = "auth" /\ ~prog.supplied
           /\ \E m \in peer_sock_name(local[t].mem, "peer", "peer_long") :
                Goes(t, IF m.ptr["sockname"] = Null THEN "own_name" ELSE "authptr", m)
<1>1. PICK m \in peer_sock_name(local[t].mem, "peer", "peer_long") :
         Goto(t, IF m.ptr["sockname"] = Null THEN "own_name" ELSE "authptr", m)
  BY MemOf DEF peer_name
<1>2. m \in Memory
  BY <1>1, MemOf, NamesTyped DEF Block
<1>3. (IF m.ptr["sockname"] = Null THEN "own_name" ELSE "authptr") \in Label
  BY DEF Label
<1>4. Goes(t, IF m.ptr["sockname"] = Null THEN "own_name" ELSE "authptr", m)
  BY <1>1, <1>2, <1>3, GotoGoes
<1> QED
  BY <1>1, <1>4 DEF peer_name, At

LEMMA OwnNameMoves ==
    ASSUME LocalsOK, NEW t \in Thread, own_name(t)
    PROVE  LET l == local[t]
               n == local'[t]
           IN  /\ l.pc = "own_name"
               /\ \E m \in peer_sock_name(l.mem, "own", "own_long") :
                    \/ m.ptr["sockname"] = Null /\ Goes(t, "calloc", m)
                    \/ m.ptr["sockname"] # Null /\ Goes(t, "calloc", free(m, "sockname"))
                    \/ /\ m.ptr["sockname"] # Null /\ Moves(t, "authptr", m)
                       /\ n.gotsockname = TRUE /\ n.ourauth = l.ourauth /\ n.cred = l.cred
                       /\ SamePlace(l, n) /\ SameConn(l, n)
<1> DEFINE l == local[t]
<1>1. l \in Local /\ Mem(t) = l.mem /\ l.mem \in Memory
  BY MemOf
<1>2. l.pc = "own_name"
  BY DEF own_name, At
<1>3. PICK m \in peer_sock_name(l.mem, "own", "own_long") :
         IF m.ptr["sockname"] = Null THEN Goto(t, "calloc", m)
         ELSE IF l.peer \notin LocalPlace THEN Goto(t, "calloc", free(m, "sockname"))
         ELSE local' = [local EXCEPT ![t].pc = "authptr", ![t].mem = m,
                                     ![t].gotsockname = TRUE]
  BY <1>1 DEF own_name
<1>4. m \in Memory
  BY <1>1, <1>3, NamesTyped DEF Block
<1>5. free(m, "sockname") \in Memory /\ "calloc" \in Label
  BY <1>4, OpsTyped DEF Var, Label
<1>6. CASE m.ptr["sockname"] = Null
  <2>1. Goes(t, "calloc", m)
    BY <1>3, <1>4, <1>5, <1>6, GotoGoes
  <2> QED
    BY <1>2, <1>3, <1>6, <2>1
<1>7. CASE m.ptr["sockname"] # Null /\ l.peer \notin LocalPlace
  <2>1. Goes(t, "calloc", free(m, "sockname"))
    BY <1>3, <1>5, <1>7, GotoGoes
  <2> QED
    BY <1>2, <1>3, <1>7, <2>1
<1>8. CASE m.ptr["sockname"] # Null /\ l.peer \in LocalPlace
  <2> DEFINE n == [l EXCEPT !.pc = "authptr", !.mem = m, !.gotsockname = TRUE]
  <2>1. local' = [local EXCEPT ![t] = n]
    BY <1>1, <1>3, <1>8 DEF LocalsOK, Local
  <2>2. n \in Local
    BY <1>1, <1>4 DEF Local, Label
  <2>3. /\ n.pc = "authptr" /\ n.mem = m /\ n.gotsockname = TRUE /\ n.ourauth = l.ourauth
        /\ n.cred = l.cred /\ SamePlace(l, n) /\ SameConn(l, n)
    BY <1>1 DEF Local, SamePlace, SameConn
  <2> HIDE DEF n
  <2>4. Moves(t, n.pc, n.mem) /\ local'[t] = n
    BY <2>1, <2>2, RecordMoves
  <2> QED
    BY <1>2, <1>3, <1>8, <2>3, <2>4
<1> QED
  BY <1>6, <1>7, <1>8

LEMMA FamilyTyped ==
    ASSUME NEW a
    PROVE  family(a) \in Family
BY DEF family, Family

LEMMA GetAuthptrMoves ==
    ASSUME LocalsOK, NEW t \in Thread, get_authptr(t)
    PROVE  LET l == local[t]
               f == family(l.peer)
               m == deref(l.mem, "sockname")
               d(ok) == memdup(malloc(m, "authptr", "authptr"), "info.name", 1, ok)
           IN  /\ l.pc = "authptr"
               /\ \/ /\ prog.faults = {} => prog.xauth[f] = NoEntry
                     /\ Goes(t, "calloc", free(m, "sockname"))
                  \/ /\ prog.xauth[f] # NoEntry
                     /\ \E ok \in BOOLEAN :
                          /\ prog.faults = {} => ok
                          /\ \/ /\ d(ok).ptr["info.name"] = Null
                                /\ Goes(t, "calloc", no_auth(d(ok)))
                             \/ /\ d(ok).ptr["info.name"] # Null
                                /\ Credits(t, IF l.gotsockname THEN "compute" ELSE "own_again",
                                           d(ok), [NoCred EXCEPT !.family = f])
                                /\ local'[t].ourauth = l.ourauth
<1> DEFINE l == local[t]
           f == family(l.peer)
           e == prog.xauth[f]
           m == deref(l.mem, "sockname")
           d(ok) == memdup(malloc(m, "authptr", "authptr"), "info.name", 1, ok)
           x == IF l.gotsockname THEN "compute" ELSE "own_again"
           a == [NoCred EXCEPT !.family = f]
<1>1. l \in Local /\ Mem(t) = l.mem /\ l.mem \in Memory
  BY MemOf
<1>2. l.pc = "authptr"
  BY DEF get_authptr, At
<1>3. PICK known \in (IF f = "Local" THEN Ok("hostname") ELSE {TRUE}), ok \in Ok("nomem") :
         IF ~known \/ e = NoEntry THEN Goto(t, "calloc", free(m, "sockname"))
         ELSE IF d(ok).ptr["info.name"] = Null THEN Goto(t, "calloc", no_auth(d(ok)))
         ELSE local' = [local EXCEPT ![t].pc = x, ![t].mem = d(ok), ![t].cred = a]
  BY <1>1 DEF get_authptr
<1>4. known \in BOOLEAN /\ (prog.faults = {} => known)
  BY <1>3, OkBoolean
<1>5. ok \in BOOLEAN /\ (prog.faults = {} => ok)
  BY <1>3, OkBoolean
<1>6. /\ "sockname" \in Var /\ "authptr" \in Var /\ "authptr" \in Block
      /\ "info.name" \in Var /\ "info.name" \in Block
  BY DEF Var, Block
<1>7. m \in Memory
  BY <1>1, <1>6, OpsTyped
<1>8. d(ok) \in Memory
  <2>1. malloc(m, "authptr", "authptr") \in Memory
    BY <1>6, <1>7, OpsTyped
  <2> QED
    BY <1>6, <2>1, PartsTyped
<1>9. free(m, "sockname") \in Memory /\ no_auth(d(ok)) \in Memory
  BY <1>6, <1>7, <1>8, OpsTyped, PartsTyped
<1>10. x \in Label /\ "calloc" \in Label
  BY DEF Label
<1>11. a \in Cred
  BY FamilyTyped DEF NoCred, Cred
<1>12. CASE ~known \/ e = NoEntry
  <2>1. Goes(t, "calloc", free(m, "sockname"))
    BY <1>3, <1>9, <1>10, <1>12, GotoGoes
  <2> QED
    BY <1>2, <1>4, <1>12, <2>1
<1>13. CASE ~(~known \/ e = NoEntry) /\ d(ok).ptr["info.name"] = Null
  <2>1. Goes(t, "calloc", no_auth(d(ok)))
    BY <1>3, <1>9, <1>10, <1>13, GotoGoes
  <2> QED
    BY <1>2, <1>5, <1>13, <2>1
<1>14. CASE ~(~known \/ e = NoEntry) /\ d(ok).ptr["info.name"] # Null
  <2> DEFINE k == d(ok)
             n == [l EXCEPT !.pc = x, !.mem = k, !.cred = a]
  <2>1. local' = [local EXCEPT ![t].pc = x, ![t].mem = k, ![t].cred = a]
    BY <1>3, <1>14
  <2>2. k \in Memory
    BY <1>8
  <2> HIDE DEF k, x, a
  <2>3. local' = [local EXCEPT ![t] = n]
    BY <1>1, <2>1 DEF LocalsOK, Local
  <2>4. n \in Local
    BY <1>1, <1>10, <1>11, <2>2 DEF Local
  <2>5. /\ n.pc = x /\ n.mem = k /\ n.cred = a /\ n.ourauth = l.ourauth
        /\ n.gotsockname = l.gotsockname /\ SamePlace(l, n) /\ SameConn(l, n)
    BY <1>1 DEF Local, SamePlace, SameConn
  <2> HIDE DEF n
  <2>6. Moves(t, n.pc, n.mem) /\ local'[t] = n
    BY <2>3, <2>4, RecordMoves
  <2>7. Credits(t, x, k, a) /\ local'[t].ourauth = l.ourauth
    BY <2>5, <2>6 DEF Credits
  <2> QED
    BY <1>2, <1>5, <1>14, <2>7 DEF k, x, a
<1> QED
  BY <1>12, <1>13, <1>14

LEMMA OwnAgainMoves ==
    ASSUME LocalsOK, NEW t \in Thread, own_again(t)
    PROVE  /\ local[t].pc = "own_again"
           /\ \E m \in peer_sock_name(local[t].mem, "own", "own_long") :
                \/ /\ m.ptr["sockname"] = Null
                   /\ Goes(t, "calloc", no_auth(free(m, "info.name")))
                \/ m.ptr["sockname"] # Null /\ Goes(t, "compute", m)
<1>1. PICK m \in peer_sock_name(local[t].mem, "own", "own_long") :
         IF m.ptr["sockname"] = Null THEN Goto(t, "calloc", no_auth(free(m, "info.name")))
         ELSE Goto(t, "compute", m)
  BY MemOf DEF own_again
<1>2. m \in Memory
  BY <1>1, MemOf, NamesTyped DEF Block
<1>3. "info.name" \in Var /\ "calloc" \in Label /\ "compute" \in Label
  BY DEF Var, Label
<1>4. no_auth(free(m, "info.name")) \in Memory
  BY <1>2, <1>3, OpsTyped, PartsTyped
<1>5. local[t].pc = "own_again"
  BY DEF own_again, At
<1> QED
  BY <1>1, <1>2, <1>3, <1>4, <1>5, GotoGoes

\* The data is there: _xcb_get_auth_info returns 1.
Granted(t, m, from) ==
    /\ Credits(t, "calloc", free(clear(free(m, "sockname"), "sockname"), "authptr"),
               [local[t].cred EXCEPT !.from = from])
    /\ local'[t].ourauth = TRUE

LEMMA AuthorizedGranted ==
    ASSUME LocalsOK, NEW t \in Thread, NEW m \in Memory,
           NEW from \in {"cookie", "nonce", "address", "zero"}, authorized(t, m, from)
    PROVE  Granted(t, m, from)
<1> DEFINE l == local[t]
           m1 == free(clear(free(m, "sockname"), "sockname"), "authptr")
           a == [l.cred EXCEPT !.from = from]
           n == [l EXCEPT !.pc = "calloc", !.ourauth = TRUE, !.mem = m1, !.cred = a]
<1>1. l \in Local /\ l.cred \in Cred
  BY MemOf DEF Local
<1>2. m1 \in Memory
  <2>1. "sockname" \in Var /\ "authptr" \in Var
    BY DEF Var
  <2> QED
    BY <2>1, OpsTyped
<1>3. a \in Cred
  BY <1>1 DEF Cred
<1>4. local' = [local EXCEPT ![t].pc = "calloc", ![t].ourauth = TRUE, ![t].mem = m1,
                             ![t].cred.from = from]
  BY DEF authorized
<1> HIDE DEF m1
<1>5. local' = [local EXCEPT ![t] = n]
  BY <1>1, <1>4 DEF LocalsOK, Local
<1> HIDE DEF a
<1>6. n \in Local
  BY <1>1, <1>2, <1>3 DEF Local, Label
<1>7. /\ n.pc = "calloc" /\ n.mem = m1 /\ n.cred = a /\ n.ourauth = TRUE
      /\ n.gotsockname = l.gotsockname /\ SamePlace(l, n) /\ SameConn(l, n)
  BY <1>1 DEF Local, SamePlace, SameConn
<1> HIDE DEF n
<1>8. Moves(t, n.pc, n.mem) /\ local'[t] = n
  BY <1>5, <1>6, RecordMoves
<1>9. Credits(t, "calloc", m1, a) /\ local'[t].ourauth = TRUE
  BY <1>7, <1>8 DEF Credits
<1> QED
  BY <1>9 DEF Granted, m1, a

LEMMA ComputeMoves ==
    ASSUME LocalsOK, NEW t \in Thread, compute_auth(t)
    PROVE  LET l == local[t]
               e == entry(t)
               len == IF e.name = "MC1" THEN e.len ELSE 1
               d(ok) == memdup(deref(l.mem, "authptr"), "info.data", len, ok)
           IN  /\ l.pc = "compute"
               /\ \E ok \in BOOLEAN :
                    /\ prog.faults = {} => ok
                    /\ \/ /\ d(ok).ptr["info.data"] = Null
                          /\ Goes(t, "calloc", no_auth(free(d(ok), "info.name")))
                       \/ /\ d(ok).ptr["info.data"] # Null /\ e.name = "MC1"
                          /\ Granted(t, d(ok), "cookie")
                       \/ /\ d(ok).ptr["info.data"] # Null /\ e.name # "MC1"
                          /\ l.peer \in LocalPlace /\ Goes(t, "nonce", d(ok))
                       \/ /\ d(ok).ptr["info.data"] # Null /\ e.name # "MC1"
                          /\ \E from \in {"zero", "address"} :
                               Granted(t, deref(d(ok), "sockname"), from)
<1> DEFINE l == local[t]
           e == entry(t)
           len == IF e.name = "MC1" THEN e.len ELSE 1
           d(ok) == memdup(deref(l.mem, "authptr"), "info.data", len, ok)
           from == IF l.peer \in Six \ Mapped THEN "zero" ELSE "address"
<1>1. l \in Local /\ Mem(t) = l.mem /\ l.mem \in Memory
  BY MemOf
<1>2. l.pc = "compute"
  BY DEF compute_auth, At
<1>3. PICK ok \in Ok("nomem") :
         IF d(ok).ptr["info.data"] = Null
         THEN Goto(t, "calloc", no_auth(free(d(ok), "info.name")))
         ELSE IF e.name = "MC1" THEN authorized(t, d(ok), "cookie")
         ELSE IF l.peer \in LocalPlace THEN Goto(t, "nonce", d(ok))
         ELSE authorized(t, deref(d(ok), "sockname"), from)
  BY <1>1 DEF compute_auth
<1>4. ok \in BOOLEAN /\ (prog.faults = {} => ok)
  BY <1>3, OkBoolean
<1> DEFINE k == d(ok)
<1>5. /\ "sockname" \in Var /\ "authptr" \in Var /\ "info.name" \in Var
      /\ "info.data" \in Var /\ "info.data" \in Block
  BY DEF Var, Block
<1>6. k \in Memory
  <2>1. deref(l.mem, "authptr") \in Memory
    BY <1>1, <1>5, OpsTyped
  <2> HIDE DEF len
  <2> QED
    BY <1>5, <2>1, PartsTyped
<1>7. no_auth(free(k, "info.name")) \in Memory /\ deref(k, "sockname") \in Memory
  <2> HIDE DEF k
  <2> QED
    BY <1>5, <1>6, OpsTyped, PartsTyped
<1>8. "calloc" \in Label /\ "nonce" \in Label /\ from \in {"zero", "address"}
  BY DEF Label
<1>9. IF k.ptr["info.data"] = Null
      THEN Goto(t, "calloc", no_auth(free(k, "info.name")))
      ELSE IF e.name = "MC1" THEN authorized(t, k, "cookie")
      ELSE IF l.peer \in LocalPlace THEN Goto(t, "nonce", k)
      ELSE authorized(t, deref(k, "sockname"), from)
  BY <1>3
<1> HIDE DEF k, from
<1>10. \/ /\ k.ptr["info.data"] = Null
          /\ Goes(t, "calloc", no_auth(free(k, "info.name")))
       \/ k.ptr["info.data"] # Null /\ e.name = "MC1" /\ Granted(t, k, "cookie")
       \/ /\ k.ptr["info.data"] # Null /\ e.name # "MC1"
          /\ l.peer \in LocalPlace /\ Goes(t, "nonce", k)
       \/ /\ k.ptr["info.data"] # Null /\ e.name # "MC1"
          /\ Granted(t, deref(k, "sockname"), from)
  <2>1. CASE k.ptr["info.data"] = Null
    BY <1>7, <1>8, <1>9, <2>1, GotoGoes
  <2>2. CASE k.ptr["info.data"] # Null /\ e.name = "MC1"
    BY <1>6, <1>9, <2>2, AuthorizedGranted
  <2>3. CASE k.ptr["info.data"] # Null /\ e.name # "MC1" /\ l.peer \in LocalPlace
    BY <1>6, <1>8, <1>9, <2>3, GotoGoes
  <2>4. CASE k.ptr["info.data"] # Null /\ e.name # "MC1" /\ l.peer \notin LocalPlace
    <3>1. authorized(t, deref(k, "sockname"), from)
      BY <1>9, <2>4
    <3>2. from \in {"cookie", "nonce", "address", "zero"}
      BY <1>8
    <3> QED
      BY <1>7, <2>4, <3>1, <3>2, AuthorizedGranted
  <2> QED
    BY <2>1, <2>2, <2>3, <2>4
<1> QED
  BY <1>2, <1>4, <1>8, <1>10 DEF k

LEMMA ReadNonceMoves ==
    ASSUME LocalsOK, nonce \in Nat, NEW t \in Thread, read_nonce(t)
    PROVE  /\ local[t].pc = "nonce" /\ nonce_mutex = NoThread /\ nonce_mutex' = t
           /\ nonce' = nonce /\ local'[t].ourauth = local[t].ourauth
           /\ Credits(t, "next_nonce", local[t].mem, [local[t].cred EXCEPT !.nonce = nonce])
<1> DEFINE l == local[t]
           a == [l.cred EXCEPT !.nonce = nonce]
           n == [l EXCEPT !.pc = "next_nonce", !.cred = a]
<1>1. l \in Local /\ l.cred \in Cred
  BY MemOf DEF Local
<1>2. l.pc = "nonce" /\ nonce_mutex = NoThread /\ nonce_mutex' = t /\ nonce' = nonce
  BY DEF read_nonce, At, lock_nonce
<1>3. a \in Cred
  BY <1>1 DEF Cred
<1>4. local' = [local EXCEPT ![t].pc = "next_nonce", ![t].cred.nonce = nonce]
  BY DEF read_nonce
<1>5. local' = [local EXCEPT ![t] = n]
  BY <1>1, <1>4 DEF LocalsOK, Local
<1> HIDE DEF a
<1>6. n \in Local
  BY <1>1, <1>3 DEF Local, Label
<1>7. /\ n.pc = "next_nonce" /\ n.mem = l.mem /\ n.cred = a /\ n.ourauth = l.ourauth
      /\ n.gotsockname = l.gotsockname /\ SamePlace(l, n) /\ SameConn(l, n)
  BY <1>1 DEF Local, SamePlace, SameConn
<1> HIDE DEF n
<1>8. Moves(t, n.pc, n.mem) /\ local'[t] = n
  BY <1>5, <1>6, RecordMoves
<1> QED
  BY <1>2, <1>7, <1>8 DEF Credits, a

LEMMA NextNonceMoves ==
    ASSUME LocalsOK, NEW t \in Thread, next_nonce(t)
    PROVE  /\ local[t].pc = "next_nonce" /\ nonce_mutex' = NoThread
           /\ nonce' = local[t].cred.nonce + 1 /\ Granted(t, local[t].mem, "nonce")
BY MemOf, AuthorizedGranted DEF next_nonce, At

LEMMA ConnectFdMoves ==
    ASSUME LocalsOK, NEW t \in Thread, connect_to_fd(t)
    PROVE  LET l == local[t]
               n == local'[t]
           IN  /\ l.pc = "calloc" /\ SamePlace(l, n) /\ SameAuth(l, n)
               /\ n.sent = l.sent /\ n.answer = l.answer
               /\ \/ Moves(t, "init", malloc(l.mem, "c", "c")) /\ n.step = 1 /\ n.c = l.c
                  \/ /\ prog.faults # {} /\ Moves(t, "done", close(l.mem))
                     /\ n.step = l.step /\ n.c = "error"
<1> DEFINE l == local[t]
           m1 == malloc(l.mem, "c", "c")
           m2 == close(l.mem)
<1>1. l \in Local /\ Mem(t) = l.mem /\ l.mem \in Memory
  BY MemOf
<1>2. l.pc = "calloc"
  BY DEF connect_to_fd, At
<1>3. PICK ok \in Ok("nomem") :
         IF ok THEN local' = [local EXCEPT ![t].pc = "init", ![t].step = 1,
                                           ![t].mem = malloc(@, "c", "c")]
         ELSE local' = [local EXCEPT ![t].pc = "done", ![t].mem = close(@), ![t].c = "error"]
  BY <1>1 DEF connect_to_fd, calloc_failed
<1>4. ok \in BOOLEAN /\ (prog.faults = {} => ok)
  BY <1>3, OkBoolean
<1>5. m1 \in Memory /\ m2 \in Memory
  BY <1>1, OpsTyped, PartsTyped DEF Var, Block
<1>6. CASE ok
  <2> DEFINE n == [l EXCEPT !.pc = "init", !.step = 1, !.mem = m1]
  <2>1. local' = [local EXCEPT ![t] = n]
    BY <1>1, <1>3, <1>6 DEF LocalsOK, Local
  <2> HIDE DEF m1
  <2>0. 1 \in 0 .. Steps + 1
    BY DEF Steps
  <2>2. n \in Local
    BY <1>1, <1>5, <2>0 DEF Local, Label
  <2>3. /\ n.pc = "init" /\ n.mem = m1 /\ n.step = 1 /\ n.c = l.c /\ n.sent = l.sent
        /\ n.answer = l.answer /\ SamePlace(l, n) /\ SameAuth(l, n)
    BY <1>1 DEF Local, SamePlace, SameAuth
  <2> HIDE DEF n
  <2>4. Moves(t, n.pc, n.mem) /\ local'[t] = n
    BY <2>1, <2>2, RecordMoves
  <2> QED
    BY <1>2, <2>3, <2>4 DEF m1
<1>7. CASE ~ok
  <2> DEFINE n == [l EXCEPT !.pc = "done", !.mem = m2, !.c = "error"]
  <2>1. local' = [local EXCEPT ![t] = n]
    BY <1>1, <1>3, <1>7 DEF LocalsOK, Local
  <2> HIDE DEF m2
  <2>2. n \in Local
    BY <1>1, <1>5 DEF Local, Label
  <2>3. /\ n.pc = "done" /\ n.mem = m2 /\ n.step = l.step /\ n.c = "error" /\ n.sent = l.sent
        /\ n.answer = l.answer /\ SamePlace(l, n) /\ SameAuth(l, n)
    BY <1>1 DEF Local, SamePlace, SameAuth
  <2> HIDE DEF n
  <2>4. Moves(t, n.pc, n.mem) /\ local'[t] = n
    BY <2>1, <2>2, RecordMoves
  <2> QED
    BY <1>2, <1>4, <1>7, <2>3, <2>4 DEF m2
<1> QED
  BY <1>4, <1>6, <1>7

LEMMA FreeAuthMoves ==
    ASSUME LocalsOK, NEW t \in Thread, free_auth(t)
    PROVE  /\ local[t].pc = "done"
           /\ Goes(t, "out", IF local[t].ourauth
                             THEN frees(local[t].mem, "info.name", "info.data")
                             ELSE local[t].mem)
<1>1. "info.name" \in Var /\ "info.data" \in Var /\ "out" \in Label
  BY DEF Var, Label
<1> DEFINE m == IF local[t].ourauth THEN frees(local[t].mem, "info.name", "info.data")
                ELSE local[t].mem
<1>2. m \in Memory
  BY <1>1, MemOf, OpsTyped
<1>3. local[t].pc = "done" /\ Goto(t, "out", m)
  BY MemOf DEF free_auth, At
<1> HIDE DEF m
<1>4. Goes(t, "out", m)
  BY <1>1, <1>2, <1>3, GotoGoes
<1> QED
  BY <1>3, <1>4 DEF m

LEMMA OutMoves ==
    ASSUME LocalsOK, NEW t \in Thread, out(t)
    PROVE  LET l == local[t]
               n == local'[t]
           IN  /\ l.pc = "out" /\ Moves(t, "returned", frees(l.mem, "host", "protocol"))
               /\ SamePlace(l, n) /\ SameAuth(l, n)
               /\ n.sent = l.sent /\ n.answer = l.answer /\ n.step = l.step
               /\ n.c = IF l.c = "none" THEN "error" ELSE l.c
<1> DEFINE l == local[t]
           m1 == frees(l.mem, "host", "protocol")
           c1 == IF l.c = "none" THEN "error" ELSE l.c
           n == [l EXCEPT !.pc = "returned", !.mem = m1, !.c = c1]
<1>1. l \in Local /\ Mem(t) = l.mem /\ l.mem \in Memory
  BY MemOf
<1>2. l.pc = "out"
  BY DEF out, At
<1>3. local' = [local EXCEPT ![t].pc = "returned", ![t].mem = frees(@, "host", "protocol"),
                             ![t].c = IF @ = "none" THEN "error" ELSE @]
  BY DEF out
<1>4. m1 \in Memory
  <2>1. "host" \in Var /\ "protocol" \in Var
    BY DEF Var
  <2> QED
    BY <1>1, <2>1, OpsTyped
<1>5. local' = [local EXCEPT ![t] = n]
  BY <1>1, <1>3 DEF LocalsOK, Local
<1>6. c1 \in {"none", "error", "c"}
  BY <1>1 DEF Local
<1> HIDE DEF m1, c1
<1>7. n \in Local
  BY <1>1, <1>4, <1>6 DEF Local, Label
<1>8. /\ n.pc = "returned" /\ n.mem = m1 /\ n.c = c1 /\ n.sent = l.sent
      /\ n.answer = l.answer /\ n.step = l.step /\ SamePlace(l, n) /\ SameAuth(l, n)
  BY <1>1 DEF Local, SamePlace, SameAuth
<1> HIDE DEF n
<1>9. Moves(t, n.pc, n.mem) /\ local'[t] = n
  BY <1>5, <1>7, RecordMoves
<1> QED
  BY <1>2, <1>8, <1>9 DEF m1, c1

LEMMA UseMoves ==
    ASSUME LocalsOK, NEW t \in Thread, use(t)
    PROVE  /\ local[t].pc = "returned" /\ local[t].c = "c"
           /\ \E S \in SUBSET Lists : Goes(t, "used", malloc_all(local[t].mem, S))
<1>1. PICK S \in SUBSET Lists : Goto(t, "used", malloc_all(local[t].mem, S))
  BY MemOf DEF use
<1>2. malloc_all(local[t].mem, S) \in Memory /\ "used" \in Label
  BY MemOf, ListsTyped DEF Label
<1>3. Goes(t, "used", malloc_all(local[t].mem, S))
  BY <1>1, <1>2, GotoGoes
<1> QED
  BY <1>3 DEF use, At

LEMMA DisconnectMoves ==
    ASSUME LocalsOK, NEW t \in Thread, disconnect(t)
    PROVE  /\ local[t].pc \in {"returned", "used"}
           /\ Goes(t, "closed", IF local[t].c = "c" THEN xcb_disconnect(local[t].mem)
                                ELSE local[t].mem)
<1> DEFINE m == IF local[t].c = "c" THEN xcb_disconnect(local[t].mem) ELSE local[t].mem
<1>1. m \in Memory /\ "closed" \in Label
  BY MemOf, PartsTyped DEF Label
<1>2. local[t].pc \in {"returned", "used"} /\ Goto(t, "closed", m)
  BY MemOf DEF disconnect, At
<1> HIDE DEF m
<1>3. Goes(t, "closed", m)
  BY <1>1, <1>2, GotoGoes
<1> QED
  BY <1>2, <1>3 DEF m
-----------------------------------------------------------------------------
(* How far a thread has come                                               *)

\* The actions of thread t.
Acts(t) ==
    \/ parse_display(t) \/ free_host(t)
    \/ open_tcp(t) \/ try_address(t)
    \/ open_unix(t) \/ open_abstract(t) \/ open_path(t)
    \/ use_supplied(t) \/ peer_name(t) \/ own_name(t) \/ get_authptr(t) \/ own_again(t)
    \/ compute_auth(t) \/ read_nonce(t) \/ next_nonce(t)
    \/ connect_to_fd(t) \/ connect_step(t)
    \/ free_auth(t) \/ out(t) \/ use(t) \/ disconnect(t)

\* Thread t has moved: the record of every other thread is as it was.
Moved(t) == local' \in [Thread -> Local] /\ \A u \in Thread \ {t} : local'[u] = local[u]

Typed ==
    LocalsOK /\ prog \in Program /\ nonce \in Nat /\ nonce_mutex \in Thread \cup {NoThread}

LEMMA ProgressStep ==
    ASSUME Typed, NEW t \in Thread, Progress(local[t]), Acts(t)
    PROVE  Moved(t) /\ Progress(local'[t])
<1> DEFINE l == local[t]
           n == local'[t]
<1>0. LocalsOK /\ prog \in Program /\ nonce \in Nat
  BY DEF Typed
<1>1. l \in Local /\ l.step \in 0 .. Steps + 1 /\ l.c \in {"none", "error", "c"}
  BY <1>0, MemOf DEF Local
<1>2. ASSUME NEW x, NEW m, Goes(t, x, m)
      PROVE  /\ Moved(t) /\ n.pc = x /\ n.c = l.c /\ n.step = l.step /\ n.cred = l.cred
             /\ n.ourauth = l.ourauth /\ n.gotsockname = l.gotsockname
  BY <1>2 DEF Goes, Moves, Moved, SameConn, SameAuth
<1>3. ASSUME NEW x, NEW m, NEW a, Credits(t, x, m, a)
      PROVE  Moved(t) /\ n.pc = x /\ n.c = l.c /\ n.step = l.step
  BY <1>3 DEF Credits, Moves, Moved, SameConn
<1>4. ASSUME NEW p, NEW m, Reaches(t, p, m)
      PROVE  /\ Moved(t) /\ n.pc = "auth" /\ n.c = l.c /\ n.step = l.step /\ n.cred = l.cred
             /\ n.ourauth = l.ourauth /\ n.gotsockname = l.gotsockname
  BY <1>4 DEF Reaches, Moves, Moved, SameConn, SameAuth
<1> USE DEF Progress, Connecting, Opening, Asking, Computing
<1>5. CASE parse_display(t)
  <2>1. /\ l.pc = "start" /\ n.c = l.c /\ n.step = l.step /\ n.cred = l.cred
        /\ n.ourauth = l.ourauth /\ n.gotsockname = l.gotsockname
    BY <1>0, <1>5, ParseMoves DEF SameConn, SameAuth
  <2>2. Moved(t) /\ n.pc \in {"open", "parsed", "out", "closed"}
    BY <1>0, <1>5, ParseMoves DEF Moves, Moved
  <2> QED
    BY <2>1, <2>2
<1>6. CASE free_host(t)
  BY <1>0, <1>2, <1>6, FreeHostMoves
<1>7. CASE open_tcp(t)
  <2>1. /\ l.pc = "open" /\ n.c = l.c /\ n.step = l.step /\ n.cred = l.cred
        /\ n.ourauth = l.ourauth /\ n.gotsockname = l.gotsockname /\ Moved(t) /\ n.pc \in {"tcp", "out"}
    BY <1>0, <1>7, OpenTcpMoves DEF Goes, SameConn, SameAuth, Moves, Moved
  <2> QED
    BY <2>1
<1>8. CASE try_address(t)
  <2>1. /\ l.pc = "tcp" /\ n.c = l.c /\ n.step = l.step /\ n.cred = l.cred
        /\ n.ourauth = l.ourauth /\ n.gotsockname = l.gotsockname /\ Moved(t) /\ n.pc \in {"tcp", "out", "auth"}
    BY <1>0, <1>8, TryMoves DEF Goes, Reaches, SameConn, SameAuth, Moves, Moved
  <2> QED
    BY <2>1
<1>9. CASE open_unix(t)
  BY <1>0, <1>2, <1>9, OpenUnixMoves
<1>10. CASE open_abstract(t)
  BY <1>0, <1>2, <1>4, <1>10, OpenAbstractMoves
<1>11. CASE open_path(t)
  BY <1>0, <1>2, <1>4, <1>11, OpenPathMoves
<1>12. CASE use_supplied(t)
  <2>1. l.pc = "auth" /\ Moved(t) /\ n.pc = "calloc" /\ n.c = l.c /\ n.step = l.step
    BY <1>0, <1>3, <1>12, SuppliedMoves
  <2> QED
    BY <2>1
<1>13. CASE peer_name(t)
  <2>1. /\ l.pc = "auth" /\ Moved(t) /\ n.pc \in {"own_name", "authptr"} /\ n.c = l.c
        /\ n.step = l.step /\ n.cred = l.cred /\ n.ourauth = l.ourauth /\ n.gotsockname = l.gotsockname
    BY <1>0, <1>2, <1>13, PeerNameMoves
  <2> QED
    BY <2>1
<1>14. CASE own_name(t)
  <2>1. /\ l.pc = "own_name" /\ Moved(t) /\ n.pc \in {"calloc", "authptr"} /\ n.c = l.c
        /\ n.step = l.step /\ n.cred = l.cred /\ n.ourauth = l.ourauth
    BY <1>0, <1>14, OwnNameMoves DEF Goes, Moves, Moved, SameConn, SameAuth
  <2> QED
    BY <2>1
<1>15. CASE get_authptr(t)
  <2>1. /\ l.pc = "authptr" /\ Moved(t) /\ n.pc \in {"calloc", "compute", "own_again"}
        /\ n.c = l.c /\ n.step = l.step /\ n.ourauth = l.ourauth
    BY <1>0, <1>2, <1>3, <1>15, GetAuthptrMoves
  <2> QED
    BY <2>1
<1>16. CASE own_again(t)
  <2>1. /\ l.pc = "own_again" /\ Moved(t) /\ n.pc \in {"calloc", "compute"}
        /\ n.c = l.c /\ n.step = l.step /\ n.ourauth = l.ourauth
    BY <1>0, <1>2, <1>16, OwnAgainMoves
  <2> QED
    BY <2>1
<1>17. CASE compute_auth(t)
  <2>1. /\ l.pc = "compute" /\ Moved(t) /\ n.c = l.c /\ n.step = l.step
        /\ n.pc = "calloc" \/ (n.pc = "nonce" /\ n.ourauth = l.ourauth)
    BY <1>0, <1>2, <1>3, <1>17, ComputeMoves DEF Granted
  <2> QED
    BY <2>1
<1>18. CASE read_nonce(t)
  <2>1. /\ l.pc = "nonce" /\ Moved(t) /\ n.c = l.c /\ n.step = l.step
        /\ n.pc = "next_nonce" /\ n.ourauth = l.ourauth
    BY <1>0, <1>3, <1>18, ReadNonceMoves
  <2> QED
    BY <2>1
<1>19. CASE next_nonce(t)
  <2>1. l.pc = "next_nonce" /\ Moved(t) /\ n.c = l.c /\ n.step = l.step /\ n.pc = "calloc"
    BY <1>0, <1>3, <1>19, NextNonceMoves DEF Granted
  <2> QED
    BY <2>1
<1>20. CASE connect_to_fd(t)
  <2>1. /\ l.pc = "calloc" /\ Moved(t)
        /\ \/ n.pc = "init" /\ n.step = 1 /\ n.c = l.c
           \/ n.pc = "done" /\ n.c = "error"
    BY <1>0, <1>20, ConnectFdMoves DEF Moves, Moved
  <2>2. 1 \in 1 .. Steps
    BY DEF Steps
  <2> QED
    BY <2>1, <2>2
<1>21. CASE connect_step(t)
  <2>1. l.pc = "init" /\ l.step \in 1 .. Steps
    BY <1>21 DEF connect_step, At
  <2>2. PICK r \in initialise(t, l.step, l.mem) :
           /\ Moves(t, IF r.ok /\ l.step < Steps THEN "init" ELSE "done",
                    IF r.ok THEN r.mem ELSE xcb_disconnect(r.mem))
           /\ n.step = l.step + 1
           /\ n.c = IF ~r.ok THEN "error" ELSE IF l.step = Steps THEN "c" ELSE l.c
    BY <1>0, <1>21, <2>1, StepMoves
  <2>3. /\ Moved(t) /\ n.step = l.step + 1 /\ (n.pc = "init" => n.step \in 1 .. Steps)
        /\ \/ n.pc = "done" /\ n.c = "error"
           \/ n.pc = "done" /\ n.c = "c" /\ n.step = Steps + 1
           \/ n.pc = "init" /\ n.c = l.c
    BY <2>1, <2>2 DEF Moves, Moved, Steps
  <2>4. l.c = "none"
    BY <2>1
  <2> QED
    BY <2>3, <2>4
<1>22. CASE free_auth(t)
  BY <1>0, <1>2, <1>22, FreeAuthMoves
<1>23. CASE out(t)
  <2>1. /\ l.pc = "out" /\ Moved(t) /\ n.pc = "returned" /\ n.step = l.step
        /\ n.c = IF l.c = "none" THEN "error" ELSE l.c
    BY <1>0, <1>23, OutMoves DEF Moves, Moved
  <2> QED
    BY <2>1
<1>24. CASE use(t)
  BY <1>0, <1>2, <1>24, UseMoves
<1>25. CASE disconnect(t)
  <2>1. /\ l.pc \in {"returned", "used"} /\ Moved(t) /\ n.pc = "closed" /\ n.step = l.step
        /\ n.c = l.c
    BY <1>0, <1>2, <1>25, DisconnectMoves
  <2> QED
    BY <2>1
<1> QED
  BY <1>5, <1>6, <1>7, <1>8, <1>9, <1>10, <1>11, <1>12, <1>13, <1>14, <1>15, <1>16, <1>17,
     <1>18, <1>19, <1>20, <1>21, <1>22, <1>23, <1>24, <1>25 DEF Acts
-----------------------------------------------------------------------------
(* Nonces                                                                  *)

LEMMA ProgNeverChanges ==
    ASSUME NEW t, Acts(t)
    PROVE  prog' = prog
BY DEF Acts, parse_display, free_host, open_tcp, try_address, open_unix, open_abstract, open_path,
       use_supplied, peer_name, own_name, get_authptr, own_again, compute_auth, read_nonce,
       next_nonce, connect_to_fd, connect_step, free_auth, out, use, disconnect, Unshared

\* A step that has nothing to do with the counter.
Quiet(t) ==
    LET l == local[t]
        n == local'[t]
    IN  /\ l.pc # "next_nonce" /\ n.pc # "next_nonce"
        /\ \/ /\ n.cred = l.cred /\ n.sent \in {l.sent, l.cred} /\ n.step >= l.step
              /\ n.sent # l.sent => n.step > 5
              /\ n.pc \in Computing => l.pc \in Computing
           \/ l.step = 0 /\ n.step = 0 /\ n.sent = l.sent /\ n.cred.from # "nonce"

LEMMA QuietStep ==
    ASSUME Typed, NEW t \in Thread, Progress(local[t]), Acts(t)
    PROVE  \/ Quiet(t) /\ nonce' = nonce /\ nonce_mutex' = nonce_mutex
           \/ read_nonce(t) \/ next_nonce(t)
<1> DEFINE l == local[t]
           n == local'[t]
<1>0. LocalsOK /\ prog \in Program /\ nonce \in Nat
  BY DEF Typed
<1>1. l \in Local /\ l.step \in 0 .. Steps + 1 /\ Steps \in Nat
  BY <1>0, MemOf DEF Local, Steps
<1>2. ASSUME NEW x, NEW m, Goes(t, x, m)
      PROVE  n.pc = x /\ n.cred = l.cred /\ n.sent = l.sent /\ n.step = l.step
  BY <1>2 DEF Goes, Moves, SameConn, SameAuth
<1>3. ASSUME NEW x, NEW m, NEW a, Credits(t, x, m, a)
      PROVE  n.pc = x /\ n.cred = a /\ n.sent = l.sent /\ n.step = l.step
  BY <1>3 DEF Credits, Moves, SameConn
<1>4. ASSUME NEW p, NEW m, Reaches(t, p, m)
      PROVE  n.pc = "auth" /\ n.cred = l.cred /\ n.sent = l.sent /\ n.step = l.step
  BY <1>4 DEF Reaches, Moves, SameConn, SameAuth
<1>5. Computing = {"own_again", "compute", "nonce", "next_nonce"}
  BY DEF Computing
<1>6. l.pc \in Connecting \ {"init"} => l.step = 0
  BY DEF Progress, Connecting
<1> USE DEF Quiet
<1>7. CASE parse_display(t)
  <2>1. l.pc = "start" /\ n.cred = l.cred /\ n.sent = l.sent /\ n.step = l.step
    BY <1>0, <1>7, ParseMoves DEF SameConn, SameAuth
  <2>2. n.pc \in {"open", "parsed", "out", "closed"}
    BY <1>0, <1>7, ParseMoves DEF Moves
  <2> QED
    BY <1>1, <1>5, <1>7, <2>1, <2>2 DEF parse_display, Unshared
<1>8. CASE free_host(t)
  BY <1>0, <1>1, <1>2, <1>5, <1>8, FreeHostMoves DEF free_host, Unshared
<1>9. CASE open_tcp(t)
  <2>1. /\ l.pc = "open" /\ n.cred = l.cred /\ n.sent = l.sent /\ n.step = l.step
        /\ n.pc \in {"tcp", "out"}
    BY <1>0, <1>9, OpenTcpMoves DEF Goes, SameConn, SameAuth, Moves
  <2>2. Unshared
    BY <1>9 DEF open_tcp
  <2> QED
    BY <1>1, <1>5, <2>1, <2>2 DEF Unshared
<1>10. CASE try_address(t)
  <2>1. /\ l.pc = "tcp" /\ n.cred = l.cred /\ n.sent = l.sent /\ n.step = l.step
        /\ n.pc \in {"tcp", "out", "auth"}
    BY <1>0, <1>10, TryMoves DEF Goes, Reaches, SameConn, SameAuth, Moves
  <2> QED
    BY <1>1, <1>5, <1>10, <2>1 DEF try_address, Unshared
<1>11. CASE open_unix(t)
  BY <1>0, <1>1, <1>2, <1>5, <1>11, OpenUnixMoves DEF open_unix, Unshared
<1>12. CASE open_abstract(t)
  BY <1>0, <1>1, <1>2, <1>4, <1>5, <1>12, OpenAbstractMoves DEF open_abstract, Unshared
<1>13. CASE open_path(t)
  BY <1>0, <1>1, <1>2, <1>4, <1>5, <1>13, OpenPathMoves DEF open_path, Unshared
<1>14. CASE use_supplied(t)
  <2>1. /\ l.pc = "auth" /\ n.pc = "calloc" /\ n.step = l.step /\ n.sent = l.sent
        /\ n.cred = [NoCred EXCEPT !.from = "supplied"]
    BY <1>0, <1>3, <1>14, SuppliedMoves
  <2>2. n.cred.from # "nonce" /\ l.step = 0
    BY <1>6, <2>1 DEF NoCred, Connecting
  <2> QED
    BY <1>14, <2>1, <2>2 DEF use_supplied, Unshared
<1>15. CASE peer_name(t)
  <2>1. /\ l.pc = "auth" /\ n.pc \in {"own_name", "authptr"} /\ n.cred = l.cred
        /\ n.sent = l.sent /\ n.step = l.step
    BY <1>0, <1>2, <1>15, PeerNameMoves
  <2> QED
    BY <1>1, <1>5, <1>15, <2>1 DEF peer_name, Unshared
<1>16. CASE own_name(t)
  <2>1. /\ l.pc = "own_name" /\ n.pc \in {"calloc", "authptr"} /\ n.cred = l.cred
        /\ n.sent = l.sent /\ n.step = l.step
    BY <1>0, <1>16, OwnNameMoves DEF Goes, Moves, SameConn, SameAuth
  <2> QED
    BY <1>1, <1>5, <1>16, <2>1 DEF own_name, Unshared
<1>17. CASE get_authptr(t)
  <2>1. /\ l.pc = "authptr" /\ n.sent = l.sent /\ n.step = l.step
        /\ \/ n.pc = "calloc" /\ n.cred = l.cred
           \/ n.pc \in {"compute", "own_again"} /\ n.cred = [NoCred EXCEPT !.family = family(l.peer)]
    BY <1>0, <1>2, <1>3, <1>17, GetAuthptrMoves
  <2>2. [NoCred EXCEPT !.family = family(l.peer)].from # "nonce" /\ l.step = 0
    BY <1>6, <2>1 DEF NoCred, Connecting
  <2>3. Unshared
    BY <1>17 DEF get_authptr
  <2>4. nonce' = nonce /\ nonce_mutex' = nonce_mutex
    BY <2>3 DEF Unshared
  <2>5. CASE n.pc = "calloc" /\ n.cred = l.cred
    BY <1>1, <1>5, <2>1, <2>4, <2>5
  <2>6. CASE n.cred = [NoCred EXCEPT !.family = family(l.peer)]
    BY <2>1, <2>2, <2>4, <2>6
  <2> QED
    BY <2>1, <2>5, <2>6
<1>18. CASE own_again(t)
  <2>1. /\ l.pc = "own_again" /\ n.pc \in {"calloc", "compute"} /\ n.cred = l.cred
        /\ n.sent = l.sent /\ n.step = l.step
    BY <1>0, <1>2, <1>18, OwnAgainMoves
  <2> QED
    BY <1>1, <1>5, <1>18, <2>1 DEF own_again, Unshared
<1>19. CASE compute_auth(t)
  <2>1. /\ l.pc = "compute" /\ n.sent = l.sent /\ n.step = l.step
        /\ \/ n.pc \in {"calloc", "nonce"} /\ n.cred = l.cred
           \/ /\ n.pc = "calloc"
              /\ \E from \in {"cookie", "zero", "address"} : n.cred = [l.cred EXCEPT !.from = from]
    <3>1. l.pc = "compute"
      BY <1>0, <1>19, ComputeMoves
    <3>2. \/ \E m : Goes(t, "calloc", m) \/ Goes(t, "nonce", m)
          \/ \E m, from : from \in {"cookie", "zero", "address"} /\ Granted(t, m, from)
      BY <1>0, <1>19, ComputeMoves
    <3>3. ASSUME NEW m, NEW from, Granted(t, m, from)
          PROVE  /\ n.pc = "calloc" /\ n.cred = [l.cred EXCEPT !.from = from]
                 /\ n.sent = l.sent /\ n.step = l.step
      BY <1>3, <3>3 DEF Granted
    <3> QED
      BY <1>2, <3>1, <3>2, <3>3
  <2>2. l.cred \in Cred /\ l.step = 0
    BY <1>1, <1>6, <2>1 DEF Local, Connecting
  <2>3. \A from \in {"cookie", "zero", "address"} : [l.cred EXCEPT !.from = from].from # "nonce"
    BY <2>2 DEF Cred
  <2>4. Unshared
    BY <1>19 DEF compute_auth
  <2>5. nonce' = nonce /\ nonce_mutex' = nonce_mutex
    BY <2>4 DEF Unshared
  <2>6. CASE n.cred = l.cred
    BY <1>1, <1>5, <2>1, <2>5, <2>6
  <2>7. CASE n.cred # l.cred
    <3>1. n.pc = "calloc" /\ n.cred.from # "nonce"
      BY <2>1, <2>3, <2>7
    <3> QED
      BY <2>1, <2>2, <2>5, <3>1
  <2> QED
    BY <2>6, <2>7
<1>20. CASE connect_to_fd(t)
  <2>1. /\ l.pc = "calloc" /\ n.pc \in {"init", "done"} /\ n.cred = l.cred /\ n.sent = l.sent
        /\ n.step \in {1, l.step}
    BY <1>0, <1>20, ConnectFdMoves DEF Moves, SameAuth
  <2>2. l.step = 0
    BY <1>6, <2>1 DEF Connecting
  <2> QED
    BY <1>5, <1>20, <2>1, <2>2 DEF connect_to_fd, Unshared
<1>21. CASE connect_step(t)
  <2>1. l.pc = "init" /\ l.step \in 1 .. Steps
    BY <1>21 DEF connect_step, At, Progress
  <2>2. PICK r \in initialise(t, l.step, l.mem) :
           /\ Moves(t, IF r.ok /\ l.step < Steps THEN "init" ELSE "done",
                    IF r.ok THEN r.mem ELSE xcb_disconnect(r.mem))
           /\ n.step = l.step + 1 /\ SameAuth(l, n)
           /\ n.sent = IF l.step = 5 /\ r.ok THEN l.cred ELSE l.sent
    BY <1>0, <1>21, <2>1, StepMoves
  <2>3. /\ n.pc \in {"init", "done"} /\ n.cred = l.cred /\ n.step = l.step + 1
        /\ n.sent \in {l.sent, l.cred} /\ (n.sent # l.sent => l.step = 5)
    BY <2>2 DEF Moves, SameAuth
  <2> QED
    BY <1>1, <1>5, <1>21, <2>1, <2>3 DEF connect_step, Unshared
<1>22. CASE free_auth(t)
  BY <1>0, <1>1, <1>2, <1>5, <1>22, FreeAuthMoves DEF free_auth, Unshared
<1>23. CASE out(t)
  <2>1. /\ l.pc = "out" /\ n.pc = "returned" /\ n.step = l.step /\ n.sent = l.sent
        /\ n.cred = l.cred
    BY <1>0, <1>23, OutMoves DEF Moves, SameAuth
  <2> QED
    BY <1>1, <1>5, <1>23, <2>1 DEF out, Unshared
<1>24. CASE use(t)
  BY <1>0, <1>1, <1>2, <1>5, <1>24, UseMoves DEF use, Unshared
<1>25. CASE disconnect(t)
  <2>1. /\ l.pc \in {"returned", "used"} /\ n.pc = "closed" /\ n.step = l.step
        /\ n.sent = l.sent /\ n.cred = l.cred
    BY <1>0, <1>2, <1>25, DisconnectMoves
  <2> QED
    BY <1>1, <1>5, <1>25, <2>1 DEF disconnect, Unshared
<1> QED
  BY <1>7, <1>8, <1>9, <1>10, <1>11, <1>12, <1>13, <1>14, <1>15, <1>16, <1>17,
     <1>18, <1>19, <1>20, <1>21, <1>22, <1>23, <1>24, <1>25 DEF Acts

LEMMA NoncesStep ==
    ASSUME Typed, NEW t \in Thread, Progress(local[t]), Acts(t), Moved(t), Nonces
    PROVE  Nonces' /\ nonce' \in Nat /\ nonce_mutex' \in Thread \cup {NoThread}
<1> DEFINE l == local[t]
           n == local'[t]
<1>0. LocalsOK /\ nonce \in Nat /\ nonce_mutex \in Thread \cup {NoThread}
  BY DEF Typed
<1>1. l \in Local /\ l.cred \in Cred /\ l.cred.nonce \in Nat
  BY <1>0, MemOf DEF Local, Cred
<1>2. \A u \in Thread \ {t} : local'[u] = local[u]
  BY DEF Moved
<1>3. Counted(l) /\ (l.pc = "next_nonce" <=> nonce_mutex = t)
  BY DEF Nonces
<1>4. CASE Quiet(t) /\ nonce' = nonce /\ nonce_mutex' = nonce_mutex
  <2>1. n.pc # "next_nonce" /\ nonce_mutex' # t
    BY <1>3, <1>4 DEF Quiet
  <2>2. n.cred = l.cred \/ n.cred.from # "nonce"
    BY <1>4 DEF Quiet
  <2>3. Counted(local'[t])
    <3>1. CASE n.cred = l.cred /\ n.sent \in {l.sent, l.cred} /\ n.step >= l.step
               /\ (n.sent # l.sent => n.step > 5) /\ (n.pc \in Computing => l.pc \in Computing)
      <4>1. l.step \in Int /\ n.step \in Int
        BY <1>0, MemOf DEF Moved, Local
      <4> QED
        BY <1>3, <2>1, <3>1, <4>1 DEF Counted
    <3>2. CASE l.step = 0 /\ n.step = 0 /\ n.sent = l.sent /\ n.cred.from # "nonce"
      BY <1>3, <2>1, <3>2 DEF Counted
    <3> QED
      BY <1>4, <3>1, <3>2 DEF Quiet
  <2>4. \A u \in Thread : (Counted(local[u]))'
    BY <1>2, <1>4, <2>3 DEF Nonces, Counted
  <2>5. \A u \in Thread : local'[u].pc = "next_nonce" <=> nonce_mutex' = u
    BY <1>2, <1>4, <2>1 DEF Nonces
  <2>6. ASSUME NEW u \in Thread, NEW w \in Thread, u # w, local'[u].cred.from = "nonce",
               local'[w].cred.from = "nonce"
        PROVE  local'[u].cred.nonce # local'[w].cred.nonce
    <3>1. local'[u].cred = local[u].cred /\ local'[w].cred = local[w].cred
      BY <1>2, <2>2, <2>6
    <3> QED
      BY <2>6, <3>1 DEF Nonces
  <2> QED
    BY <1>0, <1>4, <2>4, <2>5, <2>6 DEF Nonces
<1>5. CASE read_nonce(t)
  <2>1. /\ l.pc = "nonce" /\ nonce_mutex = NoThread /\ nonce_mutex' = t /\ nonce' = nonce
        /\ n.pc = "next_nonce" /\ n.sent = l.sent /\ n.step = l.step
        /\ n.cred = [l.cred EXCEPT !.nonce = nonce]
    BY <1>0, <1>5, ReadNonceMoves DEF Credits, Moves, SameConn
  <2>2. n.cred.from = l.cred.from /\ n.cred.nonce = nonce
    BY <1>1, <2>1 DEF Cred
  <2>3. l.cred.from # "nonce" /\ l.sent.from # "nonce"
    <3>1. l.cred.from # "nonce"
      BY <1>3, <2>1 DEF Counted, Computing
    <3> QED
      BY <1>3, <3>1 DEF Counted
  <2>4. Counted(local'[t])
    BY <2>1, <2>2, <2>3 DEF Counted
  <2>5. \A u \in Thread : (Counted(local[u]))'
    <3>1. ASSUME NEW u \in Thread, u # t PROVE (Counted(local[u]))'
      <4>1. local'[u] = local[u] /\ nonce' = nonce /\ Counted(local[u])
        BY <1>2, <2>1, <3>1 DEF Nonces
      <4> QED
        BY <4>1 DEF Counted
    <3>2. (Counted(local[t]))'
      BY <2>1, <2>2, <2>3 DEF Counted, Computing
    <3> QED
      BY <3>1, <3>2
  <2>6. \A u \in Thread : local'[u].pc = "next_nonce" <=> nonce_mutex' = u
    <3>1. \A u \in Thread : local[u].pc # "next_nonce"
      BY <2>1, ConnectAssumption DEF Nonces
    <3> QED
      BY <1>2, <2>1, <3>1
  <2>7. ASSUME NEW u \in Thread, NEW w \in Thread, u # w, local'[u].cred.from = "nonce",
               local'[w].cred.from = "nonce"
        PROVE  local'[u].cred.nonce # local'[w].cred.nonce
    <3>1. u # t /\ w # t
      BY <2>2, <2>3, <2>7
    <3> QED
      BY <1>2, <2>7, <3>1 DEF Nonces
  <2> QED
    BY <1>0, <2>1, <2>5, <2>6, <2>7 DEF Nonces
<1>6. CASE next_nonce(t)
  <2>1. /\ l.pc = "next_nonce" /\ nonce_mutex' = NoThread /\ nonce' = l.cred.nonce + 1
        /\ n.pc = "calloc" /\ n.sent = l.sent /\ n.step = l.step
        /\ n.cred = [l.cred EXCEPT !.from = "nonce"]
    BY <1>0, <1>6, NextNonceMoves DEF Granted, Credits, Moves, SameConn
  <2>2. n.cred.from = "nonce" /\ n.cred.nonce = l.cred.nonce
    BY <1>1, <2>1 DEF Cred
  <2>3. l.cred.nonce = nonce /\ l.sent.from # "nonce"
    <3>1. l.cred.from # "nonce"
      BY <1>3, <2>1 DEF Counted, Computing
    <3> QED
      BY <1>3, <2>1, <3>1 DEF Counted
  <2>4. nonce' = nonce + 1 /\ nonce' \in Nat
    BY <1>0, <2>1, <2>3
  <2>5. (Counted(local[t]))'
    BY <1>0, <2>1, <2>2, <2>3, <2>4 DEF Counted, Computing
  <2>6. ASSUME NEW u \in Thread, u # t
        PROVE  /\ local'[u] = local[u] /\ local[u].pc # "next_nonce" /\ Counted(local[u])
               /\ local[u].cred.nonce \in Nat
    <3>1. nonce_mutex = t
      BY <1>3, <2>1
    <3>2. local[u].cred.nonce \in Nat
      BY <1>0, MemOf DEF Local, Cred
    <3> QED
      BY <1>2, <2>6, <3>1, <3>2 DEF Nonces
  <2>7. \A u \in Thread : (Counted(local[u]))'
    <3>1. ASSUME NEW u \in Thread, u # t PROVE (Counted(local[u]))'
      BY <1>0, <2>4, <2>6, <3>1 DEF Counted
    <3> QED
      BY <2>5, <3>1
  <2>8. \A u \in Thread : local'[u].pc = "next_nonce" <=> nonce_mutex' = u
    BY <2>1, <2>6, ConnectAssumption
  <2>9. ASSUME NEW u \in Thread, NEW w \in Thread, u # w, local'[u].cred.from = "nonce",
               local'[w].cred.from = "nonce"
        PROVE  local'[u].cred.nonce # local'[w].cred.nonce
    <3>1. ASSUME NEW v \in Thread, v # t, local'[v].cred.from = "nonce"
          PROVE  local'[v].cred.nonce # local'[t].cred.nonce
      <4>1. local[v].cred.nonce < nonce /\ local[v].cred.nonce \in Nat
        BY <2>6, <3>1 DEF Counted
      <4> QED
        BY <1>0, <2>2, <2>3, <2>6, <3>1, <4>1
    <3>2. CASE u = t \/ w = t
      BY <2>9, <3>1, <3>2
    <3>3. CASE u # t /\ w # t
      BY <2>6, <2>9, <3>3 DEF Nonces
    <3> QED
      BY <3>2, <3>3
  <2> QED
    BY <2>1, <2>4, <2>7, <2>8, <2>9 DEF Nonces
<1> QED
  BY <1>4, <1>5, <1>6, QuietStep
-----------------------------------------------------------------------------
(* The first theorems                                                      *)

LEMMA NextActs ==
    ASSUME Next
    PROVE  \E t \in Thread : Acts(t)
BY DEF Next, Acts

BaseInv == Typed /\ ProgressInv /\ Nonces

LEMMA BaseInit == Init => BaseInv
<1> SUFFICES ASSUME Init PROVE BaseInv
  OBVIOUS
<1>1. prog \in Program /\ nonce = 0 /\ nonce_mutex = NoThread /\ nonce \in Nat
  BY ConnectAssumption DEF Init
<1>2. \A t \in Thread : local[t] = Start(t)
  BY DEF Init
<1>3. [v \in Var |-> Null] \in [Var -> Block \cup {Null}]
  OBVIOUS
<1>4. Untouched \in Parsed
  BY ConnectAssumption DEF Untouched, Parsed, CInt
<1>5. NoCred \in Cred /\ NoCred.from = "none"
  BY DEF NoCred, Cred
<1>6. \A t \in Thread : (IF t \in prog.threads THEN "start" ELSE "closed") \in Label
  BY DEF Label
<1>7. 0 \in 0 .. Steps + 1 /\ <<>> \in Seq(Address)
  BY DEF Steps
<1>8. [ptr |-> [v \in Var |-> Null], live |-> {}, bad |-> {}, wild |-> {}] \in Memory
  BY <1>3 DEF Memory
<1>9. [status |-> 0, length |-> 0] \in [status : 0 .. 2, length : 0 .. 1]
  OBVIOUS
<1>10. \A t \in Thread : Start(t) \in Local
  BY <1>4, <1>5, <1>6, <1>7, <1>8, <1>9 DEF Start, Local
<1>11. Typed
  BY <1>1, <1>10 DEF Init, Typed, LocalsOK
<1>12. ASSUME NEW t \in Thread
       PROVE  /\ local[t].pc \in {"start", "closed"} /\ local[t].c = "none"
              /\ local[t].step = 0 /\ local[t].cred = NoCred /\ local[t].sent = NoCred
              /\ local[t].ourauth = FALSE /\ local[t].gotsockname = FALSE
  <2>1. local[t] = Start(t)
    BY <1>2
  <2>2. /\ Start(t).c = "none" /\ Start(t).step = 0 /\ Start(t).cred = NoCred
        /\ Start(t).sent = NoCred /\ Start(t).ourauth = FALSE /\ Start(t).gotsockname = FALSE
    BY Zenon DEF Start
  <2>3. Start(t).pc = IF t \in prog.threads THEN "start" ELSE "closed"
    BY Zenon DEF Start
  <2> QED
    BY <2>1, <2>2, <2>3
<1>13. \A t \in Thread : Progress(local[t])
  BY <1>12 DEF Progress, Connecting, Opening, Asking
<1>14. Nonces
  BY <1>1, <1>5, <1>12, ConnectAssumption DEF Nonces, Counted, Computing
<1> QED
  BY <1>11, <1>13, <1>14 DEF BaseInv, ProgressInv

LEMMA BaseNext == BaseInv /\ [Next]_vars => BaseInv'
<1> SUFFICES ASSUME BaseInv, [Next]_vars PROVE BaseInv'
  OBVIOUS
<1>1. CASE Next
  <2>1. PICK t \in Thread : Acts(t)
    BY <1>1, NextActs
  <2>2. Typed /\ Progress(local[t]) /\ Nonces
    BY DEF BaseInv, ProgressInv
  <2>3. Moved(t) /\ Progress(local'[t])
    BY <2>1, <2>2, ProgressStep
  <2>4. Nonces' /\ nonce' \in Nat /\ nonce_mutex' \in Thread \cup {NoThread}
    BY <2>1, <2>2, <2>3, NoncesStep
  <2>5. prog' = prog
    BY <2>1, ProgNeverChanges
  <2>6. Typed'
    BY <2>2, <2>3, <2>4, <2>5 DEF Typed, LocalsOK, Moved
  <2>7. ProgressInv'
    BY <2>3 DEF BaseInv, ProgressInv, Moved, Progress
  <2> QED
    BY <2>4, <2>6, <2>7 DEF BaseInv
<1>2. CASE UNCHANGED vars
  BY <1>2 DEF vars, BaseInv, Typed, LocalsOK, ProgressInv, Progress, Nonces, Counted
<1> QED
  BY <1>1, <1>2

LEMMA BaseAlways == Spec => []BaseInv
BY BaseInit, BaseNext, PTL DEF Spec

\* The variables have their types: whatever the name, its numbers fit an int
\* once strtoul has read them and _xcb_parse_display has assigned them, and a
\* pointer points to a block or nowhere.
THEOREM ConnectTypeCorrect == Spec => []ConnectTypeOK
<1>1. BaseInv => ConnectTypeOK
  <2> SUFFICES ASSUME BaseInv PROVE ConnectTypeOK
    OBVIOUS
  <2>1. Typed
    BY DEF BaseInv
  <2>2. ASSUME NEW t \in Thread
        PROVE  LET l == local[t]
               IN  /\ l.pc \in Label /\ l.mem \in Memory
                   /\ l.parsed.display \in CInt /\ l.parsed.screen \in CInt
                   /\ l.addrs \in Seq(Address)
                   /\ l.peer \in LocalPlace \cup Address \cup {"none"}
                   /\ l.cred \in Cred /\ l.sent \in Cred
                   /\ l.gotsockname \in BOOLEAN /\ l.ourauth \in BOOLEAN
                   /\ l.step \in 0 .. Steps + 1 /\ l.c \in {"none", "error", "c"}
    <3>1. local[t] \in Local
      BY <2>1 DEF Typed, LocalsOK
    <3> QED
      BY <3>1 DEF Local, Parsed
  <2> QED
    BY <2>1, <2>2 DEF Typed, ConnectTypeOK
<1> QED
  BY <1>1, BaseAlways, PTL

\* Two connections over Unix sockets never send the same XDM-AUTHORIZATION-1
\* data, however many threads connect at once (next_nonce).
THEOREM NoncesAlwaysDiffer == Spec => []NoncesDiffer
<1>1. BaseInv => NoncesDiffer
  <2> SUFFICES ASSUME BaseInv, NEW t \in Thread, NEW u \in Thread, t # u,
                      local[t].sent.from = "nonce", local[u].sent.from = "nonce"
               PROVE  local[t].sent.nonce # local[u].sent.nonce
    BY DEF NoncesDiffer
  <2>1. local[t].sent = local[t].cred /\ local[u].sent = local[u].cred
    BY DEF BaseInv, Nonces, Counted
  <2> QED
    BY <2>1 DEF BaseInv, Nonces
<1> QED
  BY <1>1, BaseAlways, PTL
-----------------------------------------------------------------------------
(* What a thread holds                                                     *)

\* What a thread holds for certain, label by label.
LEMMA KeptAt ==
    ASSUME NEW l
    PROVE  /\ l.pc \in {"start", "parsed", "open", "closed"} => Kept(l) = {}
           /\ l.pc = "tcp" => Kept(l) = {"results"}
           /\ l.pc \in {"abstract", "path"} => Kept(l) = {"file"}
           /\ l.pc \in {"auth", "own_name"} => Kept(l) = {"fd"}
           /\ l.pc = "authptr" => Kept(l) = {"fd", l.mem.ptr["sockname"]}
           /\ l.pc = "own_again" => Kept(l) = {"fd", "authptr", "info.name"}
           /\ l.pc = "compute" => Kept(l) = {"fd", "authptr", "info.name", l.mem.ptr["sockname"]}
           /\ l.pc \in {"nonce", "next_nonce"} =>
                 Kept(l) = {"fd", "authptr", "info.name", "info.data", l.mem.ptr["sockname"]}
           /\ l.pc = "calloc" => Kept(l) = {"fd"} \cup Auth(l)
           /\ l.pc = "init" => Kept(l) = {"fd", "c"} \cup Auth(l) \cup Made(l.step)
           /\ l.pc = "done" => Kept(l) = Auth(l) \cup IF l.c = "c" THEN ConnectionBlock ELSE {}
           /\ l.pc \in {"out", "returned"} =>
                 Kept(l) = IF l.c = "c" THEN ConnectionBlock ELSE {}
           /\ l.pc = "used" => Kept(l) = ConnectionBlock
<1>1. l.pc \in {"start", "parsed", "open", "closed"} => Kept(l) = {}
  BY DEF Kept
<1>2. l.pc = "tcp" => Kept(l) = {"results"}
  BY DEF Kept
<1>3. l.pc \in {"abstract", "path"} => Kept(l) = {"file"}
  BY DEF Kept
<1>4. l.pc \in {"auth", "own_name"} => Kept(l) = {"fd"}
  BY DEF Kept
<1>5. l.pc = "authptr" => Kept(l) = {"fd", l.mem.ptr["sockname"]}
  BY DEF Kept
<1>6. l.pc = "own_again" => Kept(l) = {"fd", "authptr", "info.name"}
  BY DEF Kept
<1>7. l.pc = "compute" => Kept(l) = {"fd", "authptr", "info.name", l.mem.ptr["sockname"]}
  BY DEF Kept
<1>8. l.pc \in {"nonce", "next_nonce"} =>
         Kept(l) = {"fd", "authptr", "info.name", "info.data", l.mem.ptr["sockname"]}
  BY DEF Kept
<1>9. l.pc = "calloc" => Kept(l) = {"fd"} \cup Auth(l)
  BY DEF Kept
<1>10. l.pc = "init" => Kept(l) = {"fd", "c"} \cup Auth(l) \cup Made(l.step)
  BY DEF Kept
<1>11. l.pc = "done" => Kept(l) = Auth(l) \cup IF l.c = "c" THEN ConnectionBlock ELSE {}
  BY DEF Kept
<1>12. l.pc \in {"out", "returned"} => Kept(l) = IF l.c = "c" THEN ConnectionBlock ELSE {}
  BY DEF Kept
<1>13. l.pc = "used" => Kept(l) = ConnectionBlock
  BY DEF Kept
<1> QED
  BY <1>1, <1>2, <1>3, <1>4, <1>5, <1>6, <1>7, <1>8, <1>9, <1>10, <1>11, <1>12, <1>13

LEMMA ExtraAt ==
    ASSUME NEW l
    PROVE  /\ l.pc = "start" => Extra(l) = Lost(l)
           /\ l.pc = "parsed" => Extra(l) = {"host"} \cup Lost(l)
           /\ l.pc \in Connecting \ {"start", "parsed"} => Extra(l) = Names \cup Lost(l)
           /\ l.pc \in {"done", "out"} => Extra(l) = Names \cup Lost(l) \cup {"socket_cond"}
           /\ l.pc \in {"returned", "closed"} => Extra(l) = Lost(l) \cup {"socket_cond"}
           /\ l.pc = "used" => Extra(l) = Lost(l) \cup Lists
<1>1. l.pc = "start" => Extra(l) = Lost(l)
  BY DEF Extra, Naming, Connecting, Ended
<1>2. /\ l.pc = "parsed" => Extra(l) = {"host"} \cup Lost(l)
      /\ l.pc \in Connecting \ {"start", "parsed"} => Extra(l) = Names \cup Lost(l)
  BY DEF Extra, Naming, Connecting, Ended
<1>3. l.pc \in {"done", "out"} => Extra(l) = Names \cup Lost(l) \cup {"socket_cond"}
  BY DEF Extra, Naming, Connecting, Ended
<1>4. l.pc \in {"returned", "closed"} => Extra(l) = Lost(l) \cup {"socket_cond"}
  BY DEF Extra, Naming, Connecting, Ended
<1>5. l.pc = "used" => Extra(l) = Lost(l) \cup Lists
  BY DEF Extra, Naming, Connecting, Ended
<1> QED
  BY <1>1, <1>2, <1>3, <1>4, <1>5

\* get_peer_sock_name: the name is in a new block, or nowhere and nothing was
\* allocated.
LEMMA SockNameDoes ==
    ASSUME NEW m \in Memory, NEW first \in Block, NEW longer \in Block, first # longer,
           first \notin m.live, longer \notin m.live, "vanish" \notin prog.faults,
           NEW n \in peer_sock_name(m, first, longer)
    PROVE  /\ n \in Memory /\ n.bad = m.bad /\ n.wild = m.wild
           /\ \A v \in Var \ {"name", "new_name", "sockname"} : n.ptr[v] = m.ptr[v]
           /\ \/ n.ptr["sockname"] = Null /\ n.live = m.live
              \/ /\ n.ptr["sockname"] \in {first, longer}
                 /\ n.live = m.live \cup {n.ptr["sockname"]}
<1> DEFINE m1 == malloc(m, "name", first)
           f1 == free(m1, "name")
           m2 == malloc(f1, "new_name", longer)
           g1 == clear(f1, "sockname")
           a1 == assign(m1, "sockname", "name")
           a2 == assign(m2, "sockname", "new_name")
           c1 == clear(m, "sockname")
<1>0. "name" \in Var /\ "new_name" \in Var /\ "sockname" \in Var
  BY DEF Var
<1>1. n \in {a1, c1, g1, a2}
  BY Zenon DEF peer_sock_name, renamed, May
<1>2. Becomes(m, m1, [m.ptr EXCEPT !["name"] = first], m.live \cup {first})
  BY <1>0, MallocFresh
<1>3. m1 \in Memory
  BY <1>2 DEF Becomes
<1>4. m1.ptr["name"] = first
  BY <1>0, <1>2, MemoryParts DEF Becomes
<1>5. Becomes(m1, f1, m1.ptr, m1.live \ {first})
  <2>1. m1.ptr["name"] \in m1.live
    BY <1>2, <1>4 DEF Becomes
  <2> QED
    BY <1>0, <1>3, <1>4, <2>1, FreeLive
<1>6. f1 \in Memory /\ f1.live = m.live
  BY <1>2, <1>5 DEF Becomes
<1>7. Becomes(f1, m2, [f1.ptr EXCEPT !["new_name"] = longer], f1.live \cup {longer})
  BY <1>0, <1>6, MallocFresh
<1>8. m2 \in Memory /\ m2.ptr["new_name"] = longer /\ m2.live = m.live \cup {longer}
  BY <1>0, <1>6, <1>7, MemoryParts DEF Becomes
<1>9. Becomes(f1, g1, [f1.ptr EXCEPT !["sockname"] = Null], f1.live)
  BY <1>0, <1>6, ClearDoes
<1>10. Becomes(m, c1, [m.ptr EXCEPT !["sockname"] = Null], m.live)
  BY <1>0, ClearDoes
<1>11. Becomes(m1, a1, [m1.ptr EXCEPT !["sockname"] = first], m1.live)
  BY <1>0, <1>3, <1>4, AssignDoes
<1>12. Becomes(m2, a2, [m2.ptr EXCEPT !["sockname"] = longer], m2.live)
  BY <1>0, <1>8, AssignDoes
<1> HIDE DEF m1, f1, m2, g1, a1, a2, c1
<1>13. CASE n = a1
  BY <1>0, <1>2, <1>3, <1>11, <1>13, MemoryParts DEF Becomes
<1>14. CASE n = c1
  BY <1>0, <1>10, <1>14, MemoryParts DEF Becomes
<1>15. CASE n = g1
  <2>1. f1.ptr = [m.ptr EXCEPT !["name"] = first] /\ f1.bad = m.bad /\ f1.wild = m.wild
    BY <1>2, <1>5 DEF Becomes
  <2>2. /\ g1 \in Memory /\ g1.ptr = [f1.ptr EXCEPT !["sockname"] = Null] /\ g1.live = m.live
        /\ g1.bad = m.bad /\ g1.wild = m.wild
    BY <1>6, <1>9, <2>1 DEF Becomes
  <2> QED
    BY <1>0, <1>15, <2>1, <2>2, MemoryParts
<1>16. CASE n = a2
  BY <1>0, <1>2, <1>5, <1>6, <1>7, <1>8, <1>12, <1>16, MemoryParts DEF Becomes
<1> QED
  BY <1>1, <1>13, <1>14, <1>15, <1>16
-----------------------------------------------------------------------------
(* Opening: each action leaves the memory tidy                             *)

LEMMA NoneLost ==
    ASSUME NEW l, Progress(l), l.pc \in Opening \cup Asking
    PROVE  l.cred = NoCred /\ Lost(l) = {} /\ l.c = "none" /\ ~l.ourauth
<1>1. l.cred = NoCred
  BY DEF Progress
<1>2. NoCred.family = "none"
  BY DEF NoCred
<1>3. l.pc \in Connecting \ {"calloc", "init"}
  BY DEF Opening, Asking, Connecting
<1> QED
  BY <1>1, <1>2, <1>3 DEF Progress, Lost

\* The blocks of a thread that has not connected yet.
LEMMA OpeningHolds ==
    ASSUME NEW l, Progress(l), Tidy(l), l.pc \in Opening
    PROVE  /\ l.mem.bad = {} /\ l.mem.wild = {} /\ Owned(l.mem, Names) /\ Owned(l.mem, Conn)
           /\ l.pc = "start" => l.mem.live = {}
           /\ l.pc = "parsed" => l.mem.live \subseteq {"host"}
           /\ l.pc = "open" => l.mem.live \subseteq Names
           /\ l.pc = "tcp" => /\ "results" \in l.mem.live /\ l.mem.ptr["results"] = "results"
                              /\ l.mem.live \subseteq Names \cup {"results"}
           /\ l.pc \in {"abstract", "path"} =>
                 /\ "file" \in l.mem.live /\ l.mem.ptr["file"] = "file"
                 /\ l.mem.live \subseteq Names \cup {"file"}
<1>1. Lost(l) = {} /\ l.c = "none"
  BY NoneLost
<1>2. l.pc \in Connecting /\ l.pc \in Naming
  BY DEF Opening, Connecting, Naming
<1>3. l.pc \notin {"start", "parsed"} => l.pc \in Connecting \ {"start", "parsed"}
  BY <1>2
<1>4. Extra(l) = IF l.pc = "start" THEN {} ELSE IF l.pc = "parsed" THEN {"host"} ELSE Names
  BY <1>1, <1>3, ExtraAt
<1>5. Kept(l) \subseteq l.mem.live /\ l.mem.live \subseteq Kept(l) \cup Extra(l) /\ Points(l)
  BY DEF Tidy
<1>6. Owned(l.mem, Names) /\ Owned(l.mem, Conn)
  BY <1>2, <1>5 DEF Points
<1>7. l.mem.bad = {} /\ l.mem.wild = {}
  BY <1>1 DEF Tidy
<1>8. l.pc = "start" => l.mem.live = {}
  BY <1>4, <1>5, KeptAt
<1>9. /\ l.pc = "parsed" => l.mem.live \subseteq {"host"}
      /\ l.pc = "open" => l.mem.live \subseteq Names
  BY <1>4, <1>5, KeptAt
<1>10. l.pc = "tcp" => /\ "results" \in l.mem.live /\ l.mem.ptr["results"] = "results"
                       /\ l.mem.live \subseteq Names \cup {"results"}
  BY <1>4, <1>5, KeptAt DEF Points
<1>11. l.pc \in {"abstract", "path"} => /\ "file" \in l.mem.live /\ l.mem.ptr["file"] = "file"
                                        /\ l.mem.live \subseteq Names \cup {"file"}
  BY <1>4, <1>5, KeptAt DEF Points
<1> QED
  BY <1>6, <1>7, <1>8, <1>9, <1>10, <1>11

\* The other way round, for the labels an action may lead to.
LEMMA OpeningTidy ==
    ASSUME NEW n, n.mem.bad = {}, n.mem.wild = {}, Owned(n.mem, Names),
           n.pc \in Connecting => Owned(n.mem, Conn), n.c = "none", ~n.ourauth,
           \/ n.pc = "parsed" /\ n.mem.live \subseteq {"host"}
           \/ n.pc = "open" /\ n.mem.live \subseteq Names
           \/ /\ n.pc = "tcp" /\ n.mem.live \subseteq Names \cup {"results"}
              /\ "results" \in n.mem.live /\ n.mem.ptr["results"] = "results"
           \/ /\ n.pc \in {"abstract", "path"} /\ n.mem.live \subseteq Names \cup {"file"}
              /\ "file" \in n.mem.live /\ n.mem.ptr["file"] = "file"
           \/ n.pc = "closed" /\ n.mem.live = {}
           \/ n.pc = "out" /\ n.mem.live \subseteq Names
           \/ n.pc \in {"auth", "own_name"} /\ n.mem.live \subseteq Names \cup {"fd"}
              /\ "fd" \in n.mem.live
    PROVE  Tidy(n)
<1>1. Kept(n) \subseteq n.mem.live
  BY KeptAt
<1>2. n.mem.live \subseteq Kept(n) \cup Extra(n)
  BY KeptAt, ExtraAt DEF Connecting
<1>3. Points(n)
  BY DEF Points, Naming, Connecting
<1> QED
  BY <1>1, <1>2, <1>3 DEF Tidy

\* Memory in which nothing went wrong yet, and the names and the parts of the
\* connection are owned.  The operations on other variables leave it so.
Sound(m) == m \in Memory /\ m.bad = {} /\ m.wild = {} /\ Owned(m, Names) /\ Owned(m, Conn)

Mine == Names \cup Conn

LEMMA MineBlocks ==
    /\ Names \subseteq Var \cap Block /\ Conn \subseteq Var \cap Block
    /\ "fd" \in Conn /\ "c" \in Conn /\ "fd" \notin Names /\ "c" \notin Names
BY DEF Names, Conn, Lists, Var, Block

LEMMA SoundSame ==
    ASSUME NEW m, Sound(m), NEW n \in Memory, n.bad = {}, n.wild = {},
           \A v \in Mine : n.ptr[v] = m.ptr[v] /\ (v \in n.live <=> v \in m.live)
    PROVE  Sound(n)
BY DEF Sound, Owned, Mine

LEMMA MallocSound ==
    ASSUME NEW m, Sound(m), NEW v \in Var \ Mine, NEW b \in Block \ Mine, b \notin m.live
    PROVE  LET n == malloc(m, v, b)
           IN  Sound(n) /\ n.live = m.live \cup {b} /\ n.ptr = [m.ptr EXCEPT ![v] = b]
<1> DEFINE n == malloc(m, v, b)
<1>1. m \in Memory /\ Becomes(m, n, [m.ptr EXCEPT ![v] = b], m.live \cup {b})
  BY MallocFresh DEF Sound
<1> HIDE DEF n
<1>2. n \in Memory /\ n.bad = {} /\ n.wild = {}
  BY <1>1 DEF Becomes, Sound
<1>3. \A w \in Mine : n.ptr[w] = m.ptr[w] /\ (w \in n.live <=> w \in m.live)
  BY <1>1, MemoryParts, MineBlocks DEF Becomes, Mine
<1>4. Sound(n)
  BY <1>2, <1>3, SoundSame
<1> QED
  BY <1>1, <1>4 DEF Becomes, n

LEMMA FreeSound ==
    ASSUME NEW m, Sound(m), NEW v \in Var \ Mine, m.ptr[v] \in m.live \cup {Null},
           m.ptr[v] \notin Mine
    PROVE  LET n == free(m, v)
           IN  Sound(n) /\ n.live = m.live \ {m.ptr[v]} /\ n.ptr = m.ptr
<1> DEFINE n == free(m, v)
<1>1. m \in Memory /\ Becomes(m, n, m.ptr, m.live \ {m.ptr[v]})
  BY FreeLive DEF Sound
<1> HIDE DEF n
<1>2. n \in Memory /\ n.bad = {} /\ n.wild = {}
  BY <1>1 DEF Becomes, Sound
<1>3. \A w \in Mine : n.ptr[w] = m.ptr[w] /\ (w \in n.live <=> w \in m.live)
  BY <1>1 DEF Becomes
<1>4. Sound(n)
  BY <1>2, <1>3, SoundSame
<1> QED
  BY <1>1, <1>4 DEF Becomes, n

LEMMA ClearSound ==
    ASSUME NEW m, Sound(m), NEW v \in Var \ Mine
    PROVE  LET n == clear(m, v)
           IN  Sound(n) /\ n.live = m.live /\ n.ptr = [m.ptr EXCEPT ![v] = Null]
<1> DEFINE n == clear(m, v)
<1>1. m \in Memory /\ Becomes(m, n, [m.ptr EXCEPT ![v] = Null], m.live)
  BY ClearDoes DEF Sound
<1> HIDE DEF n
<1>2. n \in Memory /\ n.bad = {} /\ n.wild = {}
  BY <1>1 DEF Becomes, Sound
<1>3. \A w \in Mine : n.ptr[w] = m.ptr[w] /\ (w \in n.live <=> w \in m.live)
  BY <1>1, MemoryParts, MineBlocks DEF Becomes, Mine
<1>4. Sound(n)
  BY <1>2, <1>3, SoundSame
<1> QED
  BY <1>1, <1>4 DEF Becomes, n

\* A part of the connection is allocated.
LEMMA PartSound ==
    ASSUME NEW m, Sound(m), NEW v \in Conn, v \notin m.live
    PROVE  LET n == malloc(m, v, v)
           IN  Sound(n) /\ n.live = m.live \cup {v} /\ n.ptr = [m.ptr EXCEPT ![v] = v]
<1> DEFINE n == malloc(m, v, v)
<1>0. v \in Var /\ v \in Block /\ v \notin Names /\ Conn \subseteq Var /\ Names \subseteq Var
  BY MineBlocks DEF Names, Conn, Lists
<1>1. m \in Memory /\ Becomes(m, n, [m.ptr EXCEPT ![v] = v], m.live \cup {v})
  BY <1>0, MallocFresh DEF Sound
<1> HIDE DEF n
<1>2. n \in Memory /\ n.bad = {} /\ n.wild = {} /\ n.live = m.live \cup {v}
      /\ n.ptr = [m.ptr EXCEPT ![v] = v]
  BY <1>1 DEF Becomes, Sound
<1>3. \A w \in Var : n.ptr[w] = IF w = v THEN v ELSE m.ptr[w]
  BY <1>1, <1>2, MemoryParts
<1>4. Owned(n, Names) /\ Owned(n, Conn)
  BY <1>0, <1>2, <1>3 DEF Sound, Owned
<1> QED
  BY <1>2, <1>4 DEF Sound, n

\* The descriptor is closed, if there is one.
LEMMA CloseSound ==
    ASSUME NEW m, Sound(m)
    PROVE  LET n == close(m)
           IN  Sound(n) /\ n.live = m.live \ {"fd"} /\ n.ptr = [m.ptr EXCEPT !["fd"] = Null]
<1> DEFINE f == free(m, "fd")
           n == clear(f, "fd")
<1>0. "fd" \in Var /\ Conn \subseteq Var /\ Names \subseteq Var
  BY MineBlocks
<1>1. m \in Memory /\ Becomes(m, f, m.ptr, m.live \ {"fd"})
  BY MineBlocks, FreeOwned DEF Sound
<1>2. f \in Memory
  BY <1>1 DEF Becomes
<1>3. Becomes(f, n, [f.ptr EXCEPT !["fd"] = Null], f.live)
  BY <1>0, <1>2, ClearDoes
<1>4. n = close(m)
  BY DEF close
<1> HIDE DEF f, n
<1>5. /\ n \in Memory /\ n.bad = {} /\ n.wild = {} /\ n.live = m.live \ {"fd"}
      /\ n.ptr = [m.ptr EXCEPT !["fd"] = Null]
  BY <1>1, <1>3 DEF Becomes, Sound
<1>6. \A w \in Var : n.ptr[w] = IF w = "fd" THEN Null ELSE m.ptr[w]
  BY <1>1, <1>5, MemoryParts
<1>7. Owned(n, Names) /\ Owned(n, Conn)
  BY <1>0, <1>5, <1>6, MineBlocks DEF Sound, Owned
<1> QED
  BY <1>4, <1>5, <1>7 DEF Sound

LEMMA SocketSound ==
    ASSUME NEW m, Sound(m), "fd" \notin m.live, NEW ok \in BOOLEAN
    PROVE  LET n == socket(m, ok)
           IN  /\ Sound(n) /\ n.live = m.live \cup (IF ok THEN {"fd"} ELSE {})
               /\ \A v \in Var \ {"fd"} : n.ptr[v] = m.ptr[v]
<1>0. m \in Memory /\ "fd" \in Conn /\ "fd" \in Var
  BY MineBlocks DEF Sound
<1>1. CASE ok
  <2>1. socket(m, ok) = malloc(m, "fd", "fd")
    BY <1>1 DEF socket
  <2> DEFINE n == malloc(m, "fd", "fd")
  <2>2. Sound(n) /\ n.live = m.live \cup {"fd"} /\ n.ptr = [m.ptr EXCEPT !["fd"] = "fd"]
    BY <1>0, PartSound
  <2> HIDE DEF n
  <2>3. \A v \in Var \ {"fd"} : n.ptr[v] = m.ptr[v]
    BY <1>0, <2>2, MemoryParts
  <2> QED
    BY <1>1, <2>1, <2>2, <2>3 DEF n
<1>2. CASE ~ok
  <2> DEFINE n == clear(m, "fd")
  <2>1. socket(m, ok) = n
    BY <1>2 DEF socket
  <2>2. Becomes(m, n, [m.ptr EXCEPT !["fd"] = Null], m.live)
    BY <1>0, ClearDoes
  <2> HIDE DEF n
  <2>3. m.ptr["fd"] = Null
    BY <1>0 DEF Sound, Owned
  <2>4. [m.ptr EXCEPT !["fd"] = Null] = m.ptr
    BY <1>0, <2>3, MemoryParts
  <2>5. n \in Memory /\ n.ptr = m.ptr /\ n.live = m.live /\ n.bad = {} /\ n.wild = {}
    BY <2>2, <2>4 DEF Becomes, Sound
  <2>6. Sound(n)
    BY <2>5, SoundSame
  <2> QED
    BY <1>2, <2>1, <2>5, <2>6
<1> QED
  BY <1>1, <1>2

LEMMA ParseTidy ==
    ASSUME Typed, NEW t \in Thread, Progress(local[t]), Tidy(local[t]), parse_display(t)
    PROVE  Tidy(local'[t])
<1> DEFINE l == local[t]
           n == local'[t]
<1>0. LocalsOK /\ prog \in Program
  BY DEF Typed
<1>1. l \in Local /\ l.mem \in Memory
  BY <1>0, MemOf
<1>2. l.pc = "start" /\ SameAuth(l, n) /\ SameConn(l, n)
  BY <1>0, ParseMoves
<1>3. l.pc \in Opening
  BY <1>2 DEF Opening
<1>4. l.mem.bad = {} /\ l.mem.wild = {} /\ Owned(l.mem, Names) /\ Owned(l.mem, Conn)
      /\ l.mem.live = {}
  BY <1>2, <1>3, OpeningHolds
<1>5. n.c = "none" /\ ~n.ourauth
  BY <1>2, <1>3, NoneLost DEF SameConn, SameAuth
<1>6. "protocol" \in Var /\ "host" \in Var /\ "protocol" \in Block /\ "host" \in Block
  BY DEF Var, Block
<1>7. PICK protocol_ok \in BOOLEAN, host_ok \in BOOLEAN :
         LET r == reading(DisplayName)
             wanted == r.slash /\ prog.call = "connect"
             m == IF wanted /\ protocol_ok THEN malloc(l.mem, "protocol", "protocol") ELSE l.mem
         IN  \/ Moves(t, IF prog.call = "connect" THEN "open" ELSE "parsed",
                      malloc(m, "host", "host"))
             \/ Moves(t, IF prog.call = "connect" THEN "out" ELSE "closed",
                      clear(free(m, "protocol"), "protocol"))
  BY <1>0, ParseMoves
<1> DEFINE m == IF (reading(DisplayName).slash /\ prog.call = "connect") /\ protocol_ok
                THEN malloc(l.mem, "protocol", "protocol") ELSE l.mem
           h == malloc(m, "host", "host")
           f == free(m, "protocol")
           k == clear(f, "protocol")
<1>8. Becomes(l.mem, malloc(l.mem, "protocol", "protocol"),
              [l.mem.ptr EXCEPT !["protocol"] = "protocol"], l.mem.live \cup {"protocol"})
  BY <1>1, <1>4, <1>6, MallocFresh
<1>9. /\ m \in Memory /\ m.bad = {} /\ m.wild = {} /\ m.live \subseteq {"protocol"}
      /\ prog.call # "connect" => m.live = {}
  BY <1>1, <1>4, <1>8 DEF Becomes
<1>10. Owned(m, Names) /\ Owned(m, Conn)
  <2>1. CASE m = l.mem
    BY <1>4, <2>1
  <2>2. CASE m = malloc(l.mem, "protocol", "protocol")
    <3> HIDE DEF m
    <3>1. m.ptr = [l.mem.ptr EXCEPT !["protocol"] = "protocol"] /\ m.live = {"protocol"}
      BY <1>4, <1>8, <2>2 DEF Becomes
    <3> QED
      BY <1>1, <1>4, <1>6, <3>1, MemoryParts DEF Owned, Names, Conn, Lists
  <2> QED
    BY <2>1, <2>2
<1> HIDE DEF m
<1>11. CASE Moves(t, IF prog.call = "connect" THEN "open" ELSE "parsed", h)
  <2>1. "host" \notin m.live
    BY <1>9
  <2>2. Becomes(m, h, [m.ptr EXCEPT !["host"] = "host"], m.live \cup {"host"})
    BY <1>6, <1>9, <2>1, MallocFresh
  <2> HIDE DEF h
  <2>3. n.mem = h /\ (n.pc = "open" \/ (n.pc = "parsed" /\ prog.call # "connect"))
    BY <1>11 DEF Moves
  <2>4. /\ h.bad = {} /\ h.wild = {} /\ h.live \subseteq Names
        /\ prog.call # "connect" => h.live \subseteq {"host"}
    BY <1>9, <2>2 DEF Becomes, Names
  <2>5. Owned(h, Names) /\ Owned(h, Conn)
    BY <1>6, <1>9, <1>10, <2>2, MemoryParts DEF Owned, Names, Conn, Lists, Becomes
  <2> QED
    BY <1>5, <2>3, <2>4, <2>5, OpeningTidy
<1>12. CASE Moves(t, IF prog.call = "connect" THEN "out" ELSE "closed", k)
  <2>1. Names \subseteq Var \cap Block /\ "protocol" \in Names
    BY <1>6 DEF Names
  <2>2. Becomes(m, f, m.ptr, m.live \ {"protocol"})
    BY <1>9, <1>10, <2>1, FreeOwned
  <2>3. f \in Memory
    BY <2>2 DEF Becomes
  <2>4. Becomes(f, k, [f.ptr EXCEPT !["protocol"] = Null], f.live)
    BY <1>6, <2>3, ClearDoes
  <2> HIDE DEF f, k
  <2>5. n.mem = k /\ n.pc \in {"out", "closed"}
    BY <1>12 DEF Moves
  <2>6. k.bad = {} /\ k.wild = {} /\ k.live = {} /\ k.ptr = [m.ptr EXCEPT !["protocol"] = Null]
    BY <1>9, <2>2, <2>4 DEF Becomes
  <2>7. Owned(k, Names)
    BY <1>6, <1>9, <1>10, <2>6, MemoryParts DEF Owned, Names
  <2>8. n.pc \notin Connecting
    BY <2>5 DEF Connecting
  <2> QED
    BY <1>5, <2>5, <2>6, <2>7, <2>8, OpeningTidy
<1> QED
  BY <1>7, <1>11, <1>12 DEF m

LEMMA FreeHostTidy ==
    ASSUME Typed, NEW t \in Thread, Progress(local[t]), Tidy(local[t]), free_host(t)
    PROVE  Tidy(local'[t])
<1> DEFINE l == local[t]
           n == local'[t]
           f == free(l.mem, "host")
<1>0. LocalsOK
  BY DEF Typed
<1>1. l \in Local /\ l.mem \in Memory
  BY <1>0, MemOf
<1>2. l.pc = "parsed" /\ Goes(t, "closed", f)
  BY <1>0, FreeHostMoves
<1>3. l.pc \in Opening
  BY <1>2 DEF Opening
<1>4. l.mem.bad = {} /\ l.mem.wild = {} /\ Owned(l.mem, Names) /\ l.mem.live \subseteq {"host"}
  BY <1>2, <1>3, OpeningHolds
<1>5. n.c = "none" /\ ~n.ourauth /\ n.mem = f /\ n.pc = "closed"
  BY <1>2, <1>3, NoneLost DEF Goes, Moves, SameConn, SameAuth
<1>6. Names \subseteq Var \cap Block /\ "host" \in Names
  BY DEF Names, Var, Block
<1>7. Becomes(l.mem, f, l.mem.ptr, l.mem.live \ {"host"})
  BY <1>1, <1>4, <1>6, FreeOwned
<1> HIDE DEF f
<1>8. f.bad = {} /\ f.wild = {} /\ f.live = {} /\ f.ptr = l.mem.ptr
  BY <1>4, <1>7 DEF Becomes
<1>9. Tidy(n)
  <2>1. Kept(n) \subseteq n.mem.live /\ n.mem.live \subseteq Kept(n) \cup Extra(n)
    BY <1>5, <1>8, KeptAt
  <2>2. Points(n)
    BY <1>5 DEF Points, Naming, Connecting
  <2> QED
    BY <1>5, <1>8, <2>1, <2>2 DEF Tidy
<1> QED
  BY <1>9

LEMMA OpeningSound ==
    ASSUME LocalsOK, NEW t \in Thread, Progress(local[t]), Tidy(local[t]),
           local[t].pc \in Opening
    PROVE  Sound(local[t].mem)
BY MemOf, OpeningHolds DEF Sound

LEMMA AsideVars ==
    /\ {"results", "file", "sockname", "authptr", "info.name", "info.data"} \subseteq Var \ Mine
    /\ {"results", "file", "authptr", "info.name", "info.data"} \subseteq Block \ Mine
    /\ Peers \subseteq Block \ Mine /\ Owns \subseteq Block \ Mine
    /\ Null \notin Block /\ "fd" \in Conn
BY DEF Var, Mine, Names, Conn, Lists, Block, Peers, Owns, Null, Sync

LEMMA OpenTidy ==
    ASSUME Typed, NEW t \in Thread, Progress(local[t]), Tidy(local[t]),
           open_tcp(t) \/ open_unix(t)
    PROVE  Tidy(local'[t])
<1> DEFINE l == local[t]
           n == local'[t]
<1>0. LocalsOK /\ prog \in Program
  BY DEF Typed
<1>1. /\ l.pc = "open" /\ n.c = l.c /\ n.ourauth = l.ourauth
      /\ \/ n.pc = "tcp" /\ n.mem = malloc(l.mem, "results", "results")
         \/ n.pc = "abstract" /\ n.mem = malloc(l.mem, "file", "file")
         \/ n.pc = "out" /\ n.mem = l.mem
  <2>1. CASE open_tcp(t)
    BY <1>0, <2>1, OpenTcpMoves DEF Goes, Moves, SameAuth, SameConn
  <2>2. CASE open_unix(t)
    BY <1>0, <2>2, OpenUnixMoves DEF Goes, Moves, SameAuth, SameConn
  <2> QED
    BY <2>1, <2>2
<1>2. l.pc \in Opening
  BY <1>1 DEF Opening
<1>3. Sound(l.mem) /\ l.mem.live \subseteq Names /\ l.mem \in Memory
  BY <1>0, <1>1, <1>2, OpeningSound, OpeningHolds DEF Sound
<1>4. n.c = "none" /\ ~n.ourauth
  BY <1>1, <1>2, NoneLost
<1>5. ASSUME NEW b \in {"results", "file"}, n.mem = malloc(l.mem, b, b),
             n.pc = IF b = "results" THEN "tcp" ELSE "abstract"
      PROVE  Tidy(n)
  <2>1. b \notin l.mem.live /\ b \in Var
    BY <1>3, <1>5, AsideVars DEF Names
  <2>2. Sound(n.mem) /\ n.mem.live = l.mem.live \cup {b} /\ n.mem.ptr = [l.mem.ptr EXCEPT ![b] = b]
    BY <1>3, <1>5, <2>1, AsideVars, MallocSound
  <2>3. n.mem.ptr[b] = b
    BY <1>3, <2>1, <2>2, MemoryParts
  <2> HIDE DEF n
  <2> QED
    BY <1>3, <1>4, <1>5, <2>2, <2>3, OpeningTidy DEF Sound
<1>6. CASE n.pc = "out" /\ n.mem = l.mem
  BY <1>3, <1>4, <1>6, OpeningTidy DEF Sound
<1> QED
  BY <1>1, <1>5, <1>6

\* A turn of a loop over addresses or names: the socket, and v, which is freed
\* when there are no more.
LEMMA TrySound ==
    ASSUME NEW m, Sound(m), NEW v \in {"results", "file"}, m.ptr[v] = v, v \in m.live,
           m.live \subseteq Names \cup {v}, NEW ok \in BOOLEAN
    PROVE  LET s == socket(m, ok)
               f == free(s, v)
               k == close(s)
               g == free(k, v)
           IN  /\ Sound(f) /\ f.live = (m.live \ {v}) \cup (IF ok THEN {"fd"} ELSE {})
               /\ Sound(k) /\ k.live = m.live /\ k.ptr[v] = v
               /\ Sound(g) /\ g.live = m.live \ {v}
<1> DEFINE s == socket(m, ok)
           f == free(s, v)
           k == close(s)
           g == free(k, v)
<1>0. v \in Var \ Mine /\ v # "fd" /\ "fd" \notin m.live /\ v \notin Mine /\ v # Null
  BY AsideVars DEF Mine, Names, Null
<1>1. /\ Sound(s) /\ s.live = m.live \cup (IF ok THEN {"fd"} ELSE {})
      /\ s.ptr[v] = v
  BY <1>0, SocketSound
<1> HIDE DEF s
<1>2. Sound(f) /\ f.live = s.live \ {v}
  BY <1>0, <1>1, FreeSound
<1>3. Sound(k) /\ k.live = s.live \ {"fd"} /\ k.ptr = [s.ptr EXCEPT !["fd"] = Null]
  BY <1>1, CloseSound
<1> HIDE DEF k, f
<1>4. k.live = m.live
  BY <1>0, <1>1, <1>3
<1>5. k.ptr[v] = v
  <2>1. s.ptr \in [Var -> Block \cup {Null}]
    BY <1>1, MemoryParts DEF Sound
  <2> QED
    BY <1>0, <1>1, <1>3, <2>1
<1>6. Sound(g) /\ g.live = k.live \ {v}
  <2>1. k.ptr[v] \in k.live \cup {Null} /\ k.ptr[v] \notin Mine
    BY <1>0, <1>4, <1>5
  <2>2. Sound(free(k, v)) /\ free(k, v).live = k.live \ {k.ptr[v]}
    BY <1>0, <1>3, <2>1, FreeSound
  <2> QED
    BY <1>5, <2>2
<1> HIDE DEF g
<1>7. f.live = (m.live \ {v}) \cup (IF ok THEN {"fd"} ELSE {})
  BY <1>0, <1>1, <1>2
<1> QED
  BY <1>2, <1>3, <1>4, <1>5, <1>6, <1>7 DEF s, f, k, g

LEMMA TryTidy ==
    ASSUME Typed, NEW t \in Thread, Progress(local[t]), Tidy(local[t]),
           try_address(t) \/ open_abstract(t) \/ open_path(t)
    PROVE  Tidy(local'[t])
<1> DEFINE l == local[t]
           n == local'[t]
           v == IF l.pc = "tcp" THEN "results" ELSE "file"
           s(ok) == socket(l.mem, ok)
<1>0. LocalsOK /\ prog \in Program
  BY DEF Typed
<1>1. /\ l.pc \in {"tcp", "abstract", "path"} /\ n.c = l.c /\ n.ourauth = l.ourauth
      /\ \/ n.pc = "out" /\ n.mem = free(l.mem, v)
         \/ \E ok \in BOOLEAN :
              \/ ok /\ n.pc = "auth" /\ n.mem = free(s(ok), v)
              \/ n.pc = "out" /\ n.mem = free(close(s(ok)), v)
              \/ /\ n.pc \in (IF l.pc = "tcp" THEN {"tcp"} ELSE {"path"})
                 /\ n.mem = close(s(ok))
  <2>1. CASE try_address(t)
    <3>1. l.pc = "tcp" /\ v = "results"
      BY <1>0, <2>1, TryMoves
    <3> QED
      BY <1>0, <2>1, <3>1, TryMoves DEF Goes, Moves, Reaches, SameAuth, SameConn
  <2>2. CASE open_abstract(t)
    <3>1. l.pc = "abstract" /\ v = "file"
      BY <1>0, <2>2, OpenAbstractMoves
    <3> QED
      BY <1>0, <2>2, <3>1, OpenAbstractMoves DEF Goes, Moves, Reaches, SameAuth, SameConn
  <2>3. CASE open_path(t)
    <3>1. l.pc = "path" /\ v = "file"
      BY <1>0, <2>3, OpenPathMoves
    <3> QED
      BY <1>0, <2>3, <3>1, OpenPathMoves DEF Goes, Moves, Reaches, SameAuth, SameConn
  <2> QED
    BY <2>1, <2>2, <2>3
<1>2. l.pc \in Opening
  BY <1>1 DEF Opening
<1>3. /\ Sound(l.mem) /\ v \in l.mem.live /\ l.mem.ptr[v] = v
      /\ l.mem.live \subseteq Names \cup {v} /\ l.mem \in Memory
  BY <1>0, <1>1, <1>2, OpeningSound, OpeningHolds DEF Sound
<1>4. n.c = "none" /\ ~n.ourauth /\ v \in {"results", "file"}
  BY <1>1, <1>2, NoneLost
<1> HIDE DEF v
<1>5. CASE n.pc = "out" /\ n.mem = free(l.mem, v)
  <2>1. v \in Var \ Mine /\ v \notin Mine
    BY <1>4, AsideVars
  <2>2. Sound(n.mem) /\ n.mem.live = l.mem.live \ {v}
    BY <1>3, <1>5, <2>1, FreeSound
  <2> QED
    BY <1>3, <1>4, <1>5, <2>2, OpeningTidy DEF Sound
<1>6. ASSUME NEW ok \in BOOLEAN,
             \/ ok /\ n.pc = "auth" /\ n.mem = free(s(ok), v)
             \/ n.pc = "out" /\ n.mem = free(close(s(ok)), v)
             \/ /\ n.pc \in (IF l.pc = "tcp" THEN {"tcp"} ELSE {"path"})
                /\ n.mem = close(s(ok))
      PROVE  Tidy(n)
  <2> DEFINE f == free(s(ok), v)
             k == close(s(ok))
             g == free(k, v)
  <2>1. /\ Sound(f) /\ f.live = (l.mem.live \ {v}) \cup (IF ok THEN {"fd"} ELSE {})
        /\ Sound(k) /\ k.live = l.mem.live /\ k.ptr[v] = v
        /\ Sound(g) /\ g.live = l.mem.live \ {v}
    BY <1>3, <1>4, TrySound
  <2> HIDE DEF f, k, g, s
  <2>2. CASE ok /\ n.pc = "auth" /\ n.mem = f
    <3>1. f.live \subseteq Names \cup {"fd"} /\ "fd" \in f.live
      BY <1>3, <2>1, <2>2
    <3> QED
      BY <1>4, <2>1, <2>2, <3>1, OpeningTidy DEF Sound
  <2>3. CASE n.pc = "out" /\ n.mem = g
    <3>1. g.live \subseteq Names
      BY <1>3, <2>1
    <3> QED
      BY <1>4, <2>1, <2>3, <3>1, OpeningTidy DEF Sound
  <2>4. CASE n.pc \in (IF l.pc = "tcp" THEN {"tcp"} ELSE {"path"}) /\ n.mem = k
    <3>1. v = IF l.pc = "tcp" THEN "results" ELSE "file"
      BY DEF v
    <3>2. \/ n.pc = "tcp" /\ v = "results"
          \/ n.pc = "path" /\ v = "file"
      BY <2>4, <3>1
    <3> QED
      BY <1>3, <1>4, <2>1, <2>4, <3>2, OpeningTidy DEF Sound
  <2> QED
    BY <1>6, <2>2, <2>3, <2>4 DEF f, k, g
<1> QED
  BY <1>1, <1>5, <1>6
-----------------------------------------------------------------------------
(* Authorization: each action leaves the memory tidy                       *)

\* The pointers in use from the peer's name to the end of _xcb_get_auth_info.
Pointers(l) ==
    LET p == l.mem.ptr
    IN  /\ l.pc = "authptr" => p["sockname"] \in IF l.gotsockname THEN Owns ELSE Peers
        /\ l.pc \in Computing => p["authptr"] = "authptr" /\ p["info.name"] = "info.name"
        /\ l.pc \in {"compute", "nonce", "next_nonce"} => p["sockname"] \in Owns
        /\ l.pc \in {"nonce", "next_nonce"} => p["info.data"] = "info.data"
        /\ l.ourauth /\ l.pc \in {"calloc", "init"} =>
              p["info.name"] = "info.name" /\ p["info.data"] = "info.data"

Late == Asking \cup Computing \cup {"calloc", "init"}

LEMMA LateLabels ==
    /\ Late \subseteq Connecting \ {"start", "parsed"} /\ Late \subseteq Naming
    /\ Late \cap {"tcp", "abstract", "path", "done"} = {}
BY DEF Late, Asking, Computing, Connecting, Naming

LEMMA LateHolds ==
    ASSUME NEW l, l.mem \in Memory, Progress(l), Tidy(l), l.pc \in Late
    PROVE  /\ Sound(l.mem) /\ Pointers(l) /\ l.c = "none" /\ Kept(l) \subseteq l.mem.live
           /\ l.mem.live \subseteq Kept(l) \cup Names \cup Lost(l)
<1>1. l.pc \in Connecting \ {"start", "parsed"} /\ l.pc \in Naming
  BY LateLabels
<1>2. l.c = "none"
  BY <1>1 DEF Progress
<1>3. Extra(l) = Names \cup Lost(l)
  BY <1>1, ExtraAt
<1>4. Points(l) /\ Kept(l) \subseteq l.mem.live /\ l.mem.live \subseteq Kept(l) \cup Extra(l)
  BY DEF Tidy
<1>5. Sound(l.mem)
  BY <1>1, <1>2, <1>4 DEF Sound, Points, Tidy
<1>6. Pointers(l)
  BY <1>4 DEF Pointers, Points, Computing
<1> QED
  BY <1>2, <1>3, <1>4, <1>5, <1>6

LEMMA LateTidy ==
    ASSUME NEW n, n.pc \in Late, Sound(n.mem), Pointers(n), n.c = "none",
           Kept(n) \subseteq n.mem.live, n.mem.live \subseteq Kept(n) \cup Names \cup Lost(n)
    PROVE  Tidy(n)
<1>1. n.pc \in Connecting \ {"start", "parsed"} /\ n.pc \in Naming
  BY LateLabels
<1>2. n.pc \notin {"tcp", "abstract", "path", "done"}
  BY LateLabels
<1>3. Extra(n) = Names \cup Lost(n)
  BY <1>1, ExtraAt
<1>4. Points(n)
  BY <1>2 DEF Points, Pointers, Sound, Computing
<1> QED
  BY <1>3, <1>4 DEF Tidy, Sound

LEMMA SameLost ==
    ASSUME NEW l, NEW n, n.cred.family = l.cred.family
    PROVE  Lost(n) = Lost(l)
BY DEF Lost

\* Without authorization _xcb_get_auth_info leaves the descriptor.
LEMMA BareTidy ==
    ASSUME NEW n, n.pc = "calloc", Sound(n.mem), n.c = "none", ~n.ourauth,
           "fd" \in n.mem.live, n.mem.live \subseteq {"fd"} \cup Names \cup Lost(n)
    PROVE  Tidy(n)
<1>1. n.pc \in Late
  BY DEF Late
<1>2. Kept(n) = {"fd"}
  BY KeptAt DEF Auth
<1>3. Pointers(n)
  BY DEF Pointers, Computing
<1> QED
  BY <1>1, <1>2, <1>3, LateTidy

LEMMA SuppliedTidy ==
    ASSUME Typed, NEW t \in Thread, Progress(local[t]), Tidy(local[t]), use_supplied(t)
    PROVE  Tidy(local'[t])
<1> DEFINE l == local[t]
           n == local'[t]
<1>0. LocalsOK
  BY DEF Typed
<1>1. l.pc = "auth" /\ n.pc = "calloc" /\ n.mem = l.mem /\ n.c = l.c /\ n.ourauth = l.ourauth
      /\ n.cred = [NoCred EXCEPT !.from = "supplied"]
  BY <1>0, SuppliedMoves DEF Credits, Moves, SameConn
<1>2. l.pc \in Opening \cup Asking /\ l.pc \in Late /\ l.mem \in Memory
  BY <1>0, <1>1, MemOf DEF Asking, Late
<1>3. Lost(l) = {} /\ l.c = "none" /\ ~l.ourauth
  BY <1>2, NoneLost
<1>4. Kept(l) = {"fd"}
  BY <1>1, KeptAt
<1>5. Sound(l.mem) /\ "fd" \in l.mem.live /\ l.mem.live \subseteq {"fd"} \cup Names
  BY <1>2, <1>3, <1>4, LateHolds
<1> QED
  BY <1>1, <1>3, <1>5, BareTidy

\* What get_peer_sock_name leaves of sound memory.
LEMMA NameSound ==
    ASSUME NEW m, Sound(m), NEW B \in {Peers, Owns}, m.live \cap B = {},
           "vanish" \notin prog.faults, NEW first, NEW longer, B = {first, longer},
           first # longer, NEW n \in peer_sock_name(m, first, longer)
    PROVE  /\ Sound(n)
           /\ \A v \in Var \ {"name", "new_name", "sockname"} : n.ptr[v] = m.ptr[v]
           /\ \/ n.ptr["sockname"] = Null /\ n.live = m.live
              \/ n.ptr["sockname"] \in B /\ n.live = m.live \cup {n.ptr["sockname"]}
<1>1. m \in Memory /\ B \subseteq Block /\ B \cap Mine = {}
  BY AsideVars DEF Sound
<1>2. first \in Block /\ longer \in Block /\ first \notin m.live /\ longer \notin m.live
  BY <1>1
<1>3. /\ n \in Memory /\ n.bad = m.bad /\ n.wild = m.wild
      /\ \A v \in Var \ {"name", "new_name", "sockname"} : n.ptr[v] = m.ptr[v]
      /\ \/ n.ptr["sockname"] = Null /\ n.live = m.live
         \/ n.ptr["sockname"] \in B /\ n.live = m.live \cup {n.ptr["sockname"]}
  BY <1>1, <1>2, SockNameDoes
<1>4. \A v \in Mine : v \in Var \ {"name", "new_name", "sockname"}
  BY DEF Mine, Names, Conn, Lists, Var
<1>5. \A v \in Mine : n.ptr[v] = m.ptr[v] /\ (v \in n.live <=> v \in m.live)
  BY <1>1, <1>3, <1>4
<1>6. Sound(n)
  BY <1>3, <1>5, SoundSame DEF Sound
<1> QED
  BY <1>3, <1>6

LEMMA NullBlocks == Null \notin Peers /\ Null \notin Owns /\ "peer" # "peer_long" /\ "own" # "own_long"
BY DEF Null, Peers, Owns

\* Before the entry is found the thread holds the descriptor and the names.
LEMMA AskingLive ==
    ASSUME LocalsOK, NEW t \in Thread, Progress(local[t]), Tidy(local[t]),
           local[t].pc \in {"auth", "own_name"}
    PROVE  LET l == local[t]
           IN  /\ Sound(l.mem) /\ "fd" \in l.mem.live /\ l.mem.live \subseteq {"fd"} \cup Names
               /\ l.c = "none" /\ ~l.ourauth /\ Lost(l) = {}
               /\ l.mem.live \cap Peers = {} /\ l.mem.live \cap Owns = {}
<1> DEFINE l == local[t]
<1>1. l.pc \in Opening \cup Asking /\ l.pc \in Late /\ l.mem \in Memory
  BY MemOf DEF Asking, Late
<1>2. Lost(l) = {} /\ l.c = "none" /\ ~l.ourauth
  BY <1>1, NoneLost
<1>3. Kept(l) = {"fd"}
  BY KeptAt
<1>4. Sound(l.mem) /\ "fd" \in l.mem.live /\ l.mem.live \subseteq {"fd"} \cup Names
  BY <1>1, <1>2, <1>3, LateHolds
<1>5. l.mem.live \cap Peers = {} /\ l.mem.live \cap Owns = {}
  BY <1>4 DEF Names, Peers, Owns
<1> QED
  BY <1>2, <1>4, <1>5

LEMMA PeerNameTidy ==
    ASSUME Typed, NEW t \in Thread, Progress(local[t]), Tidy(local[t]), peer_name(t),
           "vanish" \notin prog.faults
    PROVE  Tidy(local'[t])
<1> DEFINE l == local[t]
           n == local'[t]
<1>0. LocalsOK
  BY DEF Typed
<1>1. l.pc = "auth"
  BY <1>0, PeerNameMoves
<1>2. PICK m \in peer_sock_name(l.mem, "peer", "peer_long") :
         Goes(t, IF m.ptr["sockname"] = Null THEN "own_name" ELSE "authptr", m)
  BY <1>0, PeerNameMoves
<1>3. /\ Sound(l.mem) /\ "fd" \in l.mem.live /\ l.mem.live \subseteq {"fd"} \cup Names
      /\ l.c = "none" /\ ~l.ourauth /\ Lost(l) = {} /\ l.mem.live \cap Peers = {}
  BY <1>0, <1>1, AskingLive
<1>4. /\ n.mem = m /\ n.pc = IF m.ptr["sockname"] = Null THEN "own_name" ELSE "authptr"
      /\ n.c = "none" /\ ~n.ourauth /\ n.cred = l.cred /\ n.gotsockname = l.gotsockname
  BY <1>2, <1>3 DEF Goes, Moves, SameConn, SameAuth
<1>5. /\ Sound(m)
      /\ \/ m.ptr["sockname"] = Null /\ m.live = l.mem.live
         \/ m.ptr["sockname"] \in Peers /\ m.live = l.mem.live \cup {m.ptr["sockname"]}
  BY <1>2, <1>3, NameSound, NullBlocks DEF Peers
<1>6. CASE m.ptr["sockname"] = Null /\ m.live = l.mem.live
  <2>1. n.pc \in {"auth", "own_name"}
    BY <1>4, <1>6
  <2> QED
    BY <1>3, <1>4, <1>5, <1>6, <2>1, OpeningTidy DEF Sound
<1>7. CASE m.ptr["sockname"] \in Peers /\ m.live = l.mem.live \cup {m.ptr["sockname"]}
  <2>1. n.pc = "authptr" /\ n.pc \in Late
    BY <1>4, <1>7, NullBlocks DEF Late, Asking
  <2>2. Kept(n) = {"fd", m.ptr["sockname"]}
    BY <1>4, <2>1, KeptAt
  <2>3. ~l.gotsockname
    BY <1>1 DEF Progress
  <2>4. Pointers(n)
    BY <1>4, <1>7, <2>1, <2>3 DEF Pointers, Computing
  <2>5. Kept(n) \subseteq m.live /\ m.live \subseteq Kept(n) \cup Names
    BY <1>3, <1>7, <2>2
  <2> QED
    BY <1>4, <1>5, <2>1, <2>4, <2>5, LateTidy
<1> QED
  BY <1>5, <1>6, <1>7

\* sockname is freed when it points to a live name.
LEMMA FreeNameSound ==
    ASSUME NEW m, Sound(m), m.ptr["sockname"] \in (Peers \cup Owns) \cap m.live
    PROVE  LET n == free(m, "sockname")
           IN  Sound(n) /\ n.live = m.live \ {m.ptr["sockname"]} /\ n.ptr = m.ptr
<1>1. "sockname" \in Var \ Mine /\ m.ptr["sockname"] \notin Mine
  BY AsideVars
<1> QED
  BY <1>1, FreeSound

LEMMA OwnNameTidy ==
    ASSUME Typed, NEW t \in Thread, Progress(local[t]), Tidy(local[t]), own_name(t),
           "vanish" \notin prog.faults
    PROVE  Tidy(local'[t])
<1> DEFINE l == local[t]
           n == local'[t]
<1>0. LocalsOK
  BY DEF Typed
<1>1. l.pc = "own_name"
  BY <1>0, OwnNameMoves
<1>2. PICK m \in peer_sock_name(l.mem, "own", "own_long") :
         \/ m.ptr["sockname"] = Null /\ Goes(t, "calloc", m)
         \/ m.ptr["sockname"] # Null /\ Goes(t, "calloc", free(m, "sockname"))
         \/ /\ m.ptr["sockname"] # Null /\ Moves(t, "authptr", m)
            /\ n.gotsockname = TRUE /\ n.ourauth = l.ourauth /\ n.cred = l.cred
            /\ SamePlace(l, n) /\ SameConn(l, n)
  BY <1>0, OwnNameMoves
<1>3. /\ Sound(l.mem) /\ "fd" \in l.mem.live /\ l.mem.live \subseteq {"fd"} \cup Names
      /\ l.c = "none" /\ ~l.ourauth /\ Lost(l) = {} /\ l.mem.live \cap Owns = {}
  BY <1>0, <1>1, AskingLive
<1>4. /\ Sound(m)
      /\ \/ m.ptr["sockname"] = Null /\ m.live = l.mem.live
         \/ m.ptr["sockname"] \in Owns /\ m.live = l.mem.live \cup {m.ptr["sockname"]}
  BY <1>2, <1>3, NameSound, NullBlocks DEF Owns
<1>5. n.c = "none" /\ ~n.ourauth /\ n.cred = l.cred
  BY <1>2, <1>3 DEF Goes, SameConn, SameAuth
<1>6. CASE m.ptr["sockname"] = Null /\ Goes(t, "calloc", m)
  <2>1. n.pc = "calloc" /\ n.mem = m /\ m.live = l.mem.live
    BY <1>4, <1>6, NullBlocks DEF Goes, Moves
  <2> QED
    BY <1>3, <1>4, <1>5, <2>1, BareTidy
<1>7. CASE m.ptr["sockname"] # Null /\ Goes(t, "calloc", free(m, "sockname"))
  <2>1. n.pc = "calloc" /\ n.mem = free(m, "sockname") /\ m.ptr["sockname"] \in Owns
        /\ m.live = l.mem.live \cup {m.ptr["sockname"]}
    BY <1>4, <1>7 DEF Goes, Moves
  <2>2. Sound(n.mem) /\ n.mem.live = m.live \ {m.ptr["sockname"]}
    BY <1>4, <2>1, FreeNameSound
  <2>3. n.mem.live = l.mem.live
    BY <1>3, <2>1, <2>2
  <2> QED
    BY <1>3, <1>5, <2>1, <2>2, <2>3, BareTidy
<1>8. CASE m.ptr["sockname"] # Null /\ Moves(t, "authptr", m) /\ n.gotsockname = TRUE
  <2>1. n.pc = "authptr" /\ n.mem = m /\ m.ptr["sockname"] \in Owns /\ n.pc \in Late
        /\ m.live = l.mem.live \cup {m.ptr["sockname"]}
    BY <1>4, <1>8 DEF Moves, Late, Asking
  <2>2. Kept(n) = {"fd", m.ptr["sockname"]}
    BY <2>1, KeptAt
  <2>3. Pointers(n)
    BY <1>5, <1>8, <2>1 DEF Pointers, Computing
  <2>4. Kept(n) \subseteq m.live /\ m.live \subseteq Kept(n) \cup Names
    BY <1>3, <2>1, <2>2
  <2> QED
    BY <1>4, <1>5, <2>1, <2>3, <2>4, LateTidy
<1> QED
  BY <1>2, <1>6, <1>7, <1>8

\* The label no_auth, where sockname and authptr are freed.
LEMMA NoAuthSound ==
    ASSUME NEW m, Sound(m), m.ptr["authptr"] = "authptr", "authptr" \in m.live,
           \/ m.ptr["sockname"] = Null
           \/ m.ptr["sockname"] \in (Peers \cup Owns) \cap m.live
    PROVE  LET n == no_auth(m)
           IN  Sound(n) /\ n.live = (m.live \ {m.ptr["sockname"]}) \ {"authptr"}
<1> DEFINE f == free(m, "sockname")
           k == clear(f, "info.name")
           n == free(k, "authptr")
<1>0. /\ "sockname" \in Var \ Mine /\ "info.name" \in Var \ Mine /\ "authptr" \in Var \ Mine
      /\ Null \notin Mine /\ "authptr" \notin Mine /\ Peers \cap Mine = {} /\ Owns \cap Mine = {}
      /\ "info.name" # "authptr"
  BY AsideVars, MineBlocks DEF Mine
<1>1. Sound(f) /\ f.live = m.live \ {m.ptr["sockname"]} /\ f.ptr = m.ptr
  BY <1>0, FreeSound
<1>2. m.ptr["sockname"] # "authptr"
  BY AsideVars DEF Peers, Owns, Null
<1> HIDE DEF f
<1>3. Sound(k) /\ k.live = f.live /\ k.ptr = [f.ptr EXCEPT !["info.name"] = Null]
  BY <1>0, <1>1, ClearSound
<1> HIDE DEF k
<1>4. k.ptr["authptr"] = "authptr"
  <2>1. m.ptr \in [Var -> Block \cup {Null}]
    BY MemoryParts DEF Sound
  <2> QED
    BY <1>0, <1>1, <1>3, <2>1
<1>5. "authptr" \in k.live
  BY <1>1, <1>2, <1>3
<1>6. Sound(n) /\ n.live = k.live \ {"authptr"}
  <2>1. k.ptr["authptr"] \in k.live \cup {Null} /\ k.ptr["authptr"] \notin Mine
    BY <1>0, <1>4, <1>5
  <2>2. Sound(free(k, "authptr")) /\ free(k, "authptr").live = k.live \ {k.ptr["authptr"]}
    BY <1>0, <1>3, <2>1, FreeSound
  <2> QED
    BY <1>4, <2>2
<1> HIDE DEF n
<1>7. n = no_auth(m)
  BY DEF no_auth, n, k, f
<1> QED
  BY <1>1, <1>3, <1>6, <1>7

\* memdup of a part of the authorization.
LEMMA MemdupSound ==
    ASSUME NEW m, Sound(m), NEW v \in {"info.name", "info.data"}, v \notin m.live,
           NEW len, NEW ok \in BOOLEAN
    PROVE  LET n == memdup(m, v, len, ok)
           IN  /\ Sound(n) /\ \A w \in Var \ {v} : n.ptr[w] = m.ptr[w]
               /\ \/ len > 0 /\ ok /\ n.ptr[v] = v /\ n.live = m.live \cup {v}
                  \/ ~(len > 0 /\ ok) /\ n.ptr[v] = Null /\ n.live = m.live
<1>0. v \in Var \ Mine /\ v \in Block \ Mine /\ m.ptr \in [Var -> Block \cup {Null}]
  BY AsideVars, MemoryParts DEF Sound
<1>1. CASE len > 0 /\ ok
  <2> DEFINE n == malloc(m, v, v)
  <2>1. memdup(m, v, len, ok) = n
    BY <1>1 DEF memdup
  <2>2. Sound(n) /\ n.live = m.live \cup {v} /\ n.ptr = [m.ptr EXCEPT ![v] = v]
    BY <1>0, MallocSound
  <2> HIDE DEF n
  <2>3. n.ptr[v] = v /\ \A w \in Var \ {v} : n.ptr[w] = m.ptr[w]
    BY <1>0, <2>2
  <2> QED
    BY <1>1, <2>1, <2>2, <2>3
<1>2. CASE ~(len > 0 /\ ok)
  <2> DEFINE n == clear(m, v)
  <2>1. memdup(m, v, len, ok) = n
    BY <1>2 DEF memdup
  <2>2. Sound(n) /\ n.live = m.live /\ n.ptr = [m.ptr EXCEPT ![v] = Null]
    BY <1>0, ClearSound
  <2> HIDE DEF n
  <2>3. n.ptr[v] = Null /\ \A w \in Var \ {v} : n.ptr[w] = m.ptr[w]
    BY <1>0, <2>2
  <2> QED
    BY <1>2, <2>1, <2>2, <2>3
<1> QED
  BY <1>1, <1>2

LEMMA GetAuthptrTidy ==
    ASSUME Typed, NEW t \in Thread, Progress(local[t]), Tidy(local[t]), get_authptr(t)
    PROVE  Tidy(local'[t])
<1> DEFINE l == local[t]
           n == local'[t]
           f == family(l.peer)
           s == l.mem.ptr["sockname"]
           a == malloc(l.mem, "authptr", "authptr")
           d(ok) == memdup(a, "info.name", 1, ok)
<1>0. LocalsOK
  BY DEF Typed
<1>1. l.pc = "authptr" /\ l.pc \in Opening \cup Asking /\ l.pc \in Late /\ l.mem \in Memory
  BY <1>0, GetAuthptrMoves, MemOf DEF Asking, Late
<1>2. Lost(l) = {} /\ l.c = "none" /\ ~l.ourauth
  BY <1>1, NoneLost
<1>3. Kept(l) = {"fd", s}
  BY <1>1, KeptAt
<1>4. /\ Sound(l.mem) /\ "fd" \in l.mem.live /\ s \in l.mem.live
      /\ l.mem.live \subseteq {"fd", s} \cup Names
  BY <1>1, <1>2, <1>3, LateHolds
<1>5. s \in IF l.gotsockname THEN Owns ELSE Peers
  BY <1>1, LateHolds DEF Pointers
<1>6. deref(l.mem, "sockname") = l.mem
  BY <1>1, <1>4, AsideVars, DerefLive
<1>7. \/ Goes(t, "calloc", free(l.mem, "sockname"))
      \/ \E ok \in BOOLEAN :
           \/ d(ok).ptr["info.name"] = Null /\ Goes(t, "calloc", no_auth(d(ok)))
           \/ /\ d(ok).ptr["info.name"] # Null
              /\ Credits(t, IF l.gotsockname THEN "compute" ELSE "own_again", d(ok),
                         [NoCred EXCEPT !.family = f])
              /\ n.ourauth = l.ourauth
  BY <1>0, <1>6, GetAuthptrMoves
<1>8. CASE Goes(t, "calloc", free(l.mem, "sockname"))
  <2>1. n.pc = "calloc" /\ n.mem = free(l.mem, "sockname") /\ n.c = "none" /\ ~n.ourauth
    BY <1>2, <1>8 DEF Goes, Moves, SameConn, SameAuth
  <2>2. Sound(n.mem) /\ n.mem.live = l.mem.live \ {s}
    BY <1>4, <1>5, <2>1, FreeNameSound
  <2>3. s # "fd"
    BY <1>5 DEF Owns, Peers
  <2> QED
    BY <1>4, <2>1, <2>2, <2>3, BareTidy
<1>9. ASSUME NEW ok \in BOOLEAN,
             \/ d(ok).ptr["info.name"] = Null /\ Goes(t, "calloc", no_auth(d(ok)))
             \/ /\ d(ok).ptr["info.name"] # Null
                /\ Credits(t, IF l.gotsockname THEN "compute" ELSE "own_again", d(ok),
                           [NoCred EXCEPT !.family = f])
                /\ n.ourauth = l.ourauth
      PROVE  Tidy(n)
  <2>1. {"authptr", "info.name", "fd", s} \cap Names = {} /\ s \notin {"authptr", "info.name", "fd"}
    BY <1>5 DEF Names, Owns, Peers
  <2>2. "authptr" \notin l.mem.live /\ "info.name" \notin l.mem.live
    BY <1>4, <2>1
  <2>3. /\ "authptr" \in Var \ Mine /\ "authptr" \in Block \ Mine /\ "sockname" \in Var
        /\ Null \notin Block
    BY AsideVars
  <2>4. Sound(a) /\ a.live = l.mem.live \cup {"authptr"}
        /\ a.ptr = [l.mem.ptr EXCEPT !["authptr"] = "authptr"]
    BY <1>4, <2>2, <2>3, MallocSound
  <2> HIDE DEF a
  <2>5. a.ptr["authptr"] = "authptr" /\ a.ptr["sockname"] = s
    BY <1>1, <2>3, <2>4, MemoryParts
  <2> DEFINE k == d(ok)
  <2>6. "info.name" \notin a.live
    BY <2>2, <2>4
  <2>7. /\ Sound(k) /\ \A w \in Var \ {"info.name"} : k.ptr[w] = a.ptr[w]
        /\ \/ ok /\ k.ptr["info.name"] = "info.name" /\ k.live = a.live \cup {"info.name"}
           \/ ~ok /\ k.ptr["info.name"] = Null /\ k.live = a.live
    <3>1. 1 > 0 /\ "info.name" \in {"info.name", "info.data"}
      OBVIOUS
    <3>2. /\ Sound(k) /\ \A w \in Var \ {"info.name"} : k.ptr[w] = a.ptr[w]
          /\ \/ 1 > 0 /\ ok /\ k.ptr["info.name"] = "info.name"
                /\ k.live = a.live \cup {"info.name"}
             \/ ~(1 > 0 /\ ok) /\ k.ptr["info.name"] = Null /\ k.live = a.live
      BY <2>4, <2>6, <3>1, MemdupSound, Zenon
    <3> QED
      BY <3>1, <3>2
  <2>8. k.ptr["authptr"] = "authptr" /\ k.ptr["sockname"] = s
    BY <2>3, <2>5, <2>7
  <2> HIDE DEF k
  <2>9. CASE k.ptr["info.name"] = Null /\ Goes(t, "calloc", no_auth(k))
    <3>1. n.pc = "calloc" /\ n.mem = no_auth(k) /\ n.c = "none" /\ ~n.ourauth
      BY <1>2, <2>9 DEF Goes, Moves, SameConn, SameAuth
    <3>2. k.live = a.live
      BY <2>7, <2>9 DEF Null
    <3>3. Sound(n.mem) /\ n.mem.live = (k.live \ {s}) \ {"authptr"}
      BY <1>4, <1>5, <2>4, <2>7, <2>8, <3>1, <3>2, NoAuthSound
    <3>4. n.mem.live = l.mem.live \ {s}
      BY <2>2, <2>4, <3>2, <3>3
    <3> QED
      BY <1>4, <2>1, <3>1, <3>3, <3>4, BareTidy
  <2>10. CASE /\ k.ptr["info.name"] # Null
              /\ Credits(t, IF l.gotsockname THEN "compute" ELSE "own_again", k,
                         [NoCred EXCEPT !.family = f])
              /\ n.ourauth = l.ourauth
    <3>1. /\ n.pc = IF l.gotsockname THEN "compute" ELSE "own_again"
          /\ n.mem = k /\ n.c = "none" /\ ~n.ourauth /\ n.cred = [NoCred EXCEPT !.family = f]
      BY <1>2, <2>10 DEF Credits, Moves, SameConn
    <3>2. k.ptr["info.name"] = "info.name" /\ k.live = l.mem.live \cup {"authptr", "info.name"}
      BY <2>4, <2>7, <2>10
    <3>3. n.cred.family = f /\ f # "none"
      BY <3>1, FamilyTyped DEF NoCred, Family
    <3>4. Lost(n) = Peers
      BY <3>3 DEF Lost
    <3>5. n.pc \in Late /\ n.pc \in Computing
      BY <3>1 DEF Late, Computing
    <3>6. Pointers(n)
      BY <1>5, <2>8, <3>1, <3>2 DEF Pointers, Computing
    <3>7. Kept(n) \subseteq k.live /\ k.live \subseteq Kept(n) \cup Names \cup Lost(n)
      <4>1. CASE l.gotsockname
        <5>1. Kept(n) = {"fd", "authptr", "info.name", s}
          BY <2>8, <3>1, <4>1, KeptAt
        <5> QED
          BY <1>4, <3>2, <5>1
      <4>2. CASE ~l.gotsockname
        <5>1. Kept(n) = {"fd", "authptr", "info.name"} /\ s \in Peers
          BY <1>5, <3>1, <4>2, KeptAt
        <5> QED
          BY <1>4, <3>2, <3>4, <5>1
      <4> QED
        BY <4>1, <4>2
    <3> QED
      BY <2>7, <3>1, <3>5, <3>6, <3>7, LateTidy
  <2> QED
    BY <1>9, <2>9, <2>10 DEF k
<1> QED
  BY <1>7, <1>8, <1>9

\* After the entry's data could not be had: info.name, sockname and authptr go.
LEMMA GiveUpSound ==
    ASSUME NEW m, Sound(m), m.ptr["authptr"] = "authptr", "authptr" \in m.live,
           m.ptr["info.name"] = "info.name", "info.name" \in m.live,
           \/ m.ptr["sockname"] = Null
           \/ m.ptr["sockname"] \in Owns \cap m.live
    PROVE  LET n == no_auth(free(m, "info.name"))
           IN  Sound(n) /\ n.live = m.live \ {"info.name", m.ptr["sockname"], "authptr"}
<1> DEFINE f == free(m, "info.name")
<1>1. "info.name" \in Var \ Mine /\ "info.name" \notin Mine
  BY AsideVars
<1>2. Sound(f) /\ f.live = m.live \ {m.ptr["info.name"]} /\ f.ptr = m.ptr
  BY <1>1, FreeSound
<1> HIDE DEF f
<1>3. "authptr" \in f.live /\ (m.ptr["sockname"] \in Owns => m.ptr["sockname"] \in f.live \/
         m.ptr["sockname"] \notin m.live)
  BY <1>2 DEF Owns
<1>4. \/ f.ptr["sockname"] = Null
      \/ f.ptr["sockname"] \in (Peers \cup Owns) \cap f.live
  BY <1>2, <1>3, NullBlocks
<1>5. LET n == no_auth(f)
      IN  Sound(n) /\ n.live = (f.live \ {f.ptr["sockname"]}) \ {"authptr"}
  BY <1>2, <1>3, <1>4, NoAuthSound
<1> QED
  BY <1>2, <1>5 DEF f

\* At the labels where the data is computed.
LEMMA ComputingLive ==
    ASSUME LocalsOK, NEW t \in Thread, Progress(local[t]), Tidy(local[t]),
           local[t].pc \in Computing
    PROVE  LET l == local[t]
               p == l.mem.ptr
               s == p["sockname"]
           IN  /\ Sound(l.mem) /\ l.c = "none" /\ ~l.ourauth
               /\ p["authptr"] = "authptr" /\ p["info.name"] = "info.name"
               /\ {"fd", "authptr", "info.name"} \subseteq l.mem.live
               /\ l.pc = "own_again" =>
                     l.mem.live \subseteq {"fd", "authptr", "info.name"} \cup Names \cup Lost(l)
               /\ l.pc # "own_again" => s \in Owns /\ s \in l.mem.live
               /\ l.pc = "compute" =>
                     l.mem.live \subseteq {"fd", "authptr", "info.name", s} \cup Names \cup Lost(l)
               /\ l.pc \in {"nonce", "next_nonce"} =>
                     /\ p["info.data"] = "info.data" /\ "info.data" \in l.mem.live
                     /\ l.mem.live \subseteq {"fd", "authptr", "info.name", "info.data", s}
                                             \cup Names \cup Lost(l)
<1> DEFINE l == local[t]
<1>1. l.pc \in Late /\ l.mem \in Memory
  BY MemOf DEF Late
<1>2. /\ Sound(l.mem) /\ Pointers(l) /\ l.c = "none" /\ Kept(l) \subseteq l.mem.live
      /\ l.mem.live \subseteq Kept(l) \cup Names \cup Lost(l)
  BY <1>1, LateHolds
<1>3. ~l.ourauth
  BY DEF Progress, Computing, Connecting
<1>4. l.mem.ptr["authptr"] = "authptr" /\ l.mem.ptr["info.name"] = "info.name"
  BY <1>2 DEF Pointers
<1>5. CASE l.pc = "own_again"
  <2>1. Kept(l) = {"fd", "authptr", "info.name"}
    BY <1>5, KeptAt
  <2> QED
    BY <1>2, <1>3, <1>4, <1>5, <2>1
<1>6. CASE l.pc = "compute"
  <2>1. Kept(l) = {"fd", "authptr", "info.name", l.mem.ptr["sockname"]}
    BY <1>6, KeptAt
  <2>2. l.mem.ptr["sockname"] \in Owns
    BY <1>2, <1>6 DEF Pointers
  <2> QED
    BY <1>2, <1>3, <1>4, <1>6, <2>1, <2>2
<1>7. CASE l.pc \in {"nonce", "next_nonce"}
  <2>1. Kept(l) = {"fd", "authptr", "info.name", "info.data", l.mem.ptr["sockname"]}
    BY <1>7, KeptAt
  <2>2. l.mem.ptr["sockname"] \in Owns /\ l.mem.ptr["info.data"] = "info.data"
    BY <1>2, <1>7 DEF Pointers
  <2> QED
    BY <1>2, <1>3, <1>4, <1>7, <2>1, <2>2
<1> QED
  BY <1>5, <1>6, <1>7 DEF Computing

LEMMA OwnAgainTidy ==
    ASSUME Typed, NEW t \in Thread, Progress(local[t]), Tidy(local[t]), own_again(t),
           "vanish" \notin prog.faults
    PROVE  Tidy(local'[t])
<1> DEFINE l == local[t]
           n == local'[t]
<1>0. LocalsOK
  BY DEF Typed
<1>1. l.pc = "own_again" /\ l.pc \in Computing
  BY <1>0, OwnAgainMoves DEF Computing
<1>2. PICK m \in peer_sock_name(l.mem, "own", "own_long") :
         \/ m.ptr["sockname"] = Null /\ Goes(t, "calloc", no_auth(free(m, "info.name")))
         \/ m.ptr["sockname"] # Null /\ Goes(t, "compute", m)
  BY <1>0, OwnAgainMoves
<1>3. /\ Sound(l.mem) /\ l.c = "none" /\ ~l.ourauth
      /\ l.mem.ptr["authptr"] = "authptr" /\ l.mem.ptr["info.name"] = "info.name"
      /\ {"fd", "authptr", "info.name"} \subseteq l.mem.live
      /\ l.mem.live \subseteq {"fd", "authptr", "info.name"} \cup Names \cup Lost(l)
  BY <1>0, <1>1, ComputingLive
<1>4. l.mem.live \cap Owns = {}
  <2>1. Lost(l) \subseteq Peers
    BY DEF Lost
  <2> QED
    BY <1>3, <2>1 DEF Peers, Owns, Names
<1>5. /\ Sound(m)
      /\ \A v \in Var \ {"name", "new_name", "sockname"} : m.ptr[v] = l.mem.ptr[v]
      /\ \/ m.ptr["sockname"] = Null /\ m.live = l.mem.live
         \/ m.ptr["sockname"] \in Owns /\ m.live = l.mem.live \cup {m.ptr["sockname"]}
  BY <1>2, <1>3, <1>4, NameSound, NullBlocks DEF Owns
<1>6. m.ptr["authptr"] = "authptr" /\ m.ptr["info.name"] = "info.name"
  BY <1>3, <1>5 DEF Var
<1>7. n.c = "none" /\ ~n.ourauth /\ n.cred = l.cred
  BY <1>2, <1>3 DEF Goes, SameConn, SameAuth
<1>8. Lost(n) = Lost(l)
  BY <1>7, SameLost
<1>9. CASE m.ptr["sockname"] = Null /\ Goes(t, "calloc", no_auth(free(m, "info.name")))
  <2>1. n.pc = "calloc" /\ n.mem = no_auth(free(m, "info.name")) /\ m.live = l.mem.live
    BY <1>5, <1>9, NullBlocks DEF Goes, Moves
  <2>2. Sound(n.mem) /\ n.mem.live = m.live \ {"info.name", m.ptr["sockname"], "authptr"}
    BY <1>3, <1>5, <1>6, <1>9, <2>1, GiveUpSound
  <2>3. "fd" \in n.mem.live /\ n.mem.live \subseteq {"fd"} \cup Names \cup Lost(n)
    BY <1>3, <1>8, <1>9, <2>1, <2>2 DEF Null
  <2> QED
    BY <1>7, <2>1, <2>2, <2>3, BareTidy
<1>10. CASE m.ptr["sockname"] # Null /\ Goes(t, "compute", m)
  <2>1. n.pc = "compute" /\ n.mem = m /\ n.pc \in Late /\ m.ptr["sockname"] \in Owns
        /\ m.live = l.mem.live \cup {m.ptr["sockname"]}
    BY <1>5, <1>10 DEF Goes, Moves, Late, Computing
  <2>2. Kept(n) = {"fd", "authptr", "info.name", m.ptr["sockname"]}
    BY <2>1, KeptAt
  <2>3. Pointers(n)
    BY <1>6, <1>7, <2>1 DEF Pointers, Computing
  <2>4. Kept(n) \subseteq m.live /\ m.live \subseteq Kept(n) \cup Names \cup Lost(n)
    BY <1>3, <1>8, <2>1, <2>2
  <2> QED
    BY <1>5, <1>7, <2>1, <2>3, <2>4, LateTidy
<1> QED
  BY <1>2, <1>9, <1>10

\* The end of _xcb_get_auth_info: only the authorization and the descriptor stay.
LEMMA GrantedTidy ==
    ASSUME LocalsOK, NEW t \in Thread, NEW m, Sound(m), NEW from, Granted(t, m, from),
           local[t].c = "none",
           m.ptr["authptr"] = "authptr", m.ptr["info.name"] = "info.name",
           m.ptr["info.data"] = "info.data", m.ptr["sockname"] \in Owns,
           {"fd", "authptr", "info.name", "info.data", m.ptr["sockname"]} \subseteq m.live,
           m.live \subseteq {"fd", "authptr", "info.name", "info.data", m.ptr["sockname"]}
                            \cup Names \cup Lost(local[t])
    PROVE  Tidy(local'[t])
<1> DEFINE l == local[t]
           n == local'[t]
           s == m.ptr["sockname"]
           f == free(m, "sockname")
           k == clear(f, "sockname")
           g == free(k, "authptr")
<1>0. /\ "sockname" \in Var \ Mine /\ "authptr" \in Var \ Mine /\ "authptr" \notin Mine
      /\ "info.name" \in Var /\ "info.data" \in Var
  BY AsideVars
<1>1. /\ n.pc = "calloc" /\ n.mem = g /\ n.c = "none" /\ n.ourauth = TRUE
      /\ n.cred = [l.cred EXCEPT !.from = from]
  BY DEF Granted, Credits, Moves, SameConn
<1>2. l.cred \in Cred
  BY MemOf DEF Local
<1>3. n.cred.family = l.cred.family
  BY <1>1, <1>2 DEF Cred
<1>4. Lost(n) = Lost(l)
  BY <1>3, SameLost
<1>5. Sound(f) /\ f.live = m.live \ {s} /\ f.ptr = m.ptr
  BY FreeNameSound
<1> HIDE DEF f
<1>6. Sound(k) /\ k.live = f.live /\ k.ptr = [f.ptr EXCEPT !["sockname"] = Null]
  BY <1>0, <1>5, ClearSound
<1> HIDE DEF k
<1>7. s \notin {"authptr", "info.name", "info.data", "fd"}
  BY DEF Owns
<1>8. k.ptr["authptr"] = "authptr" /\ k.ptr["info.name"] = "info.name"
      /\ k.ptr["info.data"] = "info.data"
  <2>1. m.ptr \in [Var -> Block \cup {Null}]
    BY MemoryParts DEF Sound
  <2> QED
    BY <1>0, <1>5, <1>6, <2>1
<1>9. "authptr" \in k.live
  BY <1>5, <1>6, <1>7
<1>10. Sound(g) /\ g.live = k.live \ {"authptr"} /\ g.ptr = k.ptr
  <2>1. k.ptr["authptr"] \in k.live \cup {Null} /\ k.ptr["authptr"] \notin Mine
    BY <1>0, <1>8, <1>9
  <2>2. LET h == free(k, "authptr")
        IN  Sound(h) /\ h.live = k.live \ {k.ptr["authptr"]} /\ h.ptr = k.ptr
    BY <1>0, <1>6, <2>1, FreeSound
  <2> QED
    BY <1>8, <2>2
<1> HIDE DEF g
<1>11. n.pc \in Late
  BY <1>1 DEF Late
<1>12. Kept(n) = {"fd", "info.name", "info.data"}
  BY <1>1, KeptAt DEF Auth
<1>13. Pointers(n)
  BY <1>1, <1>8, <1>10 DEF Pointers, Computing
<1>14. g.live = m.live \ {s, "authptr"}
  BY <1>5, <1>6, <1>10
<1>15. Kept(n) \subseteq g.live /\ g.live \subseteq Kept(n) \cup Names \cup Lost(n)
  BY <1>4, <1>7, <1>12, <1>14
<1> QED
  BY <1>1, <1>10, <1>11, <1>13, <1>15, LateTidy

LEMMA NonceTidy ==
    ASSUME Typed, NEW t \in Thread, Progress(local[t]), Tidy(local[t]),
           read_nonce(t) \/ next_nonce(t)
    PROVE  Tidy(local'[t])
<1> DEFINE l == local[t]
           n == local'[t]
<1>0. LocalsOK /\ nonce \in Nat
  BY DEF Typed
<1>1. CASE read_nonce(t)
  <2>1. /\ l.pc = "nonce" /\ n.pc = "next_nonce" /\ n.mem = l.mem /\ n.c = l.c
        /\ n.ourauth = l.ourauth /\ n.cred = [l.cred EXCEPT !.nonce = nonce]
    BY <1>0, <1>1, ReadNonceMoves DEF Credits, Moves, SameConn
  <2>2. l.cred \in Cred /\ l.pc \in Computing /\ n.pc \in Late
    BY <1>0, <2>1, MemOf DEF Local, Computing, Late
  <2>3. Lost(n) = Lost(l)
    BY <2>1, <2>2, SameLost DEF Cred
  <2>4. LET p == l.mem.ptr
            s == p["sockname"]
        IN  /\ Sound(l.mem) /\ l.c = "none" /\ ~l.ourauth
            /\ p["authptr"] = "authptr" /\ p["info.name"] = "info.name" /\ s \in Owns
            /\ p["info.data"] = "info.data"
            /\ {"fd", "authptr", "info.name", "info.data", s} \subseteq l.mem.live
            /\ l.mem.live \subseteq {"fd", "authptr", "info.name", "info.data", s} \cup Names
                                    \cup Lost(l)
    BY <1>0, <2>1, <2>2, ComputingLive
  <2>5. Kept(n) = {"fd", "authptr", "info.name", "info.data", l.mem.ptr["sockname"]}
    BY <2>1, KeptAt
  <2>6. Pointers(n)
    BY <2>1, <2>4 DEF Pointers, Computing
  <2> QED
    BY <2>1, <2>2, <2>3, <2>4, <2>5, <2>6, LateTidy
<1>2. CASE next_nonce(t)
  <2>1. l.pc = "next_nonce" /\ Granted(t, l.mem, "nonce")
    BY <1>0, <1>2, NextNonceMoves
  <2>2. l.pc \in Computing
    BY <2>1 DEF Computing
  <2>3. LET p == l.mem.ptr
            s == p["sockname"]
        IN  /\ Sound(l.mem) /\ l.c = "none" /\ ~l.ourauth
            /\ p["authptr"] = "authptr" /\ p["info.name"] = "info.name" /\ s \in Owns
            /\ p["info.data"] = "info.data"
            /\ {"fd", "authptr", "info.name", "info.data", s} \subseteq l.mem.live
            /\ l.mem.live \subseteq {"fd", "authptr", "info.name", "info.data", s} \cup Names
                                    \cup Lost(l)
    BY <1>0, <2>1, <2>2, ComputingLive
  <2> QED
    BY <1>0, <2>1, <2>3, GrantedTidy
<1> QED
  BY <1>1, <1>2

LEMMA ComputeTidy ==
    ASSUME Typed, NEW t \in Thread, Progress(local[t]), Tidy(local[t]), compute_auth(t)
    PROVE  Tidy(local'[t])
<1> DEFINE l == local[t]
           n == local'[t]
           s == l.mem.ptr["sockname"]
<1>0. LocalsOK
  BY DEF Typed
<1>1. l.pc = "compute" /\ l.pc \in Computing /\ l.mem \in Memory
  BY <1>0, ComputeMoves, MemOf DEF Computing
<1>2. /\ Sound(l.mem) /\ l.c = "none" /\ ~l.ourauth
      /\ l.mem.ptr["authptr"] = "authptr" /\ l.mem.ptr["info.name"] = "info.name"
      /\ s \in Owns /\ {"fd", "authptr", "info.name", s} \subseteq l.mem.live
      /\ l.mem.live \subseteq {"fd", "authptr", "info.name", s} \cup Names \cup Lost(l)
  BY <1>0, <1>1, ComputingLive
<1>3. deref(l.mem, "authptr") = l.mem
  BY <1>1, <1>2, AsideVars, DerefLive
<1> DEFINE len == IF entry(t).name = "MC1" THEN entry(t).len ELSE 1
           d(ok) == memdup(l.mem, "info.data", len, ok)
<1>4. PICK ok \in BOOLEAN :
         \/ d(ok).ptr["info.data"] = Null
            /\ Goes(t, "calloc", no_auth(free(d(ok), "info.name")))
         \/ d(ok).ptr["info.data"] # Null /\ Granted(t, d(ok), "cookie")
         \/ d(ok).ptr["info.data"] # Null /\ Goes(t, "nonce", d(ok))
         \/ /\ d(ok).ptr["info.data"] # Null
            /\ \E from \in {"zero", "address"} : Granted(t, deref(d(ok), "sockname"), from)
  BY <1>0, <1>3, ComputeMoves
<1> HIDE DEF len
<1> DEFINE k == d(ok)
<1>5. "info.data" \notin l.mem.live
  <2>1. "info.data" \notin Names \cup Peers \cup Owns /\ Lost(l) \subseteq Peers
    BY DEF Names, Peers, Owns, Lost
  <2> QED
    BY <1>2, <2>1
<1>6. /\ Sound(k) /\ \A w \in Var \ {"info.data"} : k.ptr[w] = l.mem.ptr[w]
      /\ \/ k.ptr["info.data"] = "info.data" /\ k.live = l.mem.live \cup {"info.data"}
         \/ k.ptr["info.data"] = Null /\ k.live = l.mem.live
  BY <1>2, <1>5, MemdupSound
<1> HIDE DEF d, k
<1>7. k.ptr["authptr"] = "authptr" /\ k.ptr["info.name"] = "info.name" /\ k.ptr["sockname"] = s
  BY <1>2, <1>6, AsideVars
<1>8. CASE k.ptr["info.data"] = Null /\ Goes(t, "calloc", no_auth(free(k, "info.name")))
  <2>1. /\ n.pc = "calloc" /\ n.mem = no_auth(free(k, "info.name")) /\ n.c = "none"
        /\ ~n.ourauth /\ n.cred = l.cred
    BY <1>2, <1>8 DEF Goes, Moves, SameConn, SameAuth
  <2>2. k.live = l.mem.live
    BY <1>6, <1>8 DEF Null
  <2>3. Sound(n.mem) /\ n.mem.live = k.live \ {"info.name", s, "authptr"}
    BY <1>2, <1>6, <1>7, <2>1, <2>2, GiveUpSound
  <2>4. Lost(n) = Lost(l) /\ s # "fd"
    BY <1>2, <2>1, SameLost DEF Owns
  <2>5. "fd" \in n.mem.live /\ n.mem.live \subseteq {"fd"} \cup Names \cup Lost(n)
    BY <1>2, <2>2, <2>3, <2>4
  <2> QED
    BY <2>1, <2>3, <2>5, BareTidy
<1>9. ASSUME k.ptr["info.data"] # Null
      PROVE  /\ k.ptr["info.data"] = "info.data"
             /\ {"fd", "authptr", "info.name", "info.data", s} \subseteq k.live
             /\ k.live \subseteq {"fd", "authptr", "info.name", "info.data", s} \cup Names
                                 \cup Lost(l)
  <2>1. k.ptr["info.data"] = "info.data" /\ k.live = l.mem.live \cup {"info.data"}
    BY <1>6, <1>9
  <2> QED
    BY <1>2, <2>1
<1>10. ASSUME NEW from, Granted(t, k, from), k.ptr["info.data"] # Null
       PROVE  Tidy(n)
  BY <1>0, <1>2, <1>6, <1>7, <1>9, <1>10, GrantedTidy
<1>11. CASE k.ptr["info.data"] # Null /\ Goes(t, "nonce", k)
  <2>1. /\ n.pc = "nonce" /\ n.mem = k /\ n.c = "none" /\ ~n.ourauth /\ n.cred = l.cred
        /\ n.pc \in Late
    BY <1>2, <1>11 DEF Goes, Moves, SameConn, SameAuth, Late, Computing
  <2>2. Lost(n) = Lost(l)
    BY <2>1, SameLost
  <2>3. Kept(n) = {"fd", "authptr", "info.name", "info.data", s}
    BY <1>7, <2>1, KeptAt
  <2>4. Pointers(n)
    BY <1>2, <1>7, <1>9, <1>11, <2>1 DEF Pointers, Computing
  <2> QED
    BY <1>6, <1>9, <1>11, <2>1, <2>2, <2>3, <2>4, LateTidy
<1>12. ASSUME NEW from, Granted(t, deref(k, "sockname"), from), k.ptr["info.data"] # Null
       PROVE  Tidy(n)
  <2>1. deref(k, "sockname") = k
    BY <1>6, <1>7, <1>9, <1>12, AsideVars, DerefLive DEF Sound
  <2> QED
    BY <1>10, <1>12, <2>1
<1> QED
  BY <1>4, <1>8, <1>10, <1>11, <1>12 DEF k
-----------------------------------------------------------------------------
(* The connection: each action leaves the memory tidy                      *)

\* What step i of the initialisation makes.
Part(i) ==
    (IF i = 2 THEN {"iolock"} ELSE {}) \cup
    (IF i = 3 THEN {"event_cond", "replies"} ELSE {}) \cup
    (IF i = 4 THEN {"socket_cond", "out_cond", "reqlenlock"} ELSE {}) \cup
    (IF i = 6 THEN {"setup"} ELSE {}) \cup
    (IF i = 7 THEN {"ext_lock"} ELSE {}) \cup
    (IF i = 8 THEN {"xid_lock"} ELSE {})

LEMMA MadeNext ==
    ASSUME NEW i \in 1 .. Steps
    PROVE  Made(i + 1) = Made(i) \cup Part(i) /\ Part(i) \cap Made(i) = {}
<1>0. i \in {1, 2, 3, 4, 5, 6, 7, 8}
  BY DEF Steps
<1>1. Made(i + 1) = Made(i) \cup Part(i)
  BY <1>0 DEF Made, Part
<1>2. Part(i) \cap Made(i) = {}
  BY <1>0 DEF Made, Part
<1> QED
  BY <1>1, <1>2

LEMMA PartBlocks ==
    ASSUME NEW i
    PROVE  /\ Part(i) \subseteq Sync \cup {"setup", "replies"}
           /\ Made(i) \subseteq Sync \cup {"setup", "replies"}
BY DEF Part, Made, Sync

LEMMA AllMade == Made(1) = {} /\ {"fd", "c"} \cup Made(Steps + 1) = ConnectionBlock
<1>1. Made(1) = {}
  BY DEF Made
<1>2. Made(Steps + 1) = {"setup", "replies"} \cup Sync
  BY DEF Made, Steps, Sync
<1> QED
  BY <1>1, <1>2 DEF ConnectionBlock

LEMMA SyncSound ==
    ASSUME NEW m, Sound(m), NEW S \in SUBSET Sync
    PROVE  LET n == init_sync(m, S)
           IN  Sound(n) /\ n.live = m.live \cup S /\ n.ptr = m.ptr
<1> DEFINE n == init_sync(m, S)
<1>1. m \in Memory /\ Becomes(m, n, m.ptr, m.live \cup S)
  BY InitSyncDoes DEF Sound
<1>2. Mine \cap Sync = {}
  BY DEF Mine, Names, Conn, Lists, Sync
<1> HIDE DEF n
<1>3. n \in Memory /\ n.bad = {} /\ n.wild = {}
  BY <1>1 DEF Becomes, Sound
<1>4. \A w \in Mine : n.ptr[w] = m.ptr[w] /\ (w \in n.live <=> w \in m.live)
  BY <1>1, <1>2 DEF Becomes
<1>5. Sound(n)
  BY <1>3, <1>4, SoundSame
<1> QED
  BY <1>1, <1>5 DEF Becomes, n

\* A pointer of the connection that is NULL stays NULL.
LEMMA ClearPartSound ==
    ASSUME NEW m, Sound(m), NEW v \in Conn, v \notin m.live
    PROVE  LET n == clear(m, v) IN Sound(n) /\ n.live = m.live /\ n.ptr = m.ptr
<1> DEFINE n == clear(m, v)
<1>0. m \in Memory /\ v \in Var
  BY MineBlocks DEF Sound
<1>1. Becomes(m, n, [m.ptr EXCEPT ![v] = Null], m.live)
  BY <1>0, ClearDoes
<1>2. m.ptr[v] = Null
  BY DEF Sound, Owned
<1>3. [m.ptr EXCEPT ![v] = Null] = m.ptr
  BY <1>0, <1>2, MemoryParts
<1> HIDE DEF n
<1>4. n \in Memory /\ n.ptr = m.ptr /\ n.live = m.live /\ n.bad = {} /\ n.wild = {}
  BY <1>1, <1>3 DEF Becomes, Sound
<1>5. Sound(n)
  BY <1>4, SoundSame
<1> QED
  BY <1>4, <1>5 DEF n

\* How far a step that began in m has come in n.
Grows(m, n, S, ok) ==
    /\ Sound(n) /\ m.live \subseteq n.live /\ n.live \subseteq m.live \cup S
    /\ ok => n.live = m.live \cup S
    /\ \A v \in Var \ Conn : n.ptr[v] = m.ptr[v]

LEMMA BeganGrows ==
    ASSUME NEW m, Sound(m), NEW S \in SUBSET Sync, NEW r, Began(m, r, S)
    PROVE  Grows(m, r.mem, S, r.ok) /\ r.ok \in BOOLEAN
<1>1. PICK part \in SUBSET S : r.mem = init_sync(m, part) /\ (r.ok => part = S)
  BY DEF Began
<1>2. Sound(r.mem) /\ r.mem.live = m.live \cup part /\ r.mem.ptr = m.ptr
  BY <1>1, SyncSound
<1> QED
  BY <1>1, <1>2 DEF Grows, Began

LEMMA InitialiseGrows ==
    ASSUME prog \in Program, NEW t, NEW i \in 1 .. Steps, NEW m, Sound(m),
           m.live \cap Part(i) = {},
           local[t].ourauth => /\ m.ptr["info.name"] \in m.live
                               /\ m.ptr["info.data"] \in m.live,
           NEW r \in initialise(t, i, m)
    PROVE  Grows(m, r.mem, Part(i), r.ok)
<1>0. i \in {1, 2, 3, 4, 5, 6, 7, 8} /\ m \in Memory
  BY DEF Steps, Sound
<1>1. CASE i = 1
  <2>1. PICK ok \in Ok("fcntl") : r = Result(m, ok)
    BY <1>1 DEF initialise, set_fd_flags
  <2>2. r.mem = m /\ Part(i) = {}
    BY <1>1, <2>1, ResultParts DEF Part
  <2> QED
    BY <2>2 DEF Grows
<1>2. CASE i = 2
  <2>1. Began(m, r, {"iolock"}) /\ Part(i) = {"iolock"}
    BY <1>2, InitOne DEF initialise, Part
  <2> QED
    BY <2>1, BeganGrows DEF Sync
<1>3. CASE i = 3
  <2>1. r \in in_init(m) /\ Part(i) = {"event_cond", "replies"} /\ "replies" \notin m.live
    BY <1>3 DEF initialise, Part
  <2>2. PICK part \in SUBSET {"event_cond"} :
           LET n == init_sync(m, part)
           IN  \/ r.mem = n /\ ~r.ok
               \/ r.mem = clear(n, "replies") /\ ~r.ok
               \/ r.mem = malloc(n, "replies", "replies") /\ part = {"event_cond"}
    BY <2>1, InInitDoes
  <2> DEFINE n == init_sync(m, part)
  <2>3. Sound(n) /\ n.live = m.live \cup part /\ n.ptr = m.ptr
    BY SyncSound DEF Sync
  <2> HIDE DEF n
  <2>4. "replies" \in Conn /\ "replies" \notin n.live /\ n \in Memory
    BY <2>1, <2>3 DEF Conn, Sound
  <2>5. CASE r.mem = n /\ ~r.ok
    BY <2>1, <2>3, <2>5 DEF Grows
  <2>6. CASE r.mem = clear(n, "replies") /\ ~r.ok
    <3>1. Sound(r.mem) /\ r.mem.live = n.live /\ r.mem.ptr = n.ptr
      BY <2>3, <2>4, <2>6, ClearPartSound
    <3> QED
      BY <2>1, <2>3, <2>6, <3>1 DEF Grows
  <2>7. CASE r.mem = malloc(n, "replies", "replies") /\ part = {"event_cond"}
    <3>1. /\ Sound(r.mem) /\ r.mem.live = n.live \cup {"replies"}
          /\ r.mem.ptr = [n.ptr EXCEPT !["replies"] = "replies"]
      BY <2>3, <2>4, <2>7, PartSound
    <3>2. \A v \in Var \ Conn : r.mem.ptr[v] = n.ptr[v]
      BY <2>4, <3>1, MemoryParts
    <3> QED
      BY <2>1, <2>3, <2>7, <3>1, <3>2 DEF Grows
  <2> QED
    BY <2>2, <2>5, <2>6, <2>7 DEF n
<1>4. CASE i = 4
  <2>1. Began(m, r, {"socket_cond", "out_cond", "reqlenlock"})
        /\ Part(i) = {"socket_cond", "out_cond", "reqlenlock"}
    BY <1>4, InitThree DEF initialise, out_init, Part
  <2> QED
    BY <2>1, BeganGrows DEF Sync
<1>5. CASE i = 5
  <2>1. r \in write_setup(t, m) /\ Part(i) = {}
    BY <1>5 DEF initialise, Part
  <2>2. r.mem = IF local[t].ourauth THEN deref(deref(m, "info.name"), "info.data") ELSE m
    BY <2>1, WriteSetupDoes
  <2>3. "info.name" \in Var /\ "info.data" \in Var
    BY AsideVars
  <2>4. local[t].ourauth => deref(m, "info.name") = m /\ deref(m, "info.data") = m
    BY <1>0, <2>3, DerefLive
  <2>5. r.mem = m
    BY <2>2, <2>4
  <2> QED
    BY <2>1, <2>5 DEF Grows
<1>6. CASE i = 6
  <2>1. r \in read_setup(m) /\ Part(i) = {"setup"} /\ "setup" \notin m.live /\ "setup" \in Conn
    BY <1>6 DEF initialise, Part, Conn
  <2>2. /\ r.mem \in {malloc(m, "setup", "setup"), clear(m, "setup")}
        /\ r.ok => r.mem = malloc(m, "setup", "setup")
    BY <2>1, ReadSetupDoes
  <2>3. CASE r.mem = malloc(m, "setup", "setup")
    <3>1. /\ Sound(r.mem) /\ r.mem.live = m.live \cup {"setup"}
          /\ r.mem.ptr = [m.ptr EXCEPT !["setup"] = "setup"]
      BY <2>1, <2>3, PartSound
    <3>2. \A v \in Var \ Conn : r.mem.ptr[v] = m.ptr[v]
      BY <1>0, <2>1, <3>1, MemoryParts
    <3> QED
      BY <2>1, <3>1, <3>2 DEF Grows
  <2>4. CASE r.mem = clear(m, "setup") /\ ~r.ok
    <3>1. Sound(r.mem) /\ r.mem.live = m.live /\ r.mem.ptr = m.ptr
      BY <2>1, <2>4, ClearPartSound
    <3> QED
      BY <2>1, <2>4, <3>1 DEF Grows
  <2> QED
    BY <2>2, <2>3, <2>4
<1>7. CASE i = 7
  <2>1. Began(m, r, {"ext_lock"}) /\ Part(i) = {"ext_lock"}
    BY <1>7, InitOne DEF initialise, Part
  <2> QED
    BY <2>1, BeganGrows DEF Sync
<1>8. CASE i = 8
  <2>1. Began(m, r, {"xid_lock"}) /\ Part(i) = {"xid_lock"}
    BY <1>8, InitOne DEF initialise, Part
  <2> QED
    BY <2>1, BeganGrows DEF Sync
<1> QED
  BY <1>0, <1>1, <1>2, <1>3, <1>4, <1>5, <1>6, <1>7, <1>8

LEMMA AuthBlocks ==
    ASSUME NEW l
    PROVE  /\ Auth(l) \subseteq {"info.name", "info.data"} /\ Auth(l) \cap Sync = {}
           /\ Auth(l) \cap Conn = {} /\ Auth(l) \cap Names = {}
BY DEF Auth, Sync, Conn, Lists, Names

LEMMA LostBlocks ==
    ASSUME NEW l
    PROVE  /\ Lost(l) \subseteq Peers /\ Lost(l) \cap Conn = {} /\ Lost(l) \cap Sync = {}
           /\ Lost(l) \cap Names = {} /\ Names \cap Conn = {} /\ Names \cap Sync = {}
           /\ Conn \cap Sync = {}
BY DEF Lost, Peers, Sync, Conn, Lists, Names

\* From here on the thread is past the initialisation; at done it still has the
\* authorization.
LEMMA DoneTidy ==
    ASSUME NEW n, n.pc = "done", n.mem.bad = {}, n.mem.wild = {} \/ n.c = "error",
           Owned(n.mem, Names), n.c = "c" => Owned(n.mem, Conn),
           n.ourauth => /\ n.mem.ptr["info.name"] = "info.name"
                        /\ n.mem.ptr["info.data"] = "info.data",
           Auth(n) \subseteq n.mem.live, n.c = "c" => ConnectionBlock \subseteq n.mem.live,
           n.mem.live \subseteq Auth(n) \cup (IF n.c = "c" THEN ConnectionBlock ELSE {})
                                \cup Names \cup Lost(n) \cup {"socket_cond"}
    PROVE  Tidy(n)
<1>1. Kept(n) = Auth(n) \cup IF n.c = "c" THEN ConnectionBlock ELSE {}
  BY KeptAt
<1>2. Extra(n) = Names \cup Lost(n) \cup {"socket_cond"}
  BY ExtraAt
<1>3. Points(n)
  BY DEF Points, Connecting, Computing
<1>4. Kept(n) \subseteq n.mem.live /\ n.mem.live \subseteq Kept(n) \cup Extra(n)
  BY <1>1, <1>2
<1> QED
  BY <1>3, <1>4 DEF Tidy

LEMMA ConnectFdTidy ==
    ASSUME Typed, NEW t \in Thread, Progress(local[t]), Tidy(local[t]), connect_to_fd(t)
    PROVE  Tidy(local'[t])
<1> DEFINE l == local[t]
           n == local'[t]
<1>0. LocalsOK
  BY DEF Typed
<1>1. /\ l.pc = "calloc" /\ n.ourauth = l.ourauth /\ n.cred = l.cred
      /\ \/ n.pc = "init" /\ n.mem = malloc(l.mem, "c", "c") /\ n.step = 1 /\ n.c = l.c
         \/ n.pc = "done" /\ n.mem = close(l.mem) /\ n.c = "error"
  BY <1>0, ConnectFdMoves DEF Moves, SameAuth
<1>2. l.pc \in Late /\ l.mem \in Memory
  BY <1>0, <1>1, MemOf DEF Late
<1>3. Kept(l) = {"fd"} \cup Auth(l)
  BY <1>1, KeptAt
<1>4. /\ Sound(l.mem) /\ Pointers(l) /\ l.c = "none" /\ {"fd"} \cup Auth(l) \subseteq l.mem.live
      /\ l.mem.live \subseteq {"fd"} \cup Auth(l) \cup Names \cup Lost(l)
  BY <1>2, <1>3, LateHolds
<1>5. Lost(n) = Lost(l) /\ Auth(n) = Auth(l)
  BY <1>1, SameLost DEF Auth
<1>6. l.ourauth => l.mem.ptr["info.name"] = "info.name" /\ l.mem.ptr["info.data"] = "info.data"
  BY <1>1, <1>4 DEF Pointers
<1>7. l.mem.ptr \in [Var -> Block \cup {Null}] /\ "info.name" \in Var /\ "info.data" \in Var
      /\ "c" \in Conn
  BY <1>2, MemoryParts, AsideVars DEF Conn
<1>8. CASE n.pc = "init" /\ n.mem = malloc(l.mem, "c", "c") /\ n.step = 1 /\ n.c = l.c
  <2>1. "c" \notin l.mem.live
    <3>1. "c" \notin {"fd", "info.name", "info.data"} \cup Names \cup Peers
      BY DEF Names, Peers
    <3> QED
      BY <1>4, <3>1, AuthBlocks, LostBlocks
  <2>2. Sound(n.mem) /\ n.mem.live = l.mem.live \cup {"c"}
        /\ n.mem.ptr = [l.mem.ptr EXCEPT !["c"] = "c"]
    BY <1>4, <1>7, <1>8, <2>1, PartSound
  <2>3. n.ourauth => n.mem.ptr["info.name"] = "info.name" /\ n.mem.ptr["info.data"] = "info.data"
    BY <1>1, <1>6, <1>7, <2>2
  <2>4. n.pc \in Late /\ Pointers(n)
    BY <1>8, <2>3 DEF Late, Pointers, Computing
  <2>5. Kept(n) = {"fd", "c"} \cup Auth(n)
    BY <1>8, KeptAt, AllMade
  <2>6. Kept(n) \subseteq n.mem.live /\ n.mem.live \subseteq Kept(n) \cup Names \cup Lost(n)
    BY <1>4, <1>5, <2>2, <2>5
  <2> QED
    BY <1>4, <1>8, <2>2, <2>4, <2>6, LateTidy
<1>9. CASE n.pc = "done" /\ n.mem = close(l.mem) /\ n.c = "error"
  <2>1. Sound(n.mem) /\ n.mem.live = l.mem.live \ {"fd"}
        /\ n.mem.ptr = [l.mem.ptr EXCEPT !["fd"] = Null]
    BY <1>4, <1>9, CloseSound
  <2>2. n.ourauth => n.mem.ptr["info.name"] = "info.name" /\ n.mem.ptr["info.data"] = "info.data"
    BY <1>1, <1>6, <1>7, <2>1
  <2>3. "fd" \notin Auth(n)
    BY AuthBlocks DEF Conn
  <2>4. Auth(n) \subseteq n.mem.live /\ n.mem.live \subseteq Auth(n) \cup Names \cup Lost(n)
    BY <1>4, <1>5, <2>1, <2>3
  <2> QED
    BY <1>9, <2>1, <2>2, <2>4, DoneTidy DEF Sound
<1> QED
  BY <1>1, <1>8, <1>9

LEMMA StepTidy ==
    ASSUME Typed, NEW t \in Thread, Progress(local[t]), Tidy(local[t]), connect_step(t)
    PROVE  Tidy(local'[t])
<1> DEFINE l == local[t]
           n == local'[t]
           i == l.step
<1>0. LocalsOK /\ prog \in Program
  BY DEF Typed
<1>1. l.pc = "init" /\ i \in 1 .. Steps
  BY DEF connect_step, At, Progress
<1>2. PICK r \in initialise(t, i, l.mem) :
         /\ Moves(t, IF r.ok /\ i < Steps THEN "init" ELSE "done",
                  IF r.ok THEN r.mem ELSE xcb_disconnect(r.mem))
         /\ SameAuth(l, n) /\ n.step = i + 1
         /\ n.c = IF ~r.ok THEN "error" ELSE IF i = Steps THEN "c" ELSE l.c
  BY <1>0, <1>1, StepMoves
<1>3. l.pc \in Late /\ l.mem \in Memory
  BY <1>0, <1>1, MemOf DEF Late
<1>4. Kept(l) = {"fd", "c"} \cup Auth(l) \cup Made(i)
  BY <1>1, KeptAt
<1>5. /\ Sound(l.mem) /\ Pointers(l) /\ l.c = "none" /\ Kept(l) \subseteq l.mem.live
      /\ l.mem.live \subseteq Kept(l) \cup Names \cup Lost(l)
  BY <1>3, LateHolds
<1>6. n.ourauth = l.ourauth /\ Lost(n) = Lost(l) /\ Auth(n) = Auth(l)
  BY <1>2, SameLost DEF Auth, SameAuth
<1>7. l.ourauth => /\ l.mem.ptr["info.name"] = "info.name" /\ l.mem.ptr["info.data"] = "info.data"
                   /\ "info.name" \in l.mem.live /\ "info.data" \in l.mem.live
  BY <1>1, <1>4, <1>5 DEF Pointers, Auth
<1>8. /\ Made(i + 1) = Made(i) \cup Part(i) /\ Part(i) \cap Made(i) = {}
      /\ Part(i) \subseteq Sync \cup {"setup", "replies"}
      /\ Made(i) \subseteq Sync \cup {"setup", "replies"}
  BY <1>1, MadeNext, PartBlocks
<1>9. l.mem.live \cap Part(i) = {}
  <2>1. {"setup", "replies"} \subseteq Conn /\ {"fd", "c"} \cap (Sync \cup {"setup", "replies"}) = {}
    BY DEF Conn, Sync
  <2>2. Part(i) \cap (Auth(l) \cup Names \cup Lost(l)) = {}
    BY <1>8, <2>1, AuthBlocks, LostBlocks
  <2> QED
    BY <1>4, <1>5, <1>8, <2>1, <2>2
<1>10. Grows(l.mem, r.mem, Part(i), r.ok)
  BY <1>0, <1>1, <1>5, <1>7, <1>9, InitialiseGrows
<1>11. "info.name" \in Var \ Conn /\ "info.data" \in Var \ Conn
  BY AsideVars DEF Mine
<1>12. n.ourauth => /\ r.mem.ptr["info.name"] = "info.name"
                    /\ r.mem.ptr["info.data"] = "info.data"
  BY <1>6, <1>7, <1>10, <1>11 DEF Grows
<1>13. r.ok \in BOOLEAN
  BY <1>0, <1>1, <1>3, InitialiseTyped
<1>14. CASE r.ok
  <2>1. n.mem = r.mem /\ Sound(r.mem) /\ r.mem.live = l.mem.live \cup Part(i)
    BY <1>2, <1>10, <1>14 DEF Moves, Grows
  <2>2. CASE i < Steps
    <3>1. n.pc = "init" /\ n.c = "none" /\ n.step = i + 1 /\ n.pc \in Late
      BY <1>1, <1>2, <1>5, <1>14, <2>2 DEF Moves, Late, Steps
    <3>2. Kept(n) = {"fd", "c"} \cup Auth(n) \cup Made(i + 1)
      BY <3>1, KeptAt
    <3>3. Pointers(n)
      BY <1>12, <2>1, <3>1 DEF Pointers, Computing
    <3>4. Kept(n) \subseteq r.mem.live /\ r.mem.live \subseteq Kept(n) \cup Names \cup Lost(n)
      BY <1>4, <1>5, <1>6, <1>8, <2>1, <3>2
    <3> QED
      BY <2>1, <3>1, <3>3, <3>4, LateTidy
  <2>3. CASE i = Steps
    <3>1. n.pc = "done" /\ n.c = "c"
      BY <1>2, <1>14, <2>3 DEF Moves, Steps
    <3>2. ConnectionBlock = {"fd", "c"} \cup Made(i) \cup Part(i)
      BY <1>8, <2>3, AllMade
    <3>3. /\ Auth(n) \cup ConnectionBlock \subseteq r.mem.live
          /\ r.mem.live \subseteq Auth(n) \cup ConnectionBlock \cup Names \cup Lost(n)
      BY <1>4, <1>5, <1>6, <2>1, <3>2
    <3> QED
      BY <1>12, <2>1, <3>1, <3>3, DoneTidy DEF Sound
  <2> QED
    BY <1>1, <2>2, <2>3 DEF Steps
<1>15. CASE ~r.ok
  <2> DEFINE k == xcb_disconnect(r.mem)
  <2>1. n.mem = k /\ n.pc = "done" /\ n.c = "error"
    BY <1>2, <1>15 DEF Moves
  <2>2. /\ Sound(r.mem) /\ l.mem.live \subseteq r.mem.live
        /\ r.mem.live \subseteq l.mem.live \cup Part(i)
    BY <1>10 DEF Grows
  <2>3. Gone(r.mem, k, Released)
    BY <1>4, <1>5, <2>2, Disconnects DEF Sound
  <2> HIDE DEF k
  <2>4. /\ k.bad = {} /\ k.live = r.mem.live \ Released
        /\ \A v \in Var \ {"fd"} : k.ptr[v] = r.mem.ptr[v]
    BY <2>2, <2>3 DEF Gone, Sound
  <2>5. Names \cap Released = {} /\ Names \subseteq Var \ {"fd"}
    BY LostBlocks, MineBlocks DEF Released
  <2>6. Owned(k, Names)
    BY <2>2, <2>4, <2>5 DEF Sound, Owned
  <2>7. n.ourauth => k.ptr["info.name"] = "info.name" /\ k.ptr["info.data"] = "info.data"
    BY <1>11, <1>12, <2>4, ConnBlocks
  <2>8. Auth(n) \cap Released = {}
    BY AuthBlocks DEF Released
  <2>9. Auth(n) \subseteq k.live
    BY <1>4, <1>5, <1>6, <2>2, <2>4, <2>8
  <2>10. {"fd", "c", "setup", "replies"} \subseteq Released /\ Sync \ {"socket_cond"} \subseteq Released
    BY DEF Released, Conn
  <2>11. k.live \subseteq Auth(n) \cup Names \cup Lost(n) \cup {"socket_cond"}
    BY <1>4, <1>5, <1>6, <1>8, <2>2, <2>4, <2>10
  <2> QED
    BY <2>1, <2>4, <2>6, <2>7, <2>9, <2>11, DoneTidy
<1> QED
  BY <1>13, <1>14, <1>15

LEMMA ConnectionBlocks ==
    /\ ConnectionBlock \cap Names = {} /\ ConnectionBlock \subseteq Conn \cup Sync
    /\ ConnectionBlock \cap {"info.name", "info.data"} = {} /\ "c" \in ConnectionBlock
    /\ Sync \subseteq ConnectionBlock /\ ConnectionBlock \cap Lists = {} /\ Lists \subseteq Conn
BY DEF ConnectionBlock, Names, Conn, Sync, Lists

LEMMA FreeAuthTidy ==
    ASSUME Typed, NEW t \in Thread, Progress(local[t]), Tidy(local[t]), free_auth(t)
    PROVE  Tidy(local'[t])
<1> DEFINE l == local[t]
           n == local'[t]
           held == IF l.c = "c" THEN ConnectionBlock ELSE {}
<1>0. LocalsOK
  BY DEF Typed
<1>1. /\ l.pc = "done" /\ n.pc = "out" /\ n.c = l.c /\ n.cred = l.cred
      /\ n.mem = IF l.ourauth THEN frees(l.mem, "info.name", "info.data") ELSE l.mem
  BY <1>0, FreeAuthMoves DEF Goes, Moves, SameAuth, SameConn
<1>2. l.mem \in Memory /\ Lost(n) = Lost(l)
  BY <1>0, <1>1, MemOf, SameLost
<1>3. Kept(l) = Auth(l) \cup held /\ Extra(l) = Names \cup Lost(l) \cup {"socket_cond"}
  BY <1>1, KeptAt, ExtraAt
<1>4. /\ l.mem.bad = {} /\ (l.mem.wild = {} \/ l.c = "error") /\ Auth(l) \cup held \subseteq l.mem.live
      /\ l.mem.live \subseteq Auth(l) \cup held \cup Names \cup Lost(l) \cup {"socket_cond"}
  BY <1>3 DEF Tidy
<1>5. Owned(l.mem, Names) /\ (l.c = "c" => Owned(l.mem, Conn))
      /\ (l.ourauth => /\ l.mem.ptr["info.name"] = "info.name"
                       /\ l.mem.ptr["info.data"] = "info.data")
  BY <1>1 DEF Tidy, Points, Naming
<1>6. /\ n.mem.bad = {} /\ n.mem.wild = l.mem.wild /\ n.mem.ptr = l.mem.ptr
      /\ n.mem.live = l.mem.live \ Auth(l)
  <2>1. CASE ~l.ourauth
    BY <1>1, <1>4, <2>1 DEF Auth
  <2>2. CASE l.ourauth
    <3> DEFINE f == free(l.mem, "info.name")
               g == free(f, "info.data")
    <3>0. "info.name" \in Var /\ "info.data" \in Var /\ Auth(l) = {"info.name", "info.data"}
      BY <2>2, AsideVars DEF Auth
    <3>1. Becomes(l.mem, f, l.mem.ptr, l.mem.live \ {"info.name"})
      BY <1>2, <1>4, <1>5, <2>2, <3>0, FreeLive
    <3>2. f \in Memory /\ f.ptr["info.data"] = "info.data" /\ "info.data" \in f.live
      BY <1>4, <1>5, <2>2, <3>0, <3>1 DEF Becomes
    <3> HIDE DEF f
    <3>3. Becomes(f, g, f.ptr, f.live \ {f.ptr["info.data"]})
      BY <3>0, <3>2, FreeLive
    <3> HIDE DEF g
    <3>4. n.mem = g
      BY <1>1, <2>2 DEF frees, f, g
    <3> QED
      BY <1>4, <3>0, <3>1, <3>2, <3>3, <3>4 DEF Becomes
  <2> QED
    BY <2>1, <2>2
<1>7. held \cap Auth(l) = {} /\ Names \cap Auth(l) = {} /\ Conn \cap Auth(l) = {}
  BY AuthBlocks, ConnectionBlocks
<1>8. Owned(n.mem, Names) /\ (l.c = "c" => Owned(n.mem, Conn))
  BY <1>5, <1>6, <1>7 DEF Owned
<1>9. Kept(n) = held /\ Extra(n) = Names \cup Lost(n) \cup {"socket_cond"}
  BY <1>1, KeptAt, ExtraAt
<1>10. Points(n)
  BY <1>1, <1>8 DEF Points, Naming, Connecting
<1>11. Kept(n) \subseteq n.mem.live /\ n.mem.live \subseteq Kept(n) \cup Extra(n)
  BY <1>2, <1>4, <1>6, <1>7, <1>9
<1> QED
  BY <1>1, <1>4, <1>6, <1>10, <1>11 DEF Tidy

LEMMA OutTidy ==
    ASSUME Typed, NEW t \in Thread, Progress(local[t]), Tidy(local[t]), out(t)
    PROVE  Tidy(local'[t])
<1> DEFINE l == local[t]
           n == local'[t]
           held == IF l.c = "c" THEN ConnectionBlock ELSE {}
           f == free(l.mem, "host")
           g == free(f, "protocol")
<1>0. LocalsOK
  BY DEF Typed
<1>1. /\ l.pc = "out" /\ n.pc = "returned" /\ n.mem = g /\ n.cred = l.cred
      /\ n.c = IF l.c = "none" THEN "error" ELSE l.c
  BY <1>0, OutMoves DEF Moves, SameAuth, frees
<1>2. l.mem \in Memory /\ Lost(n) = Lost(l)
  BY <1>0, <1>1, MemOf, SameLost
<1>3. Kept(l) = held /\ Extra(l) = Names \cup Lost(l) \cup {"socket_cond"}
  BY <1>1, KeptAt, ExtraAt
<1>4. /\ l.mem.bad = {} /\ (l.mem.wild = {} \/ l.c = "error") /\ held \subseteq l.mem.live
      /\ l.mem.live \subseteq held \cup Names \cup Lost(l) \cup {"socket_cond"}
  BY <1>3 DEF Tidy
<1>5. Owned(l.mem, Names) /\ (l.c = "c" => Owned(l.mem, Conn))
  BY <1>1 DEF Tidy, Points, Naming
<1>6. Names \subseteq Var \cap Block /\ "host" \in Names /\ "protocol" \in Names \ {"host"}
      /\ Names = {"host", "protocol"}
  BY MineBlocks DEF Names
<1>7. Becomes(l.mem, f, l.mem.ptr, l.mem.live \ {"host"}) /\ Owned(f, Names \ {"host"})
  BY <1>2, <1>5, <1>6, FreeOwned
<1>8. f \in Memory /\ Names \ {"host"} \subseteq Var \cap Block
  BY <1>6, <1>7 DEF Becomes
<1>9. Becomes(f, g, f.ptr, f.live \ {"protocol"})
  BY <1>6, <1>7, <1>8, FreeOwned
<1> HIDE DEF f, g
<1>10. g.bad = {} /\ g.wild = l.mem.wild /\ g.ptr = l.mem.ptr /\ g.live = l.mem.live \ Names
  BY <1>4, <1>6, <1>7, <1>9 DEF Becomes
<1>11. held \cap Names = {} /\ Conn \cap Names = {}
  BY ConnectionBlocks, LostBlocks
<1>12. l.c = "c" => Owned(g, Conn)
  BY <1>5, <1>10, <1>11 DEF Owned
<1>13. Kept(n) = held /\ Extra(n) = Lost(n) \cup {"socket_cond"}
  BY <1>1, KeptAt, ExtraAt
<1>14. Points(n)
  BY <1>1, <1>12 DEF Points, Naming, Connecting
<1>15. Kept(n) \subseteq g.live /\ g.live \subseteq Kept(n) \cup Extra(n)
  BY <1>2, <1>4, <1>10, <1>11, <1>13
<1> QED
  BY <1>1, <1>4, <1>10, <1>14, <1>15 DEF Tidy

LEMMA UseTidy ==
    ASSUME Typed, NEW t \in Thread, Progress(local[t]), Tidy(local[t]), use(t)
    PROVE  Tidy(local'[t])
<1> DEFINE l == local[t]
           n == local'[t]
<1>0. LocalsOK
  BY DEF Typed
<1>1. l.pc = "returned" /\ l.c = "c"
  BY <1>0, UseMoves
<1>2. PICK S \in SUBSET Lists : Goes(t, "used", malloc_all(l.mem, S))
  BY <1>0, UseMoves
<1>3. n.pc = "used" /\ n.mem = malloc_all(l.mem, S) /\ n.c = "c" /\ n.cred = l.cred
  BY <1>1, <1>2 DEF Goes, Moves, SameAuth, SameConn
<1>4. l.mem \in Memory /\ Lost(n) = Lost(l)
  BY <1>0, <1>3, MemOf, SameLost
<1>5. Kept(l) = ConnectionBlock /\ Extra(l) = Lost(l) \cup {"socket_cond"}
  BY <1>1, KeptAt, ExtraAt
<1>6. /\ l.mem.bad = {} /\ l.mem.wild = {} /\ ConnectionBlock \subseteq l.mem.live
      /\ l.mem.live \subseteq ConnectionBlock \cup Lost(l) \cup {"socket_cond"}
  BY <1>1, <1>5 DEF Tidy
<1>7. Owned(l.mem, Conn)
  BY <1>1 DEF Tidy, Points
<1>8. "socket_cond" \in Sync
  BY DEF Sync
<1>9. l.mem.live \cap S = {}
  BY <1>6, <1>8, ConnectionBlocks, LostBlocks
<1>10. Becomes(l.mem, n.mem, [v \in Var |-> IF v \in S THEN v ELSE l.mem.ptr[v]],
               l.mem.live \cup S)
  BY <1>3, <1>4, <1>9, MallocAllFresh
<1>11. Conn \subseteq Var
  BY ConnBlocks
<1>12. Owned(n.mem, Conn)
  BY <1>7, <1>10, <1>11 DEF Becomes, Owned
<1>13. Kept(n) = ConnectionBlock /\ Extra(n) = Lost(n) \cup Lists
  BY <1>3, KeptAt, ExtraAt
<1>14. Points(n)
  BY <1>3, <1>12 DEF Points, Naming, Connecting
<1>15. /\ n.mem.bad = {} /\ n.mem.wild = {} /\ n.mem.live = l.mem.live \cup S
  BY <1>6, <1>10 DEF Becomes
<1>16. Kept(n) \subseteq n.mem.live /\ n.mem.live \subseteq Kept(n) \cup Extra(n)
  BY <1>4, <1>6, <1>8, <1>13, <1>15, ConnectionBlocks
<1> QED
  BY <1>3, <1>14, <1>15, <1>16 DEF Tidy

LEMMA DisconnectTidy ==
    ASSUME Typed, NEW t \in Thread, Progress(local[t]), Tidy(local[t]), disconnect(t)
    PROVE  Tidy(local'[t])
<1> DEFINE l == local[t]
           n == local'[t]
<1>0. LocalsOK
  BY DEF Typed
<1>1. /\ l.pc \in {"returned", "used"} /\ n.pc = "closed" /\ n.c = l.c /\ n.cred = l.cred
      /\ n.mem = IF l.c = "c" THEN xcb_disconnect(l.mem) ELSE l.mem
  BY <1>0, DisconnectMoves DEF Goes, Moves, SameAuth, SameConn
<1>2. l.mem \in Memory /\ Lost(n) = Lost(l)
  BY <1>0, <1>1, MemOf, SameLost
<1>3. Kept(n) = {} /\ Extra(n) = Lost(n) \cup {"socket_cond"}
  BY <1>1, KeptAt, ExtraAt
<1>4. Points(n)
  BY <1>1 DEF Points, Naming, Connecting
<1>5. CASE l.c = "c"
  <2> DEFINE k == xcb_disconnect(l.mem)
  <2>1. Kept(l) = ConnectionBlock /\ Extra(l) \subseteq Lost(l) \cup {"socket_cond"} \cup Lists
    BY <1>1, <1>5, KeptAt, ExtraAt
  <2>2. /\ l.mem.bad = {} /\ l.mem.wild = {} /\ ConnectionBlock \subseteq l.mem.live
        /\ l.mem.live \subseteq ConnectionBlock \cup Lost(l) \cup {"socket_cond"} \cup Lists
    BY <1>5, <2>1 DEF Tidy
  <2>3. Owned(l.mem, Conn)
    BY <1>1, <1>5 DEF Tidy, Points
  <2>4. Gone(l.mem, k, Released)
    BY <1>2, <2>2, <2>3, ConnectionBlocks, Disconnects
  <2> HIDE DEF k
  <2>5. /\ k.bad = {} /\ k.live = l.mem.live \ Released
        /\ k.wild = (Released \cap Sync) \ l.mem.live
    BY <2>2, <2>4 DEF Gone
  <2>6. k.wild = {}
    BY <2>2, <2>5, ConnectionBlocks
  <2>7. k.live \subseteq Lost(l) \cup {"socket_cond"}
    BY <2>2, <2>5, ConnectionBlocks DEF Released
  <2> QED
    BY <1>1, <1>2, <1>3, <1>4, <1>5, <2>5, <2>6, <2>7 DEF Tidy, k
<1>6. CASE l.c # "c"
  <2>1. l.pc = "returned"
    BY <1>1, <1>6 DEF Progress
  <2>2. Kept(l) = {} /\ Extra(l) = Lost(l) \cup {"socket_cond"}
    BY <1>6, <2>1, KeptAt, ExtraAt
  <2> QED
    BY <1>1, <1>2, <1>3, <1>4, <1>6, <2>2 DEF Tidy
<1> QED
  BY <1>5, <1>6

LEMMA TidyStep ==
    ASSUME Typed, NEW t \in Thread, Progress(local[t]), Tidy(local[t]), Acts(t),
           "vanish" \notin prog.faults
    PROVE  Tidy(local'[t])
BY ParseTidy, FreeHostTidy, OpenTidy, TryTidy, SuppliedTidy, PeerNameTidy, OwnNameTidy,
   GetAuthptrTidy, OwnAgainTidy, ComputeTidy, NonceTidy, ConnectFdTidy, StepTidy, FreeAuthTidy,
   OutTidy, UseTidy, DisconnectTidy DEF Acts
-----------------------------------------------------------------------------
(* Everything is released, once                                            *)

MemoryInv == "vanish" \notin prog.faults => TidyInv

LEMMA MemoryInit == Init => MemoryInv
<1> SUFFICES ASSUME Init, NEW t \in Thread PROVE Tidy(local[t])
  BY DEF MemoryInv, TidyInv
<1> DEFINE l == local[t]
<1>1. l = Start(t)
  BY DEF Init
<1>2. /\ l.mem = [ptr |-> [v \in Var |-> Null], live |-> {}, bad |-> {}, wild |-> {}]
      /\ l.c = "none" /\ l.ourauth = FALSE
  <2>1. /\ Start(t).mem = [ptr |-> [v \in Var |-> Null], live |-> {}, bad |-> {}, wild |-> {}]
        /\ Start(t).c = "none" /\ Start(t).ourauth = FALSE
    BY Zenon DEF Start
  <2> QED
    BY <1>1, <2>1
<1>3. l.pc = IF t \in prog.threads THEN "start" ELSE "closed"
  <2>1. Start(t).pc = IF t \in prog.threads THEN "start" ELSE "closed"
    BY Zenon DEF Start
  <2> QED
    BY <1>1, <2>1
<1>4. /\ l.mem.live = {} /\ l.mem.bad = {} /\ l.mem.wild = {}
      /\ l.mem.ptr = [v \in Var |-> Null]
  BY <1>2
<1>5. Owned(l.mem, Names) /\ Owned(l.mem, Conn)
  <2>1. Names \subseteq Var /\ Conn \subseteq Var
    BY MineBlocks
  <2> QED
    BY <1>4, <2>1 DEF Owned
<1>6. Kept(l) = {}
  BY <1>3, KeptAt
<1>7. Points(l)
  BY <1>2, <1>3, <1>5 DEF Points, Naming, Connecting
<1> QED
  BY <1>4, <1>6, <1>7 DEF Tidy

LEMMA MemoryNext == BaseInv /\ MemoryInv /\ [Next]_vars => MemoryInv'
<1> SUFFICES ASSUME BaseInv, MemoryInv, [Next]_vars, "vanish" \notin prog'.faults,
                    NEW u \in Thread
             PROVE  Tidy(local'[u])
  BY DEF MemoryInv, TidyInv, Tidy, Points, Extra, Kept, Lost, Auth, Owned, Made
<1>1. CASE Next
  <2>1. PICK t \in Thread : Acts(t)
    BY <1>1, NextActs
  <2>2. prog' = prog
    BY <2>1, ProgNeverChanges
  <2>3. Typed /\ Progress(local[t]) /\ Tidy(local[t]) /\ Tidy(local[u])
    BY <2>2 DEF BaseInv, ProgressInv, MemoryInv, TidyInv
  <2>4. Tidy(local'[t])
    BY <2>1, <2>2, <2>3, TidyStep
  <2>5. Moved(t)
    BY <2>1, <2>3, ProgressStep
  <2>6. CASE u = t
    BY <2>4, <2>6
  <2>7. CASE u # t
    BY <2>3, <2>5, <2>7 DEF Moved
  <2> QED
    BY <2>6, <2>7
<1>2. CASE UNCHANGED vars
  BY <1>2 DEF vars, MemoryInv, TidyInv
<1> QED
  BY <1>1, <1>2

LEMMA MemoryAlways == Spec => [](BaseInv /\ MemoryInv)
<1>1. Init => BaseInv /\ MemoryInv
  BY BaseInit, MemoryInit
<1>2. BaseInv /\ MemoryInv /\ [Next]_vars => BaseInv' /\ MemoryInv'
  BY BaseNext, MemoryNext
<1> QED
  BY <1>1, <1>2, PTL DEF Spec

\* Whatever fails on the way to a connection, no block is freed twice, used
\* after it was freed or allocated over, the authorization outlives
\* write_setup, and only the xcb_disconnect of a setup that failed destroys an
\* object that was never initialised; unless the second call of
\* get_peer_sock_name fails, which frees a block realloc has taken away.
THEOREM AlwaysReleasedOnce == Spec => []("vanish" \notin prog.faults => ReleasedOnce)
<1>1. MemoryInv => ("vanish" \notin prog.faults => ReleasedOnce)
  BY DEF MemoryInv, TidyInv, Tidy, ReleasedOnce, Mem
<1> QED
  BY <1>1, MemoryAlways, PTL

\* When the call has failed, or the connection was closed, nothing is left of
\* what any of the functions on the way allocated or opened, but for what the
\* code forgets (Forgotten); a connection that was made holds its own parts,
\* all of them, and nothing else.
THEOREM NeverLeaks == Spec => []("vanish" \notin prog.faults => NothingLeaks)
<1>1. ASSUME MemoryInv, "vanish" \notin prog.faults PROVE NothingLeaks
  <2> SUFFICES ASSUME NEW t \in Thread
               PROVE  LET rest == Mem(t).live \ Forgotten(t)
                      IN  /\ At(t, "closed") => rest = {}
                          /\ At(t, "returned") /\ local[t].c = "error" => rest = {}
                          /\ At(t, "returned") /\ local[t].c = "c" =>
                                rest = ConnectionBlock \ Forgotten(t)
    BY DEF NothingLeaks
  <2> DEFINE l == local[t]
  <2>1. Kept(l) \subseteq l.mem.live /\ l.mem.live \subseteq Kept(l) \cup Extra(l)
    BY <1>1 DEF MemoryInv, TidyInv, Tidy
  <2>2. Forgotten(t) = Lost(l) \cup {"socket_cond"}
    BY DEF Forgotten, Lost, Peers
  <2>3. l.pc \in {"closed", "returned"} => Extra(l) = Lost(l) \cup {"socket_cond"}
    BY ExtraAt
  <2>4. l.pc = "closed" => Kept(l) = {}
    BY KeptAt
  <2>5. l.pc = "returned" => Kept(l) = IF l.c = "c" THEN ConnectionBlock ELSE {}
    BY KeptAt
  <2> QED
    BY <2>1, <2>2, <2>3, <2>4, <2>5 DEF At, Mem
<1> QED
  BY <1>1, MemoryAlways, PTL
-----------------------------------------------------------------------------
(* The server                                                              *)

Opened == Asking \cup Computing \cup {"calloc", "init", "done"}

\* An action that neither connects nor hears from the server.
Stays(t) ==
    LET l == local[t]
        n == local'[t]
    IN  /\ n.peer = l.peer /\ n.answer = l.answer /\ n.pc \notin {"start", "init"}
        /\ n.c = l.c \/ n.c = "error"
        /\ n.step = l.step /\ (n.pc \in Opened => l.pc \in Opened)

LEMMA FoundAfter ==
    ASSUME Typed, NEW t \in Thread, Acts(t), Progress(local[t])
    PROVE  \/ Stays(t)
           \/ \E p \in prog.listens :
                /\ local'[t].pc = "auth" /\ local'[t].peer = p /\ local'[t].step = 0
                /\ local'[t].c = "none"
           \/ connect_to_fd(t) /\ local'[t].pc = "init"
           \/ connect_step(t)
<1> DEFINE l == local[t]
           n == local'[t]
<1>0. LocalsOK /\ prog \in Program /\ nonce \in Nat
  BY DEF Typed
<1>1. ASSUME NEW x \in Label \ {"start", "init"}, NEW m, Goes(t, x, m),
             x \in Opened => l.pc \in Opened
      PROVE  Stays(t)
  BY <1>1 DEF Goes, Moves, SamePlace, SameConn, Stays
<1>2. ASSUME NEW x \in Label \ {"start", "init"}, NEW m, NEW a, Credits(t, x, m, a),
             x \in Opened => l.pc \in Opened
      PROVE  Stays(t)
  BY <1>2 DEF Credits, Moves, SamePlace, SameConn, Stays
<1>3. ASSUME NEW p, NEW m, Reaches(t, p, m), l.pc \in Opening
      PROVE  /\ p \in prog.listens /\ n.pc = "auth" /\ n.peer = p /\ n.step = 0
             /\ n.c = "none"
  <2>1. l.c = "none" /\ l.step = 0
    BY <1>3 DEF Progress, Opening, Connecting
  <2> QED
    BY <1>3, <2>1 DEF Reaches, Moves, SameConn
<1> USE DEF Opened, Asking, Computing, Label
<1>5. CASE parse_display(t)
  BY <1>0, <1>5, ParseMoves DEF Moves, SameConn, Stays
<1>6. CASE free_host(t)
  BY <1>0, <1>1, <1>6, FreeHostMoves
<1>7. CASE open_tcp(t)
  BY <1>0, <1>7, OpenTcpMoves DEF Goes, Moves, SamePlace, SameConn, Stays
<1>8. CASE try_address(t)
  <2>1. l.pc = "tcp" /\ l.pc \in Opening
    BY <1>0, <1>8, TryMoves DEF Opening
  <2>2. \/ Stays(t)
        \/ \E p, m : Reaches(t, p, m)
    BY <1>0, <1>8, TryMoves DEF Goes, Moves, SamePlace, SameConn, Stays
  <2> QED
    BY <1>3, <2>1, <2>2
<1>9. CASE open_unix(t)
  BY <1>0, <1>1, <1>9, OpenUnixMoves
<1>10. CASE open_abstract(t)
  <2>1. l.pc = "abstract" /\ l.pc \in Opening
    BY <1>0, <1>10, OpenAbstractMoves DEF Opening
  <2>2. \/ Stays(t)
        \/ \E p, m : Reaches(t, p, m)
    BY <1>0, <1>1, <1>10, OpenAbstractMoves
  <2> QED
    BY <1>3, <2>1, <2>2
<1>11. CASE open_path(t)
  <2>1. l.pc = "path" /\ l.pc \in Opening
    BY <1>0, <1>11, OpenPathMoves DEF Opening
  <2>2. \/ Stays(t)
        \/ \E p, m : Reaches(t, p, m)
    BY <1>0, <1>1, <1>11, OpenPathMoves
  <2> QED
    BY <1>3, <2>1, <2>2
<1>12. CASE use_supplied(t)
  BY <1>0, <1>2, <1>12, SuppliedMoves
<1>13. CASE peer_name(t)
  BY <1>0, <1>13, PeerNameMoves DEF Goes, Moves, SamePlace, SameConn, Stays
<1>14. CASE own_name(t)
  BY <1>0, <1>14, OwnNameMoves DEF Goes, Moves, SamePlace, SameConn, Stays
<1>15. CASE get_authptr(t)
  <2>1. l.pc = "authptr"
    BY <1>0, <1>15, GetAuthptrMoves
  <2>2. \/ \E m : Goes(t, "calloc", m)
        \/ \E m, a : Credits(t, "compute", m, a)
        \/ \E m, a : Credits(t, "own_again", m, a)
    BY <1>0, <1>15, GetAuthptrMoves
  <2> QED
    BY <1>1, <1>2, <2>1, <2>2
<1>16. CASE own_again(t)
  BY <1>0, <1>1, <1>16, OwnAgainMoves
<1>17. CASE compute_auth(t)
  <2>1. l.pc = "compute"
    BY <1>0, <1>17, ComputeMoves
  <2>2. \/ \E m : Goes(t, "calloc", m)
        \/ \E m, from : Granted(t, m, from)
        \/ \E m : Goes(t, "nonce", m)
    BY <1>0, <1>17, ComputeMoves
  <2> QED
    BY <1>1, <1>2, <2>1, <2>2 DEF Granted
<1>18. CASE read_nonce(t)
  BY <1>0, <1>2, <1>18, ReadNonceMoves
<1>19. CASE next_nonce(t)
  BY <1>0, <1>2, <1>19, NextNonceMoves DEF Granted
<1>20. CASE connect_to_fd(t)
  BY <1>0, <1>20, ConnectFdMoves DEF Moves, SamePlace, Stays
<1>21. CASE connect_step(t)
  BY <1>21
<1>22. CASE free_auth(t)
  BY <1>0, <1>1, <1>22, FreeAuthMoves
<1>23. CASE out(t)
  BY <1>0, <1>23, OutMoves DEF Moves, SamePlace, Stays
<1>24. CASE use(t)
  BY <1>0, <1>1, <1>24, UseMoves
<1>25. CASE disconnect(t)
  BY <1>0, <1>1, <1>25, DisconnectMoves
<1> QED
  BY <1>5, <1>6, <1>7, <1>8, <1>9, <1>10, <1>11, <1>12, <1>13, <1>14, <1>15, <1>16, <1>17,
     <1>18, <1>19, <1>20, <1>21, <1>22, <1>23, <1>24, <1>25 DEF Acts

\* What the server answered is recorded when step 6 has read it.
LEMMA StepAnswers ==
    ASSUME prog \in Program, NEW t, NEW i \in 1 .. Steps, NEW m, NEW r \in initialise(t, i, m)
    PROVE  i = 6 /\ r.ok => Accepts
<1> SUFFICES ASSUME i = 6, r.ok PROVE Accepts
  OBVIOUS
<1>1. r \in read_setup(m)
  BY DEF initialise
<1> QED
  BY <1>1, ReadSetupDoes

LEMMA FoundStep ==
    ASSUME Typed, NEW t \in Thread, Progress(local[t]), Found(local[t]), Acts(t)
    PROVE  Found(local'[t])
<1> DEFINE l == local[t]
           n == local'[t]
<1>0. LocalsOK /\ prog \in Program
  BY DEF Typed
<1>1. l \in Local /\ l.step \in 0 .. Steps + 1 /\ Opened = Asking \cup Computing \cup {"calloc", "init", "done"}
  BY <1>0, MemOf DEF Local, Opened
<1>2. CASE Stays(t)
  BY <1>1, <1>2 DEF Found, Stays
<1>3. ASSUME NEW p \in prog.listens, n.pc = "auth", n.peer = p, n.step = 0, n.c = "none"
      PROVE  Found(n)
  <2>1. p # "none"
    BY <1>0 DEF Program, LocalPlace, Address, Six
  <2> QED
    BY <1>3, <2>1 DEF Found
<1>4. CASE connect_to_fd(t) /\ n.pc = "init"
  <2>1. l.pc = "calloc" /\ n.peer = l.peer /\ n.step = 1
    BY <1>0, <1>4, ConnectFdMoves DEF Moves, SamePlace
  <2> QED
    BY <1>1, <1>4, <2>1 DEF Found
<1>5. CASE connect_step(t)
  <2>1. l.pc = "init" /\ l.step \in 1 .. Steps /\ l.c = "none"
    BY <1>5 DEF connect_step, At, Progress, Connecting
  <2>2. PICK r \in initialise(t, l.step, l.mem) :
           /\ n.peer = l.peer /\ n.step = l.step + 1
           /\ n.answer = IF l.step = 6 /\ r.ok THEN prog.answer ELSE l.answer
           /\ n.c = IF ~r.ok THEN "error" ELSE IF l.step = Steps THEN "c" ELSE l.c
    BY <1>0, <1>5, <2>1, StepMoves DEF SamePlace
  <2>3. n.peer # "none" /\ n.peer \in prog.listens
    BY <2>1, <2>2 DEF Found
  <2>4. ASSUME n.step > 6, n.c # "error" PROVE n.answer = [status |-> 1, length |-> 1]
    <3>1. CASE l.step = 6
      BY <1>0, <2>1, <2>2, <2>4, <3>1, StepAnswers DEF Accepts
    <3>2. CASE l.step # 6
      <4>1. l.step > 6
        BY <2>1, <2>2, <2>4, <3>2
      <4> QED
        BY <2>1, <2>2, <3>2, <4>1 DEF Found
    <3> QED
      BY <3>1, <3>2
  <2> QED
    BY <2>3, <2>4 DEF Found
<1> QED
  BY <1>2, <1>3, <1>4, <1>5, FoundAfter

LEMMA FoundInit == Init => FoundInv
<1> SUFFICES ASSUME Init, NEW t \in Thread PROVE Found(local[t])
  BY DEF FoundInv
<1>1. local[t] = Start(t)
  BY DEF Init
<1>2. Start(t).peer = "none" /\ Start(t).step = 0 /\ Start(t).c = "none"
  BY Zenon DEF Start
<1>3. Start(t).pc = IF t \in prog.threads THEN "start" ELSE "closed"
  BY Zenon DEF Start
<1> QED
  BY <1>1, <1>2, <1>3 DEF Found, Asking, Computing

LEMMA FoundNext == BaseInv /\ FoundInv /\ [Next]_vars => FoundInv'
<1> SUFFICES ASSUME BaseInv, FoundInv, [Next]_vars, NEW u \in Thread
             PROVE  (Found(local[u]))'
  BY DEF FoundInv
<1>1. CASE Next
  <2>1. PICK t \in Thread : Acts(t)
    BY <1>1, NextActs
  <2>2. prog' = prog
    BY <2>1, ProgNeverChanges
  <2>3. Typed /\ Progress(local[t]) /\ Found(local[t]) /\ Found(local[u])
    BY DEF BaseInv, ProgressInv, FoundInv
  <2>4. Found(local'[t])
    BY <2>1, <2>3, FoundStep
  <2>5. Moved(t)
    BY <2>1, <2>3, ProgressStep
  <2>6. Found(local'[u])
    <3>1. CASE u = t
      BY <2>4, <3>1
    <3>2. CASE u # t
      BY <2>3, <2>5, <3>2 DEF Moved
    <3> QED
      BY <3>1, <3>2
  <2> QED
    BY <2>2, <2>6 DEF Found
<1>2. CASE UNCHANGED vars
  <2>1. Found(local[u]) /\ local' = local /\ prog' = prog
    BY <1>2 DEF vars, FoundInv
  <2> QED
    BY <2>1 DEF Found
<1> QED
  BY <1>1, <1>2

LEMMA FoundAlways == Spec => [](BaseInv /\ FoundInv)
<1>1. Init => BaseInv /\ FoundInv
  BY BaseInit, FoundInit
<1>2. BaseInv /\ FoundInv /\ [Next]_vars => BaseInv' /\ FoundInv'
  BY BaseNext, FoundNext
<1> QED
  BY <1>1, <1>2, PTL DEF Spec

\* xcb_connect returns a connection only to a server that listens there and
\* has accepted the setup, and with every part of it initialised.
THEOREM AlwaysConnectedWhole == Spec => []("vanish" \notin prog.faults => ConnectedWhole)
<1>1. ASSUME BaseInv, FoundInv, MemoryInv, "vanish" \notin prog.faults
      PROVE  ConnectedWhole
  <2> SUFFICES ASSUME NEW t \in Thread, At(t, "returned"), local[t].c = "c"
               PROVE  /\ local[t].answer = [status |-> 1, length |-> 1]
                      /\ ConnectionBlock \subseteq Mem(t).live
                      /\ local[t].peer \in prog.listens
    BY DEF ConnectedWhole
  <2>1. Progress(local[t]) /\ Found(local[t]) /\ Tidy(local[t])
    BY <1>1 DEF BaseInv, ProgressInv, FoundInv, MemoryInv, TidyInv
  <2>2. local[t].step = 9
    BY <2>1 DEF Progress, Steps
  <2>3. Kept(local[t]) = ConnectionBlock
    BY KeptAt DEF At
  <2> QED
    BY <2>1, <2>2, <2>3 DEF Found, Tidy, Mem
<1> QED
  BY <1>1, FoundAlways, MemoryAlways, PTL
-----------------------------------------------------------------------------
(* The authorization                                                       *)

\* get_authptr looks under the family the entry for the server is filed under.
LEMMA FamilyFiled ==
    ASSUME NEW p \in LocalPlace \cup Address
    PROVE  family(p) = Filed(p)
BY DEF LocalPlace, Address, Six, Mapped, Loopback, family, Filed

LEMMA EntryTyped ==
    ASSUME prog \in Program, NEW p
    PROVE  LET e == prog.xauth[Filed(p)]
           IN  e = NoEntry \/ (e.name \in {"MC1", "XA1"} /\ e.len \in 0 .. 1)
<1>1. Filed(p) \in Family
  BY DEF Filed, Family
<1>2. prog.xauth \in [Family -> Entry]
  BY DEF Program
<1>3. prog.xauth[Filed(p)] \in Entry
  BY <1>1, <1>2
<1> QED
  BY <1>3 DEF Entry

\* If nothing fails, get_peer_sock_name returns a name.
LEMMA SockNameFound ==
    ASSUME NEW m \in Memory, NEW first \in Block, NEW longer, prog.faults = {},
           NEW n \in peer_sock_name(m, first, longer)
    PROVE  n.ptr["sockname"] # Null
<1> DEFINE m1 == malloc(m, "name", first)
<1>0. "name" \in Var /\ "sockname" \in Var
  BY DEF Var
<1>1. n = assign(m1, "sockname", "name")
  BY DEF peer_sock_name, May
<1>2. m1 \in Memory
  BY <1>0, OpsTyped
<1>3. m1.ptr["name"] = first
  BY <1>0 DEF malloc, Memory
<1> HIDE DEF m1
<1>4. n.ptr = [m1.ptr EXCEPT !["sockname"] = first]
  BY <1>0, <1>1, <1>2, <1>3, AssignDoes DEF Becomes
<1>5. n.ptr["sockname"] = first
  BY <1>0, <1>2, <1>4, MemoryParts
<1> QED
  BY <1>5, AsideVars

\* A copy that is made is not NULL.
LEMMA MemdupFound ==
    ASSUME NEW m \in Memory, NEW v \in Var, NEW len, len > 0
    PROVE  memdup(m, v, len, TRUE).ptr[v] = v
BY DEF memdup, malloc, Memory

\* Authorization is a matter from the peer's name to xcb_connect_to_fd.
LEMMA AuthorizedEarly ==
    ASSUME NEW n, n.step = 0, n.pc \in Opening \cup {"auth", "out", "closed", "returned"}
    PROVE  Authorized(n)
BY DEF Authorized, Opening, Computing

LEMMA AuthorizedLate ==
    ASSUME NEW l, NEW n, Authorized(l), n.pc \in {"done", "out", "returned", "used", "closed"},
           n.peer = l.peer, n.cred = l.cred, n.sent = l.sent, n.step = l.step,
           n.c # "error" => l.c # "error"
    PROVE  Authorized(n)
BY DEF Authorized, Computing, Good, EntryFor

\* Back from _xcb_get_auth_info.
LEMMA AuthorizedBack ==
    ASSUME NEW n, n.step = 0, n.pc = "calloc", prog.supplied \/ Good(n, n.cred)
    PROVE  Authorized(n)
BY DEF Authorized, Computing

\* Without authorization, which is all right if something failed or the entry
\* is of no use.
LEMMA GoodNone ==
    ASSUME NEW n, n.cred.from = "none",
           prog.faults = {} => EntryFor(n).name # "XA1" /\ ~(EntryFor(n).len > 0)
    PROVE  Good(n, n.cred)
BY DEF Good

LEMMA GetAuthptrAuthorized ==
    ASSUME Typed, NEW t \in Thread, Progress(local[t]), Found(local[t]), Authorized(local[t]),
           get_authptr(t)
    PROVE  Authorized(local'[t])
<1> DEFINE l == local[t]
           n == local'[t]
           f == family(l.peer)
           m == deref(l.mem, "sockname")
           a == malloc(m, "authptr", "authptr")
           d(ok) == memdup(a, "info.name", 1, ok)
<1>0. LocalsOK /\ prog \in Program
  BY DEF Typed
<1>1. l.pc = "authptr" /\ l.pc \in Opening \cup Asking /\ l.mem \in Memory /\ l \in Local
  BY <1>0, GetAuthptrMoves, MemOf DEF Asking
<1>2. l.step = 0 /\ l.cred = NoCred /\ NoCred.from = "none" /\ l.c = "none" /\ ~prog.supplied
  BY <1>1 DEF Progress, NoCred, Connecting, Authorized
<1>3. l.peer # "none" /\ l.peer \in LocalPlace \cup Address
  BY <1>1 DEF Found, Asking, Local
<1>4. f = Filed(l.peer)
  BY <1>3, FamilyFiled
<1>5. \/ /\ prog.faults = {} => prog.xauth[f] = NoEntry
         /\ Goes(t, "calloc", free(m, "sockname"))
      \/ /\ prog.xauth[f] # NoEntry
         /\ \E ok \in BOOLEAN :
              /\ prog.faults = {} => ok
              /\ \/ /\ d(ok).ptr["info.name"] = Null
                    /\ Goes(t, "calloc", no_auth(d(ok)))
                 \/ /\ d(ok).ptr["info.name"] # Null
                    /\ Credits(t, IF l.gotsockname THEN "compute" ELSE "own_again",
                               d(ok), [NoCred EXCEPT !.family = f])
                    /\ local'[t].ourauth = l.ourauth
  BY <1>0, GetAuthptrMoves
<1> HIDE DEF f
<1>6. ASSUME NEW k, Goes(t, "calloc", k), prog.faults = {} => prog.xauth[f] = NoEntry
      PROVE  Authorized(n)
  <2>1. n.pc = "calloc" /\ n.step = 0 /\ n.cred = NoCred /\ n.peer = l.peer
    BY <1>2, <1>6 DEF Goes, Moves, SamePlace, SameAuth, SameConn
  <2>2. prog.faults = {} => EntryFor(n).name # "XA1" /\ ~(EntryFor(n).len > 0)
    BY <1>4, <1>6, <2>1 DEF EntryFor, NoEntry
  <2> QED
    BY <1>2, <2>1, <2>2, GoodNone, AuthorizedBack
<1>7. ASSUME NEW ok \in BOOLEAN, prog.faults = {} => ok, d(ok).ptr["info.name"] = Null
      PROVE  prog.faults # {}
  <2>1. a \in Memory
    BY <1>1, AsideVars, OpsTyped
  <2> HIDE DEF a
  <2>2. memdup(a, "info.name", 1, TRUE).ptr["info.name"] = "info.name"
    <3>1. "info.name" \in Var /\ 1 > 0
      BY AsideVars
    <3> QED
      BY <2>1, <3>1, MemdupFound, Zenon
  <2> QED
    BY <1>7, <2>2 DEF Null
<1>8. ASSUME prog.xauth[f] # NoEntry, NEW x \in {"compute", "own_again"}, NEW k,
             Credits(t, x, k, [NoCred EXCEPT !.family = f])
      PROVE  Authorized(n)
  <2>1. /\ n.pc = x /\ n.step = 0 /\ n.peer = l.peer /\ n.cred = [NoCred EXCEPT !.family = f]
    BY <1>2, <1>8 DEF Credits, Moves, SamePlace, SameConn
  <2>2. n.cred.family = f /\ n.cred.from = "none"
    BY <2>1 DEF NoCred
  <2> QED
    BY <1>2, <1>4, <1>8, <2>1, <2>2 DEF Authorized, EntryFor, Computing
<1> HIDE DEF d
<1> QED
  BY <1>5, <1>6, <1>7, <1>8

LEMMA ComputeAuthorized ==
    ASSUME Typed, NEW t \in Thread, Progress(local[t]), Authorized(local[t]), compute_auth(t)
    PROVE  Authorized(local'[t])
<1> DEFINE l == local[t]
           n == local'[t]
           e == entry(t)
           len == IF e.name = "MC1" THEN e.len ELSE 1
           m == deref(l.mem, "authptr")
           d(ok) == memdup(m, "info.data", len, ok)
<1>0. LocalsOK /\ prog \in Program
  BY DEF Typed
<1>1. l.pc = "compute" /\ l.pc \in Computing /\ l.mem \in Memory /\ l \in Local
  BY <1>0, ComputeMoves, MemOf DEF Computing
<1>2. /\ l.step = 0 /\ ~prog.supplied /\ l.cred.family = Filed(l.peer) /\ l.cred.from = "none"
      /\ EntryFor(l) # NoEntry /\ l.cred \in Cred
  BY <1>1 DEF Progress, Connecting, Authorized, Local
<1>3. e = EntryFor(l) /\ e.name \in {"MC1", "XA1"} /\ e.len \in 0 .. 1
  BY <1>0, <1>2, EntryTyped DEF entry, EntryFor
<1>4. PICK ok \in BOOLEAN :
         /\ prog.faults = {} => ok
         /\ \/ /\ d(ok).ptr["info.data"] = Null
               /\ Goes(t, "calloc", no_auth(free(d(ok), "info.name")))
            \/ e.name = "MC1" /\ Granted(t, d(ok), "cookie")
            \/ e.name # "MC1" /\ l.peer \in LocalPlace /\ Goes(t, "nonce", d(ok))
            \/ /\ e.name # "MC1"
               /\ \E from \in {"zero", "address"} : Granted(t, deref(d(ok), "sockname"), from)
  BY <1>0, ComputeMoves
<1> HIDE DEF e
<1>5. ASSUME d(ok).ptr["info.data"] = Null, prog.faults = {}
      PROVE  e.name = "MC1" /\ e.len = 0
  <2>1. m \in Memory /\ "info.data" \in Var /\ ok = TRUE
    BY <1>1, <1>4, <1>5, AsideVars, OpsTyped
  <2> HIDE DEF m
  <2>2. len > 0 => memdup(m, "info.data", len, TRUE).ptr["info.data"] = "info.data"
    BY <2>1, MemdupFound, Zenon
  <2>3. ~(len > 0)
    BY <1>5, <2>1, <2>2 DEF Null
  <2> QED
    BY <1>3, <2>3
<1> HIDE DEF d, m
<1>6. ASSUME NEW k, Goes(t, "calloc", k), d(ok).ptr["info.data"] = Null
      PROVE  Authorized(n)
  <2>1. n.pc = "calloc" /\ n.step = 0 /\ n.cred = l.cred /\ n.peer = l.peer
    BY <1>2, <1>6 DEF Goes, Moves, SamePlace, SameAuth, SameConn
  <2>2. EntryFor(n) = e
    BY <1>3, <2>1 DEF EntryFor
  <2>3. prog.faults = {} => EntryFor(n).name # "XA1" /\ ~(EntryFor(n).len > 0)
    BY <1>5, <1>6, <2>2
  <2> QED
    BY <1>2, <2>1, <2>3, GoodNone, AuthorizedBack
<1>7. ASSUME NEW k, NEW from \in {"cookie", "zero", "address"}, Granted(t, k, from),
             from = "cookie" <=> e.name = "MC1"
      PROVE  Authorized(n)
  <2>1. n.pc = "calloc" /\ n.step = 0 /\ n.cred = [l.cred EXCEPT !.from = from] /\ n.peer = l.peer
    BY <1>2, <1>7 DEF Granted, Credits, Moves, SamePlace, SameConn
  <2>2. n.cred.from = from /\ n.cred.family = Filed(n.peer)
    BY <1>2, <2>1 DEF Cred
  <2>3. EntryFor(n) = e
    BY <1>3, <2>1 DEF EntryFor
  <2>4. Good(n, n.cred)
    BY <1>3, <1>7, <2>2, <2>3 DEF Good
  <2> QED
    BY <2>1, <2>4, AuthorizedBack
<1>8. ASSUME NEW k, e.name # "MC1", l.peer \in LocalPlace, Goes(t, "nonce", k)
      PROVE  Authorized(n)
  <2>1. n.pc = "nonce" /\ n.step = 0 /\ n.cred = l.cred /\ n.peer = l.peer
    BY <1>2, <1>8 DEF Goes, Moves, SamePlace, SameAuth, SameConn
  <2>2. EntryFor(n) = e
    BY <1>3, <2>1 DEF EntryFor
  <2> QED
    BY <1>2, <1>3, <1>8, <2>1, <2>2 DEF Authorized, Computing
<1> QED
  BY <1>4, <1>6, <1>7, <1>8

LEMMA NamesAuthorized ==
    ASSUME Typed, NEW t \in Thread, Progress(local[t]), Authorized(local[t]),
           peer_name(t) \/ own_name(t) \/ own_again(t)
    PROVE  Authorized(local'[t])
<1> DEFINE l == local[t]
           n == local'[t]
<1>0. LocalsOK /\ prog \in Program /\ l.mem \in Memory
  BY MemOf DEF Typed
<1>1. "peer" \in Block /\ "own" \in Block
  BY DEF Block
<1>2. CASE peer_name(t)
  <2>1. l.pc = "auth" /\ ~prog.supplied /\ l.step = 0
    BY <1>0, <1>2, PeerNameMoves DEF Progress, Connecting
  <2>2. /\ n.pc \in {"own_name", "authptr"} /\ n.step = 0
        /\ n.pc = "own_name" => prog.faults # {}
    BY <1>0, <1>1, <1>2, <2>1, PeerNameMoves, SockNameFound DEF Goes, Moves, SameConn
  <2> QED
    BY <2>1, <2>2 DEF Authorized, Computing
<1>3. CASE own_name(t)
  <2>1. l.pc = "own_name" /\ ~prog.supplied /\ l.step = 0 /\ prog.faults # {} /\ l.cred = NoCred
    BY <1>0, <1>3, OwnNameMoves DEF Progress, Connecting, Authorized, Asking
  <2>2. n.pc \in {"calloc", "authptr"} /\ n.step = 0 /\ n.cred = NoCred
    BY <1>0, <1>3, <2>1, OwnNameMoves DEF Goes, Moves, SameConn, SameAuth
  <2>3. CASE n.pc = "authptr"
    BY <2>1, <2>2, <2>3 DEF Authorized, Computing
  <2>4. CASE n.pc = "calloc"
    <3>1. n.cred.from = "none"
      BY <2>2 DEF NoCred
    <3> QED
      BY <2>1, <2>2, <2>4, <3>1, GoodNone, AuthorizedBack
  <2> QED
    BY <2>2, <2>3, <2>4
<1>4. CASE own_again(t)
  <2>1. l.pc = "own_again" /\ ~prog.supplied /\ l.step = 0 /\ l.cred.from = "none"
        /\ l.cred.family = Filed(l.peer) /\ EntryFor(l) # NoEntry
    BY <1>0, <1>4, OwnAgainMoves DEF Progress, Connecting, Authorized, Computing
  <2>2. /\ n.pc \in {"calloc", "compute"} /\ n.step = 0 /\ n.cred = l.cred /\ n.peer = l.peer
        /\ n.pc = "calloc" => prog.faults # {}
    BY <1>0, <1>1, <1>4, <2>1, OwnAgainMoves, SockNameFound
       DEF Goes, Moves, SameConn, SameAuth, SamePlace
  <2>3. CASE n.pc = "compute"
    BY <2>1, <2>2, <2>3 DEF Authorized, Computing, EntryFor
  <2>4. CASE n.pc = "calloc"
    BY <2>1, <2>2, <2>4, GoodNone, AuthorizedBack
  <2> QED
    BY <2>2, <2>3, <2>4
<1> QED
  BY <1>2, <1>3, <1>4

LEMMA NonceAuthorized ==
    ASSUME Typed, NEW t \in Thread, Progress(local[t]), Authorized(local[t]),
           read_nonce(t) \/ next_nonce(t)
    PROVE  Authorized(local'[t])
<1> DEFINE l == local[t]
           n == local'[t]
<1>0. LocalsOK /\ nonce \in Nat /\ l.cred \in Cred
  BY MemOf DEF Typed, Local
<1>1. CASE read_nonce(t)
  <2>1. /\ l.pc = "nonce" /\ n.pc = "next_nonce" /\ n.step = l.step /\ n.peer = l.peer
        /\ n.cred = [l.cred EXCEPT !.nonce = nonce]
    BY <1>0, <1>1, ReadNonceMoves DEF Credits, Moves, SameConn, SamePlace
  <2>2. n.step = 0 /\ n.cred.family = l.cred.family /\ n.cred.from = l.cred.from
    BY <1>0, <2>1 DEF Cred, Progress, Connecting
  <2> QED
    BY <2>1, <2>2 DEF Authorized, Computing, EntryFor
<1>2. CASE next_nonce(t)
  <2>1. /\ l.pc = "next_nonce" /\ n.pc = "calloc" /\ n.step = l.step /\ n.peer = l.peer
        /\ n.cred = [l.cred EXCEPT !.from = "nonce"]
    BY <1>0, <1>2, NextNonceMoves DEF Granted, Credits, Moves, SameConn, SamePlace
  <2>2. n.step = 0 /\ n.cred.family = l.cred.family /\ n.cred.from = "nonce"
    BY <1>0, <2>1 DEF Cred, Progress, Connecting
  <2>3. Good(n, n.cred)
    BY <2>1, <2>2 DEF Authorized, Computing, EntryFor, Good
  <2> QED
    BY <2>1, <2>2, <2>3, AuthorizedBack
<1> QED
  BY <1>1, <1>2

LEMMA SetupAuthorized ==
    ASSUME Typed, NEW t \in Thread, Progress(local[t]), Authorized(local[t]),
           connect_to_fd(t) \/ connect_step(t)
    PROVE  Authorized(local'[t])
<1> DEFINE l == local[t]
           n == local'[t]
<1>0. LocalsOK /\ prog \in Program
  BY DEF Typed
<1>1. CASE connect_to_fd(t)
  <2>1. /\ l.pc = "calloc" /\ l.step = 0 /\ n.peer = l.peer /\ n.cred = l.cred
        /\ n.sent = l.sent
        /\ (n.pc = "init" /\ n.step = 1) \/ (n.pc = "done" /\ n.c = "error")
    BY <1>0, <1>1, ConnectFdMoves DEF Moves, SamePlace, SameAuth, Progress, Connecting
  <2> QED
    BY <2>1 DEF Authorized, Good, EntryFor, Computing
<1>2. CASE connect_step(t)
  <2>1. l.pc = "init" /\ l.step \in 1 .. Steps /\ l.c = "none"
    BY <1>2 DEF connect_step, At, Progress, Connecting
  <2>2. PICK r \in initialise(t, l.step, l.mem) :
           /\ n.peer = l.peer /\ n.step = l.step + 1 /\ n.cred = l.cred
           /\ n.pc \in {"init", "done"}
           /\ n.sent = IF l.step = 5 /\ r.ok THEN l.cred ELSE l.sent
           /\ n.c = IF ~r.ok THEN "error" ELSE IF l.step = Steps THEN "c" ELSE l.c
    BY <1>0, <1>2, <2>1, StepMoves DEF SamePlace, SameAuth, Moves
  <2>3. ~prog.supplied => Good(n, n.cred)
    BY <2>1, <2>2 DEF Authorized, Good, EntryFor
  <2>4. n.step > 5 /\ n.c # "error" => n.sent = n.cred
    BY <2>1, <2>2 DEF Authorized, Steps
  <2> QED
    BY <2>2, <2>3, <2>4 DEF Authorized, Computing
<1> QED
  BY <1>1, <1>2

LEMMA OthersAuthorized ==
    ASSUME Typed, NEW t \in Thread, Progress(local[t]), Authorized(local[t]),
           \/ parse_display(t) \/ free_host(t) \/ open_tcp(t) \/ try_address(t) \/ open_unix(t)
           \/ open_abstract(t) \/ open_path(t) \/ use_supplied(t) \/ free_auth(t) \/ out(t)
           \/ use(t) \/ disconnect(t)
    PROVE  Authorized(local'[t])
<1> DEFINE l == local[t]
           n == local'[t]
<1>0. LocalsOK /\ prog \in Program
  BY DEF Typed
<1>1. ASSUME l.pc \in Opening, n.step = l.step,
             n.pc \in Opening \cup {"auth", "out", "closed"}
      PROVE  Authorized(n)
  <2>1. n.step = 0
    BY <1>1 DEF Progress, Opening, Connecting
  <2> QED
    BY <1>1, <2>1, AuthorizedEarly
<1>2. CASE parse_display(t)
  BY <1>0, <1>1, <1>2, ParseMoves DEF Moves, SameConn, Opening
<1>3. CASE free_host(t)
  BY <1>0, <1>1, <1>3, FreeHostMoves DEF Goes, Moves, SameConn, Opening
<1>4. CASE open_tcp(t)
  BY <1>0, <1>1, <1>4, OpenTcpMoves DEF Goes, Moves, SameConn, Opening
<1>5. CASE try_address(t)
  BY <1>0, <1>1, <1>5, TryMoves DEF Goes, Moves, Reaches, SameConn, Opening
<1>6. CASE open_unix(t)
  BY <1>0, <1>1, <1>6, OpenUnixMoves DEF Goes, Moves, SameConn, Opening
<1>7. CASE open_abstract(t)
  BY <1>0, <1>1, <1>7, OpenAbstractMoves DEF Goes, Moves, Reaches, SameConn, Opening
<1>8. CASE open_path(t)
  BY <1>0, <1>1, <1>8, OpenPathMoves DEF Goes, Moves, Reaches, SameConn, Opening
<1>9. CASE use_supplied(t)
  <2>1. prog.supplied /\ l.pc = "auth" /\ n.pc = "calloc" /\ n.step = l.step
    BY <1>0, <1>9, SuppliedMoves DEF Credits, Moves, SameConn
  <2>2. n.step = 0
    BY <2>1 DEF Progress, Connecting
  <2> QED
    BY <2>1, <2>2, AuthorizedBack
<1>10. ASSUME NEW x \in {"out", "returned", "used", "closed"}, NEW m, Goes(t, x, m)
       PROVE  Authorized(n)
  <2>1. /\ n.pc = x /\ n.peer = l.peer /\ n.cred = l.cred /\ n.sent = l.sent
        /\ n.step = l.step /\ n.c = l.c
    BY <1>10 DEF Goes, Moves, SamePlace, SameAuth, SameConn
  <2> QED
    BY <1>10, <2>1, AuthorizedLate
<1>11. CASE free_auth(t)
  BY <1>0, <1>10, <1>11, FreeAuthMoves
<1>12. CASE out(t)
  <2>1. /\ n.pc = "returned" /\ n.peer = l.peer /\ n.cred = l.cred /\ n.sent = l.sent
        /\ n.step = l.step /\ n.c = IF l.c = "none" THEN "error" ELSE l.c
    BY <1>0, <1>12, OutMoves DEF Moves, SamePlace, SameAuth
  <2>2. n.c # "error" => l.c # "error"
    BY <2>1
  <2> QED
    BY <2>1, <2>2, AuthorizedLate
<1>13. CASE use(t)
  BY <1>0, <1>10, <1>13, UseMoves
<1>14. CASE disconnect(t)
  BY <1>0, <1>10, <1>14, DisconnectMoves
<1> QED
  BY <1>2, <1>3, <1>4, <1>5, <1>6, <1>7, <1>8, <1>9, <1>11, <1>12, <1>13, <1>14

LEMMA AuthorizedInit == Init => AuthorizedInv
<1> SUFFICES ASSUME Init, NEW t \in Thread PROVE Authorized(local[t])
  BY DEF AuthorizedInv
<1>1. local[t] = Start(t)
  BY DEF Init
<1>2. Start(t).step = 0
  BY Zenon DEF Start
<1>3. Start(t).pc = IF t \in prog.threads THEN "start" ELSE "closed"
  BY Zenon DEF Start
<1> QED
  BY <1>1, <1>2, <1>3, AuthorizedEarly DEF Opening

LEMMA AuthorizedNext == BaseInv /\ FoundInv /\ AuthorizedInv /\ [Next]_vars => AuthorizedInv'
<1> SUFFICES ASSUME BaseInv, FoundInv, AuthorizedInv, [Next]_vars, NEW u \in Thread
             PROVE  (Authorized(local[u]))'
  BY DEF AuthorizedInv
<1>1. CASE Next
  <2>1. PICK t \in Thread : Acts(t)
    BY <1>1, NextActs
  <2>2. prog' = prog
    BY <2>1, ProgNeverChanges
  <2>3. /\ Typed /\ Progress(local[t]) /\ Found(local[t]) /\ Authorized(local[t])
        /\ Authorized(local[u])
    BY DEF BaseInv, ProgressInv, FoundInv, AuthorizedInv
  <2>4. Authorized(local'[t])
    BY <2>1, <2>3, GetAuthptrAuthorized, ComputeAuthorized, NamesAuthorized, NonceAuthorized,
       SetupAuthorized, OthersAuthorized DEF Acts
  <2>5. Moved(t)
    BY <2>1, <2>3, ProgressStep
  <2>6. Authorized(local'[u])
    <3>1. CASE u = t
      BY <2>4, <3>1
    <3>2. CASE u # t
      BY <2>3, <2>5, <3>2 DEF Moved
    <3> QED
      BY <3>1, <3>2
  <2> QED
    BY <2>2, <2>6 DEF Authorized, Good, EntryFor
<1>2. CASE UNCHANGED vars
  <2>1. Authorized(local[u]) /\ local' = local /\ prog' = prog
    BY <1>2 DEF vars, AuthorizedInv
  <2> QED
    BY <2>1 DEF Authorized, Good, EntryFor
<1> QED
  BY <1>1, <1>2

\* The server gets authorization from the entry for its own address, with the
\* data that entry's protocol asks for, and if nothing fails it gets it
\* whenever there is such an entry (_xcb_get_auth_info, write_setup).
THEOREM AlwaysAuthorizedRight == Spec => []AuthorizedRight
<1>1. Init => BaseInv /\ FoundInv /\ AuthorizedInv
  BY BaseInit, FoundInit, AuthorizedInit
<1>2. BaseInv /\ FoundInv /\ AuthorizedInv /\ [Next]_vars => BaseInv' /\ FoundInv' /\ AuthorizedInv'
  BY BaseNext, FoundNext, AuthorizedNext
<1>3. BaseInv /\ AuthorizedInv => AuthorizedRight
  <2> SUFFICES ASSUME BaseInv, AuthorizedInv, NEW t \in prog.threads, local[t].step > 5,
                      ~prog.supplied, local[t].c # "error"
               PROVE  LET a == local[t].sent
                          e == prog.xauth[Filed(local[t].peer)]
                      IN  /\ a.from # "none" => a.family = Filed(local[t].peer)
                          /\ a.from = "cookie" => e.name = "MC1"
                          /\ a.from \in {"nonce", "address", "zero"} => e.name = "XA1"
                          /\ a.from = "nonce" => local[t].peer \in LocalPlace
                          /\ prog.faults = {} /\ (e.name = "XA1" \/ e.len > 0) => a.from # "none"
    BY DEF AuthorizedRight
  <2>1. t \in Thread
    BY DEF BaseInv, Typed, Program
  <2>2. local[t].sent = local[t].cred /\ Good(local[t], local[t].cred)
    BY <2>1 DEF AuthorizedInv, Authorized
  <2> QED
    BY <2>2 DEF Good, EntryFor
<1> QED
  BY <1>1, <1>2, <1>3, PTL DEF Spec
-----------------------------------------------------------------------------
(* Which server is reached if nothing fails                                *)

LEMMA ToSetEmpty ==
    ASSUME NEW s, s = <<>>
    PROVE  ToSet(s) = {}
BY DEF ToSet

LEMMA ToSetHead ==
    ASSUME NEW S, NEW s \in Seq(S), s # <<>>
    PROVE  ToSet(s) = {Head(s)} \cup ToSet(Tail(s))
<1>1. Len(s) \in Nat /\ Len(s) > 0 /\ Head(s) = s[1]
  BY EmptySeq, LenProperties, HeadTailProperties
<1>2. Len(Tail(s)) = Len(s) - 1 /\ \A i \in 1 .. Len(Tail(s)) : Tail(s)[i] = s[i + 1]
  BY HeadTailProperties
<1>3. DOMAIN s = 1 .. Len(s) /\ DOMAIN Tail(s) = 1 .. Len(Tail(s))
  BY HeadTailProperties, LenProperties
<1>4. ASSUME NEW x \in ToSet(s) PROVE x \in {Head(s)} \cup ToSet(Tail(s))
  <2>1. PICK i \in 1 .. Len(s) : x = s[i]
    BY <1>3, <1>4 DEF ToSet
  <2>2. CASE i = 1
    BY <1>1, <2>1, <2>2
  <2>3. CASE i # 1
    <3>1. i - 1 \in 1 .. Len(Tail(s)) /\ (i - 1) + 1 = i
      BY <1>1, <1>2, <2>1, <2>3
    <3>2. Tail(s)[i - 1] = x
      BY <1>2, <2>1, <3>1
    <3> QED
      BY <1>3, <3>1, <3>2 DEF ToSet
  <2> QED
    BY <2>2, <2>3
<1>5. Head(s) \in ToSet(s)
  <2>1. 1 \in DOMAIN s
    BY <1>1, <1>3
  <2> QED
    BY <1>1, <2>1 DEF ToSet
<1>6. ASSUME NEW x \in ToSet(Tail(s)) PROVE x \in ToSet(s)
  <2>1. PICK i \in 1 .. Len(Tail(s)) : x = Tail(s)[i]
    BY <1>3, <1>6 DEF ToSet
  <2>2. i + 1 \in 1 .. Len(s) /\ x = s[i + 1]
    BY <1>1, <1>2, <2>1
  <2> QED
    BY <1>3, <2>2 DEF ToSet
<1> QED
  BY <1>4, <1>5, <1>6

LEMMA ReadTouches ==
    ASSUME prog \in Program
    PROVE  reading(DisplayName).out # Untouched /\ reading(DisplayName).slash = Slash
<1>1. reading(DisplayName).out.host \in Seq(Token)
  BY NameTyped, ReadingTyped
<1>2. <<"untouched">> \notin Seq(Token)
  <2>1. <<"untouched">>[1] = "untouched" /\ Len(<<"untouched">>) = 1
    OBVIOUS
  <2>2. "untouched" \notin Token
    BY DEF Token, Digit
  <2> QED
    BY <2>1, <2>2, ElementOfSeq
<1>3. Untouched.host = <<"untouched">>
  BY DEF Untouched
<1>4. reading(DisplayName).slash = Slash
  BY DEF reading, Slash
<1> QED
  BY <1>1, <1>2, <1>3, <1>4

\* If nothing fails, only a server that does not accept ends the setup.
LEMMA StepSucceeds ==
    ASSUME prog \in Program, prog.faults = {}, NEW t, NEW i \in 1 .. Steps, NEW m,
           NEW r \in initialise(t, i, m), i = 6 => Accepts
    PROVE  r.ok = TRUE
<1>0. i \in {1, 2, 3, 4, 5, 6, 7, 8}
  BY DEF Steps
<1>1. CASE i = 1
  <2>1. PICK ok \in Ok("fcntl") : r = Result(m, ok)
    BY <1>1 DEF initialise, set_fd_flags
  <2> QED
    BY <2>1, ResultParts, OkBoolean
<1>2. CASE i \in {2, 7, 8}
  <2>1. PICK o : r \in init_all(m, <<o>>, "sync")
    <3>1. i = 2 => r \in init_all(m, <<"iolock">>, "sync")
      BY DEF initialise
    <3>2. i = 7 => r \in init_all(m, <<"ext_lock">>, "sync")
      BY DEF initialise
    <3>3. i = 8 => r \in init_all(m, <<"xid_lock">>, "sync")
      BY DEF initialise
    <3> QED
      BY <1>2, <3>1, <3>2, <3>3, Zenon
  <2>2. Began(m, r, {o})
    BY <2>1, InitOne
  <2> QED
    BY <2>2 DEF Began
<1>3. CASE i = 3
  <2>1. r \in in_init(m)
    BY <1>3 DEF initialise
  <2> QED
    BY <2>1, InInitDoes
<1>4. CASE i = 4
  <2>1. r \in init_all(m, <<"socket_cond", "out_cond", "reqlenlock">>, "sync")
    BY <1>4 DEF initialise, out_init
  <2>2. Began(m, r, {"socket_cond", "out_cond", "reqlenlock"})
    BY <2>1, InitThree
  <2> QED
    BY <2>2 DEF Began
<1>5. CASE i = 5
  <2>1. r \in write_setup(t, m)
    BY <1>5 DEF initialise
  <2> QED
    BY <2>1, WriteSetupDoes
<1>6. CASE i = 6
  <2>1. r \in read_setup(m)
    BY <1>6 DEF initialise
  <2> QED
    BY <1>6, <2>1, ReadSetupDoes
<1> QED
  BY <1>0, <1>1, <1>2, <1>3, <1>4, <1>5, <1>6

LEMMA ParseReaching ==
    ASSUME Typed, NEW t \in Thread, Progress(local[t]), Tidy(local[t]), prog.faults = {},
           local[t].pc = "start" => local[t].parsed = Untouched, parse_display(t)
    PROVE  Reaching(local'[t])
<1> DEFINE l == local[t]
           n == local'[t]
           r == reading(DisplayName)
           wanted == r.slash /\ prog.call = "connect"
           m == IF wanted THEN malloc(l.mem, "protocol", "protocol") ELSE l.mem
<1>0. LocalsOK /\ prog \in Program /\ l.mem \in Memory
  BY MemOf DEF Typed
<1>1. l.pc = "start" /\ n.c = l.c /\ l.parsed = Untouched
  BY <1>0, ParseMoves DEF SameConn
<1>2. l.c = "none"
  BY <1>1 DEF Progress, Connecting
<1>3. \/ /\ Moves(t, IF prog.call = "connect" THEN "open" ELSE "parsed", malloc(m, "host", "host"))
         /\ n.parsed = r.out
      \/ /\ Moves(t, IF prog.call = "connect" THEN "out" ELSE "closed",
                  clear(free(m, "protocol"), "protocol"))
         /\ n.parsed = l.parsed
  <2>1. ~May("nomem")
    BY DEF May
  <2> QED
    BY <1>0, <2>1, ParseMoves
<1>4. r.out # Untouched /\ r.slash = Slash
  BY <1>0, ReadTouches
<1>5. "protocol" \in Var /\ "host" \in Var /\ "protocol" \in Block /\ "host" \in Block
  BY DEF Var, Block
<1>6. l.mem.ptr["protocol"] = Null
  <2>1. l.mem.live = {} /\ Owned(l.mem, Names)
    BY <1>1, OpeningHolds DEF Opening
  <2> QED
    BY <2>1 DEF Owned, Names
<1>7. prog.call = "connect" => (malloc(m, "host", "host").ptr["protocol"] # Null <=> Slash)
  <2>1. l.mem.ptr \in [Var -> Block \cup {Null}]
    BY <1>0, MemoryParts
  <2>2. malloc(l.mem, "protocol", "protocol").ptr = [l.mem.ptr EXCEPT !["protocol"] = "protocol"]
    BY <1>0 DEF malloc, Memory
  <2>3. m \in Memory
    BY <1>0, <1>5, OpsTyped
  <2>4. prog.call = "connect" => (m.ptr["protocol"] # Null <=> Slash)
    BY <1>4, <1>5, <1>6, <2>1, <2>2 DEF Null
  <2> HIDE DEF m
  <2>5. malloc(m, "host", "host").ptr = [m.ptr EXCEPT !["host"] = "host"]
    BY <2>3 DEF malloc, Memory
  <2>6. malloc(m, "host", "host").ptr["protocol"] = m.ptr["protocol"]
    BY <1>5, <2>3, <2>5, MemoryParts
  <2> QED
    BY <2>4, <2>6
<1>8. CASE /\ Moves(t, IF prog.call = "connect" THEN "open" ELSE "parsed", malloc(m, "host", "host"))
           /\ n.parsed = r.out
  <2>1. /\ n.pc = IF prog.call = "connect" THEN "open" ELSE "parsed"
        /\ n.mem = malloc(m, "host", "host")
    BY <1>8 DEF Moves
  <2> HIDE DEF m, r
  <2> QED
    BY <1>1, <1>2, <1>4, <1>7, <1>8, <2>1 DEF Reaching, Asking, Computing
<1>9. CASE n.parsed = l.parsed /\ \E k : Moves(t, IF prog.call = "connect" THEN "out" ELSE "closed", k)
  <2>1. n.pc = IF prog.call = "connect" THEN "out" ELSE "closed"
    BY <1>9 DEF Moves
  <2>2. Wanted(n) = {}
    BY <1>1, <1>9 DEF Wanted, Places
  <2> QED
    BY <1>1, <1>2, <2>1, <2>2 DEF Reaching, Asking, Computing
<1> QED
  BY <1>3, <1>8, <1>9

LEMMA OpenReaching ==
    ASSUME Typed, NEW t \in Thread, Progress(local[t]), Reaching(local[t]), prog.faults = {},
           open_tcp(t) \/ open_unix(t)
    PROVE  Reaching(local'[t])
<1> DEFINE l == local[t]
           n == local'[t]
<1>0. LocalsOK /\ prog \in Program /\ Ptr(t, "protocol") = l.mem.ptr["protocol"]
  BY MemOf DEF Typed, Ptr
<1>1. l.pc = "open"
  BY <1>0, OpenTcpMoves, OpenUnixMoves
<1>2. l.c = "none" /\ l.parsed # Untouched /\ (l.mem.ptr["protocol"] # Null <=> Slash)
  BY <1>1 DEF Reaching, Progress, Connecting
<1>3. ASSUME open_tcp(t) PROVE Reaching(n)
  <2>1. tcp(t)
    BY <1>0, <1>3, OpenTcpMoves
  <2> DEFINE right == l.mem.ptr["protocol"] # Null => l.parsed.protocol = <<"tcp">>
  <2>2. Places(l.parsed) = IF right THEN ToSet(FoundBy(t)) ELSE {}
    BY <1>0, <1>2, <2>1 DEF Places, FoundBy, tcp
  <2>3. CASE /\ right /\ n.pc = "tcp" /\ n.addrs = FoundBy(t) /\ n.parsed = l.parsed /\ n.c = l.c
    <3>1. Wanted(n) = ToSet(n.addrs) \cap prog.listens
      BY <2>2, <2>3 DEF Wanted
    <3> QED
      BY <1>2, <2>3, <3>1 DEF Reaching, Asking, Computing
  <2>4. CASE /\ ~right \/ FoundBy(t) = <<>>
             /\ n.pc = "out" /\ n.parsed = l.parsed /\ n.c = l.c
    <3>1. Wanted(n) = {}
      BY <2>2, <2>4, ToSetEmpty DEF Wanted
    <3> QED
      BY <1>2, <2>4, <3>1 DEF Reaching, Asking, Computing
  <2> QED
    BY <1>0, <1>3, <2>3, <2>4, OpenTcpMoves DEF Goes, Moves, SamePlace, SameConn
<1>4. ASSUME open_unix(t) PROVE Reaching(n)
  <2>1. ~tcp(t) /\ n.pc = "abstract" /\ n.parsed = l.parsed /\ n.c = l.c
    BY <1>0, <1>4, OpenUnixMoves DEF Goes, Moves, SamePlace, SameConn
  <2>2. Places(n.parsed) = LocalPlace
    BY <1>0, <1>2, <2>1 DEF Places, tcp
  <2> QED
    BY <1>2, <2>1, <2>2 DEF Reaching, Asking, Computing
<1> QED
  BY <1>3, <1>4

LEMMA SocketReaching ==
    ASSUME Typed, NEW t \in Thread, Progress(local[t]), Reaching(local[t]), prog.faults = {},
           try_address(t) \/ open_abstract(t) \/ open_path(t)
    PROVE  Reaching(local'[t])
<1> DEFINE l == local[t]
           n == local'[t]
<1>0. LocalsOK /\ prog \in Program /\ l.addrs \in Seq(Address)
  BY MemOf DEF Typed, Local
<1>1. l.pc \in {"tcp", "abstract", "path"} /\ l.c = "none"
  <2>1. l.pc \in {"tcp", "abstract", "path"}
    BY <1>0, TryMoves, OpenAbstractMoves, OpenPathMoves
  <2> QED
    BY <2>1 DEF Progress, Connecting
<1>2. ASSUME NEW p, NEW m, Reaches(t, p, m), p \in Wanted(l) PROVE Reaching(n)
  <2>1. n.pc = "auth" /\ n.parsed = l.parsed /\ n.c = l.c
    BY <1>2 DEF Reaches, Moves, SameConn
  <2>2. Wanted(n) # {}
    BY <1>2, <2>1 DEF Wanted
  <2> QED
    BY <1>1, <2>1, <2>2 DEF Reaching
<1>3. ASSUME NEW m, Goes(t, "out", m), Wanted(l) = {} PROVE Reaching(n)
  <2>1. n.pc = "out" /\ n.parsed = l.parsed /\ n.c = l.c
    BY <1>3 DEF Goes, Moves, SamePlace, SameConn
  <2>2. Wanted(n) = {}
    BY <1>3, <2>1 DEF Wanted
  <2> QED
    BY <1>1, <2>1, <2>2 DEF Reaching, Asking, Computing
<1>4. CASE try_address(t)
  <2>1. l.pc = "tcp" /\ Wanted(l) = ToSet(l.addrs) \cap prog.listens
    BY <1>0, <1>4, TryMoves DEF Reaching
  <2>2. CASE l.addrs = <<>>
    <3>1. Wanted(l) = {}
      BY <2>1, <2>2, ToSetEmpty
    <3>2. \E m : Goes(t, "out", m)
      BY <1>0, <1>4, <2>2, TryMoves
    <3> QED
      BY <1>3, <3>1, <3>2
  <2>3. CASE l.addrs # <<>>
    <3>1. ToSet(l.addrs) = {Head(l.addrs)} \cup ToSet(Tail(l.addrs))
      BY <1>0, <2>3, ToSetHead
    <3>2. CASE \E m : Reaches(t, Head(l.addrs), m)
      <4>1. Head(l.addrs) \in Wanted(l)
        BY <2>1, <3>1, <3>2 DEF Reaches
      <4> QED
        BY <1>2, <3>2, <4>1
    <3>3. CASE /\ n.pc = "tcp" /\ n.addrs = Tail(l.addrs) /\ n.parsed = l.parsed /\ n.c = l.c
               /\ Head(l.addrs) \notin prog.listens
      <4>1. Wanted(n) = ToSet(n.addrs) \cap prog.listens
        BY <2>1, <3>1, <3>3 DEF Wanted
      <4> QED
        BY <1>1, <3>3, <4>1 DEF Reaching, Asking, Computing
    <3>4. \/ \E m : Reaches(t, Head(l.addrs), m)
          \/ /\ n.pc = "tcp" /\ n.addrs = Tail(l.addrs) /\ n.parsed = l.parsed /\ n.c = l.c
             /\ Head(l.addrs) \notin prog.listens
      BY <1>0, <1>4, <2>3, TryMoves DEF Moves, SameConn
    <3> QED
      BY <3>2, <3>3, <3>4
  <2> QED
    BY <2>2, <2>3
<1>5. CASE open_abstract(t)
  <2>1. l.pc = "abstract" /\ Places(l.parsed) = LocalPlace
    BY <1>0, <1>5, OpenAbstractMoves DEF Reaching
  <2>2. \/ \E m : Reaches(t, "abstract", m)
        \/ "abstract" \notin prog.listens /\ \E m : Goes(t, "path", m)
    BY <1>0, <1>5, OpenAbstractMoves
  <2>3. CASE \E m : Reaches(t, "abstract", m)
    <3>1. "abstract" \in Wanted(l)
      BY <2>1, <2>3 DEF Reaches, Wanted, LocalPlace
    <3> QED
      BY <1>2, <2>3, <3>1
  <2>4. CASE "abstract" \notin prog.listens /\ \E m : Goes(t, "path", m)
    <3>1. n.pc = "path" /\ n.parsed = l.parsed /\ n.c = l.c
      BY <2>4 DEF Goes, Moves, SamePlace, SameConn
    <3> QED
      BY <1>1, <2>1, <2>4, <3>1 DEF Reaching, Asking, Computing
  <2> QED
    BY <2>2, <2>3, <2>4
<1>6. CASE open_path(t)
  <2>1. l.pc = "path" /\ Places(l.parsed) = LocalPlace /\ "abstract" \notin prog.listens
    BY <1>0, <1>6, OpenPathMoves DEF Reaching
  <2>2. \/ \E m : Reaches(t, "path", m)
        \/ "path" \notin prog.listens /\ \E m : Goes(t, "out", m)
    BY <1>0, <1>6, OpenPathMoves
  <2>3. CASE \E m : Reaches(t, "path", m)
    <3>1. "path" \in Wanted(l)
      BY <2>1, <2>3 DEF Reaches, Wanted, LocalPlace
    <3> QED
      BY <1>2, <2>3, <3>1
  <2>4. CASE "path" \notin prog.listens /\ \E m : Goes(t, "out", m)
    <3>1. Wanted(l) = {}
      BY <2>1, <2>4 DEF Wanted, LocalPlace
    <3> QED
      BY <1>3, <2>4, <3>1
  <2> QED
    BY <2>2, <2>3, <2>4
<1> QED
  BY <1>4, <1>5, <1>6

\* The authorization does not change where the thread is connected to.
LEMMA AuthReaching ==
    ASSUME Typed, NEW t \in Thread, Progress(local[t]), Reaching(local[t]),
           \/ use_supplied(t) \/ peer_name(t) \/ own_name(t) \/ get_authptr(t)
           \/ own_again(t) \/ compute_auth(t) \/ read_nonce(t) \/ next_nonce(t)
    PROVE  Reaching(local'[t])
<1> DEFINE l == local[t]
           n == local'[t]
           After == {"own_name", "authptr", "own_again", "compute", "nonce", "next_nonce", "calloc"}
<1>0. LocalsOK /\ nonce \in Nat
  BY DEF Typed
<1>1. ASSUME NEW x \in After, NEW m, l.pc \in Asking \cup Computing, Goes(t, x, m)
      PROVE  /\ n.pc \in After /\ l.pc \in Asking \cup Computing /\ n.parsed = l.parsed
             /\ n.c = l.c
  BY <1>1 DEF Goes, Moves, SamePlace, SameConn
<1>2. ASSUME NEW x \in After, NEW m, NEW a, l.pc \in Asking \cup Computing, Credits(t, x, m, a)
      PROVE  /\ n.pc \in After /\ l.pc \in Asking \cup Computing /\ n.parsed = l.parsed
             /\ n.c = l.c
  BY <1>2 DEF Credits, Moves, SamePlace, SameConn
<1>3. /\ n.pc \in After /\ l.pc \in Asking \cup Computing /\ n.parsed = l.parsed /\ n.c = l.c
  <2> USE DEF Asking, Computing
  <2>1. CASE use_supplied(t)
    BY <1>0, <1>2, <2>1, SuppliedMoves
  <2>2. CASE peer_name(t)
    BY <1>0, <1>1, <2>2, PeerNameMoves
  <2>3. CASE own_name(t)
    BY <1>0, <1>1, <2>3, OwnNameMoves DEF Moves, SamePlace, SameConn
  <2>4. CASE get_authptr(t)
    <3>1. l.pc = "authptr"
      BY <1>0, <2>4, GetAuthptrMoves
    <3>2. \/ \E m : Goes(t, "calloc", m)
          \/ \E m, a : Credits(t, "compute", m, a)
          \/ \E m, a : Credits(t, "own_again", m, a)
      BY <1>0, <2>4, GetAuthptrMoves
    <3> QED
      BY <1>1, <1>2, <3>1, <3>2
  <2>5. CASE own_again(t)
    BY <1>0, <1>1, <2>5, OwnAgainMoves
  <2>6. CASE compute_auth(t)
    <3>1. l.pc = "compute"
      BY <1>0, <2>6, ComputeMoves
    <3>2. \/ \E m : Goes(t, "calloc", m)
          \/ \E m, from : Granted(t, m, from)
          \/ \E m : Goes(t, "nonce", m)
      BY <1>0, <2>6, ComputeMoves
    <3> QED
      BY <1>1, <1>2, <3>1, <3>2 DEF Granted
  <2>7. CASE read_nonce(t)
    BY <1>0, <1>2, <2>7, ReadNonceMoves
  <2>8. CASE next_nonce(t)
    BY <1>0, <1>2, <2>8, NextNonceMoves DEF Granted
  <2> QED
    BY <2>1, <2>2, <2>3, <2>4, <2>5, <2>6, <2>7, <2>8
<1>4. l.c = "none" /\ Wanted(l) # {}
  BY <1>3 DEF Progress, Connecting, Asking, Computing, Reaching
<1>5. Wanted(n) # {}
  BY <1>3, <1>4 DEF Wanted
<1>6. n.pc \notin {"open", "tcp", "abstract", "path", "init", "out"}
  BY <1>3
<1> QED
  BY <1>3, <1>4, <1>5, <1>6 DEF Reaching

LEMMA SetupReaching ==
    ASSUME Typed, NEW t \in Thread, Progress(local[t]), Reaching(local[t]), prog.faults = {},
           connect_to_fd(t) \/ connect_step(t)
    PROVE  Reaching(local'[t])
<1> DEFINE l == local[t]
           n == local'[t]
<1>0. LocalsOK /\ prog \in Program
  BY DEF Typed
<1>1. CASE connect_to_fd(t)
  <2>1. l.pc = "calloc" /\ n.pc = "init" /\ n.step = 1 /\ n.c = l.c /\ n.parsed = l.parsed
    BY <1>0, <1>1, ConnectFdMoves DEF Moves, SamePlace
  <2>2. l.c = "none" /\ Wanted(l) # {}
    BY <2>1 DEF Progress, Connecting, Reaching
  <2>3. Wanted(n) # {}
    BY <2>1, <2>2 DEF Wanted
  <2> QED
    BY <2>1, <2>2, <2>3 DEF Reaching
<1>2. CASE connect_step(t)
  <2>1. /\ l.pc = "init" /\ l.step \in 1 .. Steps /\ l.c = "none" /\ Wanted(l) # {}
        /\ l.step > 6 => Accepts
    BY <1>2 DEF connect_step, At, Progress, Connecting, Reaching
  <2>2. PICK r \in initialise(t, l.step, l.mem) :
           /\ n.parsed = l.parsed /\ n.step = l.step + 1
           /\ n.pc = IF r.ok /\ l.step < Steps THEN "init" ELSE "done"
           /\ n.c = IF ~r.ok THEN "error" ELSE IF l.step = Steps THEN "c" ELSE l.c
    BY <1>0, <1>2, <2>1, StepMoves DEF SamePlace, Moves
  <2>3. l.step = 6 /\ r.ok => Accepts
    BY <1>0, <2>1, <2>2, StepAnswers
  <2>4. (l.step = 6 => Accepts) => r.ok
    BY <1>0, <2>1, <2>2, StepSucceeds
  <2>5. Wanted(n) # {}
    BY <2>1, <2>2 DEF Wanted
  <2>6. n.step > 6 /\ r.ok => Accepts
    BY <2>1, <2>2, <2>3
  <2>7. ~r.ok => ~Accepts
    BY <2>4
  <2>8. n.c = "c" => r.ok /\ n.step > 6
    BY <2>1, <2>2 DEF Steps
  <2>9. n.pc = "init" => r.ok
    BY <2>2
  <2>10. n.c = "error" => ~r.ok
    BY <2>1, <2>2
  <2> QED
    BY <2>2, <2>5, <2>6, <2>7, <2>8, <2>9, <2>10 DEF Reaching, Asking, Computing
<1> QED
  BY <1>1, <1>2

LEMMA EndReaching ==
    ASSUME Typed, NEW t \in Thread, Progress(local[t]), Reaching(local[t]),
           free_host(t) \/ free_auth(t) \/ out(t) \/ use(t) \/ disconnect(t)
    PROVE  Reaching(local'[t])
<1> DEFINE l == local[t]
           n == local'[t]
<1>0. LocalsOK
  BY DEF Typed
<1>1. ASSUME NEW x \in {"out", "returned", "used", "closed"}, NEW m, Goes(t, x, m),
             x = "out" => l.c # "none"
      PROVE  Reaching(n)
  <2>1. n.pc = x /\ n.parsed = l.parsed /\ n.c = l.c
    BY <1>1 DEF Goes, Moves, SamePlace, SameConn
  <2>2. Wanted(n) = Wanted(l)
    BY <2>1 DEF Wanted
  <2> QED
    BY <1>1, <2>1, <2>2 DEF Reaching, Asking, Computing
<1>2. CASE free_host(t)
  BY <1>0, <1>1, <1>2, FreeHostMoves
<1>3. CASE free_auth(t)
  <2>1. l.c # "none"
    BY <1>0, <1>3, FreeAuthMoves DEF Progress
  <2> QED
    BY <1>0, <1>1, <1>3, <2>1, FreeAuthMoves
<1>4. CASE out(t)
  <2>1. /\ l.pc = "out" /\ n.pc = "returned" /\ n.parsed = l.parsed
        /\ n.c = IF l.c = "none" THEN "error" ELSE l.c
    BY <1>0, <1>4, OutMoves DEF Moves, SamePlace
  <2>2. Wanted(n) = Wanted(l)
    BY <2>1 DEF Wanted
  <2> QED
    BY <2>1, <2>2 DEF Reaching, Asking, Computing
<1>5. CASE use(t)
  BY <1>0, <1>1, <1>5, UseMoves
<1>6. CASE disconnect(t)
  BY <1>0, <1>1, <1>6, DisconnectMoves
<1> QED
  BY <1>2, <1>3, <1>4, <1>5, <1>6

\* No action goes back to the start.
LEMMA NeverRestarts ==
    ASSUME Typed, NEW t \in Thread, Progress(local[t]), Acts(t)
    PROVE  local'[t].pc # "start"
<1>1. CASE connect_step(t)
  <2>1. LocalsOK /\ prog \in Program /\ local[t].step \in 1 .. Steps
    BY <1>1 DEF Typed, connect_step, At, Progress
  <2> QED
    BY <1>1, <2>1, StepMoves DEF Moves
<1> QED
  BY <1>1, FoundAfter DEF Stays

LEMMA ReachingInit == Init => ReachingInv
<1> SUFFICES ASSUME Init, NEW t \in Thread
             PROVE  /\ local[t].pc = "start" => local[t].parsed = Untouched
                    /\ Reaching(local[t])
  BY DEF ReachingInv
<1>1. local[t] = Start(t)
  BY DEF Init
<1>2. Start(t).parsed = Untouched /\ Start(t).c = "none"
  BY Zenon DEF Start
<1>3. Start(t).pc = IF t \in prog.threads THEN "start" ELSE "closed"
  BY Zenon DEF Start
<1>4. local[t].pc \in {"start", "closed"}
  BY <1>1, <1>3
<1> QED
  BY <1>1, <1>2, <1>4 DEF Reaching, Asking, Computing

LEMMA ReachingNext == BaseInv /\ MemoryInv /\ ReachingInv /\ [Next]_vars => ReachingInv'
<1> SUFFICES ASSUME BaseInv, MemoryInv, ReachingInv, [Next]_vars, NEW u \in Thread
             PROVE  /\ local'[u].pc = "start" => local'[u].parsed = Untouched
                    /\ prog'.faults = {} => (Reaching(local[u]))'
  BY DEF ReachingInv
<1>1. CASE Next
  <2>1. PICK t \in Thread : Acts(t)
    BY <1>1, NextActs
  <2>2. prog' = prog
    BY <2>1, ProgNeverChanges
  <2>3. /\ Typed /\ Progress(local[t])
        /\ local[t].pc = "start" => local[t].parsed = Untouched
        /\ local[u].pc = "start" => local[u].parsed = Untouched
        /\ prog.faults = {} => Tidy(local[t]) /\ Reaching(local[t]) /\ Reaching(local[u])
    BY DEF BaseInv, ProgressInv, MemoryInv, TidyInv, ReachingInv
  <2>4. prog.faults = {} => Reaching(local'[t])
    BY <2>1, <2>3, ParseReaching, OpenReaching, SocketReaching, AuthReaching, SetupReaching,
       EndReaching DEF Acts
  <2>5. Moved(t) /\ local'[t].pc # "start"
    BY <2>1, <2>3, ProgressStep, NeverRestarts
  <2>6. /\ local'[u].pc = "start" => local'[u].parsed = Untouched
        /\ prog.faults = {} => Reaching(local'[u])
    <3>1. CASE u = t
      BY <2>4, <2>5, <3>1
    <3>2. CASE u # t
      BY <2>3, <2>5, <3>2 DEF Moved
    <3> QED
      BY <3>1, <3>2
  <2> QED
    BY <2>2, <2>6 DEF Reaching, Wanted, Places, Slash, Accepts, DisplayName
<1>2. CASE UNCHANGED vars
  <2>1. /\ local' = local /\ prog' = prog
        /\ local[u].pc = "start" => local[u].parsed = Untouched
        /\ prog.faults = {} => Reaching(local[u])
    BY <1>2 DEF vars, ReachingInv
  <2> QED
    BY <2>1 DEF Reaching, Wanted, Places, Slash, Accepts, DisplayName
<1> QED
  BY <1>1, <1>2

\* If nothing fails, xcb_connect makes a connection just when a server that
\* accepts listens at one of the places the name stands for: _xcb_open goes
\* on to the path when nobody listens at the abstract name, _xcb_open_tcp to
\* the next address, and no other server is ever reached.
THEOREM AlwaysReachesServer == Spec => []ReachesServer
<1>1. Init => BaseInv /\ MemoryInv /\ ReachingInv
  BY BaseInit, MemoryInit, ReachingInit
<1>2. BaseInv /\ MemoryInv /\ ReachingInv /\ [Next]_vars
        => BaseInv' /\ MemoryInv' /\ ReachingInv'
  BY BaseNext, MemoryNext, ReachingNext
<1>3. BaseInv /\ ReachingInv => ReachesServer
  <2> SUFFICES ASSUME BaseInv, ReachingInv, NEW t \in prog.threads, At(t, "returned"),
                      prog.faults = {}
               PROVE  local[t].c = "c" <=> /\ Denoted(t) \cap prog.listens # {}
                                           /\ prog.answer = [status |-> 1, length |-> 1]
    BY DEF ReachesServer
  <2>1. t \in Thread /\ local[t] \in Local /\ Progress(local[t]) /\ Reaching(local[t])
    BY MemOf DEF BaseInv, Typed, Program, ProgressInv, ReachingInv
  <2>2. local[t].c \in {"error", "c"}
    BY <2>1 DEF Local, Progress, At
  <2>3. Denoted(t) = Places(local[t].parsed)
    BY DEF Denoted, Places, Slash
  <2> QED
    BY <2>1, <2>2, <2>3 DEF Reaching, Wanted, Accepts
<1> QED
  BY <1>1, <1>2, <1>3, PTL DEF Spec
-----------------------------------------------------------------------------
(* A display name is read as it is written                                 *)

\* An int keeps what fits it.
LEMMA IntKeeps ==
    ASSUME NEW n \in CInt
    PROVE  int(n) = n
<1> DEFINE M == 2 * IntHalf
           low == n % M
           q == n \div M
<1>1. IntHalf \in Nat /\ IntHalf > 0 /\ M \in Nat /\ M > 0 /\ n \in Int
  BY ConnectAssumption DEF CInt
<1>2. -IntHalf <= n /\ n < IntHalf
  BY <1>1 DEF CInt
<1>3. q \in Int /\ low \in 0 .. M - 1 /\ n = M * q + low
  <2> HIDE DEF M
  <2> QED
    BY <1>1
<1>4. int(n) = IF low < IntHalf THEN low ELSE low - 2 * IntHalf
  BY DEF int
<1> HIDE DEF low, q
<1>5. q = 0 \/ q = -1
  <2>1. ASSUME q >= 1 PROVE FALSE
    <3>1. M * q >= M
      <4> HIDE DEF M
      <4> QED
        BY <1>1, <1>3, <2>1
    <3> QED
      BY <1>1, <1>2, <1>3, <3>1
  <2>2. ASSUME q <= -2 PROVE FALSE
    <3>1. M * q <= -2 * M
      <4> HIDE DEF M
      <4> QED
        BY <1>1, <1>3, <2>2
    <3> QED
      BY <1>1, <1>2, <1>3, <3>1
  <2> QED
    BY <1>3, <2>1, <2>2
<1>6. CASE q = 0
  BY <1>1, <1>2, <1>3, <1>4, <1>6
<1>7. CASE q = -1
  BY <1>1, <1>2, <1>3, <1>4, <1>7
<1> QED
  BY <1>5, <1>6, <1>7

\* The last place of a token.
LEMMA StrrchrLast ==
    ASSUME NEW s \in Seq(Token), NEW ch
    PROVE  /\ strrchr(s, ch) \in 0 .. Len(s)
           /\ strrchr(s, ch) # 0 => s[strrchr(s, ch)] = ch
           /\ \A x \in 1 .. Len(s) : s[x] = ch => x <= strrchr(s, ch)
<1> DEFINE T == {i \in 1 .. Len(s) : s[i] = ch}
<1>1. strrchr(s, ch) = IF T # {} THEN Max(T) ELSE 0
  BY DEF strrchr, SelectLastInSeq
<1>2. T \in SUBSET Nat /\ Len(s) \in Nat /\ \A x \in T : x <= Len(s)
  OBVIOUS
<1>3. T # {} => Max(T) \in T /\ \A x \in T : x <= Max(T)
  BY <1>2, MaxIn
<1>4. strrchr(s, ch) \in 0 .. Len(s)
  BY StrrchrIn
<1>5. CASE T = {}
  BY <1>1, <1>4, <1>5
<1>6. CASE T # {}
  <2>1. PICK x : x = strrchr(s, ch)
    OBVIOUS
  <2>2. x \in T /\ \A y \in T : y <= x
    BY <1>1, <1>3, <1>6, <2>1
  <2> QED
    BY <1>4, <2>1, <2>2
<1> QED
  BY <1>5, <1>6

\* The tokens of a part.
LEMMA PartElements ==
    ASSUME NEW s \in Seq(Token), NEW a \in Nat, a >= 1, NEW b \in Int, b <= Len(s)
    PROVE  /\ SubSeq(s, a, b) \in Seq(Token)
           /\ Len(SubSeq(s, a, b)) = IF a <= b THEN b - a + 1 ELSE 0
           /\ \A x \in 1 .. b - a + 1 : SubSeq(s, a, b)[x] = s[a + x - 1]
<1>1. \A i \in a .. b : s[i] \in Token
  OBVIOUS
<1> QED
  BY <1>1, SubSeqProperties

LEMMA FromElements ==
    ASSUME NEW s \in Seq(Token), NEW a \in Nat, a <= Len(s)
    PROVE  /\ From(s, a + 1) \in Seq(Token) /\ Len(From(s, a + 1)) = Len(s) - a
           /\ \A x \in 1 .. Len(s) - a : From(s, a + 1)[x] = s[a + x]
<1>1. a + 1 \in Nat /\ a + 1 >= 1 /\ Len(s) \in Int /\ Len(s) <= Len(s)
  OBVIOUS
<1>2. /\ SubSeq(s, a + 1, Len(s)) \in Seq(Token)
      /\ Len(SubSeq(s, a + 1, Len(s))) =
           IF a + 1 <= Len(s) THEN Len(s) - (a + 1) + 1 ELSE 0
      /\ \A x \in 1 .. Len(s) - (a + 1) + 1 : SubSeq(s, a + 1, Len(s))[x] = s[(a + 1) + x - 1]
  BY <1>1, PartElements
<1>3. \A x \in 1 .. Len(s) - a : x \in 1 .. Len(s) - (a + 1) + 1 /\ (a + 1) + x - 1 = a + x
  OBVIOUS
<1> QED
  BY <1>2, <1>3 DEF From

\* Two sequences of the same tokens are the same.
LEMMA SameTokens ==
    ASSUME NEW s \in Seq(Token), NEW u \in Seq(Token), Len(s) = Len(u),
           \A x \in 1 .. Len(s) : s[x] = u[x]
    PROVE  s = u
BY SeqEqual

LEMMA PartOfFrom ==
    ASSUME NEW s \in Seq(Token), NEW a \in Nat, a <= Len(s), NEW p \in Nat, p >= 1,
           NEW q \in Int, q <= Len(s) - a
    PROVE  SubSeq(From(s, a + 1), p, q) = SubSeq(s, a + p, a + q)
<1> DEFINE f == From(s, a + 1)
           g == SubSeq(f, p, q)
           h == SubSeq(s, a + p, a + q)
<1>1. f \in Seq(Token) /\ Len(f) = Len(s) - a /\ \A x \in 1 .. Len(s) - a : f[x] = s[a + x]
  BY FromElements
<1> HIDE DEF f
<1>2. /\ g \in Seq(Token) /\ Len(g) = IF p <= q THEN q - p + 1 ELSE 0
      /\ \A x \in 1 .. q - p + 1 : g[x] = f[p + x - 1]
  BY <1>1, PartElements
<1>3. a + p \in Nat /\ a + p >= 1 /\ a + q \in Int /\ a + q <= Len(s)
  OBVIOUS
<1>4. /\ h \in Seq(Token) /\ Len(h) = IF a + p <= a + q THEN (a + q) - (a + p) + 1 ELSE 0
      /\ \A x \in 1 .. (a + q) - (a + p) + 1 : h[x] = s[(a + p) + x - 1]
  BY <1>3, PartElements
<1> HIDE DEF g, h
<1>5. Len(g) = Len(h)
  BY <1>2, <1>4
<1>6. ASSUME NEW x \in 1 .. Len(g) PROVE g[x] = h[x]
  <2>1. p <= q /\ x \in 1 .. q - p + 1 /\ x \in 1 .. (a + q) - (a + p) + 1
    BY <1>2
  <2>2. p + x - 1 \in 1 .. Len(s) - a /\ a + (p + x - 1) = (a + p) + x - 1
    BY <2>1
  <2>3. g[x] = f[p + x - 1] /\ h[x] = s[(a + p) + x - 1]
    BY <1>2, <1>4, <2>1
  <2>4. f[p + x - 1] = s[a + (p + x - 1)]
    BY <1>1, <2>2
  <2> QED
    BY <2>2, <2>3, <2>4
<1>7. g = h
  BY <1>2, <1>4, <1>5, <1>6, SameTokens
<1> QED
  BY <1>7 DEF f, g, h

LEMMA FromFrom ==
    ASSUME NEW s \in Seq(Token), NEW a \in Nat, a <= Len(s), NEW b \in Nat, a + b <= Len(s)
    PROVE  From(From(s, a + 1), b + 1) = From(s, (a + b) + 1)
<1>1. Len(From(s, a + 1)) = Len(s) - a
  BY FromElements
<1>2. b + 1 \in Nat /\ b + 1 >= 1 /\ Len(s) - a \in Int /\ Len(s) - a <= Len(s) - a
  OBVIOUS
<1>3. SubSeq(From(s, a + 1), b + 1, Len(s) - a) = SubSeq(s, a + (b + 1), a + (Len(s) - a))
  BY <1>2, PartOfFrom
<1>4. a + (b + 1) = (a + b) + 1 /\ a + (Len(s) - a) = Len(s)
  OBVIOUS
<1>5. From(From(s, a + 1), b + 1) = SubSeq(From(s, a + 1), b + 1, Len(s) - a)
  BY <1>1 DEF From
<1>6. From(s, (a + b) + 1) = SubSeq(s, (a + b) + 1, Len(s))
  BY DEF From
<1> QED
  BY <1>3, <1>4, <1>5, <1>6

\* The digits from the last one on.
Lasts(g, n, e) ==
    /\ g \in [0 .. n -> [sum : Nat, weight : Nat]] /\ g[0] = [sum |-> 0, weight |-> 1]
    /\ \A k \in 1 .. n : g[k] = [sum    |-> g[k - 1].sum + g[k - 1].weight * e[k],
                                 weight |-> 10 * g[k - 1].weight]

LEMMA LastsExist ==
    ASSUME NEW n \in Nat, NEW e, \A k \in 1 .. n : e[k] \in Nat
    PROVE  \E g : Lasts(g, n, e)
<1> DEFINE T == {k \in 0 .. n : ~\E g : Lasts(g, k, e)}
           R == [sum : Nat, weight : Nat]
<1> SUFFICES ASSUME T # {} PROVE FALSE
  OBVIOUS
<1>1. PICK x \in T : \A y \in T : x <= y
  <2>1. T \in SUBSET Nat
    OBVIOUS
  <2> QED
    BY <2>1, LeastNumber
<1>2. x \in 0 .. n /\ ~\E g : Lasts(g, x, e)
  OBVIOUS
<1>3. CASE x = 0
  <2> DEFINE g == [k \in 0 .. 0 |-> [sum |-> 0, weight |-> 1]]
  <2>1. g \in [0 .. 0 -> R] /\ g[0] = [sum |-> 0, weight |-> 1] /\ 1 .. 0 = {}
    OBVIOUS
  <2> HIDE DEF g
  <2>2. Lasts(g, 0, e)
    BY <2>1 DEF Lasts
  <2> QED
    BY <1>2, <1>3, <2>2
<1>4. CASE x > 0
  <2>1. x - 1 \in 0 .. n /\ x - 1 \notin T
    BY <1>1, <1>2, <1>4
  <2>2. PICK f : Lasts(f, x - 1, e)
    BY <2>1
  <2> DEFINE next == [sum    |-> f[x - 1].sum + f[x - 1].weight * e[x],
                      weight |-> 10 * f[x - 1].weight]
             g == [k \in 0 .. x |-> IF k = x THEN next ELSE f[k]]
  <2>3. f[x - 1] \in R /\ e[x] \in Nat
    BY <1>2, <1>4, <2>2 DEF Lasts
  <2>4. next \in R
    <3>1. f[x - 1].sum \in Nat /\ f[x - 1].weight \in Nat
      BY <2>3
    <3>2. f[x - 1].weight * e[x] \in Nat
      BY <2>3, <3>1
    <3> QED
      BY <3>1, <3>2
  <2>5. \A k \in 0 .. x - 1 : k \in 0 .. x /\ k # x /\ f[k] \in R
    BY <1>2, <2>2 DEF Lasts
  <2>6. \A k \in 0 .. x : k = x \/ k \in 0 .. x - 1
    BY <1>2
  <2> HIDE DEF next
  <2>7. g \in [0 .. x -> R]
    BY <2>4, <2>5, <2>6
  <2>8. g[x] = next /\ \A k \in 0 .. x - 1 : g[k] = f[k]
    BY <1>2, <2>5
  <2> HIDE DEF g
  <2>9. g[0] = [sum |-> 0, weight |-> 1]
    BY <1>2, <1>4, <2>2, <2>8 DEF Lasts
  <2>10. ASSUME NEW k \in 1 .. x
         PROVE  g[k] = [sum    |-> g[k - 1].sum + g[k - 1].weight * e[k],
                        weight |-> 10 * g[k - 1].weight]
    <3>1. k - 1 \in 0 .. x - 1
      BY <1>2
    <3>2. g[k - 1] = f[k - 1]
      BY <2>8, <3>1
    <3>3. CASE k = x
      BY <2>8, <3>2, <3>3 DEF next
    <3>4. CASE k # x
      <4>1. k \in 0 .. x - 1 /\ k \in 1 .. x - 1
        BY <1>2, <3>4
      <4>2. g[k] = f[k]
        BY <2>8, <4>1
      <4> QED
        BY <2>2, <3>2, <4>1, <4>2 DEF Lasts
    <3> QED
      BY <3>3, <3>4
  <2>11. Lasts(g, x, e)
    BY <2>7, <2>9, <2>10 DEF Lasts
  <2> QED
    BY <1>2, <2>11
<1> QED
  BY <1>2, <1>3, <1>4

\* The digits e are the digits d, from the last one on.
Reversed(e, a, b, d) ==
    /\ \A n \in a + 1 .. b : d[n] \in Nat
    /\ \A k \in 1 .. b - a : e[k] = d[b + 1 - k]

\* Read from the first digit on or from the last one, it is the same number.
LEMMA SumsAreLasts ==
    ASSUME NEW a \in Nat, NEW b \in Nat, a <= b, NEW d, NEW f, NEW g, NEW e, NEW size,
           size = b - a, Sums(f, a, b, d), Lasts(g, size, e), Reversed(e, a, b, d)
    PROVE  f[b] = g[size].sum
<1> USE DEF Reversed
<1> DEFINE P(k) == f[b] = g[k].sum + g[k].weight * f[b - k]
           T == {k \in 0 .. b - a : ~P(k)}
<1>1. T = {}
  <2> SUFFICES ASSUME T # {} PROVE FALSE
    OBVIOUS
  <2>1. PICK x \in T : \A y \in T : x <= y
    <3>1. T \in SUBSET Nat
      OBVIOUS
    <3> QED
      BY <3>1, LeastNumber
  <2>2. x \in 0 .. b - a /\ ~P(x)
    OBVIOUS
  <2>3. CASE x = 0
    <3>1. g[0].sum = 0 /\ g[0].weight = 1 /\ f[b] \in Nat /\ b - 0 = b
      BY DEF Lasts, Sums
    <3>2. P(0)
      BY <3>1
    <3> QED
      BY <2>2, <2>3, <3>2
  <2>4. CASE x > 0
    <3>1. x - 1 \in 0 .. b - a /\ x - 1 \notin T /\ x \in 1 .. b - a
      BY <2>1, <2>2, <2>4
    <3>2. P(x - 1)
      BY <3>1
    <3>3. b - (x - 1) \in a .. b /\ b - (x - 1) # a /\ (b - (x - 1)) - 1 = b - x
          /\ b - x \in a .. b /\ b - (x - 1) \in a + 1 .. b /\ b + 1 - x = b - (x - 1)
      BY <3>1
    <3>4. f[b - (x - 1)] = 10 * f[b - x] + d[b - (x - 1)]
      BY <3>3 DEF Sums
    <3>5. e[x] = d[b - (x - 1)] /\ e[x] \in Nat
      BY <3>1, <3>3
    <3>6. /\ g[x].sum = g[x - 1].sum + g[x - 1].weight * e[x]
          /\ g[x].weight = 10 * g[x - 1].weight
          /\ g[x - 1].sum \in Nat /\ g[x - 1].weight \in Nat
      <4>1. g[x] = [sum    |-> g[x - 1].sum + g[x - 1].weight * e[x],
                    weight |-> 10 * g[x - 1].weight]
        BY <3>1 DEF Lasts
      <4>2. g[x - 1] \in [sum : Nat, weight : Nat]
        BY <3>1 DEF Lasts
      <4> QED
        BY <4>1, <4>2
    <3>7. f[b - x] \in Nat
      BY <3>3 DEF Sums
    <3>8. ASSUME NEW s \in Nat, NEW w \in Nat, NEW c \in Nat, NEW h \in Nat
          PROVE  s + w * (10 * h + c) = (s + w * c) + (10 * w) * h
      OBVIOUS
    <3>9. P(x)
      BY <3>2, <3>4, <3>5, <3>6, <3>7, <3>8
    <3> QED
      BY <2>2, <3>9
  <2> QED
    BY <2>2, <2>3, <2>4
<1>2. P(b - a)
  BY <1>1
<1>3. b - (b - a) = a /\ f[a] = 0 /\ g[b - a].weight \in Nat /\ g[b - a].sum \in Nat
  BY DEF Sums, Lasts
<1> QED
  BY <1>2, <1>3

\* A number, by its sign and its digits.
LEMMA NumberParts ==
    ASSUME NEW s \in Seq(Token)
    PROVE  IsNumber(s) <=> SignOf(s) < Len(s) /\ \A i \in SignOf(s) + 1 .. Len(s) : s[i] \in Digit
<1>1. Len(s) \in Nat
  OBVIOUS
<1>2. CASE s # <<>> /\ s[1] = "-"
  BY <1>1, <1>2 DEF IsNumber, SignOf
<1>3. CASE ~(s # <<>> /\ s[1] = "-")
  BY <1>1, <1>3 DEF IsNumber, SignOf
<1> QED
  BY <1>2, <1>3

LEMMA NumberIs ==
    ASSUME NEW s \in Seq(Token), IsNumber(s)
    PROVE  LET size == Len(s) - SignOf(s)
               e == [k \in 1 .. size |-> DigitValue[s[Len(s) + 1 - k]]]
           IN  \E g : /\ Lasts(g, size, e)
                      /\ Number(s) = IF SignOf(s) = 1 THEN -g[size].sum ELSE g[size].sum
<1> DEFINE size == Len(s) - SignOf(s)
           e == [k \in 1 .. size |-> DigitValue[s[Len(s) + 1 - k]]]
           E(h) == [k \in 0 .. size |->
                      IF k = 0 THEN [sum |-> 0, weight |-> 1]
                      ELSE [sum    |-> h[k - 1].sum +
                                         h[k - 1].weight * DigitValue[s[Len(s) + 1 - k]],
                            weight |-> 10 * h[k - 1].weight]]
           last == CHOOSE h : h = E(h)
           R == [sum : Nat, weight : Nat]
<1>1. /\ SignOf(s) \in 0 .. 1 /\ SignOf(s) < Len(s) /\ Len(s) \in Nat
      /\ \A i \in SignOf(s) + 1 .. Len(s) : s[i] \in Digit
  BY NumberParts DEF SignOf
<1>2. s # <<>> /\ (SignOf(s) = 1 <=> s[1] = "-")
  BY <1>1 DEF SignOf
<1>3. size = IF s[1] = "-" THEN Len(s) - 1 ELSE Len(s)
  BY <1>1, <1>2
<1>4. Number(s) = IF SignOf(s) = 1 THEN -last[size].sum ELSE last[size].sum
  <2> DEFINE lastOf(n) ==
               CHOOSE h : h = [k \in 0 .. n |->
                      IF k = 0 THEN [sum |-> 0, weight |-> 1]
                      ELSE [sum    |-> h[k - 1].sum +
                                         h[k - 1].weight * DigitValue[s[Len(s) + 1 - k]],
                            weight |-> 10 * h[k - 1].weight]]
             size1 == IF s[1] = "-" THEN Len(s) - 1 ELSE Len(s)
  <2>1. Number(s) = IF s[1] = "-" THEN -lastOf(size1)[size1].sum ELSE lastOf(size1)[size1].sum
    BY DEF Number
  <2>2. lastOf(size) = last
    OBVIOUS
  <2> HIDE DEF lastOf, last, size
  <2> QED
    BY <1>2, <1>3, <2>1, <2>2
<1>5. size \in Nat
  BY <1>1
<1>6. \A k \in 1 .. size : e[k] = DigitValue[s[Len(s) + 1 - k]] /\ e[k] \in Nat
  <2>1. ASSUME NEW k \in 1 .. size PROVE DigitValue[s[Len(s) + 1 - k]] \in Nat
    <3>1. Len(s) + 1 - k \in SignOf(s) + 1 .. Len(s)
      BY <1>1
    <3>2. s[Len(s) + 1 - k] \in Digit
      BY <1>1, <3>1
    <3> QED
      BY <3>2 DEF DigitValue
  <2> QED
    BY <2>1
<1> HIDE DEF size, e
<1>7. PICK f : Lasts(f, size, e)
  BY <1>5, <1>6, LastsExist
<1>8. f = E(f)
  <2>1. \A k \in 0 .. size : k # 0 => k \in 1 .. size
    BY <1>5
  <2>2. \A k \in 0 .. size :
          f[k] = IF k = 0 THEN [sum |-> 0, weight |-> 1]
                 ELSE [sum    |-> f[k - 1].sum +
                                    f[k - 1].weight * DigitValue[s[Len(s) + 1 - k]],
                       weight |-> 10 * f[k - 1].weight]
    BY <1>6, <1>7, <2>1 DEF Lasts
  <2>3. f = [k \in 0 .. size |-> f[k]]
    BY <1>7 DEF Lasts
  <2> QED
    BY <2>2, <2>3, Zenon
<1>9. last = E(last)
  <2> HIDE DEF E
  <2> QED
    BY <1>8
<1> HIDE DEF last
<1>10. /\ last[0] = [sum |-> 0, weight |-> 1]
       /\ \A k \in 1 .. size :
            last[k] = [sum    |-> last[k - 1].sum + last[k - 1].weight * e[k],
                       weight |-> 10 * last[k - 1].weight]
  <2>1. \A k \in 0 .. size :
          last[k] = IF k = 0 THEN [sum |-> 0, weight |-> 1]
                    ELSE [sum    |-> last[k - 1].sum +
                                       last[k - 1].weight * DigitValue[s[Len(s) + 1 - k]],
                          weight |-> 10 * last[k - 1].weight]
    BY <1>9
  <2>2. 0 \in 0 .. size /\ \A k \in 1 .. size : k \in 0 .. size /\ k # 0
    BY <1>5
  <2> QED
    BY <1>6, <2>1, <2>2
<1>11. \A k \in 0 .. size : last[k] \in R
  <2> DEFINE U == {k \in 0 .. size : last[k] \notin R}
  <2> SUFFICES ASSUME U # {} PROVE FALSE
    OBVIOUS
  <2>1. PICK x \in U : \A y \in U : x <= y
    <3>1. U \in SUBSET Nat
      OBVIOUS
    <3> QED
      BY <3>1, LeastNumber
  <2>2. x \in 0 .. size /\ last[x] \notin R
    OBVIOUS
  <2>3. x # 0
    BY <1>10, <2>2
  <2>4. x \in 1 .. size /\ x - 1 \in 0 .. size /\ x - 1 \notin U
    BY <1>5, <2>1, <2>2, <2>3
  <2>5. last[x - 1] \in R
    BY <2>4
  <2>6. last[x - 1].sum \in Nat /\ last[x - 1].weight \in Nat /\ e[x] \in Nat
    BY <1>6, <2>4, <2>5
  <2>7. last[x - 1].weight * e[x] \in Nat
    BY <2>6
  <2> DEFINE a == last[x - 1].sum + last[x - 1].weight * e[x]
             b == 10 * last[x - 1].weight
  <2>8. last[x] = [sum |-> a, weight |-> b]
    BY <1>10, <2>4
  <2>9. a \in Nat /\ b \in Nat
    BY <2>6, <2>7
  <2> HIDE DEF a, b
  <2>10. last[x] \in R
    BY <2>8, <2>9
  <2> QED
    BY <2>2, <2>10
<1>12. last \in [0 .. size -> R]
  <2>1. last = [k \in 0 .. size |-> last[k]]
    BY <1>9
  <2> QED
    BY <1>11, <2>1
<1>13. Lasts(last, size, e)
  BY <1>10, <1>12 DEF Lasts
<1> QED
  BY <1>4, <1>13 DEF size, e

\* What strtoul reads is a number, and if that fits an int it is what the int
\* is set to.
LEMMA StrtoulRight ==
    ASSUME NEW s \in Seq(Token), strtoul(s).end # 0
    PROVE  LET read == SubSeq(s, 1, strtoul(s).end)
           IN  /\ IsNumber(read)
               /\ Number(read) \in CInt => int(strtoul(s).value) = Number(read)
<1> DEFINE end == strtoul(s).end
           r == SubSeq(s, 1, end)
           sg == SignOf(s)
<1>1. PICK stop, f : Reads(s, stop, f)
  BY StrtoulReads
<1>2. sg \in 0 .. 1 /\ Len(s) \in Nat /\ (sg = 1 <=> s # <<>> /\ s[1] = "-")
  BY DEF SignOf
<1>3. /\ end = stop /\ sg < stop /\ stop <= Len(s) /\ stop \in Nat
      /\ \A i \in sg + 1 .. stop : s[i] \in Digit
  BY <1>1, <1>2 DEF Reads
<1>4. /\ r \in Seq(Token) /\ Len(r) = stop /\ \A x \in 1 .. stop : r[x] = s[x]
  <2>1. /\ SubSeq(s, 1, stop) \in Seq(Token)
        /\ Len(SubSeq(s, 1, stop)) = IF 1 <= stop THEN stop - 1 + 1 ELSE 0
        /\ \A x \in 1 .. stop - 1 + 1 : SubSeq(s, 1, stop)[x] = s[1 + x - 1]
    BY <1>3, PartElements
  <2>2. stop - 1 + 1 = stop /\ 1 <= stop /\ \A x \in 1 .. stop : 1 + x - 1 = x
    BY <1>2, <1>3
  <2> QED
    BY <1>3, <2>1, <2>2
<1> HIDE DEF r, end
<1>5. SignOf(r) = sg
  <2>1. r # <<>> /\ s # <<>> /\ r[1] = s[1]
    BY <1>2, <1>3, <1>4
  <2> QED
    BY <2>1 DEF SignOf
<1> HIDE DEF sg
<1>6. IsNumber(r)
  <2>1. \A i \in sg + 1 .. stop : i \in 1 .. stop
    BY <1>2, <1>3
  <2>2. \A i \in SignOf(r) + 1 .. Len(r) : r[i] \in Digit
    BY <1>3, <1>4, <1>5, <2>1
  <2> QED
    BY <1>3, <1>4, <1>5, <2>2, NumberParts
<1> DEFINE size == stop - sg
           e == [k \in 1 .. size |-> DigitValue[r[stop + 1 - k]]]
           d == DigitsOf(s, sg, stop)
<1>7. PICK g : Lasts(g, size, e) /\ Number(r) = IF sg = 1 THEN -g[size].sum ELSE g[size].sum
  BY <1>4, <1>5, <1>6, NumberIs
<1>8. Sums(f, sg, stop, d)
  BY <1>1 DEF Reads, sg
<1>9. \A n \in sg + 1 .. stop : d[n] = DigitValue[s[n]] /\ d[n] \in Nat
  BY <1>3 DEF DigitsOf, DigitValue
<1>10. \A k \in 1 .. size : e[k] = d[stop + 1 - k]
  <2> SUFFICES ASSUME NEW k \in 1 .. size PROVE e[k] = d[stop + 1 - k]
    OBVIOUS
  <2>1. stop + 1 - k \in sg + 1 .. stop /\ stop + 1 - k \in 1 .. stop
    BY <1>2, <1>3
  <2>2. r[stop + 1 - k] = s[stop + 1 - k]
    BY <1>4, <2>1
  <2>3. d[stop + 1 - k] = DigitValue[s[stop + 1 - k]]
    BY <1>9, <2>1
  <2> QED
    BY <2>2, <2>3
<1> HIDE DEF d, e
<1>11. f[stop] = g[size].sum
  <2>1. sg \in Nat /\ sg <= stop /\ stop \in Nat
    BY <1>2, <1>3
  <2>2. \A n \in sg + 1 .. stop : d[n] \in Nat
    BY <1>9
  <2>3. Reversed(e, sg, stop, d)
    BY <1>10, <2>2 DEF Reversed
  <2> HIDE DEF size
  <2>4. size = stop - sg
    BY DEF size
  <2> QED
    BY <1>7, <1>8, <2>1, <2>3, <2>4, SumsAreLasts
<1>12. f[stop] \in Nat
  BY <1>2, <1>3, <1>8 DEF Sums
<1>13. Number(r) = IF sg = 1 THEN -f[stop] ELSE f[stop]
  BY <1>7, <1>11
<1>14. strtoul(s).value = IF f[stop] > ULONG_MAX THEN ULONG_MAX ELSE Number(r)
  BY <1>1, <1>13 DEF Reads, sg
<1>15. Number(r) \in CInt => ~(f[stop] > ULONG_MAX)
  BY <1>2, <1>12, <1>13, ConnectAssumption DEF CInt
<1>16. Number(r) \in CInt => int(strtoul(s).value) = Number(r)
  BY <1>14, <1>15, IntKeeps
<1> QED
  BY <1>6, <1>16 DEF r, end

\* It reads the whole of a number that ends the string, or stands before a dot.
LEMMA StrtoulWhole ==
    ASSUME NEW s \in Seq(Token), NEW m \in 1 .. Len(s), IsNumber(SubSeq(s, 1, m)),
           m = Len(s) \/ s[m + 1] = "."
    PROVE  strtoul(s).end = m
<1> DEFINE r == SubSeq(s, 1, m)
<1>1. PICK stop, f : Reads(s, stop, f)
  BY StrtoulReads
<1>2. /\ r \in Seq(Token) /\ Len(r) = m /\ \A x \in 1 .. m : r[x] = s[x]
  <2>1. /\ SubSeq(s, 1, m) \in Seq(Token)
        /\ Len(SubSeq(s, 1, m)) = IF 1 <= m THEN m - 1 + 1 ELSE 0
        /\ \A x \in 1 .. m - 1 + 1 : SubSeq(s, 1, m)[x] = s[1 + x - 1]
    BY PartElements
  <2>2. m - 1 + 1 = m /\ \A x \in 1 .. m : 1 + x - 1 = x
    OBVIOUS
  <2> QED
    BY <2>1, <2>2
<1> HIDE DEF r
<1>3. SignOf(r) = SignOf(s) /\ SignOf(s) \in 0 .. 1
  <2>1. r # <<>> /\ s # <<>> /\ r[1] = s[1]
    BY <1>2
  <2> QED
    BY <2>1 DEF SignOf
<1>4. SignOf(s) < m /\ \A i \in SignOf(s) + 1 .. m : s[i] \in Digit
  <2>1. IsNumber(r)
    BY DEF r
  <2>2. \A i \in SignOf(s) + 1 .. m : i \in 1 .. m
    BY <1>3
  <2> QED
    BY <1>2, <1>3, <2>1, <2>2, NumberParts
<1>5. m <= stop /\ stop <= Len(s) /\ stop \in Nat /\ m \in Nat
  BY <1>1, <1>3, <1>4 DEF Reads
<1>6. stop = m
  <2> SUFFICES ASSUME m < stop PROVE FALSE
    BY <1>5
  <2>1. m + 1 \in SignOf(s) + 1 .. stop /\ m # Len(s)
    BY <1>3, <1>4, <1>5
  <2>2. s[m + 1] \in Digit
    BY <1>1, <2>1 DEF Reads
  <2> QED
    BY <2>1, <2>2 DEF Digit
<1> QED
  BY <1>1, <1>3, <1>4, <1>6 DEF Reads

\* The screen number is a number and nothing else.
LEMMA ScreenEnds ==
    ASSUME NEW s \in Seq(Token)
    PROVE  screen_ends(strtoul(s).end, s) <=> IsNumber(s)
<1>1. SubSeq(s, 1, Len(s)) = s /\ Len(s) \in Nat
  BY SubSeqFull
<1>2. ASSUME screen_ends(strtoul(s).end, s) PROVE IsNumber(s)
  BY <1>1, <1>2, StrtoulRight DEF screen_ends
<1>3. ASSUME IsNumber(s) PROVE screen_ends(strtoul(s).end, s)
  <2>1. Len(s) \in 1 .. Len(s)
    BY <1>1, <1>3, NumberParts DEF SignOf
  <2>2. strtoul(s).end = Len(s)
    BY <1>1, <1>3, <2>1, StrtoulWhole
  <2> QED
    BY <1>1, <2>1, <2>2 DEF screen_ends
<1> QED
  BY <1>2, <1>3

\* How a name is read, by the places i, j and k of the slash, the colon and
\* what follows the display number.
ReadAt(name, i, j, k) ==
    LET r == reading(name)
        number == strtoul(From(name, j + 1))
    IN  /\ i \in 0 .. Len(name) /\ j \in i .. Len(name) /\ k \in j + 1 .. Len(name) + 1
        /\ i # 0 => name[i] = "/"
        /\ \A x \in 1 .. Len(name) : name[x] = "/" => x <= i
        /\ j > i => name[j] = ":"
        /\ \A x \in i + 1 .. Len(name) : name[x] = ":" => x <= j
        /\ k = j + 1 + number.end
        /\ r.slash = (i # 0) /\ (r.slash <=> strrchr(name, "/") # 0)
        /\ r.valid <=> /\ j > i /\ number.end # 0
                       /\ k > Len(name) \/ (name[k] = "." /\ IsNumber(From(name, k + 1)))
        /\ r.out.protocol = SubSeq(name, 1, i - 1)
        /\ r.out.host = SubSeq(name, i + 1, j - 1)
        /\ r.out.display = int(number.value)
        /\ r.out.screen = IF k > Len(name) THEN 0 ELSE int(strtoul(From(name, k + 1)).value)

LEMMA ReadingAt ==
    ASSUME NEW name \in Seq(Token)
    PROVE  \E i, j, k : ReadAt(name, i, j, k)
<1> DEFINE i      == strrchr(name, "/")
           rest   == From(name, i + 1)
           colon  == strrchr(rest, ":")
           number == strtoul(From(rest, colon + 1))
           dot    == colon + 1 + number.end
           after  == From(rest, dot + 1)
           screen == strtoul(after)
           alone  == dot > Len(rest)
           r      == reading(name)
           valid  == /\ colon # 0 /\ number.end # 0
                     /\ alone \/ (rest[dot] = "." /\ screen_ends(screen.end, after))
           L      == Len(name)
<1>1. r = [valid |-> valid,
           slash |-> i # 0,
           out   |-> [protocol |-> SubSeq(name, 1, i - 1),
                      host     |-> SubSeq(rest, 1, colon - 1),
                      display  |-> int(number.value),
                      screen   |-> IF alone THEN 0 ELSE int(screen.value)]]
  BY DEF reading
<1>2. /\ r.valid = valid /\ r.slash = (i # 0) /\ r.out.protocol = SubSeq(name, 1, i - 1)
      /\ r.out.host = SubSeq(rest, 1, colon - 1) /\ r.out.display = int(number.value)
      /\ r.out.screen = IF alone THEN 0 ELSE int(screen.value)
  <2> HIDE DEF valid, i, rest, colon, number, alone, screen, r
  <2> QED
    BY <1>1
<1> HIDE DEF r
<1>3. /\ i \in 0 .. L /\ L \in Nat /\ (i # 0 => name[i] = "/")
      /\ \A x \in 1 .. L : name[x] = "/" => x <= i
  BY StrrchrLast
<1>4. r.slash <=> strrchr(name, "/") # 0
  BY <1>2
<1> HIDE DEF i
<1>5. /\ rest \in Seq(Token) /\ Len(rest) = L - i
      /\ \A x \in 1 .. L - i : rest[x] = name[i + x]
  BY <1>3, FromElements
<1>6. \A b \in 0 .. L - i : From(rest, b + 1) = From(name, (i + b) + 1)
  BY <1>3, FromFrom
<1>7. \A b \in 0 .. L - i : SubSeq(rest, 1, b - 1) = SubSeq(name, i + 1, (i + b) - 1)
  <2> SUFFICES ASSUME NEW b \in 0 .. L - i
               PROVE  SubSeq(rest, 1, b - 1) = SubSeq(name, i + 1, (i + b) - 1)
    OBVIOUS
  <2>1. b - 1 \in Int /\ b - 1 <= L - i /\ i + (b - 1) = (i + b) - 1 /\ i \in Nat /\ i <= L
    BY <1>3
  <2>2. 1 \in Nat /\ 1 >= 1
    OBVIOUS
  <2>3. SubSeq(From(name, i + 1), 1, b - 1) = SubSeq(name, i + 1, i + (b - 1))
    BY <2>1, <2>2, PartOfFrom
  <2> QED
    BY <2>1, <2>3
<1> HIDE DEF rest
<1>8. /\ colon \in 0 .. L - i /\ (colon # 0 => rest[colon] = ":")
      /\ \A x \in 1 .. L - i : rest[x] = ":" => x <= colon
  BY <1>5, StrrchrLast
<1> HIDE DEF colon
<1> DEFINE j == i + colon
<1>9. j \in i .. L /\ j \in Nat /\ (j > i <=> colon # 0)
  BY <1>3, <1>8
<1>10. From(rest, colon + 1) = From(name, j + 1)
  BY <1>6, <1>8
<1>11. From(name, j + 1) \in Seq(Token) /\ Len(From(name, j + 1)) = L - j
  BY <1>9, FromElements
<1>12. number = strtoul(From(name, j + 1)) /\ number.end \in 0 .. L - j
  BY <1>10, <1>11, StrtoulTyped
<1> HIDE DEF number
<1> DEFINE k == j + 1 + number.end
<1>13. k \in j + 1 .. L + 1 /\ k = i + dot /\ (alone <=> k > L) /\ dot \in Nat /\ dot >= 1
  <2>1. PICK e : e = number.end
    OBVIOUS
  <2>2. e \in 0 .. L - j /\ dot = colon + 1 + e /\ k = j + 1 + e
    BY <1>12, <2>1
  <2> HIDE DEF k, dot
  <2>3. k \in j + 1 .. L + 1 /\ k = i + dot /\ dot \in Nat /\ dot >= 1
    BY <1>3, <1>8, <2>2
  <2>4. dot > L - i <=> k > L
    BY <1>3, <2>3
  <2> QED
    BY <1>5, <2>3, <2>4
<1>14. ~alone => /\ after = From(name, k + 1) /\ after \in Seq(Token) /\ rest[dot] = name[k]
  <2> SUFFICES ASSUME ~alone
               PROVE  after = From(name, k + 1) /\ after \in Seq(Token) /\ rest[dot] = name[k]
    OBVIOUS
  <2>1. dot \in 0 .. L - i /\ dot \in 1 .. L - i /\ k \in Nat /\ k <= L
    BY <1>3, <1>9, <1>13
  <2> HIDE DEF dot, k
  <2>2. after = From(name, k + 1) /\ rest[dot] = name[k]
    BY <1>5, <1>6, <1>13, <2>1
  <2>3. From(name, k + 1) \in Seq(Token)
    BY <2>1, FromElements
  <2> QED
    BY <2>2, <2>3
<1> HIDE DEF dot, k, after
<1>15. valid <=> /\ j > i /\ number.end # 0
                 /\ k > L \/ (name[k] = "." /\ IsNumber(From(name, k + 1)))
  BY <1>9, <1>13, <1>14, ScreenEnds
<1>16. j > i => name[j] = ":"
  BY <1>5, <1>8, <1>9
<1>17. \A x \in i + 1 .. L : name[x] = ":" => x <= j
  <2> SUFFICES ASSUME NEW x \in i + 1 .. L, name[x] = ":" PROVE x <= j
    OBVIOUS
  <2>1. x - i \in 1 .. L - i /\ i + (x - i) = x
    BY <1>3
  <2>2. rest[x - i] = ":"
    BY <1>5, <2>1
  <2>3. x - i <= colon
    BY <1>8, <2>1, <2>2
  <2> QED
    BY <1>3, <1>8, <2>3
<1>18. r.out.host = SubSeq(name, i + 1, j - 1)
  BY <1>2, <1>7, <1>8
<1>19. r.out.screen = IF k > L THEN 0 ELSE int(strtoul(From(name, k + 1)).value)
  BY <1>2, <1>13, <1>14
<1>20. k = j + 1 + strtoul(From(name, j + 1)).end
  BY <1>12 DEF k
<1>21. r.out.display = int(strtoul(From(name, j + 1)).value)
  BY <1>2, <1>12
<1>22. r.valid <=> /\ j > i /\ strtoul(From(name, j + 1)).end # 0
                   /\ k > L \/ (name[k] = "." /\ IsNumber(From(name, k + 1)))
  BY <1>2, <1>12, <1>15
<1> HIDE DEF j, valid
<1>23. ReadAt(name, i, j, k)
  BY <1>2, <1>3, <1>4, <1>9, <1>13, <1>16, <1>17, <1>18, <1>19, <1>20, <1>21, <1>22
     DEF ReadAt, r
<1> QED
  BY <1>23

LEMMA NumberTokens ==
    ASSUME NEW s \in Seq(Token), IsNumber(s), NEW x \in 1 .. Len(s)
    PROVE  s[x] # ":"
<1>1. \A i \in SignOf(s) + 1 .. Len(s) : s[i] \in Digit
  BY NumberParts
<1>2. CASE x \in SignOf(s) + 1 .. Len(s)
  BY <1>1, <1>2 DEF Digit
<1>3. CASE x \notin SignOf(s) + 1 .. Len(s)
  <2>1. x = 1 /\ s[1] = "-"
    BY <1>3 DEF SignOf
  <2> QED
    BY <2>1
<1> QED
  BY <1>2, <1>3

\* The places i, j and k are a way to read the name.
SplitAt(name, i, j, k) ==
    /\ i \in 0 .. Len(name) /\ j \in 1 .. Len(name) /\ k \in 1 .. Len(name) + 1
    /\ i < j /\ j < k
    /\ \A x \in 1 .. Len(name) : name[x] = "/" => x <= i
    /\ i # 0 => name[i] = "/"
    /\ name[j] = ":" /\ IsNumber(SubSeq(name, j + 1, k - 1))
    /\ k <= Len(name) => name[k] = "." /\ IsNumber(From(name, k + 1))

LEMMA SplitsAre ==
    ASSUME NEW name
    PROVE  /\ \A i, j, k : SplitAt(name, i, j, k) <=> <<i, j, k>> \in Splits(name)
           /\ \A split \in Splits(name) : split = <<split[1], split[2], split[3]>>
<1>1. ASSUME NEW i, NEW j, NEW k, SplitAt(name, i, j, k) PROVE <<i, j, k>> \in Splits(name)
  BY <1>1 DEF SplitAt, Splits
<1>2. ASSUME NEW i, NEW j, NEW k, <<i, j, k>> \in Splits(name) PROVE SplitAt(name, i, j, k)
  BY <1>2 DEF SplitAt, Splits
<1>3. ASSUME NEW split \in Splits(name) PROVE split = <<split[1], split[2], split[3]>>
  BY <1>3 DEF Splits
<1> QED
  BY <1>1, <1>2, <1>3

\* The only way to read a name is the code's.
LEMMA SplitIsReading ==
    ASSUME NEW name \in Seq(Token), NEW i, NEW j, NEW k, ReadAt(name, i, j, k),
           NEW a, NEW b, NEW c, SplitAt(name, a, b, c)
    PROVE  a = i /\ b = j /\ c = k /\ reading(name).valid
<1> DEFINE L == Len(name)
           s == From(name, b + 1)
           m == c - 1 - b
<1>0. L \in Nat
  OBVIOUS
<1>1. /\ i \in 0 .. L /\ j \in i .. L /\ k \in j + 1 .. L + 1
      /\ i # 0 => name[i] = "/"
      /\ \A x \in 1 .. L : name[x] = "/" => x <= i
      /\ j > i => name[j] = ":"
      /\ \A x \in i + 1 .. L : name[x] = ":" => x <= j
      /\ k = j + 1 + strtoul(From(name, j + 1)).end
      /\ reading(name).valid <=>
            /\ j > i /\ strtoul(From(name, j + 1)).end # 0
            /\ k > L \/ (name[k] = "." /\ IsNumber(From(name, k + 1)))
  BY DEF ReadAt
<1>2. /\ a \in 0 .. L /\ b \in 1 .. L /\ c \in 1 .. L + 1 /\ a < b /\ b < c
      /\ \A x \in 1 .. L : name[x] = "/" => x <= a
      /\ a # 0 => name[a] = "/"
      /\ name[b] = ":" /\ IsNumber(SubSeq(name, b + 1, c - 1))
      /\ c <= L => name[c] = "." /\ IsNumber(From(name, c + 1))
  BY DEF SplitAt
<1>3. a = i
  <2>1. a # 0 => a <= i
    BY <1>1, <1>2
  <2>2. i # 0 => i <= a
    BY <1>1, <1>2
  <2> QED
    BY <1>1, <1>2, <2>1, <2>2
<1>4. b \in i + 1 .. L /\ b <= j /\ j > i /\ name[j] = ":"
  BY <1>1, <1>2, <1>3
<1>5. /\ SubSeq(name, b + 1, c - 1) \in Seq(Token)
      /\ Len(SubSeq(name, b + 1, c - 1)) = m
      /\ \A x \in 1 .. m : SubSeq(name, b + 1, c - 1)[x] = name[b + x]
  <2>1. b + 1 \in Nat /\ b + 1 >= 1 /\ c - 1 \in Int /\ c - 1 <= L
    BY <1>2
  <2>2. /\ SubSeq(name, b + 1, c - 1) \in Seq(Token)
        /\ Len(SubSeq(name, b + 1, c - 1)) =
              IF b + 1 <= c - 1 THEN (c - 1) - (b + 1) + 1 ELSE 0
        /\ \A x \in 1 .. (c - 1) - (b + 1) + 1 :
              SubSeq(name, b + 1, c - 1)[x] = name[(b + 1) + x - 1]
    BY <2>1, PartElements
  <2>3. /\ (c - 1) - (b + 1) + 1 = m /\ (b + 1 <= c - 1 <=> m > 0) /\ m \in Nat
        /\ \A x \in 1 .. m : (b + 1) + x - 1 = b + x
    BY <1>2
  <2> DEFINE q == SubSeq(name, b + 1, c - 1)
  <2> HIDE DEF m, q
  <2>4. Len(q) = IF m > 0 THEN m ELSE 0
    BY <2>2, <2>3 DEF q
  <2>5. Len(q) = m
    BY <2>3, <2>4
  <2>6. \A x \in 1 .. m : q[x] = name[b + x]
    BY <2>2, <2>3 DEF q
  <2> QED
    BY <2>2, <2>5, <2>6 DEF q
<1>6. m \in 1 .. L - b
  <2>1. SignOf(SubSeq(name, b + 1, c - 1)) < m
    BY <1>2, <1>5, NumberParts
  <2>2. SignOf(SubSeq(name, b + 1, c - 1)) \in {0, 1}
    BY DEF SignOf
  <2> QED
    BY <1>2, <2>1, <2>2
<1>7. b = j
  <2> SUFFICES ASSUME b < j PROVE FALSE
    BY <1>1, <1>2, <1>4
  <2>1. CASE j < c
    <3>1. j - b \in 1 .. m /\ b + (j - b) = j
      BY <1>1, <1>2, <2>1
    <3>2. SubSeq(name, b + 1, c - 1)[j - b] = ":"
      BY <1>4, <1>5, <3>1
    <3> QED
      BY <1>2, <1>5, <3>1, <3>2, NumberTokens
  <2>2. CASE j = c
    BY <1>1, <1>2, <1>4, <2>2
  <2>3. CASE j > c
    <3>1. c \in Nat /\ c <= L
      BY <1>1, <1>2, <2>3
    <3>2. /\ From(name, c + 1) \in Seq(Token) /\ Len(From(name, c + 1)) = L - c
          /\ \A x \in 1 .. L - c : From(name, c + 1)[x] = name[c + x]
      BY <3>1, FromElements
    <3>3. j - c \in 1 .. L - c /\ c + (j - c) = j
      BY <1>1, <2>3, <3>1
    <3>4. From(name, c + 1)[j - c] = ":"
      BY <1>4, <3>2, <3>3
    <3>5. IsNumber(From(name, c + 1))
      BY <1>2, <3>1
    <3> QED
      BY <3>2, <3>3, <3>4, <3>5, NumberTokens
  <2> QED
    BY <1>1, <1>2, <2>1, <2>2, <2>3
<1>8. /\ s \in Seq(Token) /\ Len(s) = L - b /\ \A x \in 1 .. L - b : s[x] = name[b + x]
  BY <1>2, FromElements
<1>9. SubSeq(s, 1, m) = SubSeq(name, b + 1, c - 1)
  <2>1. b \in Nat /\ b <= L /\ 1 \in Nat /\ 1 >= 1 /\ m \in Int /\ m <= L - b /\ b + m = c - 1
    BY <1>2
  <2> HIDE DEF m
  <2>2. SubSeq(From(name, b + 1), 1, m) = SubSeq(name, b + 1, b + m)
    BY <2>1, PartOfFrom
  <2> QED
    BY <2>1, <2>2
<1>10. m = Len(s) \/ s[m + 1] = "."
  <2> SUFFICES ASSUME m # L - b PROVE s[m + 1] = "."
    BY <1>8
  <2>1. m + 1 \in 1 .. L - b /\ b + (m + 1) = c /\ c <= L
    BY <1>2, <1>6
  <2> QED
    BY <1>2, <1>8, <2>1
<1> HIDE DEF s
<1>11. strtoul(s).end = m
  <2> HIDE DEF m
  <2> QED
    BY <1>2, <1>6, <1>8, <1>9, <1>10, StrtoulWhole
<1>12. k = c
  <2>1. k = b + 1 + m
    BY <1>1, <1>7, <1>11 DEF s
  <2> QED
    BY <1>2, <2>1
<1>13. strtoul(From(name, j + 1)).end # 0
  BY <1>6, <1>7, <1>11 DEF s
<1>14. reading(name).valid
  BY <1>1, <1>2, <1>4, <1>12, <1>13
<1> QED
  BY <1>3, <1>7, <1>12, <1>14

\* What is read is such a split, and its numbers are right.
LEMMA ReadingIsSplit ==
    ASSUME NEW name \in Seq(Token), NEW i, NEW j, NEW k, ReadAt(name, i, j, k),
           reading(name).valid
    PROVE  LET d == Number(SubSeq(name, j + 1, k - 1))
               s == IF k > Len(name) THEN 0 ELSE Number(From(name, k + 1))
           IN  /\ SplitAt(name, i, j, k)
               /\ d \in CInt => reading(name).out.display = d
               /\ s \in CInt => reading(name).out.screen = s
<1> DEFINE L == Len(name)
           f == From(name, j + 1)
           e == strtoul(f).end
<1>0. L \in Nat
  OBVIOUS
<1>1. /\ i \in 0 .. L /\ j \in i .. L /\ k \in j + 1 .. L + 1
      /\ i # 0 => name[i] = "/"
      /\ \A x \in 1 .. L : name[x] = "/" => x <= i
      /\ j > i => name[j] = ":"
      /\ k = j + 1 + e
      /\ j > i /\ e # 0 /\ (k > L \/ (name[k] = "." /\ IsNumber(From(name, k + 1))))
      /\ reading(name).out.display = int(strtoul(f).value)
      /\ reading(name).out.screen =
            IF k > L THEN 0 ELSE int(strtoul(From(name, k + 1)).value)
  BY DEF ReadAt
<1>2. f \in Seq(Token) /\ Len(f) = L - j
  <2>1. j \in Nat /\ j <= L
    BY <1>1
  <2> QED
    BY <2>1, FromElements
<1>3. /\ IsNumber(SubSeq(f, 1, e))
      /\ Number(SubSeq(f, 1, e)) \in CInt => int(strtoul(f).value) = Number(SubSeq(f, 1, e))
  <2> HIDE DEF f
  <2> QED
    BY <1>1, <1>2, StrtoulRight
<1>4. SubSeq(f, 1, e) = SubSeq(name, j + 1, k - 1)
  <2>1. e \in 0 .. L - j
    BY <1>2, StrtoulTyped
  <2> HIDE DEF e
  <2>2. j \in Nat /\ j <= L /\ 1 \in Nat /\ 1 >= 1 /\ e \in Int /\ e <= L - j /\ j + e = k - 1
    BY <1>1, <2>1
  <2>3. SubSeq(From(name, j + 1), 1, e) = SubSeq(name, j + 1, j + e)
    BY <2>2, PartOfFrom
  <2> QED
    BY <2>2, <2>3
<1> HIDE DEF e, f
<1>5. SplitAt(name, i, j, k)
  <2>1. j \in 1 .. L /\ k \in 1 .. L + 1 /\ i < j /\ j < k
    BY <1>1
  <2>2. k <= L => name[k] = "." /\ IsNumber(From(name, k + 1))
    BY <1>1
  <2> QED
    BY <1>1, <1>3, <1>4, <2>1, <2>2 DEF SplitAt
<1>6. ASSUME ~(k > L), Number(From(name, k + 1)) \in CInt
      PROVE  int(strtoul(From(name, k + 1)).value) = Number(From(name, k + 1))
  <2> DEFINE g == From(name, k + 1)
  <2>1. g \in Seq(Token) /\ Len(g) \in Nat
    <3>1. k \in Nat /\ k <= L
      BY <1>1, <1>6
    <3>2. g \in Seq(Token)
      BY <3>1, FromElements
    <3> QED
      BY <3>2
  <2>2. IsNumber(g) /\ Number(g) \in CInt
    BY <1>1, <1>6
  <2> HIDE DEF g
  <2>3. strtoul(g).end # 0 /\ strtoul(g).end = Len(g)
    BY <2>1, <2>2, ScreenEnds DEF screen_ends
  <2>4. SubSeq(g, 1, Len(g)) = g
    BY <2>1, SubSeqFull
  <2>5. int(strtoul(g).value) = Number(g)
    BY <2>1, <2>2, <2>3, <2>4, StrtoulRight
  <2> QED
    BY <2>5 DEF g
<1> QED
  BY <1>1, <1>3, <1>4, <1>5, <1>6

\* What the caller has is what was read; before the start it has nothing.
ReadBy(l) ==
    LET r == reading(DisplayName)
    IN  /\ l.pc = "start" => l.parsed = Untouched /\ l.mem.ptr["protocol"] = Null
        /\ l.pc # "start" => IF l.parsed = Untouched THEN ~r.valid \/ May("nomem")
                             ELSE r.valid /\ l.parsed = r.out
        /\ l.pc = "open" => l.parsed # Untouched /\ (l.mem.ptr["protocol"] # Null <=> r.slash)

ReadInv == \A t \in prog.threads : ReadBy(local[t])

LEMMA ParseReads ==
    ASSUME Typed, NEW t \in Thread, ReadBy(local[t]), parse_display(t)
    PROVE  ReadBy(local'[t])
<1> DEFINE l == local[t]
           n == local'[t]
           r == reading(DisplayName)
           wanted == r.slash /\ prog.call = "connect"
           M(ok) == IF wanted /\ ok THEN malloc(l.mem, "protocol", "protocol") ELSE l.mem
           pc1 == IF prog.call = "connect" THEN "open" ELSE "parsed"
           pc2 == IF prog.call = "connect" THEN "out" ELSE "closed"
<1>0. LocalsOK /\ prog \in Program /\ l.mem \in Memory
  BY MemOf DEF Typed
<1>1. l.pc = "start" /\ l.parsed = Untouched /\ l.mem.ptr["protocol"] = Null
  BY <1>0, ParseMoves DEF ReadBy
<1>2. PICK protocol_ok, host_ok \in BOOLEAN :
         /\ ~May("nomem") => protocol_ok /\ host_ok
         /\ IF r.valid /\ host_ok /\ (wanted => protocol_ok)
            THEN Moves(t, pc1, malloc(M(protocol_ok), "host", "host")) /\ n.parsed = r.out
            ELSE /\ \E k : Moves(t, pc2, k)
                 /\ n.parsed = l.parsed
  BY <1>0, ParseMoves
<1>3. r.out # Untouched
  BY <1>0, ReadTouches
<1>4. "protocol" \in Var /\ "host" \in Var /\ "protocol" \in Block /\ "host" \in Block
  BY DEF Var, Block
<1> DEFINE m == M(protocol_ok)
<1>5. ASSUME r.valid /\ host_ok /\ (wanted => protocol_ok), prog.call = "connect"
      PROVE  malloc(m, "host", "host").ptr["protocol"] # Null <=> r.slash
  <2>1. l.mem.ptr \in [Var -> Block \cup {Null}]
    BY <1>0, MemoryParts
  <2>2. malloc(l.mem, "protocol", "protocol").ptr = [l.mem.ptr EXCEPT !["protocol"] = "protocol"]
    BY <1>0 DEF malloc, Memory
  <2>3. m \in Memory
    BY <1>0, <1>4, OpsTyped
  <2>4. m.ptr["protocol"] # Null <=> r.slash
    BY <1>1, <1>4, <1>5, <2>1, <2>2 DEF Null
  <2> HIDE DEF m
  <2>5. malloc(m, "host", "host").ptr = [m.ptr EXCEPT !["host"] = "host"]
    BY <2>3 DEF malloc, Memory
  <2>6. malloc(m, "host", "host").ptr["protocol"] = m.ptr["protocol"]
    BY <1>4, <2>3, <2>5, MemoryParts
  <2> QED
    BY <2>4, <2>6
<1>6. CASE r.valid /\ host_ok /\ (wanted => protocol_ok)
  <2>1. n.pc = pc1 /\ n.mem = malloc(m, "host", "host") /\ n.parsed = r.out
    BY <1>2, <1>6 DEF Moves
  <2>2. n.pc = "open" => (n.mem.ptr["protocol"] # Null <=> r.slash)
    BY <1>5, <1>6, <2>1
  <2>3. n.pc # "start"
    BY <2>1
  <2> HIDE DEF m
  <2> QED
    BY <1>3, <1>6, <2>1, <2>2, <2>3 DEF ReadBy
<1>7. CASE ~(r.valid /\ host_ok /\ (wanted => protocol_ok))
  <2>1. n.pc = pc2 /\ n.parsed = Untouched
    BY <1>1, <1>2, <1>7 DEF Moves
  <2>2. n.pc # "start" /\ n.pc # "open"
    BY <2>1
  <2>3. ~r.valid \/ May("nomem")
    BY <1>2, <1>7
  <2> HIDE DEF r
  <2> QED
    BY <2>1, <2>2, <2>3 DEF ReadBy, r
<1> QED
  BY <1>6, <1>7

\* No other action changes it.
LEMMA ReadStays ==
    ASSUME Typed, NEW t \in Thread, Progress(local[t]), Acts(t), ~parse_display(t)
    PROVE  /\ local'[t].parsed = local[t].parsed /\ local[t].pc # "start"
           /\ local'[t].pc \notin {"start", "open"}
<1> DEFINE l == local[t]
           n == local'[t]
           Same == n.parsed = l.parsed /\ l.pc # "start" /\ n.pc \notin {"start", "open"}
<1>0. LocalsOK /\ prog \in Program /\ nonce \in Nat
  BY DEF Typed
<1>1. ASSUME NEW x, x \notin {"start", "open"}, NEW m, Goes(t, x, m), l.pc # "start"
      PROVE  Same
  BY <1>1 DEF Goes, Moves, SamePlace
<1>2. ASSUME NEW x, x \notin {"start", "open"}, NEW m, NEW a, Credits(t, x, m, a), l.pc # "start"
      PROVE  Same
  BY <1>2 DEF Credits, Moves, SamePlace
<1>3. ASSUME NEW p, NEW m, Reaches(t, p, m), l.pc # "start"
      PROVE  Same
  BY <1>3 DEF Reaches, Moves
<1>4. CASE free_host(t)
  BY <1>0, <1>1, <1>4, FreeHostMoves
<1>5. CASE open_tcp(t)
  BY <1>0, <1>5, OpenTcpMoves DEF Goes, Moves, SamePlace
<1>6. CASE try_address(t)
  <2>1. l.pc = "tcp"
    BY <1>0, <1>6, TryMoves
  <2>2. \/ \E m : Goes(t, "out", m)
        \/ \E p, m : Reaches(t, p, m)
        \/ n.pc = "tcp" /\ n.parsed = l.parsed
    BY <1>0, <1>6, TryMoves DEF Moves
  <2> QED
    BY <1>1, <1>3, <2>1, <2>2
<1>7. CASE open_unix(t)
  BY <1>0, <1>1, <1>7, OpenUnixMoves
<1>8. CASE open_abstract(t)
  BY <1>0, <1>1, <1>3, <1>8, OpenAbstractMoves
<1>9. CASE open_path(t)
  BY <1>0, <1>1, <1>3, <1>9, OpenPathMoves
<1>10. CASE use_supplied(t)
  BY <1>0, <1>2, <1>10, SuppliedMoves
<1>11. CASE peer_name(t)
  BY <1>0, <1>11, PeerNameMoves DEF Goes, Moves, SamePlace
<1>12. CASE own_name(t)
  BY <1>0, <1>12, OwnNameMoves DEF Goes, Moves, SamePlace
<1>13. CASE get_authptr(t)
  <2>1. l.pc = "authptr"
    BY <1>0, <1>13, GetAuthptrMoves
  <2>2. \/ \E m : Goes(t, "calloc", m)
        \/ \E m, a : Credits(t, "compute", m, a)
        \/ \E m, a : Credits(t, "own_again", m, a)
    BY <1>0, <1>13, GetAuthptrMoves
  <2> QED
    BY <1>1, <1>2, <2>1, <2>2
<1>14. CASE own_again(t)
  BY <1>0, <1>1, <1>14, OwnAgainMoves
<1>15. CASE compute_auth(t)
  <2>1. l.pc = "compute"
    BY <1>0, <1>15, ComputeMoves
  <2>2. \/ \E m : Goes(t, "calloc", m)
        \/ \E m, from : Granted(t, m, from)
        \/ \E m : Goes(t, "nonce", m)
    BY <1>0, <1>15, ComputeMoves
  <2> QED
    BY <1>1, <1>2, <2>1, <2>2 DEF Granted
<1>16. CASE read_nonce(t)
  BY <1>0, <1>2, <1>16, ReadNonceMoves
<1>17. CASE next_nonce(t)
  BY <1>0, <1>2, <1>17, NextNonceMoves DEF Granted
<1>18. CASE connect_to_fd(t)
  BY <1>0, <1>18, ConnectFdMoves DEF Moves, SamePlace
<1>19. CASE connect_step(t)
  <2>1. l.step \in 1 .. Steps
    BY <1>19 DEF connect_step, At, Progress
  <2> QED
    BY <1>0, <1>19, <2>1, StepMoves DEF Moves, SamePlace
<1>20. CASE free_auth(t)
  BY <1>0, <1>1, <1>20, FreeAuthMoves
<1>21. CASE out(t)
  BY <1>0, <1>21, OutMoves DEF Moves, SamePlace
<1>22. CASE use(t)
  BY <1>0, <1>1, <1>22, UseMoves
<1>23. CASE disconnect(t)
  BY <1>0, <1>1, <1>23, DisconnectMoves
<1> QED
  BY <1>4, <1>5, <1>6, <1>7, <1>8, <1>9, <1>10, <1>11, <1>12, <1>13, <1>14, <1>15, <1>16,
     <1>17, <1>18, <1>19, <1>20, <1>21, <1>22, <1>23 DEF Acts

LEMMA ReadInit == Init => ReadInv
<1> SUFFICES ASSUME Init, NEW t \in prog.threads PROVE ReadBy(local[t])
  BY DEF ReadInv
<1>1. t \in Thread
  BY ConnectAssumption DEF Init, Program
<1>2. local[t] = Start(t)
  BY <1>1 DEF Init
<1>3. Start(t).parsed = Untouched /\ Start(t).mem.ptr = [v \in Var |-> Null]
  BY Zenon DEF Start
<1>4. Start(t).pc = "start"
  BY Zenon DEF Start
<1>5. local[t].pc = "start" /\ local[t].parsed = Untouched
  BY <1>2, <1>3, <1>4
<1>6. local[t].mem.ptr["protocol"] = Null
  BY <1>2, <1>3 DEF Var
<1> QED
  BY <1>5, <1>6 DEF ReadBy

LEMMA ReadNext == BaseInv /\ ReadInv /\ [Next]_vars => ReadInv'
<1> SUFFICES ASSUME BaseInv, ReadInv, [Next]_vars, NEW u \in prog'.threads
             PROVE  (ReadBy(local[u]))'
  BY DEF ReadInv
<1>1. CASE Next
  <2>1. PICK t \in Thread : Acts(t)
    BY <1>1, NextActs
  <2>2. prog' = prog
    BY <2>1, ProgNeverChanges
  <2>3. Typed /\ Progress(local[t]) /\ ReadBy(local[u]) /\ u \in Thread
    BY <2>2 DEF BaseInv, ProgressInv, ReadInv, Typed, Program
  <2>4. Moved(t)
    BY <2>1, <2>3, ProgressStep
  <2>5. ReadBy(local'[u])
    <3>1. CASE u # t
      BY <2>3, <2>4, <3>1 DEF Moved
    <3>2. CASE u = t /\ parse_display(t)
      BY <2>3, <3>2, ParseReads
    <3>3. CASE u = t /\ ~parse_display(t)
      <4>1. /\ local'[t].parsed = local[t].parsed /\ local[t].pc # "start"
            /\ local'[t].pc \notin {"start", "open"}
        BY <2>1, <2>3, <3>3, ReadStays
      <4> QED
        BY <2>3, <3>3, <4>1 DEF ReadBy
    <3> QED
      BY <3>1, <3>2, <3>3
  <2> QED
    BY <2>2, <2>5 DEF ReadBy, DisplayName, May
<1>2. CASE UNCHANGED vars
  <2>1. ReadBy(local[u]) /\ local' = local /\ prog' = prog
    BY <1>2 DEF vars, ReadInv
  <2> QED
    BY <2>1 DEF ReadBy, DisplayName, May
<1> QED
  BY <1>1, <1>2

\* _xcb_parse_display accepts exactly the names of the form
\* [protocol/]host:display[.screen], each of which can be read in one way only,
\* and returns their parts, numbers that fit an int unchanged; for another name
\* the caller's variables stay as they were.
THEOREM AlwaysParseRight == Spec => []ParseRight
<1>1. Init => BaseInv /\ ReadInv
  BY BaseInit, ReadInit
<1>2. BaseInv /\ ReadInv /\ [Next]_vars => BaseInv' /\ ReadInv'
  BY BaseNext, ReadNext
<1>3. BaseInv /\ ReadInv => ParseRight
  <2> DEFINE n == DisplayName
             r == reading(n)
             Form(t, split) ==
               LET p == local[t].parsed
                   i == split[1]
                   j == split[2]
                   k == split[3]
                   d == Number(SubSeq(n, j + 1, k - 1))
                   s == IF k > Len(n) THEN 0 ELSE Number(From(n, k + 1))
               IN  /\ Splits(n) = {split}
                   /\ p.protocol = SubSeq(n, 1, i - 1)
                   /\ p.host = SubSeq(n, i + 1, j - 1)
                   /\ d \in CInt => p.display = d
                   /\ s \in CInt => p.screen = s
                   /\ At(t, "open") => (Ptr(t, "protocol") # Null <=> i # 0)
  <2> SUFFICES ASSUME BaseInv, ReadInv, NEW t \in prog.threads, ~At(t, "start")
               PROVE  IF local[t].parsed = Untouched THEN Splits(n) = {} \/ May("nomem")
                      ELSE \E split \in Splits(n) : Form(t, split)
    BY DEF ParseRight
  <2>1. n \in Seq(Token) /\ ReadBy(local[t]) /\ local[t].pc # "start"
    BY NameTyped DEF BaseInv, Typed, ReadInv, At
  <2> HIDE DEF n
  <2>2. PICK i, j, k : ReadAt(n, i, j, k)
    BY <2>1, ReadingAt
  <2>3. ASSUME NEW split \in Splits(n) PROVE split = <<i, j, k>> /\ r.valid
    <3>1. split = <<split[1], split[2], split[3]>>
      BY <2>3, SplitsAre
    <3>2. SplitAt(n, split[1], split[2], split[3])
      BY <2>3, <3>1, SplitsAre
    <3>3. split[1] = i /\ split[2] = j /\ split[3] = k /\ r.valid
      BY <2>1, <2>2, <3>2, SplitIsReading
    <3> QED
      BY <3>1, <3>3
  <2>4. CASE local[t].parsed = Untouched
    <3>1. ~r.valid \/ May("nomem")
      BY <2>1, <2>4 DEF ReadBy, n
    <3> QED
      BY <2>3, <2>4, <3>1
  <2>5. CASE local[t].parsed # Untouched
    <3>1. /\ r.valid /\ local[t].parsed = r.out
          /\ local[t].pc = "open" => (local[t].mem.ptr["protocol"] # Null <=> r.slash)
      BY <2>1, <2>5 DEF ReadBy, n
    <3> DEFINE d == Number(SubSeq(n, j + 1, k - 1))
               s == IF k > Len(n) THEN 0 ELSE Number(From(n, k + 1))
    <3>2. SplitAt(n, i, j, k) /\ (d \in CInt => r.out.display = d) /\ (s \in CInt => r.out.screen = s)
      BY <2>1, <2>2, <3>1, ReadingIsSplit
    <3>3. Splits(n) = {<<i, j, k>>}
      BY <2>3, <3>2, SplitsAre
    <3>4. /\ r.out.protocol = SubSeq(n, 1, i - 1) /\ r.out.host = SubSeq(n, i + 1, j - 1)
          /\ r.slash = (i # 0)
      BY <2>2 DEF ReadAt
    <3>5. At(t, "open") => (Ptr(t, "protocol") # Null <=> i # 0)
      BY <3>1, <3>4 DEF At, Ptr, Mem
    <3> DEFINE split == <<i, j, k>>
    <3>6. split[1] = i /\ split[2] = j /\ split[3] = k
      OBVIOUS
    <3> HIDE DEF split, r
    <3>7. Form(t, split)
      BY <3>1, <3>2, <3>3, <3>4, <3>5, <3>6 DEF split
    <3> QED
      BY <2>5, <3>3, <3>7 DEF split
  <2> QED
    BY <2>4, <2>5
<1> QED
  BY <1>1, <1>2, <1>3, PTL DEF Spec
=============================================================================
