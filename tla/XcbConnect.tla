----------------------------- MODULE XcbConnect -----------------------------
(***************************************************************************)
(* How a connection comes to be and goes away: display names and sockets   *)
(* (xcb_util.c), authorization (xcb_auth.c), xcb_connect_to_fd and         *)
(* xcb_disconnect (xcb_conn.c) with the initialisers they call.            *)
(*                                                                         *)
(* A display name is a sequence of tokens.  What a thread has allocated is *)
(* kept as the value of each pointer and the set of live blocks, named     *)
(* after the place that allocates them; descriptors, locks and conditions  *)
(* are blocks too.  Threads connect independently but share one counter,   *)
(* the nonce of XDM-AUTHORIZATION-1.                                       *)
(*                                                                         *)
(* The build is the one configure chooses on Linux: poll(), abstract       *)
(* sockets, IPv6 and XDM support, neither launchd nor DECnet.              *)
(***************************************************************************)
EXTENDS Integers, SequencesExt

CONSTANTS
    Thread, NoThread,
    IntHalf,                \* 2^31 in the code: an int is less
    ULONG_MAX,              \* 2^64 - 1 in the code
    Programs                \* what is connected to, and what may fail

Null == "NULL"

\* "a" is any other text; "[a]" a host in brackets.
Digit == {"0", "1"}
Token == {"/", ":", ".", "-", "a", "[a]", "unix", "tcp"} \cup Digit

\* Where a server may listen: the two local names, and addresses; "mapped"
\* is an IPv4 address written as an IPv6 one.
LocalPlace == {"abstract", "path"}
Six        == {"inet6", "inet6_loop", "mapped", "mapped_loop"}
Mapped     == {"mapped", "mapped_loop"}
Loopback   == {"inet_loop", "inet6_loop", "mapped_loop"}
Address    == {"inet", "inet_loop"} \cup Six
Family     == {"Local", "Internet", "Internet6"}

\* The authority file has an entry or not; its data may be empty.
NoEntry == [name |-> "none", len |-> 0]
Entry   == [name : {"MC1", "XA1"}, len : 0 .. 1] \cup {NoEntry}

\* nomem     malloc, realloc, calloc      sync   pthread_*_init
\* socket    socket, connect              fcntl  the descriptor's flags
\* resolve   getaddrinfo                  io     write and read of the setup
\* names     getpeername, getsockname     long   a name longer than the slack
\* hostname  gethostname                  vanish the second call for a long
\*                                               name fails
Fault == {"nomem", "sync", "socket", "fcntl", "resolve", "io", "names", "long", "hostname",
          "vanish"}

\* call     the function the application calls
\* name, env  its argument and DISPLAY; <<>> is no name
\* supplied the application brings the authorization
\* listens  where the server listens
\* addrs, addrs6  what the host resolves to, without and in brackets
\* answer   status and additional length of the server's answer
Program ==
    [threads : SUBSET Thread, call : {"connect", "parse_display"}, name : Seq(Token),
     env : Seq(Token), supplied : BOOLEAN, listens : SUBSET (LocalPlace \cup Address),
     addrs : Seq(Address), addrs6 : Seq(Six), xauth : [Family -> Entry],
     answer : [status : 0 .. 2, length : 0 .. 1], faults : SUBSET Fault]

ASSUME ConnectAssumption ==
    /\ NoThread \notin Thread
    /\ IntHalf \in Nat \ {0} /\ ULONG_MAX \in Nat /\ ULONG_MAX >= 2 * IntHalf - 1
    /\ \A p \in Programs : p \in Program

VARIABLES
    prog,           \* the program, which never changes
    local,          \* the local variables and the memory of each thread
    nonce, nonce_mutex

vars == <<prog, local, nonce, nonce_mutex>>

\* An operation that may fail in this way.
May(f) == f \in prog.faults
Ok(f)  == IF May(f) THEN BOOLEAN ELSE {TRUE}
-----------------------------------------------------------------------------
(* Memory                                                                  *)

Var == {"host", "protocol", "file", "results", "fd", "name", "new_name", "sockname",
        "authptr", "info.name", "info.data", "c", "setup", "replies", "current_reply",
        "events", "pending_replies", "extensions", "ext_reply"}
Lists == {"current_reply", "events", "pending_replies", "extensions", "ext_reply"}
Sync == {"iolock", "event_cond", "socket_cond", "out_cond", "reqlenlock", "ext_lock",
         "xid_lock"}
Block == (Var \ {"name", "new_name", "sockname"}) \cup Sync \cup
         {"peer", "peer_long", "own", "own_long"}

\* bad   blocks that were lost, freed twice or used after they were freed
\* wild  locks and conditions destroyed without having been initialised
Memory == [ptr : [Var -> Block \cup {Null}], live : SUBSET Block, bad : SUBSET Block,
           wild : SUBSET Sync]

malloc(m, v, b) ==
    [m EXCEPT !.ptr[v] = b, !.live = @ \cup {b},
              !.bad = @ \cup (m.live \cap {b})]

\* A block for each variable of S.
malloc_all(m, S) ==
    [m EXCEPT !.ptr = [v \in Var |-> IF v \in S THEN v ELSE @[v]], !.live = @ \cup S,
              !.bad = @ \cup (m.live \cap S)]

deref(m, v) == [m EXCEPT !.bad = @ \cup ({m.ptr[v]} \ (m.live \cup {Null}))]

free(m, v) == [deref(m, v) EXCEPT !.live = @ \ {m.ptr[v]}]

clear(m, v) == [m EXCEPT !.ptr[v] = Null]

assign(m, v, w) == [m EXCEPT !.ptr[v] = m.ptr[w]]

\* v is freed, and then w.
frees(m, v, w) == free(free(m, v), w)

init_sync(m, objects) == [m EXCEPT !.live = @ \cup objects]

destroy(m, o) == [m EXCEPT !.live = @ \ {o}, !.wild = @ \cup ({o} \ m.live)]
-----------------------------------------------------------------------------
(* Threads                                                                 *)

NoCred == [family |-> "none", from |-> "none", nonce |-> 0]
Untouched == [protocol |-> <<>>, host |-> <<"untouched">>, display |-> 0, screen |-> 0]

Start(t) ==
    [pc |-> IF t \in prog.threads THEN "start" ELSE "closed",
     mem |-> [ptr |-> [v \in Var |-> Null], live |-> {}, bad |-> {}, wild |-> {}],
     parsed |-> Untouched,  \* host, protocol, display, screen
     addrs |-> <<>>,        \* the addresses left to try
     peer |-> "none",       \* what the socket is connected to
     gotsockname |-> FALSE,
     ourauth |-> FALSE,     \* _xcb_get_auth_info returned 1
     cred |-> NoCred,       \* the content of info.data
     sent |-> NoCred,       \* what the server got
     answer |-> [status |-> 0, length |-> 0],   \* what it answered
     step |-> 0,            \* how far the initialisation got
     c |-> "none"]          \* what the call returns

Init ==
    /\ prog \in Programs
    /\ local = [t \in Thread |-> Start(t)]
    /\ nonce = 0 /\ nonce_mutex = NoThread

At(t, l) == local[t].pc = l
Mem(t) == local[t].mem
Ptr(t, v) == Mem(t).ptr[v]

\* The thread goes on at l with memory m.
Goto(t, l, m) == local' = [local EXCEPT ![t] = [@ EXCEPT !.pc = l, !.mem = m]]

Unshared == UNCHANGED <<prog, nonce, nonce_mutex>>
-----------------------------------------------------------------------------
(* xcb_util.c: display names                                               *)

\* 0 if there is none.
strrchr(s, ch) == SelectLastInSeq(s, LAMBDA x : x = ch)
From(s, n) == SubSeq(s, n, Len(s))

DigitValue == [d \in Digit |-> IF d = "0" THEN 0 ELSE 1]


\* How many tokens strtoul reads, none if there are no digits, and what it
\* returns, a negative number standing for the one it wraps to.
strtoul(s) ==
    LET sign   == IF s # <<>> /\ s[1] = "-" THEN 1 ELSE 0
        stop   == Max({n \in sign .. Len(s) : \A i \in sign + 1 .. n : s[i] \in Digit})
        number[n \in sign .. stop] ==
            IF n = sign THEN 0 ELSE 10 * number[n - 1] + DigitValue[s[n]]
    IN  [end   |-> IF stop = sign THEN 0 ELSE stop,
         value |-> IF number[stop] > ULONG_MAX THEN ULONG_MAX
                   ELSE IF sign = 1 THEN -number[stop] ELSE number[stop]]

\* Variant: the number is taken for an unsigned one.
int_unsigned(n) == n % (2 * IntHalf)

\* The assignment of an unsigned long to an int.
int(n) ==
    LET low == n % (2 * IntHalf)
    IN  IF low < IntHalf THEN low ELSE low - 2 * IntHalf

\* Variant: what follows the screen number is ignored.
screen_ends_anywhere(end, rest) == end # 0
screen_ends(end, rest) == end # 0 /\ end = Len(rest)

\* The reading of a name in _xcb_parse_display.
reading(name) ==
    LET slash  == strrchr(name, "/")
        rest   == From(name, slash + 1)
        colon  == strrchr(rest, ":")
        number == strtoul(From(rest, colon + 1))
        dot    == colon + 1 + number.end
        screen == strtoul(From(rest, dot + 1))
        alone  == dot > Len(rest)
    IN  [valid |-> /\ colon # 0 /\ number.end # 0
                   /\ alone \/ (rest[dot] = "." /\ screen_ends(screen.end, From(rest, dot + 1))),
         slash |-> slash # 0,
         out   |-> [protocol |-> SubSeq(name, 1, slash - 1),
                    host     |-> SubSeq(rest, 1, colon - 1),
                    display  |-> int(number.value),
                    screen   |-> IF alone THEN 0 ELSE int(screen.value)]]

DisplayName == IF prog.name = <<>> THEN prog.env ELSE prog.name

\* _xcb_parse_display, without a protocol if xcb_parse_display calls it.
parse_display(t) ==
    /\ At(t, "start")
    /\ \E protocol_ok, host_ok \in Ok("nomem") :
         LET r      == reading(DisplayName)
             wanted == r.slash /\ prog.call = "connect"
             m      == IF wanted /\ protocol_ok THEN malloc(Mem(t), "protocol", "protocol")
                       ELSE Mem(t)
         IN  IF r.valid /\ host_ok /\ (wanted => protocol_ok)
             THEN local' = [local EXCEPT
                              ![t].pc = IF prog.call = "connect" THEN "open" ELSE "parsed",
                              ![t].mem = malloc(m, "host", "host"),
                              ![t].parsed = r.out]
             ELSE Goto(t, IF prog.call = "connect" THEN "out" ELSE "closed",
                       clear(free(m, "protocol"), "protocol"))
    /\ Unshared

\* The application frees the host xcb_parse_display gave it.
free_host(t) ==
    /\ At(t, "parsed")
    /\ Goto(t, "closed", free(Mem(t), "host"))
    /\ Unshared
-----------------------------------------------------------------------------
(* xcb_util.c: sockets                                                     *)

\* _xcb_socket; a descriptor is a block, -1 is NULL.
socket(m, ok) == IF ok THEN malloc(m, "fd", "fd") ELSE clear(m, "fd")
close(m) == clear(free(m, "fd"), "fd")

connects(place) == IF place \in prog.listens THEN Ok("socket") ELSE {FALSE}

Connected(t, place, m) ==
    local' = [local EXCEPT ![t].pc = "auth", ![t].mem = m, ![t].peer = place]

\* The test of _xcb_open.
tcp(t) ==
    \/ Ptr(t, "protocol") # Null
    \/ local[t].parsed.host \notin {<<>>, <<"unix">>}

\* _xcb_open for TCP, and _xcb_open_tcp up to getaddrinfo.
open_tcp(t) ==
    /\ At(t, "open") /\ tcp(t)
    /\ LET p == local[t].parsed
           found == IF p.host = <<"[a]">> THEN prog.addrs6 ELSE prog.addrs
       IN  \E ok \in Ok("resolve") :
             IF /\ Ptr(t, "protocol") # Null => p.protocol = <<"tcp">>
                /\ ok /\ found # <<>>
             THEN local' = [local EXCEPT ![t].pc = "tcp", ![t].addrs = found,
                                         ![t].mem = malloc(@, "results", "results")]
             ELSE Goto(t, "out", Mem(t))
    /\ Unshared

\* One turn of the loop over the addresses, or its end.
try_address(t) ==
    /\ At(t, "tcp")
    /\ \/ /\ local[t].addrs = <<>>
          /\ Goto(t, "out", free(Mem(t), "results"))
       \/ /\ local[t].addrs # <<>>
          /\ LET a == Head(local[t].addrs)
             IN  \E sok \in Ok("socket"), cok \in connects(a) :
                   LET m == socket(Mem(t), sok)
                   IN  IF sok /\ cok THEN Connected(t, a, free(m, "results"))
                       ELSE local' = [local EXCEPT ![t].addrs = Tail(@), ![t].mem = close(m)]
    /\ Unshared

\* _xcb_open for a Unix socket, up to _xcb_open_abstract.
open_unix(t) ==
    /\ At(t, "open") /\ ~tcp(t)
    /\ \E ok \in Ok("nomem") :
         IF ok THEN Goto(t, "abstract", malloc(Mem(t), "file", "file"))
         ELSE Goto(t, "out", Mem(t))
    /\ Unshared

\* Variant: the other name is tried only if the first one does not exist.
tries_path_if_missing(errno) == errno = "ENOENT"
tries_path(errno) == errno \in {"ENOENT", "ECONNREFUSED"}

\* _xcb_open_abstract and what _xcb_open makes of it.
open_abstract(t) ==
    /\ At(t, "abstract")
    /\ \E sok \in Ok("socket"), cok \in connects("abstract") :
         LET m     == socket(Mem(t), sok)
             errno == IF sok /\ "abstract" \notin prog.listens THEN "ECONNREFUSED" ELSE "EMFILE"
         IN  IF sok /\ cok THEN Connected(t, "abstract", free(m, "file"))
             ELSE IF tries_path(errno) THEN Goto(t, "path", close(m))
             ELSE Goto(t, "out", free(close(m), "file"))
    /\ Unshared

\* _xcb_open_unix
open_path(t) ==
    /\ At(t, "path")
    /\ \E sok \in Ok("socket"), cok \in connects("path") :
         LET m == socket(Mem(t), sok)
         IN  IF sok /\ cok THEN Connected(t, "path", free(m, "file"))
             ELSE Goto(t, "out", free(close(m), "file"))
    /\ Unshared
-----------------------------------------------------------------------------
(* xcb_auth.c                                                              *)

\* Variant: after realloc the old pointer is kept.
renamed_stale(m) == assign(m, "sockname", "name")
renamed(m) == assign(m, "sockname", "new_name")

\* What get_peer_sock_name may do: sockname becomes the block it returns, or
\* NULL.  The first call may say that the name is longer than `first`.
peer_sock_name(m, first, longer) ==
    LET m1 == malloc(m, "name", first)
        m2 == malloc(free(m1, "name"), "new_name", longer)    \* realloc
        gone(n) == clear(free(n, "name"), "sockname")
    IN  {assign(m1, "sockname", "name")}
            \cup (IF May("nomem") THEN {clear(m, "sockname")} ELSE {})
            \cup (IF May("names") \/ (May("long") /\ May("nomem")) THEN {gone(m1)} ELSE {})
            \cup (IF May("long") THEN {renamed(m2)} ELSE {})
            \cup (IF May("vanish") THEN {gone(m2)} ELSE {})

\* The application brings its own authorization.
use_supplied(t) ==
    /\ At(t, "auth") /\ prog.supplied
    /\ local' = [local EXCEPT ![t].pc = "calloc",
                              ![t].cred = [NoCred EXCEPT !.from = "supplied"]]
    /\ Unshared

\* _xcb_get_auth_info: the name of the peer.
peer_name(t) ==
    /\ At(t, "auth") /\ ~prog.supplied
    /\ \E m \in peer_sock_name(Mem(t), "peer", "peer_long") :
         Goto(t, IF m.ptr["sockname"] = Null THEN "own_name" ELSE "authptr", m)
    /\ Unshared

\* Without it, the socket's own name, which does for Unix sockets.
own_name(t) ==
    /\ At(t, "own_name")
    /\ \E m \in peer_sock_name(Mem(t), "own", "own_long") :
         IF m.ptr["sockname"] = Null THEN Goto(t, "calloc", m)
         ELSE IF local[t].peer \notin LocalPlace THEN Goto(t, "calloc", free(m, "sockname"))
         ELSE local' = [local EXCEPT ![t].pc = "authptr", ![t].mem = m,
                                     ![t].gotsockname = TRUE]
    /\ Unshared

\* Variant: the loopback address of IPv6 is taken for an address of another host.
family_of_remote(a) ==
    IF a \in Six \ Mapped THEN "Internet6"
    ELSE IF a \in Address \ Loopback THEN "Internet" ELSE "Local"

\* The switch of get_authptr.
family(a) ==
    IF a \in Six \ Mapped THEN IF a \in Loopback THEN "Local" ELSE "Internet6"
    ELSE IF a \in Address THEN IF a \in Loopback THEN "Local" ELSE "Internet"
    ELSE "Local"

\* memdup: an empty copy is as good as none.
memdup(m, v, len, ok) == IF len > 0 /\ ok THEN malloc(m, v, v) ELSE clear(m, v)

\* The label no_auth of _xcb_get_auth_info.
no_auth(m) == free(clear(free(m, "sockname"), "info.name"), "authptr")

\* get_authptr, and the copy of the entry's name.
get_authptr(t) ==
    /\ At(t, "authptr")
    /\ LET f == family(local[t].peer)
           e == prog.xauth[f]
           m == deref(Mem(t), "sockname")
       IN  \E known \in (IF f = "Local" THEN Ok("hostname") ELSE {TRUE}), ok \in Ok("nomem") :
             IF ~known \/ e = NoEntry THEN Goto(t, "calloc", free(m, "sockname"))
             ELSE LET n == memdup(malloc(m, "authptr", "authptr"), "info.name", 1, ok)
                  IN  IF n.ptr["info.name"] = Null THEN Goto(t, "calloc", no_auth(n))
                      ELSE local' = [local EXCEPT
                               ![t].pc = IF local[t].gotsockname THEN "compute" ELSE "own_again",
                               ![t].mem = n,
                               ![t].cred = [NoCred EXCEPT !.family = f]]
    /\ Unshared

\* sockname is overwritten: nothing points to the peer's name any more.
own_again(t) ==
    /\ At(t, "own_again")
    /\ \E m \in peer_sock_name(Mem(t), "own", "own_long") :
         IF m.ptr["sockname"] = Null THEN Goto(t, "calloc", no_auth(free(m, "info.name")))
         ELSE Goto(t, "compute", m)
    /\ Unshared

\* The entry in use, by get_authptr's lookup.
entry(t) == prog.xauth[local[t].cred.family]

\* The end of _xcb_get_auth_info, with the data computed.
authorized(t, m, from) ==
    local' = [local EXCEPT ![t].pc = "calloc", ![t].ourauth = TRUE,
                           ![t].mem = free(clear(free(m, "sockname"), "sockname"), "authptr"),
                           ![t].cred.from = from]

\* compute_auth.  XDM-AUTHORIZATION-1 puts the client's address into the
\* data: a nonce if it has none, zeroes for IPv6.
compute_auth(t) ==
    /\ At(t, "compute")
    /\ \E ok \in Ok("nomem") :
         LET len == IF entry(t).name = "MC1" THEN entry(t).len ELSE 1
             n   == memdup(deref(Mem(t), "authptr"), "info.data", len, ok)
         IN  IF n.ptr["info.data"] = Null
             THEN Goto(t, "calloc", no_auth(free(n, "info.name")))
             ELSE IF entry(t).name = "MC1" THEN authorized(t, n, "cookie")
             ELSE IF local[t].peer \in LocalPlace THEN Goto(t, "nonce", n)
             ELSE authorized(t, deref(n, "sockname"),
                             IF local[t].peer \in Six \ Mapped THEN "zero" ELSE "address")
    /\ Unshared

\* Variant: no mutex.
lock_nonce_open == TRUE
lock_nonce == nonce_mutex = NoThread

\* next_nonce: the read of the counter and its increment.
read_nonce(t) ==
    /\ At(t, "nonce") /\ lock_nonce
    /\ nonce_mutex' = t
    /\ local' = [local EXCEPT ![t].pc = "next_nonce", ![t].cred.nonce = nonce]
    /\ UNCHANGED <<prog, nonce>>

next_nonce(t) ==
    /\ At(t, "next_nonce")
    /\ nonce' = local[t].cred.nonce + 1
    /\ nonce_mutex' = NoThread
    /\ authorized(t, Mem(t), "nonce")
    /\ UNCHANGED prog
-----------------------------------------------------------------------------
(* xcb_conn.c                                                              *)

map_delete(m) == free(m, "replies")

\* The destroyers, each of which goes through c.
in_destroy(m) ==
    frees(map_delete(free(destroy(deref(m, "c"), "event_cond"), "current_reply")),
          "events", "pending_replies")
out_destroy(m) == destroy(destroy(deref(m, "c"), "out_cond"), "reqlenlock")
ext_destroy(m) == frees(destroy(deref(m, "c"), "ext_lock"), "ext_reply", "extensions")
xid_destroy(m) == destroy(deref(m, "c"), "xid_lock")

xcb_disconnect(m) ==
    LET closed == destroy(close(free(deref(m, "c"), "setup")), "iolock")
    IN  free(xid_destroy(ext_destroy(out_destroy(in_destroy(closed)))), "c")

\* Variant: the descriptor is left open if there is no memory for c.
calloc_failed_open(m) == m
calloc_failed(m) == close(m)

\* xcb_connect_to_fd up to calloc
connect_to_fd(t) ==
    /\ At(t, "calloc")
    /\ \E ok \in Ok("nomem") :
         IF ok THEN local' = [local EXCEPT ![t].pc = "init", ![t].step = 1,
                                           ![t].mem = malloc(@, "c", "c")]
         ELSE local' = [local EXCEPT ![t].pc = "done", ![t].mem = calloc_failed(@),
                                     ![t].c = "error"]
    /\ Unshared

Result(m, ok) == [mem |-> m, ok |-> ok]

\* The objects are initialised in turn; the first that fails ends it.
init_all(m, objects, fault) ==
    {Result(init_sync(m, {objects[i] : i \in 1 .. k}), k = Len(objects)) :
        k \in IF May(fault) THEN 0 .. Len(objects) ELSE {Len(objects)}}

set_fd_flags(m) == {Result(m, ok) : ok \in Ok("fcntl")}

map_new(m) ==
    {Result(IF ok THEN malloc(m, "replies", "replies") ELSE clear(m, "replies"), ok) :
        ok \in Ok("nomem")}

in_init(m) ==
    UNION {IF r.ok THEN map_new(r.mem) ELSE {r} : r \in init_all(m, <<"event_cond">>, "sync")}

out_init(m) == init_all(m, <<"socket_cond", "out_cond", "reqlenlock">>, "sync")

\* With our authorization, its name and data are read.
write_setup(t, m) ==
    {Result(IF local[t].ourauth THEN deref(deref(m, "info.name"), "info.data") ELSE m, ok) :
        ok \in Ok("io")}

\* Variant: a server that asks for more authentication counts as one that agrees.
setup_accepted_early(a) == a.status # 0
setup_accepted(a) == a.status \notin {0, 2}

\* What _xcb_in_read_block may return: the length asked for, or 0.
in_read_block(len) == IF May("io") THEN {0, len} ELSE {len}

\* The header and then, in a larger block, the body are read.
read_setup(m) ==
    {Result(IF ok THEN malloc(m, "setup", "setup") ELSE clear(m, "setup"),
            /\ ok /\ larger /\ header > 0 /\ body > 0
            /\ setup_accepted(prog.answer)) :
        ok \in Ok("nomem"), larger \in Ok("nomem"), header \in in_read_block(1),
        body \in in_read_block(prog.answer.length)}

\* The conjuncts of xcb_connect_to_fd.
Steps == 8
initialise(t, i, m) ==
    CASE i = 1 -> set_fd_flags(m)
      [] i = 2 -> init_all(m, <<"iolock">>, "sync")
      [] i = 3 -> in_init(m)
      [] i = 4 -> out_init(m)
      [] i = 5 -> write_setup(t, m)
      [] i = 6 -> read_setup(m)
      [] i = 7 -> init_all(m, <<"ext_lock">>, "sync")
      [] i = 8 -> init_all(m, <<"xid_lock">>, "sync")

\* One conjunct; if it fails, xcb_disconnect takes back what there is.
connect_step(t) ==
    /\ At(t, "init")
    /\ LET i == local[t].step
       IN  \E r \in initialise(t, i, Mem(t)) :
             local' = [local EXCEPT
                 ![t].pc = IF r.ok /\ i < Steps THEN "init" ELSE "done",
                 ![t].step = i + 1,
                 ![t].mem = IF r.ok THEN r.mem ELSE xcb_disconnect(r.mem),
                 ![t].sent = IF i = 5 /\ r.ok THEN local[t].cred ELSE @,
                 ![t].answer = IF i = 6 /\ r.ok THEN prog.answer ELSE @,
                 ![t].c = IF ~r.ok THEN "error" ELSE IF i = Steps THEN "c" ELSE @]
    /\ Unshared
-----------------------------------------------------------------------------
(* xcb_connect_to_display_with_auth_info                                   *)

\* Back from xcb_connect_to_fd.
free_auth(t) ==
    /\ At(t, "done")
    /\ Goto(t, "out", IF local[t].ourauth THEN frees(Mem(t), "info.name", "info.data")
                      ELSE Mem(t))
    /\ Unshared

\* The label out; without a connection yet, error_connection is returned.
out(t) ==
    /\ At(t, "out")
    /\ local' = [local EXCEPT ![t].pc = "returned",
                              ![t].mem = frees(@, "host", "protocol"),
                              ![t].c = IF @ = "none" THEN "error" ELSE @]
    /\ Unshared

\* The application uses the connection: replies, events and extensions stay.
use(t) ==
    /\ At(t, "returned") /\ local[t].c = "c"
    /\ \E used \in SUBSET Lists :
         /\ used # {}
         /\ Goto(t, "used", malloc_all(Mem(t), used))
    /\ Unshared

\* The application calls xcb_disconnect, on error_connection too.
disconnect(t) ==
    /\ At(t, "returned") \/ At(t, "used")
    /\ Goto(t, "closed", IF local[t].c = "c" THEN xcb_disconnect(Mem(t)) ELSE Mem(t))
    /\ Unshared

Next ==
    \E t \in Thread :
       \/ parse_display(t) \/ free_host(t)
       \/ open_tcp(t) \/ try_address(t)
       \/ open_unix(t) \/ open_abstract(t) \/ open_path(t)
       \/ use_supplied(t) \/ peer_name(t) \/ own_name(t) \/ get_authptr(t) \/ own_again(t)
       \/ compute_auth(t) \/ read_nonce(t) \/ next_nonce(t)
       \/ connect_to_fd(t) \/ connect_step(t)
       \/ free_auth(t) \/ out(t) \/ use(t) \/ disconnect(t)

Spec == Init /\ [][Next]_vars
-----------------------------------------------------------------------------
(* Properties                                                              *)

CInt == -IntHalf .. IntHalf - 1
Cred == [family : Family \cup {"none"},
         from : {"none", "supplied", "cookie", "nonce", "address", "zero"}, nonce : Nat]
Label == {"start", "parsed", "open", "tcp", "abstract", "path", "auth", "own_name", "authptr",
          "own_again", "compute", "nonce", "next_nonce", "calloc", "init", "done", "out",
          "returned", "used", "closed"}

\* The variables have their types: the numbers of a display name fit an int
\* (strtoul and the assignments in _xcb_parse_display), a pointer points to a
\* block of its place or nowhere.
ConnectTypeOK ==
    /\ prog \in Program
    /\ nonce \in Nat /\ nonce_mutex \in Thread \cup {NoThread}
    /\ \A t \in Thread :
         LET l == local[t]
         IN  /\ l.pc \in Label /\ l.mem \in Memory
             /\ l.parsed.display \in CInt /\ l.parsed.screen \in CInt
             /\ l.addrs \in Seq(Address) /\ l.peer \in LocalPlace \cup Address \cup {"none"}
             /\ l.cred \in Cred /\ l.sent \in Cred
             /\ l.gotsockname \in BOOLEAN /\ l.ourauth \in BOOLEAN
             /\ l.step \in 0 .. Steps + 1 /\ l.c \in {"none", "error", "c"}

\* Whatever fails on the way, no block is freed twice, used after it was freed
\* or allocated over (the error paths of _xcb_parse_display, _xcb_open,
\* _xcb_get_auth_info, xcb_connect_to_fd), the authorization outlives
\* write_setup, and xcb_disconnect destroys an object that was never
\* initialised only for a connection whose setup failed.
ReleasedOnce ==
    \A t \in Thread :
       /\ Mem(t).bad = {}
       /\ Mem(t).wild # {} => local[t].c = "error"

ConnectionBlock == {"c", "fd", "setup", "replies"} \cup Sync

\* What is never released: the peer's name, which _xcb_get_auth_info loses
\* when it asks for the socket's own, and socket_cond (_xcb_out_destroy).
Forgotten(t) ==
    {"socket_cond"} \cup (IF local[t].cred.family # "none" THEN {"peer", "peer_long"} ELSE {})

\* When the call has failed, or the connection was closed, nothing else that
\* was allocated on the way is left, descriptors included; a connection that
\* was made holds its own parts, all of them, and nothing else.
NothingLeaks ==
    \A t \in Thread :
       LET rest == Mem(t).live \ Forgotten(t)
       IN  /\ At(t, "closed") => rest = {}
           /\ At(t, "returned") /\ local[t].c = "error" => rest = {}
           /\ At(t, "returned") /\ local[t].c = "c" => rest = ConnectionBlock \ Forgotten(t)

\* xcb_connect returns a connection only if a server accepted the setup and
\* every part of it was initialised: whatever fails last, the caller sees
\* error_connection.
ConnectedWhole ==
    \A t \in Thread :
       At(t, "returned") /\ local[t].c = "c" =>
          /\ local[t].answer = [status |-> 1, length |-> 1]
          /\ ConnectionBlock \subseteq Mem(t).live
          /\ local[t].peer \in prog.listens

\* An optional minus sign and digits.
IsNumber(s) ==
    LET d == IF s # <<>> /\ s[1] = "-" THEN 2 ELSE 1
    IN  d <= Len(s) /\ \A i \in d .. Len(s) : s[i] \in Digit

\* The number it stands for, by the digits from the last one on, each of which
\* weighs ten times the one after it.
Number(s) ==
    LET size == IF s[1] = "-" THEN Len(s) - 1 ELSE Len(s)
        last[k \in 0 .. size] ==
            IF k = 0 THEN [sum |-> 0, weight |-> 1]
            ELSE [sum    |-> last[k - 1].sum + last[k - 1].weight * DigitValue[s[Len(s) + 1 - k]],
                  weight |-> 10 * last[k - 1].weight]
    IN  IF s[1] = "-" THEN -last[size].sum ELSE last[size].sum

\* The ways to read n as [protocol/]host:display[.screen], by the places of
\* the slash (0: none), the colon and the dot (past the end: none).
Splits(n) ==
    {split \in (0 .. Len(n)) \X (1 .. Len(n)) \X (1 .. Len(n) + 1) :
        LET i == split[1]
            j == split[2]
            k == split[3]
        IN  /\ i < j /\ j < k
            /\ \A x \in 1 .. Len(n) : n[x] = "/" => x <= i
            /\ i # 0 => n[i] = "/"
            /\ n[j] = ":" /\ IsNumber(SubSeq(n, j + 1, k - 1))
            /\ k <= Len(n) => n[k] = "." /\ IsNumber(From(n, k + 1))}

\* _xcb_parse_display accepts exactly the names of that form, which can be
\* read in one way only, and returns their parts, numbers that fit an int
\* unchanged; for another name the caller's variables stay as they were.
ParseRight ==
    \A t \in prog.threads :
       ~At(t, "start") =>
          LET n == DisplayName
              p == local[t].parsed
          IN  IF p = Untouched THEN Splits(n) = {} \/ May("nomem")
              ELSE \E split \in Splits(n) :
                     LET i == split[1]
                         j == split[2]
                         k == split[3]
                         d == Number(SubSeq(n, j + 1, k - 1))
                         s == IF k > Len(n) THEN 0 ELSE Number(From(n, k + 1))
                     IN  /\ Splits(n) = {split}
                         /\ p.protocol = SubSeq(n, 1, i - 1)
                         /\ p.host = SubSeq(n, i + 1, j - 1)
                         /\ d \in CInt => p.display = d
                         /\ s \in CInt => p.screen = s
                         /\ At(t, "open") => (Ptr(t, "protocol") # Null <=> i # 0)

\* Where the server that a name stands for may listen.
Denoted(t) ==
    LET p    == local[t].parsed
        slash == strrchr(DisplayName, "/") # 0
    IN  IF p = Untouched THEN {}
        ELSE IF ~slash /\ p.host \in {<<>>, <<"unix">>} THEN LocalPlace
        ELSE IF slash /\ p.protocol # <<"tcp">> THEN {}
        ELSE IF p.host = <<"[a]">> THEN ToSet(prog.addrs6)
        ELSE ToSet(prog.addrs)

\* If nothing fails, xcb_connect makes a connection just when a server that
\* accepts listens at a place the name stands for: one that has only the
\* path and not the abstract name, or only the last of several addresses,
\* is found.
ReachesServer ==
    \A t \in prog.threads :
       At(t, "returned") /\ prog.faults = {} =>
          (local[t].c = "c" <=> /\ Denoted(t) \cap prog.listens # {}
                                /\ prog.answer = [status |-> 1, length |-> 1])

\* The family an entry for the server at p is filed under: a server on this
\* host, however it is reached, under the host's name.
Filed(p) ==
    IF p \in LocalPlace \cup Loopback THEN "Local"
    ELSE IF p \in {"inet", "mapped"} THEN "Internet" ELSE "Internet6"

\* The server gets authorization from the entry for its own address, with
\* the data its protocol asks for, and if nothing fails it always gets it
\* when there is such an entry.
AuthorizedRight ==
    \A t \in prog.threads :
       local[t].step > 5 /\ ~prog.supplied /\ local[t].c # "error" =>
          LET a == local[t].sent
              e == prog.xauth[Filed(local[t].peer)]
          IN  /\ a.from # "none" => a.family = Filed(local[t].peer)
              /\ a.from = "cookie" => e.name = "MC1"
              /\ a.from \in {"nonce", "address", "zero"} => e.name = "XA1"
              /\ a.from = "nonce" => local[t].peer \in LocalPlace
              /\ prog.faults = {} /\ (e.name = "XA1" \/ e.len > 0) => a.from # "none"

\* Two connections over Unix sockets never send the same
\* XDM-AUTHORIZATION-1 data: next_nonce gives every one its own number.
NoncesDiffer ==
    \A t, u \in Thread :
       t # u /\ local[t].sent.from = "nonce" /\ local[u].sent.from = "nonce" =>
          local[t].sent.nonce # local[u].sent.nonce
=============================================================================
