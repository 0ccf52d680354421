# A verification project for libxcb

libxcb is the C library through which X clients talk to the X server. This
directory holds TLA+ models of its core, written from `src/src/*.c`, the TLC
runs that check them on small instances, and proofs about them that TLAPS
checks for all instances. `PROJECT.json` is the index: components, runs,
mutants, the map from definitions to source lines, findings, hazards,
theorems.

## 1. Inventory

**Connection state and its lock.** `xcb_connection_t` (`xcbint.h`) holds
`has_error`, the output side `c->out`, the input side `c->in`, the extension
cache and the resource ids. `c->iolock` guards `out` and `in`; it is dropped
around `poll()`, on condition variables and around a socket owner's
`return_socket`.

| Component | State | Operations | Correct when |
|---|---|---|---|
| Sequence numbers (`xcbint.h:56`, `xcb_in.c:98`, `xcb_out.c:215`) | `out.request`, `in.request_expected/read/completed`, 64 bits; 16 on the wire, 32 in cookies | number a request, insert sync requests, widen a response | each response is widened to the request it answers; no cookie is 0 |
| Reply and event routing (`xcb_in.c`, `xcb_list.c`) | pending replies, current reply list, reply map, event queue | `read_packet`, `poll_for_reply`, `discard_reply`, `get_event` | each response ends in one place, the right one, in order; "no reply" is final; a discard drops what it should and nothing else |
| Socket handoff (`xcb_out.c:58,258,279`) | `return_socket`, `socket_moving`, an open-ended pending entry | `xcb_take_socket`, `xcb_writev`, `get_socket_back` | one side writes at a time; each side's responses are treated by its own flags |
| Output queue (`xcb_out.c`, `xcb_conn.c:174`) | `out.queue`, `request_written`, `writing` | `write_block`, `_xcb_out_flush_to`, `_xcb_out_send`, `write_vec` | requests reach the socket once, in order; the books agree with the socket |
| Waiting (`xcb_conn.c:322`, `xcb_in.c`) | `reading`, `writing`, the reader list, three kinds of condition variables | `_xcb_conn_wait`, `xcb_wait_for_reply`, `xcb_wait_for_event`, `xcb_poll_for_event`, `xcb_request_check` | no wake-up is lost, nobody deadlocks, every call returns |
| Extension cache (`xcb_ext.c`) | numbers of extensions, a table of lazy replies, `ext.lock` | get, prefetch | one query per extension; every caller gets its answer; the table is read where it is |
| Maximum request length (`xcb_out.c:79`) | a tag and a union of cookie and value, `reqlenlock` | get, prefetch, the test in `xcb_send_request` | the server's limit is returned and kept |
| Resource ids (`xcb_xid.c`) | `last`, `max`, `base`, `inc`, `xid.lock` | `xcb_generate_id` | ids are unique and the client's own; a range is used to its end |
| Display names and sockets (`xcb_util.c`) | host, protocol, display, screen, a descriptor | parse, open over TCP or a Unix socket | names are read right; a server that listens is reached |
| Authorization (`xcb_auth.c`) | name and data of an entry, the shared nonce | `_xcb_get_auth_info` | the server gets the record for its address; no two nonces are equal |
| Setup and teardown (`xcb_conn.c:235-313`) | the parts initialised so far | connect, disconnect | every part is released once and only if it was set up |
| Generators, Win32, tests, tutorial | | | not modelled, see section 7 |

Components interact by calls under the lock: a public call numbers its request
(`out`), registers a pending reply (`in`), and queues or writes. Whoever is in
`_xcb_conn_wait` reads for everyone: it stores responses and signals the
threads they are for. The server is the other actor: it answers requests in
order, sends events at any time, stops reading while its responses are not
read, and may close the connection. The caches send requests and wait for
replies while they hold locks of their own: `xcb_generate_id` takes `xid.lock`,
asks the extension cache (`ext.lock`) and sends; `xcb_send_request` asks the
extension cache and the maximum length (`reqlenlock`), which asks the extension
cache. Connecting comes before all of it and runs in each thread alone, but for
the nonce of XDM-AUTHORIZATION-1.

**What is hard.** Requests are identified by 16 bits, so the numbering depends
on what every sender did since the last response. One pending entry at the
head of a list decides how a response is treated. One thread reads for all,
so a reply can be taken by a thread other than its owner. The lock is dropped
in the middle of `xcb_send_request` and `xcb_take_socket`. The caches keep
locks over a round trip and look at what they guard after the unlock. Connecting
is a chain of some thirty operations each of which may fail and has to take back
a different set of earlier ones. The hazards in `PROJECT.json` name the lines.

## 2. Modules

    XcbSeq  <--  XcbReply  <--  XcbRefines  <--  MCXcbReply
                    ^               |                runs routing, numbering, handoff,
                    |               v                     cookie_zero, handoff_error
                    |           XcbAnswers
                    +-- XcbReplyProofs <-- XcbReplyRouting <-- XcbReplyPending
                                               <-- XcbReplyResponses <-- XcbRefinesProofs
                                                     theorems, see section 4
    XcbThreads  <--  MCXcbThreads                   runs threads, writer_steals,
                    |                                    check_hangs, two_back
                    +-- XcbThreadsProofs
                                                     theorems, see section 4
    XcbCaches   <--  MCXcbCaches                    runs caches, ext_stale
                    |
                    +-- XcbCachesProofs              theorems, see section 4
    XcbConnect  <--  MCXcbConnect                   run connect
                    |
                    +-- XcbConnectProofs             theorems, see section 4

**XcbSeq**: arithmetic of sequence numbers. The sizes 2^16 and 2^32 are the
constants `Seq16` and `Seq32`, so that a wrap is reachable. `Diff32` keeps the
signed 32-bit comparison of `XCB_SEQUENCE_COMPARE_32`.

**XcbReply**: numbering and routing. A public call holds the lock whenever it
touches this state, so a call is one action; `read_packet` is one action per
packet. The variables have the names of the fields. Pending replies, the
current list and the event queue are sequences; the reply map is a sequence of
entries, as in `xcb_list.c`, searched from the front. A response is an index
into `log`, the sequence of everything the server sent, so the properties can
say where each one went. `reqs` records what each request was. The code sees
only the type of a response and its number modulo `Seq16`. Bytes, lengths and
the wire are abstracted: `served` lags behind `out_request` as it likes. The
one property about lengths (the GLX workaround, `xcb_in.c:146`) is kept as
`misframed`. Failures are switched on by `Faults`: `nomem` (malloc in
`_xcb_in_expect_reply`, `read_packet`, `insert_pending_discard`), `nomap`
(`_xcb_map_put`, whose result the code ignores), `io` (reading or writing
fails, also in the flush of `xcb_take_socket`), `refuse` (`xcb_send_request` rejects a request).

**XcbThreads**: the same calls taken apart at every point where the lock can
change hands. Each thread runs a script of public calls; `pc` is the point in
the code, `cv` the condition variable a thread sleeps on, `lock` the holder of
`iolock`. `poll()` runs without the lock and may return readable, writable, or
`POLLHUP`, which the code takes for an error. `prog` is the program: scripts,
the sizes of the queue and the socket, what the server may do. Here a request
fills one place of the queue or the socket, and numbers do not wrap. The
assertions of the code are recorded in `failed` when they would fail.
`pthread_cond_wait` has no spurious wake-ups in the model; every wait is in a
loop, so one could only help. `xcb_request_check` reads two counters without
the lock; both only grow, so the older value it may see can only cause a sync
that was not needed, and the two reads are one step.

**XcbAnswers**: what routing promises, without numbers, pending replies or a
map: an inbox for every request and one queue of events. It has two gaps, both
the code's: XCB's last request before a handoff may find its unchecked error in
the inbox (`edges`, finding handoff_error), and when `_xcb_map_put` finds no
memory the list it should store is forgotten without an error (`CanForget`).
After a failure of the connection responses may be misplaced, but nothing that
was given out is given out again.

**XcbRefines** maps XcbReply to it: the inbox of the request being read is
`current_reply`, another's is its list in the map, or nothing.

**XcbCaches**: the extension cache, the maximum request length and the resource
ids. Each thread has a stack of calls, for these functions call one another; a
label is a point where another thread may come in. The wire is coarse here: a
request is numbered when it is sent, the server answers in order, a reply can be
had once. `home` is the address of the extension table, which `realloc` may
change; a read through an old address gives what was there or nothing. Lengths
are words: a request that does not fit the short field is sent one word longer
than it was (`wire_length`), which is after the test against the limit. With
`XCB_REQUEST_RAW` (`send_raw`) neither extension nor length is looked at. An id is
the set of its bits, arithmetic on `last` and `max` is modulo 2^`WordBits`. The
lock `global_lock` guards one short block that calls nothing, so that block is
part of the step that contains it.

**XcbConnect**: `xcb_connect_to_display_with_auth_info` from the display name to
the connection and `xcb_disconnect` after it; `xcb_parse_display` too. A name is
a sequence of tokens. Memory is a value for each pointer and the set of live
blocks; locks, conditions and descriptors are blocks too. `bad` collects blocks
that are freed twice, used after being freed, or overwritten while live.
`faults` says what may fail; each operation then fails or not. The server, the
authority file and name resolution are given by the program. An authorization
record is abstracted to where its bytes come from.

Operators called "Variant" in the modules (`needs_sync_late`,
`wake_up_nobody`, ...) are plausible bugs. No specification uses them; the
mutants in `PROJECT.json` put each in the place of the operator it follows to
show that a property notices.

## 3. Runs

Runs that pass:

* **routing**: TypeOK, RoutedToOwner, ErrorsRouted, NothingLost, NullIsFinal,
  RepliesInOrder, DiscardHonoured, OnlyDiscardedDropped, FramingExact and
  Implements, the refinement of XcbAnswers. Three requests among void-checked
  and unchecked GetFBConfigs (a query with the workaround; plain queries are in
  handoff), three responses, polls and discards of any request at any
  moment, and a map that may fail to store. Three of each is enough for a
  request with several replies
  between two neighbours, for an entry to be left over or dropped early, and for
  the map to hold two lists.
* **numbering**: SequenceExact and WindowInv, with `Seq16 = 4` and five
  requests, so numbers wrap and a sync request is due after two silent ones.
  An owner writes batches; KeymapNotify, which has no number, is among the
  events.
* **handoff**: ErrorsRouted, OwnerEntryEnds, OnlyDiscardedDropped,
  NullIsFinal, Implements. Three unchecked queries and two responses, events
  among them, enough for one of XCB's before and after a handoff and one reply
  to move to the map; owners with and without flags, discards, and all faults.
  `Discarding = "inner"` leaves out discards of XCB's last request before a
  handoff, see section 5.
* **threads**: ThreadsTypeOK, NoOrphans, ReplyWakesReader, SocketExclusive,
  WireInOrder, WrittenIsOnWire, AssertionsHold, AllReturn, over four programs.
  Four threads wait for replies and events. One uses every reading call. Three
  send through a queue and a socket with room for one request, so every write
  blocks and the server's back pressure is felt. One takes the socket and two
  need it; there the queue has room for all requests, because a sender that
  writes right after getting the socket back meets the finding two_back. The
  server may close at any time, so every thread must also get out of a broken
  connection.
* **caches**: CachesTypeOK (with it, who holds which lock), CacheCoherent,
  MaxLengthRight, SentAcceptedButFull, IdsUnique, RangesUsedUp, CachesReturn. Two
  threads mix the calls: lengths with and without BIG-REQUESTS and sends at the
  limit and past it, one of them raw; ids through several ranges, freed and offered again by the
  server in every possible stretch; both at once, over the same extension
  cache; gets and prefetches of the three extensions with and without memory;
  and the connection breaking at any moment.
* **connect**: ConnectTypeOK, ReleasedOnce, NothingLeaks, ConnectedWhole,
  ParseRight, ReachesServer, AuthorizedRight, NoncesDiffer. All names of up to
  five tokens, as an argument and in `DISPLAY`; all kinds of names and servers;
  an authority entry under each family for each kind of address; all answers of
  the server; every operation failing at every point, alone or with others; two
  threads that need a nonce at once.

The runs of XcbReply turn deadlock checking off since their bounds stop them;
the others because a program ends. AllReturn and CachesReturn are stronger: a
thread that stops anywhere but at its end violates them.

**Bounds.** `MaxRequest`, `MaxPacket`, `MaxPending` cap counters and lists of
XcbReply in the guards of the actions that grow them. The other modules are
finite because scripts, events and names are. `WordBits = 4` gives room for a
base, a mask of two bits and a range that ends where the arithmetic is closest
to wrapping. `IntHalf = 8` (an `int` of 4 bits) and `ULONG_MAX = 63` make two
digits overflow an `int` and three an `unsigned long`. `NameLen = 5` holds every combination of slash,
colon, dot and sign with a digit, in every order; longer names only repeat them.

**Fairness.** `FairSpec` of XcbThreads asks for weak fairness of each thread
(the scheduler runs what can run; scripts are finite, so nobody can take the
lock for ever), of the server's answers and of its events. That of XcbCaches
asks the same of threads and answers. Nothing is asked of `close` and `break`.
XcbReply and XcbConnect have safety properties only.

Runs that show a disagreement are in section 5.

## 4. Proofs

The theorems hold for every value of the constants: any widths, any number of
requests, responses, threads and handoffs, all failures. What a theorem assumes
beyond the assumptions on the constants (`WidthAssumption`, `ReplyAssumption`,
`ThreadsAssumption`, `CachesAssumption`, `ConnectAssumption`) is part of its statement; the
assumptions are

* `OwnerContract = "expected"`: a socket owner counts its silent requests
  against `request_expected`. Another contract breaks the numbering (section 5).
* `MaxRequest < Seq32`: fewer requests than cookies. A list of replies nobody
  collects stays in the map, and a request 2^32 later has the same key.
* `NoWrap`, `MaxRequest < Seq32 \div 2`: the pending replies are compared with
  the signed difference of cookies, which is the order of the requests only so
  long.
* `Careful`: nothing is discarded through the entry of a socket owner, see the
  second consequence in section 5.
* `NoOwner` (XcbThreadsProofs): nobody calls `xcb_take_socket`. With an owner the
  statements are false, which is the finding two_back.
* `CacheStaysPut` (XcbCachesProofs): nobody has read an extension table that had
  moved. Such a read gives a caller nothing, which is the finding ext_stale.
* `"nomem" \notin prog.faults`, for MaxLengthRight alone: when `realloc` fails,
  `xcb_get_extension_data` returns nothing, BIG-REQUESTS is taken to be absent,
  and the short length stays in the cache.
* `p.big >= p.short`, for SentAcceptedButFull alone: BIG-REQUESTS does not lower the
  limit of the setup.
* `FromBitZero`, for IdsUnique and RangesUsedUp: the bits of the mask are the
  lowest ones, as servers have it. For other masks the code is wrong (section 5).
* `"vanish" \notin prog.faults`, for ReleasedOnce, NothingLeaks and
  ConnectedWhole: if the second call for a long socket name fails,
  `get_peer_sock_name` frees what `realloc` has released (section 5).

What `CachesAssumption` says of a server's setup is that base and mask have no bit
in common, as in the protocol.

**The numbering** (`XcbReplyProofs`): `SequenceNumbersExact`, `WindowKept`.
SequenceExact is not inductive: that the next response is within 2^16 of the
last depends on requests still on their way. The invariant `WindowInv` says
that responses come in the order of requests (`LogOrdered`); that
`request_expected` is the last response read, or a response on its way, or an
unanswered request that has a reply, and that `out_request` is at most
2^16 - 2 past it (`ExpectedSafe`); and that such an anchor is at most 2^16 - 2
below every number from `request_read` to `out_request` (`NoLongSilence`). It
is checked by the run `numbering` and proved inductive action by action:
`SendSafe` (the sync request keeps the window), `WritevSafe` (the owner's
contract), `ServerSafe` (an anchor answered becomes an anchor on its way),
`ReadSafe` (`WidenExact`: within a window, widening is exact).

**Types** (`XcbReplyProofs`): `TypeCorrect`, with no assumption on owners. It
says more than that lists are lists: the map never holds an empty list, so
`poll_for_reply` may use what it finds without a test, and `request_completed`,
which is computed by subtraction, stays a number.

**Where responses go** (`XcbReplyRouting`): `NothingIsLost`,
`ResponsesReachOwner`, `RepliesStayInOrder`. `StoreInv` says that the places a
response can be in (current list, lists of the map, event queue, given out,
dropped, lost) are pairwise disjoint, without repetition and together all that
was read (`StorePlaces`), and that each list is in the order of arrival
(`StoreOrdered`); NothingLost alone says nothing of which list a moved response
was in. `RouteInv` adds the proved numbering: what is stored under a cookie or
in the current list answers that request.

**The pending replies** (`XcbReplyPending`): `OwnerEntriesEnd`. `PendInv` adds
that the list of pending replies is ordered, that every entry describes the
requests from its first to its last, that every unanswered request that needs an
entry has one that is found before any other, and that `request_completed` is
right: the list as the code searches it is a function from requests to flags.
A discard or a handoff puts entries in the middle or leaves one open at the
end, and this is where the two could disagree.

**What becomes of each response** (`XcbReplyResponses`): `ErrorsGoRight`,
`DiscardsAreHonoured`, `NothingElseDropped`, `StreamWellFramed`,
`NothingMoreComes`, from `ResponseInv`: with the right flags found, each place
holds only what belongs there (`PlacedRight`), and a request for which
`poll_for_reply` has returned nothing has no response stored, read or to come
(`NullsRight`).

**The refinement** (`XcbRefinesProofs`): `RepliesRefineAnswers`, every step of
XcbReply is a step of XcbAnswers or a stutter. The inboxes are written as a
function `Boxes` of the map, the current list and `request_read`; lemmas say
what putting the current list away, adding to it and taking from the map do to
it. Each action of XcbReply then is one of XcbAnswers with `ResponseInv` at
hand; the longest case is `read_packet`, which puts a list away, may forget it,
and files a response, in one step.

**Threads** (`XcbThreadsProofs`): `ThreadsConsistent`, `NobodyOrphaned`,
`RepliesWakeReaders`, with owners and a closing server. `ThreadInv` says that a
thread sleeps only at the waits of the code and is in the list of readers
exactly while it is in the loop of `xcb_wait_for_reply`, and that `reading` and
`writing` count the threads in `poll()` (`Counted`). The argument for NoOrphans
is the hand-over: a thread goes to sleep for input only if `reading > 0`, then
some thread is in `poll()`; whoever leaves wakes the first reader or, if there
is none, an event waiter, and that thread is then the attending one. A reader
that is first in the list and awake is itself attending.

`RequestsHaveOnePlace` and `ThreadsTyped`, in the same module, need no
assumption on owners either. That an event carries at most the number of the
last request is a question of how many requests are on the wire, and `NumberInv`
answers it without counting: queue, wire and what each thread has in hand hold
different requests (`Places`), so there are not more on the wire than numbers.
It also says that the room `poll()` has found is still there when the thread
writes (`RoomKept`), for only one thread writes at a time (`OneWriter`).

**Output** (`XcbThreadsProofs`): `OutputFlows`, and from it `RequestsInOrder`,
`WrittenIsWritten`, `AssertionsNeverFail`. `FlowInv` says that at the labels in
`Locked` a thread has the lock; that at most one thread writes, and the queue is
empty while it does; that while the connection is good the wire, what the
writer has in hand and the queue together are the requests 1 to `out_request`
in order (`Content`); and that `request_written` plus the queue is `out_request`
when nobody writes (`Written`). WireInOrder alone is not inductive: a request
numbered while another thread is in `poll()` must not overtake what that thread
still holds.

**Caches** (`XcbCachesProofs`): `CachesTyped`, `ExtensionAskedOnce`,
`CoherentUnlessMoved`, `LengthIsTheServers`, `AcceptedOnly`, for any number of
threads and any calls. The properties speak of what calls have returned; a call
lasts many steps in which other threads fill the caches, so `CacheInv` has to
say what a thread may rely on at each label. Its parts are: the stack of a
thread is one the code can have (`Chained`: which function calls which, from
where, and for which extension), and a lock is held exactly by the thread with a
frame between lock and unlock (`LockInv`); an answer is the one to its request
(`AnswersRight`); extension numbers are distinct and an entry of the table is
empty, the number of the query that was sent, or its reply, and an extension
with an empty entry was not asked about (`ExtInv`); the same for the length,
whose value is a cookie or a length depending on its tag (`MaxInv`); what a
frame has in hand, and what the call above it returned, is right for its label
(`ThreadOK`); a thread that saw the connection broken and reads the length
without having waited never finds a cookie there (`NoLateCookie`); and what was
returned or sent is right (`RecordsRight`). Each
step of the code is a lemma; lemmas on stacks (a new first frame, a call, a
return) and on what steps of another thread leave alone carry most of it.

**Resource ids** (`XcbCachesProofs`): `GeneratedIdsUnique`,
`RangesAlwaysUsedUp`. `IdInv` says that the ids in use are different and the
client's own, and that those after `last` in the range of `c->xid` are unused;
and the same of a range in an answer that nobody has read yet: between the
question and the answer its asker holds `xid.lock` (`LockInv`), and so nobody
generates an id that the server has just counted as unused. `FromBitZero` makes
`inc` 1, so that a range is exhausted exactly at its end, and every number up to
the mask an id. Ids are sets of bits and `last + inc` is a sum: the
proofs derive from the definition of `Bits` that adding numbers without a common
bit carries nothing (`AddBits`), that numbers with the same bits are equal
(`BitsDiffer`), and that `mask & -mask` is the lowest bit of the mask
(`LowestBit`). These are inductions over the width or the bits; they are done
with a least counterexample (`LeastNumber`), for which the library's theorem on
well-founded relations needs no operator as a parameter.

**Connecting** (`XcbConnectProofs`): `ConnectTypeCorrect`,
`NoncesAlwaysDiffer`, `AlwaysReleasedOnce`, `NeverLeaks`,
`AlwaysConnectedWhole`, `AlwaysAuthorizedRight`, `AlwaysReachesServer`,
`AlwaysParseRight`, for any number of threads, names of any length, any list of
addresses, any authority file and every combination of failures but the one
above. `BaseInv` has the types, how far a thread has come (`Progress`) and the
nonces: whoever has read the counter holds the mutex until it has counted on, so
the counter is ahead of every nonce taken (`Nonces`). ReleasedOnce and
NothingLeaks look at the end of a call and are not inductive; `Tidy` says for
every label which blocks are live for certain (`Kept`), which may be live besides
(`Extra`), and that each pointer used later points to its block (`Points`), so
every error path frees what was allocated before it and nothing else. `Found`,
`Authorized` and `Reaching` follow the server: it listens and has accepted, the
entry in hand is the one for its address, and what is left to try includes it as
long as anything could be reached. For ParseRight, `ReadBy` reduces the property
to a fact about the operators: what `strrchr`, `strtoul` and the two tests for
the end of a number make of a name is the one way to split it (`SplitIsReading`,
`ReadingIsSplit`), and `strtoul`, which reads from the first digit on and stops
counting at `ULONG_MAX`, agrees with the value of the digits (`StrtoulRight`).
These are inductions over the digits of a name, again by a least
counterexample.

Each of these invariants was checked by TLC on the instances of the runs before
it was proved.

Only model-checked:

* AllReturn and CachesReturn: liveness is out of the prover's reach.
* SocketExclusive: it holds of the programs of the run, in which one thread
  takes the socket, and not of every program (section 5, a consequence of
  two_back).

## 5. Findings

* **cookie_zero** (`xcb_out.c:223`): the test for cookie 0 looks at the 64-bit
  number. Request 2^32 has cookie 0.
* **handoff_error** (`xcb_out.c:271`): the owner's pending entry starts at
  XCB's last request, whose unchecked error is then kept with the replies.
* **writer_steals** (`xcb_conn.c:388`): a writer reads the reply that another
  thread waits for in `poll()`; the other thread sleeps on.
* **check_hangs** (`xcb_in.c:585`): `xcb_request_check` skips the sync because
  of a later query that is still in the queue.
* **two_back** (`xcb_out.c:213`): `writing` is not tested again after
  `get_socket_back`; the queue is filled while it is being written from.
* **ext_stale** (`xcb_ext.c:99`): `xcb_get_extension_data` reads its entry of
  the table after the unlock; another thread's new extension may have moved it.

Further consequences of these and other lines, seen with the same modules and
not kept as runs:

* With a third thread in `xcb_take_socket`, two_back breaks SocketExclusive: the
  first sender's `_xcb_out_send` sets `request_written` to the number of the
  second, which has not been written; `xcb_take_socket` finds nothing to flush
  and hands the socket out, and the second sender then writes.

* `xcb_writev` advances the number but not `request_expected`, and the sync test
  (`xcb_out.c:221`) is an equality, so it can be stepped over. An owner that
  counts silent requests since the last one with a reply
  (`OwnerContract = "history"`) breaks SequenceExact. The proofs assume an owner
  that counts against `request_expected` (`"expected"`).
* `xcb_discard_reply` of XCB's last request before a handoff marks the owner's
  entry and drops the owner's responses: OnlyDiscardedDropped fails in
  `handoff` with `Discarding = "any"`. (The header excludes socket-handoff
  replies from `xcb_discard_reply`, but this is a cookie of XCB's own.)
* `xcb_poll_for_event` reads beside a thread in `poll()` (`xcb_in.c:569`):
  AllReturn fails for `t1: reply`, `t2: poll_event`.
* `read_packet` signals the reader of the reply's own number, not those whose
  requests it completes (`xcb_in.c:209`). With `t1: void, query,
  request_check`, `t2: event` and no event, t2 reads the reply of the query in
  `poll()` and t1 sleeps on: `<>(script[t1] = <<>>)` fails.
* `xcb_take_socket` may wait for a writer in its flush, and requests queued
  meanwhile are left unwritten (`xcb_out.c:265`): AssertionsHold fails for
  `t1: take_socket`, `t2: void, flush, void`.

This is why the passing programs of XcbThreads have no thread that writes or
polls for events beside one that waits for a reply.

* With BIG-REQUESTS the length is compared with the limit before the word of the
  long length is counted in (`xcb_out.c:187,196`). A request that fills the limit
  is sent one word over it, although what is refused is what the "server can't
  take" (`xcb_out.c:190`): `q.len <= Limit` for all sent requests fails in
  `caches`, whose `Long(4)` meets the limit of 4. SentAcceptedButFull says that
  this is the only way a request gets past the limit.

* `_xcb_map_put` may fail, and nobody looks (`xcb_in.c:113`): a reply that has
  been read is lost on a connection that shows no error. XcbAnswers has the gap.
* A mask whose lowest bit is not 1 makes `max - inc + 1` wrap while `max` is 0
  (`xcb_xid.c:43`): with mask 6, IdsUnique fails. Servers give masks that start
  at bit 0, and so do the programs.
* A range is asked for when there was a reply about XC-MISC, not when the
  extension is present (`xcb_xid.c:52`): without it `xcb_send_request` shuts the
  connection down.
* The reply to GetXIDRange is not freed when the server is out of ids
  (`xcb_xid.c:63`). Uniqueness also needs a server that counts an id as used
  once it was generated, which a server cannot know: it holds for ids whose
  resource exists by the time of the next range, and the model says so.
* `_xcb_get_auth_info` overwrites `sockname` with the socket's own name
  (`xcb_auth.c:334`): the peer's name is lost on every connection that is
  authorized over a socket with a peer name. `socket_cond` is never destroyed
  (`xcb_out.c:328`). NothingLeaks names both exceptions (`Forgotten`).
* `xcb_disconnect` after a failed setup destroys locks that were not
  initialised (`xcb_conn.c:287`). They are zero, which on Linux is an unlocked
  lock; ReleasedOnce allows it for a connection that failed and no other.
* If a socket's name is longer than the first buffer and the second call fails,
  `get_peer_sock_name` frees the pointer `realloc` has released
  (`xcb_auth.c:283`): ReleasedOnce fails with the fault `vanish`, which is left
  out of the passing run.
* A name with a protocol goes to TCP and is refused unless the protocol is
  `tcp` (`xcb_util.c:172`): `unix/:0` reaches no server. `strtoul` takes signs,
  so `:-1` is a display, and larger numbers wrap on the way to `int`.
* `_xcb_parse_display` sets `*host` to NULL when its `malloc` fails, though
  `xcb.h` says of `xcb_parse_display` "Has no side effects on failure".

## 6. Plan

Done: the numbering, routing, handoff, output queue and waiting; the abstract
specification and its refinement; the caches and resource ids; connecting. All
invariants of XcbReply, XcbCaches and XcbConnect and the refinement are proved,
and those of XcbThreads but SocketExclusive. Next: the output of XcbThreads and
SocketExclusive with an owner, for programs that stay clear of two_back.

## 7. Not modelled

* Of `xcb_util.c`: launchd and DECnet, which other builds have; the port number,
  socket options and the file name; `xcb_popcount`, which has tests. Of
  `xcb_auth.c`: the bytes of a record and the cipher of XDM-AUTHORIZATION-1.
* Functions that return a field (`xcb_get_setup`, `xcb_get_file_descriptor`,
  `xcb_connection_has_error`, the iterators).
* `c_client.py`, `c-client.xsl`: run at build time; the stubs they print call
  the functions modelled here.
* The `_WIN32` and `select()` branches; the models follow the `poll()` build.
* `read_block` (`xcb_in.c:264`): blocks with the lock held until the rest of a
  packet has come. The models read packets whole.
