----------------------------- MODULE XcbAnswers -----------------------------
(***************************************************************************)
(* What a connection promises an application about the responses of the    *)
(* server, without sequence numbers, pending replies, a reply map or a     *)
(* list of current replies.  Every request has an inbox, in which its      *)
(* answers wait in the order they were sent; everything else waits in one  *)
(* queue of events.  XcbRefines shows that XcbReply implements this.       *)
(*                                                                         *)
(* The promise has two gaps, which are the code's: XCB's last request      *)
(* before the socket is taken may find its error in the inbox (edges), and *)
(* what waits in an inbox is forgotten without notice if the memory to     *)
(* keep it is missing (CanForget).                                         *)
(***************************************************************************)
EXTENDS Integers, SequencesExt

CONSTANTS
    Number,         \* request numbers
    CanForget

VARIABLES
    requests, served, responses,    \* what was sent, and what was answered
    nread,                          \* how many responses have been sorted
    inbox, queue,                   \* where they wait
    taken, delivered,               \* what the application was given
    dropped, lost,                  \* what it will not be given
    nulls,                          \* requests it was told have no answer left
    discards,                       \* requests it wants no answer to
    edges, failed

vars == <<requests, served, responses, nread, inbox, queue, taken, delivered, dropped, lost,
          nulls, discards, edges, failed>>
given == <<taken, nulls, delivered>>
asked == <<requests, discards, edges>>
server == <<served, responses>>

Init ==
    /\ requests = <<>> /\ served = 0 /\ responses = <<>> /\ nread = 0
    /\ inbox = [n \in Number |-> <<>>] /\ queue = <<>>
    /\ taken = [n \in Number |-> <<>>] /\ delivered = <<>>
    /\ dropped = {} /\ lost = {} /\ nulls = {} /\ discards = {} /\ edges = {}
    /\ failed = FALSE

Unwanted(n) == n \in discards \/ "DISCARD_REPLY" \in requests[n].flags

\* A response the application can ask for with its cookie.
IsAnswer(p) ==
    \/ p.type = "reply"
    \/ p.type = "error" /\ "CHECKED" \in requests[p.of].flags

\* The server will not send another response to request n.
Over(n) == served > n \/ \E i \in DOMAIN responses : responses[i] = [type |-> "error", of |-> n]

\* A step in which the connection may turn out to be broken.
MayFail == failed' \in BOOLEAN

\* Requests are issued, by the application or by a socket owner.
Issue ==
    /\ ~failed
    /\ IsPrefix(requests, requests')
    /\ edges \subseteq edges' /\ MayFail
    /\ UNCHANGED <<discards, server, nread, given, dropped, lost, queue, inbox>>

\* The server answers in order.
Respond ==
    /\ served' \in {served, served + 1} /\ served' <= Len(requests)
    /\ \/ UNCHANGED responses
       \/ /\ Len(responses') = Len(responses) + 1 /\ IsPrefix(responses, responses')
          /\ Last(responses').of = served'
          /\ Last(responses').type \in {"reply", "error"} => ~Over(served')
    /\ UNCHANGED <<asked, nread, given, dropped, lost, failed, queue, inbox>>

\* Where response i belongs.  When the connection has failed it may also end
\* up in the other place, or be lost.
Places(i) ==
    LET p == responses[i]
    IN  IF p.type \in {"reply", "error"} /\ Unwanted(p.of) THEN {"dropped"}
        ELSE IF p.type = "error" /\ p.of \in edges THEN {"inbox", "queue"}
        ELSE IF IsAnswer(p) THEN {"inbox"} ELSE {"queue"}

Failure(i) == IF responses[i].type \in {"reply", "error"} THEN {"inbox", "queue", "lost"}
              ELSE {"queue", "lost"}

Put(boxes, n, i) == [boxes EXCEPT ![n] = Append(@, i)]

\* The next response is sorted; what waits for a request in `forgotten`, one
\* at most, is lost.
Arrive(forgotten) ==
    LET i     == nread + 1
        left  == [n \in Number |-> IF n \in forgotten THEN <<>> ELSE inbox[n]]
        gone  == UNION {ToSet(inbox[n]) : n \in forgotten}
    IN  /\ nread' = i /\ i <= Len(responses)
        /\ \E place \in Places(i) \cup (IF failed' THEN Failure(i) ELSE {}) :
             /\ inbox' = IF place = "inbox" THEN Put(left, responses[i].of, i) ELSE left
             /\ queue' = IF place = "queue" THEN Append(queue, i) ELSE queue
             /\ dropped' = IF place = "dropped" THEN dropped \cup {i} ELSE dropped
             /\ lost' = lost \cup gone \cup (IF place = "lost" THEN {i} ELSE {})
        /\ MayFail
        /\ UNCHANGED <<asked, server, given>>

\* Reading fails.
Fail(forgotten) ==
    /\ failed'
    /\ inbox' = [n \in Number |-> IF n \in forgotten THEN <<>> ELSE inbox[n]]
    /\ lost' = lost \cup UNION {ToSet(inbox[n]) : n \in forgotten}
    /\ UNCHANGED <<asked, server, nread, given, dropped, queue>>

\* The application asks for an answer and gets the oldest one.
Take(n) ==
    /\ inbox[n] # <<>>
    /\ taken' = [taken EXCEPT ![n] = Append(@, Head(inbox[n]))]
    /\ \/ inbox' = [inbox EXCEPT ![n] = Tail(@)] /\ UNCHANGED lost
       \/ /\ CanForget
          /\ inbox' = [inbox EXCEPT ![n] = <<>>]
          /\ lost' = lost \cup ToSet(Tail(inbox[n]))
    /\ UNCHANGED <<asked, server, nread, nulls, dropped, failed, delivered, queue>>

\* It is told that there is none, or none any more, only when that is final.
SayNothing(n) ==
    /\ ~failed =>
         /\ inbox[n] = <<>> /\ Over(n)
         /\ \A i \in nread + 1 .. Len(responses) : ~(responses[i].of = n /\ IsAnswer(responses[i]))
    /\ nulls' = nulls \cup {n}
    /\ UNCHANGED <<asked, server, nread, taken, dropped, lost, failed, delivered, queue, inbox>>

\* It wants no answer to request n, of those at hand and those to come.
Discard(n) ==
    /\ discards' = discards \cup {n}
    /\ inbox' = [inbox EXCEPT ![n] = <<>>]
    /\ dropped' = dropped \cup ToSet(inbox[n]) /\ MayFail
    /\ UNCHANGED <<requests, edges, server, nread, given, lost, queue>>

GetEvent ==
    /\ queue # <<>>
    /\ delivered' = Append(delivered, Head(queue))
    /\ queue' = Tail(queue)
    /\ UNCHANGED <<asked, server, nread, taken, nulls, dropped, lost, failed, inbox>>

\* What may be forgotten in a step.
Forgettable == {{}} \cup (IF CanForget THEN {{n} : n \in Number} ELSE {})

Next ==
    \/ Issue \/ Respond \/ GetEvent
    \/ \E forgotten \in Forgettable : Arrive(forgotten) \/ Fail(forgotten)
    \/ \E n \in Number : Take(n) \/ SayNothing(n) \/ Discard(n)

\* A connection that has failed stays so.
Spec == Init /\ [][Next /\ (failed => failed')]_vars
=============================================================================
