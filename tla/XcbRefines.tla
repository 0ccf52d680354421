----------------------------- MODULE XcbRefines -----------------------------
(* XcbReply implements XcbAnswers.                                         *)
EXTENDS XcbReply

\* What waits for request n: its list in the reply map, or the list of the
\* current replies if its responses are being read.
Waiting(n) ==
    IF n = request_read THEN current_reply
    ELSE IF InMap(Cookie(n)) THEN replies[MapIndex(Cookie(n))].data ELSE <<>>

Inbox == [n \in 1 .. MaxRequest |-> Waiting(n)]

\* The responses of a queue of events.
IdsOf(evs) == [i \in DOMAIN evs |-> evs[i].id]

Answers == INSTANCE XcbAnswers WITH
    Number <- 1 .. MaxRequest,
    CanForget <- "nomap" \in Faults,
    requests <- reqs, responses <- log, failed <- has_error,
    inbox <- Inbox, queue <- IdsOf(events), delivered <- IdsOf(delivered)

\* Sorting responses by 16-bit numbers, keeping them in a map under 32-bit
\* cookies and pruning the list of pending replies (xcb_in.c) comes to what
\* XcbAnswers says: an inbox for every request and one queue.
Implements == Answers!Spec
=============================================================================
