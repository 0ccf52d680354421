------------------------------- MODULE XcbSeq -------------------------------
(***************************************************************************)
(* Sequence-number arithmetic of libxcb.                                   *)
(*                                                                         *)
(* XCB keeps request numbers as uint64_t.  The server puts only their low  *)
(* 16 bits into a response, and the public API hands out their low 32 bits *)
(* as the cookie of a request.  This module has the conversions and the    *)
(* comparisons the rest of the library is built on.                        *)
(*                                                                         *)
(* A 64-bit number is a natural number here: a connection that lives for   *)
(* 2^64 requests is out of reach, so the uint64_t never wraps and          *)
(* XCB_SEQUENCE_COMPARE, (int64_t)(a - b) op 0, is a op b.  The 16 and 32  *)
(* bit widths do wrap in practice; they are the moduli Seq16 and Seq32, so *)
(* that a model can wrap after a few requests.                             *)
(***************************************************************************)
EXTENDS Integers

CONSTANTS
    Seq16,      \* 2^16 in the code: modulus of a response's sequence field
    Seq32       \* 2^32 in the code: modulus of a cookie

\* Seq16 is at least 4: with a modulus of 2 the loop that inserts sync
\* requests in xcb_send_request would never end.
ASSUME WidthAssumption ==
    /\ Seq16 \in Nat /\ Seq16 >= 4
    /\ Seq32 \in Nat /\ Seq32 >= Seq16

\* The value a cookie has as a C int.
Int32(a) ==
    LET low == a % Seq32
    IN  IF low < Seq32 \div 2 THEN low ELSE low - Seq32

\* XCB_SEQUENCE_COMPARE_32(a, op, b) is Diff32(a, b) op 0.  The C expression
\* overflows an int when a and b lie on different sides of 2^31; models keep
\* their request numbers below Seq32 \div 2 when they use it.
Diff32(a, b) == Int32(a) - Int32(b)

\* The low 32 bits of a request number.
Cookie(request) == request % Seq32

\* Variant: a second response to a request is taken for one of the next
\* window.
WidenSequence_strict(lastread, sequence) ==
    LET same == (lastread \div Seq16) * Seq16 + sequence
    IN  IF same <= lastread /\ lastread > 0 THEN same + Seq16 ELSE same

\* read_packet: the request number meant by the 16-bit `sequence` of a
\* response, given the number of the response read before it.
WidenSequence(lastread, sequence) ==
    LET same == (lastread \div Seq16) * Seq16 + sequence
    IN  IF same < lastread THEN same + Seq16 ELSE same

\* xcb_wait_for_reply, discard_reply: the request number meant by a cookie,
\* given the number of the request issued last.
WidenCookie(request, cookie) ==
    LET same == (request \div Seq32) * Seq32 + cookie
    IN  IF same > request THEN same - Seq32 ELSE same
=============================================================================
