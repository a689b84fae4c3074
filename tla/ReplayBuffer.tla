---------------------------- MODULE ReplayBuffer ----------------------------
(***************************************************************************)
(* internal/tunnel/buffer.go: the bytes of one direction of a session that *)
(* the peer has not acknowledged yet, addressed by cumulative stream       *)
(* offset.  base is the offset of the first retained byte.  The cap (max)  *)
(* is a parameter of Free, the only operation that looks at it: every      *)
(* caller appends at most Free bytes, so Append's ErrFull never returns.   *)
(***************************************************************************)
EXTENDS Integers, Sequences

NewReplayBuffer == [base |-> 0, buf |-> <<>>]

BufLen(b) == Len(b.buf)

Free(b, max) == max - BufLen(b)

End(b) == b.base + BufLen(b)

AppendTo(b, p) == [b EXCEPT !.buf = @ \o p]

(* Mutant of TrimTo: one byte too many is dropped.                         *)
TrimToOffByOne(b, offset) ==
    IF offset <= b.base THEN b
    ELSE IF offset + 1 >= End(b) THEN [base |-> End(b), buf |-> <<>>]
    ELSE [base |-> offset + 1,
          buf |-> SubSeq(b.buf, offset - b.base + 2, BufLen(b))]

(* Offsets at or below base change nothing, offsets beyond End are clamped *)
TrimTo(b, offset) ==
    IF offset <= b.base THEN b
    ELSE IF offset >= End(b) THEN [base |-> End(b), buf |-> <<>>]
    ELSE [base |-> offset,
          buf |-> SubSeq(b.buf, offset - b.base + 1, BufLen(b))]

(* From returns an error outside base..End; here its result is guarded by  *)
(* FromOK.                                                                 *)
FromOK(b, offset) == b.base <= offset /\ offset <= End(b)

From(b, offset) == SubSeq(b.buf, offset - b.base + 1, BufLen(b))
=============================================================================
