------------------------------ MODULE XioCirc ------------------------------
(***************************************************************************)
(* The circular buffer of class xiomas_tcp_export: its index arithmetic,   *)
(* exactly as src/Xiomas/xiomas_export.{h,cc} computes it, without the     *)
(* queue processing built on it (module XioTcpExport).                     *)
(*                                                                         *)
(* A buffer is a record of the three members circ, circ_head, circ_tail.   *)
(* The bytes are abstract: the k-th byte ever accepted is the number k, so *)
(* that losing, repeating or reordering bytes is visible; 0 is a byte of   *)
(* the heap memory that no commit has written.                             *)
(***************************************************************************)
EXTENDS Integers

CONSTANTS
  CircSize,   \* circ_size = CIRC_BUFFER_SIZE (270000 in the code)
  Word        \* the modulus of uint32_t arithmetic (2^32 in the code)

ASSUME CircAssumption ==
  /\ CircSize \in Nat \ {0}
  /\ Word \in Nat
  /\ Word >= 2 * CircSize

Index == 0 .. CircSize - 1

\* circ_head takes this value, one past the size, when the buffer is empty.
EmptyMark == CircSize + 1

Smaller(a, b) == IF a < b THEN a ELSE b

Buffers == [circ : [Index -> Nat],
            circ_head : Index \cup {EmptyMark},
            circ_tail : Index]

NewBuffer == [circ |-> [i \in Index |-> 0],
              circ_head |-> EmptyMark,
              circ_tail |-> 0]

circ_length(b) ==
  IF b.circ_head > CircSize THEN 0
  ELSE IF b.circ_tail > b.circ_head
       THEN b.circ_tail - b.circ_head
       ELSE CircSize - b.circ_head + b.circ_tail

circ_space(b) == CircSize - circ_length(b)

\* The subtraction is unsigned: with circ_tail > circ_head the code takes
\* circ_head-circ_tail, which wraps round the word.
circ_head_bytes(b) ==
  IF b.circ_head > CircSize THEN 0
  ELSE IF b.circ_tail > b.circ_head
       THEN (b.circ_head - b.circ_tail) % Word
       ELSE CircSize - b.circ_head

-----------------------------------------------------------------------------
(* circ_commit(): copy up to n bytes in, in at most two spans.             *)

\* Mutant: the overflow is reported but n_bytes is not reduced.
AcceptedAll(b, n) == n

\* How many of the n bytes are taken: the rest is the "overflow".
Accepted(b, n) == Smaller(n, circ_space(b))

\* head and tail as the copy starts (an empty buffer restarts at index 0),
\* the length of the span up to the end of the free space or of the array,
\* the tail after it, and what is left for the span from index 0.
CommitPlan(b, n) ==
  LET head == IF b.circ_head > CircSize THEN 0 ELSE b.circ_head
      tail == IF b.circ_head > CircSize THEN 0 ELSE b.circ_tail
      room == IF tail >= head THEN CircSize - tail ELSE head - tail
      span == Smaller(Accepted(b, n), room)
  IN [head |-> head, tail |-> tail, span |-> span,
      next |-> IF tail + span = CircSize THEN 0 ELSE tail + span,
      rest |-> Accepted(b, n) - span]

\* After the second span the code advances circ_tail by tail_space, the
\* length of the FIRST span.
TailAfter(p) == IF p.rest > 0 THEN p.next + p.span ELSE p.next

circ_commit(b, first, n) ==
  LET p == CommitPlan(b, n)
      Copied(i) ==
        IF p.rest > 0 /\ i >= p.next /\ i < p.next + p.rest
        THEN first + p.span + (i - p.next)
        ELSE IF i >= p.tail /\ i < p.tail + p.span
             THEN first + (i - p.tail)
             ELSE b.circ[i]
  IN IF Accepted(b, n) = 0 THEN b
     ELSE [circ |-> [i \in Index |-> Copied(i)],
           circ_head |-> p.head,
           circ_tail |-> TailAfter(p)]

\* The commit needs the second span.
Wraps(b, n) == Accepted(b, n) > 0 /\ CommitPlan(b, n).rest > 0

\* The nl_asserts of circ_commit, and its two memcpys staying in the array.
CommitAsserts(b, n) ==
  LET p == CommitPlan(b, n)
  IN Accepted(b, n) > 0 =>
       /\ p.tail + p.span <= CircSize
       /\ p.rest > 0 => p.next = 0 /\ p.rest <= p.head

CommitInBounds(b, n) ==
  LET p == CommitPlan(b, n)
  IN Accepted(b, n) > 0 => /\ p.tail + p.span <= CircSize
                           /\ p.next + p.rest <= CircSize

-----------------------------------------------------------------------------
(* circ_consume() and circ_transmit(): take n bytes out.                   *)

\* Mutant: the head is not brought back from the end of the array to index 0.
ConsumeNoWrap(b, n) ==
  [b EXCEPT !.circ_head = IF b.circ_head + n = b.circ_tail THEN EmptyMark
                          ELSE b.circ_head + n]

\* circ_consume(), but for outstanding_bytes, which XioTcpExport keeps.
circ_consume(b, n) ==
  LET moved == b.circ_head + n
      head  == IF moved = CircSize THEN 0 ELSE moved
  IN [b EXCEPT !.circ_head = IF head = b.circ_tail THEN EmptyMark ELSE head]

\* The spans written by the first two rounds of the loop of circ_transmit().
Span1(b, n) == Smaller(n, circ_head_bytes(b))
AfterSpan1(b, n) == circ_consume(b, Span1(b, n))
Span2(b, n) == Smaller(n - Span1(b, n), circ_head_bytes(AfterSpan1(b, n)))

\* Mutant: the bytes are taken out in one span only.
TransmitOneSpan(b, n) == AfterSpan1(b, n)

circ_transmit(b, n) ==
  IF Span1(b, n) = n THEN AfterSpan1(b, n)
  ELSE circ_consume(AfterSpan1(b, n), Span2(b, n))

\* nl_assert(txmit_bytes > 0) and circ_consume's nl_assert in each round, and
\* no third round: the two spans are all n bytes.
TransmitAsserts(b, n) ==
  /\ Span1(b, n) > 0
  /\ Span1(b, n) < n => /\ Span2(b, n) > 0
                        /\ Span1(b, n) + Span2(b, n) = n

\* What iwrite() is given lies inside the array.
TransmitInBounds(b, n) ==
  /\ b.circ_head + Span1(b, n) <= CircSize
  /\ Span1(b, n) < n =>
       AfterSpan1(b, n).circ_head + Span2(b, n) <= CircSize

\* The bytes written are first, first+1, ..., first+n-1 in this order.
TransmitsFrom(b, n, first) ==
  LET second == AfterSpan1(b, n).circ_head
  IN /\ TransmitInBounds(b, n)
     /\ \A i \in 0 .. Span1(b, n) - 1 : b.circ[b.circ_head + i] = first + i
     /\ Span1(b, n) < n =>
          \A i \in 0 .. Span2(b, n) - 1 :
             b.circ[second + i] = first + Span1(b, n) + i
=============================================================================
