---------------------------- MODULE XioTcpProofs ----------------------------
(***************************************************************************)
(* Theorems of modules XioTcpExport and XioTcp.                            *)
(*                                                                         *)
(* Of xiomas_tcp_export, for every size of the buffer, of the packets and  *)
(* of the window: the buffer's index arithmetic first, as lemmas on the    *)
(* operators of XioCirc, then the invariants of XioTcpExport.              *)
(*                                                                         *)
(* Of the receivers, for any number of connections at a time and any       *)
(* packets: they use the exporter as XioTcpExport takes its callers to, so *)
(* that all that is proved of the exporter holds with them; and they are   *)
(* acked only after delivery, and surely.  With one at a time, a packet    *)
(* accepted at its header fits, piece by piece, to its end.                *)
(***************************************************************************)
EXTENDS XioTcp, SequenceTheorems, FiniteSetTheorems, NaturalsInduction,
        WellFoundedInduction, TLAPS

-----------------------------------------------------------------------------
(* The circular buffer.                                                    *)

\* circ_length() is between 0 and the size, whatever the indices.
LEMMA LengthInRange ==
  ASSUME NEW b \in Buffers
  PROVE  circ_length(b) \in 0 .. CircSize
BY CircAssumption, SMTT(30)
   DEF Buffers, Index, EmptyMark, circ_length

\* The code takes no more of a commit than circ_space().
LEMMA AcceptedInRange ==
  ASSUME NEW b \in Buffers, NEW n \in Nat
  PROVE  /\ Accepted(b, n) \in 0 .. n
         /\ Accepted(b, n) <= CircSize - circ_length(b)
BY CircAssumption, LengthInRange, SMTT(30) DEF Accepted, circ_space, Smaller

\* What circ_commit() computes before it copies: the second span, if there is
\* one, starts at index 0 and ends at or before the head, and only a buffer
\* that is neither empty nor full can need it.
LEMMA CommitPlanRange ==
  ASSUME NEW b \in Buffers, NEW n \in Nat, Accepted(b, n) > 0
  PROVE  LET p == CommitPlan(b, n)
         IN /\ p.head \in Index /\ p.tail \in Index
            /\ p.span \in 1 .. Accepted(b, n)
            /\ p.tail + p.span <= CircSize
            /\ p.next \in Index
            /\ p.rest = Accepted(b, n) - p.span
            /\ p.rest > 0 => /\ p.next = 0 /\ p.rest <= p.head
                             /\ p.tail > 0 /\ p.tail + p.span = CircSize
<1> DEFINE p == CommitPlan(b, n)
           empty == b.circ_head > CircSize
<1>1. Accepted(b, n) \in Nat /\ Accepted(b, n) <= CircSize - circ_length(b)
  BY AcceptedInRange, LengthInRange, CircAssumption
<1>2. CASE empty
  <2>1. p.head = 0 /\ p.tail = 0
    BY <1>2 DEF CommitPlan
  <2>2. circ_length(b) = 0
    BY <1>2 DEF circ_length
  <2>3. p.span = Accepted(b, n) /\ p.rest = 0
    <3>1. p.span = Smaller(Accepted(b, n), CircSize)
      BY <1>2, CircAssumption, SMTT(30) DEF CommitPlan
    <3>2. p.rest = Accepted(b, n) - p.span
      BY DEF CommitPlan
    <3>. QED BY <1>1, <2>2, <3>1, <3>2, CircAssumption, SMTT(30) DEF Smaller
  <2>4. p.next = IF p.tail + p.span = CircSize THEN 0 ELSE p.tail + p.span
    BY DEF CommitPlan
  <2>. QED
    BY <1>1, <2>1, <2>2, <2>3, <2>4, CircAssumption, SMTT(30) DEF Index
<1>3. CASE ~empty
  <2>1. b.circ_head \in Index /\ b.circ_tail \in Index
    BY <1>3, CircAssumption, SMTT(30) DEF Buffers, Index, EmptyMark
  <2>2. p.head = b.circ_head /\ p.tail = b.circ_tail
    BY <1>3 DEF CommitPlan
  <2>3. CASE b.circ_tail >= b.circ_head
    <3>1. p.span = Smaller(Accepted(b, n), CircSize - b.circ_tail)
      BY <1>3, <2>3, CircAssumption DEF CommitPlan
    <3>2. p.rest = Accepted(b, n) - p.span
      BY DEF CommitPlan
    <3>3. p.next = IF p.tail + p.span = CircSize THEN 0 ELSE p.tail + p.span
      BY DEF CommitPlan
    <3>4. b.circ_tail > b.circ_head
            /\ circ_length(b) = b.circ_tail - b.circ_head
      BY <1>1, <1>3, <2>1, <2>3, CircAssumption, SMTT(30)
         DEF circ_length, Index
    <3>. QED
      BY <1>1, <2>1, <2>2, <3>1, <3>2, <3>3, <3>4, CircAssumption, SMTT(30)
         DEF Smaller, Index
  <2>4. CASE b.circ_tail < b.circ_head
    <3>1. p.span = Smaller(Accepted(b, n), b.circ_head - b.circ_tail)
      BY <1>3, <2>1, <2>4, CircAssumption, SMTT(30) DEF CommitPlan, Index
    <3>2. p.rest = Accepted(b, n) - p.span
      BY DEF CommitPlan
    <3>3. p.next = IF p.tail + p.span = CircSize THEN 0 ELSE p.tail + p.span
      BY DEF CommitPlan
    <3>4. circ_length(b) = CircSize - b.circ_head + b.circ_tail
      BY <1>3, <2>1, <2>4, CircAssumption, SMTT(30) DEF circ_length, Index
    <3>. QED
      BY <1>1, <2>1, <2>2, <2>4, <3>1, <3>2, <3>3, <3>4, CircAssumption,
         SMTT(30) DEF Smaller, Index
  <2>. QED
    BY <2>1, <2>3, <2>4, CircAssumption, SMTT(30) DEF Index
<1>. QED BY <1>2, <1>3

\* circ_commit() breaks none of its assertions and stays in the array.
LEMMA CommitSafe ==
  ASSUME NEW b \in Buffers, NEW n \in Nat
  PROVE  CommitAsserts(b, n) /\ CommitInBounds(b, n)
<1>1. CASE Accepted(b, n) > 0
  <2> DEFINE p == CommitPlan(b, n)
  <2>1. /\ p.tail + p.span <= CircSize
        /\ p.rest > 0 => p.next = 0 /\ p.rest <= p.head
    BY <1>1, CommitPlanRange
  <2>2. p.next + p.rest <= CircSize
    BY <1>1, <2>1, CommitPlanRange, AcceptedInRange, CircAssumption, SMTT(30)
       DEF Index
  <2>. QED BY <2>1, <2>2 DEF CommitAsserts, CommitInBounds
<1>2. CASE ~(Accepted(b, n) > 0)
  BY <1>2 DEF CommitAsserts, CommitInBounds
<1>. QED BY <1>1, <1>2

\* circ_commit() leaves a buffer whose indices are in range, though the tail
\* of a commit that wrapped may be anywhere in it.
LEMMA CommitBuffer ==
  ASSUME NEW b \in Buffers, NEW first \in Nat, NEW n \in Nat
  PROVE  circ_commit(b, first, n) \in Buffers
<1> DEFINE p == CommitPlan(b, n)
           Copied(i) ==
             IF p.rest > 0 /\ i >= p.next /\ i < p.next + p.rest
             THEN first + p.span + (i - p.next)
             ELSE IF i >= p.tail /\ i < p.tail + p.span
                  THEN first + (i - p.tail)
                  ELSE b.circ[i]
<1>1. CASE Accepted(b, n) = 0
  BY <1>1 DEF circ_commit
<1>2. CASE Accepted(b, n) # 0
  <2>1. Accepted(b, n) > 0 /\ Accepted(b, n) \in Nat
    BY <1>2, AcceptedInRange
  <2>2. /\ p.head \in Index /\ p.tail \in Index
        /\ p.span \in 1 .. Accepted(b, n)
        /\ p.tail + p.span <= CircSize
        /\ p.next \in Index
        /\ p.rest = Accepted(b, n) - p.span
        /\ p.rest > 0 => /\ p.next = 0 /\ p.rest <= p.head
                         /\ p.tail > 0 /\ p.tail + p.span = CircSize
    BY <2>1, CommitPlanRange
  <2>3. TailAfter(p) \in Index
    BY <2>1, <2>2, CircAssumption, SMTT(30) DEF TailAfter, Index
  <2>4. \A i \in Index : Copied(i) \in Nat
    <3>1. b.circ \in [Index -> Nat]
      BY DEF Buffers
    <3>2. p.span \in Nat /\ p.rest \in Nat /\ p.tail \in Nat /\ p.next \in Nat
      BY <2>1, <2>2, CircAssumption, SMTT(30) DEF Index
    <3> HIDE DEF p
    <3> SUFFICES ASSUME NEW i \in Index PROVE Copied(i) \in Nat
      OBVIOUS
    <3>3. b.circ[i] \in Nat
      BY <3>1
    <3>4. i \in Int
      BY CircAssumption DEF Index
    <3>. QED BY <3>2, <3>3, <3>4, SMTT(30)
  <2>5. circ_commit(b, first, n) =
          [circ |-> [i \in Index |-> Copied(i)],
           circ_head |-> p.head, circ_tail |-> TailAfter(p)]
    BY <1>2 DEF circ_commit
  <2> HIDE DEF p, Copied
  <2>. QED BY <2>2, <2>3, <2>4, <2>5 DEF Buffers
<1>. QED BY <1>1, <1>2
-----------------------------------------------------------------------------
(* Transmission from the circular buffer.                                  *)

\* Unsigned subtraction of a larger index from a smaller one.
LEMMA UnsignedSub ==
  ASSUME NEW i \in Index, NEW j \in Index, i > j
  PROVE  (j - i) % Word = Word - (i - j)
<1>1. /\ j - i \in Int /\ Word \in Nat /\ Word > 0
      /\ j - i < 0 /\ (j - i) + Word >= 0
      /\ (j - i) + Word = Word - (i - j)
  BY CircAssumption, SMTT(30) DEF Index
<1>2. \A x \in Int, W \in Nat : W > 0 /\ x < 0 /\ x + W >= 0 => x % W = x + W
  BY SMTT(30)
<1>. QED BY <1>1, <1>2

\* In a buffer that is not empty circ_head_bytes() is at least the bytes up
\* to the tail or to the end of the array, and exactly the latter when the
\* contents go round the end.
LEMMA HeadBytes ==
  ASSUME NEW b \in Buffers, b.circ_head # EmptyMark
  PROVE  /\ b.circ_head \in Index /\ b.circ_tail \in Index
         /\ circ_head_bytes(b) \in Nat
         /\ b.circ_tail > b.circ_head =>
              /\ circ_length(b) = b.circ_tail - b.circ_head
              /\ circ_head_bytes(b) >= circ_length(b)
         /\ ~(b.circ_tail > b.circ_head) =>
              /\ circ_length(b) = CircSize - b.circ_head + b.circ_tail
              /\ circ_head_bytes(b) = CircSize - b.circ_head
<1>1. b.circ_head \in Index /\ b.circ_tail \in Index
  BY DEF Buffers
<1>2. ~(b.circ_head > CircSize)
  BY <1>1, CircAssumption, SMTT(30) DEF Index
<1>3. CASE b.circ_tail > b.circ_head
  <2>1. circ_length(b) = b.circ_tail - b.circ_head
    BY <1>2, <1>3 DEF circ_length
  <2>2. circ_head_bytes(b) = Word - (b.circ_tail - b.circ_head)
    BY <1>1, <1>2, <1>3, UnsignedSub DEF circ_head_bytes
  <2>. QED BY <1>1, <1>3, <2>1, <2>2, CircAssumption, SMTT(30) DEF Index
<1>4. CASE ~(b.circ_tail > b.circ_head)
  <2>1. circ_length(b) = CircSize - b.circ_head + b.circ_tail
    BY <1>2, <1>4 DEF circ_length
  <2>2. circ_head_bytes(b) = CircSize - b.circ_head
    BY <1>2, <1>4 DEF circ_head_bytes
  <2>. QED BY <1>1, <1>4, <2>1, <2>2, CircAssumption, SMTT(30) DEF Index
<1>. QED BY <1>3, <1>4

\* circ_consume() of a span that ends at or before the tail, or at or before
\* the end of the array if the contents go round it: the length shrinks by
\* exactly what was consumed.
LEMMA ConsumeBuffer ==
  ASSUME NEW b \in Buffers, b.circ_head # EmptyMark,
         NEW n \in 1 .. circ_length(b), b.circ_head + n <= CircSize
  PROVE  LET a == circ_consume(b, n)
         IN /\ a \in Buffers /\ a.circ = b.circ /\ a.circ_tail = b.circ_tail
            /\ circ_length(a) = circ_length(b) - n
            /\ a.circ_head = IF n = circ_length(b) THEN EmptyMark
                             ELSE IF b.circ_head + n = CircSize THEN 0
                             ELSE b.circ_head + n
<1> DEFINE a == circ_consume(b, n)
           head == IF b.circ_head + n = CircSize THEN 0 ELSE b.circ_head + n
<1>1. /\ b = [circ |-> b.circ, circ_head |-> b.circ_head,
              circ_tail |-> b.circ_tail]
      /\ b.circ \in [Index -> Nat]
  BY DEF Buffers
<1>2. a = [circ |-> b.circ,
           circ_head |-> IF head = b.circ_tail THEN EmptyMark ELSE head,
           circ_tail |-> b.circ_tail]
  BY <1>1 DEF circ_consume
<1>3. /\ b.circ_head \in Index /\ b.circ_tail \in Index
      /\ circ_length(b) = IF b.circ_tail > b.circ_head
                          THEN b.circ_tail - b.circ_head
                          ELSE CircSize - b.circ_head + b.circ_tail
  BY HeadBytes
<1>4. n \in Nat /\ n >= 1 /\ n <= circ_length(b)
  BY LengthInRange, SMTT(30)
<1>5. head \in Index /\ (head = b.circ_tail <=> n = circ_length(b))
  BY <1>3, <1>4, CircAssumption, SMTT(30) DEF Index
<1>6. a \in Buffers
  <2> HIDE DEF head
  <2>. QED BY <1>1, <1>2, <1>3, <1>5 DEF Buffers
<1>7. circ_length(a) = circ_length(b) - n
  <2>1. a.circ_tail = b.circ_tail
        /\ a.circ_head = IF head = b.circ_tail THEN EmptyMark ELSE head
    BY <1>2
  <2>2. CASE head = b.circ_tail
    <3>1. circ_length(a) = 0
      BY <2>1, <2>2, CircAssumption, SMTT(30) DEF circ_length, EmptyMark
    <3>. QED BY <1>4, <1>5, <2>2, <3>1, LengthInRange, SMTT(30)
  <2>3. CASE head # b.circ_tail
    <3>1. circ_length(a) = IF b.circ_tail > head THEN b.circ_tail - head
                           ELSE CircSize - head + b.circ_tail
      <4>1. a.circ_head = head /\ ~(head > CircSize)
        BY <1>5, <2>1, <2>3, CircAssumption, SMTT(30) DEF Index
      <4> HIDE DEF head, a
      <4>. QED BY <2>1, <4>1 DEF circ_length
    <3>. QED
      BY <1>3, <1>4, <1>5, <2>3, <3>1, CircAssumption, SMTT(30) DEF Index
  <2>. QED BY <2>2, <2>3
<1>. QED BY <1>2, <1>5, <1>6, <1>7

\* The index of the i-th byte queued.
At(b, i) == IF b.circ_head + i < CircSize THEN b.circ_head + i
            ELSE b.circ_head + i - CircSize

\* Consuming n bytes makes the (n+i)-th byte the i-th.
LEMMA ConsumeShifts ==
  ASSUME NEW b \in Buffers, b.circ_head # EmptyMark,
         NEW n \in 1 .. circ_length(b), b.circ_head + n <= CircSize,
         NEW i \in 0 .. circ_length(b) - n - 1
  PROVE  At(circ_consume(b, n), i) = At(b, n + i)
<1> DEFINE a == circ_consume(b, n)
<1>1. /\ circ_length(b) \in Nat /\ n \in Nat /\ i \in Nat /\ n < circ_length(b)
      /\ i < circ_length(b) - n
  BY LengthInRange, SMTT(30)
<1>2. a.circ_head = IF b.circ_head + n = CircSize THEN 0 ELSE b.circ_head + n
  <2>1. n # circ_length(b)
    BY <1>1
  <2>. QED BY <2>1, ConsumeBuffer
<1>3. /\ b.circ_head \in Index /\ b.circ_tail \in Index
      /\ circ_length(b) <= CircSize
  BY HeadBytes, LengthInRange
<1> HIDE DEF a
<1>4. At(a, i) = At(b, n + i)
  BY <1>1, <1>2, <1>3, CircAssumption, SMTT(30) DEF At, Index
<1>. QED BY <1>4 DEF a

\* circ_transmit() of no more than is queued: its assertions hold, what it
\* hands to iwrite() is in the array, two rounds of its loop are enough, the
\* length shrinks by exactly n, and byte n+i becomes byte i.
LEMMA TransmitBuffer ==
  ASSUME NEW b \in Buffers, NEW n \in 1 .. circ_length(b)
  PROVE  LET a == circ_transmit(b, n)
         IN /\ TransmitAsserts(b, n) /\ TransmitInBounds(b, n)
            /\ Span1(b, n) < n => Span2(b, n) = n - Span1(b, n)
            /\ a \in Buffers /\ a.circ = b.circ
            /\ circ_length(a) = circ_length(b) - n
            /\ \A i \in 0 .. circ_length(b) - n - 1 : At(a, i) = At(b, n + i)
<1> DEFINE a == circ_transmit(b, n)
           s1 == Span1(b, n)
           a1 == AfterSpan1(b, n)
           s2 == Span2(b, n)
<1>1. /\ n \in Nat /\ n >= 1 /\ n <= circ_length(b)
      /\ circ_length(b) \in Nat /\ circ_length(b) <= CircSize
  BY LengthInRange, CircAssumption, SMTT(30)
<1>2. b.circ_head # EmptyMark
  BY <1>1, CircAssumption, SMTT(30) DEF circ_length, EmptyMark
<1>3. /\ b.circ_head \in Index /\ b.circ_tail \in Index
      /\ circ_head_bytes(b) \in Nat
      /\ b.circ_tail > b.circ_head =>
           /\ circ_length(b) = b.circ_tail - b.circ_head
           /\ circ_head_bytes(b) >= circ_length(b)
      /\ ~(b.circ_tail > b.circ_head) =>
           /\ circ_length(b) = CircSize - b.circ_head + b.circ_tail
           /\ circ_head_bytes(b) = CircSize - b.circ_head
  BY <1>2, HeadBytes
<1>4. /\ s1 \in 1 .. n /\ b.circ_head + s1 <= CircSize
      /\ s1 < n => b.circ_head + s1 = CircSize
  BY <1>1, <1>3, CircAssumption, SMTT(30) DEF Span1, Smaller, Index
<1>5. s1 \in 1 .. circ_length(b)
  BY <1>1, <1>4, SMTT(30)
<1>6. /\ a1 \in Buffers /\ a1.circ = b.circ /\ a1.circ_tail = b.circ_tail
      /\ circ_length(a1) = circ_length(b) - s1
      /\ a1.circ_head = IF s1 = circ_length(b) THEN EmptyMark
                        ELSE IF b.circ_head + s1 = CircSize THEN 0
                        ELSE b.circ_head + s1
  <2> HIDE DEF s1
  <2>. QED BY <1>2, <1>4, <1>5, ConsumeBuffer DEF AfterSpan1, s1
<1>7. \A i \in 0 .. circ_length(b) - s1 - 1 : At(a1, i) = At(b, s1 + i)
  <2> HIDE DEF s1
  <2>. QED BY <1>2, <1>4, <1>5, ConsumeShifts DEF AfterSpan1, s1
<1>8. CASE s1 = n
  <2>1. a = a1
    BY <1>8 DEF circ_transmit
  <2>2. TransmitAsserts(b, n) /\ TransmitInBounds(b, n)
    BY <1>1, <1>4, <1>8, SMTT(30) DEF TransmitAsserts, TransmitInBounds
  <2>3. ~(s1 < n)
    BY <1>1, <1>8
  <2>. QED BY <1>6, <1>7, <1>8, <2>1, <2>2, <2>3
<1>9. CASE s1 # n
  <2>1. s1 < n /\ s1 \in Nat /\ b.circ_head + s1 = CircSize
    BY <1>1, <1>4, <1>9, SMTT(30)
  <2>2. a1.circ_head = 0 /\ a1.circ_head # EmptyMark
    BY <1>1, <1>6, <2>1, CircAssumption, SMTT(30) DEF EmptyMark
  <2>3. /\ a1.circ_tail \in Index /\ circ_head_bytes(a1) \in Nat
        /\ a1.circ_tail > a1.circ_head =>
             /\ circ_length(a1) = a1.circ_tail - a1.circ_head
             /\ circ_head_bytes(a1) >= circ_length(a1)
        /\ ~(a1.circ_tail > a1.circ_head) =>
             /\ circ_length(a1) = CircSize - a1.circ_head + a1.circ_tail
             /\ circ_head_bytes(a1) = CircSize - a1.circ_head
    BY <1>6, <2>2, HeadBytes
  <2>4. circ_head_bytes(a1) >= n - s1
    BY <1>1, <1>6, <2>1, <2>2, <2>3, CircAssumption, SMTT(30) DEF Index
  <2>5. s2 = n - s1 /\ s2 \in Nat /\ s2 > 0
    <3>1. s2 = Smaller(n - s1, circ_head_bytes(a1))
      BY DEF Span2
    <3>. QED BY <1>1, <2>1, <2>3, <2>4, <3>1, SMTT(30) DEF Smaller
  <2>6. s2 \in 1 .. circ_length(a1) /\ a1.circ_head + s2 <= CircSize
    BY <1>1, <1>6, <2>1, <2>2, <2>5, CircAssumption, SMTT(30)
  <2>7. TransmitAsserts(b, n) /\ TransmitInBounds(b, n)
    BY <1>1, <1>4, <2>1, <2>5, <2>6, SMTT(30)
       DEF TransmitAsserts, TransmitInBounds
  <2>8. a = circ_consume(a1, s2)
    BY <1>9 DEF circ_transmit
  <2> HIDE DEF a1, s1, s2
  <2>9. /\ a \in Buffers /\ a.circ = a1.circ
        /\ circ_length(a) = circ_length(a1) - s2
    BY <1>6, <2>2, <2>6, <2>8, ConsumeBuffer
  <2>10. \A i \in 0 .. circ_length(a1) - s2 - 1 : At(a, i) = At(a1, s2 + i)
    BY <1>6, <2>2, <2>6, <2>8, ConsumeShifts
  <2>11. circ_length(a) = circ_length(b) - n
    BY <1>1, <1>6, <2>1, <2>5, <2>9, SMTT(30)
  <2>12. ASSUME NEW i \in 0 .. circ_length(b) - n - 1
         PROVE  At(a, i) = At(b, n + i)
    <3>1. /\ i \in 0 .. circ_length(a1) - s2 - 1
          /\ s2 + i \in 0 .. circ_length(b) - s1 - 1
          /\ s1 + (s2 + i) = n + i
      BY <1>1, <1>6, <2>1, <2>5, SMTT(30)
    <3>2. At(a, i) = At(a1, s2 + i) /\ At(a1, s2 + i) = At(b, s1 + (s2 + i))
      BY <1>7, <2>10, <3>1
    <3>. QED BY <3>1, <3>2
  <2>. QED BY <1>6, <2>5, <2>7, <2>9, <2>11, <2>12 DEF s1, s2
<1>. QED BY <1>8, <1>9

-----------------------------------------------------------------------------
(* The exporter: type correctness.                                         *)

\* One round transmits between one byte and one full serio packet.
LEMMA ChunkRange ==
  ASSUME q \in Buffers, circ_length(q) > 0
  PROVE  ChunkSize \in 1 .. circ_length(q) /\ ChunkSize <= MaxChunk
<1>1. circ_length(q) \in Nat /\ MaxChunk \in Nat /\ MaxChunk > 0
  BY LengthInRange, CircAssumption, ExportAssumption, SMTT(30) DEF MaxChunk
<1>. QED BY <1>1, SMTT(30) DEF ChunkSize, Smaller

\* The two commits of a packet: a buffer again, and no more than
\* HdrSize + n bytes taken.
LEMMA PacketCommit ==
  ASSUME TypeOK, NEW n \in 1 .. MaxData
  PROVE  /\ HeaderTaken \in 0 .. HdrSize
         /\ WithHeader \in Buffers
         /\ Accepted(WithHeader, n) \in 0 .. n
         /\ circ_commit(WithHeader, written + HeaderTaken + 1, n) \in Buffers
<1>1. /\ q \in Buffers /\ written \in Nat /\ HdrSize \in Nat /\ n \in Nat
      /\ written + 1 \in Nat
  BY ExportAssumption DEF TypeOK
<1>2. HeaderTaken \in 0 .. HdrSize
  BY <1>1, AcceptedInRange DEF HeaderTaken
<1>3. WithHeader \in Buffers
  BY <1>1, CommitBuffer DEF WithHeader
<1>4. written + HeaderTaken + 1 \in Nat
  BY <1>1, <1>2, SMTT(30)
<1>. QED BY <1>1, <1>2, <1>3, <1>4, AcceptedInRange, CommitBuffer

\* The exporter starts with the types.
LEMMA InitType == Init => TypeOK
<1> SUFFICES ASSUME Init PROVE TypeOK
  OBVIOUS
<1>1. q \in Buffers
  BY CircAssumption, SMTT(30) DEF Init, NewBuffer, Buffers, Index, EmptyMark
<1>2. 0 \in 0 .. MaxChunk /\ 0 \in 0 .. MaxDrops /\ 0 \in 0 .. MaxBytes
  BY ExportAssumption, SMTT(30) DEF MaxChunk
<1>. QED
  BY <1>1, <1>2 DEF Init, TypeOK, Callers

\* No step of the exporter leaves the types.
LEMMA StepType == TypeOK /\ [Next]_vars => TypeOK'
<1> SUFFICES ASSUME TypeOK, [Next]_vars PROVE TypeOK'
  OBVIOUS
<1> USE DEF TypeOK
<1>1. ASSUME NEW n \in 1 .. MaxData, NEW c \in Callers, ForwardPacket(n, c)
      PROVE  TypeOK'
  <2>1. q' \in Buffers
    BY <1>1, PacketCommit DEF ForwardPacket
  <2>2. written' \in 0 .. MaxBytes
    <3>1. HeaderTaken \in 0 .. HdrSize /\ Accepted(WithHeader, n) \in 0 .. n
      BY PacketCommit
    <3>. QED
      BY <1>1, <3>1, ExportAssumption, SMTT(30) DEF ForwardPacket
  <2>3. wrapped' \in BOOLEAN
    BY <1>1, Zenon DEF ForwardPacket
  <2>. QED BY <1>1, <2>1, <2>2, <2>3 DEF ForwardPacket, netVars
<1>2. ASSUME NEW c \in Clients, RequestAck(c) PROVE TypeOK'
  BY <1>2 DEF RequestAck, queueVars, netVars, Callers
<1>3. CASE PqTransmit
  <2>1. /\ ChunkSize \in 1 .. circ_length(q) /\ ChunkSize <= MaxChunk
        /\ ChunkSize \in Nat
    <3>1. circ_length(q) \in Nat /\ circ_length(q) > 0
      BY <1>3, LengthInRange, CircAssumption, SMTT(30) DEF PqTransmit
    <3>. QED BY <3>1, ChunkRange, SMTT(30)
  <2>2. q' \in Buffers
    BY <1>3, <2>1, TransmitBuffer DEF PqTransmit
  <2>3. outstanding' \in Nat /\ sent' \in Nat
    BY <1>3, <2>1, SMTT(30) DEF PqTransmit
  <2>4. obuf' \in 0 .. MaxChunk /\ inflight' \in Nat /\ lost' \in Nat
    BY <1>3, <2>1, ExportAssumption, SMTT(30) DEF PqTransmit, MaxChunk
  <2>5. inOrder' \in BOOLEAN
    BY <1>3, Zenon DEF PqTransmit
  <2>. QED BY <1>3, <2>2, <2>3, <2>4, <2>5 DEF PqTransmit
<1>4. CASE PqReturn
  BY <1>4 DEF PqReturn, Waiting, queueVars, netVars, Callers
<1>5. ASSUME NEW n \in 1 .. inflight + AckExcess, AppInputAck(n)
      PROVE  TypeOK'
  <2>1. outstanding' \in Nat /\ inflight' \in Nat
    BY <1>5, ExportAssumption, SMTT(30)
       DEF AppInputAck, Acknowledge, Smaller
  <2>2. trusted' \in BOOLEAN
    BY <1>5, Zenon DEF AppInputAck
  <2>. QED BY <1>5, <2>1, <2>2 DEF AppInputAck, queueVars
<1>6. CASE Drain
  <2>1. obuf' \in 0 .. MaxChunk /\ inflight' \in Nat
    BY <1>6, ExportAssumption, SMTT(30) DEF Drain, MaxChunk
  <2>. QED BY <1>6, <2>1 DEF Drain, queueVars
<1>7. CASE Drop
  <2>1. /\ obuf' \in 0 .. MaxChunk /\ inflight' \in Nat /\ lost' \in Nat
        /\ drops' \in 0 .. MaxDrops
    BY <1>7, ExportAssumption, SMTT(30) DEF Drop, MaxChunk
  <2>. QED BY <1>7, <2>1 DEF Drop, queueVars
<1>8. CASE Connect
  BY <1>8 DEF Connect, queueVars
<1>9. CASE UNCHANGED vars
  BY <1>9 DEF vars, netVars
<1> QED
  BY <1>1, <1>2, <1>3, <1>4, <1>5, <1>6, <1>7, <1>8, <1>9
     DEF Next, ProcessQueue, Ack, Environment

\* Type correctness of the exporter.
THEOREM TypeCorrect == Spec => []TypeOK
<1>. QED BY InitType, StepType, PTL DEF Spec

\* No nl_assert of the buffer fires and no copy leaves the array, whatever the
\* sizes: this needs nothing of the queue's contents, so that it survives the
\* tail that a wrapped commit leaves behind.
THEOREM BufferAlwaysSafe == Spec => []BufferSafe
<1>1. TypeOK => BufferSafe
  <2> SUFFICES ASSUME TypeOK PROVE BufferSafe
    OBVIOUS
  <2>1. q \in Buffers
    BY DEF TypeOK
  <2>2. CommitAsserts(q, HdrSize) /\ CommitInBounds(q, HdrSize)
    BY <2>1, CommitSafe, ExportAssumption
  <2>3. ASSUME NEW n \in 1 .. MaxData
        PROVE  CommitAsserts(WithHeader, n) /\ CommitInBounds(WithHeader, n)
    <3>1. n \in Nat
      BY ExportAssumption, SMT
    <3>. QED BY <3>1, PacketCommit, CommitSafe
  <2>4. ASSUME circ_length(q) > 0
        PROVE  TransmitAsserts(q, ChunkSize) /\ TransmitInBounds(q, ChunkSize)
    BY <2>1, <2>4, ChunkRange, TransmitBuffer
  <2>. QED BY <2>2, <2>3, <2>4 DEF BufferSafe
<1>. QED BY <1>1, TypeCorrect, PTL

\* At most the window less one, and one full serio packet, is unacknowledged.
THEOREM WindowRespected == Spec => []OutstandingBounded
<1>1. Init => OutstandingBounded
  BY ExportAssumption, SMTT(30) DEF Init, OutstandingBounded, MaxChunk
<1>2. TypeOK /\ OutstandingBounded /\ [Next]_vars => OutstandingBounded'
  <2> SUFFICES ASSUME TypeOK, OutstandingBounded, [Next]_vars
               PROVE  OutstandingBounded'
    OBVIOUS
  <2>1. CASE PqTransmit
    <3>1. circ_length(q) > 0 /\ outstanding < Window
      BY <2>1 DEF PqTransmit, CTS
    <3>2. ChunkSize \in Nat /\ ChunkSize <= MaxChunk
      BY <3>1, ChunkRange, LengthInRange, CircAssumption, SMTT(30) DEF TypeOK
    <3>. QED
      BY <2>1, <3>1, <3>2, ExportAssumption, SMTT(30)
         DEF PqTransmit, OutstandingBounded, TypeOK, MaxChunk
  <2>2. ASSUME NEW n \in 1 .. inflight + AckExcess, AppInputAck(n)
        PROVE  OutstandingBounded'
    <3>1. outstanding' \in 0 .. outstanding
      BY <2>2, ExportAssumption, SMTT(30) DEF AppInputAck, Acknowledge, TypeOK
    <3>. QED
      BY <3>1, ExportAssumption, SMTT(30) DEF OutstandingBounded, MaxChunk
  <2>3. CASE UNCHANGED outstanding
    BY <2>3 DEF OutstandingBounded
  <2>. QED
    BY <2>1, <2>2, <2>3
       DEF Next, vars, ProcessQueue, Ack, Environment, ForwardPacket,
           RequestAck, PqReturn, Drain, Drop, Connect
<1>. QED BY <1>1, <1>2, TypeCorrect, PTL DEF Spec

-----------------------------------------------------------------------------
(* The acknowledgements, while none is for more than was in flight.        *)

\* outstanding_bytes is what is on its way or lost with a connection.
THEOREM Accounts == Spec => []OutstandingAccounts
<1>1. Init => OutstandingAccounts
  BY DEF Init, OutstandingAccounts
<1>2. TypeOK /\ OutstandingAccounts /\ [Next]_vars => OutstandingAccounts'
  <2> SUFFICES ASSUME TypeOK, OutstandingAccounts, [Next]_vars, trusted'
               PROVE  outstanding' = obuf' + inflight' + lost'
    BY DEF OutstandingAccounts
  <2>0. /\ outstanding \in Nat /\ obuf \in Nat /\ inflight \in Nat /\ lost \in Nat
    BY ExportAssumption, SMTT(30) DEF TypeOK, MaxChunk
  <2>1. CASE PqTransmit
    <3>1. ChunkSize \in Nat
      BY <2>1, ChunkRange, LengthInRange, CircAssumption, SMTT(30)
         DEF TypeOK, PqTransmit
    <3>2. outstanding = obuf + inflight + lost
      BY <2>1 DEF PqTransmit, OutstandingAccounts
    <3>. QED BY <2>0, <2>1, <3>1, <3>2, SMTT(30) DEF PqTransmit, CTS
  <2>2. ASSUME NEW n \in 1 .. inflight + AckExcess, AppInputAck(n)
        PROVE  outstanding' = obuf' + inflight' + lost'
    <3>1. n <= inflight /\ outstanding = obuf + inflight + lost
      BY <2>2 DEF AppInputAck, OutstandingAccounts
    <3>. QED
      BY <2>0, <2>2, <3>1, ExportAssumption, SMTT(30)
         DEF AppInputAck, Acknowledge, Smaller
  <2>3. CASE Drain
    <3>1. outstanding = obuf + inflight + lost
      BY <2>3 DEF Drain, OutstandingAccounts
    <3>. QED BY <2>0, <2>3, <3>1, SMTT(30) DEF Drain
  <2>4. CASE Drop
    <3>1. outstanding = obuf + inflight + lost
      BY <2>4 DEF Drop, OutstandingAccounts
    <3>. QED BY <2>0, <2>4, <3>1, SMTT(30) DEF Drop
  <2>5. CASE UNCHANGED <<outstanding, obuf, inflight, lost, trusted>>
    BY <2>5 DEF OutstandingAccounts
  <2>. QED
    BY <2>1, <2>2, <2>3, <2>4, <2>5
       DEF Next, vars, netVars, ProcessQueue, Ack, Environment, ForwardPacket,
           RequestAck, PqReturn, Connect
<1>. QED BY <1>1, <1>2, TypeCorrect, PTL DEF Spec

\* Nothing is on its way without a connection.
OnTheWay == conn = "down" => obuf = 0 /\ inflight = 0

\* It is so at first, and a broken connection takes everything with it.
LEMMA OnTheWayStep ==
  ASSUME TypeOK, OnTheWay, [Next]_vars
  PROVE  OnTheWay'
<1>1. CASE PqTransmit
  BY <1>1 DEF OnTheWay, PqTransmit
<1>2. ASSUME NEW n \in 1 .. inflight + AckExcess, AppInputAck(n)
      PROVE  OnTheWay'
  BY <1>2 DEF OnTheWay, AppInputAck
<1>3. CASE Drain \/ Drop \/ Connect
  BY <1>3 DEF OnTheWay, Drain, Drop, Connect
<1>4. CASE UNCHANGED <<conn, obuf, inflight>>
  BY <1>4 DEF OnTheWay
<1> QED
  BY <1>1, <1>2, <1>3, <1>4
     DEF Next, vars, netVars, ProcessQueue, Ack, Environment, ForwardPacket,
         RequestAck, PqReturn

\* Bytes are on their way only over a connection that is up.
THEOREM OnTheWayHolds == Spec => []OnTheWay
<1>1. Init => OnTheWay
  BY DEF Init, OnTheWay
<1>2. TypeOK /\ OnTheWay /\ [Next]_vars => OnTheWay'
  BY OnTheWayStep
<1> QED
  BY <1>1, <1>2, TypeCorrect, PTL DEF Spec

\* A queue left with bytes in it closed the window or left bytes retained: the
\* inductive half of AckIsOwed, which does not tell bytes on their way from
\* lost ones.
WindowShut ==
  trusted /\ pc = "loop" /\ circ_length(q) > 0 => outstanding > 0

\* A queue left with bytes in it is owed an ACK for bytes on their way over a
\* connection that is up, until one loses bytes.
THEOREM QueueIsOwedAck == Spec => []AckIsOwed
<1>1. Init => WindowShut
  <2> SUFFICES ASSUME Init PROVE circ_length(q) = 0
    BY SMT DEF WindowShut
  <2>. QED
    BY CircAssumption, SMTT(30) DEF Init, NewBuffer, circ_length, EmptyMark
<1>2. TypeOK /\ OutstandingAccounts /\ WindowShut /\ [Next]_vars => WindowShut'
  <2> SUFFICES ASSUME TypeOK, OutstandingAccounts, WindowShut, [Next]_vars,
                      trusted', pc' = "loop", circ_length(q)' > 0
               PROVE  outstanding' > 0
    BY DEF WindowShut
  <2>1. CASE PqReturn
    <3>1. circ_length(q) > 0 /\ outstanding' = outstanding /\ trusted
      BY <2>1 DEF PqReturn, queueVars
    <3>2. ~CTS
      BY <2>1, <3>1 DEF PqReturn
    <3>. QED
      BY <3>1, <3>2, ExportAssumption, SMTT(30)
         DEF CTS, TypeOK, OutstandingAccounts, MaxChunk
  <2>2. CASE UNCHANGED <<q, pc, outstanding, trusted>>
    BY <2>2 DEF WindowShut
  <2>3. ASSUME NEW n \in 1 .. MaxData, NEW c \in Callers, ForwardPacket(n, c)
        PROVE  FALSE
    BY <2>3 DEF ForwardPacket
  <2>4. ASSUME NEW n \in 1 .. inflight + AckExcess, AppInputAck(n)
        PROVE  FALSE
    BY <2>4 DEF AppInputAck
  <2>5. CASE PqTransmit
    BY <2>5 DEF PqTransmit
  <2>6. ASSUME NEW c \in Clients, RequestAck(c)
        PROVE  UNCHANGED <<q, outstanding, trusted>> /\ pc = "loop"
    BY <2>6 DEF RequestAck, queueVars
  <2>. QED
    BY <2>1, <2>2, <2>3, <2>4, <2>5, <2>6
       DEF Next, vars, ProcessQueue, Ack, Environment, Drain, Drop, Connect,
           queueVars, WindowShut
<1>3. TypeOK /\ OutstandingAccounts /\ OnTheWay /\ WindowShut => AckIsOwed
  <2> SUFFICES ASSUME TypeOK, OutstandingAccounts, OnTheWay, WindowShut, trusted,
                      lost = 0, pc = "loop", circ_length(q) > 0
               PROVE  conn = "up" /\ obuf + inflight > 0
    BY DEF AckIsOwed
  <2>1. obuf \in Nat /\ inflight \in Nat /\ conn \in {"up", "down"}
    BY ExportAssumption, SMTT(30) DEF TypeOK, MaxChunk
  <2>2. outstanding > 0 /\ outstanding = obuf + inflight + lost
    BY DEF WindowShut, OutstandingAccounts
  <2> QED
    BY <2>1, <2>2 DEF OnTheWay
<1>. QED
  BY <1>1, <1>2, <1>3, TypeCorrect, Accounts, OnTheWayHolds, PTL DEF Spec

-----------------------------------------------------------------------------
(* First in, first out, until a commit wraps.  The invariant FifoUntilWrap *)
(* is not inductive: that the next byte to leave is the right one follows  *)
(* from what every byte of the queue is.                                   *)

\* The bytes queued are k, k+1, ... in the order in which they will leave.
Holds(b, k) == \A i \in 0 .. circ_length(b) - 1 : b.circ[At(b, i)] = k + i

Contents == ~wrapped => /\ inOrder
                        /\ circ_length(q) = written - sent
                        /\ Holds(q, sent + 1)

\* A commit that does not need the second span appends exactly the bytes it
\* takes.
LEMMA CommitAppends ==
  ASSUME NEW b \in Buffers, NEW k \in Nat, NEW n \in Nat, ~Wraps(b, n)
  PROVE  LET a == circ_commit(b, k + circ_length(b), n)
         IN /\ circ_length(a) = circ_length(b) + Accepted(b, n)
            /\ Holds(b, k) => Holds(a, k)
<1> DEFINE p == CommitPlan(b, n)
           len == circ_length(b)
           acc == Accepted(b, n)
           a == circ_commit(b, k + len, n)
<1>1. len \in 0 .. CircSize /\ acc \in Nat /\ acc <= CircSize - len
  BY LengthInRange, AcceptedInRange
<1>2. CASE acc = 0
  <2>1. a = b
    BY <1>2 DEF circ_commit
  <2>. QED BY <1>1, <1>2, <2>1, SMT
<1>3. CASE acc # 0
  <2>1. acc > 0
    BY <1>1, <1>3
  <2>2. /\ p.head \in Index /\ p.tail \in Index /\ p.span \in 1 .. acc
        /\ p.tail + p.span <= CircSize /\ p.next \in Index
        /\ p.rest = acc - p.span
    BY <2>1, CommitPlanRange
  <2>3. p.rest = 0 /\ p.span = acc
    <3>1. ~(p.rest > 0)
      BY <2>1 DEF Wraps
    <3>. QED BY <1>1, <2>2, <3>1, SMTT(30)
  <2>4. p.next = IF p.tail + p.span = CircSize THEN 0 ELSE p.tail + p.span
    BY DEF CommitPlan
  <2>5. /\ p.head = IF b.circ_head > CircSize THEN 0 ELSE b.circ_head
        /\ p.tail = IF b.circ_head > CircSize THEN 0 ELSE b.circ_tail
    BY DEF CommitPlan
  \* where the tail stands: len bytes after the head, round the end
  <2>6. p.tail = IF p.head + len < CircSize THEN p.head + len
                 ELSE p.head + len - CircSize
    <3>1. CASE b.circ_head > CircSize
      <4>1. len = 0
        BY <3>1 DEF circ_length
      <4>. QED BY <2>5, <3>1, <4>1, CircAssumption, SMTT(30)
    <3>2. CASE ~(b.circ_head > CircSize)
      <4>1. len = IF b.circ_tail > b.circ_head THEN b.circ_tail - b.circ_head
                  ELSE CircSize - b.circ_head + b.circ_tail
        BY <3>2 DEF circ_length
      <4>. QED
        BY <1>1, <2>2, <2>5, <3>2, <4>1, CircAssumption, SMTT(30) DEF Index
    <3>. QED BY <3>1, <3>2
  <2>7. a = [circ |-> [i \in Index |->
                        IF i >= p.tail /\ i < p.tail + p.span
                        THEN k + len + (i - p.tail) ELSE b.circ[i]],
             circ_head |-> p.head, circ_tail |-> p.next]
    <3>1. ~(p.rest > 0) /\ acc # 0
      BY <1>3, <2>3
    <3>. QED BY <3>1 DEF circ_commit, TailAfter
  <2> HIDE DEF p
  <2>8. a.circ_head = p.head /\ a.circ_tail = p.next
    BY <2>7
  <2>9. circ_length(a) = IF p.next > p.head THEN p.next - p.head
                         ELSE CircSize - p.head + p.next
    <3>1. ~(p.head > CircSize)
      BY <2>2, CircAssumption, SMTT(30) DEF Index
    <3> HIDE DEF a
    <3>. QED BY <2>8, <3>1 DEF circ_length
  <2>10. circ_length(a) = len + acc
    BY <1>1, <2>1, <2>2, <2>3, <2>4, <2>6, <2>9, CircAssumption, SMTT(30)
       DEF Index
  <2>11. ASSUME Holds(b, k), NEW i \in 0 .. circ_length(a) - 1
         PROVE  a.circ[At(a, i)] = k + i
    <3>1. i \in Nat /\ i < len + acc
      BY <1>1, <2>10, SMTT(30)
    <3> DEFINE j == IF p.head + i < CircSize THEN p.head + i
                    ELSE p.head + i - CircSize
    <3>2. At(a, i) = j
      BY <2>8 DEF At
    <3>3. j \in Index
      BY <1>1, <2>2, <3>1, CircAssumption, SMTT(30) DEF Index
    <3>4. a.circ[j] = IF j >= p.tail /\ j < p.tail + p.span
                      THEN k + len + (j - p.tail) ELSE b.circ[j]
      <4> HIDE DEF j, len, acc
      <4>1. a.circ = [x \in Index |->
                        IF x >= p.tail /\ x < p.tail + p.span
                        THEN k + len + (x - p.tail) ELSE b.circ[x]]
        BY <2>7
      <4>. QED BY <3>3, <4>1
    <3>5. CASE i < len
      <4>1. ~(j >= p.tail /\ j < p.tail + p.span)
        BY <1>1, <2>2, <2>3, <2>6, <3>1, <3>5, CircAssumption, SMTT(30)
           DEF Index
      <4>2. b.circ_head = p.head
        <5>1. len # 0
          BY <3>1, <3>5, SMT
        <5>. QED BY <2>5, <5>1 DEF circ_length
      <4>3. At(b, i) = j
        BY <4>2 DEF At
      <4>4. i \in 0 .. len - 1
        BY <1>1, <3>1, <3>5, SMTT(30)
      <4>. QED BY <2>11, <3>2, <3>4, <4>1, <4>3, <4>4 DEF Holds
    <3>6. CASE ~(i < len)
      <4>1. j >= p.tail /\ j < p.tail + p.span /\ j - p.tail = i - len
        BY <1>1, <2>2, <2>3, <2>6, <3>1, <3>6, CircAssumption, SMTT(30)
           DEF Index
      <4>. QED BY <1>1, <3>1, <3>2, <3>4, <4>1, SMTT(30)
    <3>. QED BY <3>5, <3>6
  <2>. QED BY <2>10, <2>11 DEF Holds
<1>. QED BY <1>2, <1>3

\* What circ_transmit() hands over of a queue of bytes k, k+1, ... is in order.
LEMMA TransmitInOrder ==
  ASSUME NEW b \in Buffers, NEW k \in Nat, NEW n \in 1 .. circ_length(b),
         Holds(b, k)
  PROVE  TransmitsFrom(b, n, k) /\ Holds(circ_transmit(b, n), k + n)
<1>1. /\ n \in Nat /\ n >= 1 /\ n <= circ_length(b)
      /\ circ_length(b) \in 0 .. CircSize
  BY LengthInRange, CircAssumption, SMTT(30)
<1>2. b.circ_head # EmptyMark
  BY <1>1, CircAssumption, SMTT(30) DEF circ_length, EmptyMark
<1>3. TransmitsFrom(b, n, k)
  <2> DEFINE s1 == Span1(b, n)
             a1 == AfterSpan1(b, n)
             s2 == Span2(b, n)
  <2>1. TransmitInBounds(b, n) /\ TransmitAsserts(b, n)
    BY TransmitBuffer
  <2>2. b.circ_head \in Index /\ circ_head_bytes(b) \in Nat
    BY <1>2, HeadBytes
  <2>3. s1 \in 1 .. n /\ b.circ_head + s1 <= CircSize
    BY <1>1, <2>1, <2>2, SMTT(30)
       DEF TransmitInBounds, TransmitAsserts, Span1, Smaller
  <2>4. ASSUME NEW i \in 0 .. s1 - 1
        PROVE  b.circ[b.circ_head + i] = k + i
    <3>1. /\ i \in 0 .. circ_length(b) - 1
          /\ b.circ_head + i < CircSize
      BY <1>1, <2>2, <2>3, CircAssumption, SMTT(30) DEF Index
    <3>2. At(b, i) = b.circ_head + i
      BY <3>1 DEF At
    <3>. QED BY <3>1, <3>2 DEF Holds
  <2>5. ASSUME s1 < n, NEW i \in 0 .. s2 - 1
        PROVE  b.circ[a1.circ_head + i] = k + s1 + i
    <3>1. s2 \in Nat /\ s1 + s2 = n /\ s1 \in Nat
      BY <1>1, <2>3, <2>5, TransmitBuffer, SMTT(30)
    <3>2. b.circ_head + s1 = CircSize
      <4>1. s1 = circ_head_bytes(b) /\ circ_head_bytes(b) < circ_length(b)
        BY <1>1, <2>2, <2>5, SMTT(30) DEF Span1, Smaller
      <4>2. circ_head_bytes(b) = CircSize - b.circ_head
        BY <1>1, <1>2, <2>2, <4>1, HeadBytes, SMTT(30) DEF Index
      <4>. QED BY <2>2, <4>1, <4>2, CircAssumption, SMTT(30) DEF Index
    <3>3. a1.circ_head = 0
      <4>1. s1 \in 1 .. circ_length(b) /\ s1 # circ_length(b)
        BY <1>1, <2>3, <2>5, SMTT(30)
      <4> HIDE DEF s1
      <4>. QED BY <1>2, <2>3, <3>2, <4>1, ConsumeBuffer DEF AfterSpan1, s1
    <3>4. s1 + i \in 0 .. circ_length(b) - 1 /\ i \in Nat
      BY <1>1, <3>1, SMTT(30)
    <3>5. At(b, s1 + i) = i
      BY <2>2, <3>1, <3>2, <3>4, CircAssumption, SMTT(30) DEF At, Index
    <3>6. b.circ[At(b, s1 + i)] = k + (s1 + i)
      BY <3>4 DEF Holds
    <3> HIDE DEF s1, a1, s2
    <3>7. a1.circ_head + i = i /\ k + (s1 + i) = k + s1 + i
      BY <3>1, <3>3, <3>4, SMT
    <3>. QED BY <3>5, <3>6, <3>7
  <2>. QED BY <2>1, <2>4, <2>5 DEF TransmitsFrom
<1>4. Holds(circ_transmit(b, n), k + n)
  <2> DEFINE a == circ_transmit(b, n)
  <2>1. /\ a.circ = b.circ /\ circ_length(a) = circ_length(b) - n
        /\ \A i \in 0 .. circ_length(b) - n - 1 : At(a, i) = At(b, n + i)
    BY TransmitBuffer
  <2> HIDE DEF a
  <2>2. ASSUME NEW i \in 0 .. circ_length(a) - 1
        PROVE  a.circ[At(a, i)] = k + n + i
    <3>1. /\ n + i \in 0 .. circ_length(b) - 1
          /\ i \in 0 .. circ_length(b) - n - 1
          /\ k + (n + i) = k + n + i
      BY <1>1, <2>1, SMTT(30)
    <3>2. At(a, i) = At(b, n + i)
      BY <2>1, <3>1
    <3>3. b.circ[At(b, n + i)] = k + (n + i)
      BY <3>1 DEF Holds
    <3>. QED BY <2>1, <3>1, <3>2, <3>3
  <2>. QED BY <2>2 DEF Holds, a
<1>. QED BY <1>3, <1>4

\* Until the first commit that wraps the exporter is a FIFO queue, and
\* circ_length() counts the bytes in it.
THEOREM Fifo == Spec => []FifoUntilWrap
<1>1. Init => Contents
  <2> SUFFICES ASSUME Init PROVE Contents
    OBVIOUS
  <2>1. circ_length(q) = 0 /\ written = 0 /\ sent = 0
    BY CircAssumption, SMTT(30) DEF Init, NewBuffer, circ_length, EmptyMark
  <2>2. Holds(q, sent + 1)
    BY <2>1, SMT DEF Holds
  <2>. QED BY <2>1, <2>2, SMT DEF Contents, Init
<1>2. TypeOK /\ Contents /\ [Next]_vars => Contents'
  <2> SUFFICES ASSUME TypeOK, Contents, [Next]_vars, ~wrapped'
               PROVE  /\ inOrder'
                      /\ circ_length(q)' = written' - sent'
                      /\ Holds(q, sent + 1)'
    BY DEF Contents
  <2>0. /\ q \in Buffers /\ written \in Nat /\ sent \in Nat
        /\ circ_length(q) \in Nat
    BY LengthInRange, CircAssumption, SMTT(30) DEF TypeOK
  <2>1. ASSUME NEW n \in 1 .. MaxData, NEW c \in Callers, ForwardPacket(n, c)
        PROVE  /\ inOrder'
               /\ circ_length(q)' = written' - sent'
               /\ Holds(q, sent + 1)'
    <3>1. ~wrapped /\ ~Wraps(q, HdrSize) /\ ~Wraps(WithHeader, n)
      BY <2>1 DEF ForwardPacket
    <3>2. /\ inOrder /\ circ_length(q) = written - sent
          /\ Holds(q, sent + 1)
      BY <3>1 DEF Contents
    <3>3. /\ HeaderTaken \in Nat /\ WithHeader \in Buffers
          /\ Accepted(WithHeader, n) \in Nat /\ n \in Nat /\ HdrSize \in Nat
      BY PacketCommit, ExportAssumption, SMTT(30)
    <3>4. written + 1 = (sent + 1) + circ_length(q) /\ sent + 1 \in Nat
      BY <2>0, <3>2, SMTT(30)
    <3>5. /\ circ_length(WithHeader) = circ_length(q) + HeaderTaken
          /\ Holds(WithHeader, sent + 1)
      BY <2>0, <3>1, <3>2, <3>3, <3>4, CommitAppends
         DEF WithHeader, HeaderTaken
    <3>6. written + HeaderTaken + 1 = (sent + 1) + circ_length(WithHeader)
      BY <2>0, <3>2, <3>3, <3>5, SMTT(30)
    <3>7. /\ circ_length(q') = circ_length(WithHeader) + Accepted(WithHeader, n)
          /\ Holds(q', sent + 1)
      <4>1. q' = circ_commit(WithHeader, (sent + 1) + circ_length(WithHeader), n)
        BY <2>1, <3>6 DEF ForwardPacket
      <4>. QED BY <3>1, <3>3, <3>4, <3>5, <4>1, CommitAppends
    <3>8. /\ sent' = sent /\ inOrder' = inOrder
          /\ written' = written + HeaderTaken + Accepted(WithHeader, n)
      BY <2>1 DEF ForwardPacket
    <3>9. circ_length(q') = written' - sent'
      BY <2>0, <3>2, <3>3, <3>5, <3>7, <3>8, SMTT(30)
    <3>. QED BY <3>2, <3>7, <3>8, <3>9 DEF circ_length, Holds, At
  <2>2. CASE PqTransmit
    <3>1. /\ inOrder /\ circ_length(q) = written - sent
          /\ Holds(q, sent + 1) /\ circ_length(q) > 0
      BY <2>2 DEF PqTransmit, Contents
    <3>2. ChunkSize \in 1 .. circ_length(q) /\ ChunkSize \in Nat
      BY <2>0, <3>1, ChunkRange, SMT
    <3>3. /\ TransmitsFrom(q, ChunkSize, sent + 1)
          /\ Holds(circ_transmit(q, ChunkSize), sent + 1 + ChunkSize)
      BY <2>0, <3>1, <3>2, TransmitInOrder, SMT
    <3>4. /\ q' = circ_transmit(q, ChunkSize) /\ written' = written
          /\ sent' = sent + ChunkSize
          /\ inOrder' = (inOrder /\ TransmitsFrom(q, ChunkSize, sent + 1))
      BY <2>2 DEF PqTransmit
    <3>5. circ_length(q') = circ_length(q) - ChunkSize
      BY <2>0, <3>2, <3>4, TransmitBuffer
    <3>6. sent' + 1 = sent + 1 + ChunkSize /\ circ_length(q') = written' - sent'
      BY <2>0, <3>1, <3>2, <3>4, <3>5, SMTT(30)
    <3>7. inOrder' /\ Holds(q', sent' + 1)
      BY <3>1, <3>3, <3>4, <3>6
    <3>. QED BY <3>6, <3>7 DEF circ_length, Holds, At
  <2>3. CASE UNCHANGED <<q, written, sent, inOrder, wrapped>>
    BY <2>3 DEF Contents, circ_length, Holds, At
  <2>. QED
    BY <2>1, <2>2, <2>3
       DEF Next, vars, queueVars, ProcessQueue, Ack, Environment, RequestAck,
           PqReturn, AppInputAck, Drain, Drop, Connect
<1>3. Contents => FifoUntilWrap
  BY DEF Contents, FifoUntilWrap
<1>. QED BY <1>1, <1>2, <1>3, TypeCorrect, PTL DEF Spec

-----------------------------------------------------------------------------
(* The receivers: their types.                                             *)

Receiver ==
  [state : {"closed", "lost", "idle", "mid"}, seen : Seq(Bytes),
   inbuf : Seq(Bytes), stream : Seq(Bytes), left : Nat, transmitting : BOOLEAN,
   timer : BOOLEAN, told : BOOLEAN, mark : Nat]

Sound(r) == (r.state = "mid" => r.left <= MaxPkt) /\ Buffered(r) <= BufSize

Types ==
  /\ TypeOK
  /\ rcvr \in [Clients -> Receiver] /\ active \in Callers
  /\ toSend \in 0 .. MaxPackets
  /\ \A c \in Clients : Sound(rcvr[c]) /\ rcvr[c].mark <= written

\* A receiver that the exporter knows, or whose timer runs, has its whole
\* packet: it keeps the connection until it closes it.
Waits ==
  \A c \in Clients :
    client = c \/ caller = c \/ rcvr[c].timer => ~Open(c) \/ Complete(c)

TcpInv == Types /\ Waits

\* What is left of a sequence when its first n elements are used up.
LEMMA RestType ==
  ASSUME NEW S, NEW s \in Seq(S), NEW n \in 0 .. Len(s)
  PROVE  Rest(s, n) \in Seq(S) /\ Len(Rest(s, n)) = Len(s) - n
<1>1. Len(s) \in Nat /\ \A i \in 1 .. Len(s) : s[i] \in S
  BY ElementOfSeq
<1>2. \A i \in n + 1 .. Len(s) : s[i] \in S
  BY <1>1
<1> QED
  BY <1>1, <1>2, SubSeqProperties DEF Rest

\* Its first n elements.
LEMMA FrontType ==
  ASSUME NEW S, NEW s \in Seq(S), NEW n \in 0 .. Len(s)
  PROVE  SubSeq(s, 1, n) \in Seq(S) /\ Len(SubSeq(s, 1, n)) = n
<1>1. Len(s) \in Nat /\ \A i \in 1 .. n : s[i] \in S
  BY ElementOfSeq
<1> QED
  BY <1>1, SubSeqProperties

\* get_txmit_size() is at most a serio packet, the rest of the packet, and what
\* there is.
LEMMA TxmitRange ==
  ASSUME NEW r \in Receiver, TxmitSize(r) > 0
  PROVE  TxmitSize(r) \in 1 .. MaxData /\ TxmitSize(r) <= r.left
         /\ TxmitSize(r) <= Len(r.inbuf)
         /\ TxmitSize(r) = Smaller(r.left, MaxData)
BY ExportAssumption DEF Receiver, TxmitSize, Smaller

\* A set of numbers has a least one.
LEMMA LeastOf ==
  ASSUME NEW S \in SUBSET Nat, S # {}
  PROVE  \E i \in S : \A j \in S : i <= j
<1>1. IsWellFoundedOn(OpToRel(<, Nat), Nat)
  BY NatLessThanWellFounded
<1>2. PICK i \in S : \A j \in S : ~(<<j, i>> \in OpToRel(<, Nat))
  BY <1>1, WFMin
<1>3. ASSUME NEW j \in S PROVE ~(j < i)
  BY <1>2, <1>3, Zenon DEF OpToRel
<1>4. \A j \in S : i \in Nat /\ j \in Nat /\ ~(j < i)
  BY <1>3
<1>5. \A j \in S : i <= j
  BY <1>4
<1> QED
  BY <1>5

\* A closed receiver is one.
LEMMA ClosedType == Closed \in Receiver /\ Sound(Closed)
<1> DEFINE none == <<>>
<1>1. none \in Seq(Bytes) /\ Len(none) = 0
  OBVIOUS
<1> HIDE DEF none
<1>2. Closed = [state |-> "closed", inbuf |-> none, stream |-> none, left |-> 0,
                seen |-> none, transmitting |-> FALSE, timer |-> FALSE, told |-> TRUE, mark |-> 0]
  BY DEF Closed, none
<1>3. Closed \in Receiver
  BY <1>1, <1>2 DEF Receiver
<1> QED
  BY <1>1, <1>2, <1>3, XioTcpAssumption DEF Sound, Buffered

\* The library holds as much when n bytes went from what is to be searched to
\* what was.
LEMMA BufferedMoved ==
  ASSUME NEW o \in Receiver, NEW r \in Receiver, NEW n \in Int,
         Len(r.seen) = Len(o.seen) + n, Len(r.inbuf) = Len(o.inbuf) - n
  PROVE  Buffered(r) = Buffered(o) /\ Buffered(o) \in Nat
<1> DEFINE a == Len(o.seen)  b == Len(o.inbuf)  d == Len(r.seen)  e == Len(r.inbuf)
<1>1. a \in Nat /\ b \in Nat /\ d = a + n /\ e = b - n
  BY DEF Receiver
<1>2. Buffered(o) = a + b /\ Buffered(r) = d + e
  BY DEF Buffered
<1> HIDE DEF a, b, d, e
<1> QED
  BY <1>1, <1>2

\* It holds no more when what was searched through is used up, and perhaps
\* some of the rest.
LEMMA BufferedLess ==
  ASSUME NEW o \in Receiver, NEW r \in Receiver, Len(r.seen) = 0,
         Len(r.inbuf) <= Len(o.inbuf)
  PROVE  Buffered(r) <= Buffered(o) /\ Buffered(r) \in Nat /\ Buffered(o) \in Nat
<1> DEFINE a == Len(o.seen)  b == Len(o.inbuf)  d == Len(r.seen)  e == Len(r.inbuf)
<1>1. a \in Nat /\ b \in Nat /\ d = 0 /\ e <= b /\ e \in Nat
  BY DEF Receiver
<1>2. Buffered(o) = a + b /\ Buffered(r) = d + e
  BY DEF Buffered
<1> HIDE DEF a, b, d, e
<1> QED
  BY <1>1, <1>2

\* It holds k more when k are read.
LEMMA BufferedMore ==
  ASSUME NEW o \in Receiver, NEW r \in Receiver, NEW k \in Nat,
         r.seen = o.seen, Len(r.inbuf) = Len(o.inbuf) + k
  PROVE  Buffered(r) = Buffered(o) + k
<1> DEFINE a == Len(o.seen)  b == Len(o.inbuf)  d == Len(r.seen)  e == Len(r.inbuf)
<1>1. a \in Nat /\ b \in Nat /\ d = a /\ e = b + k
  BY DEF Receiver
<1>2. Buffered(o) = a + b /\ Buffered(r) = d + e
  BY DEF Buffered
<1> HIDE DEF a, b, d, e
<1> QED
  BY <1>1, <1>2

\* What the instrument sends are bytes.
LEMMA PacketType ==
  ASSUME NEW len \in PktLens, NEW rts \in BOOLEAN
  PROVE  Packet(len, rts) \in Seq(Bytes)
<1>1. len \in Nat \ {0}
  BY XioTcpAssumption
<1>2. Header(len, rts) \in Bytes /\ Byte("other") \in Bytes
  BY <1>1 DEF Header, Byte, Bytes
<1>3. <<Header(len, rts)>> \in Seq(Bytes)
  BY <1>2
<1>4. len - 1 \in Nat
  BY <1>1
<1>5. [i \in 1 .. len - 1 |-> Byte("other")] \in Seq(Bytes)
  <2> DEFINE m == len - 1
             b == Byte("other")
  <2>1. m \in Nat /\ b \in Bytes
    BY <1>2, <1>4
  <2> HIDE DEF m, b
  <2>2. [i \in 1 .. m |-> b] \in Seq(Bytes)
    BY <2>1
  <2> QED
    BY <2>2 DEF m, b
<1> QED
  BY <1>3, <1>5, ConcatProperties DEF Packet

-----------------------------------------------------------------------------
(* The steps.                                                              *)

\* A new connection is within the bound.
MayOpen == Cardinality({d \in Clients : Open(d)}) < MaxConns

\* Receiver r, which was o, is in a packet only where o was.
Stays(r, o) ==
  r.state = "mid" =>
    o.state = "mid" /\ r.left = o.left /\ Len(r.inbuf) >= Len(o.inbuf)

\* A receiver's step that the exporter does not see: nothing is completed, no
\* timer is set, and only an object the exporter does not know is a new one.
Unseen(c) ==
  /\ UNCHANGED vars
  /\ \E r \in Receiver :
       /\ rcvr' = [rcvr EXCEPT ![c] = r]
       /\ Sound(r) /\ r.mark <= written
       /\ r.timer => rcvr[c].timer /\ r.mark = rcvr[c].mark
       /\ r.transmitting => rcvr[c].transmitting
       /\ Complete(c) => r.state = "closed" \/ (r.state = "mid" /\ r.left = 0)
       /\ ~Open(c) => r.state = "closed" \/ (client # c /\ caller # c /\ ~r.timer)
       /\ ~Open(c) => r.state = "closed" \/ MayOpen
       /\ Stays(r, rcvr[c])

\* What receiver o has left to forward fits, or that was decided before.
Fits(o, left) ==
  \/ Packetised(left) <= circ_space(q)
  \/ o.state = "mid" /\ o.transmitting /\ o.left = left

\* Receiver r, which was o, took n bytes: as many as a serio packet holds.
TookPiece(r, o, n) ==
  /\ n = Smaller(r.left + n, MaxData) /\ Len(r.inbuf) = Len(o.inbuf) - n
  /\ Fits(o, r.left + n)

\* A piece of a packet is forwarded or skipped, and the exporter told if it
\* is the last.
Passed(c) ==
  \E r \in Receiver :
    /\ rcvr' = [rcvr EXCEPT ![c] = r]
    /\ pc = "loop" /\ Open(c) /\ ~Complete(c)
    /\ Sound(r) /\ r.mark <= written' /\ r.state = "mid"
    /\ r.timer = rcvr[c].timer
    /\ \/ /\ r.transmitting
          /\ \E n \in 1 .. MaxData :
               /\ ForwardPacket(n, IF r.left = 0 THEN c ELSE NoClient)
               /\ TookPiece(r, rcvr[c], n)
       \/ ~r.transmitting /\ r.left = 0 /\ RequestAck(c)
       \/ ~r.transmitting /\ r.left # 0 /\ UNCHANGED vars

\* An event of the exporter's own.
ExporterAlone ==
  UNCHANGED rcvr /\ (PqTransmit \/ Ack \/ Drain \/ Connect \/ Drop)

\* How a step is shown to be one of these.
LEMMA UnseenIs ==
  ASSUME Types, NEW c \in Clients, NEW r \in Receiver, UNCHANGED vars,
         rcvr' = [rcvr EXCEPT ![c] = r], Sound(r), r.mark <= written,
         r.timer => rcvr[c].timer /\ r.mark = rcvr[c].mark,
         r.transmitting => rcvr[c].transmitting,
         Complete(c) => r.state = "closed" \/ (r.state = "mid" /\ r.left = 0),
         ~Open(c) => r.state = "closed" \/ (client # c /\ caller # c /\ ~r.timer),
         ~Open(c) => r.state = "closed" \/ MayOpen, Stays(r, rcvr[c])
  PROVE  Unseen(c)
BY DEF Unseen

\* The steps of the instrument and its connections.
LEMMA InstrumentStep ==
  ASSUME Types, NEW c \in Clients, Instrument(c) \/ Receive(c) \/ ProtocolTimeout(c)
  PROVE  Unseen(c) /\ active' \in Callers /\ toSend' \in 0 .. MaxPackets
<1>0. /\ rcvr[c] \in Receiver /\ Sound(rcvr[c]) /\ rcvr[c].mark <= written
      /\ active \in Callers /\ toSend \in 0 .. MaxPackets /\ c \in Callers
      /\ written \in Nat /\ rcvr \in [Clients -> Receiver]
  BY DEF Types, Callers, TypeOK
<1>1. CASE NewClient(c)
  <2>1. PICK s \in Prefixes :
          rcvr' = [rcvr EXCEPT ![c] = [Closed EXCEPT !.state = "lost", !.stream = s]]
    BY <1>1 DEF NewClient
  <2> DEFINE r == [Closed EXCEPT !.state = "lost", !.stream = s]
  <2>2. s \in Seq(Bytes)
    BY XioTcpAssumption
  <2>3. r \in Receiver
    BY <2>2, ClosedType DEF Receiver
  <2>4. r.state = "lost" /\ r.inbuf = Closed.inbuf /\ r.seen = Closed.seen /\ ~r.timer /\ ~r.transmitting
        /\ r.mark = 0
    BY DEF Closed
  <2>5. rcvr' = [rcvr EXCEPT ![c] = r]
    BY <2>1
  <2> HIDE DEF r
  <2>6. Sound(r)
    BY <2>4, ClosedType DEF Sound, Buffered
  <2>7. ~Open(c) /\ client # c /\ pc = "loop" /\ UNCHANGED <<vars, active, toSend>>
        /\ MayOpen
    BY <1>1 DEF NewClient, Quiet, MayOpen
  <2>8. caller # c
    BY <2>7, ExportAssumption DEF Types, TypeOK
  <2>9. ~Complete(c)
    BY <2>7 DEF Open, Complete
  <2>10. r.mark <= written
    BY <1>0, <2>4
  <2>11. Unseen(c)
    BY <2>3, <2>4, <2>5, <2>6, <2>7, <2>8, <2>9, <2>10, UnseenIs DEF Stays
  <2> QED
    BY <1>0, <2>7, <2>11
<1>2. CASE SendPacket(c)
  <2>1. PICK len \in PktLens, rts \in BOOLEAN :
          rcvr' = [rcvr EXCEPT ![c].stream = @ \o Packet(len, rts), ![c].told = FALSE]
    BY <1>2 DEF SendPacket
  <2> DEFINE s == rcvr[c].stream \o Packet(len, rts)
             r == [rcvr[c] EXCEPT !.stream = s, !.told = FALSE]
  <2>2. s \in Seq(Bytes)
    BY <1>0, PacketType, ConcatProperties DEF Receiver
  <2>3. rcvr' = [rcvr EXCEPT ![c] = r]
    BY <1>0, <2>1
  <2> HIDE DEF s
  <2>4. r \in Receiver /\ r.state = rcvr[c].state /\ r.inbuf = rcvr[c].inbuf
        /\ r.seen = rcvr[c].seen
        /\ r.timer = rcvr[c].timer /\ r.transmitting = rcvr[c].transmitting
        /\ r.left = rcvr[c].left /\ r.mark = rcvr[c].mark
    BY <1>0, <2>2 DEF Receiver
  <2> HIDE DEF r
  <2>5. Unseen(c)
    <3>1. UNCHANGED vars
      BY <1>2 DEF SendPacket
    <3>2. Sound(r) /\ r.mark <= written
      BY <1>0, <2>4 DEF Sound, Buffered
    <3>3. Open(c)
      BY <1>2 DEF SendPacket
    <3> QED
      <4>1. Stays(r, rcvr[c])
        BY <1>0, <2>4 DEF Stays, Receiver
      <4> QED
        BY <2>3, <2>4, <3>1, <3>2, <3>3, <4>1, UnseenIs DEF Complete
  <2> QED
    BY <1>0, <1>2, <2>5, XioTcpAssumption DEF SendPacket
<1>3. CASE Close(c) \/ ProtocolTimeout(c)
  <2>1. UNCHANGED <<vars, active, toSend>> /\ rcvr' = [rcvr EXCEPT ![c] = Closed]
    BY <1>3 DEF Close, ProtocolTimeout
  <2>2. Closed.state = "closed" /\ ~Closed.timer /\ ~Closed.transmitting /\ Closed.mark = 0
    BY DEF Closed
  <2> DEFINE r == Closed
  <2>4. r \in Receiver /\ Sound(r) /\ r.state = "closed" /\ ~r.timer
        /\ ~r.transmitting /\ r.mark <= written
    BY <1>0, <2>2, ClosedType
  <2>5. rcvr' = [rcvr EXCEPT ![c] = r]
    BY <2>1
  <2> HIDE DEF r
  <2>3. Unseen(c)
    BY <2>1, <2>4, <2>5, UnseenIs DEF Stays
  <2> QED
    BY <1>0, <2>1, <2>3
<1>4. CASE Receive(c)
  <2>1. PICK k \in 1 .. Len(rcvr[c].stream) :
          /\ Buffered(rcvr[c]) + k <= BufSize
          /\ rcvr' = [rcvr EXCEPT
                      ![c].inbuf = @ \o SubSeq(rcvr[c].stream, 1, k),
                      ![c].stream = SubSeq(@, k + 1, Len(@))]
    BY <1>4 DEF Receive
  <2> DEFINE s == rcvr[c].stream
             front == SubSeq(s, 1, k)
             back == SubSeq(s, k + 1, Len(s))
             b == rcvr[c].inbuf \o front
             r == [rcvr[c] EXCEPT !.inbuf = b, !.stream = back]
  <2>2. s \in Seq(Bytes) /\ k \in 1 .. Len(s) /\ Len(s) \in Nat
    BY <1>0 DEF Receiver
  <2>3. rcvr' = [rcvr EXCEPT ![c] = r]
    BY <1>0, <2>1
  <2> HIDE DEF s
  <2>4. back \in Seq(Bytes)
    BY <2>2, RestType DEF Rest
  <2>5. front \in Seq(Bytes) /\ Len(front) = k
    <3>1. \A i \in 1 .. k : s[i] \in Bytes
      BY <2>2, ElementOfSeq
    <3> QED
      BY <2>2, <3>1, SubSeqProperties
  <2>6. b \in Seq(Bytes) /\ Len(b) = Len(rcvr[c].inbuf) + k
    <3> DEFINE u == rcvr[c].inbuf
    <3>1. u \in Seq(Bytes)
      BY <1>0 DEF Receiver
    <3> HIDE DEF u, front
    <3>2. u \o front \in Seq(Bytes) /\ Len(u \o front) = Len(u) + Len(front)
      BY <2>5, <3>1, ConcatProperties
    <3> QED
      BY <2>5, <3>2 DEF u
  <2> HIDE DEF b, back
  <2>7. r \in Receiver /\ r.state = rcvr[c].state /\ r.inbuf = b
        /\ r.seen = rcvr[c].seen
        /\ r.timer = rcvr[c].timer /\ r.transmitting = rcvr[c].transmitting
        /\ r.left = rcvr[c].left /\ r.mark = rcvr[c].mark
    BY <1>0, <2>4, <2>6 DEF Receiver
  <2> HIDE DEF r
  <2>8. UNCHANGED <<vars, toSend>> /\ active' = c /\ Open(c)
    BY <1>4 DEF Receive
  <2>9. Sound(r) /\ r.mark <= written
    <3>1. Len(r.inbuf) = Len(rcvr[c].inbuf) + k /\ k \in Nat
      BY <2>2, <2>6, <2>7
    <3>2. Buffered(r) = Buffered(rcvr[c]) + k
      BY <1>0, <2>7, <3>1, BufferedMore
    <3> QED
      BY <1>0, <2>1, <2>7, <3>2 DEF Sound
  <2>10. Unseen(c)
    <3>1. Len(rcvr[c].inbuf) \in Nat /\ k \in Nat
      BY <1>0, <2>2 DEF Receiver
    <3>2. Stays(r, rcvr[c])
      BY <2>6, <2>7, <3>1 DEF Stays
    <3> QED
      BY <2>3, <2>7, <2>8, <2>9, <3>2, UnseenIs DEF Complete
  <2> QED
    BY <1>0, <2>8, <2>10
<1> QED
  BY <1>1, <1>2, <1>3, <1>4 DEF Instrument

\* The turns of the loop of protocol_input() that take no part of a packet.
LEMMA LoopStep ==
  ASSUME Types, NEW c \in Clients, Search(c) \/ BadHeader(c) \/ Return(c)
  PROVE  Unseen(c) /\ active' \in Callers /\ toSend' \in 0 .. MaxPackets
<1>0. /\ rcvr[c] \in Receiver /\ Sound(rcvr[c]) /\ rcvr[c].mark <= written
      /\ active \in Callers /\ toSend \in 0 .. MaxPackets
      /\ rcvr \in [Clients -> Receiver]
      /\ rcvr[c].inbuf \in Seq(Bytes) /\ Len(rcvr[c].inbuf) \in Nat
      /\ rcvr[c].seen \in Seq(Bytes) /\ Len(rcvr[c].seen) \in Nat
  BY DEF Types, Receiver
<1>1. CASE Search(c)
  <2>1. PICK r \in Receiver :
          /\ rcvr' = [rcvr EXCEPT ![c] = r]
          /\ r.state \in {"lost", "idle"} /\ Buffered(r) <= Buffered(rcvr[c])
          /\ r.timer = rcvr[c].timer /\ r.transmitting = rcvr[c].transmitting
          /\ r.mark = rcvr[c].mark
    <3> DEFINE buf == rcvr[c].inbuf
               dollars == {i \in 1 .. Len(buf) : buf[i].kind # "other"}
               first == CHOOSE i \in dollars : \A j \in dollars : i <= j
    <3>1. CASE dollars = {}
      <4> DEFINE none == <<>>
                 r == [rcvr[c] EXCEPT !.inbuf = none, !.seen = none]
      <4>1. none \in Seq(Bytes) /\ Len(none) = 0
        OBVIOUS
      <4>2. rcvr' = [rcvr EXCEPT ![c].inbuf = none, ![c].seen = none]
        BY <1>1, <3>1 DEF Search
      <4>3. rcvr[c].state = "lost"
        BY <1>1 DEF Search
      <4> HIDE DEF none
      <4>4. r \in Receiver /\ r.state = "lost" /\ r.inbuf = none /\ r.seen = none
            /\ r.timer = rcvr[c].timer /\ r.transmitting = rcvr[c].transmitting
            /\ r.mark = rcvr[c].mark
        BY <1>0, <4>1, <4>3 DEF Receiver
      <4>5. rcvr' = [rcvr EXCEPT ![c] = r]
        BY <1>0, <4>2
      <4> HIDE DEF r
      <4>6. Buffered(r) <= Buffered(rcvr[c])
        <5>1. Len(r.seen) = 0 /\ Len(r.inbuf) <= Len(rcvr[c].inbuf)
          BY <1>0, <4>1, <4>4
        <5> QED
          BY <1>0, <4>4, <5>1, BufferedLess
      <4> QED
        BY <4>4, <4>5, <4>6
    <3>2. CASE dollars # {}
      <4>1. first \in dollars
        <5>1. dollars \subseteq Nat
          BY <1>0
        <5>2. \E i \in dollars : \A j \in dollars : i <= j
          BY <3>2, <5>1, LeastOf
        <5> QED
          BY <5>2
      <4>2. rcvr' = [rcvr EXCEPT ![c].seen = @ \o SubSeq(buf, 1, first - 1),
                                 ![c].inbuf = Rest(buf, first - 1),
                                 ![c].state = "idle"]
        BY <1>1, <3>2 DEF Search
      <4> HIDE DEF first
      <4>3. first - 1 \in 0 .. Len(buf)
        BY <1>0, <4>1
      <4> DEFINE b == Rest(buf, first - 1)
                 front == SubSeq(buf, 1, first - 1)
                 s == rcvr[c].seen \o front
                 r == [rcvr[c] EXCEPT !.seen = s, !.inbuf = b, !.state = "idle"]
      <4>4. b \in Seq(Bytes) /\ Len(b) = Len(buf) - (first - 1)
        BY <1>0, <4>3, RestType
      <4>7. front \in Seq(Bytes) /\ Len(front) = first - 1
        BY <1>0, <4>3, FrontType
      <4>5. rcvr' = [rcvr EXCEPT ![c] = r]
        BY <1>0, <4>2
      <4> HIDE DEF b, front
      <4>8. s \in Seq(Bytes) /\ Len(s) = Len(rcvr[c].seen) + Len(front)
        BY <1>0, <4>7, ConcatProperties
      <4> HIDE DEF s
      <4>6. r \in Receiver /\ r.state = "idle" /\ r.inbuf = b /\ r.seen = s
            /\ r.timer = rcvr[c].timer /\ r.transmitting = rcvr[c].transmitting
            /\ r.mark = rcvr[c].mark
        BY <1>0, <4>4, <4>8 DEF Receiver
      <4> HIDE DEF r
      <4>9. Buffered(r) = Buffered(rcvr[c]) /\ Buffered(rcvr[c]) \in Nat
        <5>1. first - 1 \in Int
          BY <4>3
        <5>2. /\ Len(r.seen) = Len(rcvr[c].seen) + (first - 1)
              /\ Len(r.inbuf) = Len(rcvr[c].inbuf) - (first - 1)
          BY <4>4, <4>6, <4>7, <4>8
        <5> QED
          BY <1>0, <4>6, <5>1, <5>2, BufferedMoved
      <4>10. Buffered(r) <= Buffered(rcvr[c])
        BY <4>9
      <4> QED
        BY <4>5, <4>6, <4>10
    <3> QED
      BY <3>1, <3>2
  <2>4. UNCHANGED <<vars, active, toSend>> /\ rcvr[c].state = "lost"
    BY <1>1 DEF Search
  <2>5. Sound(r) /\ r.mark <= written
    <3>1. Buffered(rcvr[c]) \in Nat /\ Buffered(r) \in Nat
      BY <1>0 DEF Buffered, Receiver
    <3> QED
      BY <1>0, <2>1, <3>1, XioTcpAssumption DEF Sound
  <2>6. Unseen(c)
    BY <2>1, <2>4, <2>5, UnseenIs DEF Complete, Open, Stays
  <2> QED
    BY <1>0, <2>4, <2>6
<1>2. ASSUME AtHeader(c)
      PROVE  /\ WithLength(rcvr[c]) = [rcvr[c] EXCEPT !.left = Head(rcvr[c].inbuf).len]
             /\ Head(rcvr[c].inbuf).len \in Nat /\ rcvr[c].inbuf # <<>>
             /\ rcvr[c].state = "idle"
  <2>1. rcvr[c].inbuf # <<>> /\ rcvr[c].state = "idle"
    BY <1>2 DEF AtHeader, InLoop
  <2>2. Head(rcvr[c].inbuf) \in Bytes
    BY <1>0, <2>1
  <2> QED
    BY <2>1, <2>2 DEF WithLength, Bytes
<1>3. CASE BadHeader(c)
  <2> DEFINE l == Head(rcvr[c].inbuf).len
             o == WithLength(rcvr[c])
             b == Tail(o.inbuf)
             s == Append(o.seen, Head(rcvr[c].inbuf))
             r == [o EXCEPT !.seen = s, !.inbuf = b, !.state = "lost"]
  <2>1. AtHeader(c) /\ UNCHANGED <<vars, active, toSend>>
        /\ rcvr' = [rcvr EXCEPT ![c] = r]
    BY <1>3, Zenon DEF BadHeader
  <2>2. l \in Nat /\ rcvr[c].inbuf # <<>> /\ rcvr[c].state = "idle"
        /\ o = [rcvr[c] EXCEPT !.left = l]
    BY <1>2, <2>1
  <2> HIDE DEF l, o
  <2>3. o \in Receiver /\ o.inbuf = rcvr[c].inbuf /\ o.seen = rcvr[c].seen
        /\ o.timer = rcvr[c].timer
        /\ o.transmitting = rcvr[c].transmitting /\ o.mark = rcvr[c].mark
    BY <1>0, <2>2 DEF Receiver
  <2>4. b \in Seq(Bytes) /\ Len(b) = Len(rcvr[c].inbuf) - 1
    BY <1>0, <2>2, <2>3
  <2>8. s \in Seq(Bytes) /\ Len(s) = Len(rcvr[c].seen) + 1
    <3>1. Head(rcvr[c].inbuf) \in Bytes
      BY <1>0, <2>2
    <3> QED
      BY <1>0, <2>3, <3>1, AppendProperties
  <2> HIDE DEF b, s
  <2>5. r \in Receiver /\ r.state = "lost" /\ r.inbuf = b /\ r.seen = s
        /\ r.timer = rcvr[c].timer /\ r.transmitting = rcvr[c].transmitting
        /\ r.mark = rcvr[c].mark
    BY <2>3, <2>4, <2>8 DEF Receiver
  <2> HIDE DEF r
  <2>9. Buffered(r) = Buffered(rcvr[c])
    <3>1. Len(r.inbuf) = Len(rcvr[c].inbuf) - 1 /\ Len(r.seen) = Len(rcvr[c].seen) + 1
      BY <2>4, <2>5, <2>8
    <3> QED
      BY <1>0, <2>5, <3>1, BufferedMoved
  <2>6. Sound(r) /\ r.mark <= written
    BY <1>0, <2>5, <2>9 DEF Sound
  <2>7. Unseen(c)
    BY <2>1, <2>2, <2>5, <2>6, UnseenIs DEF Complete, Open, Stays
  <2> QED
    BY <1>0, <2>1, <2>7
<1>4. CASE Return(c)
  <2>1. active' = NoClient /\ UNCHANGED <<vars, toSend>>
    BY <1>4 DEF Return
  <2> DEFINE none == <<>>
  <2>4. none \in Seq(Bytes) /\ Len(none) = 0
    OBVIOUS
  <2>2. CASE rcvr' = [rcvr EXCEPT ![c] = Used(@)]
    <3> DEFINE r == [rcvr[c] EXCEPT !.seen = none]
    <3>1. rcvr' = [rcvr EXCEPT ![c] = r]
      BY <1>0, <2>2 DEF Used
    <3> HIDE DEF none
    <3>2. r \in Receiver /\ r.state = rcvr[c].state /\ r.inbuf = rcvr[c].inbuf
          /\ r.seen = none /\ r.left = rcvr[c].left
          /\ r.timer = rcvr[c].timer /\ r.transmitting = rcvr[c].transmitting
          /\ r.mark = rcvr[c].mark
      BY <1>0, <2>4 DEF Receiver
    <3> HIDE DEF r
    <3>3. Sound(r) /\ r.mark <= written
      <4>1. Buffered(r) <= Buffered(rcvr[c]) /\ Buffered(r) \in Nat
            /\ Buffered(rcvr[c]) \in Nat
        <5>1. Len(r.seen) = 0 /\ Len(r.inbuf) <= Len(rcvr[c].inbuf)
          BY <1>0, <2>4, <3>2
        <5> QED
          BY <1>0, <3>2, <5>1, BufferedLess
      <4> QED
        BY <1>0, <3>2, <4>1, XioTcpAssumption DEF Sound
    <3>4. Unseen(c)
      <4>1. Stays(r, rcvr[c])
        BY <1>0, <3>2 DEF Stays
      <4>2. ~Open(c) => r.state = "closed"
        BY <3>2 DEF Open
      <4> QED
        BY <2>1, <3>1, <3>2, <3>3, <4>1, <4>2, UnseenIs DEF Complete
    <3> QED
      BY <1>0, <2>1, <3>4 DEF Callers
  <2>3. CASE ReadHeader(c) /\ rcvr' = [rcvr EXCEPT ![c] = Unreported(WithLength(@))]
    <3> DEFINE l == Head(rcvr[c].inbuf).len
               b == rcvr[c].seen \o rcvr[c].inbuf
               r == [rcvr[c] EXCEPT !.left = l, !.inbuf = b, !.seen = none]
    <3>1. l \in Nat /\ rcvr[c].state = "idle" /\ rcvr' = [rcvr EXCEPT ![c] = r]
      BY <1>0, <1>2, <2>3 DEF ReadHeader, Unreported, Receiver
    <3>5. b \in Seq(Bytes) /\ Len(b) = Buffered(rcvr[c])
      BY <1>0, ConcatProperties DEF Buffered
    <3> HIDE DEF l, b, none
    <3>2. r \in Receiver /\ r.state = "idle" /\ r.inbuf = b /\ r.seen = none
          /\ r.timer = rcvr[c].timer /\ r.transmitting = rcvr[c].transmitting
          /\ r.mark = rcvr[c].mark
      BY <1>0, <2>4, <3>1, <3>5 DEF Receiver
    <3> HIDE DEF r
    <3>3. Sound(r) /\ r.mark <= written
      <4>1. Buffered(r) = Buffered(rcvr[c])
        <5> DEFINE m == Len(rcvr[c].seen)
                   y == Len(rcvr[c].inbuf)
                   i == Len(r.inbuf)
        <5>1. m \in Nat /\ y \in Nat /\ i = m + y
          BY <1>0, <3>2, <3>5 DEF Buffered
        <5> HIDE DEF m, y, i
        <5>2. i = y - (0 - m) /\ 0 - m \in Int
          BY <5>1
        <5>3. Len(r.seen) = m + (0 - m)
          BY <2>4, <3>2, <5>1
        <5> QED
          BY <1>0, <3>2, <5>2, <5>3, BufferedMoved DEF m, y, i
      <4> QED
        BY <1>0, <3>2, <4>1 DEF Sound
    <3>4. Unseen(c)
      BY <2>1, <3>1, <3>2, <3>3, UnseenIs DEF Complete, Open, Stays
    <3> QED
      BY <1>0, <2>1, <3>4 DEF Callers
  <2> QED
    BY <1>4, <2>2, <2>3 DEF Return
<1> QED
  BY <1>1, <1>3, <1>4

\* A piece of a packet: from receiver state r, n bytes.
LEMMA PassStep ==
  ASSUME Types, NEW c \in Clients, NEW r \in Receiver, NEW n \in 1 .. MaxData,
         pc = "loop", Open(c), ~Complete(c), r.state = "mid",
         r.timer = rcvr[c].timer, Sound(r), r.mark <= written,
         n <= r.left, n <= Len(r.inbuf), n = Smaller(r.left, MaxData),
         r.inbuf = rcvr[c].inbuf, r.transmitting => Fits(rcvr[c], r.left),
         Pass(c, r, n)
  PROVE  Passed(c) /\ [Next]_vars /\ UNCHANGED <<active, toSend>>
<1> DEFINE complete == n = r.left
           accepted == IF r.transmitting THEN written' ELSE written
           left == r.left - n
           b == Rest(r.inbuf, n)
           mark == IF complete THEN accepted ELSE r.mark
           none == <<>>
           new == [r EXCEPT !.seen = none, !.inbuf = b, !.left = left,
                            !.mark = mark]
<1>0. /\ r.left \in Nat /\ r.inbuf \in Seq(Bytes) /\ Len(r.inbuf) \in Nat
      /\ n \in Nat /\ r.transmitting \in BOOLEAN /\ r.mark \in Nat
      /\ written \in Nat /\ rcvr \in [Clients -> Receiver]
  <2>1. /\ r.left \in Nat /\ r.inbuf \in Seq(Bytes) /\ r.mark \in Nat
        /\ r.transmitting \in BOOLEAN
    BY DEF Receiver
  <2>2. Len(r.inbuf) \in Nat
    BY <2>1
  <2>3. written \in Nat /\ rcvr \in [Clients -> Receiver]
    BY DEF Types, TypeOK
  <2>4. n \in Nat
    BY ExportAssumption
  <2> QED
    BY <2>1, <2>2, <2>3, <2>4
<1>1. /\ IF r.transmitting
         THEN ForwardPacket(n, IF complete THEN c ELSE NoClient)
         ELSE IF complete THEN RequestAck(c) ELSE UNCHANGED vars
      /\ rcvr' = [rcvr EXCEPT ![c] = new] /\ UNCHANGED <<active, toSend>>
  BY <1>0, Zenon DEF Pass
<1>2. left \in Nat /\ (complete <=> left = 0) /\ left <= r.left
  BY <1>0
<1>3. b \in Seq(Bytes) /\ Len(b) <= Len(r.inbuf) /\ Len(b) = Len(r.inbuf) - n
  <2>1. n \in 0 .. Len(r.inbuf)
    BY <1>0
  <2>2. b \in Seq(Bytes) /\ Len(b) = Len(r.inbuf) - n
    BY <1>0, <2>1, RestType
  <2> HIDE DEF b
  <2> QED
    BY <1>0, <2>1, <2>2
<1>4. [Next]_vars
  BY <1>1 DEF Next, Callers
<1>5. TypeOK' /\ written' \in Nat
  <2>1. TypeOK'
    BY <1>4, StepType DEF Types
  <2> QED
    BY <2>1 DEF TypeOK
<1>6. written' >= written
  <2>1. CASE ForwardPacket(n, IF complete THEN c ELSE NoClient)
    <3>1. HeaderTaken \in Nat /\ Accepted(WithHeader, n) \in Nat
      BY PacketCommit, ExportAssumption DEF Types
    <3> QED
      BY <1>0, <2>1, <3>1 DEF ForwardPacket
  <2>2. CASE RequestAck(c) \/ UNCHANGED vars
    BY <1>0, <2>2 DEF RequestAck, vars, queueVars
  <2> QED
    BY <1>1, <2>1, <2>2
<1>7. mark \in Nat /\ mark <= written'
  BY <1>0, <1>5, <1>6
<1>12. none \in Seq(Bytes) /\ Len(none) = 0
  OBVIOUS
<1> HIDE DEF left, b, mark, none
<1>8. new \in Receiver /\ new.state = "mid" /\ new.left = left /\ new.inbuf = b
      /\ new.seen = none
      /\ new.timer = rcvr[c].timer /\ new.transmitting = r.transmitting
      /\ new.mark = mark
  BY <1>2, <1>3, <1>7, <1>12 DEF Receiver
<1> HIDE DEF new
<1>9. Sound(new)
  <2>1. Len(new.seen) = 0 /\ Len(new.inbuf) <= Len(r.inbuf)
    BY <1>3, <1>8, <1>12
  <2>2. Buffered(new) <= Buffered(r) /\ Buffered(new) \in Nat /\ Buffered(r) \in Nat
    BY <1>8, <2>1, BufferedLess
  <2> QED
    BY <1>0, <1>2, <1>8, <2>1, <2>2, XioTcpAssumption DEF Sound
<1>10. \/ /\ new.transmitting
          /\ ForwardPacket(n, IF new.left = 0 THEN c ELSE NoClient)
          /\ TookPiece(new, rcvr[c], n)
       \/ ~new.transmitting /\ new.left = 0 /\ RequestAck(c)
       \/ ~new.transmitting /\ new.left # 0 /\ UNCHANGED vars
  <2>1. new.left + n = r.left
    BY <1>0, <1>2, <1>8 DEF left
  <2>2. new.transmitting => TookPiece(new, rcvr[c], n)
    BY <1>3, <1>8, <2>1 DEF TookPiece, Fits
  <2> QED
    BY <1>0, <1>1, <1>2, <1>8, <2>2
<1>11. Passed(c)
  BY <1>1, <1>7, <1>8, <1>9, <1>10 DEF Passed
<1> QED
  BY <1>1, <1>4, <1>11

\* The header of a packet, or more of one.
LEMMA PieceStep ==
  ASSUME Types, NEW c \in Clients, BeginPacket(c) \/ MidPacket(c)
  PROVE  Passed(c) /\ [Next]_vars /\ UNCHANGED <<active, toSend>>
<1>0. /\ rcvr[c] \in Receiver /\ Sound(rcvr[c]) /\ rcvr[c].mark <= written
  BY DEF Types
<1>1. CASE BeginPacket(c)
  <2> DEFINE l == Head(rcvr[c].inbuf).len
             o == WithLength(rcvr[c])
             n == TxmitSize(o)
             t == Packetised(o.left) <= circ_space(q)
             d == rcvr[c].told \/ Head(rcvr[c].inbuf).rts
             r == [rcvr[c] EXCEPT !.left = l, !.state = "mid", !.transmitting = t, !.told = d]
  <2>1. /\ AtHeader(c) /\ GoodHeader(c) /\ n > 0 /\ Pass(c, Accepting(o), n)
        /\ pc = "loop" /\ rcvr[c].state = "idle" /\ rcvr[c].inbuf # <<>>
    BY <1>1 DEF BeginPacket, AtHeader, InLoop
  <2>2. Head(rcvr[c].inbuf) \in Bytes
    BY <1>0, <2>1 DEF Receiver
  <2>3. l \in Nat /\ l <= MaxPkt /\ d \in BOOLEAN
    BY <1>0, <2>1, <2>2 DEF Bytes, GoodHeader, Receiver
  <2>4. o = [rcvr[c] EXCEPT !.left = l]
    BY DEF WithLength
  <2>5. Accepting(o) = r
    BY <1>0, <2>4 DEF Accepting, Receiver
  <2>6. o \in Receiver /\ o.left = l /\ o.inbuf = rcvr[c].inbuf
    BY <1>0, <2>3, <2>4 DEF Receiver
  <2>7. n \in 1 .. MaxData /\ n <= l /\ n <= Len(rcvr[c].inbuf)
        /\ n = Smaller(l, MaxData)
    BY <2>1, <2>6, TxmitRange
  <2>8. t \in BOOLEAN /\ (t => Packetised(l) <= circ_space(q))
    BY <2>6
  <2> HIDE DEF l, t, d, n, o
  <2>9. r \in Receiver /\ r.state = "mid" /\ r.left = l /\ r.inbuf = rcvr[c].inbuf
        /\ r.seen = rcvr[c].seen
        /\ r.timer = rcvr[c].timer /\ r.mark = rcvr[c].mark /\ r.transmitting = t
    BY <1>0, <2>3, <2>8 DEF Receiver
  <2> HIDE DEF r
  <2>10. Sound(r) /\ r.mark <= written
    BY <1>0, <2>3, <2>9 DEF Sound, Buffered
  <2>11. Open(c) /\ ~Complete(c)
    BY <2>1 DEF Open, Complete
  <2>12. Pass(c, r, n)
    BY <2>1, <2>5
  <2>13. r.transmitting => Fits(rcvr[c], r.left)
    BY <2>8, <2>9 DEF Fits
  <2> QED
    BY <2>1, <2>7, <2>9, <2>10, <2>11, <2>12, <2>13, PassStep
<1>2. CASE MidPacket(c)
  <2> DEFINE r == rcvr[c]
             n == TxmitSize(r)
  <2>1. pc = "loop" /\ r.state = "mid" /\ n > 0 /\ Pass(c, r, n)
    BY <1>2 DEF MidPacket, InLoop
  <2>2. n \in 1 .. MaxData /\ n <= r.left /\ n <= Len(r.inbuf)
        /\ n = Smaller(r.left, MaxData)
    BY <1>0, <2>1, TxmitRange
  <2>3. r.left # 0
    BY <1>0, <2>2 DEF Receiver
  <2>4. Open(c) /\ ~Complete(c)
    BY <2>1, <2>3 DEF Open, Complete
  <2>5. r.transmitting => Fits(rcvr[c], r.left)
    BY <2>1 DEF Fits
  <2> QED
    BY <1>0, <2>1, <2>2, <2>4, <2>5, PassStep
<1> QED
  BY <1>1, <1>2

\* What a step of the system is to a receiver, and that it is one of the
\* exporter's specification.
LEMMA StepKinds ==
  ASSUME Types, TcpNext
  PROVE  /\ [Next]_vars /\ active' \in Callers /\ toSend' \in 0 .. MaxPackets
         /\ \/ \E c \in Clients : Unseen(c) \/ Passed(c)
            \/ ExporterReturns
            \/ ExporterAlone
<1>0. active \in Callers /\ toSend \in 0 .. MaxPackets
  BY DEF Types
<1>1. ASSUME NEW c \in Clients, Instrument(c) \/ Receive(c) \/ ProtocolTimeout(c)
      PROVE  Unseen(c) /\ active' \in Callers /\ toSend' \in 0 .. MaxPackets
  BY <1>1, InstrumentStep
<1>2. ASSUME NEW c \in Clients, Search(c) \/ BadHeader(c) \/ Return(c)
      PROVE  Unseen(c) /\ active' \in Callers /\ toSend' \in 0 .. MaxPackets
  BY <1>2, LoopStep
<1>3. ASSUME NEW c \in Clients, BeginPacket(c) \/ MidPacket(c)
      PROVE  Passed(c) /\ [Next]_vars /\ UNCHANGED <<active, toSend>>
  BY <1>3, PieceStep
<1>4. ASSUME NEW c \in Clients, Unseen(c) PROVE [Next]_vars
  BY <1>4 DEF Unseen
<1>5. CASE ExporterReturns
  BY <1>0, <1>5 DEF ExporterReturns, Next, ProcessQueue
<1>6. CASE ExporterTransmits \/ ExporterAck \/ ExporterDrain \/ ExporterConnect \/ ExporterDrop
  BY <1>0, <1>6
     DEF ExporterTransmits, ExporterAck, ExporterDrain, ExporterConnect, ExporterDrop,
         AtSocket, ExporterAlone, Next, ProcessQueue, Environment
<1> QED
  BY <1>0, <1>1, <1>2, <1>3, <1>4, <1>5, <1>6 DEF TcpNext, InputLoop, ExporterRuns

\* What was accepted and what was sent only grow, and a commit that wrapped is
\* not forgotten.
LEMMA Grows ==
  ASSUME TypeOK, [Next]_vars
  PROVE  written' >= written /\ sent' >= sent /\ (wrapped => wrapped')
<1>0. written \in Nat /\ sent \in Nat
  BY ExportAssumption DEF TypeOK
<1>1. ASSUME NEW n \in 1 .. MaxData, NEW c \in Callers, ForwardPacket(n, c)
      PROVE  written' >= written /\ sent' >= sent /\ (wrapped => wrapped')
  <2>1. HeaderTaken \in Nat /\ Accepted(WithHeader, n) \in Nat
    BY PacketCommit, ExportAssumption
  <2>2. written' = written + HeaderTaken + Accepted(WithHeader, n)
    BY <1>1 DEF ForwardPacket
  <2>3. written' >= written
    BY <1>0, <2>1, <2>2
  <2>4. sent' = sent /\ (wrapped => wrapped')
    BY <1>1, Zenon DEF ForwardPacket
  <2>5. sent' >= sent
    BY <1>0, <2>4
  <2> QED
    BY <2>3, <2>4, <2>5
<1>2. CASE PqTransmit
  <2>1. ChunkSize \in Nat
    BY <1>2, ChunkRange, LengthInRange, CircAssumption DEF TypeOK, PqTransmit
  <2>2. sent' = sent + ChunkSize /\ UNCHANGED <<written, wrapped>>
    BY <1>2 DEF PqTransmit
  <2> QED
    BY <1>0, <2>1, <2>2
<1>3. CASE UNCHANGED <<written, sent, wrapped>>
  BY <1>0, <1>3
<1>4. \/ \E n \in 1 .. MaxData, c \in Callers : ForwardPacket(n, c)
      \/ PqTransmit
      \/ UNCHANGED <<written, sent, wrapped>>
  BY DEF Next, vars, queueVars, ProcessQueue, Ack, Environment, RequestAck, PqReturn,
         AppInputAck, Drain, Drop, Connect
<1> QED
  BY <1>1, <1>2, <1>3, <1>4

\* There are no receivers at first.
LEMMA InitTcpInv == TcpInit => TcpInv
<1> SUFFICES ASSUME TcpInit PROVE TcpInv
  OBVIOUS
<1>1. TypeOK /\ written = 0
  BY InitType DEF TcpInit, Init
<1>2. rcvr = [c \in Clients |-> Closed] /\ Closed \in Receiver /\ Sound(Closed)
      /\ Closed.mark = 0 /\ Closed.state = "closed"
  BY ClosedType DEF TcpInit, Closed
<1>3. active \in Callers /\ toSend \in 0 .. MaxPackets
  BY XioTcpAssumption DEF TcpInit, Callers
<1>4. \A c \in Clients : Sound(rcvr[c]) /\ rcvr[c].mark <= written
  BY <1>1, <1>2
<1>5. Waits
  BY <1>2 DEF Waits, Open
<1> QED
  BY <1>1, <1>2, <1>3, <1>4, <1>5 DEF TcpInv, Types

\* The types, after a step that changes at most receiver c.
LEMMA OneChanges ==
  ASSUME Types, TypeOK', written' >= written, active' \in Callers,
         toSend' \in 0 .. MaxPackets, NEW c \in Clients, NEW r \in Receiver,
         rcvr' = [rcvr EXCEPT ![c] = r], Sound(r), r.mark <= written'
  PROVE  /\ Types' /\ rcvr'[c] = r
         /\ \A d \in Clients \ {c} : rcvr'[d] = rcvr[d]
<1>1. /\ rcvr' \in [Clients -> Receiver] /\ rcvr'[c] = r
      /\ \A d \in Clients \ {c} : rcvr'[d] = rcvr[d]
  BY DEF Types
<1>2. ASSUME NEW d \in Clients PROVE Sound(rcvr'[d]) /\ rcvr'[d].mark <= written'
  <2>1. CASE d = c
    BY <1>1, <2>1
  <2>2. CASE d # c
    <3>1. rcvr'[d] = rcvr[d]
      BY <1>1, <2>2
    <3>2. Sound(rcvr[d]) /\ rcvr[d].mark <= written /\ rcvr[d] \in Receiver
      BY DEF Types
    <3>3. rcvr[d].mark \in Nat
      BY <3>2 DEF Receiver
    <3>4. written \in Nat /\ written' \in Nat
      BY DEF Types, TypeOK
    <3> QED
      BY <3>1, <3>2, <3>3, <3>4
  <2> QED
    BY <2>1, <2>2
<1> QED
  BY <1>1, <1>2 DEF Types, Sound

\* When process_queue() returns only timers change, and only that of the
\* receiver that is acked.
LEMMA ReturnsTo ==
  ASSUME Types, ExporterReturns, NEW c \in Clients
  PROVE  /\ rcvr' \in [Clients -> Receiver] /\ Sound(rcvr'[c])
         /\ rcvr'[c].state = rcvr[c].state /\ rcvr'[c].left = rcvr[c].left
         /\ rcvr'[c].mark = rcvr[c].mark
         /\ rcvr'[c].transmitting = rcvr[c].transmitting
         /\ rcvr'[c].timer => rcvr[c].timer \/ AckedNow = c
<1>1. ASSUME NEW d \in Clients
      PROVE  /\ rcvr'[d] \in Receiver /\ Sound(rcvr'[d])
             /\ rcvr'[d].state = rcvr[d].state /\ rcvr'[d].left = rcvr[d].left
             /\ rcvr'[d].mark = rcvr[d].mark
             /\ rcvr'[d].transmitting = rcvr[d].transmitting
             /\ rcvr'[d].timer => rcvr[d].timer \/ AckedNow = d
  <2>1. rcvr[d] \in Receiver /\ Sound(rcvr[d])
    BY DEF Types
  <2>2. rcvr'[d] = IF d \in Acked THEN [rcvr[d] EXCEPT !.timer = TRUE] ELSE rcvr[d]
    BY DEF ExporterReturns
  <2>3. CASE d \in Acked
    <3> DEFINE r == [rcvr[d] EXCEPT !.timer = TRUE]
    <3>1. r \in Receiver /\ r.state = rcvr[d].state /\ r.left = rcvr[d].left
          /\ r.mark = rcvr[d].mark /\ r.transmitting = rcvr[d].transmitting
          /\ r.inbuf = rcvr[d].inbuf /\ r.seen = rcvr[d].seen
      BY <2>1 DEF Receiver
    <3>2. rcvr'[d] = r /\ AckedNow = d
      BY <2>2, <2>3 DEF Acked
    <3> HIDE DEF r
    <3> QED
      BY <2>1, <3>1, <3>2 DEF Sound, Buffered
  <2>4. CASE d \notin Acked
    BY <2>1, <2>2, <2>4
  <2> QED
    BY <2>3, <2>4
<1>2. rcvr' \in [Clients -> Receiver]
  BY <1>1 DEF ExporterReturns
<1> QED
  BY <1>1, <1>2

\* The invariant is inductive, and the exporter's part of a step is one of its
\* specification.
LEMMA NextTcpInv ==
  ASSUME TcpInv, [TcpNext]_TcpVars
  PROVE  TcpInv' /\ [Next]_vars
<1>0. Types /\ Waits /\ TypeOK
  BY DEF TcpInv, Types
<1>1. CASE UNCHANGED TcpVars
  <2>1. UNCHANGED <<rcvr, active, toSend>> /\ UNCHANGED vars
    BY <1>1 DEF TcpVars
  <2>2. TypeOK'
    BY <1>0, <2>1, StepType
  <2> QED
    BY <1>0, <2>1, <2>2 DEF TcpInv, Types, Waits, Sound, Open, Complete, vars, queueVars
<1>2. CASE TcpNext
  <2>1. /\ [Next]_vars /\ active' \in Callers /\ toSend' \in 0 .. MaxPackets
        /\ \/ \E c \in Clients : Unseen(c) \/ Passed(c)
           \/ ExporterReturns
           \/ ExporterAlone
    BY <1>0, <1>2, StepKinds
  <2>2. TypeOK' /\ written' >= written
    BY <1>0, <2>1, StepType, Grows
  <2>3. ASSUME NEW c \in Clients, Unseen(c) PROVE TcpInv'
    <3>1. PICK r \in Receiver :
            /\ rcvr' = [rcvr EXCEPT ![c] = r]
            /\ Sound(r) /\ r.mark <= written
            /\ r.timer => rcvr[c].timer /\ r.mark = rcvr[c].mark
            /\ Complete(c) => r.state = "closed" \/ (r.state = "mid" /\ r.left = 0)
            /\ ~Open(c) => r.state = "closed" \/ (client # c /\ caller # c /\ ~r.timer)
      BY <2>3 DEF Unseen
    <3>2. UNCHANGED <<client, caller, written>>
      BY <2>3 DEF Unseen, vars, queueVars
    <3>3. Types' /\ rcvr'[c] = r /\ \A d \in Clients \ {c} : rcvr'[d] = rcvr[d]
      BY <1>0, <2>1, <2>2, <3>1, <3>2, OneChanges
    <3>4. Waits'
      <4> SUFFICES ASSUME NEW d \in Clients,
                          client' = d \/ caller' = d \/ rcvr'[d].timer
                   PROVE  rcvr'[d].state = "closed"
                          \/ (rcvr'[d].state = "mid" /\ rcvr'[d].left = 0)
        BY DEF Waits, Open, Complete
      <4>1. CASE d = c
        BY <1>0, <3>1, <3>2, <3>3, <4>1 DEF Waits
      <4>2. CASE d # c
        BY <1>0, <3>2, <3>3, <4>2 DEF Waits, Open, Complete
      <4> QED
        BY <4>1, <4>2
    <3> QED
      BY <3>3, <3>4 DEF TcpInv
  <2>4. ASSUME NEW c \in Clients, Passed(c) PROVE TcpInv'
    <3>1. PICK r \in Receiver :
            /\ rcvr' = [rcvr EXCEPT ![c] = r]
            /\ Open(c) /\ ~Complete(c)
            /\ Sound(r) /\ r.mark <= written' /\ r.state = "mid"
            /\ r.timer = rcvr[c].timer
            /\ \/ \E n \in 1 .. MaxData :
                    ForwardPacket(n, IF r.left = 0 THEN c ELSE NoClient)
               \/ r.left = 0 /\ RequestAck(c)
               \/ UNCHANGED vars
      BY <2>4 DEF Passed
    <3>2. Types' /\ rcvr'[c] = r /\ \A d \in Clients \ {c} : rcvr'[d] = rcvr[d]
      BY <1>0, <2>1, <2>2, <3>1, OneChanges
    <3>3. /\ client' = client \/ (client' = c /\ r.left = 0)
          /\ caller' \in {caller, NoClient} \/ (caller' = c /\ r.left = 0)
      BY <3>1 DEF ForwardPacket, RequestAck, vars
    <3>4. client # c /\ caller # c /\ ~rcvr[c].timer
      BY <1>0, <3>1 DEF Waits
    <3>5. Waits'
      <4> SUFFICES ASSUME NEW d \in Clients,
                          client' = d \/ caller' = d \/ rcvr'[d].timer
                   PROVE  rcvr'[d].state = "closed"
                          \/ (rcvr'[d].state = "mid" /\ rcvr'[d].left = 0)
        BY DEF Waits, Open, Complete
      <4>1. CASE d = c
        BY <3>1, <3>2, <3>3, <3>4, <4>1, ExportAssumption
      <4>2. CASE d # c
        BY <1>0, <3>2, <3>3, <4>2, ExportAssumption DEF Waits, Open, Complete
      <4> QED
        BY <4>1, <4>2
    <3> QED
      BY <3>2, <3>5 DEF TcpInv
  <2>5. CASE ExporterReturns
    <3>1. \A c \in Clients :
            /\ rcvr' \in [Clients -> Receiver] /\ Sound(rcvr'[c])
            /\ rcvr'[c].state = rcvr[c].state /\ rcvr'[c].left = rcvr[c].left
            /\ rcvr'[c].mark = rcvr[c].mark
            /\ rcvr'[c].timer => rcvr[c].timer \/ AckedNow = c
      BY <1>0, <2>5, ReturnsTo
    <3>2. rcvr' \in [Clients -> Receiver]
      BY <1>0, <2>5, <3>1 DEF ExporterReturns
    <3>3. UNCHANGED <<active, toSend, written>> /\ client' \in {client, caller, NoClient}
          /\ caller' = NoClient
      BY <2>5 DEF ExporterReturns, PqReturn, Waiting, queueVars
    <3>4. Types'
      BY <1>0, <2>2, <3>1, <3>2, <3>3 DEF Types, Sound
    <3>5. Waits'
      <4> SUFFICES ASSUME NEW d \in Clients,
                          client' = d \/ caller' = d \/ rcvr'[d].timer
                   PROVE  rcvr[d].state = "closed"
                          \/ (rcvr[d].state = "mid" /\ rcvr[d].left = 0)
        BY <3>1 DEF Waits, Open, Complete
      <4>1. d # NoClient
        BY ExportAssumption
      <4>2. AckedNow \in {client, NoClient}
        BY DEF AckedNow
      <4>3. client = d \/ caller = d \/ rcvr[d].timer
        BY <3>1, <3>3, <4>1, <4>2
      <4> QED
        BY <1>0, <4>3 DEF Waits, Open, Complete
    <3> QED
      BY <2>1, <3>4, <3>5 DEF TcpInv
  <2>6. CASE ExporterAlone
    <3>1. UNCHANGED <<rcvr, client, caller, written>>
      BY <2>6 DEF ExporterAlone, PqTransmit, Ack, AppInputAck, Drain, Connect, Drop,
                  queueVars
    <3> QED
      BY <1>0, <2>1, <2>2, <3>1 DEF TcpInv, Types, Waits, Sound, Open, Complete
  <2> QED
    BY <2>1, <2>3, <2>4, <2>5, <2>6
<1> QED
  BY <1>1, <1>2

-----------------------------------------------------------------------------
(* Acks.                                                                   *)

\* A receiver's timer is set when the queue is empty, and until a commit wraps
\* an empty queue means that all that was accepted was sent, to which its
\* packet belongs.
LEMMA NextAck ==
  ASSUME TcpInv, AckAfterDelivery, FifoUntilWrap, [TcpNext]_TcpVars
  PROVE  AckAfterDelivery'
<1>0. Types /\ Waits /\ TypeOK /\ Types'
  BY NextTcpInv DEF TcpInv, Types
<1>1. [Next]_vars
  BY NextTcpInv
<1>2. sent' >= sent /\ (wrapped => wrapped') /\ sent \in Nat /\ sent' \in Nat
      /\ written \in Nat
  BY <1>0, <1>1, Grows DEF Types, TypeOK
<1> SUFFICES ASSUME ~wrapped', NEW c \in Clients, rcvr'[c].timer
             PROVE  sent' >= rcvr'[c].mark
  BY DEF AckAfterDelivery
<1>3. ~wrapped /\ rcvr[c].mark \in Nat /\ rcvr[c].mark <= written
  BY <1>0, <1>2 DEF Types, Receiver
<1>4. ASSUME rcvr[c].timer, rcvr'[c].mark = rcvr[c].mark
      PROVE  sent' >= rcvr'[c].mark
  BY <1>2, <1>3, <1>4 DEF AckAfterDelivery
<1>5. CASE UNCHANGED rcvr
  BY <1>4, <1>5
<1>6. ASSUME NEW d \in Clients, Unseen(d) PROVE rcvr[c].timer /\ rcvr'[c].mark = rcvr[c].mark
  BY <1>0, <1>6 DEF Unseen, Types
<1>7. ASSUME NEW d \in Clients, Passed(d) PROVE rcvr[c].timer /\ rcvr'[c].mark = rcvr[c].mark
  <2>1. PICK r \in Receiver :
          rcvr' = [rcvr EXCEPT ![d] = r] /\ Open(d) /\ ~Complete(d) /\ r.timer = rcvr[d].timer
    BY <1>7 DEF Passed
  <2>2. ~rcvr[d].timer
    BY <1>0, <2>1 DEF Waits
  <2> QED
    BY <1>0, <2>1, <2>2 DEF Types
<1>8. CASE ExporterReturns
  <2>1. rcvr'[c].mark = rcvr[c].mark /\ (rcvr[c].timer \/ AckedNow = c)
    BY <1>0, <1>8, ReturnsTo
  <2>2. CASE AckedNow = c
    <3>1. circ_length(q) = 0
      BY <2>2, ExportAssumption DEF AckedNow
    <3>2. sent = written
      BY <1>2, <1>3, <3>1 DEF FifoUntilWrap
    <3> QED
      BY <1>2, <1>3, <2>1, <3>2
  <2> QED
    BY <1>4, <2>1, <2>2
<1>9. CASE ExporterAlone
  BY <1>5, <1>9 DEF ExporterAlone
<1> QED
  BY <1>0, <1>4, <1>5, <1>6, <1>7, <1>8, <1>9, StepKinds DEF TcpVars

\* A commit leaves bytes in the buffer, whatever it holds.
LEMMA CommitFills ==
  ASSUME NEW b \in Buffers, NEW first \in Nat, NEW n \in Nat \ {0}
  PROVE  circ_length(circ_commit(b, first, n)) > 0
<1> DEFINE p == CommitPlan(b, n)
           new == circ_commit(b, first, n)
<1>1. CASE Accepted(b, n) = 0
  <2>1. circ_length(b) = CircSize
    BY <1>1, LengthInRange, CircAssumption DEF Accepted, circ_space, Smaller
  <2> QED
    BY <1>1, <2>1, CircAssumption DEF circ_commit
<1>2. CASE Accepted(b, n) # 0
  <2>1. Accepted(b, n) > 0
    BY <1>2, AcceptedInRange
  <2>2. p.head \in Index
    BY <2>1, CommitPlanRange
  <2>3. new.circ_head = p.head
    BY <1>2 DEF circ_commit
  <2>4. new \in Buffers
    BY CommitBuffer
  <2>5. new.circ_head \in Index /\ new.circ_tail \in Index
    BY <2>2, <2>3, <2>4 DEF Buffers
  <2> HIDE DEF new
  <2>6. circ_length(new) > 0
    BY <2>5, CircAssumption DEF circ_length, Index
  <2> QED
    BY <2>6 DEF new
<1> QED
  BY <1>1, <1>2

\* While a receiver that forwarded its packet is known to the exporter, bytes
\* are outstanding, and while process_queue() runs for it bytes are queued or
\* outstanding: the inductive half of WaiterIsOwed, lost bytes included.
Owed ==
  trusted =>
    /\ pc = "loop" => \A c \in Clients :
                        client = c /\ rcvr[c].transmitting => outstanding > 0
    /\ pc = "pq" /\ caller # NoClient => outstanding > 0 \/ circ_length(q) > 0

\* Nobody waits at first.
LEMMA InitOwed == TcpInit => Owed
BY ExportAssumption DEF TcpInit, Init, Owed

\* A wait begins and goes on only while an ACK is owed.
LEMMA NextOwed ==
  ASSUME TcpInv, Owed, OutstandingAccounts, [TcpNext]_TcpVars
  PROVE  Owed'
<1>0. Types /\ Waits /\ TypeOK
  BY DEF TcpInv, Types
<1>1. outstanding \in Nat /\ obuf \in Nat /\ inflight \in Nat /\ lost \in Nat
      /\ q \in Buffers /\ written \in Nat
      /\ (pc # "pq" => caller = NoClient) /\ circ_length(q) \in Nat
  BY <1>0, LengthInRange, CircAssumption, ExportAssumption DEF TypeOK, MaxChunk
<1>2. CASE UNCHANGED TcpVars
  BY <1>2 DEF Owed, TcpVars, vars, queueVars
<1>3. ASSUME NEW c \in Clients, Unseen(c) PROVE Owed'
  <2>1. UNCHANGED <<trusted, pc, client, caller, outstanding, q>>
    BY <1>3 DEF Unseen, vars, queueVars
  <2>2. \A d \in Clients : rcvr'[d].transmitting => rcvr[d].transmitting
    BY <1>0, <1>3 DEF Unseen, Types
  <2> QED
    BY <2>1, <2>2 DEF Owed
<1>4. ASSUME NEW c \in Clients, Passed(c) PROVE Owed'
  <2>1. PICK r \in Receiver :
          /\ rcvr' = [rcvr EXCEPT ![c] = r]
          /\ pc = "loop" /\ Open(c) /\ ~Complete(c)
          /\ \/ \E n \in 1 .. MaxData :
                  ForwardPacket(n, IF r.left = 0 THEN c ELSE NoClient)
             \/ ~r.transmitting /\ RequestAck(c)
             \/ UNCHANGED vars
    BY <1>4 DEF Passed
  <2>2. client # c
    BY <1>0, <2>1 DEF Waits
  <2>3. rcvr'[c] = r /\ \A d \in Clients \ {c} : rcvr'[d] = rcvr[d]
    BY <1>0, <2>1 DEF Types
  <2>4. ASSUME NEW n \in 1 .. MaxData, NEW d, ForwardPacket(n, d) PROVE Owed'
    <3>1. n \in Nat \ {0}
      BY ExportAssumption
    <3>2. WithHeader \in Buffers /\ HeaderTaken \in Nat
      BY <1>0, PacketCommit, ExportAssumption
    <3>3. written + HeaderTaken + 1 \in Nat
      BY <1>1, <3>2
    <3>4. q' = circ_commit(WithHeader, written + HeaderTaken + 1, n) /\ pc' = "pq"
      BY <2>4 DEF ForwardPacket
    <3>5. circ_length(q)' > 0
      BY <3>1, <3>2, <3>3, <3>4, CommitFills
    <3> QED
      BY <3>4, <3>5 DEF Owed
  <2>5. CASE ~r.transmitting /\ RequestAck(c)
    BY <2>1, <2>2, <2>3, <2>5 DEF RequestAck, Owed, queueVars
  <2>6. CASE UNCHANGED vars
    BY <2>2, <2>3, <2>6 DEF Owed, vars, queueVars
  <2> QED
    BY <2>1, <2>4, <2>5, <2>6
<1>5. CASE ExporterReturns
  <2> SUFFICES ASSUME trusted', pc' = "loop", NEW c \in Clients, client' = c
               PROVE  outstanding' > 0
    BY <1>5 DEF Owed, ExporterReturns, PqReturn
  <2>1. /\ pc = "pq" /\ ~(CTS /\ circ_length(q) > 0) /\ trusted
        /\ outstanding' = outstanding
        /\ client' = IF caller # NoClient THEN caller ELSE Waiting
    BY <1>5 DEF ExporterReturns, PqReturn
  <2>2. outstanding > 0 \/ circ_length(q) > 0
    <3>1. CASE caller # NoClient
      BY <2>1, <3>1 DEF Owed
    <3>2. CASE caller = NoClient
      <4>1. circ_length(q) # 0
        BY <2>1, <3>2, ExportAssumption DEF Waiting
      <4> QED
        BY <1>1, <4>1
    <3> QED
      BY <3>1, <3>2
  <2>3. ASSUME circ_length(q) > 0 PROVE outstanding > 0
    <3>1. ~(outstanding < Window /\ obuf = 0)
      BY <2>1, <2>3 DEF CTS
    <3>2. outstanding = obuf + inflight + lost
      BY <2>1 DEF OutstandingAccounts
    <3> QED
      BY <1>1, <3>1, <3>2, ExportAssumption
  <2> QED
    BY <2>1, <2>2, <2>3
<1>6. CASE ExporterAlone
  <2>1. CASE PqTransmit
    <3>1. ChunkSize > 0 /\ ChunkSize \in Nat
      BY <1>0, <1>1, <2>1, ChunkRange DEF PqTransmit, TypeOK
    <3>2. outstanding' = outstanding + ChunkSize /\ pc' = "pq"
      BY <2>1 DEF PqTransmit
    <3>3. outstanding' > 0
      BY <1>1, <3>1, <3>2
    <3> QED
      BY <3>2, <3>3 DEF Owed
  <2>2. CASE Ack
    <3>1. pc' = "pq" /\ caller' = NoClient
      BY <1>1, <2>2 DEF Ack, AppInputAck
    <3> QED
      BY <3>1 DEF Owed
  <2>3. CASE Drain \/ Connect \/ Drop
    BY <1>6, <2>3 DEF ExporterAlone, Drain, Connect, Drop, Owed, queueVars
  <2> QED
    BY <1>6, <2>1, <2>2, <2>3 DEF ExporterAlone
<1> QED
  BY <1>0, <1>2, <1>3, <1>4, <1>5, <1>6, StepKinds DEF TcpVars

-----------------------------------------------------------------------------
(* Packets come in complete.                                               *)

\* The instrument holds one connection at a time.
Single == \A c, d \in Clients : Open(c) /\ Open(d) => c = d

\* Division, as far as it is needed.
LEMMA Quotient ==
  ASSUME NEW a \in Nat, NEW m \in Nat \ {0}
  PROVE  a \div m \in Nat /\ (a < m => a \div m = 0)
         /\ (a + m) \div m = (a \div m) + 1
OBVIOUS

\* A packet is one serio packet and the serio packets of the rest.
LEMMA OneMoreSerio ==
  ASSUME NEW left \in Nat \ {0}, NEW n, n = Smaller(left, MaxData)
  PROVE  /\ Packetised(left) = Packetised(left - n) + HdrSize + n
         /\ Packetised(left - n) \in Nat
<1> DEFINE k == (left + MaxData - 1) \div MaxData
           j == (left - n + MaxData - 1) \div MaxData
<1>0. MaxData \in Nat \ {0} /\ HdrSize \in Nat /\ n \in 1 .. left
      /\ n \in Nat /\ left - n \in Nat
  BY ExportAssumption DEF Smaller
<1>1. k \in Nat /\ j \in Nat /\ k = j + 1
  <2> DEFINE a == left - n + MaxData - 1
             b == left - 1
  <2>1. a \in Nat /\ b \in Nat /\ left + MaxData - 1 = b + MaxData
        /\ (left > MaxData => a = b) /\ (left <= MaxData => a < MaxData /\ b < MaxData)
    BY <1>0 DEF Smaller
  <2>2. j = a \div MaxData /\ k = (b + MaxData) \div MaxData
    BY <2>1
  <2> HIDE DEF a, b, j, k
  <2>3. a \div MaxData \in Nat /\ (a < MaxData => a \div MaxData = 0)
    BY <1>0, <2>1, Quotient
  <2>4. /\ b \div MaxData \in Nat /\ (b < MaxData => b \div MaxData = 0)
        /\ (b + MaxData) \div MaxData = (b \div MaxData) + 1
    BY <1>0, <2>1, Quotient
  <2>5. a \div MaxData = b \div MaxData
    <3>1. CASE left > MaxData
      BY <2>1, <3>1
    <3>2. CASE left <= MaxData
      BY <2>1, <2>3, <2>4, <3>2
    <3> QED
      BY <1>0, <3>1, <3>2
  <2> QED
    BY <2>2, <2>3, <2>4, <2>5
<1>2. Packetised(left) = left + k * HdrSize /\ Packetised(left - n) = left - n + j * HdrSize
  BY DEF Packetised
<1> HIDE DEF k, j
<1>3. j * HdrSize \in Nat /\ (j + 1) * HdrSize = j * HdrSize + HdrSize
  BY <1>0, <1>1
<1> QED
  BY <1>0, <1>1, <1>2, <1>3

\* A serio packet for which there is room goes into the buffer whole.
LEMMA GoesInWhole ==
  ASSUME TypeOK, FifoUntilWrap, NEW n \in 1 .. MaxData, NEW c,
         ForwardPacket(n, c), ~wrapped', HdrSize + n <= circ_space(q)
  PROVE  written' = written + HdrSize + n
<1>0. /\ q \in Buffers /\ written \in Nat /\ sent \in Nat /\ n \in Nat
      /\ HdrSize \in Nat /\ circ_length(q) \in 0 .. CircSize /\ CircSize \in Nat
  BY LengthInRange, CircAssumption, ExportAssumption DEF TypeOK
<1>1. ~wrapped /\ ~Wraps(q, HdrSize)
      /\ written' = written + HeaderTaken + Accepted(WithHeader, n)
  BY DEF ForwardPacket
<1>2. circ_length(q) = written - sent
  BY <1>1 DEF FifoUntilWrap
<1>3. HeaderTaken = HdrSize
  BY <1>0 DEF HeaderTaken, Accepted, Smaller, circ_space
<1>4. written + 1 = (sent + 1) + circ_length(q) /\ sent + 1 \in Nat
  BY <1>0, <1>2
<1>5. circ_length(WithHeader) = circ_length(q) + HdrSize
  BY <1>0, <1>1, <1>3, <1>4, CommitAppends DEF WithHeader, HeaderTaken
<1>6. Accepted(WithHeader, n) = n
  BY <1>0, <1>5 DEF Accepted, Smaller, circ_space
<1> QED
  BY <1>0, <1>1, <1>3, <1>6

\* No connection is open at first.
LEMMA InitSingle == TcpInit => Single /\ ReservationHolds
BY DEF TcpInit, Closed, Single, Open, ReservationHolds

\* With one connection a new one is made only when there is none.
LEMMA NextSingle ==
  ASSUME MaxConns = 1, TcpInv, Single, [TcpNext]_TcpVars
  PROVE  Single'
<1>0. Types
  BY DEF TcpInv
<1>1. CASE UNCHANGED rcvr
  BY <1>1 DEF Single, Open
<1>2. ASSUME NEW c \in Clients, Unseen(c) PROVE Single'
  <2>1. PICK r \in Receiver : rcvr' = [rcvr EXCEPT ![c] = r]
                              /\ (~Open(c) => r.state = "closed" \/ MayOpen)
    BY <1>2 DEF Unseen
  <2>2. rcvr'[c] = r /\ \A d \in Clients \ {c} : rcvr'[d] = rcvr[d]
    BY <1>0, <2>1 DEF Types
  <2>3. CASE MayOpen
    <3> DEFINE open == {d \in Clients : Open(d)}
    <3>1. ASSUME NEW d \in Clients, Open(d) PROVE FALSE
      <4>1. open = {d}
        BY <3>1 DEF Single
      <4>2. Cardinality(open) < 1
        BY <2>3 DEF MayOpen
      <4>3. Cardinality({d}) = 1
        BY FS_Singleton, Zenon
      <4> HIDE DEF open
      <4> QED
        BY <4>1, <4>2, <4>3
    <3> QED
      BY <2>2, <3>1 DEF Single, Open
  <2>4. CASE ~MayOpen
    BY <2>1, <2>2, <2>4 DEF Single, Open
  <2> QED
    BY <2>3, <2>4
<1>3. ASSUME NEW c \in Clients, Passed(c) PROVE Single'
  <2>1. PICK r \in Receiver : rcvr' = [rcvr EXCEPT ![c] = r] /\ Open(c)
    BY <1>3 DEF Passed
  <2>2. \A d \in Clients \ {c} : rcvr'[d] = rcvr[d]
    BY <1>0, <2>1 DEF Types
  <2> QED
    BY <2>1, <2>2 DEF Single, Open
<1>4. CASE ExporterReturns
  <2>1. \A c \in Clients : rcvr'[c].state = rcvr[c].state
    BY <1>0, <1>4, ReturnsTo
  <2> QED
    BY <2>1 DEF Single, Open
<1> QED
  BY <1>0, <1>1, <1>2, <1>3, <1>4, StepKinds DEF ExporterAlone, TcpVars

\* What a step does to a packet that is being forwarded, and to the space.
Whole ==
  ~wrapped' => \A c \in Clients :
    LET r == rcvr[c]  new == rcvr'[c]
    IN new.state = "mid" /\ new.transmitting /\ Len(new.inbuf) < Len(r.inbuf)
         => written' - written = HdrSize + Len(r.inbuf) - Len(new.inbuf)

\* What was sent since is space now.
LEMMA MoreSent ==
  ASSUME NEW size \in Nat, NEW w \in Nat, NEW o \in Nat, NEW n \in Nat, n >= o
  PROVE  size - (w - n) >= size - (w - o)
OBVIOUS

\* A step that accepts nothing leaves the space.
LEMMA SpaceStays ==
  ASSUME Types, Types', FifoUntilWrap, FifoUntilWrap', ~wrapped', ~wrapped,
         written' = written, sent' >= sent
  PROVE  circ_space(q)' >= circ_space(q)
<1>1. /\ written \in Nat /\ sent \in Nat /\ written' \in Nat /\ sent' \in Nat
      /\ CircSize \in Nat
  BY CircAssumption DEF Types, TypeOK
<1>2. circ_length(q) = written - sent /\ circ_length(q)' = written' - sent'
  BY DEF FifoUntilWrap
<1>3. circ_space(q) = CircSize - (written - sent)
  BY <1>2 DEF circ_space
<1>4. circ_space(q)' = CircSize - (written' - sent')
  <2>1. circ_space(q)' = CircSize - circ_length(q)'
    BY Zenon DEF circ_space
  <2> QED
    BY <1>2, <2>1
<1>5. CircSize - (written - sent') >= CircSize - (written - sent)
  BY <1>1, MoreSent
<1> QED
  BY <1>3, <1>4, <1>5

\* The decision made at a packet's header holds to its end: each piece uses up
\* what it was counted for, and no other receiver has a packet.
LEMMA NextReserved ==
  ASSUME TcpInv, Single, FifoUntilWrap, FifoUntilWrap', ReservationHolds,
         [TcpNext]_TcpVars
  PROVE  ReservationHolds' /\ Whole
<1>0. Types /\ Types' /\ TypeOK /\ [Next]_vars
  BY NextTcpInv DEF TcpInv, Types
<1>1. /\ written \in Nat /\ sent \in Nat /\ written' \in Nat /\ sent' \in Nat
      /\ CircSize \in Nat /\ HdrSize \in Nat /\ sent' >= sent /\ (wrapped => wrapped')
      /\ q \in Buffers /\ circ_length(q) \in 0 .. CircSize
      /\ q' \in Buffers /\ circ_length(q') \in 0 .. CircSize
  BY <1>0, Grows, LengthInRange, CircAssumption, ExportAssumption DEF Types, TypeOK
<1>2. \A c \in Clients : /\ rcvr[c].left \in Nat /\ rcvr'[c].left \in Nat
                         /\ Len(rcvr[c].inbuf) \in Nat /\ Len(rcvr'[c].inbuf) \in Nat
  BY <1>0 DEF Types, Receiver
<1> SUFFICES ASSUME ~wrapped', NEW c \in Clients,
                    rcvr'[c].state = "mid", rcvr'[c].transmitting
             PROVE  /\ Packetised(rcvr'[c].left) <= circ_space(q)'
                    /\ Len(rcvr'[c].inbuf) < Len(rcvr[c].inbuf) =>
                         written' - written
                           = HdrSize + Len(rcvr[c].inbuf) - Len(rcvr'[c].inbuf)
  BY DEF ReservationHolds, Whole, circ_space, circ_length
<1>3. ~wrapped
  BY <1>1
<1>4. \A left \in Nat : Packetised(left) \in Int
  BY <1>1, ExportAssumption DEF Packetised
\* Nothing happens to this packet.
<1>5. ASSUME rcvr[c].state = "mid", rcvr[c].transmitting, rcvr'[c].left = rcvr[c].left,
             Len(rcvr'[c].inbuf) >= Len(rcvr[c].inbuf), written' = written
      PROVE  /\ Packetised(rcvr'[c].left) <= circ_space(q)'
             /\ ~(Len(rcvr'[c].inbuf) < Len(rcvr[c].inbuf))
  <2>1. Packetised(rcvr[c].left) <= circ_space(q)
    BY <1>3, <1>5 DEF ReservationHolds
  <2>2. circ_space(q)' >= circ_space(q)
    BY <1>0, <1>1, <1>3, <1>5, SpaceStays
  <2>3. circ_space(q) \in Int /\ circ_space(q)' \in Int
    BY <1>1 DEF circ_space, circ_length
  <2>4. Packetised(rcvr[c].left) \in Int
    BY <1>2, <1>4
  <2> QED
    BY <1>2, <1>5, <2>1, <2>2, <2>3, <2>4
<1>6. ASSUME UNCHANGED <<rcvr, written>>
      PROVE  /\ Packetised(rcvr'[c].left) <= circ_space(q)'
             /\ ~(Len(rcvr'[c].inbuf) < Len(rcvr[c].inbuf))
  BY <1>2, <1>5, <1>6
<1>7. ASSUME NEW d \in Clients, Unseen(d)
      PROVE  /\ Packetised(rcvr'[c].left) <= circ_space(q)'
             /\ ~(Len(rcvr'[c].inbuf) < Len(rcvr[c].inbuf))
  <2>1. PICK r \in Receiver :
          /\ rcvr' = [rcvr EXCEPT ![d] = r]
          /\ r.transmitting => rcvr[d].transmitting
          /\ Stays(r, rcvr[d])
    BY <1>7 DEF Unseen
  <2>2. rcvr'[d] = r /\ \A e \in Clients \ {d} : rcvr'[e] = rcvr[e]
    BY <1>0, <2>1 DEF Types
  <2>3. written' = written
    BY <1>7 DEF Unseen, vars, queueVars
  <2>4. CASE c = d
    BY <1>5, <2>1, <2>2, <2>3, <2>4 DEF Stays
  <2>5. CASE c # d
    BY <1>2, <1>5, <2>2, <2>3, <2>5
  <2> QED
    BY <2>4, <2>5
<1>8. ASSUME NEW d \in Clients, Passed(d)
      PROVE  /\ Packetised(rcvr'[c].left) <= circ_space(q)'
             /\ written' - written = HdrSize + Len(rcvr[c].inbuf) - Len(rcvr'[c].inbuf)
  <2>1. PICK r \in Receiver :
          /\ rcvr' = [rcvr EXCEPT ![d] = r] /\ Open(d)
          /\ \/ \E n \in 1 .. MaxData :
                  /\ ForwardPacket(n, IF r.left = 0 THEN d ELSE NoClient)
                  /\ TookPiece(r, rcvr[d], n)
             \/ ~r.transmitting
    BY <1>8 DEF Passed
  <2>2. rcvr'[d] = r /\ \A e \in Clients \ {d} : rcvr'[e] = rcvr[e]
    BY <1>0, <2>1 DEF Types
  <2>3. c = d
    BY <2>1, <2>2 DEF Single, Open
  <2>4. PICK n \in 1 .. MaxData :
          /\ ForwardPacket(n, IF r.left = 0 THEN d ELSE NoClient)
          /\ TookPiece(r, rcvr[d], n)
    BY <2>1, <2>2, <2>3
  <2>5. /\ n \in Nat \ {0} /\ r.left \in Nat
        /\ n = Smaller(r.left + n, MaxData) /\ Len(r.inbuf) = Len(rcvr[d].inbuf) - n
        /\ Fits(rcvr[d], r.left + n)
    BY <2>4, ExportAssumption DEF TookPiece, Receiver
  <2>6. Packetised(r.left + n) <= circ_space(q)
    BY <1>3, <2>3, <2>5 DEF Fits, ReservationHolds
  <2>7. /\ Packetised(r.left + n) = Packetised(r.left) + HdrSize + n
        /\ Packetised(r.left) \in Nat
    <3> DEFINE left == r.left + n
    <3>1. left \in Nat \ {0} /\ left - n = r.left
      BY <2>5
    <3> HIDE DEF left
    <3>2. /\ Packetised(left) = Packetised(left - n) + HdrSize + n
          /\ Packetised(left - n) \in Nat
      BY <2>5, <3>1, OneMoreSerio DEF left
    <3> QED
      BY <3>1, <3>2 DEF left
  <2>8. circ_space(q) \in Int /\ circ_space(q) = CircSize - (written - sent)
        /\ circ_space(q)' = CircSize - (written' - sent')
    BY <1>1, <1>3 DEF circ_space, FifoUntilWrap
  <2>9. HdrSize + n <= circ_space(q)
    <3> DEFINE space == circ_space(q)
               whole == Packetised(r.left + n)
               rest == Packetised(r.left)
    <3>1. /\ space \in Int /\ rest \in Nat /\ whole <= space
          /\ whole = rest + HdrSize + n
      BY <2>6, <2>7, <2>8
    <3>2. HdrSize \in Nat /\ n \in Nat
      BY ExportAssumption
    <3> HIDE DEF space, whole, rest
    <3>3. HdrSize + n <= space
      BY <3>1, <3>2
    <3> QED
      BY <3>3 DEF space
  <2>10. written' = written + HdrSize + n /\ sent' = sent
    <3>1. written' = written + HdrSize + n
      BY <1>0, <2>4, <2>9, GoesInWhole
    <3> QED
      BY <2>4, <3>1 DEF ForwardPacket
  <2>11. Len(rcvr[c].inbuf) \in Nat /\ Len(rcvr'[c].inbuf) = Len(rcvr[c].inbuf) - n
    BY <1>2, <2>2, <2>3, <2>5
  <2>12. Packetised(rcvr'[c].left) <= circ_space(q)'
    <3>1. rcvr'[c].left = r.left
      BY <2>2, <2>3
    <3>2. /\ CircSize \in Int /\ written \in Int /\ sent \in Int
          /\ HdrSize \in Int /\ n \in Int
      BY <1>1, <2>5
    <3> DEFINE space == circ_space(q)
               rest == Packetised(r.left)
    <3>3. rest \in Nat /\ space \in Int /\ rest + HdrSize + n <= space
      BY <2>6, <2>7, <2>8
    <3>4. space = CircSize - (written - sent)
      BY <2>8
    <3> HIDE DEF space, rest
    <3>5. rest <= CircSize - ((written + HdrSize + n) - sent)
      BY <3>2, <3>3, <3>4
    <3> QED
      BY <2>8, <2>10, <3>1, <3>5 DEF rest
  <2> QED
    BY <1>1, <2>5, <2>10, <2>11, <2>12
<1>9. ASSUME ExporterReturns
      PROVE  /\ Packetised(rcvr'[c].left) <= circ_space(q)'
             /\ ~(Len(rcvr'[c].inbuf) < Len(rcvr[c].inbuf))
  <2>1. /\ rcvr'[c].state = rcvr[c].state /\ rcvr'[c].left = rcvr[c].left
        /\ rcvr'[c].transmitting = rcvr[c].transmitting
    BY <1>0, <1>9, ReturnsTo
  <2>2. Len(rcvr'[c].inbuf) >= Len(rcvr[c].inbuf)
    <3>1. rcvr[c] \in Receiver
      BY <1>0 DEF Types
    <3>2. rcvr'[c].inbuf = rcvr[c].inbuf
      BY <1>9, <3>1 DEF ExporterReturns, Receiver
    <3> QED
      BY <1>2, <3>2
  <2>3. written' = written
    BY <1>9 DEF ExporterReturns, PqReturn, queueVars
  <2> QED
    BY <1>5, <2>1, <2>2, <2>3
<1>10. ASSUME ExporterAlone PROVE UNCHANGED <<rcvr, written>>
  BY <1>10 DEF ExporterAlone, PqTransmit, Ack, AppInputAck, Drain, Connect, Drop,
               queueVars
<1>11. CASE UNCHANGED TcpVars
  BY <1>6, <1>11 DEF TcpVars, vars, queueVars
<1>12. CASE TcpNext
  <2>1. \/ \E d \in Clients : Unseen(d) \/ Passed(d)
        \/ ExporterReturns
        \/ ExporterAlone
    BY <1>0, <1>12, StepKinds
  <2> QED
    BY <1>6, <1>7, <1>8, <1>9, <1>10, <2>1
<1> QED
  BY <1>11, <1>12

-----------------------------------------------------------------------------
(* The theorems.                                                           *)

\* In every reachable state the types are right, and only a receiver whose
\* packet is complete is known to the exporter or has its timer set.
THEOREM TcpInvariant == TcpSpec => []TcpInv
<1>1. TcpInv /\ [TcpNext]_TcpVars => TcpInv'
  BY NextTcpInv
<1> QED
  BY <1>1, InitTcpInv, PTL DEF TcpSpec

\* Every receiver has the shape of its class, and none accepts a packet longer
\* than MAX_SPKT_LENGTH + 1000.
THEOREM TcpTypeCorrect == TcpSpec => []TcpTypeOK
<1>1. TcpInv => TcpTypeOK
  <2> SUFFICES ASSUME TcpInv PROVE TcpTypeOK
    OBVIOUS
  <2>1. active \in Clients \cup {NoClient} /\ toSend \in 0 .. MaxPackets
    BY DEF TcpInv, Types, Callers
  <2>2. written \in Nat
    BY DEF TcpInv, Types, TypeOK
  <2>3. ASSUME NEW c \in Clients
        PROVE  /\ rcvr[c].state \in {"closed", "lost", "idle", "mid"}
               /\ rcvr[c].left \in Nat
               /\ rcvr[c].state = "mid" => rcvr[c].left <= MaxPkt
               /\ Buffered(rcvr[c]) <= BufSize
               /\ {rcvr[c].transmitting, rcvr[c].timer, rcvr[c].told} \subseteq BOOLEAN
               /\ rcvr[c].mark \in 0 .. written
    <3> DEFINE r == rcvr[c]
    <3>1. r \in Receiver /\ Sound(r) /\ r.mark <= written
      BY DEF TcpInv, Types
    <3> HIDE DEF r
    <3>2. r.mark \in 0 .. written
      BY <2>2, <3>1 DEF Receiver
    <3>3. /\ r.state \in {"closed", "lost", "idle", "mid"} /\ r.left \in Nat
          /\ {r.transmitting, r.timer, r.told} \subseteq BOOLEAN
      BY <3>1 DEF Receiver
    <3> QED
      BY <3>1, <3>2, <3>3 DEF Sound, r
  <2> QED
    BY <2>1, <2>3 DEF TcpTypeOK
<1> QED
  BY <1>1, TcpInvariant, PTL

\* The receivers call forward_packet() and request_ack() as the exporter's
\* specification says: TcpSpec implements it.
THEOREM ReceiversAreCallers == TcpSpec => ExporterSpec
<1>1. TcpInv /\ [TcpNext]_TcpVars => [Next]_vars
  BY NextTcpInv
<1>2. TcpInit => Init
  BY DEF TcpInit
<1> QED
  BY <1>1, <1>2, TcpInvariant, PTL DEF TcpSpec, ExporterSpec, Spec

\* So no assertion of the buffer fires and its window is kept with any number
\* of connections from the instrument, whatever they send.
THEOREM BufferSafeWithReceivers == TcpSpec => [](BufferSafe /\ OutstandingBounded)
BY ReceiversAreCallers, BufferAlwaysSafe, WindowRespected, PTL DEF ExporterSpec

\* process_queue() acks a receiver only when all of its packet was handed to
\* the socket, until a commit wraps.
THEOREM AckedAfterDelivery == TcpSpec => []AckAfterDelivery
<1>1. TcpInit => AckAfterDelivery
  BY DEF TcpInit, Closed, AckAfterDelivery
<1>2. TcpInv /\ AckAfterDelivery /\ FifoUntilWrap /\ [TcpNext]_TcpVars
        => AckAfterDelivery'
  BY NextAck
<1>3. TcpSpec => []FifoUntilWrap
  BY ReceiversAreCallers, Fifo, PTL DEF ExporterSpec
<1> QED
  BY <1>1, <1>2, <1>3, TcpInvariant, PTL DEF TcpSpec

\* A receiver that forwarded its packet and waits is owed an ACK, for bytes on
\* their way over a connection that is up, until one loses bytes.
THEOREM WaiterOwed == TcpSpec => []WaiterIsOwed
<1>1. TcpInv /\ Owed /\ OutstandingAccounts /\ [TcpNext]_TcpVars => Owed'
  BY NextOwed
<1>2. TcpSpec => []OutstandingAccounts
  BY ReceiversAreCallers, Accounts, PTL DEF ExporterSpec
<1>3. TypeOK /\ OutstandingAccounts /\ OnTheWay /\ Owed => WaiterIsOwed
  <2> SUFFICES ASSUME TypeOK, OutstandingAccounts, OnTheWay, Owed, NEW c \in Clients,
                      trusted, lost = 0, Quiet, client = c, rcvr[c].transmitting
               PROVE  conn = "up" /\ obuf + inflight > 0
    BY DEF WaiterIsOwed
  <2>1. obuf \in Nat /\ inflight \in Nat /\ conn \in {"up", "down"}
    BY ExportAssumption, SMTT(30) DEF TypeOK, MaxChunk
  <2>2. outstanding > 0 /\ outstanding = obuf + inflight + lost
    BY DEF Owed, OutstandingAccounts, Quiet
  <2> QED
    BY <2>1, <2>2 DEF OnTheWay
<1>4. TcpSpec => []OnTheWay
  BY OnTheWayHolds, ReceiversAreCallers, PTL DEF ExporterSpec
<1>5. TcpInv => TypeOK
  BY DEF TcpInv, Types
<1> QED
  BY <1>1, <1>2, <1>3, <1>4, <1>5, InitOwed, TcpInvariant, PTL DEF TcpSpec

\* With one connection at a time a packet that was accepted fits to its end,
\* whatever its length and the buffer's, however ACKs and reads come.
THEOREM ReservationKept ==
  ASSUME MaxConns = 1
  PROVE  TcpSpec => [](Single /\ ReservationHolds)
<1>1. TcpInv /\ Single /\ [TcpNext]_TcpVars => Single'
  BY NextSingle
<1>2. /\ TcpInv /\ Single /\ FifoUntilWrap /\ FifoUntilWrap' /\ ReservationHolds
      /\ [TcpNext]_TcpVars
      => ReservationHolds'
  BY NextReserved
<1>3. TcpSpec => []FifoUntilWrap
  BY ReceiversAreCallers, Fifo, PTL DEF ExporterSpec
<1> QED
  BY <1>1, <1>2, <1>3, InitSingle, TcpInvariant, PTL DEF TcpSpec

\* So each of its pieces goes into the buffer whole, with its header.
THEOREM PiecesAreWhole ==
  ASSUME MaxConns = 1
  PROVE  TcpSpec => PacketsComeInComplete
<1>1. /\ TcpInv /\ Single /\ FifoUntilWrap /\ FifoUntilWrap' /\ ReservationHolds
      /\ [TcpNext]_TcpVars
      => [Whole]_TcpVars
  BY NextReserved
<1>2. TcpSpec => []FifoUntilWrap
  BY ReceiversAreCallers, Fifo, PTL DEF ExporterSpec
<1>3. TcpSpec => [][Whole]_TcpVars
  BY <1>1, <1>2, ReservationKept, TcpInvariant, PTL DEF TcpSpec
<1> QED
  BY <1>3 DEF PacketsComeInComplete, Whole
=============================================================================
