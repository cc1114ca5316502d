-------------------------- MODULE NephexLinkProofs --------------------------
(***************************************************************************)
(* Theorems of module NephexLink, for every stream of packets, every       *)
(* decimation, window and buffer, and any number of connections.           *)
(***************************************************************************)
EXTENDS NephexLink, SequenceTheorems, WellFoundedInduction, TLAPS

-----------------------------------------------------------------------------
(* Streams of whole packets.                                               *)

\* The packet that starts at token i of T, and no more, lies in T, and what
\* comes behind it starts.
WholeAt(T, i) ==
  /\ i + 2 <= Len(T)
  /\ T[i].kind = "aa" /\ T[i + 1].kind = "aa" /\ T[i + 2].kind = "header"
  /\ i + 3 + T[i + 2].len <= Len(T)
  /\ i + 4 + T[i + 2].len <= Len(T) => T[i + 4 + T[i + 2].len].starts

Whole(T) ==
  /\ T # <<>> => T[1].starts
  /\ \A i \in 1 .. Len(T) : T[i].starts => WholeAt(T, i)

\* What the kind of a token says of its other parts.
LEMMA HeaderType ==
  ASSUME NEW t \in Tokens
  PROVE  /\ t.kind \in {"aa", "x", "header"} /\ t.starts \in BOOLEAN
         /\ t.kind = "header" => t.apid \in Nat /\ t.len \in 0 .. MaxLen
BY DEF Tokens

\* Every packet the instrument or the emulator's file holds is a sequence of
\* tokens, its header third.
LEMMA PacketType ==
  ASSUME NEW a \in Nat, NEW l \in 0 .. MaxLen, NEW f \in {"aa", "x"}
  PROVE  /\ Packet(a, l, f) \in Seq(Tokens)
         /\ Len(Packet(a, l, f)) = l + 4
         /\ Packet(a, l, f)[1].kind = "aa" /\ Packet(a, l, f)[1].starts
         /\ Packet(a, l, f)[2].kind = "aa"
         /\ Packet(a, l, f)[3] = Header(a, l)
         /\ \A i \in 2 .. l + 4 : ~ Packet(a, l, f)[i].starts
<1> DEFINE first == [Byte("aa") EXCEPT !.starts = TRUE]
           head == <<first, Byte("aa"), Header(a, l)>>
           rest == [i \in 1 .. l + 1 |-> Byte(IF i <= 2 THEN f ELSE "x")]
<1>1. /\ first \in Tokens /\ first.kind = "aa" /\ first.starts
      /\ Byte("aa") \in Tokens /\ Byte("aa").kind = "aa" /\ ~ Byte("aa").starts
  BY DEF Byte, Tokens
<1>2. Header(a, l) \in Tokens /\ ~ Header(a, l).starts
  BY DEF Header, Tokens
<1>3. \A k \in {"aa", "x"} : Byte(k) \in Tokens /\ ~ Byte(k).starts
  BY DEF Byte, Tokens
<1> HIDE DEF first
<1>4. /\ head \in Seq(Tokens) /\ Len(head) = 3
      /\ head[1] = first /\ head[2] = Byte("aa") /\ head[3] = Header(a, l)
  BY <1>1, <1>2
<1>5. l \in Nat
  BY NephexAssumption
<1>6. /\ rest \in Seq(Tokens) /\ Len(rest) = l + 1
      /\ \A i \in 1 .. l + 1 : ~ rest[i].starts
  BY <1>3, <1>5
<1>7. Packet(a, l, f) = head \o rest
  BY DEF Packet, first
<1> HIDE DEF head, rest
<1>8. /\ head \o rest \in Seq(Tokens) /\ Len(head \o rest) = l + 4
      /\ \A i \in 1 .. 3 : (head \o rest)[i] = head[i]
      /\ \A i \in 4 .. l + 4 : (head \o rest)[i] = rest[i - 3]
  <2>1. /\ head \o rest \in Seq(Tokens)
        /\ Len(head \o rest) = Len(head) + Len(rest)
        /\ \A i \in 1 .. Len(head) + Len(rest) : (head \o rest)[i] =
             IF i <= Len(head) THEN head[i] ELSE rest[i - Len(head)]
    BY <1>4, <1>6, ConcatProperties
  <2>2. Len(head) + Len(rest) = l + 4 /\ l + 4 \in Nat
    BY <1>4, <1>5, <1>6
  <2>3. /\ \A i \in 1 .. 3 : i \in 1 .. l + 4 /\ i <= 3
        /\ \A i \in 4 .. l + 4 : i \in 1 .. l + 4 /\ ~ (i <= 3)
    BY <1>5
  <2> QED
    BY <1>4, <2>1, <2>2, <2>3
<1>9. ASSUME NEW i \in 2 .. l + 4 PROVE ~ (head \o rest)[i].starts
  <2>1. CASE i \in {2, 3}
    <3>1. ~ head[2].starts /\ ~ head[3].starts
      BY <1>1, <1>2, <1>4
    <3>2. (head \o rest)[2] = head[2] /\ (head \o rest)[3] = head[3]
      BY <1>8
    <3> QED
      BY <2>1, <3>1, <3>2
  <2>2. CASE i \in 4 .. l + 4
    <3>1. i - 3 \in 1 .. l + 1
      BY <1>5, <2>2
    <3>2. ~ rest[i - 3].starts
      BY <1>6, <3>1
    <3>3. (head \o rest)[i] = rest[i - 3]
      BY <1>8, <2>2
    <3> QED
      BY <3>2, <3>3
  <2>3. i \in {2, 3} \/ i \in 4 .. l + 4
    BY <1>5
  <2> QED
    BY <2>1, <2>2, <2>3
<1> QED
  BY <1>1, <1>4, <1>7, <1>8, <1>9

\* A packet by itself is whole.
LEMMA PacketWhole ==
  ASSUME NEW a \in Nat, NEW l \in 0 .. MaxLen, NEW f \in {"aa", "x"}
  PROVE  Packet(a, l, f) \in Seq(Tokens) /\ Whole(Packet(a, l, f))
<1> DEFINE p == Packet(a, l, f)
<1>1. /\ p \in Seq(Tokens) /\ Len(p) = l + 4
      /\ p[1].kind = "aa" /\ p[1].starts /\ p[2].kind = "aa"
      /\ p[3] = Header(a, l)
      /\ \A i \in 2 .. l + 4 : ~ p[i].starts
  BY PacketType
<1>2. l \in Nat /\ Header(a, l).kind = "header" /\ Header(a, l).len = l
  BY NephexAssumption DEF Header
<1> HIDE DEF p
<1>3. WholeAt(p, 1)
  BY <1>1, <1>2 DEF WholeAt
<1> QED
  BY <1>1, <1>2, <1>3 DEF Whole, p

\* Whole packets may follow whole packets: SendPacket, and the emulator's
\* writes, keep a stream whole.
LEMMA WholeConcat ==
  ASSUME NEW S \in Seq(Tokens), NEW T \in Seq(Tokens), Whole(S), Whole(T)
  PROVE  Whole(S \o T)
<1> DEFINE u == S \o T
<1>1. /\ u \in Seq(Tokens) /\ Len(u) = Len(S) + Len(T)
      /\ Len(S) \in Nat /\ Len(T) \in Nat
      /\ \A i \in 1 .. Len(S) : u[i] = S[i]
      /\ \A i \in 1 .. Len(T) : u[Len(S) + i] = T[i]
  BY ConcatProperties
<1> HIDE DEF u
<1>0. Len(u) = Len(S) + Len(T) /\ Len(S) \in Nat /\ Len(T) \in Nat
  BY <1>1
<1>2. Len(T) > 0 => T[1].starts
  BY DEF Whole
<1>3. ASSUME NEW i \in 1 .. Len(S), S[i].starts PROVE WholeAt(u, i)
  <2>1. WholeAt(S, i)
    BY <1>3 DEF Whole
  <2>2. i + 2 \in 1 .. Len(S) /\ i + 1 \in 1 .. Len(S)
    BY <1>1, <2>1 DEF WholeAt
  <2>3. S[i + 2].len \in Nat
    BY <2>1, <2>2, HeaderType, ElementOfSeq, NephexAssumption DEF WholeAt
  <2> DEFINE n == S[i + 2].len
  <2>4. n \in Nat /\ i + 3 + n <= Len(S)
    BY <2>1, <2>3 DEF WholeAt
  <2>4a. i + 4 + n <= Len(S) => S[i + 4 + n].starts
    BY <2>1 DEF WholeAt
  <2>5. u[i + 2].len = n
    BY <1>1, <2>2
  <2>6. u[i].kind = "aa" /\ u[i + 1].kind = "aa" /\ u[i + 2].kind = "header"
    BY <1>1, <2>1, <2>2 DEF WholeAt
  <2> HIDE DEF n
  <2>7. i + 4 + n <= Len(u) => u[i + 4 + n].starts
    <3>1. CASE i + 4 + n <= Len(S)
      BY <1>1, <2>4, <2>4a, <3>1
    <3>2. CASE i + 4 + n > Len(S)
      <4>1. i + 4 + n = Len(S) + 1
        BY <1>0, <2>4, <3>2
      <4> QED
        BY <1>1, <1>2, <4>1
    <3> QED
      BY <1>0, <2>4, <3>1, <3>2
  <2> QED
    BY <1>1, <2>2, <2>4, <2>5, <2>6, <2>7 DEF WholeAt
<1>4. ASSUME NEW i \in 1 .. Len(T), T[i].starts PROVE WholeAt(u, Len(S) + i)
  <2>1. WholeAt(T, i)
    BY <1>4 DEF Whole
  <2>2. i + 2 \in 1 .. Len(T) /\ i + 1 \in 1 .. Len(T)
    BY <1>1, <2>1 DEF WholeAt
  <2>3. T[i + 2].len \in Nat
    BY <2>1, <2>2, HeaderType, ElementOfSeq, NephexAssumption DEF WholeAt
  <2> DEFINE n == T[i + 2].len
             j == Len(S) + i
  <2>4. n \in Nat /\ i + 3 + n <= Len(T)
    BY <2>1, <2>3 DEF WholeAt
  <2>4a. i + 4 + n <= Len(T) => T[i + 4 + n].starts
    BY <2>1 DEF WholeAt
  <2>5. u[j] = T[i] /\ u[j + 1] = T[i + 1] /\ u[j + 2] = T[i + 2]
    <3>1. j + 1 = Len(S) + (i + 1) /\ j + 2 = Len(S) + (i + 2)
      BY <1>0
    <3> QED
      BY <1>1, <2>2, <3>1
  <2>6. i + 4 + n <= Len(T) => u[j + 4 + n] = T[i + 4 + n]
    <3> DEFINE m == i + 4 + n
    <3>1. j + 4 + n = Len(S) + m
      BY <1>0, <2>4
    <3>2. m <= Len(T) => m \in 1 .. Len(T)
      BY <1>0, <2>4
    <3> HIDE DEF m
    <3>3. m <= Len(T) => u[Len(S) + m] = T[m]
      BY <1>1, <3>2
    <3> QED
      BY <3>1, <3>3, Zenon DEF m
  <2>7. u[j].kind = "aa" /\ u[j + 1].kind = "aa" /\ u[j + 2].kind = "header"
        /\ u[j + 2].len = n
    BY <2>1, <2>5 DEF WholeAt
  <2> HIDE DEF n
  <2>8. j \in Nat /\ j + 2 <= Len(u) /\ j + 3 + n <= Len(u)
        /\ (j + 4 + n <= Len(u) => i + 4 + n <= Len(T))
    BY <1>1, <2>2, <2>4
  <2> QED
    BY <2>4a, <2>6, <2>7, <2>8 DEF WholeAt
<1>5. ASSUME NEW i \in 1 .. Len(u), u[i].starts PROVE WholeAt(u, i)
  <2>1. CASE i <= Len(S)
    BY <1>1, <1>3, <1>5, <2>1
  <2>2. CASE i > Len(S)
    <3>1. i - Len(S) \in 1 .. Len(T) /\ i = Len(S) + (i - Len(S))
      BY <1>1, <2>2
    <3> QED
      BY <1>1, <1>4, <1>5, <3>1
  <2> QED
    BY <2>1, <2>2, <1>1
<1>6. u # <<>> => u[1].starts
  <2>1. CASE Len(S) > 0
    BY <1>1, <2>1 DEF Whole
  <2>2. CASE Len(S) = 0
    BY <1>1, <1>2, <2>2
  <2> QED
    BY <1>1, <2>1, <2>2
<1> QED
  BY <1>5, <1>6 DEF Whole, u

\* What is left behind a packet is whole.
LEMMA WholeRest ==
  ASSUME NEW T \in Seq(Tokens), Whole(T), NEW k \in 1 .. Len(T) + 1,
         k <= Len(T) => T[k].starts
  PROVE  Whole(SubSeq(T, k, Len(T)))
<1> DEFINE u == SubSeq(T, k, Len(T))
<1>1. /\ u \in Seq(Tokens) /\ Len(u) = Len(T) - k + 1 /\ Len(T) \in Nat
      /\ \A i \in 1 .. Len(u) : u[i] = T[k + i - 1]
  <2>1. \A i \in k .. Len(T) : T[i] \in Tokens
    BY ElementOfSeq
  <2> QED
    BY <2>1, SubSeqProperties
<1> HIDE DEF u
<1>2. ASSUME NEW i \in 1 .. Len(u), u[i].starts PROVE WholeAt(u, i)
  <2> DEFINE j == k + i - 1
  <2>1. j \in 1 .. Len(T) /\ j = k + i - 1
    BY <1>1
  <2> HIDE DEF j
  <2>2. WholeAt(T, j)
    BY <1>1, <1>2, <2>1 DEF Whole
  <2>3. j + 2 \in 1 .. Len(T)
    BY <1>1, <2>1, <2>2 DEF WholeAt
  <2>4. T[j + 2].len \in Nat
    <3>1. T[j + 2] \in Tokens
      BY <2>3, ElementOfSeq
    <3>2. T[j + 2].kind = "header"
      BY <2>2 DEF WholeAt
    <3>3. T[j + 2].len \in 0 .. MaxLen
      BY <3>1, <3>2, HeaderType
    <3> QED
      BY <3>3, NephexAssumption
  <2> DEFINE n == T[j + 2].len
  <2>5. n \in Nat /\ j + 3 + n <= Len(T)
    BY <2>2, <2>4 DEF WholeAt
  <2>5a. j + 4 + n <= Len(T) => T[j + 4 + n].starts
    BY <2>2 DEF WholeAt
  <2>6. u[i] = T[j] /\ u[i + 1] = T[j + 1] /\ u[i + 2] = T[j + 2]
    <3>1. i + 1 \in 1 .. Len(u) /\ i + 2 \in 1 .. Len(u)
      BY <1>1, <2>1, <2>3
    <3>2. k + (i + 1) - 1 = j + 1 /\ k + (i + 2) - 1 = j + 2
      BY <2>1
    <3> QED
      BY <1>1, <2>1, <3>1, <3>2
  <2>7. u[i].kind = "aa" /\ u[i + 1].kind = "aa" /\ u[i + 2].kind = "header"
        /\ u[i + 2].len = n
    BY <2>2, <2>6 DEF WholeAt
  <2> HIDE DEF n
  <2>8. i + 4 + n <= Len(u) => u[i + 4 + n] = T[j + 4 + n]
    <3>1. k + (i + 4 + n) - 1 = j + 4 + n
      BY <2>1, <2>5
    <3> DEFINE p == i + 4 + n
    <3>2. p <= Len(u) => p \in 1 .. Len(u)
      BY <1>1, <2>5
    <3> HIDE DEF p
    <3>3. p <= Len(u) => u[p] = T[k + p - 1]
      BY <1>1, <3>2
    <3> QED
      BY <3>1, <3>3 DEF p
  <2>9. i + 2 <= Len(u) /\ i + 3 + n <= Len(u)
        /\ (i + 4 + n <= Len(u) => j + 4 + n <= Len(T))
    BY <1>1, <2>1, <2>3, <2>5
  <2> QED
    BY <2>5a, <2>7, <2>8, <2>9 DEF WholeAt
<1>3. u # <<>> => u[1].starts
  <2>1. u # <<>> => 1 \in 1 .. Len(u) /\ k \in 1 .. Len(T)
    BY <1>1
  <2>2. k + 1 - 1 = k
    OBVIOUS
  <2> QED
    BY <1>1, <2>1, <2>2
<1> QED
  BY <1>2, <1>3 DEF Whole, u

-----------------------------------------------------------------------------
(* Where the loop of protocol_input() stops to look.                       *)

\* A set of numbers has its least element, which Sync is of Syncs.
LEMMA MinOfSet ==
  ASSUME NEW S, S \subseteq Nat, S # {}
  PROVE  Min(S) \in S /\ \A y \in S : Min(S) <= y
<1>1. PICK x \in S : \A y \in S : ~ (<<y, x>> \in OpToRel(<, Nat))
  BY NatLessThanWellFounded, WFMin
<1>2. \A y \in S : x <= y
  <2>1. \A y \in Nat : y < x => <<y, x>> \in OpToRel(<, Nat)
    BY Zenon DEF OpToRel
  <2>2. \A y \in S : ~ (y < x)
    BY <1>1, <2>1, Zenon
  <2> QED
    BY <2>2
<1> QED
  BY <1>2 DEF Min

\* The place is one of the buffer, or the end of it.
LEMMA SyncPlace ==
  ASSUME buf \in Seq(Tokens)
  PROVE  Sync \in 1 .. Len(buf) + 1 /\ (1 \in Syncs => Sync = 1)
<1>1. Syncs \subseteq 1 .. Len(buf) /\ Len(buf) \in Nat
  BY DEF Syncs
<1>2. CASE Syncs = {}
  BY <1>1, <1>2 DEF Sync
<1>3. CASE Syncs # {}
  <2>1. Syncs \subseteq Nat
    BY <1>1
  <2>2. Min(Syncs) \in Syncs /\ \A y \in Syncs : Min(Syncs) <= y
    BY <1>3, <2>1, MinOfSet
  <2>3. Sync = Min(Syncs)
    BY <1>3 DEF Sync
  <2>4. 1 \in Syncs => Min(Syncs) <= 1
    BY <2>2
  <2>5. Min(Syncs) \in 1 .. Len(buf)
    BY <1>1, <2>2
  <2> QED
    BY <1>1, <2>3, <2>4, <2>5
<1> QED
  BY <1>2, <1>3

\* What the receiver takes for a header has an APID and a length, also when
\* it lost its place.
LEMMA FoundType ==
  ASSUME buf \in Seq(Tokens), HaveHeader
  PROVE  /\ Found.apid \in Nat /\ Found.len \in 0 .. MaxLen
         /\ LastToken \in Nat /\ LastToken > 3
<1>1. Sync + 2 \in 1 .. Len(buf) /\ Sync \in 1 .. Len(buf) + 1
  BY SyncPlace DEF HaveHeader
<1>2. buf[Sync + 2] \in Tokens
  BY <1>1, ElementOfSeq
<1>3. Found.apid \in Nat /\ Found.len \in 0 .. MaxLen
  <2>1. CASE buf[Sync + 2].kind = "header"
    BY <1>2, <2>1, HeaderType DEF Found
  <2>2. CASE buf[Sync + 2].kind # "header"
    <3>1. Found = Header(MaxApid + 1, GarbageLen)
      BY <2>2 DEF Found
    <3> QED
      BY <3>1, NephexAssumption DEF Header
  <2> QED
    BY <2>1, <2>2
<1>4. Found.len \in Nat
  BY <1>3, NephexAssumption
<1> QED
  BY <1>1, <1>3, <1>4 DEF LastToken

\* What is left of the buffer.
LEMMA FromType ==
  ASSUME buf \in Seq(Tokens), NEW i \in Nat, i >= 1
  PROVE  From(i) \in Seq(Tokens) /\ Len(From(i)) <= Len(buf)
<1>1. \A j \in i .. Len(buf) : buf[j] \in Tokens
  BY ElementOfSeq
<1>2. Len(buf) \in Nat
  OBVIOUS
<1> QED
  BY <1>1, <1>2, SubSeqProperties DEF From

\* Before whole packets the receiver does not search, and it takes the packet
\* that is there: a byte 0xAA of a payload never serves it as a sync word.
LEMMA AtPacket ==
  ASSUME buf \in Seq(Tokens), stream \in Seq(Tokens), Whole(buf \o stream),
         buf # <<>>
  PROVE  /\ Sync = 1
         /\ HavePacket /\ LastToken + 1 <= Len(buf \o stream)
              => (buf \o stream)[LastToken + 1].starts
<1> DEFINE T == buf \o stream
<1>1. /\ Len(T) = Len(buf) + Len(stream) /\ Len(buf) \in Nat
      /\ Len(stream) \in Nat /\ Len(buf) > 0
      /\ \A i \in 1 .. Len(buf) : T[i] = buf[i]
  BY ConcatProperties
<1>2. Whole(T)
  OBVIOUS
<1> HIDE DEF T
<1>3. WholeAt(T, 1)
  <2>1. 1 \in 1 .. Len(T) /\ T # <<>>
    BY <1>1
  <2> QED
    BY <1>2, <2>1 DEF Whole
<1>4. 1 \in Syncs
  <2>1. buf[1].kind = "aa"
    BY <1>1, <1>3 DEF WholeAt
  <2>2. 1 < Len(buf) => buf[2].kind = "aa"
    BY <1>1, <1>3 DEF WholeAt
  <2> QED
    BY <1>1, <2>1, <2>2 DEF Syncs
<1>5. Sync = 1
  BY <1>4, SyncPlace
<1>6. ASSUME HavePacket, LastToken + 1 <= Len(T)
      PROVE  T[LastToken + 1].starts
  <2>1. 3 \in 1 .. Len(buf) /\ HaveHeader
    BY <1>1, <1>5, <1>6 DEF HavePacket, HaveHeader
  <2>2. buf[3] = T[3] /\ T[3].kind = "header"
    BY <1>1, <1>3, <2>1 DEF WholeAt
  <2>3. Found = T[3]
    BY <1>5, <2>2 DEF Found
  <2>4. T[3].len \in Nat
    BY <2>1, <2>3, FoundType, NephexAssumption
  <2>5. LastToken + 1 = 1 + 4 + T[1 + 2].len
    BY <1>5, <2>3, <2>4 DEF LastToken
  <2>6. 1 + 4 + T[1 + 2].len <= Len(T) => T[1 + 4 + T[1 + 2].len].starts
    BY <1>3 DEF WholeAt
  <2> QED
    BY <1>6, <2>5, <2>6
<1> QED
  BY <1>5, <1>6 DEF T

-----------------------------------------------------------------------------
(* The parts of the type invariant, and which steps touch them.            *)

StreamType ==
  /\ link \in {"up", "down"} /\ busy \in BOOLEAN /\ clean \in BOOLEAN
  /\ stream \in Seq(Tokens) /\ buf \in Seq(Tokens) /\ Len(buf) <= BufSize
  /\ toSend \in 0 .. MaxPackets

TableType ==
  /\ n_to_skip \in [Known -> Nat] /\ reported \in [Known -> BOOLEAN]
  /\ skipped \in [Known -> Nat]

PeerType ==
  /\ outstanding \in Nat /\ conn \in {"up", "down"}
  /\ obuf \in Nat /\ inflight \in Nat /\ lost \in Nat /\ drops \in 0 .. MaxDrops

\* TypeOK of nephex_export is these three.
LEMMA TypeParts == TypeOK <=> StreamType /\ TableType /\ PeerType
BY DEF TypeOK, StreamType, TableType, PeerType

\* The emulator's state, and the exporter's connection to it.
EmuType ==
  /\ object \in [Clients -> {"none", "queued", "open", "doomed"}]
  /\ client \in Clients \cup {NoClient, WildClient} /\ reading \in BOOLEAN
  /\ waiting \in [Clients -> Seq(Tokens)]
  /\ cur \in Clients \cup {NoClient} /\ hasty \in Nat

\* The steps of the system, in a list.
LEMMA LinkSteps ==
  ASSUME [LinkNext]_linkVars
  PROVE  \/ /\ ConnectInstrument \/ SendPacket \/ Reset
            /\ source = "instrument" /\ UNCHANGED <<source, cur, emuVars, hasty>>
         \/ /\ Receive \/ Return \/ TakePacket
               \/ AppInput \/ Drain \/ Drop \/ ConnectPeer
            /\ UNCHANGED <<source, cur, emuVars, hasty>>
         \/ ConnectEmulator \/ ResetEmulator \/ EmulatorSends
         \/ \E c \in Clients :
               EmulatorAccepts(c) \/ EmulatorDestroys(c) \/ EmulatorDrains(c)
         \/ UNCHANGED linkVars
BY DEF LinkNext, Instrument, Emulator, Exports, Loop

\* The table of decimation changes when a packet is taken, and only then.
LEMMA TableSteps ==
  ASSUME [LinkNext]_linkVars
  PROVE  TakePacket \/ UNCHANGED tableVars
BY LinkSteps, Zenon
   DEF ConnectInstrument, SendPacket, Reset, Receive, Return, AppInput, Drain,
       Drop, ConnectPeer, ConnectEmulator, ResetEmulator, EmulatorSends,
       EmulatorAccepts, EmulatorDestroys, EmulatorDrains, linkRest, linkVars, vars

\* The peer's side changes with what the exporter does.
LEMMA PeerSteps ==
  ASSUME [LinkNext]_linkVars
  PROVE  \/ TakePacket \/ AppInput \/ Drain \/ Drop \/ ConnectPeer
         \/ UNCHANGED <<outstanding, peerVars>>
BY LinkSteps, Zenon
   DEF ConnectInstrument, SendPacket, Reset, Receive, Return,
       ConnectEmulator, ResetEmulator, EmulatorSends,
       EmulatorAccepts, EmulatorDestroys, EmulatorDrains, linkRest, linkVars, vars

\* The stream changes with what its two ends do.
LEMMA StreamSteps ==
  ASSUME [LinkNext]_linkVars
  PROVE  \/ ConnectInstrument \/ SendPacket \/ Reset \/ Receive \/ Return
         \/ TakePacket \/ ConnectEmulator \/ EmulatorSends
         \/ \E c \in Clients : EmulatorDrains(c)
         \/ UNCHANGED <<instVars, buf, busy>>
<1>1. CASE AppInput \/ Drain \/ Drop \/ ConnectPeer
  BY <1>1 DEF AppInput, Drain, Drop, ConnectPeer
<1>2. CASE ResetEmulator
  BY <1>2 DEF ResetEmulator
<1>3. CASE \E c \in Clients : EmulatorAccepts(c) \/ EmulatorDestroys(c)
  BY <1>3 DEF EmulatorAccepts, EmulatorDestroys, linkRest
<1>4. CASE UNCHANGED linkVars
  BY <1>4 DEF linkVars, vars
<1> QED
  BY <1>1, <1>2, <1>3, <1>4, LinkSteps

-----------------------------------------------------------------------------
(* Decimation.                                                             *)

\* OK_to_transmit() counts down, and no further than to 1 without sending:
\* n_to_skip keeps its type because DecimationKept holds before.
LEMMA TableInit == Init => TableType /\ DecimationKept
<1> SUFFICES ASSUME Init PROVE TableType /\ DecimationKept
  OBVIOUS
<1>1. Rate \in [Known -> Nat]
  BY NephexAssumption
<1> QED
  BY <1>1 DEF Init, TableType, DecimationKept, Decimated

\* protocol_input() keeps the table, whatever APID it found.
LEMMA TableStep ==
  ASSUME TableType, DecimationKept, StreamType, [LinkNext]_linkVars
  PROVE  TableType' /\ DecimationKept'
<1>0. Rate \in [Known -> Nat] /\ Size \in [Known -> Nat] /\ MaxApid \in Nat
  BY NephexAssumption
<1>1. CASE UNCHANGED tableVars
  BY <1>1 DEF tableVars, TableType, DecimationKept, Decimated
<1>2. CASE TakePacket
  <2>1. Found.apid \in Nat
    BY <1>2, FoundType DEF TakePacket, HavePacket, StreamType
  <2> DEFINE a == Found.apid
  <2>2. reported' \in [Known -> BOOLEAN]
    <3>1. a <= MaxApid => a \in Known
      BY <1>0, <2>1 DEF Known
    <3>2. reported' = reported \/ reported' = [reported EXCEPT ![a] = TRUE]
      BY <1>2 DEF TakePacket, CheckLength
    <3> QED
      BY <3>2 DEF TableType
  <2>3. CASE ~CTS \/ ~Decimated(a)
    <3>1. n_to_skip' = n_to_skip /\ skipped' = skipped
      BY <1>2, <2>3 DEF TakePacket, Counts, OK_to_transmit
    <3> QED
      BY <2>2, <3>1 DEF TableType, DecimationKept, Decimated
  <2>4. CASE CTS /\ Decimated(a)
    <3>1. a \in Known /\ Rate[a] \in Nat \ {0}
      BY <1>0, <2>1, <2>4 DEF Known, Decimated
    <3>2. n_to_skip[a] \in Nat /\ n_to_skip[a] >= 1 /\ skipped[a] \in Nat
      BY <2>4, <3>1 DEF DecimationKept, TableType
    <3>3. CASE n_to_skip[a] = 1
      <4>1. OK(a)
        BY <2>4, <3>3 DEF OK, LeftToSkip
      <4>2. n_to_skip' = [n_to_skip EXCEPT ![a] = Rate[a]]
            /\ skipped' = [skipped EXCEPT ![a] = 0]
        <5>1. OK_to_transmit(a) /\ Forwards
          BY <1>2, <2>4, <4>1 DEF TakePacket, Counts, Forwards
        <5>2. skipped' = [skipped EXCEPT ![a] = 0]
          BY <1>2, <2>4, <5>1 DEF TakePacket
        <5> QED
          BY <2>4, <4>1, <5>1, <5>2 DEF OK_to_transmit
      <4> QED
        BY <2>2, <3>1, <4>2 DEF TableType, DecimationKept, Decimated
    <3>4. CASE n_to_skip[a] > 1
      <4>1. ~ OK(a)
        BY <3>2, <3>4 DEF OK, LeftToSkip
      <4>2. n_to_skip' = [n_to_skip EXCEPT ![a] = n_to_skip[a] - 1]
            /\ skipped' = [skipped EXCEPT ![a] = skipped[a] + 1]
        <5>1. OK_to_transmit(a) /\ ~Forwards
          BY <1>2, <2>4, <4>1 DEF TakePacket, Counts, Forwards
        <5>2. skipped' = [skipped EXCEPT ![a] = skipped[a] + 1]
          BY <1>2, <2>4, <5>1 DEF TakePacket
        <5> QED
          BY <2>4, <4>1, <5>1, <5>2 DEF OK_to_transmit, LeftToSkip
      <4>3. skipped[a] + n_to_skip[a] = Rate[a]
        BY <2>4, <3>1, <3>4 DEF DecimationKept
      <4>4. n_to_skip[a] - 1 \in Nat /\ n_to_skip[a] - 1 >= 1
            /\ skipped[a] + 1 \in Nat
            /\ (skipped[a] + 1) + (n_to_skip[a] - 1) = Rate[a]
        BY <3>2, <3>4, <4>3
      <4> QED
        BY <2>2, <3>1, <4>2, <4>4 DEF TableType, DecimationKept, Decimated
    <3> QED
      BY <3>2, <3>3, <3>4
  <2> QED
    BY <2>3, <2>4
<1> QED
  BY <1>1, <1>2, TableSteps

-----------------------------------------------------------------------------
(* The window.                                                             *)

\* Nothing is outstanding before the first packet.
LEMMA PeerInit == Init => PeerType /\ WindowKept
<1> SUFFICES ASSUME Init PROVE PeerType /\ WindowKept
  OBVIOUS
<1>1. Window \in Nat \ {0} /\ {HdrSize, Frame, MaxLen, MaxDrops} \subseteq Nat
  BY NephexAssumption
<1> QED
  BY <1>1 DEF Init, PeerType, WindowKept

\* forward_packet() is called only when CTS, so the most that is outstanding is
\* one packet more than the window; app_input() never goes below zero.
LEMMA PeerStep ==
  ASSUME PeerType, WindowKept, StreamType, [LinkNext]_linkVars
  PROVE  PeerType' /\ WindowKept'
<1> DEFINE most == HdrSize + Frame + MaxLen
<1>0. /\ Window \in Nat \ {0} /\ HdrSize \in Nat /\ Frame \in Nat
      /\ MaxLen \in Nat /\ MaxDrops \in Nat /\ most \in Nat
  BY NephexAssumption
<1>1. /\ outstanding \in Nat /\ conn \in {"up", "down"}
      /\ obuf \in Nat /\ inflight \in Nat /\ lost \in Nat
      /\ drops \in 0 .. MaxDrops
      /\ outstanding < Window + most /\ obuf <= most
  BY DEF PeerType, WindowKept
<1>2. CASE UNCHANGED <<outstanding, peerVars>>
  BY <1>2 DEF peerVars, PeerType, WindowKept
<1>3. CASE TakePacket
  <2>1. CASE UNCHANGED <<outstanding, peerVars>>
    BY <1>2, <2>1
  <2>2. CASE CTS /\ Forward(HdrSize + Found.len + Frame)
    <3> DEFINE n == HdrSize + Found.len + Frame
    <3>1. Found.len \in 0 .. MaxLen
      BY <1>3, FoundType DEF TakePacket, HavePacket, StreamType
    <3>2. n \in Nat /\ n <= most
      BY <1>0, <3>1
    <3>3. outstanding < Window /\ obuf = 0
      BY <2>2 DEF CTS
    <3>4. Forward(n)
      BY <2>2
    <3> HIDE DEF n, most
    <3>5. /\ outstanding' = outstanding + n /\ conn' = conn /\ drops' = drops
          /\ \/ \E r \in 0 .. n :
                   obuf' = obuf + r /\ inflight' = inflight + n - r /\ lost' = lost
             \/ lost' = lost + n /\ obuf' = obuf /\ inflight' = inflight
      BY <3>4 DEF Forward
    <3>6. outstanding' \in Nat /\ outstanding' < Window + most
      BY <1>0, <1>1, <3>2, <3>3, <3>5
    <3>7. obuf' \in Nat /\ obuf' <= most /\ inflight' \in Nat /\ lost' \in Nat
      BY <1>0, <1>1, <3>2, <3>3, <3>5
    <3> QED
      BY <1>1, <3>5, <3>6, <3>7 DEF PeerType, WindowKept, most
  <2> QED
    BY <1>3, <2>1, <2>2 DEF TakePacket, Forwards
<1>4. CASE AppInput
  <2>1. PICK n \in 1 .. inflight + 1 :
          /\ Acknowledge(n)
          /\ inflight' = IF n > inflight THEN 0 ELSE inflight - n
    BY <1>4 DEF AppInput
  <2>2. outstanding' \in Nat /\ outstanding' <= outstanding
    BY <1>1, <2>1 DEF Acknowledge
  <2>3. inflight' \in Nat
    BY <1>1, <2>1
  <2>5. obuf' = obuf /\ conn' = conn /\ lost' = lost /\ drops' = drops
    BY <1>4 DEF AppInput
  <2>4. outstanding' < Window + most
    BY <1>0, <1>1, <2>2
  <2> QED
    BY <1>1, <2>2, <2>3, <2>4, <2>5 DEF PeerType, WindowKept
<1>5. CASE Drain \/ Drop \/ ConnectPeer
  <2> HIDE DEF most
  <2>1. outstanding' = outstanding /\ obuf' \in {obuf, 0}
    BY <1>5 DEF Drain, Drop, ConnectPeer
  <2>2. inflight' \in Nat /\ lost' \in Nat /\ conn' \in {"up", "down"}
    BY <1>1, <1>5 DEF Drain, Drop, ConnectPeer
  <2>3. drops' \in 0 .. MaxDrops
    BY <1>0, <1>1, <1>5 DEF Drain, Drop, ConnectPeer
  <2>4. outstanding' < Window + most /\ obuf' <= most /\ obuf' \in Nat
    BY <1>0, <1>1, <2>1
  <2> QED
    BY <1>1, <2>1, <2>2, <2>3, <2>4 DEF PeerType, WindowKept, most
<1> QED
  BY <1>2, <1>3, <1>4, <1>5, PeerSteps

\* The peer has yet to ack what is outstanding, or it went with a connection
\* that broke; a broken connection has nothing on its way.
Accounted ==
  /\ outstanding <= obuf + inflight + lost
  /\ conn = "down" => obuf = 0 /\ inflight = 0

\* Every byte that forward_packet() counts is in the library, on its way or lost,
\* and app_input() counts off no less than what an ACK covers.
LEMMA AccountStep ==
  ASSUME PeerType, Accounted, StreamType, [LinkNext]_linkVars
  PROVE  Accounted'
<1>1. /\ outstanding \in Nat /\ obuf \in Nat /\ inflight \in Nat /\ lost \in Nat
      /\ outstanding <= obuf + inflight + lost
      /\ conn \in {"up", "down"} /\ (conn = "down" => obuf = 0 /\ inflight = 0)
  BY DEF PeerType, Accounted
<1>2. CASE UNCHANGED <<outstanding, peerVars>>
  BY <1>2 DEF peerVars, Accounted
<1>3. CASE TakePacket
  <2>1. CASE UNCHANGED <<outstanding, peerVars>>
    BY <1>2, <2>1
  <2>2. CASE Forward(HdrSize + Found.len + Frame)
    <3> DEFINE n == HdrSize + Found.len + Frame
    <3>1. n \in Nat
      <4>1. Found.len \in 0 .. MaxLen
        BY <1>3, FoundType DEF TakePacket, HavePacket, StreamType
      <4> QED
        BY <4>1, NephexAssumption
    <3>2. Forward(n)
      BY <2>2
    <3> HIDE DEF n
    <3>3. CASE conn = "up"
      <4>1. /\ outstanding' = outstanding + n /\ conn' = "up"
            /\ \E r \in 0 .. n :
                  obuf' = obuf + r /\ inflight' = inflight + n - r /\ lost' = lost
        BY <3>2, <3>3 DEF Forward
      <4> QED
        BY <1>1, <3>1, <4>1 DEF Accounted
    <3>4. CASE conn = "down"
      <4>1. /\ outstanding' = outstanding + n /\ lost' = lost + n
            /\ obuf' = obuf /\ inflight' = inflight
        BY <3>2, <3>4 DEF Forward
      <4> QED
        BY <1>1, <3>1, <3>4, <4>1 DEF Accounted
    <3> QED
      BY <1>1, <3>3, <3>4
  <2> QED
    BY <1>3, <2>1, <2>2 DEF TakePacket, Forwards
<1>4. CASE AppInput
  <2>1. PICK n \in 1 .. inflight + 1 :
          /\ Acknowledge(n)
          /\ inflight' = IF n > inflight THEN 0 ELSE inflight - n
    BY <1>4 DEF AppInput
  <2>2. outstanding' = IF n > outstanding THEN 0 ELSE outstanding - n
    BY <2>1 DEF Acknowledge
  <2>3. obuf' = obuf /\ conn' = "up" /\ lost' = lost
    BY <1>4 DEF AppInput
  <2>4. outstanding' <= obuf + inflight' + lost
    BY <1>1, <2>1, <2>2
  <2> QED
    BY <2>3, <2>4 DEF Accounted
<1>5. CASE Drain \/ Drop \/ ConnectPeer
  <2>1. /\ outstanding' = outstanding
        /\ obuf' + inflight' + lost' = obuf + inflight + lost
    BY <1>1, <1>5 DEF Drain, Drop, ConnectPeer
  <2>2. conn' = "down" => obuf' = 0 /\ inflight' = 0
    BY <1>5 DEF Drain, Drop, ConnectPeer
  <2> QED
    BY <1>1, <2>1, <2>2 DEF Accounted
<1> QED
  BY <1>2, <1>3, <1>4, <1>5, PeerSteps

-----------------------------------------------------------------------------
(* The emulator.                                                           *)

\* The packets of the emulator's file.
LEMMA FileType ==
  ASSUME NEW packet \in File
  PROVE  packet \in Seq(Tokens) /\ Whole(packet)
<1>1. PICK a \in Apids, l \in 0 .. MaxLen, f \in Fillers : packet = Packet(a, l, f)
  BY LinkAssumption
<1>2. a \in Nat /\ f \in {"aa", "x"}
  BY NephexAssumption
<1> QED
  BY <1>1, <1>2, PacketWhole

\* The emulator's steps and the exporter's two that touch its state.
LEMMA EmuSteps ==
  ASSUME [LinkNext]_linkVars
  PROVE  \/ ConnectEmulator \/ ResetEmulator \/ EmulatorSends
         \/ \E c \in Clients :
               EmulatorAccepts(c) \/ EmulatorDestroys(c) \/ EmulatorDrains(c)
         \/ UNCHANGED <<cur, emuVars, hasty>>
BY LinkSteps DEF linkVars

\* NE_ingest waits for the next packet just while it has a client.
Registered == client \in Clients <=> reading

\* A packet goes to an object only while it is open, because connected() makes
\* the object its client with the same step, and destructors end the reading.
EmuInv ==
  /\ EmuType /\ ForwardsToAnObject /\ Registered
  /\ \A c \in Clients : Whole(waiting[c])

\* A connection begins with nothing on its way.
LEMMA EmptyWhole == Whole(<<>>) /\ <<>> \in Seq(Tokens)
BY DEF Whole

\* The emulator starts without a client, its pointer perhaps not set.
LEMMA EmuInit == LinkInit => EmuInv
<1> SUFFICES ASSUME LinkInit PROVE EmuInv
  OBVIOUS
<1> DEFINE none == <<>>
<1>1. Whole(none) /\ none \in Seq(Tokens)
  BY EmptyWhole
<1>2. waiting = [c \in Clients |-> none]
  BY DEF LinkInit, Emu!Init
<1> HIDE DEF none
<1> QED
  BY <1>1, <1>2, LinkAssumption
     DEF LinkInit, Emu!Init, EmuInv, EmuType, ForwardsToAnObject,
                       Registered

\* connected(), ~nephex_tcp() and what NE_ingest forwards keep the emulator's
\* part.
LEMMA EmuStep ==
  ASSUME EmuInv, [LinkNext]_linkVars
  PROVE  EmuInv'
<1> USE LinkAssumption DEF EmuInv, EmuType, ForwardsToAnObject, Registered
<1> DEFINE none == <<>>
<1>0. Whole(none) /\ none \in Seq(Tokens)
  BY EmptyWhole
<1> HIDE DEF none
<1>1. CASE UNCHANGED <<cur, emuVars, hasty>>
  BY <1>1 DEF emuVars
<1>2. CASE ConnectEmulator
  <2> DEFINE c == CHOOSE c \in Clients : object[c] = "none"
  <2>1. c \in Clients /\ cur' = c /\ Emu!Arrives(c) /\ hasty' = hasty
    BY <1>2 DEF ConnectEmulator, linkRest
  <2> HIDE DEF c
  <2> QED
    BY <2>1 DEF Emu!Arrives
<1>3. CASE ResetEmulator
  <2>1. hasty' \in Nat /\ cur' = NoClient /\ UNCHANGED emuVars
    BY <1>3 DEF ResetEmulator
  <2> QED
    BY <2>1 DEF emuVars
<1>4. CASE EmulatorSends
  <2>1. PICK packet \in File : Emu!Ingest(packet)
    BY <1>4 DEF EmulatorSends
  <2>2. packet \in Seq(Tokens) /\ Whole(packet)
    BY FileType
  <2>3. UNCHANGED <<object, client, reading>> /\ cur' = cur /\ hasty' = hasty
    BY <1>4, <2>1 DEF EmulatorSends, Emu!Ingest, linkRest
  <2>4. \/ waiting' = waiting
        \/ client \in Clients /\ waiting' = [waiting EXCEPT ![client] = packet]
    BY <2>1 DEF Emu!Ingest, Emu!Takes
  <2> QED
    BY <2>2, <2>3, <2>4
<1>5. ASSUME NEW c \in Clients, EmulatorAccepts(c) PROVE EmuInv'
  BY <1>5 DEF EmulatorAccepts, Emu!Connected, Emu!Set, linkRest
<1>6. ASSUME NEW c \in Clients, EmulatorDestroys(c) PROVE EmuInv'
  <2>1. /\ object' = [object EXCEPT ![c] = "none"]
        /\ waiting' = [waiting EXCEPT ![c] = none]
        /\ reading' = FALSE /\ client' = NoClient
        /\ cur' = cur /\ hasty' = hasty
    BY <1>6 DEF EmulatorDestroys, Emu!Destroy, Emu!reset_client, linkRest, none
  <2> QED
    BY <1>0, <2>1
<1>7. ASSUME NEW c \in Clients, EmulatorDrains(c) PROVE EmuInv'
  <2>1. /\ waiting' = [waiting EXCEPT ![c] = none]
        /\ UNCHANGED <<object, client, reading>> /\ cur' = cur /\ hasty' = hasty
    BY <1>7 DEF EmulatorDrains, Emu!Drain, linkRest, none
  <2> QED
    BY <1>0, <2>1
<1> QED
  BY <1>1, <1>2, <1>3, <1>4, <1>5, <1>6, <1>7, EmuSteps

-----------------------------------------------------------------------------
(* The stream.                                                             *)

\* What a broken connection leaves: nothing of the stream, on either side.
Linked == link = "down" => buf = <<>> /\ stream = <<>> /\ ~ busy

\* The exporter has a connection to the emulator only when it is connected.
Owned == link = "down" \/ source = "instrument" => cur = NoClient

\* What is on its way and what waits to be looked at are whole packets.
Places == clean => Whole(buf \o stream)

StreamInv == StreamType /\ Linked /\ Owned /\ Places

\* Before the first connection there is no stream.
LEMMA StreamInit == LinkInit => StreamInv
<1> SUFFICES ASSUME LinkInit PROVE StreamInv
  OBVIOUS
<1> DEFINE none == <<>>
<1>1. Whole(none) /\ none \in Seq(Tokens) /\ Len(none) = 0 /\ none \o none = none
  BY EmptyWhole
<1>2. buf = none /\ stream = none /\ link = "down" /\ busy = FALSE
      /\ clean = TRUE /\ toSend = MaxPackets /\ cur = NoClient
  BY DEF LinkInit, Init
<1> HIDE DEF none
<1>3. BufSize \in Nat /\ MaxPackets \in Nat
  BY NephexAssumption
<1>4. StreamType
  <2>1. Len(buf) <= BufSize /\ toSend \in 0 .. MaxPackets
    BY <1>1, <1>2, <1>3
  <2> QED
    BY <1>1, <1>2, <2>1 DEF StreamType
<1>5. Linked
  BY <1>2 DEF Linked, none
<1>6. Places
  BY <1>1, <1>2 DEF Places
<1>7. Owned
  BY <1>2 DEF Owned
<1> QED
  BY <1>4, <1>5, <1>6, <1>7 DEF StreamInv

\* Whoever sets the connection down gives up cur.
LEMMA OwnedStep ==
  ASSUME Owned, [LinkNext]_linkVars
  PROVE  Owned'
<1>1. CASE /\ ConnectInstrument \/ SendPacket \/ Reset
           /\ source = "instrument" /\ UNCHANGED <<source, cur, emuVars, hasty>>
  BY <1>1 DEF Owned
<1>2. CASE /\ Receive \/ Return \/ TakePacket
              \/ AppInput \/ Drain \/ Drop \/ ConnectPeer
           /\ UNCHANGED <<source, cur, emuVars, hasty>>
  <2>1. link' = link
    BY <1>2 DEF Receive, Return, TakePacket, AppInput, Drain, Drop, ConnectPeer,
                instVars
  <2> QED
    BY <1>2, <2>1 DEF Owned
<1>3. CASE ConnectEmulator
  <2>1. source' = source /\ source = "emulator" /\ link' = "up"
    BY <1>3 DEF ConnectEmulator, linkRest
  <2> QED
    BY <2>1 DEF Owned
<1>4. CASE ResetEmulator
  BY <1>4 DEF ResetEmulator, Owned
<1>5. CASE EmulatorSends
  BY <1>5 DEF EmulatorSends, linkRest, Owned
<1>6. ASSUME NEW c \in Clients,
             EmulatorAccepts(c) \/ EmulatorDestroys(c) \/ EmulatorDrains(c)
      PROVE  Owned'
  BY <1>6 DEF EmulatorAccepts, EmulatorDestroys, EmulatorDrains, linkRest,
              instVars, Owned
<1>7. CASE UNCHANGED linkVars
  BY <1>7 DEF linkVars, vars, instVars, Owned
<1> QED
  BY <1>1, <1>2, <1>3, <1>4, <1>5, <1>6, <1>7, LinkSteps

\* read() moves bytes from the connection to the end of the buffer.
LEMMA ReceiveStep ==
  ASSUME StreamInv, Receive, Owned'
  PROVE  StreamInv'
<1>1. PICK k \in 1 .. Len(stream) :
        /\ Len(buf) + k <= BufSize
        /\ buf' = buf \o SubSeq(stream, 1, k)
        /\ stream' = SubSeq(stream, k + 1, Len(stream))
  BY DEF Receive
<1> DEFINE front == SubSeq(stream, 1, k)
           back == SubSeq(stream, k + 1, Len(stream))
<1>2. stream \in Seq(Tokens) /\ buf \in Seq(Tokens) /\ Len(stream) \in Nat
  BY DEF StreamInv, StreamType
<1>3. \A i \in 1 .. Len(stream) : stream[i] \in Tokens
  BY <1>2, ElementOfSeq
<1>4. front \in Seq(Tokens) /\ Len(front) = k
  BY <1>2, <1>3, SubSeqProperties
<1>5. back \in Seq(Tokens)
  BY <1>2, <1>3, SubSeqProperties
<1>6. front \o back = stream
  <2>1. front \o back = SubSeq(stream, 1, Len(stream))
    BY <1>2, ConcatAdjacentSubSeq
  <2> QED
    BY <1>2, <2>1, SubSeqFull
<1> HIDE DEF front, back
<1>7. (buf \o front) \o back = buf \o stream
  <2>1. (buf \o front) \o back = buf \o (front \o back)
    <3>1. \A r, t, u \in Seq(Tokens) : (r \o t) \o u = r \o (t \o u)
      BY ConcatAssociative
    <3> QED
      BY <1>2, <1>4, <1>5, <3>1, Zenon
  <2> QED
    BY <1>6, <2>1
<1>8. buf \o front \in Seq(Tokens) /\ Len(buf \o front) <= BufSize
  BY <1>1, <1>2, <1>4, ConcatProperties
<1>9. /\ buf' = buf \o front /\ stream' = back /\ busy' = TRUE /\ link = "up"
      /\ UNCHANGED <<link, toSend, clean>>
  BY <1>1 DEF Receive, front, back
<1>10. StreamType'
  BY <1>5, <1>8, <1>9 DEF StreamInv, StreamType
<1>11. Linked'
  BY <1>9 DEF Linked
<1>12. Places'
  <2>1. (buf \o stream)' = buf \o stream
    BY <1>7, <1>9
  <2> QED
    BY <1>9, <2>1 DEF StreamInv, Places
<1> QED
  BY <1>10, <1>11, <1>12 DEF StreamInv

\* The loop leaves what may still become a packet, which is all there is when
\* the receiver is at its place.
LEMMA ReturnStep ==
  ASSUME StreamInv, Return, Owned'
  PROVE  StreamInv'
<1>1. buf \in Seq(Tokens) /\ stream \in Seq(Tokens) /\ BufSize \in Nat
  BY NephexAssumption DEF StreamInv, StreamType
<1>2. /\ buf' = From(Sync) /\ busy' = FALSE /\ busy
      /\ UNCHANGED <<stream, link, toSend, clean>>
  BY DEF Return, instVars
<1>3. Sync \in Nat /\ Sync >= 1
  BY <1>1, SyncPlace
<1>4. From(Sync) \in Seq(Tokens) /\ Len(From(Sync)) <= Len(buf)
  BY <1>1, <1>3, FromType
<1>5. StreamType'
  <2>1. Len(buf') <= BufSize
    BY <1>1, <1>2, <1>4 DEF StreamInv, StreamType
  <2> QED
    BY <1>2, <1>4, <2>1 DEF StreamInv, StreamType
<1>6. Linked'
  BY <1>2 DEF StreamInv, Linked
<1>7. Places'
  <2> SUFFICES ASSUME clean PROVE buf' = buf
    BY <1>2 DEF StreamInv, Places
  <2>1. CASE buf = <<>>
    <3>1. From(Sync) \in Seq(Tokens) /\ Len(From(Sync)) = 0
      BY <1>4, <2>1
    <3> QED
      BY <1>2, <2>1, <3>1, EmptySeq
  <2>2. CASE buf # <<>>
    <3>1. Sync = 1
      BY <1>1, <2>2, AtPacket DEF StreamInv, Places
    <3> QED
      BY <1>1, <1>2, <3>1, SubSeqFull DEF From
  <2> QED
    BY <2>1, <2>2
<1> QED
  BY <1>5, <1>6, <1>7 DEF StreamInv

\* At its place the receiver takes exactly one packet.
LEMMA TakePacketStep ==
  ASSUME StreamInv, TakePacket, Owned'
  PROVE  StreamInv'
<1>1. buf \in Seq(Tokens) /\ stream \in Seq(Tokens) /\ BufSize \in Nat
  BY NephexAssumption DEF StreamInv, StreamType
<1>2. /\ buf' = From(LastToken + 1) /\ busy /\ HavePacket
      /\ UNCHANGED <<stream, link, toSend, clean, busy>>
  BY DEF TakePacket, instVars
<1>3. LastToken \in Nat /\ LastToken > 3 /\ LastToken <= Len(buf)
  BY <1>1, <1>2, FoundType DEF HavePacket
<1>4. From(LastToken + 1) \in Seq(Tokens) /\ Len(From(LastToken + 1)) <= Len(buf)
  BY <1>1, <1>3, FromType
<1>5. StreamType'
  <2>1. Len(buf') <= BufSize
    BY <1>1, <1>2, <1>4 DEF StreamInv, StreamType
  <2> QED
    BY <1>2, <1>4, <2>1 DEF StreamInv, StreamType
<1>6. Linked'
  BY <1>2 DEF StreamInv, Linked
<1>7. Places'
  <2> SUFFICES ASSUME clean PROVE Whole((buf \o stream)')
    BY <1>2 DEF Places
  <2> DEFINE T == buf \o stream
             n == LastToken + 1
  <2>1. /\ T \in Seq(Tokens) /\ Len(T) = Len(buf) + Len(stream)
        /\ Len(buf) \in Nat /\ Len(stream) \in Nat
        /\ n \in 1 .. Len(buf) + 1 /\ n \in 1 .. Len(T) + 1
    BY <1>1, <1>3, ConcatProperties
  <2>2. n <= Len(T) => T[n].starts
    <3>1. buf # <<>>
      BY <1>1, <1>3
    <3> QED
      BY <1>1, <1>2, <3>1, AtPacket DEF StreamInv, Places
  <2>3. Whole(T)
    BY DEF StreamInv, Places
  <2>4. Whole(SubSeq(T, n, Len(T)))
    BY <2>1, <2>2, <2>3, WholeRest
  <2>5. T = buf \o stream
    OBVIOUS
  <2> HIDE DEF T, n
  <2>6. From(n) \o stream = SubSeq(T, n, Len(T))
    <3> DEFINE b == From(n)
    <3>1. /\ b \in Seq(Tokens) /\ Len(b) = Len(buf) - n + 1
          /\ \A i \in 1 .. Len(b) : b[i] = buf[n + i - 1]
      <4>1. \A i \in n .. Len(buf) : buf[i] \in Tokens
        BY <1>1, <2>1, ElementOfSeq
      <4> QED
        BY <2>1, <4>1, SubSeqProperties DEF From
    <3> DEFINE u == SubSeq(T, n, Len(T))
    <3>2. /\ u \in Seq(Tokens) /\ Len(u) = Len(T) - n + 1
          /\ \A i \in 1 .. Len(u) : u[i] = T[n + i - 1]
      <4>1. \A i \in n .. Len(T) : T[i] \in Tokens
        BY <2>1, ElementOfSeq
      <4> QED
        BY <2>1, <4>1, SubSeqProperties, Len(T) \in Nat
    <3> HIDE DEF b, u
    <3>3. /\ b \o stream \in Seq(Tokens) /\ Len(b \o stream) = Len(b) + Len(stream)
          /\ \A i \in 1 .. Len(b) + Len(stream) : (b \o stream)[i] =
               IF i <= Len(b) THEN b[i] ELSE stream[i - Len(b)]
      BY <1>1, <3>1, ConcatProperties
    <3>4. \A i \in 1 .. Len(buf) + Len(stream) : T[i] =
               IF i <= Len(buf) THEN buf[i] ELSE stream[i - Len(buf)]
      BY <1>1, <2>5, ConcatProperties
    <3>5. Len(b \o stream) = Len(u)
      BY <2>1, <3>1, <3>2, <3>3
    <3>6. ASSUME NEW i \in 1 .. Len(u) PROVE (b \o stream)[i] = u[i]
      <4>1. /\ n + i - 1 \in 1 .. Len(buf) + Len(stream)
            /\ u[i] = T[n + i - 1]
        BY <2>1, <3>2
      <4>2. CASE i <= Len(b)
        <5>1. (b \o stream)[i] = b[i] /\ b[i] = buf[n + i - 1]
          BY <2>1, <3>1, <3>2, <3>3, <4>2
        <5>2. n + i - 1 <= Len(buf)
          BY <2>1, <3>1, <4>2
        <5> QED
          BY <3>4, <4>1, <5>1, <5>2
      <4>3. CASE i > Len(b)
        <5>1. i \in 1 .. Len(b) + Len(stream) /\ ~ (i <= Len(b))
          BY <2>1, <3>1, <3>2, <4>3
        <5>2. (b \o stream)[i] = stream[i - Len(b)]
          BY <3>3, <5>1
        <5> DEFINE m == n + i - 1
        <5>3. m \in 1 .. Len(buf) + Len(stream) /\ u[i] = T[m]
          BY <4>1
        <5>4. m - Len(buf) = i - Len(b) /\ ~ (m <= Len(buf))
          BY <2>1, <3>1, <4>3
        <5> HIDE DEF m
        <5>5. T[m] = stream[m - Len(buf)]
          BY <3>4, <5>3, <5>4
        <5> QED
          BY <5>2, <5>3, <5>4, <5>5
      <4>4. i <= Len(b) \/ i > Len(b)
        BY <2>1, <3>1, <3>2
      <4> QED
        BY <4>2, <4>3, <4>4
    <3> QED
      BY <3>2, <3>3, <3>5, <3>6, SeqEqual DEF b, u
  <2> QED
    BY <1>2, <2>4, <2>6 DEF n
<1> QED
  BY <1>5, <1>6, <1>7 DEF StreamInv

\* Whole packets that come behind what is there keep the places.
LEMMA AppendStep ==
  ASSUME StreamInv, NEW p \in Seq(Tokens), Whole(p),
         stream' = stream \o p, UNCHANGED <<buf, clean>>
  PROVE  stream' \in Seq(Tokens) /\ Places'
<1>1. stream \in Seq(Tokens) /\ buf \in Seq(Tokens)
  BY DEF StreamInv, StreamType
<1>2. stream \o p \in Seq(Tokens) /\ buf \o stream \in Seq(Tokens)
  BY <1>1
<1>3. ASSUME clean PROVE Whole(buf \o (stream \o p))
  <2>1. Whole((buf \o stream) \o p)
    BY <1>2, <1>3, WholeConcat DEF StreamInv, Places
  <2>2. \A r, t, u \in Seq(Tokens) : (r \o t) \o u = r \o (t \o u)
    BY ConcatAssociative
  <2>3. (buf \o stream) \o p = buf \o (stream \o p)
    BY <1>1, <2>2, Zenon
  <2> QED
    BY <2>1, <2>3
<1> QED
  BY <1>2, <1>3 DEF Places

\* The emulator reaches the exporter only over a connection that is up.
LEMMA EmulatorAppends ==
  ASSUME StreamInv, NEW c \in Clients, NEW p \in Seq(Tokens), Whole(p),
         Sends(c, p), UNCHANGED <<buf, clean, link, busy, cur>>,
         toSend' \in 0 .. MaxPackets, Owned'
  PROVE  StreamInv'
<1>1. CASE c = cur
  <2>1. stream' = stream \o p
    BY <1>1 DEF Sends
  <2>2. stream' \in Seq(Tokens) /\ Places'
    BY <2>1, AppendStep
  <2>3. link # "down"
    BY <1>1, LinkAssumption DEF StreamInv, Owned
  <2> QED
    BY <2>2, <2>3 DEF StreamInv, StreamType, Linked
<1>2. CASE c # cur
  <2>1. stream' = stream
    BY <1>2 DEF Sends
  <2> QED
    BY <2>1 DEF StreamInv, StreamType, Linked, Places
<1> QED
  BY <1>1, <1>2

\* Every step of the instrument, the emulator and the receiver keeps the
\* stream's part.
LEMMA StreamStep ==
  ASSUME StreamInv, EmuInv, [LinkNext]_linkVars
  PROVE  StreamInv'
<1> DEFINE none == <<>>
<1>9. Owned'
  BY OwnedStep DEF StreamInv
<1>0. /\ Whole(none) /\ none \in Seq(Tokens) /\ Len(none) = 0 /\ none \o none = none
      /\ MaxPackets \in Nat /\ BufSize \in Nat /\ Len(none) <= BufSize
  BY EmptyWhole, NephexAssumption
<1>1. CASE ConnectInstrument
  <2>1. PICK t \in Prefixes : stream' = t /\ clean' = (t = <<>>)
    BY <1>1 DEF ConnectInstrument
  <2>2. t \in Seq(Tokens) /\ clean' \in BOOLEAN
    BY <2>1, NephexAssumption
  <2>3. link' = "up" /\ UNCHANGED <<buf, busy, toSend>> /\ buf = none
    BY <1>1 DEF ConnectInstrument, StreamInv, Linked
  <2>4. StreamType'
    BY <2>1, <2>2, <2>3 DEF StreamInv, StreamType
  <2>5. Places'
    BY <1>0, <2>1, <2>3 DEF Places
  <2> QED
    BY <1>9, <2>3, <2>4, <2>5 DEF StreamInv, Linked
<1>2. CASE SendPacket
  <2>1. PICK a \in Apids, l \in Lens, f \in Fillers : stream' = stream \o Packet(a, l, f)
    BY <1>2 DEF SendPacket
  <2>2. Packet(a, l, f) \in Seq(Tokens) /\ Whole(Packet(a, l, f))
    <3>1. a \in Nat /\ l \in 0 .. MaxLen /\ f \in {"aa", "x"}
      BY NephexAssumption
    <3> QED
      BY <3>1, PacketWhole
  <2>3. link = "up" /\ UNCHANGED <<link, clean, buf, busy>>
        /\ toSend' = toSend - 1 /\ toSend > 0
    BY <1>2 DEF SendPacket
  <2>4. stream' \in Seq(Tokens) /\ Places'
    BY <2>1, <2>2, <2>3, AppendStep
  <2>5. toSend' \in 0 .. MaxPackets
    BY <1>0, <2>3 DEF StreamInv, StreamType
  <2> QED
    BY <1>9, <2>3, <2>4, <2>5 DEF StreamInv, StreamType, Linked
<1>3. CASE Reset
  <2>1. /\ link' = "down" /\ stream' = none /\ buf' = none /\ busy = FALSE
        /\ UNCHANGED <<toSend, clean, busy>>
    BY <1>3 DEF Reset, StreamInv, StreamType
  <2>2. StreamType'
    BY <1>0, <2>1 DEF StreamInv, StreamType
  <2>3. Places'
    BY <1>0, <2>1 DEF Places
  <2> QED
    BY <1>9, <2>1, <2>2, <2>3 DEF StreamInv, Linked
<1>4. CASE ConnectEmulator
  <2>1. /\ link' = "up" /\ stream' = none /\ clean' = TRUE /\ link = "down"
        /\ UNCHANGED <<buf, busy, toSend>>
    BY <1>4 DEF ConnectEmulator, linkRest
  <2>2. buf' = none
    BY <2>1 DEF StreamInv, Linked
  <2>3. StreamType'
    BY <1>0, <2>1, <2>2 DEF StreamInv, StreamType
  <2>4. Places'
    BY <1>0, <2>1, <2>2 DEF Places
  <2> QED
    BY <1>9, <2>1, <2>3, <2>4 DEF StreamInv, Linked
<1>5. CASE EmulatorSends
  <2>1. PICK packet \in File :
          /\ Emu!Ingest(packet)
          /\ IF Emu!Written THEN Sends(client, packet) ELSE UNCHANGED stream
    BY <1>5 DEF EmulatorSends
  <2>2. packet \in Seq(Tokens) /\ Whole(packet)
    BY FileType
  <2>3. /\ toSend > MaxPackets - MaxEmulated /\ toSend' = toSend - 1
        /\ UNCHANGED <<buf, busy, cur, link, clean>>
    BY <1>5 DEF EmulatorSends, linkRest
  <2>4. toSend' \in 0 .. MaxPackets
    BY <1>0, <2>3, LinkAssumption DEF StreamInv, StreamType
  <2>5. CASE Emu!Written
    <3>1. client \in Clients /\ Sends(client, packet)
      BY <2>1, <2>5 DEF Emu!Written, Emu!Takes
    <3> QED
      BY <1>9, <2>2, <2>3, <2>4, <3>1, EmulatorAppends
  <2>6. CASE ~ Emu!Written
    <3>1. stream' = stream
      BY <2>1, <2>6
    <3> QED
      BY <1>9, <2>3, <2>4, <3>1 DEF StreamInv, StreamType, Linked, Places
  <2> QED
    BY <2>5, <2>6
<1>6. ASSUME NEW c \in Clients, EmulatorDrains(c) PROVE StreamInv'
  <2>1. Sends(c, waiting[c]) /\ UNCHANGED <<buf, busy, cur, link, toSend, clean>>
    BY <1>6 DEF EmulatorDrains, linkRest
  <2>2. waiting[c] \in Seq(Tokens) /\ Whole(waiting[c])
    BY DEF EmuInv, EmuType
  <2>3. toSend' \in 0 .. MaxPackets
    BY <2>1 DEF StreamInv, StreamType
  <2> QED
    BY <1>9, <2>1, <2>2, <2>3, EmulatorAppends
<1>7. CASE UNCHANGED <<instVars, buf, busy>>
  <2>1. UNCHANGED <<stream, link, toSend, clean, buf, busy>>
    BY <1>7 DEF instVars
  <2> QED
    BY <1>9, <2>1 DEF StreamInv, StreamType, Linked, Places
<1>8. CASE Receive \/ Return \/ TakePacket
  BY <1>8, <1>9, ReceiveStep, ReturnStep, TakePacketStep
<1> QED
  BY <1>1, <1>2, <1>3, <1>4, <1>5, <1>6, <1>7, <1>8, StreamSteps

-----------------------------------------------------------------------------
(* The theorems.                                                           *)

\* The inductive invariant.
LinkInv ==
  /\ StreamInv /\ TableType /\ DecimationKept /\ PeerType /\ WindowKept
  /\ Accounted /\ EmuInv

\* Every behaviour of the exporter, with the instrument or with the emulator,
\* keeps the inductive invariant.
THEOREM LinkInvariant == LinkSpec => []LinkInv
<1>1. LinkInit => LinkInv
  <2>1. LinkInit => Accounted
    BY DEF LinkInit, Init, Accounted
  <2> QED
    BY <2>1, StreamInit, TableInit, PeerInit, EmuInit DEF LinkInit, LinkInv
<1>2. LinkInv /\ [LinkNext]_linkVars => LinkInv'
  <2> SUFFICES ASSUME LinkInv, [LinkNext]_linkVars PROVE LinkInv'
    OBVIOUS
  <2>1. StreamType
    BY DEF LinkInv, StreamInv
  <2>2. TableType' /\ DecimationKept'
    BY <2>1, TableStep DEF LinkInv
  <2>3. PeerType' /\ WindowKept'
    BY <2>1, PeerStep DEF LinkInv
  <2>3a. Accounted'
    BY <2>1, AccountStep DEF LinkInv
  <2>4. EmuInv'
    BY EmuStep DEF LinkInv
  <2>5. StreamInv'
    BY StreamStep DEF LinkInv
  <2> QED
    BY <2>2, <2>3, <2>3a, <2>4, <2>5 DEF LinkInv
<1> QED
  BY <1>1, <1>2, PTL DEF LinkSpec

\* The variables of nephex_export keep their types; in particular n_to_skip, an
\* unsigned count, never runs below zero.
THEOREM LinkTypeCorrect == LinkSpec => []TypeOK
<1>1. LinkInv => TypeOK
  BY TypeParts DEF LinkInv, StreamInv
<1> QED
  BY <1>1, LinkInvariant, PTL

\* protocol_input() stays at the packets: whatever the payloads hold and however
\* the stream is cut into reads, what it looks at first starts a packet.
THEOREM PacketsAreFound == LinkSpec => []FramingKept
<1>1. LinkInv => FramingKept
  <2> SUFFICES ASSUME LinkInv, clean, buf # <<>> PROVE Head(buf).starts
    BY DEF FramingKept
  <2>1. buf \in Seq(Tokens) /\ stream \in Seq(Tokens) /\ Whole(buf \o stream)
    BY DEF LinkInv, StreamInv, StreamType, Places
  <2> DEFINE T == buf \o stream
  <2>2. T # <<>> /\ T[1] = buf[1]
    <3>1. Len(buf) > 0 /\ Len(buf) \in Nat /\ Len(stream) \in Nat
      BY <2>1
    <3>2. Len(T) = Len(buf) + Len(stream) /\ T[1] = buf[1]
      BY <2>1, <3>1, ConcatProperties
    <3> QED
      BY <3>1, <3>2
  <2>3. T[1].starts
    BY <2>1, <2>2 DEF Whole
  <2>4. Head(buf) = buf[1]
    BY <2>1
  <2> QED
    BY <2>2, <2>3, <2>4
<1> QED
  BY <1>1, LinkInvariant, PTL

\* OK_to_transmit() lets the first packet of an APID and then every Rate-th
\* through, for every table of def()s.
THEOREM DecimationIsExact == LinkSpec => []DecimationKept
<1>1. LinkInv => DecimationKept
  BY DEF LinkInv
<1> QED
  BY <1>1, LinkInvariant, PTL

\* However acks, broken connections and packets interleave, no more than a
\* window and a packet is outstanding.
THEOREM WindowIsKept == LinkSpec => []WindowKept
<1>1. LinkInv => WindowKept
  BY DEF LinkInv
<1> QED
  BY <1>1, LinkInvariant, PTL

\* What keeps the window closed.
ClosedOwed == ~CTS => lost >= Window \/ (conn = "up" /\ obuf + inflight > 0)

\* A window stays closed only for an ack that is still to come, on a connection
\* that is there, or once a window of bytes went with broken ones: no interleaving
\* of packets, buffered output and acks of more than was sent loses credit.
THEOREM CreditIsKept == LinkSpec => []ClosedOwed
<1>1. LinkInv => ClosedOwed
  <2> SUFFICES ASSUME LinkInv, ~CTS, ~(lost >= Window)
               PROVE  conn = "up" /\ obuf + inflight > 0
    BY DEF ClosedOwed, LinkInv, PeerType
  <2>1. /\ outstanding \in Nat /\ obuf \in Nat /\ inflight \in Nat /\ lost \in Nat
        /\ outstanding <= obuf + inflight + lost
        /\ conn \in {"up", "down"} /\ (conn = "down" => obuf = 0 /\ inflight = 0)
    BY DEF LinkInv, PeerType, Accounted
  <2>2. outstanding >= Window \/ obuf # 0
    BY <2>1, NephexAssumption DEF CTS
  <2>3. obuf + inflight > 0
    BY <2>1, <2>2, NephexAssumption
  <2> QED
    BY <2>1, <2>3
<1> QED
  BY <1>1, LinkInvariant, PTL

\* forward_packet() of nephex_emulator never goes through a pointer that is not
\* set, or to an object that is destroyed or about to be.
THEOREM EmulatorHasItsClient == LinkSpec => []ForwardsToAnObject
<1>1. LinkInv => ForwardsToAnObject
  BY DEF LinkInv, EmuInv
<1> QED
  BY <1>1, LinkInvariant, PTL

\* What a refused connection was refused for.
RefusedFor(c) ==
  client = WildClient \/ (reading /\ client # c /\ object[client] = "open")

\* connected() refuses a connection only for another that is open and that is
\* sent the packets, or because nobody had set the pointer: however connections
\* are accepted, refused and destroyed, no object that is gone goes on holding
\* the place.
RefusedForAnother ==
  [][\A c \in Clients :
        object[c] = "queued" /\ object'[c] = "doomed" => RefusedFor(c)]_linkVars

\* It is what connected() and ~nephex_tcp() keep.
THEOREM RefusalsAreDue == LinkSpec => RefusedForAnother
<1> DEFINE Step ==
      \A c \in Clients :
        object[c] = "queued" /\ object'[c] = "doomed" => RefusedFor(c)
<1>1. LinkInv /\ [LinkNext]_linkVars => [Step]_linkVars
  <2> SUFFICES ASSUME LinkInv, [LinkNext]_linkVars,
                      NEW c \in Clients, object[c] = "queued",
                      object'[c] = "doomed"
               PROVE  RefusedFor(c)
    OBVIOUS
  <2>1. EmuType /\ ForwardsToAnObject /\ Registered
    BY DEF LinkInv, EmuInv
  <2>2. CASE UNCHANGED <<cur, emuVars, hasty>>
    BY <2>2 DEF emuVars
  <2>3. CASE ConnectEmulator
    <3> DEFINE d == CHOOSE d \in Clients : object[d] = "none"
    <3>1. Emu!Arrives(d)
      BY <2>3 DEF ConnectEmulator
    <3> HIDE DEF d
    <3> QED
      BY <2>1, <3>1 DEF Emu!Arrives, EmuType
  <2>4. CASE ResetEmulator
    BY <2>4 DEF ResetEmulator, emuVars
  <2>5. CASE EmulatorSends
    BY <2>5 DEF EmulatorSends, Emu!Ingest
  <2>6. ASSUME NEW d \in Clients, EmulatorAccepts(d) PROVE RefusedFor(c)
    <3>1. Emu!Connected(d)
      BY <2>6 DEF EmulatorAccepts
    <3>2. d = c /\ Emu!Set
      BY <2>1, <3>1 DEF Emu!Connected, EmuType
    <3>3. client = WildClient \/ client \in Clients
      BY <2>1, <3>2 DEF Emu!Set, EmuType
    <3> QED
      BY <2>1, <3>3 DEF RefusedFor, Registered, ForwardsToAnObject
  <2>7. ASSUME NEW d \in Clients, EmulatorDestroys(d) PROVE RefusedFor(c)
    BY <2>1, <2>7 DEF EmulatorDestroys, Emu!Destroy, EmuType
  <2>8. ASSUME NEW d \in Clients, EmulatorDrains(d) PROVE RefusedFor(c)
    BY <2>8 DEF EmulatorDrains, Emu!Drain
  <2> QED
    BY <2>2, <2>3, <2>4, <2>5, <2>6, <2>7, <2>8, EmuSteps
<1> QED
  BY <1>1, LinkInvariant, PTL DEF LinkSpec, RefusedForAnother
=============================================================================
