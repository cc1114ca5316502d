---------------------------- MODULE XioUdpProofs ----------------------------
(***************************************************************************)
(* Theorems of module XioUdp, for every limit, modulus and loss, and of    *)
(* module XioHarvHeader, for every size of a byte and all fields of the    *)
(* headers that the UDP half receives and sends.                           *)
(***************************************************************************)
EXTENDS XioUdp, XioHarvHeader, SequenceTheorems, SumTheorems

\* What is on its way to the instrument.
FlagType == flags \in Seq({"cts", "ncts"})

\* While no answer is awaited the peer owes none, but for one for each answer
\* that came in two pieces.
Balanced ==
  /\ ack_pending => packets + pieces <= 1 + splits
  /\ ~ack_pending => packets + pieces <= splits

UdpInv == TypeOK /\ FlagType /\ Balanced /\ AnswerIsOwed

\* The steps that leave the exporter alone.
LEMMA ExporterSteps ==
  ASSUME [Next]_vars
  PROVE  \/ \E d \in Datagrams : ForwardPacket /\ Datagram(d)
         \/ AppInput \/ PeerAnswers \/ ExporterDrops
         \/ UNCHANGED <<ack_pending, packets, pieces, splits, stuck>>
            /\ conn' \in {conn, "up"} /\ obuf' \in {obuf, FALSE}
<1>1. ASSUME NEW d \in Datagrams, Datagram(d), ~ ForwardPacket
      PROVE  UNCHANGED expVars
  BY <1>1 DEF Datagram
<1>2. CASE TxEvent \/ FlagArrives \/ FlagLost
  BY <1>2 DEF TxEvent, FlagArrives, FlagLost, expVars
<1>3. CASE ExporterDrains \/ ExporterConnects
  BY <1>3 DEF ExporterDrains, ExporterConnects
<1>4. CASE UNCHANGED vars
  BY <1>4 DEF vars, expVars
<1> QED
  BY <1>1, <1>2, <1>3, <1>4 DEF Next, expVars

\* The exporter's part.
ExporterType ==
  /\ ack_pending \in BOOLEAN /\ conn \in {"up", "down"} /\ obuf \in BOOLEAN
  /\ packets \in Nat /\ pieces \in Nat /\ splits \in 0 .. MaxSplits
  /\ stuck \in BOOLEAN

\* forward_packet(), app_input() and the peer keep the exporter's part: a packet
\* is sent only when none is awaited, and whatever is answered ends the wait.
LEMMA ExporterStep ==
  ASSUME ExporterType, Balanced, AnswerIsOwed, [Next]_vars
  PROVE  ExporterType' /\ Balanced' /\ AnswerIsOwed'
<1> DEFINE owed == packets + pieces
<1>0. /\ ack_pending \in BOOLEAN /\ conn \in {"up", "down"}
      /\ obuf \in BOOLEAN /\ packets \in Nat /\ pieces \in Nat
      /\ splits \in 0 .. MaxSplits /\ stuck \in BOOLEAN /\ MaxSplits \in Nat
  BY XioUdpAssumption DEF ExporterType
<1>1. CASE /\ UNCHANGED <<ack_pending, packets, pieces, splits, stuck>>
           /\ conn' \in {conn, "up"} /\ obuf' \in {obuf, FALSE}
  BY <1>0, <1>1 DEF ExporterType, Balanced, AnswerIsOwed
<1>2. CASE ForwardPacket
  <2>1. CASE HoldsOff
    BY <1>0, <1>2, <2>1 DEF ForwardPacket, expVars, ExporterType, Balanced, AnswerIsOwed
  <2>2. CASE ~HoldsOff
    <3>1. /\ ~ack_pending /\ ack_pending' = TRUE
          /\ UNCHANGED <<conn, pieces, splits>>
      BY <1>2, <2>2 DEF ForwardPacket, HoldsOff
    <3>2. owed <= splits
      BY <3>1 DEF Balanced
    <3>3. CASE packets' = packets + 1 /\ obuf' \in BOOLEAN /\ stuck' = stuck
      BY <1>0, <3>1, <3>2, <3>3 DEF ExporterType, Balanced, AnswerIsOwed
    <3>4. CASE stuck' = TRUE /\ packets' = packets /\ obuf' = obuf
      BY <1>0, <3>1, <3>2, <3>4 DEF ExporterType, Balanced, AnswerIsOwed
    <3> QED
      BY <1>2, <2>2, <3>3, <3>4 DEF ForwardPacket
  <2> QED
    BY <2>1, <2>2
<1>6. owed <= 1 + splits
  BY <1>0 DEF Balanced
<1>3. CASE AppInput
  <2>1. PICK k \in 1 .. pieces : pieces' = pieces - k
    BY <1>3 DEF AppInput
  <2>2. /\ ack_pending' = FALSE
        /\ UNCHANGED <<conn, obuf, packets, splits, stuck>>
    BY <1>3 DEF AppInput, Cleared
  <2>3. pieces' \in Nat /\ packets + pieces' <= splits
    BY <1>0, <1>6, <2>1
  <2> QED
    BY <1>0, <2>2, <2>3 DEF ExporterType, Balanced, AnswerIsOwed
<1>4. CASE PeerAnswers
  <2>1. /\ packets > 0 /\ packets' = packets - 1
        /\ UNCHANGED <<ack_pending, conn, obuf, stuck>>
        /\ \/ pieces' = pieces + 1 /\ splits' = splits
           \/ splits < MaxSplits /\ splits' = splits + 1 /\ pieces' = pieces + 2
    BY <1>4 DEF PeerAnswers
  <2>2. /\ packets' \in Nat /\ pieces' \in Nat /\ splits' \in 0 .. MaxSplits
        /\ packets' + pieces' > 0
    BY <1>0, <2>1
  <2>3. packets' + pieces' <= 1 + splits' /\ (owed <= splits => packets' + pieces' <= splits')
    BY <1>0, <1>6, <2>1
  <2> QED
    BY <1>0, <2>1, <2>2, <2>3 DEF ExporterType, Balanced, AnswerIsOwed
<1>5. CASE ExporterDrops
  <2>1. stuck' \in BOOLEAN /\ (~stuck' => ~ack_pending)
    BY <1>0, <1>5, Zenon DEF ExporterDrops
  <2>2. /\ packets' = 0 /\ pieces' = 0 /\ obuf' = FALSE /\ conn' = "down"
        /\ UNCHANGED <<ack_pending, splits>>
    BY <1>5 DEF ExporterDrops
  <2>3. packets' + pieces' <= splits' /\ packets' + pieces' <= 1 + splits'
    BY <1>0, <2>2
  <2> QED
    BY <1>0, <2>1, <2>2, <2>3 DEF ExporterType, Balanced, AnswerIsOwed
<1> QED
  BY <1>1, <1>2, <1>3, <1>4, <1>5, ExporterSteps, Zenon

\* The count of status packets stays within its byte, also when it turns over.
LEMMA CountType ==
  ASSUME recd \in 0 .. Byte - 1, NEW d \in Datagrams
  PROVE  Count(d) \in 0 .. Byte - 1
<1>1. Byte \in Nat /\ Byte > 0
  BY XioUdpAssumption
<1>2. Less(d) \in 0 .. Byte - 1
  BY <1>1 DEF Less
<1>3. (Less(d) + 1) % Byte \in 0 .. Byte - 1
  BY <1>1, <1>2
<1> QED
  BY <1>2, <1>3 DEF Count

\* Every step of the receiver, the transmitter and the network keeps their part.
LEMMA RcvrStep ==
  ASSUME UdpInv, [Next]_vars
  PROVE  /\ recd' \in 0 .. Byte - 1 /\ connect_requested' \in BOOLEAN
         /\ tx' \in {"down", "connecting", "up"} /\ txbuf' \in BOOLEAN
         /\ told' \in {"cts", "ncts"} /\ obeys' \in BOOLEAN
         /\ dropped' \in 0 .. MaxLost /\ FlagType'
<1>0. /\ recd \in 0 .. Byte - 1 /\ connect_requested \in BOOLEAN
      /\ tx \in {"down", "connecting", "up"} /\ txbuf \in BOOLEAN
      /\ told \in {"cts", "ncts"} /\ obeys \in BOOLEAN
      /\ dropped \in 0 .. MaxLost /\ flags \in Seq({"cts", "ncts"})
      /\ MaxLost \in Nat
  BY XioUdpAssumption DEF UdpInv, TypeOK, FlagType
<1>1. ASSUME NEW d \in Datagrams, Datagram(d)
      PROVE  /\ recd' \in 0 .. Byte - 1 /\ connect_requested' \in BOOLEAN
             /\ tx' \in {"down", "connecting", "up"} /\ txbuf' \in BOOLEAN
             /\ told' \in {"cts", "ncts"} /\ obeys' \in BOOLEAN
             /\ dropped' \in 0 .. MaxLost /\ FlagType'
  <2>1. recd' \in 0 .. Byte - 1
    BY <1>0, <1>1, CountType DEF Datagram
  <2>2. Flag(d) \in Seq({"cts", "ncts"})
    <3>1. <<"cts">> \in Seq({"cts", "ncts"}) /\ <<"ncts">> \in Seq({"cts", "ncts"})
          /\ <<>> \in Seq({"cts", "ncts"})
      OBVIOUS
    <3>2. Flag(d) = <<"cts">> \/ Flag(d) = <<"ncts">> \/ Flag(d) = <<>>
      <4>1. \/ Granted(d) /\ recd = 0
            \/ Over(d) /\ CTS
            \/ ~ (Granted(d) /\ recd = 0) /\ ~ (Over(d) /\ CTS)
        OBVIOUS
      <4> QED
        BY <4>1 DEF Flag
    <3> QED
      BY <3>1, <3>2
  <2>3. flags' \in Seq({"cts", "ncts"})
    BY <1>0, <1>1, <2>2 DEF Datagram
  <2>4. tx' \in {"down", "connecting", "up"} /\ connect_requested' = TRUE
    BY <1>0, <1>1 DEF Datagram, AfterCTS
  <2>5. txbuf' \in BOOLEAN /\ UNCHANGED <<obeys, told, dropped>>
    BY <1>0, <1>1 DEF Datagram
  <2> QED
    BY <1>0, <2>1, <2>3, <2>4, <2>5 DEF FlagType
<1>2. CASE FlagArrives \/ FlagLost
  <2>1. flags # <<>> /\ flags' = Tail(flags) /\ told' \in {told, Head(flags)}
        /\ UNCHANGED <<obeys, rcvrVars, txVars>>
        /\ dropped' \in {dropped, dropped + 1} /\ (dropped' = dropped \/ dropped < MaxLost)
    BY <1>2 DEF FlagArrives, FlagLost
  <2>2. Tail(flags) \in Seq({"cts", "ncts"}) /\ Head(flags) \in {"cts", "ncts"}
    BY <1>0, <2>1
  <2>3. dropped' \in 0 .. MaxLost
    BY <1>0, <2>1
  <2> QED
    BY <1>0, <2>1, <2>2, <2>3 DEF rcvrVars, txVars, FlagType
<1>3. CASE TxEvent
  BY <1>0, <1>3 DEF TxEvent, rcvrVars, instVars, FlagType
<1>4. CASE AppInput \/ PeerAnswers \/ ExporterDrops \/ ExporterDrains \/ ExporterConnects
  BY <1>0, <1>4 DEF AppInput, PeerAnswers, ExporterDrops, ExporterDrains,
     ExporterConnects, rcvrVars, txVars, instVars, FlagType
<1>5. CASE UNCHANGED vars
  BY <1>0, <1>5 DEF vars, rcvrVars, txVars, instVars, FlagType
<1> QED
  BY <1>1, <1>2, <1>3, <1>4, <1>5 DEF Next

\* Datagrams, flags, answers and broken connections keep the invariant in any
\* order.
THEOREM UdpInvariant == Spec => []UdpInv
<1>1. Init => UdpInv
  <2> SUFFICES ASSUME Init PROVE UdpInv
    OBVIOUS
  <2>1. /\ Byte - 1 \in Nat /\ MaxSplits \in Nat /\ MaxLost \in Nat
    BY XioUdpAssumption
  <2>2. TypeOK
    <3>1. recd \in 0 .. Byte - 1 /\ splits \in 0 .. MaxSplits /\ dropped \in 0 .. MaxLost
      BY <2>1 DEF Init
    <3> QED
      BY <3>1 DEF Init, TypeOK
  <2>3. FlagType
    BY DEF Init, FlagType
  <2>4. Balanced /\ AnswerIsOwed
    BY DEF Init, Balanced, AnswerIsOwed
  <2> QED
    BY <2>2, <2>3, <2>4 DEF UdpInv
<1>2. UdpInv /\ [Next]_vars => UdpInv'
  <2> SUFFICES ASSUME UdpInv, [Next]_vars PROVE UdpInv'
    OBVIOUS
  <2> QED
    BY ExporterStep, RcvrStep DEF UdpInv, TypeOK, ExporterType
<1> QED
  BY <1>1, <1>2, PTL DEF Spec

\* Every variable of the UDP half has its type; pkts_recd fits its uint8_t.
THEOREM UdpTypeCorrect == Spec => []TypeOK
<1>1. UdpInv => TypeOK
  BY DEF UdpInv
<1> QED
  BY <1>1, UdpInvariant, PTL

\* xiomas_udp_export keeps one packet at the peer, and one more for each answer
\* that app_input() took for two.
THEOREM PeerHasOne == Spec => []OneAtATime
<1>1. UdpInv => OneAtATime
  <2> SUFFICES ASSUME UdpInv PROVE packets <= 1 + splits
    BY DEF OneAtATime
  <2>1. packets \in Nat /\ pieces \in Nat /\ splits \in Nat /\ ack_pending \in BOOLEAN
    BY XioUdpAssumption DEF UdpInv, TypeOK
  <2>2. packets + pieces <= 1 + splits \/ packets + pieces <= splits
    BY <2>1 DEF UdpInv, Balanced
  <2> QED
    BY <2>1, <2>2
<1> QED
  BY <1>1, UdpInvariant, PTL

\* ack_pending is set only while an answer is on its way, or for good after a
\* connection that broke took one along.
THEOREM PendingIsOwed == Spec => []AnswerIsOwed
<1>1. UdpInv => AnswerIsOwed
  BY DEF UdpInv
<1> QED
  BY <1>1, UdpInvariant, PTL
-----------------------------------------------------------------------------
(* The functions on a header.                                              *)

\* A byte is a number below Base.
LEMMA BytesAre ==
  /\ Base \in Nat /\ Base > 1
  /\ 0 \in Bytes /\ Base - 1 \in Bytes
  /\ \A b \in Bytes : b \in Nat /\ b < Base /\ Base - 1 - b \in Bytes
BY XioHarvAssumption DEF Bytes

\* Quotient and remainder of a division by Base.
LEMMA Division ==
  ASSUME NEW v \in Nat
  PROVE  /\ v % Base \in Bytes /\ Shifted(v) \in Nat
         /\ v = Base * Shifted(v) + (v % Base)
BY XioHarvAssumption DEF Shifted, Bytes

\* There is only one remainder.
LEMMA OneRemainder ==
  ASSUME NEW q \in Nat, NEW r \in Bytes, NEW v \in Nat, v = Base * q + r
  PROVE  v % Base = r
BY XioHarvAssumption DEF Bytes

\* A value without its last byte fits a field that has one byte less.
LEMMA ShiftFits ==
  ASSUME NEW v \in Nat, NEW m \in Nat, v < Base * m
  PROVE  Shifted(v) < m
<1> DEFINE q == Shifted(v)
<1>1. q \in Nat /\ v >= Base * q /\ Base \in Nat /\ Base > 0
  <2>1. q \in Nat /\ v % Base \in Nat /\ v = Base * q + (v % Base)
    BY Division, BytesAre
  <2>2. Base * q \in Int
    BY <2>1, BytesAre
  <2> HIDE DEF q
  <2> QED
    BY <2>1, <2>2, BytesAre
<1> HIDE DEF q
<1>2. SUFFICES ASSUME q >= m PROVE FALSE
  BY <1>1 DEF q
<1>3. PICK d \in Nat : q = m + d
  BY <1>1, <1>2
<1>4. Base * q = Base * m + Base * d /\ Base * d \in Nat /\ Base * m \in Nat
  BY <1>1, <1>3
<1> QED
  BY <1>1, <1>4

\* xhgSetValue32() sets four bytes, and xhgGetValue32() gets the value from them.
LEMMA ValueIsKept ==
  ASSUME NEW v \in 0 .. Word - 1
  PROVE  /\ xhgSetValue32(v) \in [1 .. 4 -> Bytes]
         /\ xhgSetValue32(v) \in Seq(Bytes) /\ Len(xhgSetValue32(v)) = 4
         /\ xhgGetValue32(xhgSetValue32(v)) = v
<1> DEFINE a == Shifted(v)
           b == Shifted(a)
           c == Shifted(b)
<1>0. Base \in Nat \ {0, 1} /\ Word \in Nat /\ v \in Nat /\ v < Word
      /\ Base * Base \in Nat /\ Base * (Base * Base) \in Nat
      /\ Word = Base * (Base * (Base * Base))
  <2>1. Base \in Nat \ {0, 1}
    BY XioHarvAssumption
  <2>2. Base * Base \in Nat
    BY <2>1
  <2>3. (Base * Base) * Base \in Nat /\ (Base * Base) * Base = Base * (Base * Base)
    BY <2>1, <2>2
  <2>4. Base * (Base * (Base * Base)) \in Nat
    BY <2>1, <2>3
  <2>5. ((Base * Base) * Base) * Base = Base * (Base * (Base * Base))
    BY <2>1, <2>2, <2>3
  <2> QED
    BY <2>1, <2>2, <2>3, <2>4, <2>5 DEF Word
<1>1. v % Base \in Bytes /\ a \in Nat /\ v = Base * a + (v % Base)
  BY <1>0, Division
<1>2. a % Base \in Bytes /\ b \in Nat /\ a = Base * b + (a % Base)
  BY <1>1, Division
<1>3. b % Base \in Bytes /\ c \in Nat /\ b = Base * c + (b % Base)
  BY <1>2, Division
<1>4. c % Base = c
  <2>1. a < Base * (Base * Base)
    BY <1>0, ShiftFits
  <2>2. b < Base * Base
    BY <1>0, <1>1, <2>1, ShiftFits
  <2>3. c < Base
    BY <1>0, <1>2, <2>2, ShiftFits
  <2>4. c \in Bytes /\ c = Base * 0 + c
    BY <1>0, <1>3, <2>3 DEF Bytes
  <2> QED
    BY <1>3, <2>4, OneRemainder
<1>5. c % Base \in Bytes
  BY <1>3, Division
<1>6. xhgSetValue32(v) = <<v % Base, a % Base, b % Base, c % Base>>
  BY DEF xhgSetValue32
<1> HIDE DEF a, b, c
<1>7. xhgSetValue32(v) \in [1 .. 4 -> Bytes]
      /\ xhgSetValue32(v) \in Seq(Bytes) /\ Len(xhgSetValue32(v)) = 4
  BY <1>1, <1>2, <1>3, <1>5, <1>6
<1>8. xhgGetValue32(xhgSetValue32(v))
        = (v % Base) + Base * ((a % Base) + Base * ((b % Base) + Base * c))
  BY <1>4, <1>6 DEF xhgGetValue32
<1>9. /\ (b % Base) + Base * c = b /\ (a % Base) + Base * b = a
      /\ (v % Base) + Base * a = v
  <2>1. \A x, y, z \in Int : x = y + z => z + y = x
    OBVIOUS
  <2>2. Base * a \in Int /\ Base * b \in Int /\ Base * c \in Int
    BY <1>0, <1>1, <1>2, <1>3
  <2>3. v % Base \in Int /\ a % Base \in Int /\ b % Base \in Int
    BY <1>0, <1>1, <1>2, <1>3 DEF Bytes
  <2> QED
    BY <1>0, <1>1, <1>2, <1>3, <2>1, <2>2, <2>3
<1> QED
  BY <1>7, <1>8, <1>9

\* A header has finitely many bytes, which are numbers.
LEMMA HeaderFinite ==
  /\ IsFiniteSet(1 .. HdrBytes)
  /\ [1 .. HdrBytes -> Bytes] \subseteq [1 .. HdrBytes -> Nat]
  /\ [1 .. HdrBytes -> Bytes] \subseteq [1 .. HdrBytes -> Int]
<1>1. 1 \in Int /\ HdrBytes \in Int
  BY DEF HdrBytes
<1>2. Bytes \subseteq Nat /\ Bytes \subseteq Int
  BY DEF Bytes
<1> QED
  BY <1>1, <1>2, FS_Interval

\* The sum of a header's bytes.
LEMMA SumOfBytes ==
  ASSUME NEW f \in [1 .. HdrBytes -> Bytes]
  PROVE  SumFunction(f) \in Nat
BY HeaderFinite, SumNat

\* What one byte does to the sum.
LEMMA SumOfOthers ==
  ASSUME NEW f \in [1 .. HdrBytes -> Bytes], NEW g \in [1 .. HdrBytes -> Bytes],
         NEW i \in 1 .. HdrBytes, \A j \in 1 .. HdrBytes \ {i} : g[j] = f[j]
  PROVE  SumFunction(g) = SumFunction(f) + (g[i] - f[i])
<1>1. f \in [1 .. HdrBytes -> Int] /\ g \in [1 .. HdrBytes -> Int]
  BY HeaderFinite
<1> QED
  BY <1>1, HeaderFinite, SumChanges

\* Another byte in a header makes another sum.
LEMMA AnotherSum ==
  ASSUME NEW f \in [1 .. HdrBytes -> Bytes], NEW g \in [1 .. HdrBytes -> Bytes],
         NEW i \in 1 .. HdrBytes, \A j \in 1 .. HdrBytes \ {i} : g[j] = f[j],
         g[i] # f[i]
  PROVE  SumOf(g) # SumOf(f)
<1> DEFINE s == SumFunction(f)
           t == SumFunction(g)
           x == g[i]
<1>1. s \in Nat /\ t \in Nat /\ t = s + (x - f[i])
  <2>1. SumFunction(f) \in Nat /\ SumFunction(g) \in Nat
    BY SumOfBytes
  <2>2. SumFunction(g) = SumFunction(f) + (g[i] - f[i])
    BY SumOfOthers
  <2> QED
    BY <2>1, <2>2
<1>2. f[i] \in Bytes /\ x \in Bytes /\ x # f[i]
  OBVIOUS
<1> HIDE DEF s, t, x
<1>3. SUFFICES ASSUME t % Base = s % Base PROVE FALSE
  BY DEF SumOf, s, t
<1>4. PICK p \in Nat : s = Base * p + (s % Base)
  BY <1>1, Division
<1>5. PICK q \in Nat : t = Base * q + (t % Base)
  BY <1>1, Division
<1>6. x - f[i] = Base * q - Base * p
  <2> DEFINE y == f[i]
             a == Base * p
             b == Base * q
             r == s % Base
  <2>1. a \in Int /\ b \in Int /\ r \in Int /\ y \in Int /\ x \in Int
    <3>1. a \in Int /\ b \in Int
      BY BytesAre
    <3>2. r \in Bytes
      BY <1>1, Division
    <3> HIDE DEF a, b, r
    <3> QED
      BY <1>2, <3>1, <3>2, BytesAre
  <2>2. t = s + (x - y) /\ s = a + r /\ t = b + r /\ s \in Int /\ t \in Int
    BY <1>1, <1>3, <1>4, <1>5
  <2> HIDE DEF y, a, b, r
  <2>3. x - y = b - a
    BY <2>1, <2>2
  <2> QED
    BY <2>3 DEF y, a, b
<1>7. x - f[i] > - Base /\ x - f[i] < Base /\ x - f[i] # 0 /\ Base \in Nat
  <2>1. /\ x \in Nat /\ x < Base /\ f[i] \in Nat /\ f[i] < Base
        /\ x # f[i] /\ Base \in Nat
    BY <1>2, BytesAre
  <2> DEFINE y == f[i]
  <2> HIDE DEF y
  <2> QED
    BY <2>1 DEF y
<1>8. CASE q = p
  BY <1>6, <1>7, <1>8, XioHarvAssumption
<1>9. CASE q > p
  <2>1. PICK d \in Nat : q = p + 1 + d
    BY <1>9
  <2>2. Base * q = Base * p + Base + Base * d
        /\ Base * d \in Nat /\ Base * p \in Nat
    BY <1>7, <2>1
  <2> QED
    BY <1>6, <1>7, <2>2
<1>10. CASE q < p
  <2>1. PICK d \in Nat : p = q + 1 + d
    BY <1>10
  <2>2. Base * p = Base * q + Base + Base * d
        /\ Base * d \in Nat /\ Base * q \in Nat
    BY <1>7, <2>1
  <2> QED
    BY <1>6, <1>7, <2>2
<1> QED
  BY <1>8, <1>9, <1>10

\* What is asked of a header to be filled.
Given == [pid : Bytes, src : Bytes, flags : Bytes,
          length : Lengths, count : Blocks]

\* xhgFillHeader() fills the fields with what was given, and the sum is that of
\* a header whose LRC is 0.
LEMMA FilledHeader ==
  ASSUME NEW g \in Given
  PROVE  /\ Filled(g) \in [1 .. HdrBytes -> Bytes]
         /\ SubSeq(Filled(g), 1, 4) = XioHarPacketStart
         /\ PacketID(Filled(g)) = g.pid /\ Source(Filled(g)) = g.src
         /\ Flags(Filled(g)) = g.flags
         /\ xhgGetPayloadLength(Filled(g)) = g.length
         /\ xhgGetBlockCount(Filled(g)) = g.count
         /\ xhgCalculateLRC(Filled(g)) = 0
<1> DEFINE len == xhgSetValue32(g.length)
           cnt == xhgSetValue32(g.count)
           zero == XioHarPacketStart \o <<g.pid, g.src, 0, g.flags>> \o len \o cnt
           lrc == xhgCalculateLRC(zero)
           hdr == [zero EXCEPT ![7] = lrc]
<1>0. /\ g.pid \in Bytes /\ g.src \in Bytes /\ g.flags \in Bytes /\ 0 \in Bytes
      /\ g.length \in 0 .. Word - 1 /\ g.count \in 0 .. Word - 1
  <2>1. /\ g.pid \in Bytes /\ g.src \in Bytes /\ g.flags \in Bytes
        /\ g.length \in Lengths /\ g.count \in Blocks
    BY DEF Given
  <2>2. Lengths \subseteq 0 .. Word - 1 /\ Blocks \subseteq 0 .. Word - 1
    BY XioHarvAssumption
  <2> QED
    BY <2>1, <2>2, BytesAre
<1>1. /\ len \in Seq(Bytes) /\ Len(len) = 4 /\ xhgGetValue32(len) = g.length
      /\ cnt \in Seq(Bytes) /\ Len(cnt) = 4 /\ xhgGetValue32(cnt) = g.count
  BY <1>0, ValueIsKept
<1>2. Filled(g) = hdr
  BY DEF Filled, xhgFillHeader
<1> DEFINE start == XioHarPacketStart
           mid == <<g.pid, g.src, 0, g.flags>>
<1>3. /\ start \in Seq(Bytes) /\ Len(start) = 4
      /\ mid \in Seq(Bytes) /\ Len(mid) = 4
      /\ mid[1] = g.pid /\ mid[2] = g.src /\ mid[4] = g.flags
  BY <1>0, XioHarvAssumption DEF XioHarPacketStart
<1>4. zero = start \o mid \o len \o cnt
  OBVIOUS
<1> HIDE DEF len, cnt, zero, start, mid
<1>5. /\ zero \in Seq(Bytes) /\ Len(zero) = 16
      /\ \A k \in 1 .. 4 : /\ zero[k] = start[k] /\ zero[k + 4] = mid[k]
                           /\ zero[k + 8] = len[k] /\ zero[k + 12] = cnt[k]
  <2> DEFINE two == start \o mid
             three == two \o len
  <2>1. /\ two \in Seq(Bytes) /\ Len(two) = Len(start) + Len(mid)
        /\ \A k \in 1 .. Len(start) + Len(mid) :
             two[k] = IF k <= Len(start) THEN start[k] ELSE mid[k - Len(start)]
    BY <1>3, ConcatProperties, Zenon
  <2> HIDE DEF two
  <2>2. /\ three \in Seq(Bytes) /\ Len(three) = Len(two) + Len(len)
        /\ \A k \in 1 .. Len(two) + Len(len) :
             three[k] = IF k <= Len(two) THEN two[k] ELSE len[k - Len(two)]
    <3>1. two \in Seq(Bytes) /\ len \in Seq(Bytes)
      BY <1>1, <2>1
    <3> QED
      BY <3>1, ConcatProperties, Zenon
  <2> HIDE DEF three
  <2>3. /\ three \o cnt \in Seq(Bytes) /\ Len(three \o cnt) = Len(three) + Len(cnt)
        /\ \A k \in 1 .. Len(three) + Len(cnt) :
             (three \o cnt)[k] = IF k <= Len(three) THEN three[k] ELSE cnt[k - Len(three)]
    <3>1. three \in Seq(Bytes) /\ cnt \in Seq(Bytes)
      BY <1>1, <2>2
    <3> QED
      BY <3>1, ConcatProperties, Zenon
  <2>4. zero = three \o cnt
    BY <1>4 DEF three, two
  <2>5. Len(two) = 8 /\ Len(three) = 12 /\ Len(zero) = 16 /\ zero \in Seq(Bytes)
    BY <1>1, <1>3, <2>1, <2>2, <2>3, <2>4
  <2>6. ASSUME NEW k \in 1 .. 4
        PROVE  /\ zero[k] = start[k] /\ zero[k + 4] = mid[k]
               /\ zero[k + 8] = len[k] /\ zero[k + 12] = cnt[k]
    <3>1. two[k] = start[k] /\ two[k + 4] = mid[k]
      BY <1>3, <2>1
    <3>2. three[k] = two[k] /\ three[k + 4] = two[k + 4] /\ three[k + 8] = len[k]
      BY <1>1, <2>2, <2>5
    <3>3. /\ (three \o cnt)[k] = three[k] /\ (three \o cnt)[k + 4] = three[k + 4]
          /\ (three \o cnt)[k + 8] = three[k + 8] /\ (three \o cnt)[k + 12] = cnt[k]
      <4> DEFINE four == three \o cnt
      <4>1. \A n \in 1 .. 16 : four[n] = IF n <= 12 THEN three[n] ELSE cnt[n - 12]
        <5>1. Len(three) + Len(cnt) = 16
          BY <1>1, <2>5
        <5> QED
          BY <2>3, <2>5, <5>1, Zenon
      <4> HIDE DEF four
      <4>2. /\ four[k] = three[k] /\ four[k + 4] = three[k + 4]
            /\ four[k + 8] = three[k + 8] /\ four[k + 12] = cnt[k]
        BY <4>1
      <4> QED
        BY <4>2 DEF four
    <3> QED
      BY <2>4, <3>1, <3>2, <3>3
  <2> QED
    BY <2>5, <2>6
<1>6. zero \in [1 .. HdrBytes -> Bytes] /\ HdrBytes = 16
  <2>1. zero \in [1 .. Len(zero) -> Bytes]
    BY <1>5, LenProperties
  <2> QED
    BY <1>5, <2>1 DEF HdrBytes
<1>7. zero[7] = 0
  BY <1>5 DEF mid
<1>8. lrc \in Bytes /\ SumFunction(zero) \in Nat
      /\ lrc = Base - 1 - (SumFunction(zero) % Base)
  <2>1. SumFunction(zero) \in Nat
    BY <1>6, SumOfBytes
  <2>2. SumFunction(zero) % Base \in Bytes
    BY <2>1, Division
  <2> QED
    BY <2>1, <2>2, XioHarvAssumption DEF xhgCalculateLRC, SumOf, Bytes
<1> HIDE DEF lrc
<1>9. /\ hdr \in [1 .. HdrBytes -> Bytes]
      /\ \A k \in 1 .. HdrBytes : k # 7 => hdr[k] = zero[k]
  BY <1>6, <1>8
<1>10. SumOf(hdr) = Base - 1
  <2>1. SumFunction(hdr) = SumFunction(zero) + (lrc - zero[7])
    <3>1. 7 \in 1 .. HdrBytes /\ hdr[7] = lrc
      BY <1>6
    <3>2. \A j \in 1 .. HdrBytes \ {7} : hdr[j] = zero[j]
      BY <1>9
    <3> HIDE DEF hdr
    <3> QED
      BY <1>6, <1>9, <3>1, <3>2, SumOfOthers
  <2>2. PICK q \in Nat : SumFunction(zero) = Base * q + (SumFunction(zero) % Base)
    BY <1>8, Division
  <2>3. SumFunction(zero) % Base \in Bytes /\ Base * q \in Nat /\ Base - 1 \in Bytes
    BY <1>8, <2>2, Division, BytesAre
  <2>4. SumFunction(hdr) = Base * q + (Base - 1) /\ SumFunction(hdr) \in Nat
    BY <1>7, <1>8, <2>1, <2>2, <2>3, BytesAre
  <2> QED
    BY <2>3, <2>4, OneRemainder DEF SumOf
<1> HIDE DEF hdr
<1>11. hdr \in Seq(Bytes) /\ Len(hdr) = 16 /\ DOMAIN hdr = 1 .. 16
  <2>1. HdrBytes \in Nat /\ DOMAIN hdr = 1 .. HdrBytes
    BY <1>6, <1>9
  <2>2. hdr \in UNION {[1 .. n -> Bytes] : n \in Nat}
    BY <1>9, <2>1, Zenon
  <2>3. hdr \in Seq(Bytes)
    BY <2>2, SeqDef, Zenon
  <2> QED
    BY <1>6, <2>1, <2>3, LenProperties
<1>12. \A k \in 1 .. 4 : /\ SubSeq(hdr, 1, 4)[k] = start[k]
                         /\ SubSeq(hdr, 9, 12)[k] = len[k]
                         /\ SubSeq(hdr, 13, 16)[k] = cnt[k]
  <2> TAKE k \in 1 .. 4
  <2>1. hdr[k] = start[k] /\ hdr[k + 8] = len[k] /\ hdr[k + 12] = cnt[k]
    BY <1>5, <1>6, <1>9
  <2>2. /\ SubSeq(hdr, 1, 4)[k] = hdr[k]
        /\ SubSeq(hdr, 9, 12)[k] = hdr[k + 8]
        /\ SubSeq(hdr, 13, 16)[k] = hdr[k + 12]
    BY <1>11, SubSeqProperties
  <2> QED
    BY <2>1, <2>2
<1>13. SubSeq(hdr, 1, 4) = start
  <2>1. SubSeq(hdr, 1, 4) \in Seq(Bytes) /\ Len(SubSeq(hdr, 1, 4)) = 4
    <3>1. 1 \in Int /\ 4 \in Int /\ (4 - 1) + 1 = 4 /\ 1 <= 4
      OBVIOUS
    <3>2. \A k \in 1 .. 4 : hdr[k] \in Bytes
      BY <1>6, <1>9
    <3> QED
      BY <3>1, <3>2, SubSeqProperties
  <2> QED
    BY <1>3, <1>12, <2>1, SeqEqual
<1>14. /\ xhgGetPayloadLength(hdr) = g.length
       /\ xhgGetBlockCount(hdr) = g.count
  BY <1>1, <1>12 DEF xhgGetPayloadLength, xhgGetBlockCount, xhgGetValue32
<1>15. PacketID(hdr) = g.pid /\ Source(hdr) = g.src /\ Flags(hdr) = g.flags
  <2>1. zero[1 + 4] = mid[1] /\ zero[2 + 4] = mid[2] /\ zero[4 + 4] = mid[4]
    BY <1>5
  <2> QED
    BY <1>3, <1>6, <1>9, <2>1 DEF PacketID, Source, Flags
<1>16. xhgCalculateLRC(hdr) = 0
  BY <1>10, XioHarvAssumption DEF xhgCalculateLRC
<1> QED
  BY <1>2, <1>9, <1>13, <1>14, <1>15, <1>16 DEF start

\* A header is as it was filled, or its sum is wrong.
HdrInv ==
  /\ given \in Given
  /\ phase = "filled" => h = Filled(given)
  /\ phase = "corrupted" => xhgCalculateLRC(h) # 0

\* It is filled first, and then at most one byte of it becomes another.
LEMMA HdrInvariant == HdrSpec => []HdrInv
<1>1. HdrInit => HdrInv
  BY DEF HdrInit, HdrInv, Given
<1>2. HdrInv /\ [Corrupt]_hdrVars => HdrInv'
  <2> SUFFICES ASSUME HdrInv, [Corrupt]_hdrVars PROVE HdrInv'
    OBVIOUS
  <2>1. CASE Corrupt
    <3>1. phase = "filled" /\ phase' = "corrupted" /\ given' = given
          /\ h = Filled(given) /\ given \in Given
      BY <2>1 DEF Corrupt, HdrInv
    <3>2. PICK i \in 1 .. HdrBytes, b \in Bytes :
            b # h[i] /\ h' = [h EXCEPT ![i] = b]
      BY <2>1 DEF Corrupt
    <3>3. h \in [1 .. HdrBytes -> Bytes] /\ xhgCalculateLRC(h) = 0
      BY <3>1, FilledHeader
    <3>4. SumOf(h') # SumOf(h) /\ SumOf(h) \in Int /\ SumOf(h') \in Int
      <4>1. /\ h' \in [1 .. HdrBytes -> Bytes] /\ h'[i] # h[i]
            /\ \A j \in 1 .. HdrBytes \ {i} : h'[j] = h[j]
        BY <3>2, <3>3
      <4>2. SumFunction(h) \in Nat /\ SumFunction(h') \in Nat
        BY <3>3, <4>1, HeaderFinite, SumOfBytes
      <4>3. SumOf(h) \in Int /\ SumOf(h') \in Int
        <5>1. SumOf(h) \in Bytes /\ SumOf(h') \in Bytes
          BY <4>2, Division DEF SumOf
        <5> QED
          BY <5>1, BytesAre
      <4> QED
        BY <3>3, <4>1, <4>3, AnotherSum
    <3>5. xhgCalculateLRC(h') # 0
      BY <3>3, <3>4, XioHarvAssumption DEF xhgCalculateLRC
    <3> QED
      BY <3>1, <3>5 DEF HdrInv, xhgCalculateLRC, SumOf
  <2>2. CASE UNCHANGED hdrVars
    BY <2>2 DEF hdrVars, HdrInv, xhgCalculateLRC, SumOf
  <2> QED
    BY <2>1, <2>2
<1> QED
  BY <1>1, <1>2, PTL DEF HdrSpec

\* xhgValidateHeader() accepts what xhgFillHeader() filled for what the fields
\* are, and they are read back as they were given.
THEOREM FilledAccepted == HdrSpec => []FilledIsAccepted
<1>1. HdrInv => FilledIsAccepted
  <2> SUFFICES ASSUME HdrInv, phase = "filled"
               PROVE  /\ xhgGetPayloadLength(h) = given.length
                      /\ xhgGetBlockCount(h) = given.count
                      /\ Accepted <=> /\ ValidID(h) /\ ValidSource(h)
                                      /\ given.flags \in ValidFlags
                                      /\ given.pid < xhpidPacketLimit =>
                                           given.length <= XioHarMaxPayloadLength
    BY DEF FilledIsAccepted
  <2>1. h = Filled(given) /\ given \in Given
    BY DEF HdrInv
  <2>2. /\ SubSeq(h, 1, 4) = XioHarPacketStart
        /\ PacketID(h) = given.pid /\ Flags(h) = given.flags
        /\ xhgGetPayloadLength(h) = given.length
        /\ xhgGetBlockCount(h) = given.count
        /\ xhgCalculateLRC(h) = 0
    BY <2>1, FilledHeader
  <2>3. given.pid \in Nat
    BY <2>1, XioHarvAssumption DEF Given, Bytes
  <2>4. ValidID(h) => (given.pid <= xhpidPacketLimit <=> given.pid < xhpidPacketLimit)
    BY <2>2, <2>3, XioHarvAssumption DEF ValidID
  <2>5. Accepted <=> /\ ValidID(h) /\ ValidSource(h)
                     /\ given.flags \in ValidFlags
                     /\ given.pid <= xhpidPacketLimit =>
                          given.length <= XioHarMaxPayloadLength
    BY <2>2, Zenon DEF Accepted, xhgValidateHeader
  <2> QED
    BY <2>2, <2>4, <2>5
<1> QED
  BY <1>1, HdrInvariant, PTL

\* xhgValidateHeader() refuses a header that was filled and then had one byte,
\* whichever, replaced by another: the sum of the bytes tells.
THEOREM ByteMatters == HdrSpec => []AnyByteMatters
<1>1. HdrInv => AnyByteMatters
  BY DEF HdrInv, AnyByteMatters, Accepted, xhgValidateHeader
<1> QED
  BY <1>1, HdrInvariant, PTL
=============================================================================
