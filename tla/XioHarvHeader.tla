--------------------------- MODULE XioHarvHeader ---------------------------
(***************************************************************************)
(* The headers of the Xiomas packets: how XioHarvGatewayPacket.{h,cpp}     *)
(* (src/Xiomas) fills, reads and validates them.  A header is the sequence *)
(* of its sixteen bytes; a byte is a number below Base.                    *)
(*                                                                         *)
(* The state machine only runs through inputs: it fills a header with some *)
(* values, and then another byte may take the place of one of its bytes.   *)
(***************************************************************************)
EXTENDS Sequences, Functions, Integers

CONSTANTS
  Base,        \* 256
  Dollar, LetterP, LetterK, LetterT,    \* "$PKT"
  xhpidPacketLimit, xhpidFireLayer, xhpidStreamLimit,
  xhsrcOnboardLimit, xhsrcHavardServer, xhsrcRemoteLimit,
  ValidFlags,  \* the bytes with no other bits than xhfValidFlags
  XioHarMaxPayloadLength,
  Lengths,     \* payload lengths to fill in
  Blocks       \* block counts to fill in

VARIABLES h, given, phase

hdrVars == <<h, given, phase>>

Bytes == 0 .. Base - 1
Word == Base * Base * Base * Base
HdrBytes == 16
XioHarPacketStart == <<Dollar, LetterP, LetterK, LetterT>>

\* The enums number the packet IDs of datagrams below those of streams.
ASSUME XioHarvAssumption ==
  /\ Base \in Nat \ {0, 1} /\ {Dollar, LetterP, LetterK, LetterT} \subseteq Bytes
  /\ xhpidPacketLimit \in Nat /\ xhpidFireLayer \in Nat
  /\ xhpidPacketLimit < xhpidFireLayer
  /\ ValidFlags \subseteq Bytes
  /\ Lengths \subseteq 0 .. Word - 1 /\ Blocks \subseteq 0 .. Word - 1

-----------------------------------------------------------------------------
(* The functions of XioHarvGatewayPacket.cpp.                              *)

\* Mutant: the last byte is not in the sum.
SumShort(hdr) == SumFunctionOnSet(hdr, 1 .. HdrBytes - 1) % Base

\* The bytes are added up in one byte.
SumOf(hdr) == SumFunction(hdr) % Base

\* Mutant: the sum, not its complement.
LRCSum(hdr) == SumOf(hdr)
xhgCalculateLRC(hdr) == Base - 1 - SumOf(hdr)

\* A value without its last byte: a shift by 8 bits.
Shifted(value) == value \div Base

xhgSetValue32(value) ==
  <<value % Base, Shifted(value) % Base, Shifted(Shifted(value)) % Base,
    Shifted(Shifted(Shifted(value))) % Base>>

xhgGetValue32(field) ==
  field[1] + Base * (field[2] + Base * (field[3] + Base * field[4]))

PacketID(hdr) == hdr[5]
Source(hdr) == hdr[6]
Flags(hdr) == hdr[8]
xhgGetPayloadLength(hdr) == xhgGetValue32(SubSeq(hdr, 9, 12))
xhgGetBlockCount(hdr) == xhgGetValue32(SubSeq(hdr, 13, 16))

\* The addition is unsigned.
xhgGetPacketLength(hdr) == (HdrBytes + xhgGetPayloadLength(hdr)) % Word

xhgFillHeader(pid, src, flags, length, count) ==
  LET zero == XioHarPacketStart \o <<pid, src, 0, flags>>
                \o xhgSetValue32(length) \o xhgSetValue32(count)
  IN [zero EXCEPT ![7] = xhgCalculateLRC(zero)]

ValidID(hdr) ==
  /\ PacketID(hdr) < xhpidPacketLimit \/ PacketID(hdr) >= xhpidFireLayer
  /\ PacketID(hdr) < xhpidStreamLimit
ValidSource(hdr) ==
  /\ Source(hdr) < xhsrcOnboardLimit \/ Source(hdr) >= xhsrcHavardServer
  /\ Source(hdr) < xhsrcRemoteLimit

xhgValidateHeader(hdr, length) ==
  /\ SubSeq(hdr, 1, 4) = XioHarPacketStart
  /\ ValidID(hdr) /\ ValidSource(hdr)
  /\ xhgCalculateLRC(hdr) = 0
  /\ Flags(hdr) \in ValidFlags
  /\ PacketID(hdr) <= xhpidPacketLimit =>
       xhgGetPayloadLength(hdr) <= XioHarMaxPayloadLength
  /\ xhgGetPacketLength(hdr) = length

-----------------------------------------------------------------------------
(* The inputs.                                                             *)

Filled(g) == xhgFillHeader(g.pid, g.src, g.flags, g.length, g.count)

HdrInit ==
  /\ given \in [pid : Bytes, src : Bytes, flags : Bytes,
                length : Lengths, count : Blocks]
  /\ h = Filled(given) /\ phase = "filled"

Corrupt ==
  /\ phase = "filled" /\ phase' = "corrupted"
  /\ \E i \in 1 .. HdrBytes, b \in Bytes :
        b # h[i] /\ h' = [h EXCEPT ![i] = b]
  /\ UNCHANGED given

HdrSpec == HdrInit /\ [][Corrupt]_hdrVars

-----------------------------------------------------------------------------
(* What must hold of it.                                                   *)

Accepted == xhgValidateHeader(h, xhgGetPacketLength(h))

\* What was filled in is read back, and the header is accepted for what its
\* fields are and not for its LRC.
FilledIsAccepted ==
  phase = "filled" =>
    /\ xhgGetPayloadLength(h) = given.length
    /\ xhgGetBlockCount(h) = given.count
    /\ Accepted <=> /\ ValidID(h) /\ ValidSource(h)
                    /\ given.flags \in ValidFlags
                    /\ given.pid < xhpidPacketLimit =>
                         given.length <= XioHarMaxPayloadLength

\* No header with one byte wrong is accepted, whatever it was filled with.
AnyByteMatters == phase = "corrupted" => ~Accepted
=============================================================================
