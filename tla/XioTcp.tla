------------------------------- MODULE XioTcp -------------------------------
(***************************************************************************)
(* The TCP half of the Xiomas gateway (src/Xiomas/xiomas_export.{h,cc}):   *)
(* the receivers that xiomas_tcp_svc makes for the instrument's            *)
(* connections (class xiomas_tcp_rcvr), on top of the exporter to          *)
(* tm_ip_export (module XioTcpExport, which this module extends: its Spec  *)
(* is what TcpSpec is to implement).                                       *)
(*                                                                         *)
(* The instrument's stream is a sequence of byte tokens.  The first byte   *)
(* of a well formed header carries the packet's length and its RTS flag;   *)
(* every other byte is a dollar sign or some other byte.  The instrument   *)
(* is external: it begins a connection anywhere in its stream, sends whole *)
(* packets, sends the next one on a connection only when it was given      *)
(* a CTS there, and closes the connection when it likes.                   *)
(*                                                                         *)
(* One callback runs at a time: active is the receiver whose               *)
(* protocol_input() runs, and each turn of its loop is a step.             *)
(***************************************************************************)
EXTENDS XioTcpExport, Sequences, FiniteSets

CONSTANTS
  HarvHdr,     \* sizeof(XioHarvardHeader)
  MaxPkt,      \* MAX_SPKT_LENGTH + 1000
  BufSize,     \* RCVR_BUFSIZE of xiomas_tcp_rcvr
  PktLens,     \* lengths of the packets the instrument sends
  Prefixes,    \* what a connection may start with before a packet
  MaxConns,    \* bound: connections the instrument holds open at a time
  MaxPackets   \* bound: packets it ever sends; once it has none left it opens
               \* no connection

VARIABLES
  rcvr,        \* the receiver objects
  active,      \* the receiver inside protocol_input(), or NoClient
  toSend       \* packets the instrument may still send

TcpVars == <<vars, rcvr, active, toSend>>

\* Bytes of the instrument's stream.
Bytes == [kind : {"header", "dollar", "other"}, len : Nat, rts : BOOLEAN]
Byte(kind) == [kind |-> kind, len |-> 0, rts |-> FALSE]
Header(len, rts) == [kind |-> "header", len |-> len, rts |-> rts]
Packet(len, rts) ==
  <<Header(len, rts)>> \o [i \in 1 .. len - 1 |-> Byte("other")]

ASSUME XioTcpAssumption ==
  /\ HarvHdr \in Nat \ {0, 1} /\ MaxPkt \in Nat /\ BufSize \in Nat
  /\ BufSize >= MaxData /\ MaxData >= HarvHdr
  /\ PktLens \subseteq HarvHdr .. MaxPkt
  /\ Prefixes \subseteq Seq(Bytes)
  /\ MaxConns \in Nat /\ MaxPackets \in Nat

\* transmitting_current_packet is not set by the constructor, nor read before
\* a header sets it.
Closed == [state |-> "closed", inbuf |-> <<>>, stream |-> <<>>, left |-> 0,
           seen |-> <<>>, transmitting |-> FALSE, timer |-> FALSE,
           told |-> TRUE, mark |-> 0]

\* state is state_t, or "closed" without an object; inbuf is buf[cp..nc); seen
\* is what the search passed over in buf[0..cp) during this callback; stream is
\* what the instrument sent and the program did not read yet; left is
\* bytes_remaining_in_packet; timer is TO; told says that the instrument
\* may send a packet here (it did not send one yet, or was given a CTS);
\* mark is history: the bytes the exporter had accepted when this receiver's
\* packet was complete.
TcpInit ==
  /\ Init
  /\ rcvr = [c \in Clients |-> Closed]
  /\ active = NoClient
  /\ toSend = MaxPackets

\* The bytes the library holds for a receiver.
Buffered(r) == Len(r.seen) + Len(r.inbuf)

Open(c) == rcvr[c].state # "closed"
Quiet == pc = "loop" /\ active = NoClient

-----------------------------------------------------------------------------
(* The instrument and its connections.                                     *)

\* xiomas_tcp_svc::new_client().  An object still referenced by the exporter
\* is not a new one.
NewClient(c) ==
  /\ Quiet /\ ~Open(c) /\ client # c /\ toSend > 0
  /\ Cardinality({d \in Clients : Open(d)}) < MaxConns
  /\ \E s \in Prefixes :
        rcvr' = [rcvr EXCEPT ![c] = [Closed EXCEPT !.state = "lost",
                                                   !.stream = s]]
  /\ UNCHANGED <<vars, active, toSend>>

SendPacket(c) ==
  /\ Quiet /\ Open(c) /\ rcvr[c].told /\ toSend > 0
  /\ \E len \in PktLens, rts \in BOOLEAN :
        rcvr' = [rcvr EXCEPT ![c].stream = @ \o Packet(len, rts),
                             ![c].told = FALSE]
  /\ toSend' = toSend - 1
  /\ UNCHANGED <<vars, active>>

\* The instrument closes the connection, perhaps in mid packet; the exporter
\* may still hold a reference to the object.
Close(c) ==
  /\ Quiet /\ Open(c)
  /\ rcvr' = [rcvr EXCEPT ![c] = Closed]
  /\ UNCHANGED <<vars, active, toSend>>

-----------------------------------------------------------------------------
(* xiomas_tcp_rcvr.                                                        *)

\* The library reads some bytes and calls protocol_input().
Receive(c) ==
  /\ Quiet /\ Open(c)
  /\ \E k \in 1 .. Len(rcvr[c].stream) :
        /\ Buffered(rcvr[c]) + k <= BufSize
        /\ rcvr' = [rcvr EXCEPT
                      ![c].inbuf = @ \o SubSeq(rcvr[c].stream, 1, k),
                      ![c].stream = SubSeq(@, k + 1, Len(@))]
  /\ active' = c
  /\ UNCHANGED <<vars, toSend>>

InLoop(c) == active = c /\ pc = "loop" /\ rcvr[c].inbuf # <<>>

\* What is left of a buffer when its first n bytes are used up.
Rest(buf, n) == SubSeq(buf, n + 1, Len(buf))

\* Mutant: a packet that is there in one piece is forwarded in one piece.
TxmitSizeUncapped(r) == IF Len(r.inbuf) >= r.left THEN r.left ELSE 0

\* get_txmit_size()
TxmitSize(r) ==
  LET n == Smaller(r.left, MaxData)
  IN IF Len(r.inbuf) >= n THEN n ELSE 0

\* xtr_lost: up to the next dollar sign, which a header starts with.
Search(c) ==
  /\ InLoop(c) /\ rcvr[c].state = "lost"
  /\ LET buf == rcvr[c].inbuf
         dollars == {i \in 1 .. Len(buf) : buf[i].kind # "other"}
     IN IF dollars = {}
        THEN rcvr' = [rcvr EXCEPT ![c].inbuf = <<>>, ![c].seen = <<>>]
        ELSE LET first == CHOOSE i \in dollars : \A j \in dollars : i <= j
             IN rcvr' = [rcvr EXCEPT
                           ![c].seen = @ \o SubSeq(buf, 1, first - 1),
                           ![c].inbuf = Rest(buf, first - 1),
                           ![c].state = "idle"]
  /\ UNCHANGED <<vars, active, toSend>>

\* xtr_idle reads the length from what should be a header.
AtHeader(c) ==
  InLoop(c) /\ rcvr[c].state = "idle" /\ Len(rcvr[c].inbuf) >= HarvHdr
WithLength(r) == [r EXCEPT !.left = Head(r.inbuf).len]
\* Mutant: an oversized packet is not refused.
GoodHeaderAnyLength(c) == Head(rcvr[c].inbuf).kind = "header"

GoodHeader(c) ==
  Head(rcvr[c].inbuf).kind = "header" /\ Head(rcvr[c].inbuf).len <= MaxPkt

BadHeader(c) ==
  /\ AtHeader(c) /\ ~GoodHeader(c)
  /\ rcvr' = [rcvr EXCEPT ![c] = [WithLength(rcvr[c]) EXCEPT
                                    !.seen = Append(@, Head(rcvr[c].inbuf)),
                                    !.inbuf = Tail(@), !.state = "lost"]]
  /\ UNCHANGED <<vars, active, toSend>>

\* Mutant: one header in all.
PacketisedOneHeader(n) == n + HdrSize

\* The size of n bytes in serio packets.
Packetised(n) == n + ((n + MaxData - 1) \div MaxData) * HdrSize

\* The end of the loop: forward n bytes, or skip them, from receiver state r.
\* When they complete the packet the receiver asks for an ack.
Pass(c, r, n) ==
  LET complete == n = r.left
      accepted == IF r.transmitting THEN written' ELSE written
  IN /\ IF r.transmitting
        THEN ForwardPacket(n, IF complete THEN c ELSE NoClient)
        ELSE IF complete THEN RequestAck(c) ELSE UNCHANGED vars
     /\ rcvr' = [rcvr EXCEPT ![c] =
                   [r EXCEPT !.seen = <<>>, !.inbuf = Rest(@, n), !.left = @ - n,
                             !.mark = IF complete THEN accepted ELSE @]]
     /\ UNCHANGED <<active, toSend>>

\* Mutant: the headers are not counted.
AcceptingUnpacked(r) ==
  [r EXCEPT !.state = "mid",
            !.transmitting = r.left <= circ_space(q),
            !.told = @ \/ Head(r.inbuf).rts]

\* A packet is forwarded only if all of it fits: the decision is made once, at
\* its header.  An RTS is answered by a CTS straight away if CTS() holds of the
\* receiver's own socket; since SendPacket() chooses rts freely, the packet
\* whose CTS is withheld behaves as the one without an RTS.
Accepting(r) ==
  [r EXCEPT !.state = "mid",
            !.transmitting = Packetised(r.left) <= circ_space(q),
            !.told = @ \/ Head(r.inbuf).rts]

BeginPacket(c) ==
  /\ AtHeader(c) /\ GoodHeader(c)
  /\ LET r == WithLength(rcvr[c])
     IN TxmitSize(r) > 0 /\ Pass(c, Accepting(r), TxmitSize(r))

MidPacket(c) ==
  /\ InLoop(c) /\ rcvr[c].state = "mid"
  /\ TxmitSize(rcvr[c]) > 0
  /\ Pass(c, rcvr[c], TxmitSize(rcvr[c]))

\* protocol_input() returns: nothing left, or not enough to go on.  What it
\* reports as used is gone; after a header without its first piece it reports
\* nothing, and what it searched through is presented again.
Used(r) == [r EXCEPT !.seen = <<>>]
Unreported(r) == [r EXCEPT !.inbuf = r.seen \o @, !.seen = <<>>]

ReadHeader(c) == AtHeader(c) /\ GoodHeader(c)
Return(c) ==
  /\ active = c /\ pc = "loop"
  /\ \/ /\ \/ rcvr[c].inbuf = <<>>
           \/ /\ InLoop(c) /\ rcvr[c].state = "idle"
              /\ Len(rcvr[c].inbuf) < HarvHdr
           \/ /\ InLoop(c) /\ rcvr[c].state = "mid"
              /\ TxmitSize(rcvr[c]) = 0
        /\ rcvr' = [rcvr EXCEPT ![c] = Used(@)]
     \/ /\ ReadHeader(c) /\ TxmitSize(WithLength(rcvr[c])) = 0
        /\ rcvr' = [rcvr EXCEPT ![c] = Unreported(WithLength(@))]
  /\ active' = NoClient
  /\ UNCHANGED <<vars, toSend>>

\* protocol_timeout(): CTS to the instrument, and reset(), which closes the
\* connection.
ProtocolTimeout(c) ==
  /\ Quiet /\ Open(c) /\ rcvr[c].timer
  /\ rcvr' = [rcvr EXCEPT ![c] = Closed]
  /\ UNCHANGED <<vars, active, toSend>>

-----------------------------------------------------------------------------
(* The exporter's own steps, and ack(), which it calls.                    *)

\* Mutant: ack() does nothing.
AckedNobody == {}

\* ack() sets the timer of its receiver; that of a closed one never fires.
Acked == {c \in Clients : AckedNow = c /\ Open(c)}

ExporterReturns ==
  /\ PqReturn
  /\ rcvr' = [c \in Clients |-> IF c \in Acked
                                THEN [rcvr[c] EXCEPT !.timer = TRUE]
                                ELSE rcvr[c]]
  /\ UNCHANGED <<active, toSend>>

ExporterTransmits ==
  PqTransmit /\ UNCHANGED <<rcvr, active, toSend>>

\* An event of the exporter's socket.
AtSocket(A) == active = NoClient /\ A /\ UNCHANGED <<rcvr, active, toSend>>

ExporterAck == AtSocket(Ack)
ExporterDrain == AtSocket(Drain)
ExporterConnect == AtSocket(Connect)
ExporterDrop == AtSocket(Drop)

Instrument(c) == NewClient(c) \/ SendPacket(c) \/ Close(c)
InputLoop(c) ==
  Search(c) \/ BadHeader(c) \/ BeginPacket(c) \/ MidPacket(c) \/ Return(c)
ExporterRuns == ExporterReturns \/ ExporterTransmits
ThreadRuns == ExporterRuns \/ \E c \in Clients : InputLoop(c)

TcpNext ==
  \/ \E c \in Clients : \/ Instrument(c) \/ Receive(c) \/ InputLoop(c)
                        \/ ProtocolTimeout(c)
  \/ ExporterRuns
  \/ ExporterAck \/ ExporterDrain \/ ExporterConnect \/ ExporterDrop

TcpSpec == TcpInit /\ [][TcpNext]_TcpVars

\* The thread runs on: inside a callback it is at one of its own steps, a turn
\* of a receiver's loop or a round of process_queue(), and takes it.  (This is
\* WF_TcpVars(ThreadRuns): InCallback is what enables ThreadRuns, and no other
\* step starts inside a callback.)
InCallback == pc = "pq" \/ (active # NoClient /\ pc = "loop")
RunsOn == []<>~InCallback \/ []<><<InCallback>>_TcpVars

\* Besides, the loop serves every timer and every ready descriptor of the
\* exporter's socket; the peer answers (see XioTcpExport).  The instrument
\* promises nothing.
TcpFairness ==
  /\ RunsOn
  /\ SF_TcpVars(ExporterAck) /\ SF_TcpVars(ExporterDrain)
  /\ SF_TcpVars(ExporterConnect)
  /\ \A c \in Clients : SF_TcpVars(ProtocolTimeout(c))

TcpFairSpec == TcpSpec /\ TcpFairness

-----------------------------------------------------------------------------
(* What must hold of it.                                                   *)

\* Every receiver has the shape of its class, and a receiver in xtr_mid_pkt
\* never has more left than the longest packet it may accept.
TcpTypeOK ==
  /\ \A c \in Clients :
       LET r == rcvr[c]
       IN /\ r.state \in {"closed", "lost", "idle", "mid"}
          /\ r.left \in Nat /\ (r.state = "mid" => r.left <= MaxPkt)
          /\ Buffered(r) <= BufSize
          /\ {r.transmitting, r.timer, r.told} \subseteq BOOLEAN
          /\ r.mark \in 0 .. written
  /\ active \in Clients \cup {NoClient}
  /\ toSend \in 0 .. MaxPackets

Complete(c) == rcvr[c].state = "mid" /\ rcvr[c].left = 0

\* A packet that is being forwarded still fits: the decision made at its header
\* holds to its end, however many callbacks and ACKs come between, so that no
\* serio packet of it is cut short.  (With one connection, until a commit
\* wraps.)
ReservationHolds ==
  ~wrapped => \A c \in Clients :
    rcvr[c].state = "mid" /\ rcvr[c].transmitting =>
      Packetised(rcvr[c].left) <= circ_space(q)

\* Each piece of a packet that is being forwarded goes into the buffer whole,
\* with its header.  (With one connection, until a commit wraps.)
PacketsComeInComplete ==
  [][~wrapped' => \A c \in Clients :
       LET r == rcvr[c]  new == rcvr'[c]
       IN new.state = "mid" /\ new.transmitting /\ Len(new.inbuf) < Len(r.inbuf)
            => written' - written = HdrSize + Len(r.inbuf) - Len(new.inbuf)
    ]_TcpVars

\* The instrument's receiver is acked only when every byte of its packet was
\* handed to the socket.
AckAfterDelivery ==
  ~wrapped => \A c \in Clients : rcvr[c].timer => sent >= rcvr[c].mark

\* A receiver that forwarded its packet and waits for its ack is not forgotten:
\* bytes are on their way over a connection that is up, and the ACK the peer
\* owes for them makes the exporter look at its client again.  (Until a
\* connection loses bytes or an ACK is for more than was in flight.)
WaiterIsOwed ==
  \A c \in Clients :
    trusted /\ lost = 0 /\ Quiet /\ client = c /\ rcvr[c].transmitting =>
      conn = "up" /\ obuf + inflight > 0

\* To the exporter the receivers are what XioTcpExport takes its callers to be.
ExporterSpec == Spec

\* A packet that was forwarded is answered: its receiver is acked, times out
\* and sends CTS, unless a connection broke.
ForwardedIsAnswered ==
  \A c \in Clients :
    Complete(c) /\ rcvr[c].transmitting
      ~> ~Open(c) \/ lost > 0 \/ pc = "dead"

(* What a comment says, and the code does not do.                          *)

\* ack() is "called from xiomas_tcp_export::process_queue() when the output
\* queue is empty.  Should send a CTS message": every complete packet is
\* answered, forwarded or not.
EveryPacketIsAnswered ==
  \A c \in Clients :
    Complete(c) ~> ~Open(c) \/ lost > 0 \/ pc = "dead"
=============================================================================
