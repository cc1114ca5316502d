------------------------------- MODULE XioUdp -------------------------------
(***************************************************************************)
(* The UDP half of the Xiomas gateway (src/Xiomas/xiomas_export.{h,cc}):   *)
(* the status datagrams of the instrument, received by xiomas_udp_rcvr and *)
(* forwarded one at a time by xiomas_udp_export, and the flags CTS (go on) *)
(* and NCTS (hold off) that xiomas_udp_txmtr sends back.                   *)
(*                                                                         *)
(* The instrument is external: it sends what it likes, a request to send   *)
(* (RTS) with any of it, but if it obeys it sends no status while told     *)
(* to hold off.  So are the library, the network, which may lose a flag,   *)
(* and tm_ip_export, which answers each packet with "OK\n".                *)
(***************************************************************************)
EXTENDS Sequences, Naturals

CONSTANTS
  Byte,        \* 256, the modulus of uint8_t
  Limit,       \* 10, the status packets received before NCTS
  MaxFlags,    \* bound: flags on their way to the instrument
  MaxLost,     \* bound: flags lost
  MaxSplits    \* bound: answers that arrive in two pieces

\* recd is pkts_recd; tx is the transmitter's socket, "down", "connecting" or
\* "up", and txbuf says that it retains bytes; conn and obuf are the same of
\* the exporter; packets is what the peer did not answer yet, pieces what
\* it answered and was not read; flags are on their way to the instrument, which
\* was told the last one it received, and obeys or not.
\* History: dropped counts flags lost, splits answers in two pieces, stuck says
\* that a connection broke with an answer owed.
VARIABLES recd, connect_requested, tx, txbuf, ack_pending, conn, obuf,
          packets, pieces, flags, told, obeys, dropped, splits, stuck

rcvrVars == <<recd, connect_requested>>
txVars == <<tx, txbuf>>
expVars == <<ack_pending, conn, obuf, packets, pieces, splits, stuck>>
instVars == <<flags, told, dropped>>
vars == <<rcvrVars, txVars, expVars, instVars, obeys>>

ASSUME XioUdpAssumption ==
  /\ Limit \in Nat \ {0} /\ Byte \in Nat /\ Byte > Limit + 1
  /\ {MaxFlags, MaxLost, MaxSplits} \subseteq Nat

\* A datagram: good says that its header is valid and names the scanner.
Datagrams == [good : BOOLEAN, status : BOOLEAN, rts : BOOLEAN]

Init ==
  /\ recd = 0 /\ connect_requested = FALSE
  /\ tx = "connecting" /\ txbuf = FALSE
  /\ ack_pending = FALSE /\ conn = "down" /\ obuf = FALSE
  /\ packets = 0 /\ pieces = 0 /\ splits = 0 /\ stuck = FALSE
  /\ flags = <<>> /\ told = "cts" /\ obeys \in BOOLEAN
  /\ dropped = 0

-----------------------------------------------------------------------------
(* xiomas_udp_export.                                                      *)

\* Mutant: only the library's buffer is looked at.
HoldsOffBuffer == obuf
HoldsOff == ack_pending \/ obuf

\* forward_packet(): a packet that cannot go now is dropped.
ForwardPacket ==
  IF HoldsOff THEN UNCHANGED expVars
  ELSE /\ ack_pending' = TRUE
       /\ \/ conn = "up" /\ packets' = packets + 1 /\ obuf' \in BOOLEAN
             /\ UNCHANGED stuck
          \/ conn = "down" /\ stuck' = TRUE /\ UNCHANGED <<packets, obuf>>
       /\ UNCHANGED <<conn, pieces, splits>>

\* Mutant: an answer that comes alone does not count.
ClearedByWhole(k) == IF k > 1 THEN FALSE ELSE ack_pending
Cleared(k) == FALSE

\* app_input(): whatever comes is taken for an answer.
AppInput ==
  /\ conn = "up" /\ \E k \in 1 .. pieces :
       pieces' = pieces - k /\ ack_pending' = Cleared(k)
  /\ UNCHANGED <<obeys, rcvrVars, txVars, instVars, conn, obuf, packets,
                 splits, stuck>>

-----------------------------------------------------------------------------
(* xiomas_udp_rcvr and xiomas_udp_txmtr.                                   *)

\* xiomas_udp_txmtr::CTS(), which connects a socket that is not connected.
CTS == tx = "up" /\ ~txbuf
AfterCTS == IF tx = "down" THEN "connecting" ELSE tx

\* Mutant: the count stays as it is at an RTS.
LessAsIs(d) == recd

\* An RTS takes one off the count of status packets, if there are any.
Granted(d) == d.good /\ d.rts /\ CTS
Less(d) == IF Granted(d) /\ recd > 0 THEN recd - 1 ELSE recd

\* Mutant: the count is a wider integer.
CountWide(d) == IF d.good /\ d.status THEN Less(d) + 1 ELSE Less(d)
Count(d) == IF d.good /\ d.status THEN (Less(d) + 1) % Byte ELSE Less(d)

Over(d) == d.good /\ d.status /\ Count(d) > Limit

\* The flag that sendCTS() or sendNCTS() gets out, if any.
Flag(d) == CASE Granted(d) /\ recd = 0 -> <<"cts">>
             [] Over(d) /\ CTS -> <<"ncts">>
             [] OTHER -> <<>>

\* protocol_input().
Datagram(d) ==
  /\ obeys /\ told = "ncts" => ~d.status
  /\ Len(flags) + Len(Flag(d)) <= MaxFlags
  /\ recd' = Count(d)
  /\ connect_requested' = TRUE
  /\ tx' = IF ~connect_requested \/ (d.good /\ d.rts) \/ Over(d)
           THEN AfterCTS ELSE tx
  /\ flags' = flags \o Flag(d)
  /\ IF Flag(d) = <<>> THEN UNCHANGED txbuf ELSE txbuf' \in BOOLEAN
  /\ IF d.good /\ d.status THEN ForwardPacket ELSE UNCHANGED expVars
  /\ UNCHANGED <<obeys, told, dropped>>

-----------------------------------------------------------------------------
(* The library, the network, the peer and the instrument.                  *)

TxEvent ==
  /\ \/ tx = "connecting" /\ tx' \in {"up", "down"} /\ UNCHANGED txbuf
     \/ tx = "up" /\ tx' = "down" /\ txbuf' = FALSE
     \/ tx = "up" /\ txbuf /\ txbuf' = FALSE /\ UNCHANGED tx
  /\ UNCHANGED <<obeys, rcvrVars, expVars, instVars>>

FlagArrives ==
  /\ flags # <<>> /\ flags' = Tail(flags) /\ told' = Head(flags)
  /\ UNCHANGED <<obeys, rcvrVars, txVars, expVars, dropped>>
FlagLost ==
  /\ flags # <<>> /\ dropped < MaxLost
  /\ flags' = Tail(flags) /\ dropped' = dropped + 1
  /\ UNCHANGED <<obeys, rcvrVars, txVars, expVars, told>>

ExporterDrains ==
  /\ conn = "up" /\ obuf /\ obuf' = FALSE
  /\ UNCHANGED <<obeys, rcvrVars, txVars, instVars, ack_pending, conn, packets,
                 pieces, splits, stuck>>
PeerAnswers ==
  /\ conn = "up" /\ ~obuf /\ packets > 0
  /\ packets' = packets - 1
  /\ \/ pieces' = pieces + 1 /\ UNCHANGED splits
     \/ splits < MaxSplits /\ splits' = splits + 1 /\ pieces' = pieces + 2
  /\ UNCHANGED <<obeys, rcvrVars, txVars, instVars, ack_pending, conn, obuf,
                 stuck>>
ExporterDrops ==
  /\ conn = "up" /\ conn' = "down"
  /\ stuck' = (stuck \/ ack_pending)
  /\ packets' = 0 /\ pieces' = 0 /\ obuf' = FALSE
  /\ UNCHANGED <<obeys, rcvrVars, txVars, instVars, ack_pending, splits>>
ExporterConnects ==
  /\ conn = "down" /\ conn' = "up"
  /\ UNCHANGED <<obeys, rcvrVars, txVars, instVars, ack_pending, obuf, packets,
                 pieces, splits, stuck>>

-----------------------------------------------------------------------------
Next ==
  \/ \E d \in Datagrams : Datagram(d)
  \/ AppInput
  \/ TxEvent \/ FlagArrives \/ FlagLost
  \/ ExporterDrains \/ PeerAnswers \/ ExporterDrops \/ ExporterConnects

Spec == Init /\ [][Next]_vars

\* An instrument that was told to hold off asks again and again; the network
\* delivers what it does not lose; the library writes and connects; the
\* peer answers.
Query == [good |-> TRUE, status |-> FALSE, rts |-> TRUE]
Fairness ==
  /\ SF_vars(told = "ncts" /\ CTS /\ Datagram(Query))
  /\ WF_vars(FlagArrives)
  /\ SF_vars(tx = "connecting" /\ tx' = "up" /\ TxEvent)
  /\ SF_vars(txbuf /\ tx' = tx /\ TxEvent)
  /\ SF_vars(tx = "down" /\ Datagram(Query))
  /\ SF_vars(AppInput) /\ SF_vars(ExporterDrains) /\ SF_vars(PeerAnswers)
  /\ SF_vars(ExporterConnects)

FairSpec == Spec /\ Fairness

-----------------------------------------------------------------------------
(* What must hold of it.                                                   *)

\* Every variable has its type; a count fits its byte.
TypeOK ==
  /\ recd \in 0 .. Byte - 1 /\ connect_requested \in BOOLEAN
  /\ tx \in {"down", "connecting", "up"} /\ txbuf \in BOOLEAN
  /\ ack_pending \in BOOLEAN /\ conn \in {"up", "down"} /\ obuf \in BOOLEAN
  /\ packets \in Nat /\ pieces \in Nat /\ splits \in 0 .. MaxSplits
  /\ told \in {"cts", "ncts"} /\ obeys \in BOOLEAN /\ stuck \in BOOLEAN
  /\ dropped \in 0 .. MaxLost

\* The peer is never sent a packet before it answered the last, but for one
\* for each answer that came in two pieces.
OneAtATime == packets <= 1 + splits

\* While packets are dropped because an answer is awaited, an answer is owed,
\* unless the connection broke while one was.
AnswerIsOwed == ack_pending /\ ~stuck => packets + pieces > 0

\* An instrument that was told to hold off, obeys and asks again is told to go
\* on: every query takes one packet off the count until it is answered.
HeldOffIsReleased == obeys /\ told = "ncts" ~> told = "cts"
=============================================================================
